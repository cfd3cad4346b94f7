----------------------------- MODULE SetupProofs -----------------------------
(***************************************************************************)
(* Proofs about the setup, for any file: any lines, however many, in any   *)
(* number of stanzas.                                                      *)
(***************************************************************************)
EXTENDS Setup, SequenceTheorems, TLAPS

-----------------------------------------------------------------------------
(* Types *)

\* The elements of a sequence of words are words.
LEMMA WordsOf == ASSUME NEW args \in Words PROVE RangeOf(args) \subseteq Word
BY DEF RangeOf, Words

\* A new instance is one, and so is how the API server is reached.
LEMMA NewTyped ==
    /\ \A zones \in Words, served \in SUBSET Nat : New(zones, served) \in Instance
    /\ NoAccess \in Access
    /\ \A k \in Instance : Conf(k) \in Access
<1>1. NoAccess \in Access
  BY EmptySeq DEF NoAccess, Access, Optional, Words
<1>2. \A k \in Instance : Conf(k) \in Access
  BY <1>1 DEF Conf, Instance, Optional
<1>3. ASSUME NEW zones \in Words, NEW served \in SUBSET Nat
      PROVE  New(zones, served) \in Instance
  BY DEF New, Instance, Mode, TTL, Optional
<1> QED BY <1>1, <1>2, <1>3

\* Every option amends one field of an instance ...
LEMMA Amended ==
    ASSUME NEW k \in Instance, NEW field, NEW x,
           \/ field = "mode" /\ x \in Mode
           \/ field = "zoneObject" /\ x \in Word
           \/ field = "namespaces" /\ x \in SUBSET Word
           \/ field = "conf" /\ x \in Access
           \/ field = "fall" /\ x \in SUBSET Word
           \/ field = "ttl" /\ x \in TTL
           \/ field \in {"transitive", "slave"} /\ x \in BOOLEAN
    PROVE  [k EXCEPT ![field] = x] \in Instance
BY DEF Instance, Optional

\* ... the last one when the stanza ends ...
LEMMA ZoneRefAmended ==
    ASSUME NEW k \in Instance, NEW ref \in Word \X Word
    PROVE  [k EXCEPT !.zoneRef = ref] \in Instance
BY DEF Instance, Optional

\* ... or one field of the configuration of the API server, and maybe its CA.
LEMMA AccessAmended ==
    ASSUME NEW c \in Access, NEW field, NEW x, NEW ca,
           \/ field \in {"servers", "labels"} /\ x \in Words
           \/ field \in {"token", "cert", "kubeconfig"} /\ x \in Word,
           ca \in Optional(Word)
    PROVE  /\ [c EXCEPT ![field] = x] \in Access
           /\ [c EXCEPT ![field] = x, !.ca = ca] \in Access
BY DEF Access, Optional

\* The same three steps on the instance of the stanza.
LEMMA SetTyped ==
    ASSUME TypeOK, NEW field, NEW x, Set(field, x),
           \/ field = "mode" /\ x \in Mode
           \/ field = "zoneObject" /\ x \in Word
           \/ field = "namespaces" /\ x \in SUBSET Word
           \/ field = "conf" /\ x \in Access
           \/ field = "fall" /\ x \in SUBSET Word
           \/ field = "ttl" /\ x \in TTL
           \/ field \in {"transitive", "slave"} /\ x \in BOOLEAN
    PROVE  TypeOK'
<1>1. k8s \in Instance
  BY DEF TypeOK
<1>2. [k8s EXCEPT ![field] = x] \in Instance
  BY <1>1, Amended
<1> QED BY <1>2 DEF Set, TypeOK

\* A line about the connection leaves a client configuration that is well-formed.
LEMMA ReachTyped ==
    ASSUME TypeOK, NEW field, NEW x, Reach(field, x),
           \/ field \in {"servers", "labels"} /\ x \in Words
           \/ field \in {"token", "cert", "kubeconfig"} /\ x \in Word
    PROVE  TypeOK'
<1>1. Conf(k8s) \in Access
  BY NewTyped DEF TypeOK
<1> DEFINE conf == [Conf(k8s) EXCEPT ![field] = x]
<1>2. conf \in Access
  BY <1>1, AccessAmended DEF Optional
<1>3. Set("conf", conf)
  BY DEF Reach
<1> HIDE DEF conf
<1> QED BY <1>2, <1>3, SetTyped

\* So does a line with a credential and the authority that comes with it.
LEMMA AuthenticateTyped ==
    ASSUME TypeOK, NEW field \in {"token", "cert"}, NEW x \in Word,
           NEW ca \in Optional(Word), Authenticate(field, x, ca)
    PROVE  TypeOK'
<1>1. Conf(k8s) \in Access
  BY NewTyped DEF TypeOK
<1> DEFINE conf == [Conf(k8s) EXCEPT ![field] = x, !.ca = ca]
<1>2. conf \in Access
  BY <1>1, AccessAmended
<1>3. Set("conf", conf)
  BY DEF Authenticate
<1> HIDE DEF conf
<1> QED BY <1>2, <1>3, SetTyped

\* Every line leaves an instance in a stanza.
LEMMA LineTyped ==
    ASSUME TypeOK, NEW property \in Word, NEW args \in Words, ParseLine(property, args)
    PROVE  TypeOK'
<1>1. ASSUME Refuse PROVE TypeOK'
  BY <1>1 DEF Refuse, Phase, TypeOK
<1>2. /\ RangeOf(args) \subseteq Word
      /\ \A i \in 1 .. Len(args) : args[i] \in Word
      /\ Len(args) \in Nat
      /\ args # <<>> => Len(args) > 0
  BY WordsOf DEF Words
<1>3. IsFlag(args) => Truth(args) \in BOOLEAN
  BY InputIsTyped DEF IsFlag, Truth
<1>4. k8s.namespaces \in SUBSET Word
  BY DEF TypeOK, Instance
<1>5. CASE SetMode(args)
  BY <1>1, <1>5, SetTyped DEF SetMode
<1>6. CASE SetZoneObject(args)
  BY <1>1, <1>2, <1>6, SetTyped DEF SetZoneObject
<1>7. CASE AddNamespaces(args)
  BY <1>1, <1>2, <1>4, <1>7, SetTyped DEF AddNamespaces
<1>8. CASE SetEndpoint(args)
  BY <1>1, <1>8, ReachTyped DEF SetEndpoint
<1>9. CASE SetToken(args)
  <2>1. \A dir : CAIn(dir) \in Optional(Word)
    <3>1. Conf(k8s).ca \in Optional(Word)
      BY NewTyped DEF TypeOK, Access
    <3> QED BY <3>1, InputIsTyped DEF CAIn, Optional
  <2>2. "token" \in Word
    BY InputIsTyped
  <2>3. CASE Len(args) = 2 /\ Authenticate("token", args[1], args[2])
    BY <2>3, <1>2, AuthenticateTyped DEF Optional
  <2>4. CASE Len(args) = 1 /\ Reach("token", args[1])
    BY <2>4, <1>2, ReachTyped
  <2>5. CASE Authenticate("token", "token", CAIn(args[1]))
    BY <2>1, <2>2, <2>5, AuthenticateTyped
  <2> QED BY <2>3, <2>4, <2>5, <1>1, <1>9 DEF SetToken
<1>10. CASE SetTLS(args)
  BY <1>1, <1>2, <1>10, AuthenticateTyped DEF SetTLS, Optional
<1>11. CASE SetLabels(args)
  BY <1>1, <1>11, ReachTyped DEF SetLabels
<1>12. CASE SetFallthrough(args)
  <2>1. (IF args = <<>> THEN {"."} ELSE RangeOf(args)) \in SUBSET Word
    BY <1>2, InputIsTyped
  <2> QED BY <2>1, <1>12, SetTyped DEF SetFallthrough
<1>13. CASE SetTTL(args)
  <2>1. CASE Refuse
    BY <2>1, <1>1
  <2>2. ASSUME NEW x \in TTL, Set("ttl", x) PROVE TypeOK'
    BY <2>2, SetTyped, Zenon
  <2>3. Refuse \/ \E x \in TTL : Set("ttl", x)
    BY <1>13, Zenon DEF SetTTL
  <2> QED BY <2>1, <2>2, <2>3
<1>14. CASE SetKubeconfig(args)
  BY <1>1, <1>2, <1>14, ReachTyped DEF SetKubeconfig
<1>15. CASE SetTransitive(args)
  BY <1>1, <1>3, <1>15, SetTyped DEF SetTransitive
<1>16. CASE SetSlave(args)
  BY <1>1, <1>3, <1>16, SetTyped DEF SetSlave
<1>17. CASE RefuseUnknown(property, args)
  BY <1>1, <1>17 DEF RefuseUnknown
<1> QED BY <1>5, <1>6, <1>7, <1>8, <1>9, <1>10, <1>11, <1>12, <1>13, <1>14, <1>15,
           <1>16, <1>17 DEF ParseLine

-----------------------------------------------------------------------------
(* A server that starts *)

\* An accepted stanza: mode Primary, one base, one namespace and the zone
\* object in it.
Accepted(k) ==
    /\ IsPrimary(k) /\ OneBase(k)
    /\ k.zoneRef \in Word \X Word /\ k.namespaces = {k.zoneRef[2]}

\* At most one stanza gets accepted, and what starts is what it declares.
Prepared ==
    /\ ks # <<>> => Len(ks) = 1 /\ Accepted(ks[1])
    /\ phase \in {"connect", "started"} => ks # <<>>
    /\ phase = "started" => /\ scope = ScopeOf(ks[1])
                            /\ access = AccessOf(ks[1].conf)
                            /\ ~Clashes(ks[1].conf)

\* What a stanza ends with.
LEMMA StanzaEndsPrepared ==
    TypeOK /\ Prepared /\ StanzaEnds => TypeOK' /\ Prepared'
<1> SUFFICES ASSUME TypeOK, Prepared, StanzaEnds PROVE TypeOK' /\ Prepared'
  OBVIOUS
<1>1. CASE Refuse
  BY <1>1 DEF Refuse, TypeOK, Phase, Prepared
<1>2. CASE ~Refuse
  <2> DEFINE ref == <<k8s.zoneObject, CHOOSE n \in k8s.namespaces : TRUE>>
             k   == [k8s EXCEPT !.zoneRef = ref]
  <2>1. /\ ProperPrimary(k8s) /\ ~DeclaredAgain(k8s) /\ OneBase(k8s)
        /\ k8s.conf # None /\ AcceptedAs(k)
    BY <1>2 DEF StanzaEnds, Dereferences
  <2>2. k8s \in Instance /\ ks \in Seq(Instance)
    BY DEF TypeOK
  <2>3. ks = <<>>
    BY <2>1 DEF DeclaredAgain
  <2>4. PICK n \in k8s.namespaces : k8s.namespaces = {n}
    BY <2>1 DEF ProperPrimary
  <2>5. ref = <<k8s.zoneObject, n>>
    BY <2>4
  <2>6. n \in Word /\ k8s.zoneObject \in Word
    BY <2>1, <2>2, <2>4 DEF Instance, Optional, ProperPrimary
  <2> HIDE DEF ref
  <2>7. k \in Instance
    <3>1. ref \in Word \X Word
      BY <2>5, <2>6
    <3> QED BY <2>2, <3>1, ZoneRefAmended, Zenon
  <2>8. Accepted(k)
    BY <2>1, <2>2, <2>4, <2>5, <2>6
    DEF Accepted, ProperPrimary, IsPrimary, OneBase, Instance
  <2> HIDE DEF k
  <2>9. ks' = <<k>> /\ Len(ks') = 1 /\ ks'[1] = k
    BY <2>1, <2>3 DEF AcceptedAs
  <2>10. ks' \in Seq(Instance)
    BY <2>7, <2>9
  <2> QED BY <2>1, <2>7, <2>8, <2>9, <2>10 DEF AcceptedAs, TypeOK, Phase, Prepared
<1> QED BY <1>1, <1>2

\* Both are kept by everything else.
LEMMA PreparedNext == TypeOK /\ Prepared /\ [Next]_vars => TypeOK' /\ Prepared'
<1> SUFFICES ASSUME TypeOK, Prepared, [Next]_vars PROVE TypeOK' /\ Prepared'
  OBVIOUS
<1>1. CASE UNCHANGED vars
  BY <1>1 DEF vars, TypeOK, Prepared
<1>2. ASSUME NEW own \in ZoneLists, BeginStanza(own) PROVE TypeOK' /\ Prepared'
  <2>1. CASE Refuse
    BY <2>1 DEF Refuse, TypeOK, Phase, Prepared
  <2>2. CASE ~Refuse
    <3> DEFINE zones == IF own # <<>> THEN own ELSE BlockKeys
    <3>1. zones \in Words
      BY InputIsTyped
    <3> HIDE DEF zones
    <3>2. Forward(zones) \in SUBSET Nat
      BY <3>1 DEF Forward, Words
    <3>3. /\ k8s' = New(zones, Forward(zones))
          /\ phase' = "stanza" /\ UNCHANGED <<lines, ks, access, scope>>
      BY <1>2, <2>2 DEF BeginStanza, zones
    <3>4. k8s' \in Instance
      BY <3>1, <3>2, <3>3, NewTyped
    <3> QED BY <3>3, <3>4 DEF TypeOK, Phase, Prepared
  <2> QED BY <2>1, <2>2
<1>3. ASSUME NEW d \in Directive, ParseLine(d[1], d[2]) PROVE TypeOK' /\ Prepared'
  <2>1. d[1] \in Word /\ d[2] \in Words
    BY InputIsTyped
  <2>2. TypeOK'
    BY <1>3, <2>1, LineTyped
  <2>3. UNCHANGED <<ks, access, scope>> /\ phase = "stanza" /\ phase' \in {"stanza", "refused"}
    BY <1>3 DEF ParseLine, Line, Refuse, Set, Reach, Authenticate, SetMode, SetZoneObject,
         AddNamespaces, SetEndpoint, SetToken, SetTLS, SetLabels, SetFallthrough,
         SetTTL, SetKubeconfig, SetTransitive, SetSlave, RefuseUnknown
  <2> QED BY <2>2, <2>3 DEF Prepared
<1>4. CASE StanzaPanics
  BY <1>4 DEF StanzaPanics, Panic, TypeOK, Phase, Prepared
<1>5. CASE StanzaEnds
  BY <1>5, StanzaEndsPrepared
<1>6. CASE BlockEnds
  BY <1>6 DEF BlockEnds, Refuse, TypeOK, Phase, Prepared
<1>7. CASE Connect
  <2>1. CASE Refuse
    BY <2>1 DEF Refuse, TypeOK, Phase, Prepared
  <2>2. CASE ~Refuse
    <3>1. /\ phase = "connect" /\ phase' = "started" /\ UNCHANGED <<lines, k8s, ks>>
          /\ access' = AccessOf(ks[1].conf) /\ ~Clashes(ks[1].conf)
          /\ scope' = ScopeOf(ks[1])
      BY <1>7, <2>2 DEF Connect
    <3>2. ks[1] \in Instance /\ Accepted(ks[1])
      BY <3>1 DEF Prepared, TypeOK
    <3>3. access' \in Optional({"kubeconfig", "cluster", "token", "endpoint"})
      BY <3>1 DEF AccessOf, Optional
    <3>4. scope' \in Scope
      BY <3>1, <3>2 DEF ScopeOf, Scope, Accepted, Optional, Instance
    <3> QED BY <3>1, <3>2, <3>3, <3>4 DEF TypeOK, Phase, Prepared, Optional
  <2> QED BY <2>1, <2>2
<1> QED BY <1>1, <1>2, <1>3, <1>4, <1>5, <1>6, <1>7 DEF Next

\* TypeOK and Prepared hold always.
LEMMA AlwaysPrepared == Spec => [](TypeOK /\ Prepared)
<1>1. Init => TypeOK /\ Prepared
  <2>1. <<>> \in Words
    BY DEF Words
  <2> QED BY <2>1, NewTyped DEF Init, TypeOK, Phase, Optional, Prepared
<1> QED BY <1>1, PreparedNext, PTL DEF Spec

\* Every variable of a setup keeps its type, for any stanzas and any clients.
THEOREM SetupTyped == Spec => []TypeOK
BY AlwaysPrepared, PTL

\* Whatever a file holds, a server that starts is a primary for one base
\* domain and one zone object in the one namespace it watches (ParseStanza).
THEOREM PrimaryOnly == Spec => []StartsAsPrimary
<1>1. Prepared => StartsAsPrimary
  <2> SUFFICES ASSUME Prepared, phase = "started" PROVE StartsAsPrimary
    BY DEF StartsAsPrimary
  <2>1. Len(ks) = 1 /\ Accepted(ks[1]) /\ scope = ScopeOf(ks[1])
    BY DEF Prepared
  <2>2. ks[1].zoneRef # None
    BY <2>1, InputIsTyped DEF Accepted
  <2> QED BY <2>1, <2>2 DEF StartsAsPrimary, Accepted, ScopeOf
<1> QED BY <1>1, AlwaysPrepared, PTL

\* Whatever a file holds, a kubeconfig or a token it names is what the server
\* authenticates with, or the server does not start, and a client certificate is
\* passed over only beside one of them or without an endpoint (getClientConfig).
THEOREM CredentialsAreUsed == Spec => []CredentialsUsed
<1>1. Prepared => CredentialsUsed
  BY DEF Prepared, CredentialsUsed, Clashes, AccessOf
<1> QED BY <1>1, AlwaysPrepared, PTL
=============================================================================
