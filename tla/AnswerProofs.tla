----------------------------- MODULE AnswerProofs -----------------------------
(***************************************************************************)
(* That answers are what the declarations say, for any zones, entries and  *)
(* names.  First what a request knows of the caches in each of its phases, *)
(* as long as they stand still: the invariant everything rests on.  Then   *)
(* that the walk along the labels of a name ends in the zone that owns the *)
(* name by its declared domains, and that what is found there is what is   *)
(* declared for the name.                                                  *)
(***************************************************************************)
EXTENDS NameProofs

-----------------------------------------------------------------------------
(* What a request knows. *)

\* The zones of the way are those in the cache, and the first one has a domain
\* below the zone the plugin is declared for.
WayIsHeld ==
    /\ \A i \in 1 .. Len(req.path) :
         /\ req.path[i].low \in 1 .. Len(Asked) + 1
         /\ \E z \in Zone : Has(z) /\ req.path[i].zone = held[z]
    /\ \E d \in req.path[1].zone.spec.domains :
         SubSeq(Asked, req.path[1].low, Len(Asked)) = d \o req.base

\* No zone nested in the last one begins at a label the walk has passed.
NoneBetween ==
    /\ req.at \in 0 .. Here.low - 1
    /\ \A a \in req.at + 1 .. Here.low - 1 : \A z \in Zone :
         Has(z) /\ held[z].spec.parent = Here.zone.name =>
           SubSeq(Asked, a, Here.low - 1) \notin held[z].spec.domains

Way == WayIsHeld /\ NoneBetween /\ (~transitive => Len(req.path) <= 2)

\* The walk is over: no label is left, or the server does not go further.
Arrived == req.path # <<>> /\ (req.at = 0 \/ (~transitive /\ IsNested))

\* The name is not looked up at all.
Refused == InReverse \/ (Denied /\ (AtApex => Type \in {"PTR", "SRV"}))

\* There is no entry at all of that name, so that the wildcard is tried, or none
\* in the zone and none of the wildcard, if that is tried.
NoneAtAll == EntriesNamed(Wanted) = {} /\ Len(Wanted) > 1
Nothing ==
    Refused \/ /\ Filtered(EntriesNamed(Wanted)) = {}
               /\ NoneAtAll => Filtered(EntriesNamed(Wildcard(Wanted))) = {}
Gives(data, name) ==
    LET hits == Filtered(EntriesNamed(name)) IN hits # {} /\ data = Data(hits)

\* What is known of the caches in each phase after the walk.
Looking ==
    /\ req.pc \in {"lookup", "wildcard", "address", "verdict"} =>
         Arrived /\ ~Delegated /\ Type # "SOA"
    /\ req.pc = "wildcard" => NoneAtAll /\ ~InReverse
    /\ req.pc = "address" => Type = "PTR"
    /\ req.pc = "verdict" => Nothing

\* What an answer tells of the caches.
Tells(out) ==
    \/ out.kind \in {"next", "failure"}
    \/ out.kind = "delegation" /\ Arrived /\ Delegated
    \/ /\ out.kind \in {"nxdomain", "servfail"} /\ out.soa = Apex
       /\ Arrived /\ ~Delegated /\ Nothing
    \/ /\ out.kind \in {"nodata", "answer"}
       /\ out.kind = "nodata" \/ Type = "SOA" => out.soa = Apex
       /\ Arrived /\ ~Delegated
       /\ Type \in {"A", "SRV"} =>
            /\ ~InReverse
            /\ Gives(out.data, Wanted) \/ (NoneAtAll /\ Gives(out.data, Wildcard(Wanted)))

\* As long as the caches stand still.
Known ==
    req.steady =>
      /\ req.path # <<>> => Way
      /\ Looking
      /\ req.pc = "done" => Tells(req.out)

-----------------------------------------------------------------------------
(* Steps of the request. *)

\* Nothing the phases after the walk know depends on more than the caches, the
\* question and the zones of the request.
LEMMA SameKnowledge ==
    ASSUME UNCHANGED <<held, transitive>>, req'.query = req.query, req'.path = req.path,
           req'.at = req.at, req'.base = req.base
    PROVE  /\ Here' = Here /\ Type' = Type /\ Apex' = Apex
           /\ AtApex' = AtApex /\ Arrived' = Arrived /\ Delegated' = Delegated
           /\ Way' = Way /\ NoneAtAll' = NoneAtAll /\ Nothing' = Nothing
           /\ InReverse' = InReverse
           /\ \A data : /\ Gives(data, Wanted)' = Gives(data, Wanted)
                        /\ Gives(data, Wildcard(Wanted))' = Gives(data, Wildcard(Wanted))
<1>1. Here' = Here /\ Type' = Type /\ Asked' = Asked
  BY DEF Here, Type, Asked
<1>2. Apex' = Apex /\ Rel' = Rel /\ IsNested' = IsNested
  BY <1>1 DEF Apex, Rel, IsNested
<1>3. AtApex' = AtApex /\ Arrived' = Arrived
  BY <1>2 DEF AtApex, Arrived, IsNested
<1>4. Delegated' = Delegated
  BY <1>1, <1>2, <1>3 DEF Delegated
<1>5. Protocols' = Protocols
  BY <1>2 DEF Protocols
<1>6. First' = First
  BY <1>5 DEF First
<1>7. IsService' = IsService /\ Service' = Service
  BY <1>2, <1>5, <1>6 DEF IsService, Service
<1>8. HostPart' = HostPart
  BY <1>2, <1>6, <1>7 DEF HostPart
<1>9. UsesSpecial' = UsesSpecial
  BY <1>1, <1>3 DEF UsesSpecial
<1>10. Wanted' = Wanted
  BY <1>8, <1>9 DEF Wanted
<1>11. ASSUME NEW name PROVE EntriesNamed(name)' = EntriesNamed(name)
  BY DEF EntriesNamed, Has
<1>12. ASSUME NEW entries PROVE Filtered(entries)' = Filtered(entries)
  BY <1>1 DEF Filtered
<1>13. ASSUME NEW entries PROVE Data(entries)' = Data(entries)
  BY <1>1, <1>2, <1>6, <1>7, <1>9 DEF Data, Fine, Named
<1>14. Refused' = Refused /\ InReverse' = InReverse
  <2>1. InReverse' = InReverse
    BY <1>9 DEF InReverse
  <2> QED BY <1>1, <1>2, <1>3, <1>7, <2>1 DEF Refused, Denied, Malformed
<1>15. NoneAtAll' = NoneAtAll
  BY <1>10, <1>11 DEF NoneAtAll
<1>16. Nothing' = Nothing
  BY <1>10, <1>11, <1>12, <1>14, <1>15 DEF Nothing, Wildcard
<1>17. Way' = Way
  BY <1>1 DEF Way, WayIsHeld, NoneBetween, Has
<1>18. ASSUME NEW data
       PROVE  /\ Gives(data, Wanted)' = Gives(data, Wanted)
              /\ Gives(data, Wildcard(Wanted))' = Gives(data, Wildcard(Wanted))
  BY <1>10, <1>11, <1>12, <1>13 DEF Gives, Wildcard
<1> QED BY <1>1, <1>2, <1>3, <1>4, <1>14, <1>15, <1>16, <1>17, <1>18

\* The request goes on to a phase that it has the knowledge for.
LEMMA GoesKnowing ==
    ASSUME TypeOK, Known, UNCHANGED <<held, transitive>>, req.path # <<>>,
           NEW pc \in {"lookup", "wildcard", "address", "verdict"}, Goto(pc),
           req.steady => /\ Arrived /\ ~Delegated /\ Type # "SOA"
                         /\ pc = "wildcard" => NoneAtAll /\ ~InReverse
                         /\ pc = "address" => Type = "PTR"
                         /\ pc = "verdict" => Nothing
    PROVE  Known'
<1>1. /\ req'.pc = pc /\ req'.query = req.query /\ req'.path = req.path
      /\ req'.at = req.at /\ req'.base = req.base /\ req'.steady = req.steady
  BY DEF TypeOK, RequestOK, Goto, Request
<1>2. /\ Type' = Type /\ Arrived' = Arrived /\ Delegated' = Delegated
      /\ Way' = Way /\ NoneAtAll' = NoneAtAll /\ Nothing' = Nothing
      /\ InReverse' = InReverse
  BY <1>1, SameKnowledge
<1> QED BY <1>1, <1>2 DEF Known, Looking

\* The request is answered by what it knows.
LEMMA AnswersKnowing ==
    ASSUME TypeOK, Known, UNCHANGED <<held, transitive>>,
           NEW out, Answer(out), req.steady => Tells(out)
    PROVE  Known'
<1>1. /\ req'.pc = "done" /\ req'.out = out /\ req'.query = req.query /\ req'.path = req.path
      /\ req'.at = req.at /\ req'.base = req.base /\ req'.steady = req.steady
  BY DEF TypeOK, RequestOK, Answer, Request
<1>2. /\ Type' = Type /\ Apex' = Apex /\ Arrived' = Arrived /\ Delegated' = Delegated
      /\ Way' = Way /\ NoneAtAll' = NoneAtAll /\ Nothing' = Nothing
      /\ InReverse' = InReverse
      /\ Gives(out.data, Wanted)' = Gives(out.data, Wanted)
      /\ Gives(out.data, Wildcard(Wanted))' = Gives(out.data, Wildcard(Wanted))
  BY <1>1, SameKnowledge
<1>3. Tells(out)' = Tells(out)
  BY <1>2 DEF Tells
<1> QED BY <1>1, <1>2, <1>3 DEF Known, Looking

\* The way goes on to a zone of the cache.
LEMMA WalksKnowing ==
    ASSUME TypeOK, Known, UNCHANGED <<held, transitive>>, NEW cut \in Cut, Walk(cut),
           req.steady => cut.low \in 1 .. Len(Asked) + 1,
           NEW z \in Zone, Has(z), cut.zone = held[z],
           req.path = <<>> => \E d \in cut.zone.spec.domains :
             SubSeq(Asked, cut.low, Len(Asked)) = d \o req.base,
           transitive \/ Len(req.path) <= 1
    PROVE  Known'
<1> DEFINE p == req.path  k == Len(req.path)
<1>1. p \in Seq(Cut) /\ k \in Nat
  BY LenProperties DEF TypeOK, RequestOK, Request
<1>2. /\ req'.pc = "walk" /\ req'.at = cut.low - 1 /\ req'.path = Append(p, cut)
      /\ req'.query = req.query /\ req'.base = req.base /\ req'.steady = req.steady
  BY DEF Walk, TypeOK, RequestOK, Request
<1>3. /\ Len(req'.path) = k + 1 /\ req'.path[k + 1] = cut /\ req'.path # <<>>
      /\ \A i \in 1 .. k : req'.path[i] = p[i]
  BY <1>1, <1>2, AppendProperties
<1> SUFFICES ASSUME req.steady PROVE Way'
  BY <1>2 DEF Known, Looking
<1>4. k > 0 => Way
  BY <1>1, EmptySeq DEF Known
<1>5. WayIsHeld'
  <2>1. \A i \in 1 .. k + 1 :
          /\ req'.path[i].low \in 1 .. Len(Asked) + 1
          /\ \E y \in Zone : Has(y)' /\ req'.path[i].zone = held'[y]
    <3>1. \A i \in 1 .. k + 1 : i = k + 1 \/ i \in 1 .. k
      BY <1>1
    <3>2. \A y : Has(y)' = Has(y)
      BY DEF Has
    <3>3. \A i \in 1 .. k : /\ p[i].low \in 1 .. Len(Asked) + 1
                            /\ \E y \in Zone : Has(y) /\ p[i].zone = held[y]
      <4>1. (\E i \in 1 .. k : TRUE) => k > 0
        BY <1>1
      <4>2. k > 0 => WayIsHeld
        BY <1>4, Zenon DEF Way
      <4> QED BY <4>1, <4>2, Zenon DEF WayIsHeld
    <3>4. Asked' = Asked
      BY <1>2 DEF Asked
    <3> DEFINE InCache(i) == /\ req'.path[i].low \in 1 .. Len(Asked') + 1
                           /\ \E y \in Zone : Has(y)' /\ req'.path[i].zone = held'[y]
    <3>5. \A i \in 1 .. k : InCache(i)
      BY <1>3, <3>2, <3>3, <3>4
    <3>6. InCache(k + 1)
      <4>1. Has(z)' /\ req'.path[k + 1].zone = held'[z]
        BY <1>3, <3>2
      <4>2. req'.path[k + 1].low \in 1 .. Len(Asked') + 1
        BY <1>3, <3>4
      <4> QED BY <4>1, <4>2
    <3>7. \A i \in 1 .. k + 1 : InCache(i)
      <4> HIDE DEF InCache, k
      <4> QED BY <3>1, <3>5, <3>6
    <3> QED BY <3>4, <3>7
  <2>2. CASE k = 0
    <3>1. req.path = <<>> /\ req'.path[1] = cut
      BY <1>1, <1>3, <2>2, EmptySeq
    <3> QED BY <1>2, <1>3, <2>1, <3>1 DEF WayIsHeld, Asked
  <2>3. CASE k > 0
    <3>1. req'.path[1] = p[1] /\ WayIsHeld
      BY <1>1, <1>3, <1>4, <2>3 DEF Way
    <3> QED BY <1>2, <1>3, <2>1, <3>1 DEF WayIsHeld, Asked
  <2> QED BY <1>1, <2>2, <2>3
<1>6. NoneBetween'
  <2>1. Here' = cut /\ cut.low \in Nat
    BY <1>3 DEF Here, Cut
  <2>2. req'.at \in 0 .. cut.low - 1 /\ ~\E a \in req'.at + 1 .. cut.low - 1 : TRUE
    BY <1>2, <2>1
  <2> QED BY <2>1, <2>2 DEF NoneBetween
<1>7. ~transitive' => Len(req'.path) <= 2
  BY <1>1, <1>3
<1> QED BY <1>5, <1>6, <1>7 DEF Way


\* Reading the root zone.
LEMMA RootKnows ==
    ASSUME TypeOK, Known, UNCHANGED <<held, transitive>>, ReadRoot
    PROVE  Known'
<1> DEFINE n == req.query.name
           domains == {d \o req.base : d \in held[RootZone].spec.domains}
           zones == {z \in domains : IsUnder(n, z)}
<1>1. req.path = <<>> /\ req \in Request
  BY DEF TypeOK, RequestOK, ReadRoot
<1>2. Tells(Because("failure")) /\ Tells(Because("next"))
  BY DEF Tells, Because
<1>3. CASE ~Has(RootZone) \/ zones = {}
  <2>1. Answer(Because("failure")) \/ Answer(Because("next"))
    BY <1>3 DEF ReadRoot, Fails
  <2> QED BY <1>2, <2>1, AnswersKnowing
<1>4. CASE Has(RootZone) /\ zones # {}
  <2>1. PICK z \in zones :
          Walk([zone |-> held[RootZone], low |-> Len(n) - Len(z) + 1, high |-> Len(n)])
    BY <1>4 DEF ReadRoot
  <2>2. held[RootZone] \in CopiedZone
    BY <1>4, HeldZones, ResolverIsTyped DEF TypeOK
  <2>3. n \in Seq(Label) /\ req.base \in Seq(Label)
    BY <1>1 DEF Request, Query, Name
  <2>4. PICK d \in held[RootZone].spec.domains : z = d \o req.base
    OBVIOUS
  <2>5. z \in Seq(Label)
    <3>1. d \in Seq(Label)
      BY <2>2 DEF CopiedZone, ZoneSpec, Name
    <3> QED BY <2>3, <2>4, <3>1, ConcatProperties
  <2>6. Len(z) \in Nat /\ Len(n) \in Nat /\ Len(z) <= Len(n)
        /\ SubSeq(n, Len(n) - Len(z) + 1, Len(n)) = z
    BY <2>3, <2>5, LenProperties DEF IsUnder
  <2> DEFINE cut == [zone |-> held[RootZone], low |-> Len(n) - Len(z) + 1, high |-> Len(n)]
  <2>7. /\ cut \in Cut /\ cut.low \in 1 .. Len(n) + 1 /\ cut.zone = held[RootZone]
        /\ SubSeq(n, cut.low, Len(n)) = d \o req.base /\ Walk(cut)
    <3>1. Len(n) - Len(z) + 1 \in Nat /\ Len(n) - Len(z) + 1 \in 1 .. Len(n) + 1
      BY <2>6
    <3>2. cut \in Cut /\ cut.low \in 1 .. Len(n) + 1
      BY <2>2, <2>6, <3>1 DEF Cut
    <3> QED BY <2>1, <2>4, <2>6, <3>2
  <2>8. Len(req.path) <= 1
    BY <1>1
  <2> HIDE DEF cut
  <2>9. \E c \in cut.zone.spec.domains : SubSeq(Asked, cut.low, Len(Asked)) = c \o req.base
    BY <2>4, <2>7 DEF Asked
  <2>10. cut.low \in 1 .. Len(Asked) + 1
    BY <2>7 DEF Asked
  <2> QED BY <1>4, <2>7, <2>8, <2>9, <2>10, ResolverIsTyped, WalksKnowing
<1> QED BY <1>3, <1>4

\* A step along the labels.
LEMMA WalkKnows ==
    ASSUME TypeOK, Known, UNCHANGED <<held, transitive>>, WalkDown
    PROVE  Known'
<1>1. /\ req \in Request /\ req.pc = "walk" /\ req.path # <<>>
      /\ req.at \in 0 .. Here.low - 1 /\ req.at > 0
  BY DEF TypeOK, RequestOK, WalkDown
<1>2. Here.low \in Nat
  <2>1. Here \in Cut
    BY <1>1, LenProperties, EmptySeq DEF Here, Request
  <2> QED BY <2>1 DEF Cut
<1>3. CASE \E z \in Zone : IsCut(z)
  <2>1. PICK z \in Zone : /\ IsCut(z)
                          /\ Walk([zone |-> held[z], low |-> req.at, high |-> Here.low - 1])
    BY <1>3 DEF WalkDown
  <2> DEFINE cut == [zone |-> held[z], low |-> req.at, high |-> Here.low - 1]
  <2>2. held[z] \in CopiedZone /\ Has(z)
    BY <2>1, HeldZones DEF TypeOK, IsCut
  <2>3. cut \in Cut /\ cut.zone = held[z] /\ Walk(cut)
    BY <1>1, <1>2, <2>1, <2>2 DEF Cut
  <2>5. req.steady => cut.low \in 1 .. Len(Asked) + 1
    <3>1. HAVE req.steady
    <3>2. Len(req.path) \in 1 .. Len(req.path)
      BY <1>1, LenProperties, EmptySeq DEF Request
    <3>3. Here.low \in 1 .. Len(Asked) + 1 /\ Len(Asked) \in Nat
      <4>1. Asked \in Seq(Label)
        BY <1>1 DEF Asked, Request, Query, Name
      <4> QED BY <1>1, <3>1, <3>2, <4>1, LenProperties DEF Known, Way, WayIsHeld, Here
    <3> QED BY <1>1, <3>3
  <2>4. transitive \/ Len(req.path) <= 1
    <3>1. transitive \/ Len(req.path) = 1
      BY DEF WalkDown
    <3>2. Len(req.path) = 1 => Len(req.path) <= 1
      OBVIOUS
    <3> QED BY <3>1, <3>2, Zenon
  <2> HIDE DEF cut
  <2> QED BY <1>1, <2>2, <2>3, <2>4, <2>5, WalksKnowing
<1>4. CASE ~\E z \in Zone : IsCut(z)
  <2>1. req' = [req EXCEPT !.at = @ - 1]
    BY <1>4 DEF WalkDown
  <2>2. /\ req'.pc = "walk" /\ req'.at = req.at - 1 /\ req'.path = req.path
        /\ req'.query = req.query /\ req'.base = req.base /\ req'.steady = req.steady
    BY <1>1, <2>1 DEF Request
  <2> SUFFICES ASSUME req.steady PROVE Way'
    BY <2>2 DEF Known, Looking
  <2>3. Way
    BY <1>1 DEF Known
  <2>4. WayIsHeld'
    BY <2>2, <2>3 DEF Way, WayIsHeld, Has, Asked
  <2>5. NoneBetween'
    <3>1. Here' = Here /\ Asked' = Asked
      BY <2>2 DEF Here, Asked
    <3>2. req'.at \in 0 .. Here.low - 1
      BY <1>1, <1>2, <2>2
    <3>3. ASSUME NEW a \in req'.at + 1 .. Here.low - 1, NEW z \in Zone,
                 Has(z), held[z].spec.parent = Here.zone.name
          PROVE  SubSeq(Asked, a, Here.low - 1) \notin held[z].spec.domains
      <4>1. CASE a = req.at
        BY <1>4, <3>3, <4>1 DEF IsCut, Below, Asked
      <4>2. CASE a # req.at
        <5>1. a \in req.at + 1 .. Here.low - 1
          BY <1>1, <1>2, <2>2, <4>2
        <5> QED BY <2>3, <3>3, <5>1 DEF Way, NoneBetween
      <4> QED BY <4>1, <4>2
    <3> QED BY <3>1, <3>2, <3>3 DEF NoneBetween, Has
  <2> QED BY <2>2, <2>3, <2>4, <2>5 DEF Way
<1> QED BY <1>3, <1>4

\* The end of the walk.
LEMMA EndKnows ==
    ASSUME TypeOK, Known, UNCHANGED <<held, transitive>>, EndWalk
    PROVE  Known'
<1>1. /\ req \in Request /\ req.pc = "walk" /\ req.path # <<>> /\ Arrived
  BY DEF TypeOK, RequestOK, EndWalk, Arrived
<1>2. CASE Delegated /\ Answer(Because("delegation"))
  <2>1. Tells(Because("delegation"))
    BY <1>1, <1>2 DEF Tells, Because
  <2> QED BY <1>2, <2>1, AnswersKnowing
<1>3. CASE Owned({"SOA"}) /\ Answer(SOA("answer"))
  <2>1. Tells(SOA("answer"))
    BY <1>1, <1>3 DEF Tells, SOA, Owned
  <2> QED BY <1>3, <2>1, AnswersKnowing
<1>4. CASE Owned({"NS"}) /\ Answer(SOA("nodata"))
  <2>1. Tells(SOA("nodata"))
    BY <1>1, <1>4 DEF Tells, SOA, Owned
  <2> QED BY <1>4, <2>1, AnswersKnowing
<1>5. CASE Owned({"PTR"}) /\ Goto("address")
  BY <1>1, <1>5, GoesKnowing DEF Owned
<1>6. CASE Owned({"A", "TXT", "ANY"}) /\ Goto("lookup")
  BY <1>1, <1>6, GoesKnowing DEF Owned
<1>7. CASE Owned({"PTR", "SRV"}) /\ AtApex /\ Goto("verdict")
  <2>1. Nothing
    BY <1>7 DEF Nothing, Refused, Denied, Malformed, Owned
  <2> QED BY <1>1, <1>7, <2>1, GoesKnowing DEF Owned
<1>8. CASE /\ Owned({"A", "TXT", "SRV", "PTR", "NS", "ANY"}) /\ ~AtApex
           /\ IF Breaks THEN Fails ELSE Goto(IF Denied THEN "verdict" ELSE "lookup")
  <2>1. CASE Breaks
    <3>1. Tells(Because("failure"))
      BY DEF Tells, Because
    <3> QED BY <1>8, <2>1, <3>1, AnswersKnowing DEF Fails
  <2>2. CASE ~Breaks /\ Denied
    <3>1. Nothing
      BY <1>8, <2>2 DEF Nothing, Refused
    <3> QED BY <1>1, <1>8, <2>2, <3>1, GoesKnowing DEF Owned
  <2>3. CASE ~Breaks /\ ~Denied
    BY <1>1, <1>8, <2>3, GoesKnowing DEF Owned
  <2> QED BY <2>1, <2>2, <2>3
<1> QED BY <1>2, <1>3, <1>4, <1>5, <1>6, <1>7, <1>8 DEF EndWalk

\* What is found under a name, or under its wildcard when there is no entry.
LEMMA FindKnows ==
    ASSUME TypeOK, Known, UNCHANGED <<held, transitive>>, req.pc \in {"lookup", "wildcard"},
           NEW name, Found(EntriesNamed(name)),
           \/ name = Wanted /\ ~NoneAtAll /\ ~InReverse
           \/ name = Wildcard(Wanted) /\ (req.steady => NoneAtAll /\ ~InReverse)
    PROVE  Known'
<1> DEFINE hits == Filtered(EntriesNamed(name))
           data == Data(hits)
<1>1. /\ req \in Request /\ req.path # <<>>
      /\ req.steady => Arrived /\ ~Delegated /\ Type # "SOA"
  BY DEF TypeOK, RequestOK, Known, Looking
<1>2. CASE hits = {} /\ AtApex /\ Type = "ANY"
  <2>1. req.steady => Tells(SOA("nodata"))
    BY <1>1, <1>2 DEF Tells, SOA
  <2> QED BY <1>2, <2>1, AnswersKnowing DEF Found
<1>3. CASE hits = {} /\ ~(AtApex /\ Type = "ANY")
  <2>1. Goto("verdict")
    BY <1>3 DEF Found
  <2>2. req.steady => Nothing
    BY <1>3 DEF Nothing, NoneAtAll, Filtered
  <2> QED BY <1>1, <2>1, <2>2, GoesKnowing
<1>4. CASE hits # {} /\ Fails
  <2>1. Tells(Because("failure"))
    BY DEF Tells, Because
  <2> QED BY <1>4, <2>1, AnswersKnowing DEF Fails
<1>5. CASE hits # {} /\ ~Fails
  <2> DEFINE out == IF data = {} THEN SOA("nodata") ELSE Records(data)
  <2>1. Answer(out)
    BY <1>5 DEF Found
  <2>2. Gives(data, name)
    BY <1>5 DEF Gives
  <2>3. /\ out.kind \in {"nodata", "answer"} /\ out.data = data
        /\ out.kind = "nodata" => out.soa = Apex
    BY DEF SOA, Records
  <2>4. req.steady => Tells(out)
    BY <1>1, <2>2, <2>3 DEF Tells
  <2> HIDE DEF out
  <2> QED BY <2>1, <2>4, AnswersKnowing
<1> QED BY <1>2, <1>3, <1>4, <1>5

\* The lookups, the denial and the end.
LEMMA LookupKnows ==
    ASSUME TypeOK, Known, UNCHANGED <<held, transitive>>, NEW synced,
           Lookup \/ LookupWildcard \/ LookupAddress \/ Deny(synced) \/ Finish
    PROVE  Known'
<1>1. req \in Request
  BY DEF TypeOK, RequestOK
<1>2. CASE Lookup
  <2>0. req.pc = "lookup" /\ req.path # <<>>
    BY <1>2 DEF Lookup, TypeOK, RequestOK
  <2>1. CASE NoneAtAll /\ ~InReverse
    <3>1. Goto("wildcard")
      BY <1>2, <2>1 DEF Lookup, NoneAtAll
    <3>2. req.steady => Arrived /\ ~Delegated /\ Type # "SOA"
      BY <2>0 DEF Known, Looking
    <3> QED BY <2>0, <2>1, <3>1, <3>2, GoesKnowing
  <2>2. CASE ~NoneAtAll /\ ~InReverse
    <3>1. Found(EntriesNamed(Wanted))
      BY <1>2, <2>2 DEF Lookup, NoneAtAll
    <3> QED BY <2>0, <2>2, <3>1, FindKnows
  <2>3. CASE InReverse
    <3>1. /\ Nothing /\ Found({}) /\ Filtered({}) = {}
          /\ req.steady => Arrived /\ ~Delegated /\ Type # "SOA"
      BY <1>2, <2>0, <2>3 DEF Lookup, Nothing, Refused, Filtered, Known, Looking
    <3>2. CASE AtApex /\ Type = "ANY"
      <4>1. Answer(SOA("nodata"))
        BY <3>1, <3>2 DEF Found
      <4>2. req.steady => Tells(SOA("nodata"))
        BY <3>1, <3>2 DEF Tells, SOA
      <4> QED BY <4>1, <4>2, AnswersKnowing
    <3>3. CASE ~(AtApex /\ Type = "ANY")
      <4>1. Goto("verdict")
        BY <3>1, <3>3 DEF Found
      <4> QED BY <2>0, <3>1, <4>1, GoesKnowing
    <3> QED BY <3>2, <3>3
  <2> QED BY <2>1, <2>2, <2>3
<1>3. CASE LookupWildcard
  <2>1. req.pc = "wildcard" /\ Found(EntriesNamed(Wildcard(Wanted)))
    BY <1>3 DEF LookupWildcard, Wildcard
  <2>2. req.steady => NoneAtAll /\ ~InReverse
    BY <2>1 DEF Known, Looking
  <2> QED BY <2>1, <2>2, FindKnows
<1>4. CASE LookupAddress
  <2>1. /\ req.pc = "address" /\ req.path # <<>> /\ Reverse
        /\ req.steady => Arrived /\ ~Delegated /\ Type = "PTR"
    BY <1>4 DEF LookupAddress, TypeOK, RequestOK, Known, Looking
  <2>2. CASE Goto("verdict")
    <3>1. req.steady => InReverse
      BY <2>1, AddressesAreReverse DEF Reverse, InReverse, UsesSpecial
    <3>2. req.steady => Nothing
      BY <3>1 DEF Nothing, Refused
    <3> QED BY <2>1, <2>2, <3>2, GoesKnowing
  <2>3. CASE ~Goto("verdict")
    <3> DEFINE out == Records({AddressOf[req.query.name]})
    <3>1. Answer(out)
      BY <1>4, <2>3 DEF LookupAddress
    <3>2. req.steady => Tells(out)
      BY <2>1 DEF Tells, Records
    <3> HIDE DEF out
    <3> QED BY <3>1, <3>2, AnswersKnowing
  <2> QED BY <2>2, <2>3
<1>5. CASE Deny(synced)
  <2>1. req.steady => Arrived /\ ~Delegated /\ Nothing
    BY <1>5 DEF Deny, Known, Looking
  <2>2. /\ Tells(Because("next"))
        /\ req.steady => Tells(SOA("nxdomain")) /\ Tells(SOA("servfail"))
    BY <2>1 DEF Tells, Because, SOA
  <2>3. Answer(Because("next")) \/ Answer(SOA("nxdomain")) \/ Answer(SOA("servfail"))
    BY <1>5 DEF Deny
  <2> QED BY <2>2, <2>3, AnswersKnowing
<1>6. CASE Finish
  <2>1. ~req'.steady
    BY <1>6 DEF Finish, NoRequest
  <2> QED BY <2>1 DEF Known
<1> QED BY <1>2, <1>3, <1>4, <1>5, <1>6

\* Every step keeps what is known.
LEMMA NextKnows == TypeOK /\ Known /\ [Next]_vars => Known'
<1> SUFFICES ASSUME TypeOK, Known, [Next]_vars PROVE Known'
  OBVIOUS
<1>1. CASE UNCHANGED <<held, transitive, req>>
  <2>1. /\ Type' = Type /\ Apex' = Apex /\ Arrived' = Arrived /\ Delegated' = Delegated
        /\ Way' = Way /\ NoneAtAll' = NoneAtAll /\ Nothing' = Nothing
        /\ InReverse' = InReverse
        /\ Gives(req.out.data, Wanted)' = Gives(req.out.data, Wanted)
        /\ Gives(req.out.data, Wildcard(Wanted))' = Gives(req.out.data, Wildcard(Wanted))
    BY <1>1, SameKnowledge
  <2>2. Tells(req.out)' = Tells(req.out)
    BY <1>1, <2>1 DEF Tells
  <2> QED BY <1>1, <2>1, <2>2 DEF Known, Looking
<1>2. CASE Unsteady
  <2>1. ~req'.steady
    BY <1>2 DEF Unsteady, TypeOK, RequestOK, Request
  <2> QED BY <2>1 DEF Known
<1>3. CASE Arrival
  <2>1. PICK query \in Queries : Accept(query, HasSynced)
    BY <1>3 DEF Arrival
  <2>2. /\ req'.path = <<>>
        /\ req'.pc = "root" \/ (req'.pc = "done" /\ req'.out = Because("next"))
    BY <2>1 DEF Accept
  <2>3. Tells(Because("next"))'
    BY DEF Tells, Because
  <2> QED BY <2>2, <2>3 DEF Known, Looking
<1>4. CASE Answering
  <2>1. UNCHANGED <<held, transitive>> /\ Resolve(HasSynced)
    BY <1>4 DEF Answering, caches
  <2> QED BY <2>1, RootKnows, WalkKnows, EndKnows, LookupKnows DEF Resolve
<1> QED BY <1>1, <1>2, <1>3, <1>4
       DEF Next, Informers, Users, Deliver, Change, List, InformerStops,
           Startup, Poll, Timeout, Stop, vars, caches

\* Both what requests are and what they know hold always.
LEMMA AlwaysKnown == Spec => [](TypeOK /\ PathsAreLinked /\ Known)
<1>1. Init => Known
  <2>1. ~NoRequest.steady
    BY DEF NoRequest
  <2> QED BY <2>1 DEF Init, Known
<1> QED BY <1>1, NextKnows, TypeCorrect, WaysAreLinked, PTL DEF Spec

-----------------------------------------------------------------------------
(* The zones of the way. *)

OnWay == TypeOK /\ PathsAreLinked /\ req.path # <<>> /\ Way
ZoneAt(i) == req.path[i].zone.name
EndAt(i) == SubSeq(Asked, req.path[i].low, Len(Asked))

\* The name asked for is a name, and the caches are typed.
LEMMA AskedIsName ==
    ASSUME TypeOK
    PROVE  Asked \in Seq(Label) /\ Len(Asked) \in Nat /\ ObjectsOK
<1>1. Asked \in Seq(Label)
  BY DEF TypeOK, RequestOK, Request, Query, Name, Asked
<1> QED BY <1>1, LenProperties DEF TypeOK

\* The zones of the way are zones of the cache, for ends of the name.
LEMMA WayIsTyped ==
    ASSUME OnWay
    PROVE  /\ Len(req.path) \in Nat /\ Len(req.path) > 0
           /\ \A i \in 1 .. Len(req.path) :
                /\ req.path[i].low \in 1 .. Len(Asked) + 1
                /\ ZoneAt(i) \in Zone /\ Has(ZoneAt(i)) /\ held[ZoneAt(i)] = req.path[i].zone
                /\ EndAt(i) \in Seq(Label) /\ IsUnder(Asked, EndAt(i))
                /\ Len(EndAt(i)) = Len(Asked) - req.path[i].low + 1
<1>1. Len(req.path) \in Nat /\ Len(req.path) > 0
  <2>1. req.path \in Seq(Cut)
    BY DEF OnWay, TypeOK, RequestOK, Request
  <2> QED BY <2>1, LenProperties, EmptySeq DEF OnWay
<1>2. ASSUME NEW i \in 1 .. Len(req.path)
      PROVE  /\ req.path[i].low \in 1 .. Len(Asked) + 1
             /\ ZoneAt(i) \in Zone /\ Has(ZoneAt(i)) /\ held[ZoneAt(i)] = req.path[i].zone
             /\ EndAt(i) \in Seq(Label) /\ IsUnder(Asked, EndAt(i))
             /\ Len(EndAt(i)) = Len(Asked) - req.path[i].low + 1
  <2>1. /\ req.path[i].low \in 1 .. Len(Asked) + 1
        /\ \E z \in Zone : Has(z) /\ req.path[i].zone = held[z]
    BY DEF OnWay, Way, WayIsHeld
  <2>2. PICK z \in Zone : Has(z) /\ req.path[i].zone = held[z]
    BY <2>1
  <2>3. ZoneAt(i) = z
    BY <2>2, HeldZones, AskedIsName DEF OnWay, ZoneAt
  <2>4. /\ EndAt(i) \in Seq(Label) /\ IsUnder(Asked, EndAt(i))
        /\ Len(EndAt(i)) = Len(Asked) - req.path[i].low + 1
    BY <2>1, AskedIsName, EndsOfName DEF OnWay, EndAt
  <2> QED BY <2>1, <2>2, <2>3, <2>4
<1> QED BY <1>1, <1>2

\* One zone of the way and the next.
LEMMA WayGoesDown ==
    ASSUME OnWay, NEW i \in 1 .. Len(req.path) - 1
    PROVE  /\ held[ZoneAt(i + 1)].spec.parent = ZoneAt(i)
           /\ \E d \in held[ZoneAt(i + 1)].spec.domains : EndAt(i + 1) = d \o EndAt(i)
           /\ Len(EndAt(i)) < Len(EndAt(i + 1))
<1> DEFINE n == Asked
           low == req.path[i + 1].low
           high == req.path[i].low - 1
<1>1. i \in 1 .. Len(req.path) /\ i + 1 \in 1 .. Len(req.path)
  BY WayIsTyped
<1>2. n \in Seq(Label) /\ Len(n) \in Nat
  BY AskedIsName DEF OnWay
<1>3. /\ low \in 1 .. Len(n) + 1 /\ high \in 0 .. Len(n)
      /\ held[ZoneAt(i + 1)] = req.path[i + 1].zone
      /\ Len(EndAt(i)) = Len(n) - high /\ Len(EndAt(i + 1)) = Len(n) - low + 1
  <2>1. /\ req.path[i + 1].low \in 1 .. Len(n) + 1 /\ req.path[i].low \in 1 .. Len(n) + 1
        /\ held[ZoneAt(i + 1)] = req.path[i + 1].zone
        /\ Len(EndAt(i)) = Len(n) - req.path[i].low + 1
        /\ Len(EndAt(i + 1)) = Len(n) - low + 1
    BY <1>1, WayIsTyped
  <2>2. \A l \in 1 .. Len(n) + 1 : Len(n) - l + 1 = Len(n) - (l - 1) /\ l - 1 \in 0 .. Len(n)
    BY <1>2
  <2> QED BY <2>1, <2>2
<1>4. IsLinked(req.path[i], req.path[i + 1])
  BY DEF OnWay, PathsAreLinked
<1>5. /\ held[ZoneAt(i + 1)].spec.parent = ZoneAt(i) /\ low <= high
      /\ SubSeq(n, low, high) \in held[ZoneAt(i + 1)].spec.domains
  BY <1>3, <1>4 DEF IsLinked, ZoneAt, Asked
<1>6. EndAt(i) = SubSeq(n, high + 1, Len(n)) /\ EndAt(i + 1) = SubSeq(n, low, Len(n))
  <2>1. high + 1 = req.path[i].low
    BY <1>1, <1>2, WayIsTyped
  <2> QED BY <2>1 DEF EndAt
<1>7. SubSeq(n, low, high) \o SubSeq(n, high + 1, Len(n)) = SubSeq(n, low, Len(n))
  <2> HIDE DEF n, low, high
  <2>1. low \in 1 .. Len(n) + 1 /\ high \in low - 1 .. Len(n) /\ Len(n) \in high .. Len(n)
    BY <1>2, <1>3, <1>5
  <2> QED BY <1>2, <2>1, ConcatAdjacentSubSeq
<1> HIDE DEF n, low, high
<1>8. Len(EndAt(i)) < Len(EndAt(i + 1))
  BY <1>2, <1>3, <1>5
<1> QED BY <1>5, <1>6, <1>7, <1>8

-----------------------------------------------------------------------------
(* The zones that cover the name. *)

\* A zone with a name the name asked for is below, is in the cache.
LEMMA CoveringIsHeld ==
    ASSUME TypeOK, NEW z \in Zone, NEW d \in ZoneNames(z), IsUnder(Asked, d), Has(z)
    PROVE  z \in Covering
BY DEF Covering, Held

\* The domain of a zone that covers the name is its only one that does.
LEMMA DomainsAreNames ==
    ASSUME TypeOK, Unambiguous, NEW z \in Covering
    PROVE  /\ z \in Zone /\ Has(z)
           /\ Domain(z) \in ZoneNames(z) /\ Domain(z) \in Seq(Label)
           /\ IsUnder(Asked, Domain(z))
           /\ Len(Domain(z)) \in Nat /\ Len(Domain(z)) <= Len(Asked)
           /\ \A d \in ZoneNames(z) : IsUnder(Asked, d) => d = Domain(z)
<1>1. z \in Zone /\ Has(z) /\ \E d \in ZoneNames(z) : IsUnder(Asked, d)
  BY DEF Covering, Held
<1>2. Domain(z) \in ZoneNames(z) /\ IsUnder(Asked, Domain(z))
  BY <1>1 DEF Domain
<1>3. Domain(z) \in Seq(Label)
  BY <1>1, <1>2, NamesAreNames
<1>4. Len(Domain(z)) \in Nat /\ Len(Domain(z)) <= Len(Asked)
  BY <1>2, <1>3, LenProperties DEF IsUnder
<1>5. \A d \in ZoneNames(z) : IsUnder(Asked, d) => d = Domain(z)
  BY <1>2 DEF Unambiguous, OneDomain
<1> QED BY <1>1, <1>2, <1>3, <1>4, <1>5

\* The parent of a zone that covers the name covers it, too, with a shorter
\* domain, and what is between the two is a domain declared for the zone.
LEMMA ParentsCover ==
    ASSUME TypeOK, Unambiguous, NEW z \in Covering, z # RootZone
    PROVE  LET x == held[z].spec.parent
           IN  /\ x \in Covering /\ Len(Domain(x)) < Len(Domain(z))
               /\ SubSeq(Asked, Len(Asked) - Len(Domain(z)) + 1, Len(Asked) - Len(Domain(x)))
                    \in held[z].spec.domains
<1> DEFINE x == held[z].spec.parent
<1>1. /\ z \in Zone /\ Has(z) /\ Domain(z) \in ZoneNames(z)
      /\ IsUnder(Asked, Domain(z)) /\ Asked \in Seq(Label)
  BY DomainsAreNames, AskedIsName
<1>2. x \in Zone /\ ZoneNames(z) = Joined(held[z].spec.domains, ZoneNames(x))
  BY <1>1, NamesOfZones
<1>3. PICK d \in held[z].spec.domains, f \in ZoneNames(x) : Domain(z) = d \o f
  <2> DEFINE doms == held[z].spec.domains
             tops == ZoneNames(x)
             m == Domain(z)
  <2>1. m \in Joined(doms, tops)
    BY <1>1, <1>2
  <2>2. \A y \in Joined(doms, tops) : \E d \in doms, f \in tops : y = d \o f
    <3> HIDE DEF doms, tops
    <3> QED BY DEF Joined
  <2> HIDE DEF doms, tops, m
  <2>3. \E d \in doms, f \in tops : m = d \o f
    BY <2>1, <2>2, Zenon
  <2> QED BY <2>3 DEF doms, tops, m
<1>4. d \in Seq(Label)
  BY <1>1, HeldZones, AskedIsName DEF CopiedZone, ZoneSpec, Name
<1>5. f \in Seq(Label)
  BY <1>2, NamesAreNames
<1>6. IsUnder(Asked, d \o f)
  BY <1>1, <1>3
<1>7. /\ IsUnder(Asked, f) /\ Len(Domain(z)) = Len(d) + Len(f)
      /\ SubSeq(Asked, Len(Asked) - Len(Domain(z)) + 1, Len(Asked) - Len(f)) = d
  <2> DEFINE m == d \o f
  <2>1. /\ IsUnder(Asked, f) /\ Len(d \o f) = Len(d) + Len(f)
        /\ SubSeq(Asked, Len(Asked) - Len(d \o f) + 1, Len(Asked) - Len(f)) = d
    BY <1>1, <1>4, <1>5, <1>6, BelowBoth
  <2> QED BY <1>3, <2>1
<1>8. Has(x)
  <2>1. x # RootZone => Has(x)
    BY <1>2, NamesOfZones
  <2>2. x = RootZone => Has(x)
    <3>1. Names[RootZone] = RootNames[RootZone]
      BY <1>2, ResolverIsTyped, NamesAreClosed, NamesOfOne
    <3> QED BY <1>2, <3>1 DEF ZoneNames, RootNames
  <2> QED BY <2>1, <2>2
<1>9. x \in Covering
  BY <1>2, <1>7, <1>8, CoveringIsHeld
<1>10. f = Domain(x)
  BY <1>7, <1>9, DomainsAreNames
<1>11. x # z
  BY <1>1, NoNamesOfItself
<1>12. Len(Domain(x)) < Len(Domain(z))
  <2>1. Len(d) \in Nat /\ Len(f) \in Nat /\ Len(Domain(x)) <= Len(Domain(z))
    BY <1>4, <1>5, <1>7, <1>10, LenProperties
  <2> QED BY <1>9, <1>11, <2>1 DEF Unambiguous
<1> QED BY <1>7, <1>9, <1>10, <1>12

\* There is a zone that covers the name with the longest domain: the owner.
LEMMA OwnerIsThere ==
    ASSUME TypeOK, Unambiguous
    PROVE  Owner \in Covering /\ \A y \in Covering : Len(Domain(y)) <= Len(Domain(Owner))
<1> DEFINE gap(z) == Len(Asked) - Len(Domain(z))
           T == {gap(z) : z \in Covering}
<1>1. \A z \in Covering : gap(z) \in Nat /\ Len(Domain(z)) \in Nat
  BY DomainsAreNames, AskedIsName
<1>2. T \in SUBSET Nat /\ T # {}
  BY <1>1 DEF Unambiguous
<1>3. PICK g \in T : \A h \in T : g <= h
  <2> HIDE DEF T
  <2> QED BY <1>2, Least
<1>4. PICK z \in Covering : \A y \in Covering : gap(z) <= gap(y)
  BY <1>3
<1>5. \A y \in Covering : Len(Domain(y)) <= Len(Domain(z))
  BY <1>1, <1>4, AskedIsName
<1> QED BY <1>5 DEF Owner

-----------------------------------------------------------------------------
(* The way leads to the owner. *)

\* Every zone of the way covers the name, with the end it stands for.
LEMMA WayCovers ==
    ASSUME OnWay, Unambiguous
    PROVE  \A i \in 1 .. Len(req.path) : /\ ZoneAt(i) \in Covering /\ Domain(ZoneAt(i)) = EndAt(i)
                                         /\ i > 1 => ZoneAt(i) # RootZone
<1> DEFINE k == Len(req.path)
           Good(i) == EndAt(i) \in ZoneNames(ZoneAt(i)) /\ (i > 1 => ZoneAt(i) # RootZone)
           T == {i \in Nat : i + 1 <= k => Good(i + 1)}
<1>1. TypeOK /\ k \in Nat /\ k > 0
  BY WayIsTyped DEF OnWay
<1>2. ASSUME NEW i \in 1 .. k, EndAt(i) \in ZoneNames(ZoneAt(i))
      PROVE  ZoneAt(i) \in Covering /\ Domain(ZoneAt(i)) = EndAt(i)
  <2>1. ZoneAt(i) \in Zone /\ Has(ZoneAt(i)) /\ IsUnder(Asked, EndAt(i))
    BY WayIsTyped
  <2>2. ZoneAt(i) \in Covering
    BY <1>1, <1>2, <2>1, CoveringIsHeld
  <2> QED BY <1>1, <1>2, <2>1, <2>2, DomainsAreNames
<1> HIDE DEF k
<1>3. 0 \in T
  <2>1. ZoneAt(1) = RootZone
    BY DEF OnWay, PathsAreLinked, ZoneAt
  <2>2. Has(RootZone) /\ held[RootZone] = req.path[1].zone
    BY <1>1, <2>1, WayIsTyped DEF k
  <2>3. ZoneNames(RootZone) = Joined(held[RootZone].spec.domains, {req.base})
    BY <2>2, ResolverIsTyped, NamesOfZones
  <2>4. EndAt(1) \in ZoneNames(RootZone)
    <3>1. \E d \in req.path[1].zone.spec.domains : EndAt(1) = d \o req.base
      BY DEF OnWay, Way, WayIsHeld, EndAt
    <3> DEFINE names == req.path[1].zone.spec.domains
    <3>2. PICK d \in names : EndAt(1) = d \o req.base
      BY <3>1
    <3>3. d \o req.base \in Joined(names, {req.base})
      <4> HIDE DEF names
      <4> QED BY JoinedHave
    <3> QED BY <2>2, <2>3, <3>2, <3>3
  <2> QED BY <2>1, <2>4
<1>4. ASSUME NEW n \in Nat, n \in T PROVE n + 1 \in T
  <2> SUFFICES ASSUME n + 2 <= k PROVE Good(n + 2)
    OBVIOUS
  <2> DEFINE i == n + 1
  <2>1. i \in 1 .. k - 1 /\ i \in 1 .. k /\ i + 1 \in 1 .. k /\ n + 2 = i + 1 /\ i + 1 > 1
    BY <1>1
  <2>2. Good(i)
    BY <1>1, <1>4
  <2> HIDE DEF i, T
  <2>3. ZoneAt(i) \in Covering
    BY <1>2, <2>1, <2>2
  <2> DEFINE z == ZoneAt(i + 1)
  <2>4. z \in Zone /\ Has(z) /\ held[z].spec.parent = ZoneAt(i) /\ ZoneAt(i) \in Zone
    BY <2>1, WayIsTyped, WayGoesDown DEF k
  <2>5. z # RootZone
    <3>1. held[RootZone].spec.parent \notin Covering
      BY DEF Unambiguous
    <3> HIDE DEF z
    <3> QED BY <2>3, <2>4, <3>1
  <2>6. ZoneNames(z) = Joined(held[z].spec.domains, ZoneNames(ZoneAt(i)))
    BY <2>4, <2>5, NamesOfZones
  <2>7. PICK d \in held[z].spec.domains : EndAt(i + 1) = d \o EndAt(i)
    BY <2>1, WayGoesDown DEF k
  <2>8. EndAt(i + 1) \in ZoneNames(z)
    <3> DEFINE names == held[z].spec.domains
               ends == ZoneNames(ZoneAt(i))
               f == EndAt(i)
    <3>1. d \in names /\ f \in ends
      BY <2>2
    <3> HIDE DEF names, ends, f
    <3>2. d \o f \in Joined(names, ends)
      BY <3>1, JoinedHave
    <3> QED BY <2>6, <2>7, <3>2 DEF names, ends, f
  <2> QED BY <2>1, <2>5, <2>8
<1>5. Nat \subseteq T
  <2> HIDE DEF T
  <2> QED BY <1>3, <1>4, Induct
<1>6. \A i \in 1 .. k : Good(i)
  <2>1. TAKE i \in 1 .. k
  <2>2. i - 1 \in Nat /\ i - 1 + 1 = i /\ i <= k
    BY <1>1
  <2> HIDE DEF Good
  <2> QED BY <1>5, <2>2
<1> QED BY <1>2, <1>6 DEF k

\* When no label is left, the last zone of the way is the owner: a longer
\* domain would have been found between that zone and the first label.
LEMMA WayEndsAtOwner ==
    ASSUME OnWay, Unambiguous, req.at = 0
    PROVE  Owner = Here.zone.name
<1> DEFINE k == Len(req.path)
           p == ZoneAt(k)
           Longer == {z \in Covering \ {p} : Len(Domain(p)) <= Len(Domain(z))}
<1>0. TypeOK
  BY DEF OnWay
<1>1. k \in 1 .. k /\ p = Here.zone.name /\ Domain(p) = EndAt(k) /\ p \in Covering
  BY WayIsTyped, WayCovers DEF Here, ZoneAt
<1>2. Owner \in Covering /\ Len(Domain(p)) <= Len(Domain(Owner))
  BY <1>0, <1>1, OwnerIsThere
<1> SUFFICES ASSUME Longer # {} PROVE FALSE
  BY <1>1, <1>2
<1>3. \A z \in Covering : Len(Domain(z)) \in Nat
  BY <1>0, DomainsAreNames
<1> HIDE DEF p, k
<1>4. PICK y \in Longer : \A z \in Longer : Len(Domain(y)) <= Len(Domain(z))
  <2> DEFINE T == {Len(Domain(z)) : z \in Longer}
  <2>1. T \in SUBSET Nat /\ T # {}
    BY <1>3
  <2>2. PICK g \in T : \A h \in T : g <= h
    <3> HIDE DEF T
    <3> QED BY <2>1, Least
  <2> QED BY <2>2
<1>5. y \in Covering /\ y # p /\ Len(Domain(p)) < Len(Domain(y))
  BY <1>1, <1>4 DEF Unambiguous
<1> DEFINE x == held[y].spec.parent
<1>6. x \in Covering /\ Len(Domain(p)) <= Len(Domain(x))
  BY <1>1, <1>4, <1>5 DEF Unambiguous
<1>7. y # RootZone
  BY <1>6 DEF Unambiguous
<1>8. /\ Len(Domain(x)) < Len(Domain(y))
      /\ SubSeq(Asked, Len(Asked) - Len(Domain(y)) + 1, Len(Asked) - Len(Domain(x)))
           \in held[y].spec.domains
  BY <1>0, <1>5, <1>7, ParentsCover
<1>9. x = p
  <2> SUFFICES ASSUME x # p PROVE FALSE
    OBVIOUS
  <2>1. x \in Longer
    BY <1>6
  <2>2. Len(Domain(y)) <= Len(Domain(x))
    BY <1>4, <2>1
  <2> HIDE DEF Longer, x
  <2> QED BY <1>3, <1>5, <1>6, <1>8, <2>2
<1> DEFINE a == Len(Asked) - Len(Domain(y)) + 1
<1>10. Len(Asked) - Len(Domain(p)) = Here.low - 1 /\ Here.low \in 1 .. Len(Asked) + 1
  <2>1. /\ Len(EndAt(k)) = Len(Asked) - req.path[k].low + 1
        /\ req.path[k].low \in 1 .. Len(Asked) + 1
    BY <1>1, WayIsTyped DEF k
  <2>2. Len(Asked) \in Nat /\ Here = req.path[k]
    BY <1>0, AskedIsName DEF Here, k
  <2> QED BY <1>1, <2>1, <2>2
<1>11. a \in req.at + 1 .. Here.low - 1
  <2>1. Len(Domain(y)) <= Len(Asked) /\ Len(Domain(y)) \in Nat /\ Len(Asked) \in Nat
    BY <1>0, <1>5, DomainsAreNames, AskedIsName
  <2> QED BY <1>1, <1>3, <1>5, <1>10, <2>1
<1>12. y \in Zone /\ Has(y)
  BY <1>0, <1>5, DomainsAreNames
<1>13. SubSeq(Asked, a, Here.low - 1) \notin held[y].spec.domains
  BY <1>1, <1>9, <1>11, <1>12 DEF OnWay, Way, NoneBetween
<1> QED BY <1>8, <1>9, <1>10, <1>13

\* A nested zone of the way is below the root zone, and so is the owner.
LEMMA NestedIsNotRoot ==
    ASSUME OnWay, Unambiguous, IsNested
    PROVE  Owner # RootZone
<1>0. TypeOK /\ ZoneAt(1) = RootZone
  BY DEF OnWay, PathsAreLinked, ZoneAt
<1>1. Len(req.path) \in Nat /\ Len(req.path) > 1
  BY WayIsTyped DEF IsNested
<1>2. 1 \in 1 .. Len(req.path) - 1 /\ 1 \in 1 .. Len(req.path) /\ 2 \in 1 .. Len(req.path)
  BY <1>1
<1>3. Len(EndAt(1)) < Len(EndAt(1 + 1))
  BY <1>2, WayGoesDown
<1>4. /\ Domain(ZoneAt(1)) = EndAt(1) /\ Domain(ZoneAt(2)) = EndAt(2)
      /\ ZoneAt(1) \in Covering /\ ZoneAt(2) \in Covering
  BY <1>2, WayCovers
<1>5. Len(Domain(ZoneAt(2))) <= Len(Domain(Owner))
  BY <1>0, <1>4, OwnerIsThere
<1>6. Len(EndAt(1)) \in Nat /\ Len(EndAt(2)) \in Nat
  BY <1>0, <1>4, DomainsAreNames
<1> QED BY <1>0, <1>3, <1>4, <1>5, <1>6

\* The name is the domain of the last zone when no label is before it.
LEMMA ApexIsAsked ==
    ASSUME OnWay
    PROVE  /\ Apex = EndAt(Len(req.path)) /\ (AtApex <=> Apex = Asked)
           /\ Asked = Rel \o Apex /\ Rel \in Seq(Label) /\ Apex \in Seq(Label)
           /\ Here.low \in 1 .. Len(Asked) + 1 /\ Len(Rel) = Here.low - 1
<1> DEFINE n == Asked
           k == Len(req.path)
           low == Here.low
<1>1. n \in Seq(Label) /\ Len(n) \in Nat /\ n = req.query.name
  BY AskedIsName DEF OnWay, Asked
<1>2. k \in 1 .. k
  BY WayIsTyped
<1>3. /\ low \in 1 .. Len(n) + 1 /\ Apex = EndAt(k) /\ EndAt(k) \in Seq(Label)
      /\ Len(EndAt(k)) = Len(n) - low + 1 /\ Apex = SubSeq(n, low, Len(n))
  BY <1>1, <1>2, WayIsTyped DEF Here, Apex, EndAt
<1>4. Rel = SubSeq(n, 1, low - 1)
  BY <1>1 DEF Rel
<1> HIDE DEF n, k, low
<1>5. Rel \o Apex = n
  <2>1. 1 \in 1 .. Len(n) + 1 /\ low - 1 \in 1 - 1 .. Len(n) /\ Len(n) \in low - 1 .. Len(n)
        /\ low - 1 + 1 = low
    BY <1>1, <1>3
  <2>2. SubSeq(n, 1, low - 1) \o SubSeq(n, low - 1 + 1, Len(n)) = SubSeq(n, 1, Len(n))
    BY <1>1, <2>1, ConcatAdjacentSubSeq
  <2>3. SubSeq(n, 1, Len(n)) = n
    BY <1>1, SubSeqFull
  <2> QED BY <1>3, <1>4, <2>1, <2>2, <2>3
<1>6. Rel \in Seq(Label) /\ Len(Rel) = low - 1
  <2>1. 0 \in Nat /\ low - 1 \in Nat /\ 0 + (low - 1) <= Len(n) /\ 0 + 1 = 1 /\ 0 + (low - 1) = low - 1
    BY <1>1, <1>3
  <2>2. /\ SubSeq(n, 0 + 1, 0 + (low - 1)) \in Seq(Label)
        /\ Len(SubSeq(n, 0 + 1, 0 + (low - 1))) = low - 1
    BY <1>1, <2>1, Parts
  <2> QED BY <1>4, <2>1, <2>2
<1>7. AtApex <=> low = 1
  BY <1>3, <1>6, EmptySeq DEF AtApex
<1>8. Apex = n <=> low = 1
  <2>1. low = 1 => Apex = n
    BY <1>1, <1>3, SubSeqFull
  <2>2. Apex = n => low = 1
    BY <1>1, <1>3
  <2> QED BY <2>1, <2>2
<1> QED BY <1>3, <1>5, <1>6, <1>7, <1>8 DEF n, k, low

\* When the walk is over and the request is not delegated, the owner is the zone
\* the walk has come to, under the domain that is left of the name.
LEMMA ArrivedAtOwner ==
    ASSUME OnWay, Unambiguous, Arrived, ~Delegated
    PROVE  Owner = Here.zone.name /\ Domain(Owner) = Apex
<1>1. req.at = 0
  BY DEF Arrived, Delegated
<1>2. Owner = Here.zone.name
  BY <1>1, WayEndsAtOwner
<1>3. Len(req.path) \in 1 .. Len(req.path) /\ Here.zone.name = ZoneAt(Len(req.path))
  BY WayIsTyped DEF Here, ZoneAt
<1>4. Domain(Owner) = EndAt(Len(req.path))
  BY <1>2, <1>3, WayCovers
<1> QED BY <1>2, <1>4, ApexIsAsked

\* When the walk is over, a request is delegated if a nested zone owns the name,
\* and a transitive server does not answer for it.
LEMMA DelegatedForOthers ==
    ASSUME OnWay, Unambiguous, Arrived
    PROVE  Delegated <=> /\ Owner # RootZone
                         /\ transitive => Type = "NS" /\ Asked = Domain(Owner)
<1>1. CASE IsNested
  <2>1. Owner # RootZone
    BY <1>1, NestedIsNotRoot
  <2>2. CASE transitive
    <3>1. req.at = 0
      BY <2>2 DEF Arrived
    <3>2. Owner = Here.zone.name
      BY <3>1, WayEndsAtOwner
    <3>3. Len(req.path) \in 1 .. Len(req.path) /\ Here.zone.name = ZoneAt(Len(req.path))
      BY WayIsTyped DEF Here, ZoneAt
    <3>4. Domain(Owner) = Apex
      BY <3>2, <3>3, WayCovers, ApexIsAsked
    <3>5. AtApex <=> Asked = Domain(Owner)
      BY <3>4, ApexIsAsked
    <3> QED BY <1>1, <2>1, <2>2, <3>5 DEF Delegated
  <2>3. CASE ~transitive
    BY <1>1, <2>1, <2>3 DEF Delegated
  <2> QED BY <2>2, <2>3
<1>2. CASE ~IsNested
  <2>1. req.at = 0 /\ ~Delegated
    BY <1>2 DEF Arrived, Delegated
  <2>2. Len(req.path) = 1
    <3>1. Len(req.path) \in Nat /\ Len(req.path) > 0
      BY WayIsTyped
    <3>2. ~(Len(req.path) > 1)
      BY <1>2 DEF IsNested
    <3>3. \A k \in Nat : k > 0 /\ ~(k > 1) => k = 1
      OBVIOUS
    <3> QED BY <3>1, <3>2, <3>3, Zenon
  <2>3. Owner = req.path[1].zone.name
    BY <2>1, <2>2, WayEndsAtOwner DEF Here
  <2>4. Owner = RootZone
    BY <2>3 DEF OnWay, PathsAreLinked
  <2> QED BY <2>1, <2>4
<1> QED BY <1>1, <1>2

-----------------------------------------------------------------------------
(* What answers say. *)

\* An answer that is settled and not given away tells of the caches.
LEMMA SettledTells ==
    ASSUME TypeOK, PathsAreLinked, Known, Settled, req.out.kind \notin {"next", "failure"}
    PROVE  Tells(req.out) /\ Arrived /\ OnWay
<1>1. Tells(req.out)
  BY DEF Settled, Known
<1>2. Arrived
  BY <1>1 DEF Tells
<1>3. req.path # <<>> /\ Way
  BY <1>2 DEF Arrived, Settled, Known
<1> QED BY <1>1, <1>2, <1>3 DEF OnWay

\* Denials, empty answers and the answer for the zone itself name the domain
\* that owns the name.
THEOREM ZonesNamed == Spec => []ZonesAreNamed
<1>1. TypeOK /\ PathsAreLinked /\ Known => ZonesAreNamed
  <2> SUFFICES ASSUME TypeOK, PathsAreLinked, Known, Settled,
                      \/ req.out.kind \in {"nxdomain", "nodata", "servfail"}
                      \/ Answered("answer") /\ req.query.type = "SOA"
               PROVE  req.out.soa = Domain(Owner)
    BY DEF ZonesAreNamed
  <2>1. Tells(req.out) /\ OnWay
    BY SettledTells DEF Answered
  <2>2. req.out.soa = Apex /\ Arrived /\ ~Delegated
    BY <2>1 DEF Tells, Answered, Type
  <2>3. Unambiguous
    BY DEF Settled
  <2> QED BY <2>1, <2>2, <2>3, ArrivedAtOwner
<1> QED BY <1>1, AlwaysKnown, PTL

\* Requests are sent to other name servers exactly for the names that nested
\* zones own, or for the name servers of these.
THEOREM DelegationsDeclared == Spec => []DelegationsAreDeclared
<1>1. TypeOK /\ PathsAreLinked /\ Known => DelegationsAreDeclared
  <2> SUFFICES ASSUME TypeOK, PathsAreLinked, Known, Settled,
                      req.out.kind \notin {"next", "failure"}
               PROVE  Answered("delegation") =
                        /\ Owner # RootZone
                        /\ transitive => req.query.type = "NS" /\ Asked = Domain(Owner)
    BY DEF DelegationsAreDeclared
  <2>1. Tells(req.out) /\ Arrived /\ OnWay /\ Unambiguous
    BY SettledTells DEF Settled
  <2>2. Answered("delegation") <=> Delegated
    BY <2>1 DEF Tells, Answered, Settled
  <2>3. Delegated <=> /\ Owner # RootZone
                      /\ transitive => Type = "NS" /\ Asked = Domain(Owner)
    BY <2>1, DelegatedForOthers
  <2> QED BY <2>2, <2>3 DEF Answered, Type
<1> QED BY <1>1, AlwaysKnown, PTL

-----------------------------------------------------------------------------
(* The entries that are found are those that are declared. *)

\* What is found for a name in the zone the request is for is declared for the
\* name under the domain of that zone, and nothing else is, when the name is
\* below no other domain of it.
LEMMA DeclaredAreFound ==
    ASSUME OnWay, Unambiguous, Arrived, ~Delegated,
           NEW S, Label \subseteq S, NEW w \in Seq(S)
    PROVE  /\ Filtered(EntriesNamed(w)) \subseteq Declared(w \o Apex)
           /\ OneDomain(w \o Apex, Owner) => Filtered(EntriesNamed(w)) = Declared(w \o Apex)
<1>0. TypeOK /\ ObjectsOK
  BY DEF OnWay, TypeOK
<1>1. Owner = Here.zone.name /\ Domain(Owner) = Apex /\ Owner \in Covering
  BY <1>0, ArrivedAtOwner, OwnerIsThere
<1>2. Owner \in Zone /\ Apex \in ZoneNames(Owner)
  BY <1>0, <1>1, DomainsAreNames
<1>3. \A d \in ZoneNames(Owner) : d \in Seq(S)
  <2>1. TAKE d \in ZoneNames(Owner)
  <2>2. d \in Seq(Label)
    BY <1>0, <1>2, NamesAreNames
  <2> QED BY <2>2, SeqMonotonic
<1>4. ASSUME NEW e \in Filtered(EntriesNamed(w)) PROVE e \in Declared(w \o Apex)
  <2> DEFINE names == held[e].spec.names
             ends == ZoneNames(Owner)
  <2>1. e \in Entry /\ Has(e) /\ w \in names /\ held[e].spec.zone = Owner
    BY <1>1 DEF Filtered, EntriesNamed
  <2>2. w \o Apex \in Joined(names, ends)
    <3> HIDE DEF names, ends
    <3>1. \A n \in names, f \in ends : n \o f \in Joined(names, ends)
      BY DEF Joined
    <3>2. Apex \in ends
      BY <1>2 DEF ends
    <3> QED BY <2>1, <3>1, <3>2
  <2> QED BY <2>1, <2>2 DEF Declared, Held, FullNames
<1>5. ASSUME OneDomain(w \o Apex, Owner), NEW e \in Declared(w \o Apex)
      PROVE  e \in Filtered(EntriesNamed(w))
  <2> DEFINE names == held[e].spec.names
             ends == ZoneNames(Owner)
             n == w \o Apex
  <2>1. e \in Entry /\ Has(e) /\ held[e].spec.zone = Owner /\ n \in Joined(names, ends)
    BY <1>5 DEF Declared, Held, FullNames
  <2>2. PICK v \in names, d \in ends : n = v \o d
    <3> HIDE DEF names, ends, n
    <3>1. \E v \in names, d \in ends : n = v \o d
      BY <2>1 DEF Joined
    <3> QED BY <3>1
  <2>3. v \in Seq(S)
    <3>1. names \in SUBSET Seq(Label)
      BY <1>0, <2>1, ServerIsTyped DEF ObjectsOK, Has, Object, Copied, SpecOf, EntrySpec, Name
    <3>2. v \in Seq(Label)
      BY <3>1
    <3> QED BY <3>2, SeqMonotonic
  <2>4. d \in Seq(S) /\ Apex \in Seq(S)
    BY <1>2, <1>3
  <2>5. IsUnder(v \o d, d)
    BY <2>3, <2>4, EndsAreAbove
  <2>6. IsUnder(w \o Apex, Apex)
    BY <2>4, EndsAreAbove
  <2>7. d = Apex
    BY <1>2, <1>5, <2>2, <2>5, <2>6 DEF OneDomain
  <2>8. v = w
    <3>1. w \o Apex = v \o Apex
      BY <2>2, <2>7
    <3> QED BY <2>3, <2>4, <3>1, ConcatSimplifications, Zenon
  <2> QED BY <1>1, <2>1, <2>2, <2>8 DEF Filtered, EntriesNamed
<1> QED BY <1>4, <1>5

\* The name whose entries answer.
FoundUnder == IF NoneAtAll THEN Wildcard(Wanted) ELSE Wanted

\* The wildcard is tried exactly if nothing hides it.
LEMMA WildcardIsTried ==
    ASSUME OnWay, Unambiguous, Arrived, ~Delegated,
           NEW S, Label \subseteq S, Wanted \in Seq(S)
    PROVE  HidesWildcard(Wanted \o Apex) <=> ~NoneAtAll
<1> DEFINE w == Wanted
<1>1. ObjectsOK /\ Domain(Owner) = Apex
  BY ArrivedAtOwner DEF OnWay, TypeOK
<1>2. Apex \in Seq(S) /\ w \in Seq(S)
  <2>1. Apex \in Seq(Label)
    BY ApexIsAsked
  <2> QED BY <2>1, SeqMonotonic
<1> HIDE DEF w
<1>3. Len(w \o Apex) - Len(Apex) = Len(w) /\ Len(w) \in Nat
  BY <1>2, ConcatProperties, LenProperties
<1>4. ASSUME NEW e \in Entry, Has(e), NEW m \in held[e].spec.names
      PROVE  m \o Apex = w \o Apex <=> m = w
  <2>1. held[e].spec.names \in SUBSET Seq(Label)
    BY <1>1, <1>4, ServerIsTyped DEF ObjectsOK, Has, Object, Copied, SpecOf, EntrySpec, Name
  <2>2. m \in Seq(Label)
    BY <1>4, <2>1
  <2>3. m \in Seq(S)
    BY <2>2, SeqMonotonic
  <2> QED BY <1>2, <2>3, ConcatSimplifications, Zenon
<1>5. (\E e \in Held(Entry) : \E m \in held[e].spec.names : m \o Apex = w \o Apex)
        <=> EntriesNamed(w) # {}
  <2>1. ASSUME NEW e \in Held(Entry), NEW m \in held[e].spec.names, m \o Apex = w \o Apex
        PROVE  EntriesNamed(w) # {}
    <3>1. e \in Entry /\ Has(e)
      BY DEF Held
    <3>2. w \in held[e].spec.names
      BY <1>4, <2>1, <3>1
    <3>3. e \in EntriesNamed(w)
      BY <3>1, <3>2 DEF EntriesNamed
    <3> QED BY <3>3
  <2>2. ASSUME EntriesNamed(w) # {}
        PROVE  \E e \in Held(Entry) : \E m \in held[e].spec.names : m \o Apex = w \o Apex
    <3>1. PICK e : e \in EntriesNamed(w)
      BY <2>2
    <3>2. e \in Held(Entry) /\ w \in held[e].spec.names
      BY <3>1 DEF EntriesNamed, Held
    <3> QED BY <3>2
  <2> QED BY <2>1, <2>2
<1>6. HidesWildcard(w \o Apex) <=> Len(w) < 2 \/ EntriesNamed(w) # {}
  <2>1. HidesWildcard(w \o Apex) <=>
          \/ Len(w \o Apex) - Len(Apex) < 2
          \/ \E e \in Held(Entry) : \E m \in held[e].spec.names : m \o Apex = w \o Apex
    BY <1>1 DEF HidesWildcard
  <2>2. Len(w \o Apex) - Len(Apex) < 2 <=> Len(w) < 2
    BY <1>3
  <2> QED BY <1>5, <2>1, <2>2, Zenon
<1>7. NoneAtAll <=> EntriesNamed(w) = {} /\ Len(w) > 1
  BY DEF NoneAtAll, w
<1>8. Len(w) < 2 <=> ~(Len(w) > 1)
  BY <1>3
<1> QED BY <1>6, <1>7, <1>8, Zenon DEF w

\* The entries that are found are those that answer for the name by the
\* declarations.
LEMMA AppliesAsFound ==
    ASSUME OnWay, Unambiguous, Arrived, ~Delegated,
           NEW S, Label \subseteq S, "*" \in S, Wanted \in Seq(S),
           OneDomain(Wanted \o Apex, Owner), OneDomain(Wildcard(Wanted \o Apex), Owner)
    PROVE  Applying(Wanted \o Apex) = Filtered(EntriesNamed(FoundUnder))
<1> DEFINE host == Wanted \o Apex
<1>1. Filtered(EntriesNamed(Wanted)) = Declared(host)
  BY DeclaredAreFound
<1>2. HidesWildcard(host) <=> ~NoneAtAll
  BY WildcardIsTried
<1>3. CASE NoneAtAll
  <2>1. Declared(host) = {}
    BY <1>1, <1>3 DEF NoneAtAll, Filtered
  <2>2. Apex \in Seq(S)
    <3>1. Apex \in Seq(Label)
      BY ApexIsAsked
    <3> QED BY <3>1, SeqMonotonic
  <2>3. Wanted # <<>>
    BY <1>3, EmptySeq DEF NoneAtAll
  <2> DEFINE w == Wildcard(Wanted)
  <2>4. Wildcard(host) = w \o Apex /\ w \in Seq(S)
    BY <2>2, <2>3, WildcardBelow
  <2> HIDE DEF w
  <2>5. Filtered(EntriesNamed(w)) = Declared(Wildcard(host))
    BY <2>4, DeclaredAreFound
  <2> QED BY <1>2, <1>3, <2>1, <2>5 DEF Applying, FoundUnder, w
<1>4. CASE ~NoneAtAll
  BY <1>1, <1>2, <1>4 DEF Applying, FoundUnder
<1> QED BY <1>3, <1>4

\* What a verdict and an answer tell of these entries.
LEMMA TellsOfFound ==
    ASSUME NEW out, Tells(out)
    PROVE  /\ out.kind = "nxdomain" => Refused \/ Filtered(EntriesNamed(FoundUnder)) = {}
           /\ out.kind \in {"nodata", "answer"} /\ Type \in {"A", "SRV"} =>
                ~InReverse /\ Gives(out.data, FoundUnder)
<1>1. NoneAtAll => ~Gives(out.data, Wanted)
  BY DEF NoneAtAll, Gives, Filtered
<1> QED BY <1>1 DEF Tells, Nothing, FoundUnder

\* The labels before the domain are those of the name.
LEMMA RelHasLabels ==
    ASSUME OnWay
    PROVE  /\ DOMAIN Rel = 1 .. Len(Rel) /\ DOMAIN Asked = 1 .. Len(Asked)
           /\ Len(Rel) \in Nat /\ Len(Rel) <= Len(Asked) /\ Len(Asked) - Len(Apex) = Len(Rel)
           /\ \A i \in 1 .. Len(Rel) : Rel[i] = Asked[i]
<1>1. Asked = Rel \o Apex /\ Rel \in Seq(Label) /\ Apex \in Seq(Label)
  BY ApexIsAsked
<1>2. /\ Len(Rel \o Apex) = Len(Rel) + Len(Apex)
      /\ \A i \in 1 .. Len(Rel) + Len(Apex) :
           (Rel \o Apex)[i] = IF i <= Len(Rel) THEN Rel[i] ELSE Apex[i - Len(Rel)]
  BY <1>1, ConcatProperties
<1>3. Len(Rel) \in Nat /\ Len(Apex) \in Nat /\ DOMAIN Rel = 1 .. Len(Rel)
  BY <1>1, LenProperties
<1>4. DOMAIN Asked = 1 .. Len(Asked)
  BY AskedIsName, LenProperties DEF OnWay
<1> QED BY <1>1, <1>2, <1>3, <1>4

\* An address is looked up for the name itself, below the domain of the owner,
\* and is refused below the reverse trees only.
LEMMA AddressIsWanted ==
    ASSUME OnWay, Unambiguous, Arrived, ~Delegated, AsksAddress
    PROVE  /\ Host = Wanted \o Apex /\ Wanted \in Seq(Label \cup {"*", "apex", "dns"})
           /\ Wanted # <<>> /\ ~IsService /\ (Refused <=> InReverse)
           /\ (InReverse <=> IsReverse(Host))
<1> DEFINE S == Label \cup {"*", "apex", "dns"}
<1>1. Asked = Rel \o Apex /\ Rel \in Seq(Label) /\ Domain(Owner) = Apex
      /\ (AtApex <=> Apex = Asked)
  BY ApexIsAsked, ArrivedAtOwner
<1>2. Type = "A"
  BY DEF AsksAddress, Type
<1>3. \A i \in DOMAIN Rel : Rel[i] \notin {"_tcp", "_udp", "_upd"}
  <2>1. TAKE i \in DOMAIN Rel
  <2>2. i \in 1 .. Len(Rel) /\ i \in DOMAIN Asked
    BY RelHasLabels
  <2> QED BY <2>2, RelHasLabels DEF AsksAddress
<1>4. ~IsService
  BY <1>3 DEF IsService, Protocols
<1>5. CASE AtApex
  <2>1. Wanted = <<"apex", "dns">> /\ Host = <<"apex", "dns">> \o Apex
    BY <1>1, <1>2, <1>5 DEF Wanted, UsesSpecial, Host, Special
  <2>2. <<"apex", "dns">> \in Seq(S) /\ <<"apex", "dns">> # <<>>
    OBVIOUS
  <2>3. Refused <=> InReverse
    BY <1>2, <1>5 DEF Refused
  <2>4. InReverse <=> IsReverse(Host)
    <3>1. Host = Special \o Asked /\ UsesSpecial
      BY <1>1, <1>2, <1>5 DEF UsesSpecial, Host
    <3> QED BY <3>1 DEF InReverse, Asked
  <2> QED BY <1>4, <2>1, <2>2, <2>3, <2>4
<1>6. CASE ~AtApex
  <2>1. Wanted = Rel /\ Host = Rel \o Apex
    BY <1>1, <1>4, <1>6 DEF Wanted, UsesSpecial, HostPart, Host
  <2>2. Rel # <<>>
    BY <1>6 DEF AtApex
  <2>3. 1 \in DOMAIN Rel
    BY <1>1, <2>2, RelHasLabels, EmptySeq
  <2>4. Refused <=> InReverse
    <3>1. ~Malformed
      BY <1>3, <1>6, <2>3 DEF Malformed
    <3>2. IsService = (Type \in {"SRV", "ANY"})
      <4>1. ~(Type \in {"SRV", "ANY"})
        BY <1>2
      <4> QED BY <1>4, <4>1 DEF IsService
    <3> QED BY <3>1, <3>2, Zenon DEF Refused, Denied
  <2>5. Rel \in Seq(S)
    <3>1. Label \subseteq S
      OBVIOUS
    <3> HIDE DEF S
    <3> QED BY <1>1, <3>1, SeqMonotonic
  <2>6. InReverse <=> IsReverse(Host)
    <3>1. Host = Asked /\ ~UsesSpecial
      BY <1>1, <1>6 DEF Host, UsesSpecial
    <3> QED BY <3>1 DEF InReverse, Asked
  <2> QED BY <1>4, <2>1, <2>2, <2>4, <2>5, <2>6
<1> QED BY <1>5, <1>6

\* The addresses of an answer are those declared for the name, or else for its
\* wildcard, and exactly the names without any and those below the reverse trees
\* are denied.
THEOREM AddressesDeclared == Spec => []AddressesAreDeclared
<1>1. TypeOK /\ PathsAreLinked /\ Known => AddressesAreDeclared
  <2> SUFFICES ASSUME TypeOK, PathsAreLinked, Known, Settled, AsksAddress,
                      req.out.kind \in {"answer", "nodata", "nxdomain"},
                      OneDomain(Host, Owner), OneDomain(Wildcard(Host), Owner)
               PROVE  /\ Answered("nxdomain") <=> IsReverse(Host) \/ Applying(Host) = {}
                      /\ ~Answered("nxdomain") => req.out.data = Recs(Applying(Host))
    BY DEF AddressesAreDeclared
  <2> DEFINE S == Label \cup {"*", "apex", "dns"}
             hits == Filtered(EntriesNamed(FoundUnder))
  <2>1. Tells(req.out) /\ Arrived /\ OnWay /\ Unambiguous
    BY SettledTells DEF Settled
  <2>2. ~Delegated /\ Type = "A"
    BY <2>1 DEF Tells, AsksAddress, Type
  <2>3. /\ Host = Wanted \o Apex /\ Wanted \in Seq(S) /\ ~IsService
        /\ (Refused <=> IsReverse(Host)) /\ (InReverse <=> IsReverse(Host))
    BY <2>1, <2>2, AddressIsWanted
  <2>4. Label \subseteq S /\ "*" \in S
    OBVIOUS
  <2> HIDE DEF S
  <2>5. Applying(Host) = hits
    BY <2>1, <2>2, <2>3, <2>4, AppliesAsFound
  <2>6. \A some : Data(some) = Recs(some)
    BY <2>2, <2>3 DEF Data, Recs
  <2>7. Answered("nxdomain") <=> req.out.kind = "nxdomain"
    BY DEF Answered, Settled
  <2>8. Answered("nxdomain") => IsReverse(Host) \/ hits = {}
    BY <2>1, <2>3, <2>7, TellsOfFound
  <2>9. ~Answered("nxdomain") => /\ ~IsReverse(Host) /\ hits # {}
                                /\ req.out.data = Data(hits)
    <3>1. HAVE ~Answered("nxdomain")
    <3>2. ~InReverse /\ Gives(req.out.data, FoundUnder)
      BY <2>1, <2>2, <2>7, <3>1, TellsOfFound
    <3> QED BY <2>3, <3>2 DEF Gives
  <2> QED BY <2>5, <2>6, <2>8, <2>9
<1> QED BY <1>1, AlwaysKnown, PTL

\* A service is looked up for the host after its protocol, below the domain of
\* the owner, and is refused below the reverse trees only.
LEMMA ServiceIsWanted ==
    ASSUME OnWay, Unambiguous, Arrived, ~Delegated, Type = "SRV",
           NEW i \in 2 .. Len(Asked) - Len(Domain(Owner)), Asked[i] \in {"_tcp", "_udp"},
           \A j \in 1 .. i - 1 : Asked[j] \notin {"_tcp", "_udp", "_upd"}
    PROVE  /\ SubSeq(Asked, i + 1, Len(Asked)) = Wanted \o Apex
           /\ Wanted \in Seq(Label) /\ IsService
           /\ (Refused <=> IsReverse(Asked)) /\ (InReverse <=> IsReverse(Asked))
           /\ OneDomain(SubSeq(Asked, i + 1, Len(Asked)), Owner)
<1> DEFINE host == SubSeq(Asked, i + 1, Len(Asked))
<1>1. /\ Asked = Rel \o Apex /\ Rel \in Seq(Label) /\ Apex \in Seq(Label)
      /\ Domain(Owner) = Apex
  BY ApexIsAsked, ArrivedAtOwner
<1>2. /\ i \in 2 .. Len(Rel) /\ i \in 1 .. Len(Rel) /\ 1 \in 1 .. Len(Rel)
      /\ 1 \in 1 .. i - 1 /\ i \in DOMAIN Asked /\ i \in DOMAIN Rel
  BY <1>1, RelHasLabels
<1>3. Rel[i] \in {"_tcp", "_udp"} /\ \A j \in 1 .. i - 1 : Rel[j] \notin {"_tcp", "_udp", "_upd"}
  <2>1. \A j \in 1 .. i - 1 : j \in 1 .. Len(Rel)
    BY <1>2, RelHasLabels
  <2> QED BY <1>2, <2>1, RelHasLabels
<1>4. i \in Protocols /\ \A j \in Protocols : i <= j
  <2>1. i \in Protocols
    BY <1>2, <1>3 DEF Protocols
  <2>2. ASSUME NEW j \in Protocols, ~(i <= j) PROVE FALSE
    <3>1. j \in 1 .. Len(Rel) /\ Rel[j] \in {"_tcp", "_udp"}
      BY RelHasLabels DEF Protocols
    <3>2. j \in 1 .. i - 1
      BY <2>2, <3>1, RelHasLabels
    <3> QED BY <1>3, <3>1, <3>2
  <2> QED BY <2>1, <2>2
<1>5. First = i
  <2>1. First \in Protocols /\ \A j \in Protocols : First <= j
    BY <1>4 DEF First
  <2>2. First \in 1 .. Len(Rel) /\ First <= i /\ i <= First
    BY <1>4, <2>1, RelHasLabels DEF Protocols
  <2> QED BY <2>2
<1>6. IsService
  BY <1>4 DEF IsService
<1>7. ~AtApex
  BY <1>2, EmptySeq DEF AtApex
<1>8. Wanted = SubSeq(Rel, i + 1, Len(Rel))
  BY <1>5, <1>6, <1>7 DEF Wanted, UsesSpecial, HostPart
<1>9. Wanted \in Seq(Label) /\ host = Wanted \o Apex
  <2>1. i \in 0 .. Len(Rel)
    BY <1>2
  <2>2. Rel \in Seq(Label) /\ Apex \in Seq(Label)
    BY <1>1
  <2>3. /\ SubSeq(Rel, i + 1, Len(Rel)) \in Seq(Label)
        /\ SubSeq(Rel \o Apex, i + 1, Len(Rel \o Apex)) = SubSeq(Rel, i + 1, Len(Rel)) \o Apex
    <3>1. \A p, f \in Seq(Label) : \A k \in 0 .. Len(p) :
            /\ SubSeq(p, k + 1, Len(p)) \in Seq(Label)
            /\ SubSeq(p \o f, k + 1, Len(p \o f)) = SubSeq(p, k + 1, Len(p)) \o f
      BY ONLY LaterPart
    <3> HIDE DEF host
    <3> QED BY ONLY <2>1, <2>2, <3>1
  <2>4. host = SubSeq(Rel \o Apex, i + 1, Len(Rel \o Apex))
    BY <1>1
  <2> QED BY <1>8, <2>3, <2>4
<1>10. (Refused <=> IsReverse(Asked)) /\ (InReverse <=> IsReverse(Asked))
  <2>1. ~Malformed
    BY <1>2, <1>3, <1>7 DEF Malformed
  <2>2. InReverse <=> IsReverse(Asked)
    BY <1>7 DEF InReverse, UsesSpecial, Asked
  <2>3. IsService = (Type \in {"SRV", "ANY"})
    BY <1>6 DEF IsService
  <2> QED BY <2>1, <2>2, <2>3, Zenon DEF Refused, Denied
<1>11. OneDomain(host, Owner)
  <2>1. i + 1 \in 1 .. Len(Asked) + 1
    BY <1>2, RelHasLabels
  <2>2. Asked \in Seq(Label) /\ TypeOK
    BY AskedIsName DEF OnWay
  <2>3. Owner \in Covering /\ Owner \in Zone
    BY <2>2, OwnerIsThere, DomainsAreNames
  <2>4. ASSUME NEW c \in ZoneNames(Owner), IsUnder(host, c) PROVE IsUnder(Asked, c)
    <3>1. c \in Seq(Label)
      BY <2>2, <2>3, NamesAreNames
    <3> QED BY <2>1, <2>2, <2>4, <3>1, NamesAreBelowTheirEnds
  <2> QED BY <2>3, <2>4 DEF OneDomain, Unambiguous
<1> QED BY <1>6, <1>9, <1>10, <1>11

\* The records of a service are those of the entries declared for its host, or
\* else for the wildcard of that, and a service is denied when there are none or
\* below the reverse trees, where none is ever answered.
THEOREM ServicesDeclared == Spec => []ServicesAreDeclared
<1>1. TypeOK /\ PathsAreLinked /\ Known => ServicesAreDeclared
  <2> SUFFICES ASSUME TypeOK, PathsAreLinked, Known, Settled, req.query.type = "SRV",
                      NEW i \in 2 .. Len(Asked) - Len(Domain(Owner)),
                      Asked[i] \in {"_tcp", "_udp"},
                      \A j \in 1 .. i - 1 : Asked[j] \notin {"_tcp", "_udp", "_upd"},
                      OneDomain(Wildcard(SubSeq(Asked, i + 1, Len(Asked))), Owner),
                      Answered("answer") \/ Answered("nxdomain")
               PROVE  LET host == SubSeq(Asked, i + 1, Len(Asked))
                      IN  /\ Answered("answer") =>
                               /\ ~IsReverse(Asked)
                               /\ req.out.data \subseteq
                                    {held[e].spec.srv : e \in Fine(Applying(host))}
                          /\ Answered("nxdomain") => IsReverse(Asked) \/ Applying(host) = {}
    BY DEF ServicesAreDeclared
  <2> DEFINE host == SubSeq(Asked, i + 1, Len(Asked))
             S == Label \cup {"*"}
             hits == Filtered(EntriesNamed(FoundUnder))
  <2>1. Tells(req.out) /\ Arrived /\ OnWay /\ Unambiguous /\ ~Delegated /\ Type = "SRV"
    <3>1. Tells(req.out) /\ Arrived /\ OnWay
      BY SettledTells DEF Answered
    <3> QED BY <3>1 DEF Tells, Settled, Answered, Type
  <2>2. /\ host = Wanted \o Apex /\ Wanted \in Seq(Label) /\ IsService
        /\ (Refused <=> IsReverse(Asked)) /\ (InReverse <=> IsReverse(Asked))
        /\ OneDomain(host, Owner)
    BY <2>1, ServiceIsWanted
  <2> HIDE DEF host
  <2>3. Applying(host) = hits
    <3>1. Label \subseteq S /\ "*" \in S
      OBVIOUS
    <3> HIDE DEF S
    <3>2. Wanted \in Seq(S)
      BY <2>2, <3>1, SeqMonotonic
    <3>3. OneDomain(Wildcard(host), Owner)
      BY DEF host
    <3> QED BY <2>1, <2>2, <3>1, <3>2, <3>3, AppliesAsFound
  <2>4. Data(hits) \subseteq {held[e].spec.srv : e \in Fine(hits)}
    BY <2>2 DEF Data, Fine
  <2>5. Answered("answer") => ~IsReverse(Asked) /\ req.out.data = Data(hits)
    <3>1. HAVE Answered("answer")
    <3>2. ~InReverse /\ Gives(req.out.data, FoundUnder)
      BY <2>1, <3>1, TellsOfFound DEF Answered
    <3> QED BY <2>2, <3>2 DEF Gives
  <2>6. Answered("nxdomain") => IsReverse(Asked) \/ hits = {}
    BY <2>1, <2>2, TellsOfFound DEF Answered
  <2> QED BY <2>3, <2>4, <2>5, <2>6 DEF host
<1> QED BY <1>1, AlwaysKnown, PTL

===============================================================================
