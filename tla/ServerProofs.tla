----------------------------- MODULE ServerProofs -----------------------------
(***************************************************************************)
(* Proofs about the requests of a server, for any objects, any names and   *)
(* any number of changes between the steps of a request.                   *)
(***************************************************************************)
EXTENDS ServerProps, SequenceTheorems, TLAPS

-----------------------------------------------------------------------------
(* The objects. *)

\* A message is a sequence of parts.
LEMMA ErrorsTyped ==
    ASSUME NEW spec, NEW mode
    PROVE  ZoneError(spec, mode) \in Message /\ EntryError(spec) \in Message
<1>1. \A str \in Text : <<str>> \in Seq(Text)
  OBVIOUS
<1>2. <<>> \in Seq(Text)
  OBVIOUS
<1>3. Nested \in Message /\ NoMail \in Message /\ BadEntry \in Message
  BY <1>1 DEF Nested, NoMail, BadEntry, Text, Message
<1> QED BY <1>2, <1>3 DEF ZoneError, EntryError, Message

\* What an informer stores of an object is a copy of it.
LEMMA CopyTyped ==
    ASSUME NEW o \in Object, NEW spec \in SpecOf(o) \cup {Absent}
    PROVE  /\ spec # Absent => Copy(o, spec) \in Copied(o)
           /\ spec = Absent => Copy(o, spec) = Absent
<1>1. SUFFICES ASSUME spec # Absent PROVE Copy(o, spec) \in Copied(o)
  BY DEF Copy
<1>2. <<>> \in Message /\ {} \in SUBSET Name /\ None \in Ref
  BY EmptySeq DEF Message, Ref
<1>3. CASE o \in Zone
  <2>1. NewZoneStatus \in ZoneStatus
    BY <1>2 DEF NewZoneStatus, ZoneStatus, State
  <2>2. ZoneError(spec, transitive) \in Message
    BY ErrorsTyped
  <2> QED
    BY <1>1, <1>3, <2>1, <2>2
       DEF Copy, AsObject, ToZone, IsPlain, Copied, StatusOf, NewZoneStatus
<1>4. CASE o \notin Zone
  <2>1. NewEntryStatus \in EntryStatus
    BY <1>2 DEF NewEntryStatus, EntryStatus, State
  <2>2. EntryError(spec) \in Message
    BY ErrorsTyped
  <2> QED
    BY <1>1, <1>4, <2>1, <2>2
       DEF Copy, AsObject, ToEntry, IsPlain, Copied, StatusOf, NewEntryStatus
<1> QED BY <1>3, <1>4

\* A zone in the caches is the copy of a zone, and has its name.
LEMMA HeldZones ==
    ASSUME ObjectsOK, NEW z \in Zone, Has(z)
    PROVE  held[z] \in CopiedZone /\ held[z].name = z
BY DEF ObjectsOK, Has, Object, Copied, CopiedZone, SpecOf, StatusOf

\* The data of an entry in the caches are texts.
LEMMA HeldEntries ==
    ASSUME ObjectsOK, NEW e \in Entry, Has(e)
    PROVE  held[e].spec.recs \in STRING /\ held[e].spec.srv \in STRING
BY ServerIsTyped DEF ObjectsOK, Has, Object, Copied, SpecOf, EntrySpec

-----------------------------------------------------------------------------
(* The steps of a request. *)

\* The way of the request and its place on it are well-formed.
Sound == RequestOK /\ PathsAreLinked

\* A request that goes on with the same zones, or ends, stays sound.
LEMMA Goes ==
    ASSUME Sound, NEW pc \in PC, Goto(pc),
           req.pc \notin {"idle", "root"},
           pc \in {"lookup", "wildcard", "address", "verdict"} =>
             req.pc \in {"walk", "lookup", "wildcard", "address"},
           pc \notin {"root", "walk"},
           pc = "address" => Reverse
    PROVE  Sound'
<1>1. /\ req' \in Request /\ req'.pc = pc
      /\ req'.path = req.path /\ req'.query = req.query /\ req'.at = req.at
  BY DEF Sound, RequestOK, Goto, Request
<1>2. RequestOK'
  BY <1>1 DEF Sound, RequestOK, Here, Reverse
<1>3. PathsAreLinked'
  BY <1>1 DEF Sound, PathsAreLinked, IsLinked
<1> QED BY <1>2, <1>3 DEF Sound

\* An answer, whatever it is, leaves the way as it is.
LEMMA Answers ==
    ASSUME Sound, NEW out \in Outcome, Answer(out)
    PROVE  Sound'
<1>1. /\ req' \in Request /\ req'.pc = "done"
      /\ req'.path = req.path /\ req'.query = req.query
  BY DEF Sound, RequestOK, Answer, Request, PC
<1>2. RequestOK'
  BY <1>1 DEF RequestOK
<1>3. PathsAreLinked'
  BY <1>1 DEF Sound, PathsAreLinked, IsLinked
<1> QED BY <1>2, <1>3 DEF Sound

\* An answer without data.
LEMMA Excuses ==
    ASSUME NEW kind \in Kind
    PROVE  Because(kind) \in Outcome
BY EmptySeq DEF Because, Outcome, Name

\* Data of an answer.
LEMMA RecordsTyped ==
    ASSUME NEW data \in SUBSET STRING
    PROVE  Records(data) \in Outcome
BY EmptySeq DEF Records, Outcome, Kind, Name

\* A request with a zone knows the domain of its SOA record.
LEMMA Authorities ==
    ASSUME Sound, req.pc \in {"walk", "lookup", "wildcard", "address", "verdict"},
           NEW kind \in Kind
    PROVE  SOA(kind) \in Outcome
<1>1. req.query.name \in Seq(Label)
  BY DEF Sound, RequestOK, Request, Query, Name
<1>2. Here \in Cut
  <2>1. req.path \in Seq(Cut) /\ req.path # <<>>
    BY DEF Sound, RequestOK, Request
  <2> QED BY <2>1, LenProperties, ElementOfSeq, EmptySeq DEF Here
<1>3. Here.low \in Nat /\ Here.low >= 1
  BY <1>2 DEF Sound, RequestOK, Cut
<1>4. Apex \in Name
  <2>1. Len(req.query.name) \in Nat
    BY <1>1, LenProperties
  <2>2. \A i \in Here.low .. Len(req.query.name) : i \in 1 .. Len(req.query.name)
    BY <1>3, <2>1
  <2> QED BY <1>1, <1>3, <2>1, <2>2, SubSeqProperties DEF Apex, Name
<1> QED BY <1>4 DEF SOA, Outcome

\* The way of a request becomes longer by one zone.
LEMMA Walks ==
    ASSUME Sound, NEW cut \in Cut, Walk(cut), cut.low >= 1, req.pc # "root" => req.path # <<>>,
           req.path = <<>> => /\ cut.zone.name = RootZone
                              /\ cut.high = Len(req.query.name),
           req.path # <<>> => IsLinked(Here, cut)
    PROVE  Sound'
<1> DEFINE p == req.path  k == Len(req.path)
<1>1. p \in Seq(Cut)
  BY DEF Sound, RequestOK, Request
<1>2. /\ req' \in Request /\ req'.pc = "walk" /\ req'.at = cut.low - 1
      /\ req'.path = Append(p, cut) /\ req'.query = req.query
  <2>1. Append(p, cut) \in Seq(Cut)
    BY <1>1, AppendProperties
  <2>2. cut.low - 1 \in Nat
    BY DEF Cut
  <2>3. req' = [req EXCEPT !.pc = "walk", !.path = Append(p, cut), !.at = cut.low - 1]
    BY DEF Walk
  <2>4. req \in Request
    BY DEF Sound, RequestOK
  <2> QED BY <2>1, <2>2, <2>3, <2>4 DEF Request, PC
<1>3. /\ k \in Nat /\ Len(req'.path) = k + 1 /\ req'.path[k + 1] = cut
      /\ req'.path # <<>>
  BY <1>1, <1>2, LenProperties, AppendProperties
<1>4. \A i \in 1 .. k : req'.path[i] = p[i]
  BY <1>1, <1>2, AppendProperties
<1>5. RequestOK'
  <2>1. Here' = cut
    BY <1>3 DEF Here
  <2>2. cut.low - 1 \in 0 .. cut.low - 1
    BY DEF Cut
  <2> QED BY <1>2, <1>3, <2>1, <2>2 DEF RequestOK
<1>6. PathsAreLinked'
  <2>1. CASE k = 0
    <3>1. p = <<>>
      BY <1>1, <2>1, EmptySeq
    <3> QED BY <1>2, <1>3, <2>1, <3>1 DEF PathsAreLinked
  <2>2. CASE k > 0
    <3>1. p # <<>>
      BY <1>1, <2>2, EmptySeq
    <3>2. /\ p[1].zone.name = RootZone /\ p[1].high = Len(req.query.name)
          /\ \A i \in 1 .. k - 1 : IsLinked(p[i], p[i + 1])
      BY <3>1 DEF Sound, PathsAreLinked
    <3>3. req'.path[1] = p[1]
      BY <1>4, <1>3, <2>2
    <3>4. ASSUME NEW i \in 1 .. k PROVE IsLinked(req.path[i], req.path[i + 1])'
      <4>1. CASE i = k
        <5>1. p[k] = Here
          BY DEF Here
        <5> QED BY <1>2, <1>3, <1>4, <3>1, <4>1, <5>1 DEF IsLinked
      <4>2. CASE i # k
        <5>1. i \in 1 .. k - 1 /\ i + 1 \in 1 .. k
          BY <1>3, <4>2
        <5> QED BY <1>2, <1>4, <3>2, <5>1 DEF IsLinked
      <4> QED BY <4>1, <4>2
    <3> QED BY <1>2, <1>3, <3>2, <3>3, <3>4 DEF PathsAreLinked
  <2> QED BY <1>3, <2>1, <2>2
<1> QED BY <1>5, <1>6 DEF Sound

\* Reading the root zone: the way begins with it, at the end of the name.
LEMMA RootSteps ==
    ASSUME TypeOK, PathsAreLinked, ReadRoot
    PROVE  Sound'
<1> DEFINE n == req.query.name
           domains == {d \o req.base : d \in held[RootZone].spec.domains}
           zones == {z \in domains : IsUnder(n, z)}
<1>1. Sound /\ req.path = <<>> /\ req \in Request
  BY DEF TypeOK, Sound, RequestOK, ReadRoot
<1>2. CASE ~Has(RootZone)
  BY <1>1, <1>2, Answers, Excuses DEF ReadRoot, Fails, Kind
<1>3. CASE Has(RootZone) /\ zones = {}
  BY <1>1, <1>3, Answers, Excuses DEF ReadRoot, Kind
<1>4. CASE Has(RootZone) /\ zones # {}
  <2>1. PICK z \in zones :
          Walk([zone |-> held[RootZone], low |-> Len(n) - Len(z) + 1, high |-> Len(n)])
    BY <1>4 DEF ReadRoot
  <2>2. held[RootZone] \in CopiedZone /\ held[RootZone].name = RootZone
    BY <1>4, HeldZones, ResolverIsTyped DEF TypeOK
  <2>3. n \in Seq(Label) /\ req.base \in Seq(Label)
    BY <1>1 DEF Request, Query, Name
  <2>4. z \in Seq(Label)
    <3>1. PICK d \in held[RootZone].spec.domains : z = d \o req.base
      OBVIOUS
    <3>2. d \in Seq(Label)
      BY <2>2 DEF CopiedZone, ZoneSpec, Name
    <3> QED BY <2>3, <3>1, <3>2, ConcatProperties
  <2>5. Len(z) \in Nat /\ Len(n) \in Nat /\ Len(z) <= Len(n)
    BY <2>3, <2>4, LenProperties DEF IsUnder
  <2> DEFINE cut == [zone |-> held[RootZone], low |-> Len(n) - Len(z) + 1, high |-> Len(n)]
  <2>6. /\ cut \in Cut /\ cut.low >= 1 /\ cut.high = Len(n)
        /\ cut.zone.name = RootZone
    BY <2>2, <2>5 DEF Cut
  <2>7. Walk(cut)
    BY <2>1
  <2> HIDE DEF cut, n
  <2>8. cut.high = Len(req.query.name)
    BY <2>6 DEF n
  <2> QED BY <1>1, <2>6, <2>7, <2>8, Walks DEF ReadRoot
<1> QED BY <1>2, <1>3, <1>4

\* A step along the labels: a nested zone that is found is linked to the zone
\* the request has reached.
LEMMA WalkSteps ==
    ASSUME TypeOK, PathsAreLinked, WalkDown
    PROVE  Sound'
<1>1. /\ Sound /\ req \in Request /\ req.pc = "walk" /\ req.path # <<>>
      /\ req.at \in 0 .. Here.low - 1 /\ req.at > 0
  BY DEF TypeOK, Sound, RequestOK, WalkDown
<1>2. Here.low \in Nat
  <2>1. Here \in Cut
    BY <1>1, LenProperties, EmptySeq DEF Here, Request
  <2> QED BY <2>1 DEF Cut
<1>3. CASE \E z \in Zone : IsCut(z)
  <2>1. PICK z \in Zone : /\ IsCut(z)
                          /\ Walk([zone |-> held[z], low |-> req.at, high |-> Here.low - 1])
    BY <1>3 DEF WalkDown
  <2>2. held[z] \in CopiedZone
    BY <2>1, HeldZones DEF TypeOK, IsCut
  <2> DEFINE cut == [zone |-> held[z], low |-> req.at, high |-> Here.low - 1]
  <2>3. cut \in Cut /\ cut.low >= 1
    BY <1>1, <1>2, <2>2 DEF Cut
  <2>4. IsLinked(Here, cut)
    BY <1>1, <1>2, <2>1 DEF IsLinked, IsCut, Below
  <2>5. Walk(cut)
    BY <2>1
  <2> HIDE DEF cut
  <2> QED BY <1>1, <2>3, <2>4, <2>5, Walks
<1>4. CASE ~\E z \in Zone : IsCut(z)
  <2>1. req' = [req EXCEPT !.at = @ - 1]
    BY <1>4 DEF WalkDown
  <2>2. /\ req' \in Request /\ req'.pc = req.pc /\ req'.at = req.at - 1
        /\ req'.path = req.path /\ req'.query = req.query
    BY <1>1, <2>1 DEF Request
  <2>3. RequestOK'
    BY <1>1, <1>2, <2>2 DEF RequestOK, Here, Reverse
  <2>4. PathsAreLinked'
    BY <1>1, <2>2 DEF Sound, PathsAreLinked, IsLinked
  <2> QED BY <2>3, <2>4 DEF Sound
<1> QED BY <1>3, <1>4

\* What is found of a name is an outcome, or makes the request go on.
LEMMA FindSteps ==
    ASSUME TypeOK, PathsAreLinked, req.pc \in {"lookup", "wildcard"},
           NEW entries \in SUBSET Entry, \A e \in entries : Has(e), Found(entries)
    PROVE  Sound'
<1> DEFINE hits == Filtered(entries)
           data == Data(hits)
<1>1. Sound
  BY DEF TypeOK, Sound
<1>2. data \in SUBSET STRING
  <2>1. \A e \in hits : held[e].spec.recs \in STRING /\ held[e].spec.srv \in STRING
    BY HeldEntries DEF TypeOK, Filtered
  <2> QED BY <2>1 DEF Data, Fine
<1>3. Records(data) \in Outcome
  BY <1>2, RecordsTyped
<1>4. SOA("nodata") \in Outcome /\ Because("failure") \in Outcome
  BY <1>1, Excuses, Authorities DEF Kind
<1>5. \/ Goto("verdict") \/ Fails \/ Answer(SOA("nodata"))
      \/ Answer(Records(data))
  BY DEF Found
<1> QED BY <1>1, <1>3, <1>4, <1>5, Answers, Goes DEF Fails, PC

\* The lookups.
LEMMA LookupSteps ==
    ASSUME TypeOK, PathsAreLinked, Lookup \/ LookupWildcard \/ LookupAddress
    PROVE  Sound'
<1>1. Sound
  BY DEF TypeOK, Sound
<1>2. \A n : EntriesNamed(n) \in SUBSET Entry /\ \A e \in EntriesNamed(n) : Has(e)
  BY DEF EntriesNamed
<1>3. CASE Lookup
  <2>1. CASE Goto("wildcard")
    BY <1>1, <1>3, <2>1, Goes DEF Lookup, PC
  <2>2. CASE Found(EntriesNamed(Wanted))
    BY <1>2, <1>3, <2>2, FindSteps DEF Lookup
  <2>3. CASE Found({})
    BY <1>3, <2>3, FindSteps DEF Lookup
  <2> QED BY <1>3, <2>1, <2>2, <2>3 DEF Lookup
<1>4. CASE LookupWildcard
  BY <1>2, <1>4, FindSteps DEF LookupWildcard
<1>5. CASE LookupAddress
  <2>1. CASE Goto("verdict")
    BY <1>1, <1>5, <2>1, Goes DEF LookupAddress, PC
  <2>2. CASE ~Goto("verdict")
    <3>1. Answer(Records({AddressOf[req.query.name]}))
      BY <1>5, <2>2 DEF LookupAddress
    <3>2. req.query.name \in DOMAIN AddressOf
      BY <1>5 DEF TypeOK, RequestOK, LookupAddress, Reverse
    <3>3. Records({AddressOf[req.query.name]}) \in Outcome
      BY <3>2, ResolverIsTyped, RecordsTyped
    <3> QED BY <1>1, <3>1, <3>3, Answers
  <2> QED BY <2>1, <2>2
<1> QED BY <1>3, <1>4, <1>5

\* While there is no request its fields have their types.
LEMMA NoRequestSound ==
    /\ NoRequest \in Request /\ NoRequest.pc = "idle" /\ NoRequest.path = <<>>
<1>1. <<>> \in Name /\ <<>> \in Seq(Cut)
  BY EmptySeq DEF Name
<1>2. Because("") \in Outcome
  BY Excuses DEF Kind
<1>3. (CHOOSE q \in Queries : TRUE) \in Query
  BY ResolverIsTyped
<1> QED BY <1>1, <1>2, <1>3 DEF NoRequest, Request, PC

\* The end of the walk, the denial and the end of the request.
LEMMA EndSteps ==
    ASSUME TypeOK, PathsAreLinked, NEW synced, EndWalk \/ Deny(synced) \/ Finish
    PROVE  Sound'
<1>1. Sound
  BY DEF TypeOK, Sound
<1>2. \A kind \in Kind : Because(kind) \in Outcome
  BY Excuses
<1>3. CASE EndWalk
  <2>1. \/ Answer(Because("delegation")) \/ Answer(SOA("answer"))
        \/ Answer(SOA("nodata")) \/ Answer(Because("failure"))
        \/ (Reverse /\ Goto("address")) \/ Goto("lookup") \/ Goto("verdict")
    BY <1>3 DEF EndWalk, Fails
  <2>2. req.pc = "walk"
    BY <1>3 DEF EndWalk
  <2>3. SOA("answer") \in Outcome /\ SOA("nodata") \in Outcome
    BY <1>1, <2>2, Authorities DEF Kind
  <2> QED BY <1>1, <1>2, <2>1, <2>2, <2>3, Answers, Goes DEF Kind, PC
<1>4. CASE Deny(synced)
  <2>1. Answer(Because("next")) \/ Answer(SOA("nxdomain")) \/ Answer(SOA("servfail"))
    BY <1>4 DEF Deny
  <2>2. SOA("nxdomain") \in Outcome /\ SOA("servfail") \in Outcome
    BY <1>1, <1>4, Authorities DEF Deny, Kind
  <2> QED BY <1>1, <1>2, <2>1, <2>2, Answers DEF Kind
<1>5. CASE Finish
  <2>1. req' = NoRequest
    BY <1>5 DEF Finish
  <2> QED BY <2>1, NoRequestSound DEF Sound, RequestOK, PathsAreLinked, IsLinked, Here, Reverse
<1> QED BY <1>3, <1>4, <1>5

\* A request that arrives has not begun its way.
LEMMA AcceptSteps ==
    ASSUME TypeOK, NEW query \in Queries, NEW synced \in BOOLEAN, Accept(query, synced)
    PROVE  Sound'
<1>1. <<>> \in Name /\ <<>> \in Seq(Cut) /\ query \in Query
  BY ResolverIsTyped, EmptySeq DEF Name
<1>2. Because("") \in Outcome /\ Because("next") \in Outcome
  BY Excuses DEF Kind
<1>3. Bases \subseteq Name
  BY ResolverIsTyped
<1> DEFINE new == [pc |-> "root", query |-> query, base |-> <<>>, path |-> <<>>, at |-> 0,
                   out |-> Because(""), steady |-> TRUE, informed |-> synced]
<1>4. \/ req' = [new EXCEPT !.pc = "done", !.out = Because("next")]
      \/ \E b \in Bases : req' = [new EXCEPT !.base = b]
  BY DEF Accept
<1>5. new \in Request /\ new.path = <<>> /\ new.pc = "root"
  BY <1>1, <1>2 DEF Request, PC
<1> HIDE DEF new
<1>6. /\ req' \in Request /\ req'.pc \in {"root", "done"} /\ req'.path = <<>>
  BY <1>2, <1>3, <1>4, <1>5 DEF Request, PC
<1> QED BY <1>6 DEF Sound, RequestOK, PathsAreLinked

-----------------------------------------------------------------------------
(* The other steps. *)

\* What the other steps do to a request is to note that the caches changed.
LEMMA Notes ==
    ASSUME Sound, Unsteady \/ UNCHANGED req
    PROVE  Sound'
<1>1. /\ req' \in Request /\ req'.pc = req.pc /\ req'.at = req.at
      /\ req'.path = req.path /\ req'.query = req.query
  BY DEF Sound, RequestOK, Unsteady, Request
<1>2. RequestOK'
  BY <1>1 DEF Sound, RequestOK, Here, Reverse
<1>3. PathsAreLinked'
  BY <1>1 DEF Sound, PathsAreLinked, IsLinked
<1> QED BY <1>2, <1>3 DEF Sound

\* A list fills the feeds with what is declared.
LEMMA ListSteps ==
    ASSUME TypeOK, NEW k \in Resource, List(k)
    PROVE  ObjectsOK' /\ RestOK'
<1>1. \A o \in Object : feed'[o] \in Seq(SpecOf(o) \cup {Absent})
  <2>1. TAKE o \in Object
  <2>2. api[o] \in SpecOf(o) \cup {Absent}
    BY DEF TypeOK, ObjectsOK
  <2>3. <<api[o]>> \in Seq(SpecOf(o) \cup {Absent})
    BY <2>2
  <2> QED BY <2>3 DEF TypeOK, ObjectsOK, List
<1>2. ObjectsOK'
  <2>1. \A o \in Object : past'[o] \subseteq SpecOf(o) \cup {Absent}
    BY DEF TypeOK, ObjectsOK, List
  <2>2. DOMAIN feed' = Object /\ DOMAIN past' = Object /\ UNCHANGED <<held, api>>
    BY DEF List
  <2> QED BY <1>1, <2>1, <2>2 DEF TypeOK, ObjectsOK
<1>3. {o \in ObjectsOf(k) : api[o] # Absent} \in SUBSET Object
  BY DEF ObjectsOf, Object
<1>4. RestOK'
  BY <1>3 DEF TypeOK, RestOK, List, lifecycle
<1> QED BY <1>2, <1>4

\* An event becomes the copy of the object.
LEMMA DeliverSteps ==
    ASSUME TypeOK, NEW o \in Object, Deliver(o)
    PROVE  ObjectsOK' /\ RestOK'
<1>1. feed[o] \in Seq(SpecOf(o) \cup {Absent}) /\ feed[o] # <<>>
  BY DEF TypeOK, ObjectsOK, Deliver
<1>2. /\ Head(feed[o]) \in SpecOf(o) \cup {Absent}
      /\ Tail(feed[o]) \in Seq(SpecOf(o) \cup {Absent})
  BY <1>1, HeadTailProperties
<1>3. Copy(o, Head(feed[o])) \in Copied(o) \cup {Absent}
  BY <1>2, CopyTyped
<1>4. ObjectsOK'
  BY <1>2, <1>3 DEF TypeOK, ObjectsOK, Deliver
<1>5. RestOK'
  BY DEF TypeOK, RestOK, Deliver, lifecycle
<1> QED BY <1>4, <1>5

\* Users declare specifications only.
LEMMA ChangeSteps ==
    ASSUME TypeOK, NEW o \in Object, Change(o)
    PROVE  ObjectsOK' /\ RestOK'
<1>1. PICK spec \in Choices[o] :
        /\ api' = [api EXCEPT ![o] = spec]
        /\ IF informer[ResourceOf(o)] = "on"
           THEN /\ feed' = [feed EXCEPT ![o] = Append(@, spec)]
                /\ past' = [past EXCEPT ![o] = @ \cup {spec}]
           ELSE UNCHANGED <<feed, past>>
  BY DEF Change
<1>2. spec \in SpecOf(o) \cup {Absent}
  BY ServerIsTyped
<1>3. Append(feed[o], spec) \in Seq(SpecOf(o) \cup {Absent})
  BY <1>2, AppendProperties DEF TypeOK, ObjectsOK
<1>4. UNCHANGED held
  BY DEF Change
<1>5. ObjectsOK'
  <2>1. CASE informer[ResourceOf(o)] = "on"
    <3>1. /\ feed' = [feed EXCEPT ![o] = Append(@, spec)]
          /\ past' = [past EXCEPT ![o] = @ \cup {spec}]
      BY <1>1, <2>1
    <3>2. \A p \in Object : past'[p] \subseteq SpecOf(p) \cup {Absent}
      BY <1>2, <3>1 DEF TypeOK, ObjectsOK
    <3> QED BY <1>1, <1>2, <1>3, <1>4, <3>1, <3>2 DEF TypeOK, ObjectsOK
  <2>2. CASE informer[ResourceOf(o)] # "on"
    <3>1. UNCHANGED <<feed, past>>
      BY <1>1, <2>2
    <3> QED BY <1>1, <1>2, <1>4, <3>1 DEF TypeOK, ObjectsOK
  <2> QED BY <2>1, <2>2
<1>6. RestOK'
  BY DEF TypeOK, RestOK, Change, lifecycle
<1> QED BY <1>5, <1>6

-----------------------------------------------------------------------------
(* The theorems. *)

\* The start is sound.
LEMMA InitSound == Init => TypeOK /\ PathsAreLinked
<1> SUFFICES ASSUME Init PROVE TypeOK /\ PathsAreLinked
  OBVIOUS
<1>1. Sound
  BY NoRequestSound DEF Init, Sound, RequestOK, PathsAreLinked, IsLinked, Here, Reverse
<1>2. ObjectsOK
  BY ServerIsTyped, EmptySeq DEF Init, ObjectsOK
<1>3. RestOK
  BY ServerIsTyped DEF Init, RestOK
<1> QED BY <1>1, <1>2, <1>3 DEF TypeOK, Sound

\* Every step keeps the types and the way of the request.
LEMMA NextSound ==
    TypeOK /\ PathsAreLinked /\ [Next]_vars => TypeOK' /\ PathsAreLinked'
<1> SUFFICES ASSUME TypeOK, PathsAreLinked, [Next]_vars PROVE TypeOK' /\ PathsAreLinked'
  OBVIOUS
<1>0. Sound
  BY DEF TypeOK, Sound
<1> SUFFICES Sound' /\ ObjectsOK' /\ RestOK'
  BY DEF TypeOK, Sound
<1>1. CASE Startup \/ Poll \/ Timeout \/ Stop \/ UNCHANGED vars
  <2>1. UNCHANGED req
    BY <1>1 DEF Startup, Poll, Timeout, Stop, vars
  <2>2. ObjectsOK'
    BY <1>1 DEF TypeOK, ObjectsOK, Startup, Poll, Timeout, Stop, vars, caches
  <2>3. RestOK'
    BY <1>1 DEF TypeOK, RestOK, Startup, Poll, Timeout, Stop, vars, caches
  <2> QED BY <1>0, <2>1, <2>2, <2>3, Notes
<1>2. CASE Informers
  <2>1. PICK o \in Object : Deliver(o)
    BY <1>2 DEF Informers
  <2> QED BY <1>0, <2>1, DeliverSteps, Notes DEF Deliver
<1>3. CASE Users
  <2>1. PICK o \in Object : Change(o)
    BY <1>3 DEF Users
  <2> QED BY <1>0, <2>1, ChangeSteps, Notes DEF Change
<1>4. ASSUME NEW k \in Resource, List(k) PROVE Sound' /\ ObjectsOK' /\ RestOK'
  BY <1>0, <1>4, ListSteps, Notes DEF List
<1>5. ASSUME NEW k \in Resource, InformerStops(k) PROVE Sound' /\ ObjectsOK' /\ RestOK'
  <2>1. ObjectsOK'
    BY <1>5 DEF TypeOK, ObjectsOK, InformerStops
  <2>2. RestOK'
    BY <1>5 DEF TypeOK, RestOK, InformerStops, lifecycle
  <2> QED BY <1>0, <1>5, <2>1, <2>2, Notes DEF InformerStops
<1>6. CASE Arrival \/ Answering
  <2>1. ObjectsOK'
    BY <1>6 DEF TypeOK, ObjectsOK, Arrival, Answering, caches
  <2>2. RestOK'
    BY <1>6 DEF TypeOK, RestOK, Arrival, Answering, caches, lifecycle
  <2>3. CASE Arrival
    <3>1. HasSynced \in BOOLEAN
      BY DEF HasSynced
    <3> QED BY <2>3, <3>1, <2>1, <2>2, AcceptSteps DEF Arrival
  <2>4. CASE Answering
    <3>1. Resolve(HasSynced)
      BY <2>4 DEF Answering
    <3> QED BY <3>1, <2>1, <2>2, RootSteps, WalkSteps, EndSteps, LookupSteps DEF Resolve
  <2> QED BY <1>6, <2>3, <2>4
<1> QED BY <1>1, <1>2, <1>3, <1>4, <1>5, <1>6 DEF Next

\* Both hold always.
LEMMA AlwaysSound == Spec => [](TypeOK /\ PathsAreLinked)
BY InitSound, NextSound, PTL DEF Spec

\* TypeOK holds in every state of every server, for any objects and names.
THEOREM TypeCorrect == Spec => []TypeOK
BY AlwaysSound, PTL

\* However the caches change while a request is on its way, the zones it is
\* handed along form a line from the root zone down to the zone that answers:
\* no request ends in a zone that is not nested in the one before it, or for a
\* part of the name that is not a domain of it (PathsAreLinked).
THEOREM WaysAreLinked == Spec => []PathsAreLinked
BY AlwaysSound, PTL

-----------------------------------------------------------------------------
(* The caches. *)

\* Before its list an informer has received and stored nothing.
Untouched ==
    \A o \in Object : informer[ResourceOf(o)] = "off" => feed[o] = <<>> /\ held[o] = Absent

\* The objects of a resource are those it is the resource of.
LEMMA Resources ==
    /\ \A o \in Object : ResourceOf(o) \in Resource /\ o \in ObjectsOf(ResourceOf(o))
    /\ \A k \in Resource : \A o \in ObjectsOf(k) : o \in Object /\ ResourceOf(o) = k
BY ServerIsTyped DEF Object, Resource, ResourceOf, ObjectsOf

\* The copy of a specification has that specification.
LEMMA CopyKeeps ==
    ASSUME NEW o \in Object, NEW spec \in SpecOf(o) \cup {Absent}, ObjectsOK
    PROVE  /\ spec # Absent => Copy(o, spec) # Absent /\ Copy(o, spec).spec = spec
           /\ spec = Absent => Copy(o, spec) = Absent
<1>1. CASE spec = Absent
  BY <1>1 DEF Copy
<1>2. CASE spec # Absent
  <2>1. Copy(o, spec).spec = spec
    BY <1>2 DEF Copy, AsObject, ToZone, ToEntry
  <2>2. Copy(o, spec) \in Copied(o)
    BY <1>2, CopyTyped
  <2> QED BY <1>2, <2>1, <2>2, ServerIsTyped
<1> QED BY <1>1, <1>2

\* A server that has filled its caches never says again that it has not, so
\* that denials and readiness are never taken back (ReadyForGood).
THEOREM SyncedForGood == Spec => ReadyForGood
<1>1. ASSUME TypeOK, [Next]_vars, HasSynced PROVE HasSynced'
  <2>1. informer \in [Resource -> {"off", "on", "stopped"}] /\ listed \in [Resource -> SUBSET Object]
    BY <1>1 DEF TypeOK, RestOK
  <2>2. \A k \in Resource : ~List(k)
    BY <1>1 DEF HasSynced, List
  <2>3. CASE UNCHANGED <<informer, listed>>
    BY <1>1, <2>3 DEF HasSynced
  <2>4. ASSUME NEW o \in Object, Deliver(o) PROVE HasSynced'
    BY <1>1, <2>1, <2>4 DEF HasSynced, Deliver
  <2>5. ASSUME NEW k \in Resource, InformerStops(k) PROVE HasSynced'
    BY <1>1, <2>1, <2>5 DEF HasSynced, InformerStops
  <2>6. CASE \/ Startup \/ Poll \/ Timeout \/ Stop \/ Users \/ Arrival \/ Answering
             \/ UNCHANGED vars
    BY <2>3, <2>6 DEF Startup, Poll, Timeout, Stop, Users, Change, Arrival, Answering, vars, caches
  <2> QED BY <1>1, <2>2, <2>4, <2>5, <2>6 DEF Next, Informers
<1> QED BY <1>1, TypeCorrect, PTL DEF Spec, ReadyForGood

-----------------------------------------------------------------------------
(* Readiness and denials. *)

\* What an informer has received, and what it holds of the objects it does not
\* have to store any more, was declared when it listed them or since.
Stocked ==
    \A o \in Object : informer[ResourceOf(o)] # "off" =>
      /\ \A i \in 1 .. Len(feed[o]) : feed[o][i] \in past[o]
      /\ o \in listed[ResourceOf(o)] \/ Cached(o) \in past[o]

\* A list notes what it has still to store; of the other objects there is nothing.
LEMMA ListStocks ==
    ASSUME TypeOK, Untouched, Stocked, NEW k \in Resource, List(k)
    PROVE  Untouched' /\ Stocked'
<1> DEFINE present == {p \in ObjectsOf(k) : api[p] # Absent}
<1>1. /\ informer[k] = "off" /\ informer' = [informer EXCEPT ![k] = "on"]
      /\ UNCHANGED <<held, api>>
      /\ listed' = [listed EXCEPT ![k] = present]
      /\ feed' = [p \in Object |-> IF p \in present THEN <<api[p]>> ELSE feed[p]]
      /\ past' = [p \in Object |-> IF p \in ObjectsOf(k) THEN {api[p]} ELSE past[p]]
      /\ informer \in [Resource -> {"off", "on", "stopped"}]
      /\ listed \in [Resource -> SUBSET Object]
  BY DEF List, TypeOK, RestOK
<1>2. ASSUME NEW o \in Object, ResourceOf(o) # k
      PROVE  /\ informer'[ResourceOf(o)] = informer[ResourceOf(o)]
             /\ listed'[ResourceOf(o)] = listed[ResourceOf(o)]
             /\ feed'[o] = feed[o] /\ past'[o] = past[o]
  BY <1>1, <1>2, Resources
<1>3. ASSUME NEW o \in Object, ResourceOf(o) = k
      PROVE  /\ informer'[ResourceOf(o)] = "on" /\ past'[o] = {api[o]}
             /\ \A i \in 1 .. Len(feed'[o]) : feed'[o][i] = api[o]
             /\ o \in listed'[ResourceOf(o)] \/ Cached(o)' = api[o]
  <2>1. o \in ObjectsOf(k) /\ feed[o] = <<>> /\ held[o] = Absent
    BY <1>1, <1>3, Resources DEF Untouched
  <2>2. CASE o \in present
    BY <1>1, <1>3, <2>1, <2>2
  <2>3. CASE o \notin present
    <3>1. api[o] = Absent /\ feed'[o] = <<>> /\ Cached(o)' = Absent
      BY <1>1, <2>1, <2>3 DEF Cached, Has
    <3> QED BY <1>1, <1>3, <2>1, <3>1
  <2> QED BY <2>2, <2>3
<1>4. Untouched'
  <2>1. ASSUME NEW o \in Object, informer'[ResourceOf(o)] = "off"
        PROVE  feed'[o] = <<>> /\ held'[o] = Absent
    <3>1. ResourceOf(o) # k
      BY <1>3, <2>1
    <3> QED BY <1>1, <1>2, <2>1, <3>1 DEF Untouched
  <2> QED BY <2>1 DEF Untouched
<1>5. Stocked'
  <2>1. ASSUME NEW o \in Object, informer'[ResourceOf(o)] # "off"
        PROVE  /\ \A i \in 1 .. Len(feed'[o]) : feed'[o][i] \in past'[o]
               /\ o \in listed'[ResourceOf(o)] \/ Cached(o)' \in past'[o]
    <3>1. CASE ResourceOf(o) = k
      BY <1>3, <3>1
    <3>2. CASE ResourceOf(o) # k
      <4>1. Cached(o)' = Cached(o)
        BY <1>1 DEF Cached, Has
      <4> QED BY <1>2, <2>1, <3>2, <4>1 DEF Stocked
    <3> QED BY <3>1, <3>2
  <2> QED BY <2>1 DEF Stocked
<1> QED BY <1>4, <1>5

\* What is stored was received before.
LEMMA DeliverStocks ==
    ASSUME TypeOK, Untouched, Stocked, NEW o \in Object, Deliver(o)
    PROVE  Untouched' /\ Stocked'
<1>1. feed[o] \in Seq(SpecOf(o) \cup {Absent}) /\ feed[o] # <<>>
  BY DEF TypeOK, ObjectsOK, Deliver
<1>2. /\ DOMAIN held = Object /\ DOMAIN feed = Object
      /\ held' = [held EXCEPT ![o] = Copy(o, Head(feed[o]))]
      /\ feed' = [feed EXCEPT ![o] = Tail(feed[o])]
      /\ listed' = [listed EXCEPT ![ResourceOf(o)] = listed[ResourceOf(o)] \ {o}]
      /\ listed \in [Resource -> SUBSET Object]
      /\ UNCHANGED <<informer, past>>
  BY DEF TypeOK, ObjectsOK, RestOK, Deliver
<1>3. informer[ResourceOf(o)] # "off"
  BY <1>1 DEF Untouched
<1>4. Untouched'
  <2>1. ASSUME NEW p \in Object, informer'[ResourceOf(p)] = "off"
        PROVE  feed'[p] = <<>> /\ held'[p] = Absent
    <3>1. p # o
      BY <1>2, <1>3, <2>1
    <3> QED BY <1>2, <2>1, <3>1 DEF Untouched
  <2> QED BY <2>1 DEF Untouched
<1>5. ASSUME NEW p \in Object, informer'[ResourceOf(p)] # "off"
      PROVE  /\ \A i \in 1 .. Len(feed'[p]) : feed'[p][i] \in past'[p]
             /\ p \in listed'[ResourceOf(p)] \/ Cached(p)' \in past'[p]
  <2>1. CASE p # o
    <3>1. p \in listed[ResourceOf(p)] => p \in listed'[ResourceOf(p)]
      BY <1>2, <2>1, Resources
    <3>2. Cached(p)' = Cached(p) /\ feed'[p] = feed[p]
      BY <1>2, <2>1 DEF Cached, Has
    <3> QED BY <1>2, <1>5, <3>1, <3>2 DEF Stocked
  <2>2. CASE p = o
    <3>1. /\ Head(feed[o]) \in SpecOf(o) \cup {Absent} /\ Head(feed[o]) = feed[o][1]
          /\ Len(feed[o]) \in Nat /\ Len(feed[o]) > 0
          /\ Len(Tail(feed[o])) = Len(feed[o]) - 1
          /\ \A i \in 1 .. Len(feed[o]) - 1 : Tail(feed[o])[i] = feed[o][i + 1]
      BY <1>1, HeadTailProperties, LenProperties, EmptySeq
    <3>2. \A i \in 1 .. Len(feed[o]) : feed[o][i] \in past[o]
      BY <1>3 DEF Stocked
    <3>3. Cached(o)' = Head(feed[o])
      BY <1>2, <3>1, CopyKeeps DEF TypeOK, Cached, Has
    <3>4. \A i \in 1 .. Len(Tail(feed[o])) : Tail(feed[o])[i] \in past[o]
      BY <3>1, <3>2
    <3> QED BY <1>2, <2>2, <3>1, <3>2, <3>3, <3>4
  <2> QED BY <2>1, <2>2
<1> QED BY <1>4, <1>5 DEF Stocked

\* What is received is added to what was declared.
LEMMA ChangeStocks ==
    ASSUME TypeOK, Untouched, Stocked, NEW o \in Object, Change(o)
    PROVE  Untouched' /\ Stocked'
<1>1. UNCHANGED <<held, informer, listed>>
  BY DEF Change
<1>2. CASE informer[ResourceOf(o)] # "on"
  <2>1. UNCHANGED <<feed, past>>
    BY <1>2 DEF Change
  <2> QED BY <1>1, <2>1 DEF Untouched, Stocked, Cached, Has
<1>3. CASE informer[ResourceOf(o)] = "on"
  <2>1. PICK spec \in Choices[o] : /\ feed' = [feed EXCEPT ![o] = Append(@, spec)]
                                   /\ past' = [past EXCEPT ![o] = @ \cup {spec}]
    BY <1>3 DEF Change
  <2>2. /\ DOMAIN feed = Object /\ DOMAIN past = Object
        /\ feed[o] \in Seq(SpecOf(o) \cup {Absent}) /\ spec \in SpecOf(o) \cup {Absent}
    BY ServerIsTyped DEF TypeOK, ObjectsOK
  <2>3. Untouched'
    BY <1>1, <1>3, <2>1, <2>2 DEF Untouched
  <2>4. ASSUME NEW p \in Object, informer'[ResourceOf(p)] # "off"
        PROVE  /\ \A i \in 1 .. Len(feed'[p]) : feed'[p][i] \in past'[p]
               /\ p \in listed'[ResourceOf(p)] \/ Cached(p)' \in past'[p]
    <3>1. Cached(p)' = Cached(p) /\ past[p] \subseteq past'[p]
      BY <1>1, <2>1, <2>2 DEF Cached, Has
    <3>2. \A i \in 1 .. Len(feed[p]) : feed[p][i] \in past[p]
      BY <1>1, <2>4 DEF Stocked
    <3>3. \A i \in 1 .. Len(feed'[p]) : feed'[p][i] \in past'[p]
      <4>1. CASE p # o
        BY <2>1, <2>2, <3>2, <4>1
      <4>2. CASE p = o
        <5>1. feed'[o] = Append(feed[o], spec) /\ spec \in past'[o]
          BY <2>1, <2>2
        <5>2. /\ Len(feed'[o]) = Len(feed[o]) + 1 /\ Len(feed[o]) \in Nat
              /\ feed'[o][Len(feed[o]) + 1] = spec
              /\ \A i \in 1 .. Len(feed[o]) : feed'[o][i] = feed[o][i]
          BY <2>2, <5>1, AppendProperties, LenProperties
        <5>3. \A i \in 1 .. Len(feed'[o]) : i = Len(feed[o]) + 1 \/ i \in 1 .. Len(feed[o])
          BY <5>2
        <5> QED BY <3>1, <3>2, <4>2, <5>1, <5>2, <5>3
      <4> QED BY <4>1, <4>2
    <3> QED BY <1>1, <2>4, <3>1, <3>3 DEF Stocked
  <2> QED BY <2>3, <2>4 DEF Stocked
<1> QED BY <1>2, <1>3

\* Every step keeps the stock.
LEMMA NextStocks == TypeOK /\ Untouched /\ Stocked /\ [Next]_vars => Untouched' /\ Stocked'
<1> SUFFICES ASSUME TypeOK, Untouched, Stocked, [Next]_vars PROVE Untouched' /\ Stocked'
  OBVIOUS
<1>1. CASE UNCHANGED <<held, feed, informer, listed, past>>
  BY <1>1 DEF Untouched, Stocked, Cached, Has
<1>2. ASSUME NEW k \in Resource, InformerStops(k) PROVE Untouched' /\ Stocked'
  <2>1. /\ informer' = [informer EXCEPT ![k] = "stopped"] /\ informer[k] = "on"
        /\ UNCHANGED <<held, feed, listed, past>>
        /\ informer \in [Resource -> {"off", "on", "stopped"}]
    BY <1>2 DEF InformerStops, TypeOK, RestOK
  <2>2. \A j \in Resource : informer'[j] = "off" <=> informer[j] = "off"
    BY <2>1
  <2> QED BY <2>1, <2>2, Resources DEF Untouched, Stocked, Cached, Has
<1>3. CASE Startup \/ Poll \/ Timeout \/ Stop \/ Arrival \/ Answering \/ UNCHANGED vars
  BY <1>1, <1>3 DEF Startup, Poll, Timeout, Stop, Arrival, Answering, vars, caches
<1> QED BY <1>2, <1>3, ListStocks, DeliverStocks, ChangeStocks DEF Next, Informers, Users

\* A server that calls itself ready holds of each object what was declared when
\* the informer of its resource listed it or since, for any objects, any number of
\* changes and any order in which the lists and the events arrive
\* (ReadyMeansListed): readiness is never early.
THEOREM ReadinessIsEarned == Spec => []ReadyMeansListed
<1>1. Init => Untouched /\ Stocked
  BY Resources DEF Init, Untouched, Stocked
<1>2. Spec => [](Untouched /\ Stocked)
  BY <1>1, NextStocks, TypeCorrect, PTL DEF Spec
<1>3. Stocked => ReadyMeansListed
  <2> SUFFICES ASSUME Stocked, HasSynced, NEW o \in Object PROVE Cached(o) \in past[o]
    BY DEF ReadyMeansListed
  <2>1. informer[ResourceOf(o)] # "off" /\ o \notin listed[ResourceOf(o)]
    BY Resources DEF HasSynced
  <2> QED BY <2>1 DEF Stocked
<1> QED BY <1>2, <1>3, PTL

\* A request on which the caches stood still began with caches as complete as
\* they are, and is denied only when they are complete.
Informed ==
    req.pc # "idle" /\ req.steady =>
      /\ req.informed = HasSynced
      /\ req.out.kind = "nxdomain" => HasSynced

\* A step of a request leaves what it began with, and denies the name only when
\* the caches are complete.
LEMMA ResolveInforms ==
    ASSUME req \in Request, Resolve(HasSynced)
    PROVE  \/ req'.pc = "idle"
           \/ /\ req'.steady = req.steady /\ req'.informed = req.informed /\ req.pc # "idle"
              /\ req'.out = req.out \/ (req'.out.kind = "nxdomain" => HasSynced)
<1> DEFINE kept == req'.steady = req.steady /\ req'.informed = req.informed
<1>1. ASSUME NEW pc, Goto(pc) PROVE kept /\ req'.out = req.out
  BY <1>1 DEF Goto, Request
<1>2. ASSUME NEW out, Answer(out) PROVE kept /\ req'.out = out
  BY <1>2 DEF Answer, Request
<1>3. ASSUME NEW cut, Walk(cut) PROVE kept /\ req'.out = req.out
  BY <1>3 DEF Walk, Request
<1>4. ASSUME NEW kind PROVE Because(kind).kind = kind /\ SOA(kind).kind = kind
  BY DEF Because, SOA
<1>5. \A data : Records(data).kind = "answer"
  BY DEF Records
<1>6. ASSUME NEW kind, Answer(Because(kind)) \/ Answer(SOA(kind)) PROVE kept /\ req'.out.kind = kind
  BY <1>2, <1>4, <1>6
<1>7. CASE ReadRoot
  BY <1>2, <1>3, <1>4, <1>7 DEF ReadRoot, Fails
<1>8. CASE WalkDown
  <2>1. CASE \E z \in Zone : IsCut(z)
    BY <1>3, <1>8, <2>1 DEF WalkDown
  <2>2. CASE ~\E z \in Zone : IsCut(z)
    BY <1>8, <2>2 DEF WalkDown, Request
  <2> QED BY <2>1, <2>2
<1>9. CASE EndWalk
  BY <1>1, <1>2, <1>4, <1>9 DEF EndWalk, Fails
<1>10. ASSUME NEW entries, Found(entries) PROVE kept /\ (req'.out = req.out \/ req'.out.kind # "nxdomain")
  BY <1>1, <1>2, <1>4, <1>5, <1>10 DEF Found, Fails
<1>11. CASE Lookup \/ LookupWildcard
  BY <1>1, <1>10, <1>11 DEF Lookup, LookupWildcard
<1>12. CASE LookupAddress
  BY <1>1, <1>2, <1>5, <1>12 DEF LookupAddress
<1>13. CASE Deny(HasSynced)
  BY <1>2, <1>4, <1>13 DEF Deny
<1>14. CASE Finish
  BY <1>14, NoRequestSound DEF Finish
<1> QED BY <1>7, <1>8, <1>9, <1>11, <1>12, <1>13, <1>14
       DEF Resolve, ReadRoot, WalkDown, EndWalk, Lookup, LookupWildcard, LookupAddress, Deny

\* Every step keeps it.
LEMMA NextInforms == TypeOK /\ Informed /\ [Next]_vars => Informed'
<1> SUFFICES ASSUME TypeOK, Informed, [Next]_vars PROVE Informed'
  OBVIOUS
<1>0. /\ req \in Request /\ HasSynced \in BOOLEAN
      /\ informer \in [Resource -> {"off", "on", "stopped"}]
  BY DEF TypeOK, RequestOK, RestOK, HasSynced
<1>1. CASE UNCHANGED <<req, informer, listed>>
  BY <1>1 DEF Informed, HasSynced
<1>2. CASE Unsteady
  BY <1>0, <1>2 DEF Unsteady, Informed, Request
<1>3. ASSUME NEW k \in Resource, InformerStops(k) PROVE Informed'
  <2>1. HasSynced' = HasSynced
    BY <1>0, <1>3 DEF InformerStops, HasSynced
  <2> QED BY <1>3, <2>1 DEF InformerStops, Informed
<1>4. CASE Arrival
  <2>1. HasSynced' = HasSynced
    BY <1>4 DEF Arrival, caches, HasSynced
  <2>2. ASSUME NEW query, NEW synced, Accept(query, synced)
        PROVE  req'.informed = synced /\ req'.out.kind # "nxdomain"
    <3> DEFINE new == [pc |-> "root", query |-> query, base |-> <<>>, path |-> <<>>, at |-> 0,
                       out |-> Because(""), steady |-> TRUE, informed |-> synced]
    <3>1. \/ req' = [new EXCEPT !.pc = "done", !.out = Because("next")]
          \/ \E b \in Bases : req' = [new EXCEPT !.base = b]
      BY <2>2 DEF Accept
    <3>2. Because("").kind # "nxdomain" /\ Because("next").kind # "nxdomain"
      BY DEF Because
    <3>3. new.informed = synced /\ new.out = Because("")
      OBVIOUS
    <3> QED BY <3>1, <3>2, <3>3
  <2>3. req'.informed = HasSynced /\ req'.out.kind # "nxdomain"
    BY <1>4, <2>2 DEF Arrival
  <2> QED BY <2>1, <2>3 DEF Informed
<1>5. CASE Answering
  <2>1. HasSynced' = HasSynced
    BY <1>5 DEF Answering, caches, HasSynced
  <2> QED BY <1>0, <1>5, <2>1, ResolveInforms DEF Answering, Informed
<1> QED BY <1>1, <1>2, <1>3, <1>4, <1>5
       DEF Next, Informers, Users, Deliver, Change, List, Startup, Poll, Timeout, Stop, vars, caches

\* A name is only denied when the caches were complete from the beginning of
\* the request, as long as they stand still (SteadyDenials).
THEOREM DenialsAreInformed == Spec => []SteadyDenials
<1>1. Init => Informed
  BY NoRequestSound DEF Init, Informed
<1>2. Spec => []Informed
  BY <1>1, NextInforms, TypeCorrect, PTL DEF Spec
<1>3. Informed => SteadyDenials
  BY DEF Informed, SteadyDenials, Answered
<1> QED BY <1>2, <1>3, PTL

-----------------------------------------------------------------------------
(* The end of a request. *)

\* What is left to do once the walk is over.
LEMMA LeftOver ==
    ASSUME NEW pc \in PC \ {"root", "walk"}, req'.pc = pc
    PROVE  /\ Remaining' \in 0 .. 4
           /\ pc \in {"wildcard", "address"} => Remaining' = 3
           /\ pc = "verdict" => Remaining' = 2
           /\ pc = "done" => Remaining' = 1
           /\ pc = "idle" => Remaining' = 0
BY DEF Remaining, PC

\* What is left to do in each phase.
LEMMA LeftNow ==
    ASSUME TypeOK
    PROVE  /\ req.pc = "root" => Remaining >= 6
           /\ req.pc = "walk" => Remaining = req.at + 5 /\ req.at \in Nat
           /\ req.pc = "lookup" => Remaining = 4
           /\ req.pc \in {"wildcard", "address"} => Remaining = 3
           /\ req.pc = "verdict" => Remaining = 2
           /\ req.pc = "done" => Remaining = 1
<1>1. req.query.name \in Seq(Label) /\ req.at \in Nat
  BY DEF TypeOK, RequestOK, Request, Query, Name
<1> QED BY <1>1, LenProperties DEF Remaining

\* The walk begins within the name.
LEMMA RootProgress ==
    ASSUME TypeOK, ReadRoot
    PROVE  Remaining' < Remaining
<1> DEFINE n == req.query.name
           zones == {z \in {d \o req.base : d \in held[RootZone].spec.domains} : IsUnder(n, z)}
<1>1. req \in Request /\ req.pc = "root" /\ n \in Seq(Label) /\ req.base \in Seq(Label)
  BY DEF TypeOK, RequestOK, ReadRoot, Request, Query, Name
<1>2. Remaining = Len(n) + 6 /\ Remaining >= 6
  BY <1>1, LeftNow DEF Remaining
<1>3. CASE \E out : Answer(out)
  <2>1. req'.pc = "done"
    BY <1>1, <1>3 DEF Answer, Request
  <2> QED BY <1>1, <1>2, <2>1, LeftOver DEF PC
<1>4. CASE ~\E out : Answer(out)
  <2>1. PICK z \in zones :
          Walk([zone |-> held[RootZone], low |-> Len(n) - Len(z) + 1, high |-> Len(n)])
    BY <1>4 DEF ReadRoot, Fails
  <2>2. Len(z) \in Nat /\ Len(n) \in Nat
    <3>1. Has(RootZone)
      BY <1>4 DEF ReadRoot, Fails
    <3>2. held[RootZone] \in CopiedZone
      BY <3>1, HeldZones, ResolverIsTyped DEF TypeOK
    <3>3. PICK d \in held[RootZone].spec.domains : z = d \o req.base
      OBVIOUS
    <3>4. d \in Seq(Label)
      BY <3>2 DEF CopiedZone, ZoneSpec, Name
    <3> QED BY <1>1, <3>3, <3>4, ConcatProperties, LenProperties
  <2>3. req'.pc = "walk" /\ req'.at = Len(n) - Len(z) + 1 - 1
    BY <1>1, <2>1 DEF Walk, Request
  <2>4. Remaining' = Len(n) - Len(z) + 5
    BY <2>2, <2>3 DEF Remaining
  <2> QED BY <1>2, <2>2, <2>4
<1> QED BY <1>3, <1>4

\* Whether or not a zone is found, the walk goes on with the label before.
LEMMA WalkProgress ==
    ASSUME TypeOK, WalkDown
    PROVE  Remaining' < Remaining
<1>1. req \in Request /\ req.pc = "walk" /\ req.at \in Nat /\ Remaining = req.at + 5
  BY LeftNow DEF TypeOK, RequestOK, WalkDown
<1>2. req'.pc = "walk" /\ req'.at = req.at - 1
  <2>1. CASE \E z \in Zone : IsCut(z)
    <3>1. PICK z \in Zone : Walk([zone |-> held[z], low |-> req.at, high |-> Here.low - 1])
      BY <2>1 DEF WalkDown
    <3> QED BY <1>1, <3>1 DEF Walk, Request
  <2>2. CASE ~\E z \in Zone : IsCut(z)
    BY <1>1, <2>2 DEF WalkDown, Request
  <2> QED BY <2>1, <2>2
<1>3. Remaining' = req.at - 1 + 5
  BY <1>2 DEF Remaining
<1> QED BY <1>1, <1>3

\* Every step of a request brings it nearer to its end.
LEMMA ResolveProgress ==
    ASSUME TypeOK, Resolve(HasSynced)
    PROVE  Remaining' < Remaining
<1>0. req \in Request
  BY DEF TypeOK, RequestOK
<1>1. ASSUME NEW pc, Goto(pc) PROVE req'.pc = pc
  BY <1>0, <1>1 DEF Goto, Request
<1>2. ASSUME NEW out, Answer(out) PROVE req'.pc = "done"
  BY <1>0, <1>2 DEF Answer, Request
<1>3. ASSUME NEW entries, Found(entries) PROVE req'.pc \in {"verdict", "done"}
  BY <1>1, <1>2, <1>3 DEF Found, Fails
<1>4. CASE EndWalk
  <2>1. req'.pc \in {"done", "address", "lookup", "verdict"}
    BY <1>1, <1>2, <1>4 DEF EndWalk, Fails
  <2>2. req.pc = "walk" /\ Remaining >= 5
    BY <1>4, LeftNow DEF EndWalk
  <2> QED BY <2>1, <2>2, LeftOver, LeftNow DEF PC
<1>5. CASE Lookup
  <2>1. req.pc = "lookup" /\ req'.pc \in {"wildcard", "verdict", "done"}
    BY <1>1, <1>3, <1>5 DEF Lookup
  <2> QED BY <2>1, LeftOver, LeftNow DEF PC
<1>6. CASE LookupWildcard
  <2>1. req.pc = "wildcard" /\ req'.pc \in {"verdict", "done"}
    BY <1>3, <1>6 DEF LookupWildcard
  <2> QED BY <2>1, LeftOver, LeftNow DEF PC
<1>7. CASE LookupAddress
  <2>1. req.pc = "address" /\ req'.pc \in {"verdict", "done"}
    BY <1>1, <1>2, <1>7 DEF LookupAddress
  <2> QED BY <2>1, LeftOver, LeftNow DEF PC
<1>8. CASE Deny(HasSynced)
  <2>1. req.pc = "verdict" /\ req'.pc = "done"
    BY <1>2, <1>8 DEF Deny
  <2> QED BY <2>1, LeftOver, LeftNow DEF PC
<1>9. CASE Finish
  <2>1. req.pc = "done" /\ req'.pc = "idle"
    BY <1>9, NoRequestSound DEF Finish
  <2> QED BY <2>1, LeftOver, LeftNow DEF PC
<1> QED BY <1>4, <1>5, <1>6, <1>7, <1>8, <1>9, RootProgress, WalkProgress DEF Resolve

\* Each step of a request brings it nearer to its answer, whatever the caches turn
\* into between two steps, for names of any length and any number of zones and
\* changes (RequestsProgress): no request is kept busy by changes, and each takes
\* at most six steps more than its name has labels.
THEOREM RequestsEnd == Spec => RequestsProgress
<1>1. ASSUME TypeOK, [Next]_vars, req.pc # "idle", req' # req
      PROVE  Remaining' < Remaining \/ Unsteady
  <2>1. CASE Answering
    BY <1>1, <2>1, ResolveProgress DEF Answering
  <2>2. CASE Arrival
    BY <1>1, <2>2 DEF Arrival, Accept
  <2>3. ASSUME NEW o \in Object, Deliver(o) PROVE Unsteady
    BY <2>3 DEF Deliver
  <2>4. ASSUME NEW k \in Resource, List(k) PROVE Unsteady
    BY <2>4 DEF List
  <2> QED BY <1>1, <2>1, <2>2, <2>3, <2>4
          DEF Next, Informers, Users, Change, InformerStops, Startup, Poll, Timeout, Stop, vars
<1> QED BY <1>1, TypeCorrect, PTL DEF Spec, RequestsProgress
=============================================================================
