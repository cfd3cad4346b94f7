----------------------------- MODULE SettleProofs -----------------------------
(***************************************************************************)
(* What the informers of a server are told, and what that means for its    *)
(* root zone and its entries, for any number of servers and objects:       *)
(* nothing but the events on their way lies between an object and its      *)
(* copy; a root zone that nobody is told about has the state or the        *)
(* condition it deserves, a wrong entry is reported as invalid, and one    *)
(* that left is released.                                                  *)
(***************************************************************************)
EXTENDS StoreProofs

-----------------------------------------------------------------------------
(* The invariants. *)

Gone == {Absent, Missed}

\* The copy a worker may assign fields of is the one in the cache.
AliasIsCached ==
    \A s \in Server :
      worker[s].alias =>
        /\ worker[s].key \in Object
        /\ cache[s][worker[s].key] # Absent
        /\ worker[s].obj = cache[s][worker[s].key]

\* A process that does not run has nothing in its memory.
DownIsEmpty == \A s \in Server, o \in Object : ~up[s] => cache[s][o] = Absent

\* What stays of the status of an entry while its specification does: a mistake
\* is not taken back, and only the zone itself claims an entry in a root zone.
Keeps(spec, old, new) ==
    /\ EntryError(spec) # <<>> /\ old.state = "Invalid" /\ ~new.managed =>
         new.state = "Invalid"
    /\ spec.zone \in Zone /\ AlwaysTop(spec.zone) =>
         new.root \in {old.root, None, spec.zone}

\* What stays of the status of a zone while its declaration does: a condition that
\* says what it has to say.  The state an aaS controller starts with is the one it
\* derives from the condition.
Confirms(o, a, b) ==
    /\ AlwaysTop(o) /\ a.spec.mail = b.spec.mail /\ SaysSo(a.spec, a.status) =>
         SaysSo(b.spec, b.status)
    /\ ~a.status.managed /\ b.status.managed =>
         b.status.state = (IF Affirms(b.status.server) THEN "Ready" ELSE "Invalid")

\* What stays of an object from a version to the next one.
Follows(o, a, b) ==
    /\ a.status.managed => b.status.managed
    /\ o \in Zone => Confirms(o, a, b)
    /\ o \in Entry /\ a.spec = b.spec => Keeps(a.spec, a.status, b.status)

\* What an informer holds and has received are successive versions of an object,
\* as long as its watch never broke, unless it is told between them that the
\* object is gone.
Succeeds(o, a, b) ==
    a \notin Gone /\ b \notin Gone => a.rv < b.rv /\ Follows(o, a, b)
InOrder(s, o) ==
    /\ pending[s][o] # <<>> => Succeeds(o, cache[s][o], Head(pending[s][o]))
    /\ \A i \in 1 .. Len(pending[s][o]) - 1 :
         Succeeds(o, pending[s][o][i], pending[s][o][i + 1])
EventsInOrder ==
    spent["relists"] = 0 => \A s \in Server, o \in Object : up[s] => InOrder(s, o)

\* Whatever is known of an object was declared of it.
Known(s, o) ==
    /\ api[o] # Absent => api[o].spec \in Declarable(o)
    /\ cache[s][o] # Absent => cache[s][o].spec \in Declarable(o)
    /\ \A i \in 1 .. Len(pending[s][o]) :
         pending[s][o][i] \notin Gone => pending[s][o][i].spec \in Declarable(o)
Declared == \A s \in Server, o \in Object : Known(s, o)

\* A worker that reconciles an entry reports to the users unless an aaS controller
\* does, leaves a root zone for none, and is about to store what may follow.
PlainCopy(s, c) == c.plain = (s \notin Slave /\ ~c.status.managed)
EntryWork(s, w) ==
    w.key \in Entry =>
      /\ w.obj # Absent => PlainCopy(s, w.obj)
      /\ w.pc = "walk" =>
           /\ w.obj.spec.zone \in Zone /\ w.at.spec \in Declarable(w.at.name)
           /\ w.obj.spec.zone = RootOf[s] \/ AlwaysTop(w.obj.spec.zone) =>
                w.at.name = w.obj.spec.zone
      /\ w.pc = "write" => Keeps(w.obj.spec, w.obj.status, w.status)
EntriesAtWork ==
    \A s \in Server :
      /\ \A e \in Entry : cache[s][e] # Absent => PlainCopy(s, cache[s][e])
      /\ EntryWork(s, worker[s])

\* The copy of its root zone is the one a server made of it.
Pristine(s, c) ==
    /\ c.plain = (s \notin Slave /\ ~c.status.managed)
    /\ c.err = ZoneError(c.spec, s \in Transitive)
RootsArePristine ==
    \A s \in Server :
      LET z == RootOf[s]
          w == worker[s]
      IN  /\ cache[s][z] # Absent => Pristine(s, cache[s][z])
          /\ w.key = z /\ w.pc = "walk" =>
               w.at.name = z /\ w.at.plain = w.obj.plain /\ Pristine(s, w.obj)

\* A worker that reconciles a zone that never has a parent is at its end at once,
\* and is about to store a condition that is no worse.
ZoneWork(w) ==
    w.key \in Zone /\ AlwaysTop(w.key) =>
      /\ w.pc = "walk" =>
           w.at.name = w.key /\ w.at.spec.parent = None /\ w.obj.spec.parent = None
      /\ w.pc = "write" /\ SaysSo(w.obj.spec, w.obj.status) => SaysSo(w.obj.spec, w.status)
ZonesAtWork == \A s \in Server : ZoneWork(worker[s])

\* A status that shows the mistakes of an entry, and no claim it has left.
EntryIsRight(s, spec, status) ==
    /\ EntryError(spec) # <<>> /\ LeadsHome(s, spec.zone) => status.state = "Invalid"
    /\ LeadsAway(s, spec.zone) => status.root # RootOf[s]

\* A root zone with the state it deserves, or the condition where an aaS controller
\* derives the state; an entry with a status that shows what a server must see to,
\* or in the care of an aaS controller.
ZoneIsRight(s, z, spec, status) ==
    IF s \in Slave \/ status.managed
    THEN AlwaysTop(z) => SaysSo(spec, status)
    ELSE status.state = (IF spec.mail THEN "Ok" ELSE "Invalid")
Right(s, o, v) ==
    IF o \in Zone
    THEN ZoneIsRight(s, o, v.spec, v.status)
    ELSE v.status.managed \/ EntryIsRight(s, v.spec, v.status)

\* The objects this is about.
Minds(s, o) ==
    \/ o = RootOf[s] /\ (s \in Transitive \/ AlwaysTop(o))
    \/ s \notin Slave /\ o \in Entry /\ Showing(o)

\* The informer holds a copy without need of a reconciliation, or will be told
\* of such a version, or that there is none.
HearsRight(s, o) ==
    \/ cache[s][o] = Absent
    \/ Right(s, o, cache[s][o])
    \/ \E i \in 1 .. Len(pending[s][o]) :
         pending[s][o][i] \in Gone \/ Right(s, o, pending[s][o][i])

\* Otherwise the key is queued, or the worker finds out, or has found out, what
\* is wrong.
FindsOut == {"lookup", "walk"}
Attends(s, o) ==
    LET w == worker[s]
    IN  \/ o \in queue[s] \cup delayed[s]
        \/ HearsRight(s, o)
        \/ /\ w.pc \in FindsOut /\ w.key = o
           /\ Right(s, o, w.obj) => Right(s, o, cache[s][o])
        \/ w.pc = "write" /\ w.key = o /\ Right(s, o, [w.obj EXCEPT !.status = w.status])
AllAttended ==
    spent["relists"] = 0 =>
      \A s \in Server, o \in Object : up[s] /\ Minds(s, o) => Attends(s, o)
-----------------------------------------------------------------------------
(* What a step does to the events and the copy of an object at one server. *)

SameCopy(a, b) ==
    \/ a = b
    \/ /\ a # Absent /\ b # Absent
       /\ b.rv = a.rv /\ b.spec = a.spec /\ b.status = a.status

\* Nothing that matters.
Rests(s, o) ==
    /\ up'[s] = up[s] /\ api'[o] = api[o]
    /\ pending'[s][o] = pending[s][o]
    /\ SameCopy(cache[s][o], cache'[s][o])

\* The object changes, and a process that runs is told.
NextVersion(o, v) ==
    /\ v \in Stored(o) /\ v.rv = NewVersion(o)
    /\ v.spec \in Specs[o] \/ (api[o] # Absent /\ v.spec = api[o].spec)
    /\ api[o] # Absent => Follows(o, api[o], v)
Hears(s, o) ==
    /\ up'[s] = up[s] /\ cache'[s][o] = cache[s][o]
    /\ api'[o] = Absent \/ NextVersion(o, api'[o])
    /\ pending'[s][o] = IF up[s] THEN Append(pending[s][o], api'[o]) ELSE pending[s][o]

\* The process starts, breaks its watch, or ends.
Lists(s, o) ==
    /\ ~up[s] /\ up'[s] /\ api'[o] = api[o]
    /\ cache'[s][o] = cache[s][o]
    /\ pending'[s][o] = Listed[o]
Relists(s, o) ==
    /\ spent'["relists"] # 0
    /\ up'[s] = up[s] /\ api'[o] = api[o]
    /\ cache'[s][o] = cache[s][o]
    /\ pending'[s][o] = IF api[o] = Absent /\ cache[s][o] # Absent
                        THEN <<Missed>> ELSE Listed[o]
Ends(s, o) ==
    /\ ~up'[s] /\ api'[o] = api[o]
    /\ cache'[s][o] = Absent /\ pending'[s][o] = <<>>

\* The informer replaces the copy by what it was told next.
Renews(s, o) ==
    /\ Incoming(s, o) /\ up'[s] /\ api'[o] = api[o]
    /\ pending'[s][o] = Tail(pending[s][o])
    /\ Event(s, o) # Missed
    /\ cache'[s][o] = IF Event(s, o) = Absent THEN Absent ELSE Copy(s, Event(s, o))

OneOf(s, o) == Rests(s, o) \/ Hears(s, o) \/ Lists(s, o) \/ Relists(s, o)
               \/ Ends(s, o) \/ Renews(s, o)

\* A step that leaves all of them alone.
LEMMA RestsWhenUnchanged ==
    ASSUME UNCHANGED <<api, up, pending, cache>>, NEW s \in Server, NEW o \in Object
    PROVE  Rests(s, o)
BY DEF Rests, SameCopy

\* An accepted change of one object is heard of, the others rest.
LEMMA PublishHears ==
    ASSUME TypeOK, NEW k \in Object, NEW v, NextVersion(k, v), Publish(v),
           UNCHANGED <<up, cache>>, NEW s \in Server, NEW o \in Object
    PROVE  Rests(s, o) \/ Hears(s, o)
<1>1. v.name = k
  BY DEF NextVersion, Stored
<1>2. api' = [api EXCEPT ![k] = v]
  BY <1>1 DEF Publish
<1>3. pending'[s] = IF up[s] THEN [pending[s] EXCEPT ![k] = Append(@, v)] ELSE pending[s]
  BY <1>1 DEF Publish, Announce
<1>4. pending[s] \in [Object -> Seq(AnyStored \cup {Absent, Missed})]
  BY DEF TypeOK, PendingOK
<1>5. CASE o = k
  <2>1. api'[o] = v
    BY <1>2, <1>5 DEF TypeOK, ApiOK
  <2>2. pending'[s][o] = IF up[s] THEN Append(pending[s][o], v) ELSE pending[s][o]
    BY <1>3, <1>4, <1>5
  <2> QED BY <1>5, <2>1, <2>2 DEF Hears
<1>6. CASE o # k
  <2>1. api'[o] = api[o]
    BY <1>2, <1>6 DEF TypeOK, ApiOK
  <2>2. pending'[s][o] = pending[s][o]
    BY <1>3, <1>4, <1>6
  <2> QED BY <2>1, <2>2 DEF Rests, SameCopy
<1> QED BY <1>5, <1>6

\* A process that ends; the others rest.
LEMMA DieEnds ==
    ASSUME TypeOK, NEW t \in Server, Die(t), UNCHANGED store,
           NEW s \in Server, NEW o \in Object
    PROVE  Rests(s, o) \/ Ends(s, o)
<1>1. CASE s = t
  <2>1. up'[s] = FALSE /\ cache'[s] = NoCopies /\ pending'[s] = NoEvents
    BY <1>1 DEF Die, TypeOK, RestOK, CacheOK, PendingOK
  <2> QED BY <2>1 DEF Ends, NoCopies, NoEvents, store
<1>2. CASE s # t
  <2>1. up'[s] = up[s] /\ cache'[s] = cache[s] /\ pending'[s] = pending[s]
    BY <1>2 DEF Die, TypeOK, RestOK, CacheOK, PendingOK
  <2> QED BY <2>1 DEF Rests, SameCopy, store
<1> QED BY <1>1, <1>2

\* Users, the aaS controller, the clock and the processes.
LEMMA OneOfEnvironment ==
    ASSUME TypeOK, Environment, NEW s \in Server, NEW o \in Object
    PROVE  OneOf(s, o)
<1>1. ASSUME NEW k \in Object, NEW spec \in Specs[k], Create(k, spec) PROVE OneOf(s, o)
  <2> DEFINE v == [name |-> k, rv |-> NewVersion(k), spec |-> spec,
                   status |-> IF k \in Zone THEN NewZoneStatus ELSE NewEntryStatus]
  <2>1. NewZoneStatus \in ZoneStatus /\ NewEntryStatus \in EntryStatus
    BY MessagesTyped DEF NewZoneStatus, NewEntryStatus, ZoneStatus, EntryStatus,
                         State, Ref
  <2>2. v \in Stored(k)
    BY <2>1, EnvironmentIsTyped DEF Stored, StatusOf, NewVersion, TypeOK, ApiOK
  <2>3. Publish(v) /\ v.rv = NewVersion(k) /\ v.spec = spec /\ api[k] = Absent
        /\ UNCHANGED <<up, cache>>
    BY <1>1 DEF Create, memory
  <2> HIDE DEF v
  <2>4. NextVersion(k, v)
    BY <2>2, <2>3 DEF NextVersion
  <2> QED BY <2>3, <2>4, PublishHears DEF OneOf
<1>2. ASSUME NEW k \in Object, NEW spec \in Specs[k], Update(k, spec) PROVE OneOf(s, o)
  <2> DEFINE v == [api[k] EXCEPT !.rv = NewVersion(k), !.spec = spec]
  <2>1. api[k] \in Stored(k) /\ NewVersion(k) \in Nat /\ spec \in SpecOf(k)
    BY <1>2, EnvironmentIsTyped DEF Update, NewVersion, TypeOK, ApiOK
  <2>2. v \in Stored(k) /\ v.rv = NewVersion(k) /\ v.status = api[k].status
        /\ v.spec = spec
    BY <2>1 DEF Stored
  <2>3. Publish(v) /\ UNCHANGED <<up, cache>> /\ api[k].spec # spec
    BY <1>2 DEF Update, memory
  <2> HIDE DEF v
  <2>4. NextVersion(k, v)
    BY <2>2, <2>3 DEF NextVersion, Follows, Confirms, SaysSo
  <2> QED BY <2>3, <2>4, PublishHears DEF OneOf
<1>3. ASSUME NEW k \in Object, Delete(k) PROVE OneOf(s, o)
  <2>1. api' = [api EXCEPT ![k] = Absent] /\ UNCHANGED <<up, cache>>
    BY <1>3 DEF Delete, memory
  <2>2. pending'[s] = IF up[s] THEN [pending[s] EXCEPT ![k] = Append(@, Absent)] ELSE pending[s]
    BY <1>3 DEF Delete, Announce
  <2>3. pending[s] \in [Object -> Seq(AnyStored \cup {Absent, Missed})]
    BY DEF TypeOK, PendingOK
  <2>4. CASE o = k
    <3>1. api'[o] = Absent
      BY <2>1, <2>4 DEF TypeOK, ApiOK
    <3>2. pending'[s][o] = IF up[s] THEN Append(pending[s][o], Absent) ELSE pending[s][o]
      BY <2>2, <2>3, <2>4
    <3> QED BY <2>1, <3>1, <3>2 DEF Hears, OneOf
  <2>5. CASE o # k
    <3>1. api'[o] = api[o]
      BY <2>1, <2>5 DEF TypeOK, ApiOK
    <3>2. pending'[s][o] = pending[s][o]
      BY <2>2, <2>3, <2>5
    <3> QED BY <2>1, <3>1, <3>2 DEF Rests, SameCopy, OneOf
  <2> QED BY <2>4, <2>5
<1>4. ASSUME NEW k \in Supervised, Supervise(k) PROVE OneOf(s, o)
  <2> DEFINE v == [api[k] EXCEPT !.rv = NewVersion(k), !.status = Supervision(@)]
             st == Supervision(api[k].status)
  <2>1. k \in Object /\ api[k] \in Stored(k) /\ NewVersion(k) \in Nat
    BY <1>4, EnvironmentIsTyped DEF Supervise, NewVersion, TypeOK, ApiOK
  <2>2. /\ st \in StatusOf(k) /\ st.managed
        /\ k \in Entry => st.root = api[k].status.root
        /\ k \in Zone => /\ st.server = api[k].status.server
                         /\ st.state = IF Affirms(st.server) THEN "Ready" ELSE "Invalid"
    <3>1. CASE k \in Zone
      BY <2>1, <3>1, NamesAreDistinct DEF Supervision, Stored, StatusOf, ZoneStatus, State,
                                          Affirms
    <3>2. CASE k \notin Zone
      BY <2>1, <3>2 DEF Supervision, Stored, StatusOf, EntryStatus, State
    <3> QED BY <3>1, <3>2
  <2>3. v \in Stored(k) /\ v.rv = NewVersion(k) /\ v.status = st /\ v.spec = api[k].spec
    BY <2>1, <2>2 DEF Stored
  <2>4. Publish(v) /\ UNCHANGED <<up, cache>> /\ api[k] # Absent
    BY <1>4 DEF Supervise, memory
  <2> HIDE DEF v, st
  <2>5. NextVersion(k, v)
    BY <2>2, <2>3, <2>4 DEF NextVersion, Follows, Keeps, Confirms, SaysSo
  <2> QED BY <2>1, <2>4, <2>5, PublishHears DEF OneOf
<1>5. CASE Tick
  BY <1>5, RestsWhenUnchanged DEF Tick, OneOf, store, memory
<1>6. ASSUME NEW t \in Server, Kill(t) PROVE OneOf(s, o)
  BY <1>6, DieEnds DEF Kill, OneOf
<1>7. ASSUME NEW t \in Server, Start(t) PROVE OneOf(s, o)
  <2>1. UNCHANGED <<api, cache>>
    BY <1>7 DEF Start, store, memory
  <2>2. CASE s = t
    <3>1. ~up[s] /\ up'[s] /\ pending'[s] = Listed
      BY <1>7, <2>2 DEF Start, TypeOK, RestOK, PendingOK
    <3> QED BY <2>1, <3>1 DEF Lists, OneOf
  <2>3. CASE s # t
    <3>1. up'[s] = up[s] /\ pending'[s] = pending[s]
      BY <1>7, <2>3 DEF Start, TypeOK, RestOK, PendingOK
    <3> QED BY <2>1, <3>1 DEF Rests, SameCopy, OneOf
  <2> QED BY <2>2, <2>3
<1>8. ASSUME NEW t \in Server, Relist(t) PROVE OneOf(s, o)
  <2>1. UNCHANGED <<api, cache, up>>
    BY <1>8 DEF Relist, store, memory
  <2>2. spent'["relists"] # 0
    BY <1>8 DEF Relist, Spend, TypeOK, RestOK, Budget
  <2> DEFINE q == [p \in Object |-> IF api[p] = Absent /\ cache[t][p] # Absent
                                     THEN <<Missed>> ELSE Listed[p]]
  <2>3. pending' = [pending EXCEPT ![t] = q]
    BY <1>8 DEF Relist
  <2>4. CASE s = t
    <3>1. pending'[s] = q
      BY <2>3, <2>4 DEF TypeOK, PendingOK
    <3> QED BY <2>1, <2>2, <2>4, <3>1 DEF Relists, OneOf
  <2>5. CASE s # t
    <3>1. pending'[s] = pending[s]
      BY <2>3, <2>5 DEF TypeOK, PendingOK
    <3> QED BY <2>1, <3>1 DEF Rests, SameCopy, OneOf
  <2> QED BY <2>4, <2>5
<1> QED BY <1>1, <1>2, <1>3, <1>4, <1>5, <1>6, <1>7, <1>8 DEF Environment, Users

\* The informers: the copy is renewed, or the process ends.
LEMMA OneOfDeliver ==
    ASSUME TypeOK, NEW t \in Server, Deliver(t), NEW s \in Server, NEW o \in Object
    PROVE  OneOf(s, o)
<1>1. ASSUME NEW k \in Object, NEW c, Incoming(t, k), Event(t, k) # Missed,
             Replace(t, k, c), Consume(t, k), UNCHANGED <<store, up>>,
             c = IF Event(t, k) = Absent THEN Absent ELSE Copy(t, Event(t, k))
      PROVE  OneOf(s, o)
  <2>1. /\ cache' = [cache EXCEPT ![t][k] = c]
        /\ pending' = [pending EXCEPT ![t][k] = Tail(@)]
        /\ UNCHANGED <<api, up>> /\ up[t]
    BY <1>1 DEF Replace, Consume, store, Incoming
  <2>2. CASE s = t /\ o = k
    <3>1. cache'[s][o] = c /\ pending'[s][o] = Tail(pending[s][o])
      BY <2>1, <2>2 DEF TypeOK, CacheOK, PendingOK
    <3> QED BY <1>1, <2>1, <2>2, <3>1 DEF Renews, OneOf
  <2>3. CASE ~(s = t /\ o = k)
    <3>1. cache'[s][o] = cache[s][o] /\ pending'[s][o] = pending[s][o]
      BY <2>1, <2>3 DEF TypeOK, CacheOK, PendingOK
    <3> QED BY <2>1, <3>1 DEF Rests, SameCopy, OneOf
  <2> QED BY <2>2, <2>3
<1>2. ASSUME NEW k \in Object, DeliverAdd(t, k) PROVE OneOf(s, o)
  BY <1>1, <1>2 DEF DeliverAdd
<1>3. ASSUME NEW k \in Object, DeliverUpdate(t, k) PROVE OneOf(s, o)
  <2>1. Replace(t, k, Copy(t, Event(t, k)))
    BY <1>3 DEF DeliverUpdate
  <2> QED BY <1>1, <1>3, <2>1 DEF DeliverUpdate
<1>4. ASSUME NEW k \in Object, DeliverDelete(t, k) PROVE OneOf(s, o)
  BY <1>1, <1>4, NamesAreDistinct DEF DeliverDelete
<1>5. ASSUME NEW k \in Object, UpdatePanics(t, k) \/ DeletePanics(t, k) PROVE OneOf(s, o)
  BY <1>5, DieEnds DEF UpdatePanics, DeletePanics, OneOf
<1> QED BY <1>2, <1>3, <1>4, <1>5 DEF Deliver

\* Error and Plain are no part of a version.
LEMMA AmendRests ==
    ASSUME TypeOK, AliasIsCached, NEW t \in Server, NEW k \in Zone, NEW z,
           worker[t].key = k, z \in Copied(k),
           SameCopy(worker[t].obj, z), Amend(t, z),
           UNCHANGED <<store, up, pending>>, NEW s \in Server, NEW o \in Object
    PROVE  Rests(s, o)
<1>1. UNCHANGED <<api, up, pending>> /\ z.name = k /\ z # Absent /\ k \in Object
  BY NamesAreDistinct DEF store, Copied, Object
<1>2. CASE worker[t].alias /\ s = t /\ o = k
  <2>1. cache'[s][o] = z
    BY <1>1, <1>2 DEF Amend, TypeOK, CacheOK
  <2>2. cache[s][o] = worker[t].obj
    BY <1>2 DEF AliasIsCached
  <2> QED BY <1>1, <2>1, <2>2 DEF Rests
<1>3. CASE ~(worker[t].alias /\ s = t /\ o = k)
  <2>1. cache'[s][o] = cache[s][o]
    BY <1>1, <1>3 DEF Amend, TypeOK, CacheOK
  <2> QED BY <1>1, <2>1 DEF Rests, SameCopy
<1> QED BY <1>2, <1>3

\* What the worker of a server works on when it reconciles a zone.
LEMMA ZoneAtWork ==
    ASSUME TypeOK, NEW s \in Server, ReconcilesZone(s)
    PROVE  LET w == worker[s] IN
           /\ w.key \in Zone /\ w.key \in Object
           /\ w.obj \in Copied(w.key) /\ w.obj # Absent /\ w.obj.name = w.key
           /\ w.at \in CopiedZone
<1>1. worker[s].key \in Zone /\ worker[s].obj \in Copied(worker[s].key)
      /\ worker[s].at \in CopiedZone
  BY WalkTyped DEF ReconcilesZone
<1> QED BY <1>1, NamesAreDistinct DEF Copied, Object

\* The copy a server has judged as served, and as an orphan.
ServedCopy(s) == [worker[s].obj EXCEPT !.plain = worker[s].at.plain]
OrphanCopy(s) == [worker[s].obj EXCEPT !.err = IF @ = <<>> THEN NoRootZone ELSE @]

\* They are copies of the version the worker took.
LEMMA JudgedCopies ==
    ASSUME TypeOK, NEW s \in Server, ReconcilesZone(s)
    PROVE  /\ ServedCopy(s) \in Copied(worker[s].key)
           /\ SameCopy(worker[s].obj, ServedCopy(s))
           /\ ServedCopy(s).plain = worker[s].at.plain
           /\ ServedCopy(s).err = worker[s].obj.err
           /\ OrphanCopy(s) \in Copied(worker[s].key)
           /\ SameCopy(worker[s].obj, OrphanCopy(s))
<1> DEFINE c == worker[s].obj
           a == ServedCopy(s)
           b == OrphanCopy(s)
<1>1. c \in Copied(worker[s].key) /\ c # Absent /\ worker[s].at \in CopiedZone
      /\ worker[s].key \in Object
  BY ZoneAtWork
<1>2. worker[s].at.plain \in BOOLEAN
  BY <1>1 DEF CopiedZone
<1>3. /\ a \in Copied(worker[s].key)
      /\ a.rv = c.rv /\ a.spec = c.spec /\ a.status = c.status
      /\ a.plain = worker[s].at.plain /\ a.err = c.err
  BY <1>1, <1>2 DEF Copied, ServedCopy
<1>4. /\ b \in Copied(worker[s].key)
      /\ b.rv = c.rv /\ b.spec = c.spec /\ b.status = c.status
  BY <1>1, MessagesTyped DEF Copied, OrphanCopy
<1>5. a # Absent /\ b # Absent
  BY <1>1, <1>3, <1>4, NamesAreDistinct
<1> QED BY <1>1, <1>3, <1>4, <1>5 DEF SameCopy

\* A reconciliation changes nothing that matters.
LEMMA ReconcileRests ==
    ASSUME TypeOK, AliasIsCached, NEW t \in Server, Reconcile(t),
           NEW s \in Server, NEW o \in Object
    PROVE  Rests(s, o)
<1>1. CASE ZoneServed(t)
  <2>1. ReconcilesZone(t) /\ Amend(t, ServedCopy(t)) /\ UNCHANGED <<store, up, pending>>
    BY <1>1 DEF ZoneServed, UpdateZone, ServedCopy
  <2> QED BY <2>1, ZoneAtWork, JudgedCopies, AmendRests
<1>2. CASE ZoneOrphaned(t)
  <2>1. ReconcilesZone(t) /\ Amend(t, OrphanCopy(t)) /\ UNCHANGED <<store, up, pending>>
    BY <1>2 DEF ZoneOrphaned, UpdateZone, OrphanCopy
  <2> QED BY <2>1, ZoneAtWork, JudgedCopies, AmendRests
<1>3. CASE ~ZoneServed(t) /\ ~ZoneOrphaned(t)
  <2>1. UNCHANGED <<store, up, pending, cache>>
    BY <1>3 DEF Reconcile, WalkUp, ZoneIgnored, LookupZone, ZoneMissing, EntryServed,
                EntryOrphaned, EntryForeign, TriggerEntries, TriggerNested
  <2> QED BY <2>1, RestsWhenUnchanged DEF store
<1> QED BY <1>1, <1>2, <1>3

\* The worker: nothing matters until a status is stored.
LEMMA OneOfWork ==
    ASSUME TypeOK, CopiesAreVersions, StatusesInFlight, AliasIsCached, EntriesAtWork,
           ZonesAtWork,
           NEW t \in Server, Work(t) \/ Expire(t),
           NEW s \in Server, NEW o \in Object
    PROVE  OneOf(s, o)
<1>1. ASSUME UNCHANGED <<store, up, pending, cache>> PROVE OneOf(s, o)
  BY <1>1, RestsWhenUnchanged DEF OneOf, store
<1>2. CASE Take(t)
  BY <1>1, <1>2 DEF Take, TakeZone, TakeDeletedZone, TakeEntry, DropEntry
<1>3. CASE Expire(t)
  BY <1>1, <1>3 DEF Expire, Requeue
<1>4. CASE Reconcile(t)
  BY <1>4, ReconcileRests DEF OneOf
<1>5. ASSUME Busy(t, "write"), Fresh(t), Apply(t), UNCHANGED <<up, cache>>
      PROVE  OneOf(s, o)
  <2> DEFINE k == worker[t].key
             c == worker[t].obj
             st == worker[t].status
             v == [api[k] EXCEPT !.rv = NewVersion(k), !.status = st]
  <2>1. /\ k \in Object /\ c \in Copied(k) /\ st \in StatusOf(k)
        /\ c # Absent /\ api[k] # Absent /\ api[k].rv = c.rv
    BY <1>5, NamesAreDistinct DEF Busy, Fresh, TypeOK, WorkersOK, WorkerOK
  <2>2. c.status = api[k].status /\ c.spec = api[k].spec
    BY <2>1 DEF CopiesAreVersions, StoreCurrent, WorkersAgree, Agrees
  <2>3. st.managed = c.status.managed
    BY <1>5, <2>1 DEF StatusesInFlight, WorkerMark, Preserved, Store!Spares, Busy
  <2>4. v = [name |-> k, rv |-> NewVersion(k), spec |-> api[k].spec, status |-> st]
    BY <2>1, StatusReplaced
  <2>5. api[k] \in Stored(k) /\ NewVersion(k) \in Nat
    BY <2>1 DEF NewVersion, TypeOK, ApiOK
  <2>6. Publish(v)
    BY <1>5 DEF Apply
  <2> HIDE DEF v
  <2>7. v \in Stored(k) /\ v.rv = NewVersion(k) /\ v.status = st /\ v.spec = api[k].spec
    BY <2>1, <2>4, <2>5 DEF Stored
  <2>8. k \in Entry => Keeps(c.spec, c.status, st)
    BY <1>5 DEF EntriesAtWork, EntryWork, Busy
  <2>9. k \in Zone => Confirms(k, api[k], v)
    BY <1>5, <2>1, <2>2, <2>3, <2>7 DEF ZonesAtWork, ZoneWork, Busy, Confirms
  <2>10. NextVersion(k, v)
    BY <2>1, <2>2, <2>3, <2>7, <2>8, <2>9 DEF NextVersion, Follows
  <2> QED BY <1>5, <2>1, <2>6, <2>10, PublishHears DEF OneOf
<1>6. CASE Answer(t) \/ Fault(t)
  BY <1>1, <1>5, <1>6 DEF Answer, Fault, WriteAccepted, WriteRejected, WriteFails,
                          WriteUnanswered
<1> QED BY <1>2, <1>3, <1>4, <1>6 DEF Work

\* Every step, at every server, for every object.
LEMMA EveryStepIsOneOf ==
    ASSUME TypeOK, CopiesAreVersions, StatusesInFlight, AliasIsCached, EntriesAtWork,
           ZonesAtWork,
           [Next]_vars, NEW s \in Server, NEW o \in Object
    PROVE  OneOf(s, o)
<1>1. CASE UNCHANGED vars
  BY <1>1, RestsWhenUnchanged DEF vars, OneOf
<1> QED BY <1>1, OneOfEnvironment, OneOfDeliver, OneOfWork DEF Next

-----------------------------------------------------------------------------
(* The copies of workers. *)

AliasOK(w, copies) ==
    w.alias => /\ w.key \in Object /\ copies[w.key] # Absent
               /\ w.obj = copies[w.key]

\* The worker and the cache of one server change.
LEMMA AliasReplaced ==
    ASSUME TypeOK, AliasIsCached, NEW s \in Server, NEW w,
           worker' = [worker EXCEPT ![s] = w], AliasOK(w, cache'[s]),
           \A t \in Server \ {s} : cache'[t] = cache[t]
    PROVE  AliasIsCached'
<1> SUFFICES ASSUME NEW t \in Server, worker'[t].alias
             PROVE  /\ worker'[t].key \in Object
                    /\ cache'[t][worker'[t].key] # Absent
                    /\ worker'[t].obj = cache'[t][worker'[t].key]
  BY DEF AliasIsCached
<1>1. CASE t = s
  BY <1>1 DEF AliasOK, TypeOK, WorkersOK
<1>2. CASE t # s
  <2>1. worker'[t] = worker[t] /\ cache'[t] = cache[t]
    BY <1>2 DEF TypeOK, WorkersOK
  <2> QED BY <2>1 DEF AliasIsCached
<1> QED BY <1>1, <1>2

\* Steps that leave workers and caches alone.
LEMMA AliasKept ==
    ASSUME AliasIsCached, UNCHANGED <<cache, worker>>
    PROVE  AliasIsCached'
BY DEF AliasIsCached

\* A worker without a copy of its own.
LEMMA NoAlias ==
    ASSUME NEW copies
    PROVE  /\ AliasOK(Idle, copies)
           /\ \A k, after : AliasOK(Follow(k, after), copies)
           /\ \A c, status, after : AliasOK(Submit(c, status, after), copies)
BY DEF AliasOK, Idle, Follow, Submit

\* Initially no worker has a copy.
LEMMA AliasInit == Init => AliasIsCached
BY DEF Init, AliasIsCached, Idle

\* A worker keeps the copy of the cache until the informer replaces it.
LEMMA AliasNext ==
    ASSUME TypeOK, AliasIsCached, [Next]_vars
    PROVE  AliasIsCached'
<1>1. ASSUME NEW s \in Server, Die(s) PROVE AliasIsCached'
  <2>1. \A t \in Server \ {s} : cache'[t] = cache[t]
    BY <1>1 DEF Die, TypeOK, CacheOK
  <2> QED BY <1>1, <2>1, NoAlias, AliasReplaced DEF Die
<1>2. CASE Environment
  <2>1. ASSUME UNCHANGED memory PROVE AliasIsCached'
    BY <2>1, AliasKept DEF memory
  <2>2. ASSUME NEW s \in Server, Kill(s) PROVE AliasIsCached'
    BY <1>1, <2>2 DEF Kill
  <2>3. ASSUME ~\E s \in Server : Kill(s) PROVE UNCHANGED memory
    BY <1>2, <2>3 DEF Environment, Users, Create, Update, Delete, Supervise, Tick, Start, Relist
  <2> QED BY <2>1, <2>2, <2>3
<1>3. ASSUME NEW s \in Server, Deliver(s) PROVE AliasIsCached'
  <2>1. ASSUME NEW o \in Object, NEW c, Replace(s, o, c) PROVE AliasIsCached'
    <3> DEFINE w == [worker[s] EXCEPT !.alias = @ /\ worker[s].key # o]
    <3>1. worker[s] \in Worker
      BY DEF TypeOK, WorkersOK
    <3>2. /\ w.key = worker[s].key /\ w.obj = worker[s].obj
          /\ w.alias => worker[s].alias /\ worker[s].key # o
      BY <3>1 DEF Worker
    <3>3. worker' = [worker EXCEPT ![s] = w] /\ cache' = [cache EXCEPT ![s][o] = c]
      BY <2>1 DEF Replace
    <3> HIDE DEF w
    <3>4. /\ \A t \in Server \ {s} : cache'[t] = cache[t]
          /\ \A p \in Object \ {o} : cache'[s][p] = cache[s][p]
      BY <3>3 DEF TypeOK, CacheOK
    <3>5. AliasOK(w, cache'[s])
      BY <3>2, <3>4 DEF AliasOK, AliasIsCached
    <3> QED BY <3>3, <3>4, <3>5, AliasReplaced
  <2>2. ASSUME NEW o \in Object, DeliverUpdate(s, o) PROVE AliasIsCached'
    <3>1. Replace(s, o, Copy(s, Event(s, o)))
      BY <2>2 DEF DeliverUpdate
    <3> QED BY <2>1, <3>1
  <2> QED BY <1>1, <1>3, <2>1, <2>2
          DEF Deliver, DeliverAdd, DeliverDelete, UpdatePanics, DeletePanics
<1>4. ASSUME NEW s \in Server, NEW w, Becomes(s, w), AliasOK(w, cache[s]), UNCHANGED cache
      PROVE  AliasIsCached'
  BY <1>4, AliasReplaced DEF Becomes
<1>5. ASSUME NEW s \in Server, Take(s) PROVE AliasIsCached'
  <2>1. ASSUME NEW k \in Object, TakeZone(s, k) PROVE AliasIsCached'
    <3> DEFINE w == [Idle EXCEPT !.pc = "walk", !.key = k, !.obj = cache[s][k],
                                 !.alias = TRUE, !.at = cache[s][k]]
    <3>1. AliasOK(w, cache[s])
      BY <2>1 DEF TakeZone, AliasOK, Idle
    <3>2. Becomes(s, w) /\ UNCHANGED cache
      BY <2>1 DEF TakeZone
    <3> HIDE DEF w
    <3> QED BY <1>4, <3>1, <3>2
  <2>2. ASSUME NEW k \in Object, TakeEntry(s, k) PROVE AliasIsCached'
    <3> DEFINE w == [Idle EXCEPT !.pc = "lookup", !.key = k,
                                 !.obj = cache[s][k], !.alias = TRUE]
    <3>1. AliasOK(w, cache[s])
      BY <2>2 DEF TakeEntry, AliasOK, Idle
    <3>2. Becomes(s, w) /\ UNCHANGED cache
      BY <2>2 DEF TakeEntry
    <3> HIDE DEF w
    <3> QED BY <1>4, <3>1, <3>2
  <2>3. ASSUME NEW k \in Object, TakeDeletedZone(s, k) PROVE AliasIsCached'
    BY <1>4, <2>3, NoAlias DEF TakeDeletedZone
  <2>4. ASSUME NEW k \in Object, DropEntry(s, k) PROVE AliasIsCached'
    BY <2>4, AliasKept DEF DropEntry
  <2> QED BY <1>5, <2>1, <2>2, <2>3, <2>4 DEF Take
<1>6. ASSUME NEW s \in Server, ReconcilesZone(s), NEW z \in Copied(worker[s].key),
             NEW modAfter, NEW after, UpdateZone(s, z, modAfter, after)
      PROVE  AliasIsCached'
  <2>1. z.name = worker[s].key /\ worker[s].key \in Object
    BY <1>6, ZoneAtWork DEF Copied
  <2>2. \A t \in Server \ {s} : cache'[t] = cache[t]
    BY <1>6, <2>1 DEF UpdateZone, Amend, TypeOK, CacheOK
  <2> DEFINE a == Submit(z, ZoneStatusOf(z), modAfter)
             b == Follow(z.name, after)
  <2>3. AliasOK(a, cache'[s]) /\ AliasOK(b, cache'[s])
    BY NoAlias
  <2>4. Becomes(s, a) \/ Becomes(s, b)
    BY <1>6 DEF UpdateZone
  <2> HIDE DEF a, b
  <2> QED BY <2>2, <2>3, <2>4, AliasReplaced DEF Becomes
<1>7. ASSUME NEW s \in Server, NEW root, NEW names, NEW err,
             UpdateEntry(s, root, names, err), UNCHANGED cache
      PROVE  AliasIsCached'
  <2> DEFINE a == Submit(worker[s].obj, EntryStatusOf(worker[s].obj, root, names, err), "none")
  <2>1. AliasOK(a, cache[s]) /\ AliasOK(Idle, cache[s])
    BY NoAlias
  <2>2. Becomes(s, a) \/ Becomes(s, Idle)
    BY <1>7 DEF UpdateEntry
  <2> HIDE DEF a
  <2> QED BY <1>4, <1>7, <2>1, <2>2
<1>8. ASSUME NEW s \in Server, NEW w, Becomes(s, w), UNCHANGED cache,
             w.key = worker[s].key, w.obj = worker[s].obj, w.alias = worker[s].alias
      PROVE  AliasIsCached'
  <2>1. AliasOK(w, cache[s])
    BY <1>8 DEF AliasOK, AliasIsCached
  <2> QED BY <1>4, <1>8, <2>1
<1>9. ASSUME NEW s \in Server, Reconcile(s) PROVE AliasIsCached'
  <2>0. worker[s] \in Worker /\ AliasOK(Idle, cache[s])
    BY NoAlias DEF TypeOK, WorkersOK
  <2>1. ASSUME ZoneServed(s) PROVE AliasIsCached'
    <3>1. ReconcilesZone(s) /\ UpdateZone(s, ServedCopy(s), "all", "all")
      BY <2>1 DEF ZoneServed, ServedCopy
    <3> QED BY <1>6, <3>1, JudgedCopies
  <2>2. ASSUME ZoneOrphaned(s) PROVE AliasIsCached'
    <3>1. ReconcilesZone(s) /\ UpdateZone(s, OrphanCopy(s), "entries", "none")
      BY <2>2 DEF ZoneOrphaned, OrphanCopy
    <3> QED BY <1>6, <3>1, JudgedCopies
  <2>3. ASSUME WalkUp(s) PROVE AliasIsCached'
    <3> DEFINE w == [worker[s] EXCEPT !.at = Parent(s),
                                      !.names = AggregateNames(@, Parent(s))]
    <3>1. w.key = worker[s].key /\ w.obj = worker[s].obj /\ w.alias = worker[s].alias
      BY <2>0 DEF Worker
    <3>2. Becomes(s, w) /\ UNCHANGED cache
      BY <2>3 DEF WalkUp
    <3> HIDE DEF w
    <3> QED BY <1>8, <3>1, <3>2
  <2>4. ASSUME LookupZone(s) PROVE AliasIsCached'
    <3> DEFINE w == [worker[s] EXCEPT
                       !.pc = "walk", !.zone = ZoneOfEntry(s), !.at = ZoneOfEntry(s),
                       !.names = AggregateNames(worker[s].obj.spec.names, ZoneOfEntry(s))]
    <3>1. w.key = worker[s].key /\ w.obj = worker[s].obj /\ w.alias = worker[s].alias
      BY <2>0 DEF Worker
    <3>2. Becomes(s, w) /\ UNCHANGED cache
      BY <2>4 DEF LookupZone
    <3> HIDE DEF w
    <3> QED BY <1>8, <3>1, <3>2
  <2>5. ASSUME TriggerEntries(s) PROVE AliasIsCached'
    <3> DEFINE w == [worker[s] EXCEPT !.pc = "nested"]
    <3>1. w.key = worker[s].key /\ w.obj = worker[s].obj /\ w.alias = worker[s].alias
      BY <2>0 DEF Worker
    <3>2. (Becomes(s, w) \/ Becomes(s, Idle)) /\ UNCHANGED cache
      BY <2>5 DEF TriggerEntries
    <3> HIDE DEF w
    <3> QED BY <1>4, <1>8, <2>0, <3>1, <3>2
  <2>6. ASSUME ZoneIgnored(s) \/ TriggerNested(s) PROVE AliasIsCached'
    BY <1>4, <2>0, <2>6 DEF ZoneIgnored, TriggerNested
  <2>7. ASSUME ZoneMissing(s) PROVE AliasIsCached'
    BY <1>7, <2>7 DEF ZoneMissing
  <2>8. ASSUME EntryServed(s) PROVE AliasIsCached'
    BY <1>7, <2>8 DEF EntryServed
  <2>9. ASSUME EntryOrphaned(s) PROVE AliasIsCached'
    BY <1>4, <1>7, <2>0, <2>9 DEF EntryOrphaned
  <2>10. ASSUME EntryForeign(s) PROVE AliasIsCached'
    BY <1>4, <1>7, <2>0, <2>10 DEF EntryForeign
  <2> QED BY <1>9, <2>1, <2>2, <2>3, <2>4, <2>5, <2>6, <2>7, <2>8, <2>9, <2>10 DEF Reconcile
<1>10. ASSUME NEW s \in Server, Answer(s) \/ Fault(s) PROVE AliasIsCached'
  <2>1. (Becomes(s, Idle) \/ Becomes(s, Follow(worker[s].key, worker[s].after))) /\ UNCHANGED cache
    BY <1>10 DEF Answer, Fault, WriteAccepted, WriteRejected, WriteFails,
                 WriteUnanswered, Retry
  <2> QED BY <1>4, <2>1, NoAlias
<1>11. ASSUME NEW s \in Server, Expire(s) PROVE AliasIsCached'
  BY <1>11, AliasKept DEF Expire, Requeue
<1>12. CASE UNCHANGED vars
  BY <1>12, AliasKept DEF vars
<1> QED BY <1>2, <1>3, <1>5, <1>9, <1>10, <1>11, <1>12 DEF Next, Work

-----------------------------------------------------------------------------
(* The memory of one server. *)

Untouched(s) ==
    /\ worker'[s] = worker[s] /\ cache'[s] = cache[s]
    /\ queue'[s] = queue[s] /\ delayed'[s] = delayed[s]

\* What another server does changes nothing in the memory of a server.
LEMMA OthersRest ==
    ASSUME TypeOK, NEW t \in Server, Deliver(t) \/ Work(t) \/ Expire(t),
           NEW s \in Server, s # t
    PROVE  Untouched(s)
<1> DEFINE Rest == /\ worker'[s] = worker[s] /\ cache'[s] = cache[s]
                   /\ queue'[s] = queue[s] /\ delayed'[s] = delayed[s]
<1>1. ASSUME NEW w, Becomes(t, w) PROVE worker'[s] = worker[s]
  BY <1>1 DEF Becomes, TypeOK, WorkersOK
<1>2. ASSUME Retry(t) PROVE worker'[s] = worker[s] /\ delayed'[s] = delayed[s]
  BY <1>1, <1>2 DEF Retry, TypeOK, RestOK
<1>3. ASSUME NEW keys, Enqueue(t, keys) PROVE queue'[s] = queue[s]
  BY <1>3 DEF Enqueue, TypeOK, RestOK
<1>4. ASSUME Die(t) PROVE Rest
  BY <1>4 DEF Die, TypeOK, RestOK, CacheOK, WorkersOK
<1>5. ASSUME Deliver(t) PROVE Rest
  <2>1. ASSUME NEW o \in Object, NEW c, Replace(t, o, c)
        PROVE  worker'[s] = worker[s] /\ cache'[s] = cache[s]
    BY <2>1 DEF Replace, TypeOK, CacheOK, WorkersOK
  <2>2. ASSUME NEW o \in Object, Notice(t, o) PROVE queue'[s] = queue[s]
    BY <2>2 DEF Notice, TypeOK, RestOK
  <2>3. ASSUME NEW o \in Object, DeliverUpdate(t, o) PROVE Rest
    <3>1. Replace(t, o, Copy(t, Event(t, o)))
          /\ (Notice(t, o) \/ UNCHANGED queue) /\ UNCHANGED delayed
      BY <2>3 DEF DeliverUpdate
    <3> QED BY <2>1, <2>2, <3>1
  <2>4. ASSUME NEW o \in Object, DeliverAdd(t, o) \/ DeliverDelete(t, o) PROVE Rest
    BY <2>1, <2>2, <2>4 DEF DeliverAdd, DeliverDelete
  <2> QED BY <1>4, <1>5, <2>3, <2>4 DEF Deliver, UpdatePanics, DeletePanics
<1>6. ASSUME Take(t) PROVE Rest
  BY <1>1, <1>6 DEF Take, TakeZone, TakeDeletedZone, TakeEntry, DropEntry, TypeOK, RestOK
<1>7. ASSUME Expire(t) PROVE Rest
  BY <1>3, <1>7 DEF Expire, Requeue, TypeOK, RestOK
<1>8. ASSUME Answer(t) \/ Fault(t) PROVE Rest
  BY <1>1, <1>2, <1>8 DEF Answer, Fault, WriteAccepted, WriteRejected, WriteFails,
                          WriteUnanswered
<1>9. ASSUME Reconcile(t) PROVE Rest
  <2>1. ASSUME NEW z, NEW m, NEW a, UpdateZone(t, z, m, a)
        PROVE  worker'[s] = worker[s] /\ cache'[s] = cache[s]
    <3>1. worker'[s] = worker[s]
      BY <1>1, <2>1 DEF UpdateZone
    <3>2. cache'[s] = cache[s]
      BY <2>1 DEF UpdateZone, Amend, TypeOK, CacheOK
    <3> QED BY <3>1, <3>2
  <2>2. ASSUME NEW root, NEW names, NEW err, UpdateEntry(t, root, names, err)
        PROVE  worker'[s] = worker[s]
    BY <1>1, <2>2 DEF UpdateEntry
  <2>3. ZoneServed(t) \/ ZoneOrphaned(t) => Rest
    BY <2>1 DEF ZoneServed, ZoneOrphaned
  <2>4. WalkUp(t) \/ ZoneIgnored(t) \/ LookupZone(t) => Rest
    BY <1>1 DEF WalkUp, ZoneIgnored, LookupZone
  <2>5. ZoneMissing(t) \/ EntryServed(t) => Rest
    BY <2>2 DEF ZoneMissing, EntryServed
  <2>6. EntryOrphaned(t) \/ EntryForeign(t) => Rest
    BY <1>1, <2>2 DEF EntryOrphaned, EntryForeign
  <2>7. TriggerEntries(t) \/ TriggerNested(t) => Rest
    BY <1>1, <1>3 DEF TriggerEntries, TriggerNested
  <2> QED BY <1>9, <2>3, <2>4, <2>5, <2>6, <2>7 DEF Reconcile
<1> QED BY <1>5, <1>6, <1>7, <1>8, <1>9 DEF Work, Untouched

\* The environment changes nothing in the memory of a server, or ends it.
LEMMA EnvironmentRests ==
    ASSUME TypeOK, Environment, NEW s \in Server
    PROVE  Untouched(s) \/ Die(s)
<1>1. ASSUME NEW t \in Server, Kill(t), s # t PROVE Untouched(s)
  <2>1. Die(t)
    BY <1>1 DEF Kill
  <2> QED BY <1>1, <2>1 DEF Die, TypeOK, RestOK, CacheOK, WorkersOK, Untouched
<1>2. CASE ~\E t \in Server : Kill(t)
  <2>1. UNCHANGED memory
    BY <1>2 DEF Environment, Users, Create, Update, Delete, Supervise, Tick, Start, Relist
  <2> QED BY <2>1 DEF memory, Untouched
<1> QED BY <1>1, <1>2 DEF Kill

-----------------------------------------------------------------------------
(* The work on entries. *)

\* The invariant of the next state, said of the values a step leaves.
LEMMA EntriesThen ==
    ASSUME \A s \in Server :
             /\ \A e \in Entry : cache'[s][e] # Absent => PlainCopy(s, cache'[s][e])
             /\ EntryWork(s, worker'[s])
    PROVE  EntriesAtWork'
BY DEF EntriesAtWork, EntryWork, PlainCopy, Keeps, EntryError, BadEntry, AlwaysTop, Declarable

\* What is stored of an entry keeps its mistakes, and claims it for nobody but the
\* root zone it is in.
LEMMA StatusKeeps ==
    ASSUME NEW e \in Entry, NEW c \in Copied(e), CopyVerdict(c),
           NEW root, NEW names, NEW err,
           c.spec.zone \in Zone /\ AlwaysTop(c.spec.zone) =>
             root \in {c.status.root, None, c.spec.zone}
    PROVE  Keeps(c.spec, c.status, EntryStatusOf(c, root, names, err))
<1> DEFINE why == IF c.err # <<>> THEN c.err ELSE err
           st == EntryStatusOf(c, root, names, err)
<1>1. c.status \in EntryStatus
  BY NamesAreDistinct DEF Copied, StatusOf
<1>2. EntryError(c.spec) # <<>> => why # <<>>
  BY DEF CopyVerdict
<1> HIDE DEF why
<1>3. /\ st.root = root
      /\ why # <<>> /\ c.status.state = "Invalid" => st.state = "Invalid"
  <2>1. CASE c.plain
    BY <1>1, <2>1 DEF EntryStatusOf, EntryStatus, why
  <2>2. CASE ~c.plain
    BY <1>1, <2>2 DEF EntryStatusOf, EntryStatus
  <2> QED BY <2>1, <2>2
<1> HIDE DEF st
<1>4. Keeps(c.spec, c.status, st)
  BY <1>2, <1>3 DEF Keeps
<1> QED BY <1>4 DEF st

\* A worker without a copy of an entry.
LEMMA NoEntryWork ==
    ASSUME NEW s \in Server
    PROVE  /\ EntryWork(s, Idle)
           /\ \A k, after : EntryWork(s, Follow(k, after))
           /\ \A w : w.key \in Zone => EntryWork(s, w)
BY NamesAreDistinct DEF EntryWork, Idle, Follow, Object

\* Only what a worker works on matters, not whether its copy is the cached one.
LEMMA SameEntryWork ==
    ASSUME NEW s \in Server, EntryWork(s, worker[s]), NEW w,
           w.pc = worker[s].pc, w.key = worker[s].key, w.obj = worker[s].obj,
           w.at = worker[s].at, w.status = worker[s].status
    PROVE  EntryWork(s, w)
BY DEF EntryWork, PlainCopy

\* A new copy of an entry reports to the users unless an aaS controller does.
LEMMA CopyIsPlain ==
    ASSUME NEW s \in Server, NEW e \in Entry, NEW v \in Stored(e)
    PROVE  PlainCopy(s, Copy(s, v))
<1>1. v.name \notin Zone
  BY NamesAreDistinct DEF Stored
<1> QED BY <1>1 DEF Copy, ToEntry, IsPlain, PlainCopy

\* A decision on an entry.
LEMMA DecidedWork ==
    ASSUME TypeOK, VerdictsInFlight, EntriesAtWork, NEW s \in Server,
           worker[s].key \in Entry, worker[s].obj \in Copied(worker[s].key),
           NEW root, NEW names, NEW err, UpdateEntry(s, root, names, err),
           LET spec == worker[s].obj.spec
           IN  spec.zone \in Zone /\ AlwaysTop(spec.zone) => root \in {None, spec.zone}
    PROVE  EntryWork(s, worker'[s])
<1> DEFINE c == worker[s].obj
           st == EntryStatusOf(c, root, names, err)
           w == Submit(c, st, "none")
<1>1. c # Absent /\ CopyVerdict(c) /\ PlainCopy(s, c)
  BY NamesAreDistinct DEF Object, VerdictsInFlight, WorkerVerdict, EntriesAtWork, EntryWork
<1>2. Keeps(c.spec, c.status, st)
  BY <1>1, StatusKeeps
<1> HIDE DEF st
<1>3. w.obj = c /\ w.status = st /\ w.pc = "write"
  BY DEF Submit, Idle
<1> HIDE DEF w
<1>4. EntryWork(s, w)
  BY <1>1, <1>2, <1>3 DEF EntryWork
<1>5. worker'[s] = w \/ worker'[s] = Idle
  BY DEF UpdateEntry, Becomes, w, st, TypeOK, WorkersOK
<1> QED BY <1>4, <1>5, NoEntryWork

\* The zones a walk comes to are cached, and declared.
LEMMA CachedZone ==
    ASSUME TypeOK, Declared, NEW s \in Server, NEW z \in Zone, cache[s][z] # Absent
    PROVE  cache[s][z].name = z /\ cache[s][z].spec \in Declarable(cache[s][z].name)
<1>1. z \in Object /\ cache[s][z] \in Copied(z)
  BY DEF Object, TypeOK, CacheOK
<1> QED BY <1>1 DEF Copied, Declared, Known

\* A walk that goes on neither was at the root zone of the server nor at a zone
\* that never has a parent.
LEMMA WalkGoesOn ==
    ASSUME NEW s \in Server, EntryWork(s, worker[s]), worker[s].key \in Entry,
           worker[s].pc = "walk", HasParent(s)
    PROVE  LET z == worker[s].obj.spec.zone
           IN  z # RootOf[s] /\ ~AlwaysTop(z)
BY DEF EntryWork, HasParent, AtRoot, AlwaysTop

\* Where a walk that ends at the root zone of a server has come from.
LEMMA WalkIsHome ==
    ASSUME NEW s \in Server, EntryWork(s, worker[s]), worker[s].key \in Entry,
           worker[s].pc = "walk", AtRoot(s), AlwaysTop(worker[s].obj.spec.zone)
    PROVE  worker[s].obj.spec.zone = RootOf[s]
BY DEF EntryWork, AtRoot

\* The worker takes a key.
LEMMA EntriesTake ==
    ASSUME TypeOK, EntriesAtWork, NEW s \in Server, Take(s)
    PROVE  EntryWork(s, worker'[s])
<1>1. ASSUME NEW w, Becomes(s, w), EntryWork(s, w) PROVE EntryWork(s, worker'[s])
  BY <1>1 DEF Becomes, TypeOK, WorkersOK
<1>2. ASSUME NEW k \in Object, TakeZone(s, k) PROVE EntryWork(s, worker'[s])
  <2> DEFINE w == [Idle EXCEPT !.pc = "walk", !.key = k, !.obj = cache[s][k],
                               !.alias = TRUE, !.at = cache[s][k]]
  <2>1. w.key \in Zone
    BY <1>2 DEF TakeZone, Idle
  <2>2. Becomes(s, w)
    BY <1>2 DEF TakeZone
  <2> HIDE DEF w
  <2> QED BY <1>1, <2>1, <2>2, NoEntryWork
<1>3. ASSUME NEW k \in Object, TakeDeletedZone(s, k) PROVE EntryWork(s, worker'[s])
  BY <1>1, <1>3, NoEntryWork DEF TakeDeletedZone
<1>4. ASSUME NEW k \in Object, TakeEntry(s, k) PROVE EntryWork(s, worker'[s])
  <2> DEFINE w == [Idle EXCEPT !.pc = "lookup", !.key = k,
                               !.obj = cache[s][k], !.alias = TRUE]
  <2>1. w.pc = "lookup" /\ w.obj = cache[s][k]
    BY DEF Idle
  <2>2. Becomes(s, w) /\ k \in Entry
    BY <1>4 DEF TakeEntry
  <2> HIDE DEF w
  <2>3. EntryWork(s, w)
    BY <2>1, <2>2 DEF EntryWork, EntriesAtWork
  <2> QED BY <1>1, <2>2, <2>3
<1>5. ASSUME NEW k \in Object, DropEntry(s, k) PROVE EntryWork(s, worker'[s])
  BY <1>5 DEF DropEntry, EntriesAtWork
<1> QED BY <1>2, <1>3, <1>4, <1>5 DEF Take

\* The worker reconciles.
LEMMA EntriesReconcile ==
    ASSUME TypeOK, VerdictsInFlight, Declared, EntriesAtWork, NEW s \in Server, Reconcile(s)
    PROVE  EntryWork(s, worker'[s])
<1> DEFINE c == worker[s].obj
           k == worker[s].key
           z == c.spec.zone
<1>1. worker[s] \in Worker /\ WorkerOK(worker[s]) /\ EntryWork(s, worker[s])
  BY DEF TypeOK, WorkersOK, EntriesAtWork
<1>2. ASSUME NEW w, Becomes(s, w), EntryWork(s, w) PROVE EntryWork(s, worker'[s])
  BY <1>2 DEF Becomes, TypeOK, WorkersOK
<1>3. Becomes(s, Idle) => EntryWork(s, worker'[s])
  BY <1>2, NoEntryWork
<1>4. ASSUME NEW y \in Copied(k), k \in Zone, NEW m, NEW a, UpdateZone(s, y, m, a)
      PROVE  EntryWork(s, worker'[s])
  <2> DEFINE v == Submit(y, ZoneStatusOf(y), m)
             f == Follow(y.name, a)
  <2>1. v.key = y.name /\ y.name = k
    BY <1>4 DEF Submit, Idle, Copied
  <2>2. Becomes(s, v) \/ Becomes(s, f)
    BY <1>4 DEF UpdateZone
  <2>3. EntryWork(s, f)
    BY NoEntryWork
  <2> HIDE DEF v, f
  <2>4. EntryWork(s, v)
    BY <1>4, <2>1, NoEntryWork
  <2> QED BY <1>2, <2>2, <2>3, <2>4
<1>5. ASSUME ZoneServed(s) \/ ZoneOrphaned(s) PROVE EntryWork(s, worker'[s])
  <2>1. ReconcilesZone(s) /\ \E y \in {ServedCopy(s), OrphanCopy(s)} :
                              \E m, a : UpdateZone(s, y, m, a)
    BY <1>5 DEF ZoneServed, ZoneOrphaned, ServedCopy, OrphanCopy
  <2>2. k \in Zone /\ ServedCopy(s) \in Copied(k) /\ OrphanCopy(s) \in Copied(k)
    BY <2>1, ZoneAtWork, JudgedCopies
  <2> QED BY <1>4, <2>1, <2>2
<1>6. ASSUME WalkUp(s) PROVE EntryWork(s, worker'[s])
  <2> DEFINE w == [worker[s] EXCEPT !.at = Parent(s),
                                    !.names = AggregateNames(@, Parent(s))]
  <2>1. /\ Becomes(s, w) /\ worker[s].pc = "walk" /\ HasParent(s)
        /\ Parent(s) # Absent
    BY <1>6 DEF WalkUp, Busy
  <2>2. /\ w.pc = worker[s].pc /\ w.key = k /\ w.obj = c /\ w.at = Parent(s)
        /\ w.status = worker[s].status
    BY <1>1 DEF Worker
  <2>3. worker[s].at.spec.parent \in Zone
    BY <1>1, <2>1 DEF WorkerOK, CopiedZone, ZoneSpec, Ref, HasParent
  <2>4. Parent(s).spec \in Declarable(Parent(s).name)
    BY <2>1, <2>3, CachedZone DEF Parent
  <2> HIDE DEF w
  <2>5. ASSUME k \in Entry PROVE z # RootOf[s] /\ ~AlwaysTop(z)
    BY <1>1, <2>1, <2>5, WalkGoesOn
  <2>6. EntryWork(s, w)
    BY <1>1, <2>1, <2>2, <2>4, <2>5 DEF EntryWork
  <2> QED BY <1>2, <2>1, <2>6
<1>7. ASSUME LookupZone(s) PROVE EntryWork(s, worker'[s])
  <2> DEFINE w == [worker[s] EXCEPT
                     !.pc = "walk", !.zone = ZoneOfEntry(s), !.at = ZoneOfEntry(s),
                     !.names = AggregateNames(worker[s].obj.spec.names, ZoneOfEntry(s))]
  <2>1. Becomes(s, w) /\ worker[s].pc = "lookup" /\ ZoneOfEntry(s) # Absent
    BY <1>7 DEF LookupZone, Busy
  <2>2. w.pc = "walk" /\ w.key = k /\ w.obj = c /\ w.at = ZoneOfEntry(s)
    BY <1>1 DEF Worker
  <2>3. z \in Zone
    BY <1>1, <2>1 DEF WorkerOK
  <2>4. ZoneOfEntry(s).name = z /\ ZoneOfEntry(s).spec \in Declarable(ZoneOfEntry(s).name)
    BY <2>1, <2>3, CachedZone DEF ZoneOfEntry
  <2> HIDE DEF w
  <2>5. EntryWork(s, w)
    BY <1>1, <2>2, <2>3, <2>4 DEF EntryWork
  <2> QED BY <1>2, <2>1, <2>5
<1>8. ASSUME NEW root, NEW names, NEW err, UpdateEntry(s, root, names, err),
             k \in Entry, c \in Copied(k),
             z \in Zone /\ AlwaysTop(z) => root \in {None, z}
      PROVE  EntryWork(s, worker'[s])
  BY <1>8, DecidedWork
<1>9. ASSUME ReconcilesEntry(s)
      PROVE  k \in Entry /\ c \in Copied(k) /\ worker[s].pc = "walk"
  BY <1>1, <1>9 DEF ReconcilesEntry, Busy, WorkerOK
<1>10. ASSUME ZoneMissing(s) PROVE EntryWork(s, worker'[s])
  <2>1. k \in Entry /\ c \in Copied(k) /\ UpdateEntry(s, None, {}, NoRootZone)
    BY <1>1, <1>10 DEF ZoneMissing, Busy, WorkerOK
  <2> QED BY <1>8, <2>1
<1>11. ASSUME EntryServed(s) PROVE EntryWork(s, worker'[s])
  <2>1. /\ ReconcilesEntry(s) /\ AtRoot(s)
        /\ \E root \in {None, RootOf[s]} : \E err :
             UpdateEntry(s, root, worker[s].names, err)
    BY <1>11 DEF EntryServed
  <2>2. AlwaysTop(z) => z = RootOf[s]
    BY <1>1, <1>9, <2>1, WalkIsHome
  <2>3. PICK root \in {None, RootOf[s]} : \E err : UpdateEntry(s, root, worker[s].names, err)
    BY <2>1
  <2> QED BY <1>8, <1>9, <2>1, <2>2, <2>3
<1>12. ASSUME EntryOrphaned(s) \/ EntryForeign(s) PROVE EntryWork(s, worker'[s])
  <2>1. /\ ReconcilesEntry(s)
        /\ Becomes(s, Idle) \/ \E err : UpdateEntry(s, None, {}, err)
    BY <1>12 DEF EntryOrphaned, EntryForeign
  <2> QED BY <1>3, <1>8, <1>9, <2>1
<1>13. ASSUME TriggerEntries(s) PROVE EntryWork(s, worker'[s])
  <2> DEFINE w == [worker[s] EXCEPT !.pc = "nested"]
  <2>1. w.key = k /\ k \in Zone
    BY <1>1, <1>13 DEF Worker, TriggerEntries, Busy, WorkerOK
  <2>2. Becomes(s, w) \/ Becomes(s, Idle)
    BY <1>13 DEF TriggerEntries
  <2> HIDE DEF w
  <2> QED BY <1>2, <1>3, <2>1, <2>2, NoEntryWork
<1>14. ASSUME ZoneIgnored(s) \/ TriggerNested(s) PROVE EntryWork(s, worker'[s])
  BY <1>3, <1>14 DEF ZoneIgnored, TriggerNested
<1> QED BY <1>5, <1>6, <1>7, <1>10, <1>11, <1>12, <1>13, <1>14 DEF Reconcile

\* The copies of entries in a cache come from the informer alone.
LEMMA EntryCopies ==
    ASSUME TypeOK, EntriesAtWork, NEW s \in Server, NEW e \in Entry,
           Deliver(s) \/ Work(s) \/ Expire(s), cache'[s][e] # Absent
    PROVE  PlainCopy(s, cache'[s][e])
<1>1. e \in Object /\ e \notin Zone
  BY NamesAreDistinct DEF Object
<1>2. ASSUME cache'[s][e] = cache[s][e] PROVE PlainCopy(s, cache'[s][e])
  BY <1>2 DEF EntriesAtWork
<1>3. ASSUME NEW o \in Object, NEW c, Replace(s, o, c),
             o = e /\ c # Absent => PlainCopy(s, c)
      PROVE  PlainCopy(s, cache'[s][e])
  <2>1. cache'[s][e] = IF o = e THEN c ELSE cache[s][e]
    BY <1>1, <1>3 DEF Replace, TypeOK, CacheOK
  <2> QED BY <1>2, <1>3, <2>1
<1>4. ASSUME NEW o \in Object, Incoming(s, o), Event(s, o) \notin {Absent, Missed}, o = e
      PROVE  PlainCopy(s, Copy(s, Event(s, o)))
  BY <1>4, EventTyped, CopyIsPlain DEF TypeOK
<1>5. CASE Deliver(s)
  <2>1. ASSUME NEW o \in Object, DeliverUpdate(s, o) PROVE PlainCopy(s, cache'[s][e])
    <3>1. Replace(s, o, Copy(s, Event(s, o)))
      BY <2>1 DEF DeliverUpdate
    <3> QED BY <1>3, <1>4, <2>1, <3>1 DEF DeliverUpdate
  <2>2. ASSUME NEW o \in Object, DeliverAdd(s, o) PROVE PlainCopy(s, cache'[s][e])
    BY <1>3, <1>4, <2>2 DEF DeliverAdd
  <2>3. ASSUME NEW o \in Object, DeliverDelete(s, o) PROVE PlainCopy(s, cache'[s][e])
    BY <1>3, <2>3 DEF DeliverDelete
  <2>4. Die(s) => cache'[s][e] = Absent
    BY <1>1 DEF Die, NoCopies, TypeOK, CacheOK
  <2> QED BY <1>5, <2>1, <2>2, <2>3, <2>4 DEF Deliver, UpdatePanics, DeletePanics
<1>6. CASE Reconcile(s)
  <2>1. ASSUME NEW y, y.name \in Zone, Amend(s, y) PROVE cache'[s][e] = cache[s][e]
    BY <1>1, <2>1 DEF Amend, TypeOK, CacheOK
  <2>2. ASSUME ZoneServed(s) \/ ZoneOrphaned(s) PROVE cache'[s][e] = cache[s][e]
    <3>1. ReconcilesZone(s) /\ \E y \in {ServedCopy(s), OrphanCopy(s)} : Amend(s, y)
      BY <2>2 DEF ZoneServed, ZoneOrphaned, ServedCopy, OrphanCopy, UpdateZone
    <3>2. \A y \in {ServedCopy(s), OrphanCopy(s)} : y.name \in Zone
      BY <3>1, ZoneAtWork, JudgedCopies DEF Copied
    <3> QED BY <2>1, <3>1, <3>2
  <2>3. ~ZoneServed(s) /\ ~ZoneOrphaned(s) => UNCHANGED cache
    BY <1>6 DEF Reconcile, WalkUp, ZoneIgnored, LookupZone, ZoneMissing, EntryServed,
                EntryOrphaned, EntryForeign, TriggerEntries, TriggerNested
  <2> QED BY <1>2, <2>2, <2>3
<1>7. CASE Take(s) \/ Answer(s) \/ Fault(s) \/ Expire(s)
  BY <1>2, <1>7 DEF Take, TakeZone, TakeDeletedZone, TakeEntry, DropEntry, Answer, Fault,
                    WriteAccepted, WriteRejected, WriteFails, WriteUnanswered, Expire, Requeue
<1> QED BY <1>5, <1>6, <1>7 DEF Work

\* Initially no worker works.
LEMMA EntriesInit == Init => EntriesAtWork
<1> SUFFICES ASSUME Init, NEW s \in Server
             PROVE  /\ \A e \in Entry : cache[s][e] # Absent => PlainCopy(s, cache[s][e])
                    /\ EntryWork(s, worker[s])
  BY DEF EntriesAtWork
<1>1. ASSUME NEW e \in Entry, cache[s][e] # Absent PROVE PlainCopy(s, cache[s][e])
  <2>1. e \in Object /\ Initial[e] # Absent /\ cache[s][e] = Copy(s, Initial[e])
    BY <1>1 DEF Init, Object
  <2>2. Initial[e] \in Stored(e)
    BY <2>1, EnvironmentIsTyped
  <2> QED BY <2>1, <2>2, CopyIsPlain
<1> QED BY <1>1, NoEntryWork DEF Init

\* Every step keeps the work on entries in order.
LEMMA EntriesNext ==
    ASSUME TypeOK, VerdictsInFlight, Declared, EntriesAtWork, [Next]_vars
    PROVE  EntriesAtWork'
<1> SUFFICES ASSUME NEW s \in Server
             PROVE  /\ \A e \in Entry : cache'[s][e] # Absent => PlainCopy(s, cache'[s][e])
                    /\ EntryWork(s, worker'[s])
  BY EntriesThen
<1> DEFINE Good == /\ \A e \in Entry : cache'[s][e] # Absent => PlainCopy(s, cache'[s][e])
                   /\ EntryWork(s, worker'[s])
<1>1. ASSUME worker'[s] = worker[s], cache'[s] = cache[s] PROVE Good
  BY <1>1 DEF EntriesAtWork
<1>2. Die(s) => Good
  <2>1. Die(s) => worker'[s] = Idle /\ cache'[s] = NoCopies
    BY DEF Die, TypeOK, WorkersOK, CacheOK
  <2> QED BY <2>1, NoEntryWork DEF NoCopies, Object
<1>3. CASE UNCHANGED vars \/ Environment
  BY <1>1, <1>2, <1>3, EnvironmentRests DEF vars, Untouched
<1>4. ASSUME NEW t \in Server, t # s, Deliver(t) \/ Work(t) \/ Expire(t) PROVE Good
  BY <1>1, <1>4, OthersRest DEF Untouched
<1>5. CASE Deliver(s)
  <2>1. ASSUME NEW o \in Object, NEW c, Replace(s, o, c) PROVE EntryWork(s, worker'[s])
    <3>1. worker'[s] = [worker[s] EXCEPT !.alias = @ /\ worker[s].key # o]
          /\ worker[s] \in Worker
      BY <2>1 DEF Replace, TypeOK, WorkersOK
    <3>2. /\ worker'[s].pc = worker[s].pc /\ worker'[s].key = worker[s].key
          /\ worker'[s].obj = worker[s].obj /\ worker'[s].at = worker[s].at
          /\ worker'[s].status = worker[s].status
      BY <3>1 DEF Worker
    <3> QED BY <3>2, SameEntryWork DEF EntriesAtWork
  <2>2. ASSUME NEW o \in Object, DeliverUpdate(s, o) PROVE EntryWork(s, worker'[s])
    <3>1. Replace(s, o, Copy(s, Event(s, o)))
      BY <2>2 DEF DeliverUpdate
    <3> QED BY <2>1, <3>1
  <2>3. Die(s) \/ EntryWork(s, worker'[s])
    BY <1>5, <2>1, <2>2 DEF Deliver, DeliverAdd, DeliverDelete, UpdatePanics, DeletePanics
  <2> QED BY <1>2, <1>5, <2>3, EntryCopies
<1>6. CASE Work(s) \/ Expire(s)
  <2>1. ASSUME NEW w, Becomes(s, w), EntryWork(s, w) PROVE EntryWork(s, worker'[s])
    BY <2>1 DEF Becomes, TypeOK, WorkersOK
  <2>2. Answer(s) \/ Fault(s) =>
          Becomes(s, Idle) \/ Becomes(s, Follow(worker[s].key, worker[s].after))
    BY DEF Answer, Fault, WriteAccepted, WriteRejected, WriteFails, WriteUnanswered, Retry
  <2>3. Expire(s) => UNCHANGED worker
    BY DEF Expire, Requeue
  <2>4. EntryWork(s, worker'[s])
    BY <1>6, <2>1, <2>2, <2>3, NoEntryWork, EntriesTake, EntriesReconcile
       DEF Work, EntriesAtWork
  <2> QED BY <1>6, <2>4, EntryCopies
<1> QED BY <1>3, <1>4, <1>5, <1>6 DEF Next

-----------------------------------------------------------------------------
(* Copies of root zones. *)

PristineWork(s, w) ==
    w.key = RootOf[s] /\ w.pc = "walk" =>
      w.at.name = RootOf[s] /\ w.at.plain = w.obj.plain /\ Pristine(s, w.obj)
PristineCopy(s, c) == c # Absent => Pristine(s, c)

\* The worker and the cache of one server change.
LEMMA PristineReplaced ==
    ASSUME TypeOK, RootsArePristine, NEW s \in Server, NEW w,
           worker' = [worker EXCEPT ![s] = w], PristineWork(s, w),
           PristineCopy(s, cache'[s][RootOf[s]]),
           \A t \in Server \ {s} : cache'[t] = cache[t]
    PROVE  RootsArePristine'
<1> SUFFICES ASSUME NEW t \in Server
             PROVE  PristineCopy(t, cache'[t][RootOf[t]]) /\ PristineWork(t, worker'[t])
  BY DEF RootsArePristine, PristineCopy, PristineWork, Pristine
<1>1. CASE t = s
  BY <1>1 DEF TypeOK, WorkersOK
<1>2. CASE t # s
  <2>1. worker'[t] = worker[t] /\ cache'[t] = cache[t]
    BY <1>2 DEF TypeOK, WorkersOK
  <2> QED BY <2>1 DEF RootsArePristine, PristineCopy, PristineWork
<1> QED BY <1>1, <1>2

\* Steps that leave workers and caches alone.
LEMMA PristineKept ==
    ASSUME RootsArePristine, UNCHANGED <<cache, worker>>
    PROVE  RootsArePristine'
BY DEF RootsArePristine, Pristine

\* Only a worker that walks has to care.
LEMMA NoWalk ==
    ASSUME NEW s \in Server
    PROVE  /\ PristineWork(s, Idle) /\ PristineCopy(s, Absent)
           /\ \A k, after : PristineWork(s, Follow(k, after))
           /\ \A c, status, after : PristineWork(s, Submit(c, status, after))
           /\ \A w : w.pc # "walk" => PristineWork(s, w)
BY DEF PristineWork, PristineCopy, Idle, Follow, Submit

\* A new copy is pristine.
LEMMA CopyIsPristine ==
    ASSUME NEW s \in Server, NEW z \in Zone, NEW v \in Stored(z)
    PROVE  Pristine(s, Copy(s, v))
<1>1. v.name \in Zone
  BY DEF Stored
<1>2. Copy(s, v) = [name |-> v.name, rv |-> v.rv, spec |-> v.spec, status |-> v.status,
                    plain |-> s \notin Slave /\ ~v.status.managed,
                    err |-> ZoneError(v.spec, s \in Transitive)]
  BY <1>1 DEF Copy, ToZone, IsPlain
<1> QED BY <1>2 DEF Pristine

\* Initially the copies are new.
LEMMA PristineInit == Init => RootsArePristine
<1> SUFFICES ASSUME Init, NEW s \in Server
             PROVE  PristineCopy(s, cache[s][RootOf[s]]) /\ PristineWork(s, worker[s])
  BY DEF RootsArePristine, PristineCopy, PristineWork
<1>1. RootOf[s] \in Zone /\ RootOf[s] \in Object
  BY ServersAreConfigured DEF Object
<1>2. CASE s \in Synced /\ Initial[RootOf[s]] # Absent
  <2>1. cache[s][RootOf[s]] = Copy(s, Initial[RootOf[s]])
    BY <1>1, <1>2 DEF Init
  <2>2. Initial[RootOf[s]] \in Stored(RootOf[s])
    BY <1>1, <1>2, EnvironmentIsTyped
  <2> QED BY <1>1, <2>1, <2>2, CopyIsPristine, NoWalk DEF Init, PristineCopy
<1>3. CASE ~(s \in Synced /\ Initial[RootOf[s]] # Absent)
  BY <1>1, <1>3, NoWalk DEF Init
<1> QED BY <1>2, <1>3

\* A worker that reconciles its root zone is at the root zone.
LEMMA RootIsAtRoot ==
    ASSUME RootsArePristine, NEW s \in Server, Busy(s, "walk"), worker[s].key = RootOf[s]
    PROVE  AtRoot(s) /\ ~HasParent(s) /\ ~AtForeignRoot(s)
BY DEF RootsArePristine, Busy, AtRoot, HasParent, AtForeignRoot

\* Only the informer and the reconciliation of the zone itself touch the copy of
\* the root zone, and both keep it pristine.
LEMMA PristineNext ==
    ASSUME TypeOK, RootsArePristine, [Next]_vars
    PROVE  RootsArePristine'
<1>0. ASSUME NEW s \in Server
      PROVE  /\ RootOf[s] \in Zone /\ RootOf[s] \in Object /\ RootOf[s] \notin Entry
             /\ PristineCopy(s, cache[s][RootOf[s]]) /\ PristineWork(s, worker[s])
  BY ServersAreConfigured, NamesAreDistinct
     DEF Object, RootsArePristine, PristineCopy, PristineWork
<1>1. ASSUME NEW s \in Server, Die(s) PROVE RootsArePristine'
  <2>1. /\ \A t \in Server \ {s} : cache'[t] = cache[t]
        /\ cache'[s] = NoCopies
    BY <1>1 DEF Die, TypeOK, CacheOK
  <2>2. cache'[s][RootOf[s]] = Absent
    BY <1>0, <2>1 DEF NoCopies
  <2> QED BY <1>1, <2>1, <2>2, NoWalk, PristineReplaced DEF Die
<1>2. CASE Environment
  <2>1. ASSUME UNCHANGED memory PROVE RootsArePristine'
    BY <2>1, PristineKept DEF memory
  <2>2. ASSUME NEW s \in Server, Kill(s) PROVE RootsArePristine'
    BY <1>1, <2>2 DEF Kill
  <2>3. ASSUME ~\E s \in Server : Kill(s) PROVE UNCHANGED memory
    BY <1>2, <2>3 DEF Environment, Users, Create, Update, Delete, Supervise, Tick, Start, Relist
  <2> QED BY <2>1, <2>2, <2>3
<1>3. ASSUME NEW s \in Server, Deliver(s) PROVE RootsArePristine'
  <2>1. ASSUME NEW o \in Object, NEW c, Replace(s, o, c), o = RootOf[s] => PristineCopy(s, c)
        PROVE  RootsArePristine'
    <3> DEFINE w == [worker[s] EXCEPT !.alias = @ /\ worker[s].key # o]
    <3>1. worker[s] \in Worker
      BY DEF TypeOK, WorkersOK
    <3>2. /\ w.key = worker[s].key /\ w.obj = worker[s].obj
          /\ w.pc = worker[s].pc /\ w.at = worker[s].at
      BY <3>1 DEF Worker
    <3>3. worker' = [worker EXCEPT ![s] = w] /\ cache' = [cache EXCEPT ![s][o] = c]
      BY <2>1 DEF Replace
    <3> HIDE DEF w
    <3>4. /\ \A t \in Server \ {s} : cache'[t] = cache[t]
          /\ cache'[s][RootOf[s]] = IF o = RootOf[s] THEN c ELSE cache[s][RootOf[s]]
      BY <1>0, <3>3 DEF TypeOK, CacheOK
    <3>5. PristineWork(s, w)
      BY <1>0, <3>2 DEF PristineWork
    <3> QED BY <1>0, <2>1, <3>3, <3>4, <3>5, PristineReplaced
  <2>2. ASSUME NEW o \in Object, Incoming(s, o), Event(s, o) \notin {Absent, Missed},
               o = RootOf[s]
        PROVE  PristineCopy(s, Copy(s, Event(s, o)))
    <3>1. Event(s, o) \in Stored(o)
      BY <2>2, EventTyped DEF TypeOK
    <3> QED BY <1>0, <2>2, <3>1, CopyIsPristine DEF PristineCopy
  <2>3. ASSUME NEW o \in Object, DeliverUpdate(s, o) PROVE RootsArePristine'
    <3>1. Replace(s, o, Copy(s, Event(s, o)))
      BY <2>3 DEF DeliverUpdate
    <3> QED BY <2>1, <2>2, <2>3, <3>1 DEF DeliverUpdate
  <2>4. ASSUME NEW o \in Object, DeliverAdd(s, o) PROVE RootsArePristine'
    BY <2>1, <2>2, <2>4 DEF DeliverAdd
  <2>5. ASSUME NEW o \in Object, DeliverDelete(s, o) PROVE RootsArePristine'
    BY <2>1, <2>5, NoWalk DEF DeliverDelete
  <2> QED BY <1>1, <1>3, <2>3, <2>4, <2>5 DEF Deliver, UpdatePanics, DeletePanics
<1>4. ASSUME NEW s \in Server, NEW w, Becomes(s, w), PristineWork(s, w), UNCHANGED cache
      PROVE  RootsArePristine'
  BY <1>0, <1>4, PristineReplaced DEF Becomes
<1>5. ASSUME NEW s \in Server, Take(s) PROVE RootsArePristine'
  <2>1. ASSUME NEW k \in Object, TakeZone(s, k) PROVE RootsArePristine'
    <3> DEFINE w == [Idle EXCEPT !.pc = "walk", !.key = k, !.obj = cache[s][k],
                                 !.alias = TRUE, !.at = cache[s][k]]
    <3>1. w.obj = cache[s][k] /\ w.at = cache[s][k] /\ w.key = k
      BY DEF Idle
    <3>2. Becomes(s, w) /\ UNCHANGED cache /\ cache[s][k] # Absent
      BY <2>1 DEF TakeZone
    <3> HIDE DEF w
    <3>3. cache[s][k].name = k
      BY <3>2 DEF TypeOK, CacheOK, Copied
    <3>4. PristineWork(s, w)
      BY <1>0, <3>1, <3>2, <3>3 DEF PristineWork, PristineCopy
    <3> QED BY <1>4, <3>2, <3>4
  <2>2. ASSUME NEW k \in Object, TakeEntry(s, k) PROVE RootsArePristine'
    <3> DEFINE w == [Idle EXCEPT !.pc = "lookup", !.key = k,
                                 !.obj = cache[s][k], !.alias = TRUE]
    <3>1. w.pc # "walk"
      BY DEF Idle
    <3>2. Becomes(s, w) /\ UNCHANGED cache
      BY <2>2 DEF TakeEntry
    <3> HIDE DEF w
    <3> QED BY <1>4, <3>1, <3>2, NoWalk
  <2>3. ASSUME NEW k \in Object, TakeDeletedZone(s, k) PROVE RootsArePristine'
    BY <1>4, <2>3, NoWalk DEF TakeDeletedZone
  <2>4. ASSUME NEW k \in Object, DropEntry(s, k) PROVE RootsArePristine'
    BY <2>4, PristineKept DEF DropEntry
  <2> QED BY <1>5, <2>1, <2>2, <2>3, <2>4 DEF Take
<1>6. ASSUME NEW s \in Server, ReconcilesZone(s), NEW z \in Copied(worker[s].key),
             worker[s].key = RootOf[s] => Pristine(s, z),
             NEW modAfter, NEW after, UpdateZone(s, z, modAfter, after)
      PROVE  RootsArePristine'
  <2>1. z.name = worker[s].key /\ worker[s].key \in Object
    BY <1>6, ZoneAtWork DEF Copied
  <2>2. /\ \A t \in Server \ {s} : cache'[t] = cache[t]
        /\ \/ cache'[s][RootOf[s]] = cache[s][RootOf[s]]
           \/ worker[s].key = RootOf[s] /\ cache'[s][RootOf[s]] = z
    BY <1>0, <1>6, <2>1 DEF UpdateZone, Amend, TypeOK, CacheOK
  <2>3. PristineCopy(s, cache'[s][RootOf[s]])
    BY <1>0, <1>6, <2>2 DEF PristineCopy
  <2> DEFINE a == Submit(z, ZoneStatusOf(z), modAfter)
             b == Follow(z.name, after)
  <2>4. PristineWork(s, a) /\ PristineWork(s, b)
    BY NoWalk
  <2>5. Becomes(s, a) \/ Becomes(s, b)
    BY <1>6 DEF UpdateZone
  <2> HIDE DEF a, b
  <2> QED BY <2>2, <2>3, <2>4, <2>5, PristineReplaced DEF Becomes
<1>7. ASSUME NEW s \in Server, NEW root, NEW names, NEW err,
             UpdateEntry(s, root, names, err), UNCHANGED cache
      PROVE  RootsArePristine'
  <2> DEFINE a == Submit(worker[s].obj, EntryStatusOf(worker[s].obj, root, names, err), "none")
  <2>1. PristineWork(s, a) /\ PristineWork(s, Idle)
    BY NoWalk
  <2>2. Becomes(s, a) \/ Becomes(s, Idle)
    BY <1>7 DEF UpdateEntry
  <2> HIDE DEF a
  <2> QED BY <1>4, <1>7, <2>1, <2>2
<1>8. ASSUME NEW s \in Server, Reconcile(s) PROVE RootsArePristine'
  <2>0. worker[s] \in Worker /\ PristineWork(s, Idle) /\ WorkerOK(worker[s])
    BY NoWalk DEF TypeOK, WorkersOK
  <2>1. ASSUME ZoneServed(s) PROVE RootsArePristine'
    <3>1. ReconcilesZone(s) /\ UpdateZone(s, ServedCopy(s), "all", "all") /\ Busy(s, "walk")
      BY <2>1 DEF ZoneServed, ServedCopy, ReconcilesZone
    <3>2. ASSUME worker[s].key = RootOf[s] PROVE Pristine(s, ServedCopy(s))
      <4>1. worker[s].at.plain = worker[s].obj.plain /\ Pristine(s, worker[s].obj)
        BY <1>0, <3>1, <3>2 DEF PristineWork, Busy
      <4>2. /\ ServedCopy(s).plain = worker[s].at.plain
            /\ ServedCopy(s).err = worker[s].obj.err
            /\ SameCopy(worker[s].obj, ServedCopy(s))
        BY <3>1, JudgedCopies
      <4> QED BY <4>1, <4>2 DEF Pristine, SameCopy
    <3> QED BY <1>6, <3>1, <3>2, JudgedCopies
  <2>2. ASSUME ZoneOrphaned(s) PROVE RootsArePristine'
    <3>1. ReconcilesZone(s) /\ UpdateZone(s, OrphanCopy(s), "entries", "none")
          /\ Busy(s, "walk") /\ HasParent(s)
      BY <2>2 DEF ZoneOrphaned, OrphanCopy, ReconcilesZone
    <3> QED BY <1>6, <3>1, JudgedCopies, RootIsAtRoot
  <2>3. ASSUME WalkUp(s) PROVE RootsArePristine'
    <3> DEFINE w == [worker[s] EXCEPT !.at = Parent(s),
                                      !.names = AggregateNames(@, Parent(s))]
    <3>1. w.key = worker[s].key
      BY <2>0 DEF Worker
    <3>2. Becomes(s, w) /\ UNCHANGED cache /\ Busy(s, "walk") /\ HasParent(s)
      BY <2>3 DEF WalkUp
    <3> HIDE DEF w
    <3>3. w.key # RootOf[s]
      BY <3>1, <3>2, RootIsAtRoot
    <3> QED BY <1>4, <3>2, <3>3 DEF PristineWork
  <2>4. ASSUME LookupZone(s) PROVE RootsArePristine'
    <3> DEFINE w == [worker[s] EXCEPT
                       !.pc = "walk", !.zone = ZoneOfEntry(s), !.at = ZoneOfEntry(s),
                       !.names = AggregateNames(worker[s].obj.spec.names, ZoneOfEntry(s))]
    <3>1. w.key = worker[s].key
      BY <2>0 DEF Worker
    <3>2. Becomes(s, w) /\ UNCHANGED cache /\ worker[s].key \in Entry
      BY <2>0, <2>4 DEF LookupZone, Busy, WorkerOK
    <3> HIDE DEF w
    <3> QED BY <1>0, <1>4, <3>1, <3>2 DEF PristineWork
  <2>5. ASSUME TriggerEntries(s) PROVE RootsArePristine'
    <3> DEFINE w == [worker[s] EXCEPT !.pc = "nested"]
    <3>1. w.pc # "walk"
      BY <2>0 DEF Worker
    <3>2. (Becomes(s, w) \/ Becomes(s, Idle)) /\ UNCHANGED cache
      BY <2>5 DEF TriggerEntries
    <3> HIDE DEF w
    <3> QED BY <1>4, <2>0, <3>1, <3>2, NoWalk
  <2>6. ASSUME ZoneIgnored(s) \/ TriggerNested(s) PROVE RootsArePristine'
    BY <1>4, <2>0, <2>6 DEF ZoneIgnored, TriggerNested
  <2>7. ASSUME ZoneMissing(s) PROVE RootsArePristine'
    BY <1>7, <2>7 DEF ZoneMissing
  <2>8. ASSUME EntryServed(s) PROVE RootsArePristine'
    BY <1>7, <2>8 DEF EntryServed
  <2>9. ASSUME EntryOrphaned(s) PROVE RootsArePristine'
    BY <1>4, <1>7, <2>0, <2>9 DEF EntryOrphaned
  <2>10. ASSUME EntryForeign(s) PROVE RootsArePristine'
    BY <1>4, <1>7, <2>0, <2>10 DEF EntryForeign
  <2> QED BY <1>8, <2>1, <2>2, <2>3, <2>4, <2>5, <2>6, <2>7, <2>8, <2>9, <2>10 DEF Reconcile
<1>9. ASSUME NEW s \in Server, Answer(s) \/ Fault(s) PROVE RootsArePristine'
  <2>1. (Becomes(s, Idle) \/ Becomes(s, Follow(worker[s].key, worker[s].after))) /\ UNCHANGED cache
    BY <1>9 DEF Answer, Fault, WriteAccepted, WriteRejected, WriteFails,
                WriteUnanswered, Retry
  <2> QED BY <1>4, <2>1, NoWalk
<1>10. ASSUME NEW s \in Server, Expire(s) PROVE RootsArePristine'
  BY <1>10, PristineKept DEF Expire, Requeue
<1>11. CASE UNCHANGED vars
  BY <1>11, PristineKept DEF vars
<1> QED BY <1>2, <1>3, <1>5, <1>8, <1>9, <1>10, <1>11 DEF Next, Work

-----------------------------------------------------------------------------
(* The work on zones that never have a parent. *)

\* The invariant of the next state, said of the workers a step leaves.
LEMMA ZonesThen ==
    ASSUME \A s \in Server : ZoneWork(worker'[s])
    PROVE  ZonesAtWork'
BY DEF ZonesAtWork, ZoneWork, SaysSo, Affirms, AlwaysTop, Declarable

\* Only a worker with a zone on its way to the root or to the API server matters.
LEMMA NoZoneWork ==
    /\ ZoneWork(Idle)
    /\ \A k, after : ZoneWork(Follow(k, after))
    /\ \A w : w.key \in Entry => ZoneWork(w)
    /\ \A w : w.pc \notin {"walk", "write"} => ZoneWork(w)
BY NamesAreDistinct DEF ZoneWork, Idle, Follow

\* A new condition says what it has to say when the error of the copy does.
LEMMA ConditionSaysSo ==
    ASSUME NEW err, NEW served
    PROVE  Affirms(Condition(err, <<served>>)) <=> err = <<>>
BY DEF Affirms, Condition

\* What a server makes of a pristine copy of its root zone.
LEMMA VerdictSaysSo ==
    ASSUME NEW s \in Server, NEW z \in Zone, NEW c \in Copied(z), Pristine(s, c),
           s \in Transitive \/ c.spec.parent = None
    PROVE  LET st == ZoneStatusOf(c)
           IN  /\ st.managed = c.status.managed
               /\ c.plain = (s \notin Slave /\ ~c.status.managed)
               /\ c.plain => /\ st.server = c.status.server
                             /\ st.state = IF c.spec.mail THEN "Ok" ELSE "Invalid"
               /\ ~c.plain => SaysSo(c.spec, st)
<1> DEFINE st == ZoneStatusOf(c)
<1>1. c.status \in ZoneStatus /\ c.spec \in ZoneSpec
  BY DEF Copied, StatusOf, SpecOf
<1>2. /\ c.plain = (s \notin Slave /\ ~c.status.managed)
      /\ c.err = IF c.spec.mail THEN <<>> ELSE NoMail
  BY DEF Pristine, ZoneError
<1>3. c.err = <<>> <=> c.spec.mail
  <2>1. NoMail # <<>>
    BY DEF NoMail
  <2>2. c.spec.mail \in BOOLEAN
    BY <1>1 DEF ZoneSpec
  <2> QED BY <1>2, <2>1, <2>2
<1>4. CASE c.plain
  <2>1. st.managed = c.status.managed /\ st.server = c.status.server
        /\ st.state = IF c.err = <<>> THEN "Ok" ELSE "Invalid"
    BY <1>1, <1>4 DEF ZoneStatusOf, ZoneStatus
  <2> QED BY <1>2, <1>3, <1>4, <2>1
<1>5. CASE ~c.plain
  <2>1. st.managed = c.status.managed
        /\ st.server = Condition(c.err, <<"hosted zone served">>)
    BY <1>1, <1>5 DEF ZoneStatusOf, ZoneStatus
  <2>2. Affirms(st.server) <=> c.err = <<>>
    BY <2>1, ConditionSaysSo
  <2> HIDE DEF st
  <2>3. SaysSo(c.spec, st)
    BY <1>3, <2>2 DEF SaysSo
  <2>4. st.managed = c.status.managed
    BY <2>1
  <2> QED BY <1>2, <1>5, <2>3, <2>4 DEF st
<1> QED BY <1>4, <1>5

\* The worker takes a key: a zone is at its end when it has no parent.
LEMMA ZonesTake ==
    ASSUME TypeOK, Declared, ZonesAtWork, NEW s \in Server, Take(s)
    PROVE  ZoneWork(worker'[s])
<1>1. ASSUME NEW w, Becomes(s, w), ZoneWork(w) PROVE ZoneWork(worker'[s])
  BY <1>1 DEF Becomes, TypeOK, WorkersOK
<1>2. ASSUME NEW k \in Object, TakeZone(s, k) PROVE ZoneWork(worker'[s])
  <2> DEFINE w == [Idle EXCEPT !.pc = "walk", !.key = k, !.obj = cache[s][k],
                               !.alias = TRUE, !.at = cache[s][k]]
  <2>1. w.pc = "walk" /\ w.key = k /\ w.obj = cache[s][k] /\ w.at = cache[s][k]
    BY DEF Idle
  <2>2. Becomes(s, w) /\ k \in Zone /\ cache[s][k] # Absent
    BY <1>2 DEF TakeZone
  <2> HIDE DEF w
  <2>3. cache[s][k].name = k /\ cache[s][k].spec \in Declarable(k)
    BY <2>2, CachedZone
  <2>4. ZoneWork(w)
    BY <2>1, <2>3 DEF ZoneWork, AlwaysTop
  <2> QED BY <1>1, <2>2, <2>4
<1>3. ASSUME NEW k \in Object, TakeDeletedZone(s, k) PROVE ZoneWork(worker'[s])
  BY <1>1, <1>3, NoZoneWork DEF TakeDeletedZone
<1>4. ASSUME NEW k \in Object, TakeEntry(s, k) PROVE ZoneWork(worker'[s])
  <2> DEFINE w == [Idle EXCEPT !.pc = "lookup", !.key = k,
                               !.obj = cache[s][k], !.alias = TRUE]
  <2>1. w.pc = "lookup" /\ Becomes(s, w)
    BY <1>4 DEF Idle, TakeEntry
  <2> HIDE DEF w
  <2> QED BY <1>1, <2>1, NoZoneWork
<1>5. ASSUME NEW k \in Object, DropEntry(s, k) PROVE ZoneWork(worker'[s])
  BY <1>5 DEF DropEntry, ZonesAtWork
<1> QED BY <1>2, <1>3, <1>4, <1>5 DEF Take

\* A zone that is served without ever having a parent is the root zone, and gets a
\* condition that is no worse.
LEMMA ServedZoneWork ==
    ASSUME TypeOK, RootsArePristine, ZonesAtWork, NEW s \in Server, ZoneServed(s)
    PROVE  ZoneWork(worker'[s])
<1> DEFINE k == worker[s].key
           c == worker[s].obj
           a == ServedCopy(s)
           st == ZoneStatusOf(a)
           w == Submit(a, st, "all")
<1>1. ReconcilesZone(s) /\ UpdateZone(s, a, "all", "all") /\ AtRoot(s) /\ worker[s].pc = "walk"
  BY DEF ZoneServed, ServedCopy, ReconcilesZone, Busy
<1>2. /\ a \in Copied(k) /\ SameCopy(c, a) /\ a.plain = worker[s].at.plain
      /\ a.err = c.err /\ k \in Zone /\ c # Absent
  BY <1>1, JudgedCopies, ZoneAtWork
<1>3. w.pc = "write" /\ w.key = a.name /\ w.obj = a /\ w.status = st
  BY DEF Submit, Idle
<1>4. a.name = k /\ a.spec = c.spec /\ a.status = c.status /\ a.status \in ZoneStatus
  BY <1>2 DEF Copied, SameCopy, StatusOf
<1>5. ASSUME AlwaysTop(k), SaysSo(a.spec, a.status) PROVE SaysSo(a.spec, st)
  <2>1. k = RootOf[s] /\ c.spec.parent = None
    BY <1>1, <1>2, <1>5 DEF ZonesAtWork, ZoneWork, AtRoot
  <2>2. Pristine(s, c) /\ worker[s].at.plain = c.plain
    BY <1>1, <2>1 DEF RootsArePristine
  <2>3. Pristine(s, a)
    BY <1>2, <1>4, <2>2 DEF Pristine
  <2>4. /\ a.plain => st.server = a.status.server
        /\ ~a.plain => SaysSo(a.spec, st)
    BY <1>2, <1>4, <2>1, <2>3, VerdictSaysSo
  <2> HIDE DEF a, st
  <2> QED BY <1>5, <2>4 DEF SaysSo
<1> HIDE DEF st, a, w
<1>6. ZoneWork(w)
  BY <1>3, <1>4, <1>5 DEF ZoneWork
<1>7. Becomes(s, w) \/ Becomes(s, Follow(a.name, "all"))
  BY <1>1 DEF UpdateZone, w, st
<1>8. worker'[s] = w \/ worker'[s] = Follow(a.name, "all")
  BY <1>7 DEF Becomes, TypeOK, WorkersOK
<1> QED BY <1>6, <1>8, NoZoneWork

\* The worker reconciles.
LEMMA ZonesReconcile ==
    ASSUME TypeOK, RootsArePristine, ZonesAtWork, NEW s \in Server, Reconcile(s)
    PROVE  ZoneWork(worker'[s])
<1> DEFINE k == worker[s].key
<1>1. worker[s] \in Worker /\ WorkerOK(worker[s]) /\ ZoneWork(worker[s])
  BY DEF TypeOK, WorkersOK, ZonesAtWork
<1>2. ASSUME NEW w, Becomes(s, w), ZoneWork(w) PROVE ZoneWork(worker'[s])
  BY <1>2 DEF Becomes, TypeOK, WorkersOK
<1>3. Becomes(s, Idle) => ZoneWork(worker'[s])
  BY <1>2, NoZoneWork
<1>4. ASSUME HasParent(s), worker[s].pc = "walk", k \in Zone PROVE ~AlwaysTop(k)
  BY <1>1, <1>4 DEF ZoneWork, HasParent
<1>5. ASSUME ZoneOrphaned(s) PROVE ZoneWork(worker'[s])
  <2> DEFINE a == OrphanCopy(s)
             w == Submit(a, ZoneStatusOf(a), "entries")
  <2>1. ReconcilesZone(s) /\ HasParent(s) /\ UpdateZone(s, a, "entries", "none")
        /\ worker[s].pc = "walk"
    BY <1>5 DEF ZoneOrphaned, OrphanCopy, ReconcilesZone, Busy
  <2>2. a.name = k /\ k \in Zone
    BY <2>1, JudgedCopies, ZoneAtWork DEF Copied
  <2>3. w.key = a.name
    BY DEF Submit, Idle
  <2>4. Becomes(s, w) \/ Becomes(s, Follow(a.name, "none"))
    BY <2>1 DEF UpdateZone
  <2> HIDE DEF w, a
  <2>5. ZoneWork(w)
    BY <1>4, <2>1, <2>2, <2>3 DEF ZoneWork
  <2> QED BY <1>2, <2>4, <2>5, NoZoneWork
<1>6. ASSUME WalkUp(s) PROVE ZoneWork(worker'[s])
  <2> DEFINE w == [worker[s] EXCEPT !.at = Parent(s),
                                    !.names = AggregateNames(@, Parent(s))]
  <2>1. Becomes(s, w) /\ worker[s].pc = "walk" /\ HasParent(s)
    BY <1>6 DEF WalkUp, Busy
  <2>2. w.key = k
    BY <1>1 DEF Worker
  <2> HIDE DEF w
  <2>3. ZoneWork(w)
    BY <1>4, <2>1, <2>2 DEF ZoneWork
  <2> QED BY <1>2, <2>1, <2>3
<1>7. ASSUME LookupZone(s) PROVE ZoneWork(worker'[s])
  <2> DEFINE w == [worker[s] EXCEPT
                     !.pc = "walk", !.zone = ZoneOfEntry(s), !.at = ZoneOfEntry(s),
                     !.names = AggregateNames(worker[s].obj.spec.names, ZoneOfEntry(s))]
  <2>1. Becomes(s, w) /\ k \in Entry
    BY <1>1, <1>7 DEF LookupZone, Busy, WorkerOK
  <2>2. w.key = k
    BY <1>1 DEF Worker
  <2> HIDE DEF w
  <2> QED BY <1>2, <2>1, <2>2, NoZoneWork
<1>8. ASSUME k \in Entry, worker[s].obj \in Copied(k), NEW root, NEW names, NEW err,
             UpdateEntry(s, root, names, err)
      PROVE  ZoneWork(worker'[s])
  <2> DEFINE w == Submit(worker[s].obj, EntryStatusOf(worker[s].obj, root, names, err), "none")
  <2>1. w.key = k
    BY <1>8 DEF Submit, Idle, Copied
  <2>2. Becomes(s, w) \/ Becomes(s, Idle)
    BY <1>8 DEF UpdateEntry
  <2> HIDE DEF w
  <2> QED BY <1>2, <1>3, <1>8, <2>1, <2>2, NoZoneWork
<1>9. ASSUME ReconcilesEntry(s) \/ ZoneMissing(s)
      PROVE  k \in Entry /\ worker[s].obj \in Copied(k)
  BY <1>1, <1>9 DEF ReconcilesEntry, ZoneMissing, Busy, WorkerOK
<1>10. ASSUME ZoneMissing(s) PROVE ZoneWork(worker'[s])
  <2>1. UpdateEntry(s, None, {}, NoRootZone)
    BY <1>10 DEF ZoneMissing
  <2> QED BY <1>8, <1>9, <1>10, <2>1
<1>11. ASSUME EntryServed(s) PROVE ZoneWork(worker'[s])
  <2>1. ReconcilesEntry(s) /\ \E root, err : UpdateEntry(s, root, worker[s].names, err)
    BY <1>11 DEF EntryServed
  <2> QED BY <1>8, <1>9, <2>1
<1>12. ASSUME EntryOrphaned(s) \/ EntryForeign(s) PROVE ZoneWork(worker'[s])
  <2>1. /\ ReconcilesEntry(s)
        /\ Becomes(s, Idle) \/ \E err : UpdateEntry(s, None, {}, err)
    BY <1>12 DEF EntryOrphaned, EntryForeign
  <2> QED BY <1>3, <1>8, <1>9, <2>1
<1>13. ASSUME TriggerEntries(s) PROVE ZoneWork(worker'[s])
  <2> DEFINE w == [worker[s] EXCEPT !.pc = "nested"]
  <2>1. w.pc = "nested"
    BY <1>1 DEF Worker
  <2>2. Becomes(s, w) \/ Becomes(s, Idle)
    BY <1>13 DEF TriggerEntries
  <2> HIDE DEF w
  <2> QED BY <1>2, <1>3, <2>1, <2>2, NoZoneWork
<1>14. ASSUME ZoneIgnored(s) \/ TriggerNested(s) PROVE ZoneWork(worker'[s])
  BY <1>3, <1>14 DEF ZoneIgnored, TriggerNested
<1> QED BY <1>5, <1>6, <1>7, <1>10, <1>11, <1>12, <1>13, <1>14, ServedZoneWork DEF Reconcile

\* Initially no worker works.
LEMMA ZonesInit == Init => ZonesAtWork
BY NoZoneWork DEF Init, ZonesAtWork

\* Every step keeps the work on zones in order.
LEMMA ZonesNext ==
    ASSUME TypeOK, Declared, RootsArePristine, ZonesAtWork, [Next]_vars
    PROVE  ZonesAtWork'
<1> SUFFICES ASSUME NEW s \in Server PROVE ZoneWork(worker'[s])
  BY ZonesThen
<1>1. ASSUME worker'[s] = worker[s] PROVE ZoneWork(worker'[s])
  BY <1>1 DEF ZonesAtWork
<1>2. Die(s) => ZoneWork(worker'[s])
  BY NoZoneWork DEF Die, TypeOK, WorkersOK
<1>3. CASE UNCHANGED vars \/ Environment
  BY <1>1, <1>2, <1>3, EnvironmentRests DEF vars, Untouched
<1>4. ASSUME NEW t \in Server, t # s, Deliver(t) \/ Work(t) \/ Expire(t)
      PROVE  ZoneWork(worker'[s])
  BY <1>1, <1>4, OthersRest DEF Untouched
<1>5. CASE Deliver(s)
  <2>1. ASSUME NEW o \in Object, NEW c, Replace(s, o, c) PROVE ZoneWork(worker'[s])
    <3>1. worker'[s] = [worker[s] EXCEPT !.alias = @ /\ worker[s].key # o]
          /\ worker[s] \in Worker
      BY <2>1 DEF Replace, TypeOK, WorkersOK
    <3>2. /\ worker'[s].pc = worker[s].pc /\ worker'[s].key = worker[s].key
          /\ worker'[s].obj = worker[s].obj /\ worker'[s].at = worker[s].at
          /\ worker'[s].status = worker[s].status
      BY <3>1 DEF Worker
    <3> QED BY <3>2 DEF ZonesAtWork, ZoneWork
  <2>2. ASSUME NEW o \in Object, DeliverUpdate(s, o) PROVE ZoneWork(worker'[s])
    <3>1. Replace(s, o, Copy(s, Event(s, o)))
      BY <2>2 DEF DeliverUpdate
    <3> QED BY <2>1, <3>1
  <2> QED BY <1>2, <1>5, <2>1, <2>2 DEF Deliver, DeliverAdd, DeliverDelete, UpdatePanics,
                                        DeletePanics
<1>6. CASE Work(s) \/ Expire(s)
  <2>1. ASSUME NEW w, Becomes(s, w), ZoneWork(w) PROVE ZoneWork(worker'[s])
    BY <2>1 DEF Becomes, TypeOK, WorkersOK
  <2>2. Answer(s) \/ Fault(s) =>
          Becomes(s, Idle) \/ Becomes(s, Follow(worker[s].key, worker[s].after))
    BY DEF Answer, Fault, WriteAccepted, WriteRejected, WriteFails, WriteUnanswered, Retry
  <2>3. Expire(s) => UNCHANGED worker
    BY DEF Expire, Requeue
  <2> QED BY <1>1, <1>6, <2>1, <2>2, <2>3, NoZoneWork, ZonesTake, ZonesReconcile DEF Work
<1> QED BY <1>3, <1>4, <1>5, <1>6 DEF Next

-----------------------------------------------------------------------------
(* Sequences of events. *)

\* What is pending is a sequence of things that can be sent.
LEMMA PendingIsSeq ==
    ASSUME TypeOK, NEW s \in Server, NEW o \in Object
    PROVE  /\ pending[s][o] \in Seq(Sent(o)) /\ Len(pending[s][o]) \in Nat
           /\ pending[s][o] # <<>> =>
                /\ Len(pending[s][o]) > 0
                /\ Event(s, o) = pending[s][o][1] /\ Event(s, o) \in Sent(o)
                /\ Last(pending[s][o]) \in Sent(o)
<1>1. pending[s][o] \in Seq(Sent(o))
  BY DEF TypeOK, PendingOK
<1>2. Len(pending[s][o]) \in Nat
  BY <1>1, LenProperties
<1>3. pending[s][o] # <<>> => Len(pending[s][o]) > 0
  BY <1>1, EmptySeq
<1>4. ASSUME pending[s][o] # <<>>
      PROVE  /\ Event(s, o) = pending[s][o][1] /\ Event(s, o) \in Sent(o)
             /\ Last(pending[s][o]) \in Sent(o)
  <2>1. Head(pending[s][o]) = pending[s][o][1]
    BY <1>1, <1>4, HeadTailProperties
  <2>2. 1 \in 1 .. Len(pending[s][o]) /\ Len(pending[s][o]) \in 1 .. Len(pending[s][o])
    BY <1>2, <1>3, <1>4
  <2>3. \A i \in 1 .. Len(pending[s][o]) : pending[s][o][i] \in Sent(o)
    BY <1>1, ElementOfSeq
  <2> QED BY <2>1, <2>2, <2>3 DEF Event, Last
<1> QED BY <1>1, <1>2, <1>3, <1>4

\* The last element stays the last one when the first one is delivered.
LEMMA LastOfTail ==
    ASSUME NEW S, NEW q \in Seq(S), q # <<>>
    PROVE  /\ Tail(q) = <<>> => Last(q) = Head(q)
           /\ Tail(q) # <<>> => Last(Tail(q)) = Last(q)
<1>1. Len(q) \in Nat /\ Len(q) > 0
  BY LenProperties, EmptySeq
<1>2. /\ Head(q) = q[1] /\ Tail(q) \in Seq(S) /\ Len(Tail(q)) = Len(q) - 1
      /\ \A i \in 1 .. Len(Tail(q)) : Tail(q)[i] = q[i + 1]
  BY HeadTailProperties
<1>3. ASSUME Tail(q) = <<>> PROVE Last(q) = Head(q)
  <2>1. Len(q) = 1
    BY <1>1, <1>2, <1>3
  <2> QED BY <1>2, <2>1 DEF Last
<1>4. ASSUME Tail(q) # <<>> PROVE Last(Tail(q)) = Last(q)
  <2>1. Len(q) - 1 > 0
    BY <1>1, <1>2, <1>4, EmptySeq
  <2>2. Len(Tail(q)) \in 1 .. Len(Tail(q)) /\ Len(Tail(q)) + 1 = Len(q)
    BY <1>1, <1>2, <2>1
  <2> QED BY <1>2, <2>2 DEF Last
<1> QED BY <1>3, <1>4

\* What is announced is the last element.
LEMMA LastOfAppend ==
    ASSUME NEW S, NEW q \in Seq(S), NEW v
    PROVE  Append(q, v) # <<>> /\ Last(Append(q, v)) = v
<1>1. q \in Seq(S \cup {v}) /\ v \in S \cup {v}
  <2>1. \A i \in 1 .. Len(q) : q[i] \in S
    BY ElementOfSeq
  <2> QED BY <2>1, SeqDef
<1>2. Len(Append(q, v)) = Len(q) + 1 /\ Append(q, v)[Len(q) + 1] = v
  BY <1>1, AppendProperties
<1>3. Len(q) \in Nat
  BY LenProperties
<1>4. Append(q, v) # <<>>
  BY <1>2, <1>3
<1> QED BY <1>2, <1>4 DEF Last

\* A sequence with one more element.
LEMMA Appended ==
    ASSUME NEW S, NEW q \in Seq(S), NEW v
    PROVE  /\ Len(Append(q, v)) = Len(q) + 1 /\ Append(q, v)[Len(q) + 1] = v
           /\ \A i \in 1 .. Len(q) : Append(q, v)[i] = q[i]
           /\ Head(Append(q, v)) = IF q = <<>> THEN v ELSE Head(q)
<1>1. q \in Seq(S \cup {v}) /\ v \in S \cup {v}
  <2>1. \A i \in 1 .. Len(q) : q[i] \in S
    BY ElementOfSeq
  <2> QED BY <2>1, SeqDef
<1>2. /\ Append(q, v) \in Seq(S \cup {v}) /\ Append(q, v) # <<>>
      /\ Len(Append(q, v)) = Len(q) + 1 /\ Append(q, v)[Len(q) + 1] = v
      /\ \A i \in 1 .. Len(q) : Append(q, v)[i] = q[i]
  BY <1>1, AppendProperties
<1>3. Len(q) \in Nat /\ (q # <<>> => Len(q) > 0) /\ Len(<<>>) = 0
  BY LenProperties, EmptySeq
<1>4. Head(Append(q, v)) = Append(q, v)[1]
  BY <1>2, HeadTailProperties
<1>5. CASE q = <<>>
  BY <1>2, <1>3, <1>4, <1>5
<1>6. CASE q # <<>>
  <2>1. Head(q) = q[1]
    BY <1>6, HeadTailProperties
  <2>2. 1 \in 1 .. Len(q)
    BY <1>3, <1>6
  <2> QED BY <1>2, <1>4, <1>6, <2>1, <2>2
<1> QED BY <1>2, <1>5, <1>6

-----------------------------------------------------------------------------
(* What is declared of objects. *)

\* Initially the objects are those of the beginning.
LEMMA DeclaredInit == Init => Declared
<1> SUFFICES ASSUME Init, NEW s \in Server, NEW o \in Object PROVE Known(s, o)
  BY DEF Declared
<1>1. /\ pending[s][o] = <<>> /\ api[o] = Initial[o]
      /\ cache[s][o] = IF s \in Synced /\ Initial[o] # Absent
                       THEN Copy(s, Initial[o]) ELSE Absent
  BY DEF Init, NoEvents
<1>2. Initial[o] # Absent => /\ Initial[o].spec \in Declarable(o)
                             /\ Copy(s, Initial[o]).spec = Initial[o].spec
  BY EnvironmentIsTyped, CopyTyped DEF Declarable
<1>3. \A i \in 1 .. Len(<<>>) : FALSE
  BY EmptySeq
<1> QED BY <1>1, <1>2, <1>3 DEF Known

\* Every step leaves only what users declared.
LEMMA DeclaredNext ==
    ASSUME TypeOK, CopiesAreVersions, StatusesInFlight, AliasIsCached, EntriesAtWork,
           ZonesAtWork,
           Declared, [Next]_vars
    PROVE  Declared'
<1> SUFFICES ASSUME NEW s \in Server, NEW o \in Object
             PROVE  /\ api'[o] # Absent => api'[o].spec \in Declarable(o)
                    /\ cache'[s][o] # Absent => cache'[s][o].spec \in Declarable(o)
                    /\ \A i \in 1 .. Len(pending'[s][o]) :
                         pending'[s][o][i] \notin Gone =>
                           pending'[s][o][i].spec \in Declarable(o)
  BY DEF Declared, Known, Declarable, Gone
<1> DEFINE q == pending[s][o]
           r == pending'[s][o]
           Fits(v) == v \notin Gone => v.spec \in Declarable(o)
<1>1. OneOf(s, o)
  BY EveryStepIsOneOf
<1>2. /\ api[o] # Absent => api[o].spec \in Declarable(o)
      /\ cache[s][o] # Absent => cache[s][o].spec \in Declarable(o)
      /\ \A i \in 1 .. Len(q) : Fits(q[i])
  BY DEF Declared, Known
<1>3. q \in Seq(Sent(o)) /\ Len(q) \in Nat
  BY PendingIsSeq
<1>4. \A v : /\ \A i \in 1 .. Len(<<>>) : Fits(<<>>[i])
             /\ Fits(v) => \A i \in 1 .. Len(<<v>>) : Fits(<<v>>[i])
  BY EmptySeq
<1>5. \A i \in 1 .. Len(Listed[o]) : Fits(Listed[o][i])
  <2>1. Listed[o] = IF api[o] = Absent THEN <<>> ELSE <<api[o]>>
    BY DEF Listed
  <2> HIDE DEF Fits
  <2>2. api[o] # Absent => Fits(api[o])
    BY <1>2 DEF Fits
  <2> QED BY <1>4, <2>1, <2>2
<1>6. CASE Rests(s, o)
  BY <1>2, <1>6 DEF Rests, SameCopy
<1>7. CASE Hears(s, o)
  <2> DEFINE v == api'[o]
  <2>1. /\ cache'[s][o] = cache[s][o]
        /\ v = Absent \/ v.spec \in Specs[o] \/ (api[o] # Absent /\ v.spec = api[o].spec)
        /\ r = IF up[s] THEN Append(q, v) ELSE q
    BY <1>7 DEF Hears, NextVersion
  <2>2. v # Absent => v.spec \in Declarable(o)
    BY <1>2, <2>1 DEF Declarable
  <2>3. Fits(v)
    BY <2>2 DEF Gone
  <2> HIDE DEF v, q, r, Fits
  <2>4. \A i \in 1 .. Len(r) : Fits(r[i])
    <3>1. CASE r = q
      BY <1>2, <3>1
    <3>2. CASE r = Append(q, v)
      <4>1. /\ Len(r) = Len(q) + 1 /\ r[Len(q) + 1] = v
            /\ \A i \in 1 .. Len(q) : r[i] = q[i]
        BY <1>3, <3>2, Appended
      <4>2. \A i \in 1 .. Len(r) : i \in 1 .. Len(q) \/ i = Len(q) + 1
        BY <1>3, <4>1
      <4> QED BY <1>2, <2>3, <4>1, <4>2
    <3> QED BY <2>1, <3>1, <3>2
  <2> QED BY <1>2, <2>1, <2>2, <2>4 DEF v, r, Fits
<1>8. CASE Lists(s, o)
  BY <1>2, <1>5, <1>8 DEF Lists
<1>9. CASE Relists(s, o)
  <2>1. Fits(Missed)
    BY DEF Gone
  <2>2. \A i \in 1 .. Len(<<Missed>>) : Fits(<<Missed>>[i])
    BY <1>4, <2>1
  <2>3. cache'[s][o] = cache[s][o] /\ api'[o] = api[o] /\ r \in {<<Missed>>, Listed[o]}
    BY <1>9 DEF Relists
  <2> QED BY <1>2, <1>5, <2>2, <2>3
<1>10. CASE Ends(s, o)
  BY <1>2, <1>4, <1>10 DEF Ends
<1>11. CASE Renews(s, o)
  <2>1. /\ q # <<>> /\ r = Tail(q) /\ api'[o] = api[o]
        /\ cache'[s][o] = IF Head(q) = Absent THEN Absent ELSE Copy(s, Head(q))
        /\ Head(q) # Missed
    BY <1>11 DEF Renews, Incoming, Event
  <2>2. /\ Head(q) = q[1] /\ Len(r) = Len(q) - 1
        /\ \A i \in 1 .. Len(r) : r[i] = q[i + 1]
    BY <1>3, <2>1, HeadTailProperties
  <2>3. 1 \in 1 .. Len(q) /\ \A i \in 1 .. Len(r) : i + 1 \in 1 .. Len(q)
    BY <1>3, <2>1, <2>2, EmptySeq
  <2>4. Fits(Head(q)) /\ Head(q) \in Sent(o)
    BY <1>2, <2>1, <2>2, <2>3, PendingIsSeq DEF Event
  <2>5. cache'[s][o] # Absent => cache'[s][o].spec \in Declarable(o)
    BY <2>1, <2>4, CopyTyped DEF Sent, Gone
  <2> QED BY <1>2, <2>1, <2>2, <2>3, <2>5
<1> QED BY <1>1, <1>6, <1>7, <1>8, <1>9, <1>10, <1>11 DEF OneOf

-----------------------------------------------------------------------------
(* Caches follow. *)

\* Initially the caches hold the initial objects.
LEMMA FollowInit == Init => DownIsEmpty /\ CachesFollow
<1> SUFFICES ASSUME Init PROVE DownIsEmpty /\ CachesFollow
  OBVIOUS
<1>1. \A s \in Server : up[s] = (s \in Synced)
  BY DEF Init
<1>2. \A s \in Server, o \in Object :
        /\ pending[s][o] = <<>> /\ api[o] = Initial[o]
        /\ cache[s][o] = IF s \in Synced /\ Initial[o] # Absent
                         THEN Copy(s, Initial[o]) ELSE Absent
  BY DEF Init, NoEvents
<1>3. DownIsEmpty
  BY <1>1, <1>2 DEF DownIsEmpty
<1>4. ASSUME NEW s \in Server, NEW o \in Object, up[s] PROVE Tells(Latest(s, o), o)
  <2>1. CASE Initial[o] = Absent
    BY <1>2, <2>1 DEF Latest, Tells, Exists
  <2>2. CASE Initial[o] # Absent
    <3>1. Initial[o] \in Stored(o)
      BY <2>2, EnvironmentIsTyped
    <3>2. Copy(s, Initial[o]) \in Copied(o)
          /\ Copy(s, Initial[o]).rv = Initial[o].rv
          /\ Copy(s, Initial[o]).spec = Initial[o].spec
          /\ Copy(s, Initial[o]).status = Initial[o].status
      BY <3>1, CopyTyped
    <3>3. Latest(s, o) = Copy(s, Initial[o])
      BY <1>1, <1>2, <1>4, <2>2 DEF Latest
    <3> QED BY <1>2, <2>2, <3>2, <3>3, NamesAreDistinct DEF Tells, Exists
  <2> QED BY <2>1, <2>2
<1> QED BY <1>3, <1>4 DEF CachesFollow

Versioned == TypeOK /\ CopiesAreVersions /\ VerdictsInFlight /\ StatusesInFlight
             /\ AliasIsCached /\ Declared /\ EntriesAtWork /\ RootsArePristine
             /\ ZonesAtWork
Followed == DownIsEmpty /\ CachesFollow

\* A process that does not run is told nothing, and one that starts has nothing.
LEMMA DownNext ==
    ASSUME Versioned, DownIsEmpty, [Next]_vars
    PROVE  DownIsEmpty'
<1> SUFFICES ASSUME NEW s \in Server, NEW o \in Object, ~up'[s]
             PROVE  cache'[s][o] = Absent
  BY DEF DownIsEmpty
<1>1. OneOf(s, o)
  BY EveryStepIsOneOf DEF Versioned
<1>2. up[s] \in BOOLEAN
  BY DEF Versioned, TypeOK, RestOK
<1> QED BY <1>1, <1>2 DEF OneOf, Rests, SameCopy, Hears, Lists, Relists, Ends, Renews, DownIsEmpty

\* Whatever happens to an object, a process that runs has been told in the end.
LEMMA FollowNext ==
    ASSUME Versioned, Followed, [Next]_vars
    PROVE  Followed'
<1> SUFFICES ASSUME NEW s \in Server, NEW o \in Object, up'[s]
             PROVE  Tells(Latest(s, o), o)'
  BY DownNext DEF Followed, CachesFollow
<1> DEFINE q == pending[s][o]
           c == cache[s][o]
<1>1. OneOf(s, o)
  BY EveryStepIsOneOf DEF Versioned
<1>2. /\ q \in Seq(Sent(o)) /\ api[o] \in Stored(o) \cup {Absent}
      /\ c \in Copied(o) \cup {Absent}
      /\ q # <<>> => Event(s, o) \in Sent(o)
      /\ up[s] \in BOOLEAN
  BY PendingIsSeq DEF Versioned, TypeOK, PendingOK, ApiOK, CacheOK, RestOK
<1>3. /\ \A v \in Stored(o) : v \notin {Absent, Missed}
      /\ \A v \in Copied(o) : v \notin {Absent, Missed}
  BY NamesAreDistinct
<1>4. up[s] => IF q = <<>> THEN Tells(c, o) ELSE Tells(Last(q), o)
  BY DEF Followed, CachesFollow, Latest
<1>5. CASE Rests(s, o)
  <2>1. /\ up[s] /\ api'[o] = api[o] /\ pending'[s][o] = q
        /\ SameCopy(c, cache'[s][o])
    BY <1>5 DEF Rests
  <2>2. CASE q = <<>>
    <3>1. Tells(c, o) /\ Latest(s, o)' = cache'[s][o]
      BY <1>4, <2>1, <2>2 DEF Latest
    <3>2. CASE cache'[s][o] = c
      BY <2>1, <3>1, <3>2 DEF Tells, Exists
    <3>3. CASE cache'[s][o] # c
      <4>1. cache'[s][o] # Absent /\ c # Absent
            /\ cache'[s][o].rv = c.rv /\ cache'[s][o].spec = c.spec
            /\ cache'[s][o].status = c.status
        BY <2>1, <3>3 DEF SameCopy
      <4>2. cache'[s][o] \in Copied(o) \cup {Absent}
        BY TypeNext DEF Versioned, TypeOK, CacheOK
      <4> QED BY <1>2, <1>3, <2>1, <3>1, <4>1, <4>2 DEF Tells, Exists
    <3> QED BY <3>2, <3>3
  <2>3. CASE q # <<>>
    BY <1>4, <2>1, <2>3 DEF Latest, Tells, Exists
  <2> QED BY <2>2, <2>3
<1>6. CASE Hears(s, o)
  <2>1. /\ api'[o] = Absent \/ api'[o] \in Stored(o)
        /\ pending'[s][o] = Append(q, api'[o])
    BY <1>6 DEF Hears, NextVersion
  <2>2. pending'[s][o] # <<>> /\ Last(pending'[s][o]) = api'[o]
    BY <1>2, <2>1, LastOfAppend
  <2> QED BY <1>3, <2>1, <2>2 DEF Latest, Tells, Exists
<1>7. CASE Lists(s, o)
  <2>1. c = Absent /\ cache'[s][o] = Absent /\ api'[o] = api[o] /\ pending'[s][o] = Listed[o]
    BY <1>7 DEF Lists, Followed, DownIsEmpty
  <2>2. CASE api[o] = Absent
    BY <2>1, <2>2 DEF Listed, Latest, Tells, Exists
  <2>3. CASE api[o] # Absent
    <3>1. pending'[s][o] = <<api[o]>>
      BY <2>1, <2>3 DEF Listed
    <3> QED BY <1>2, <1>3, <2>1, <2>3, <3>1 DEF Latest, Tells, Exists, Last
  <2> QED BY <2>2, <2>3
<1>8. CASE Relists(s, o)
  <2>1. cache'[s][o] = c /\ api'[o] = api[o]
    BY <1>8 DEF Relists
  <2>2. CASE api[o] = Absent /\ c = Absent
    <3>1. pending'[s][o] = <<>>
      BY <1>8, <2>2 DEF Relists, Listed
    <3> QED BY <2>1, <2>2, <3>1 DEF Latest, Tells, Exists
  <2>3. CASE api[o] = Absent /\ c # Absent
    <3>1. pending'[s][o] = <<Missed>>
      BY <1>8, <2>3 DEF Relists
    <3> QED BY <2>1, <2>3, <3>1 DEF Latest, Tells, Exists, Last
  <2>4. CASE api[o] # Absent
    <3>1. pending'[s][o] = <<api[o]>>
      BY <1>8, <2>4 DEF Relists, Listed
    <3> QED BY <1>2, <1>3, <2>1, <2>4, <3>1 DEF Latest, Tells, Exists, Last
  <2> QED BY <2>2, <2>3, <2>4
<1>9. CASE Renews(s, o)
  <2>1. /\ up[s] /\ q # <<>> /\ api'[o] = api[o] /\ pending'[s][o] = Tail(q)
        /\ Event(s, o) = Head(q) /\ Head(q) # Missed
        /\ cache'[s][o] = IF Head(q) = Absent THEN Absent ELSE Copy(s, Head(q))
    BY <1>9 DEF Renews, Incoming, Event
  <2>2. Tells(Last(q), o)
    BY <1>4, <2>1
  <2>3. CASE Tail(q) = <<>>
    <3>1. Last(q) = Head(q)
      BY <1>2, <2>1, <2>3, LastOfTail
    <3>2. CASE Head(q) = Absent
      BY <2>1, <2>2, <2>3, <3>1, <3>2 DEF Latest, Tells, Exists
    <3>3. CASE Head(q) # Absent
      <4>1. Head(q) \in Stored(o)
        BY <1>2, <2>1, <3>3 DEF Sent
      <4>2. /\ cache'[s][o] \in Copied(o) /\ cache'[s][o].rv = Head(q).rv
            /\ cache'[s][o].spec = Head(q).spec /\ cache'[s][o].status = Head(q).status
        BY <2>1, <3>3, <4>1, CopyTyped
      <4> QED BY <1>3, <2>1, <2>2, <2>3, <3>1, <4>1, <4>2 DEF Latest, Tells, Exists
    <3> QED BY <3>2, <3>3
  <2>4. CASE Tail(q) # <<>>
    <3>1. Last(Tail(q)) = Last(q)
      BY <1>2, <2>1, <2>4, LastOfTail
    <3> QED BY <2>1, <2>2, <2>4, <3>1 DEF Latest, Tells, Exists
  <2> QED BY <2>3, <2>4
<1>10. CASE Ends(s, o)
  BY <1>10 DEF Ends
<1> QED BY <1>1, <1>5, <1>6, <1>7, <1>8, <1>9, <1>10 DEF OneOf

\* The invariants the following theorems rest on hold initially.
LEMMA VersionedInit == Init => Versioned
BY TypeInit, VersionsInit, VerdictsInit, StatusesInit, AliasInit, DeclaredInit, EntriesInit,
   PristineInit, ZonesInit DEF Versioned

\* Every step keeps them.
LEMMA VersionedNext == Versioned /\ [Next]_vars => Versioned'
BY TypeNext, VersionsNext, VerdictsNext, StatusesNext, AliasNext, DeclaredNext, EntriesNext,
   PristineNext, ZonesNext DEF Versioned

\* For any number of servers and objects, whatever users, other servers, broken
\* watches and restarts do: what a running server was last told of an object is
\* what the API server stores, so a copy without pending events is up to date,
\* and every change missed by a copy is on its way to it.
THEOREM CachesAreTold == Spec => []CachesFollow
<1>1. Init => Versioned /\ Followed
  BY VersionedInit, FollowInit DEF Followed
<1>2. (Versioned /\ Followed) /\ [Next]_vars => (Versioned /\ Followed)'
  BY VersionedNext, FollowNext
<1>3. Followed => CachesFollow
  BY DEF Followed
<1> QED BY <1>1, <1>2, <1>3, PTL DEF Spec

-----------------------------------------------------------------------------
(* Events are in order. *)

\* A watch that never broke did not break before.
LEMMA RelistsGrow ==
    ASSUME TypeOK, [Next]_vars, spent'["relists"] = 0
    PROVE  spent["relists"] = 0
<1>1. spent' = spent \/ \E b \in Budget : Spend(b)
  <2>1. \A b : b \in {"ops", "kills", "relists", "faults", "ticks"} => b \in Budget
    BY DEF Budget
  <2>2. Environment => (spent' = spent \/ \E b \in Budget : Spend(b))
    <3>1. Users => \E b \in Budget : Spend(b)
      BY <2>1 DEF Users, Create, Update, Delete
    <3>2. ASSUME NEW o \in Supervised, Supervise(o) PROVE spent' = spent
      BY <3>2 DEF Supervise
    <3>3. Tick => \E b \in Budget : Spend(b)
      BY <2>1 DEF Tick
    <3>4. ASSUME NEW s \in Server, Kill(s) \/ Start(s) \/ Relist(s)
          PROVE  spent' = spent \/ \E b \in Budget : Spend(b)
      BY <2>1, <3>4 DEF Kill, Start, Relist
    <3> QED BY <3>1, <3>2, <3>3, <3>4 DEF Environment
  <2>3. ASSUME NEW s \in Server, Deliver(s) PROVE spent' = spent
    BY <2>3 DEF Deliver, DeliverAdd, DeliverUpdate, DeliverDelete, UpdatePanics, DeletePanics
  <2>4. ASSUME NEW s \in Server, Take(s) \/ Expire(s) PROVE spent' = spent
    BY <2>4 DEF Take, TakeZone, TakeDeletedZone, TakeEntry, DropEntry, Expire, Requeue
  <2>5. ASSUME NEW s \in Server, Reconcile(s) PROVE spent' = spent
    BY <2>5 DEF Reconcile, WalkUp, ZoneServed, ZoneOrphaned, ZoneIgnored, LookupZone,
                ZoneMissing, EntryServed, EntryOrphaned, EntryForeign, TriggerEntries,
                TriggerNested
  <2>6. ASSUME NEW s \in Server, Answer(s) \/ Fault(s)
        PROVE  spent' = spent \/ \E b \in Budget : Spend(b)
    BY <2>1, <2>6 DEF Answer, Fault, WriteAccepted, WriteRejected, WriteFails, WriteUnanswered
  <2> QED BY <2>2, <2>3, <2>4, <2>5, <2>6 DEF Next, Work, vars
<1>2. spent \in [Budget -> Nat] /\ "relists" \in Budget
  BY DEF TypeOK, RestOK, Budget
<1>3. ASSUME NEW b \in Budget, Spend(b) PROVE spent["relists"] = 0
  BY <1>2, <1>3 DEF Spend
<1> QED BY <1>1, <1>3

\* Initially nothing is pending.
LEMMA OrderInit == Init => EventsInOrder
<1> SUFFICES ASSUME Init, NEW s \in Server, NEW o \in Object PROVE InOrder(s, o)
  BY DEF EventsInOrder
<1>1. pending[s][o] = <<>>
  BY DEF Init, NoEvents
<1> QED BY <1>1 DEF InOrder

\* A new version follows the last one the informer was told.
LEMMA NewVersionSucceeds ==
    ASSUME Versioned, Followed, NEW s \in Server, NEW o \in Object, up[s],
           NEW v, v = Absent \/ NextVersion(o, v)
    PROVE  Succeeds(o, Latest(s, o), v)
<1>1. Tells(Latest(s, o), o)
  BY DEF Followed, CachesFollow
<1>2. CASE v = Absent
  BY <1>2 DEF Succeeds, Gone
<1>3. CASE ~Exists(o)
  BY <1>1, <1>3 DEF Tells, Succeeds, Gone
<1>4. CASE NextVersion(o, v) /\ Exists(o)
  <2>1. /\ Latest(s, o).rv = version[o]
        /\ Latest(s, o).spec = api[o].spec /\ Latest(s, o).status = api[o].status
    BY <1>1, <1>4 DEF Tells, Exists, Versioned, CopiesAreVersions, StoreCurrent
  <2>2. v.rv = version[o] + 1 /\ version[o] \in Nat
    BY <1>4 DEF NextVersion, NewVersion, Versioned, TypeOK, ApiOK
  <2>3. Follows(o, api[o], v)
    BY <1>4 DEF NextVersion, Exists
  <2>4. Latest(s, o).rv < v.rv
    BY <2>1, <2>2
  <2> QED BY <2>1, <2>3, <2>4 DEF Succeeds, Follows, Confirms
<1> QED BY <1>2, <1>3, <1>4

\* The events of an object stay in order.
LEMMA OrderNext ==
    ASSUME Versioned, Followed, EventsInOrder, [Next]_vars
    PROVE  EventsInOrder'
<1> SUFFICES ASSUME NEW s \in Server, NEW o \in Object, up'[s], spent'["relists"] = 0
             PROVE  InOrder(s, o)'
  BY DEF EventsInOrder
<1> DEFINE q == pending[s][o]
           c == cache[s][o]
           r == pending'[s][o]
           d == cache'[s][o]
<1>1. OneOf(s, o)
  BY EveryStepIsOneOf DEF Versioned
<1>2. q \in Seq(Sent(o)) /\ Len(q) \in Nat /\ c \in Copied(o) \cup {Absent}
  BY PendingIsSeq DEF Versioned, TypeOK, CacheOK
<1>3. up[s] => InOrder(s, o)
  BY RelistsGrow DEF EventsInOrder, Versioned
<1>4. ASSUME r # <<>> => Succeeds(o, d, Head(r)),
             \A i \in 1 .. Len(r) - 1 : Succeeds(o, r[i], r[i + 1])
      PROVE  InOrder(s, o)'
  BY <1>4 DEF InOrder, Succeeds, Follows, Keeps, Confirms, SaysSo, Affirms, Gone
<1>5. ASSUME r = <<>> \/ Len(r) = 1, r # <<>> => Succeeds(o, d, Head(r))
      PROVE  InOrder(s, o)'
  <2>1. Len(r) \in {0, 1}
    BY <1>5, EmptySeq
  <2>2. \A n \in {0, 1} : \A i \in 1 .. n - 1 : FALSE
    OBVIOUS
  <2>3. \A i \in 1 .. Len(r) - 1 : FALSE
    BY <2>1, <2>2
  <2> QED BY <1>4, <1>5, <2>3
<1>6. CASE Rests(s, o)
  <2>1. up[s] /\ r = q /\ SameCopy(c, d)
    BY <1>6 DEF Rests
  <2>2. \A v : Succeeds(o, c, v) => Succeeds(o, d, v)
    <3>1. c # Absent => c \notin Gone
      BY <1>2, NamesAreDistinct DEF Gone
    <3> QED BY <2>1, <3>1 DEF SameCopy, Succeeds, Follows, Confirms
  <2> QED BY <1>3, <1>4, <2>1, <2>2 DEF InOrder
<1>7. CASE Hears(s, o)
  <2> DEFINE v == api'[o]
  <2>1. up[s] /\ d = c /\ r = Append(q, v) /\ (v = Absent \/ NextVersion(o, v))
    BY <1>7 DEF Hears
  <2> HIDE DEF v, q, c, r, d
  <2>2. /\ Len(r) = Len(q) + 1 /\ r[Len(q) + 1] = v
        /\ \A i \in 1 .. Len(q) : r[i] = q[i]
        /\ Head(r) = IF q = <<>> THEN v ELSE Head(q)
    BY <1>2, <2>1, Appended
  <2>3. Succeeds(o, IF q = <<>> THEN c ELSE Last(q), v)
    <3>1. Succeeds(o, Latest(s, o), v)
      BY <2>1, NewVersionSucceeds
    <3> QED BY <3>1 DEF Latest, q, c
  <2>4. /\ q # <<>> => Succeeds(o, c, Head(q))
        /\ \A i \in 1 .. Len(q) - 1 : Succeeds(o, q[i], q[i + 1])
    BY <1>3, <2>1 DEF InOrder, q, c
  <2>5. Succeeds(o, d, Head(r))
    BY <2>1, <2>2, <2>3, <2>4
  <2>6. ASSUME NEW i \in 1 .. Len(r) - 1 PROVE Succeeds(o, r[i], r[i + 1])
    <3>1. i \in 1 .. Len(q) /\ r[i] = q[i] /\ q # <<>>
      BY <1>2, <2>2, <2>6, EmptySeq
    <3>2. CASE i = Len(q)
      BY <2>2, <2>3, <3>1, <3>2 DEF Last
    <3>3. CASE i # Len(q)
      <4>1. i \in 1 .. Len(q) - 1 /\ i + 1 \in 1 .. Len(q)
        BY <1>2, <3>1, <3>3
      <4> QED BY <2>2, <2>4, <3>1, <4>1
    <3> QED BY <3>2, <3>3
  <2> QED BY <1>4, <2>5, <2>6 DEF r, d
<1>8. CASE Lists(s, o)
  <2>1. d = Absent /\ r = Listed[o]
    BY <1>8 DEF Lists, Followed, DownIsEmpty
  <2>2. r = <<>> \/ Len(r) = 1
    BY <2>1 DEF Listed
  <2> QED BY <1>5, <2>1, <2>2 DEF Succeeds, Gone
<1>9. CASE Relists(s, o)
  BY <1>9 DEF Relists
<1>10. CASE Ends(s, o)
  BY <1>10 DEF Ends
<1>11. CASE Renews(s, o)
  <2>1. /\ up[s] /\ q # <<>> /\ r = Tail(q)
        /\ d = IF Head(q) = Absent THEN Absent ELSE Copy(s, Head(q))
        /\ Head(q) # Missed
    BY <1>11 DEF Renews, Incoming, Event
  <2>2. Head(q) \in Sent(o)
    BY <2>1, PendingIsSeq DEF Versioned, Event
  <2>3. \A v : Succeeds(o, Head(q), v) => Succeeds(o, d, v)
    <3>1. CASE Head(q) = Absent
      BY <2>1, <3>1 DEF Succeeds, Gone
    <3>2. CASE Head(q) # Absent
      <4>1. Head(q) \in Stored(o) /\ Head(q) \notin Gone
        BY <2>1, <2>2, <3>2 DEF Sent, Gone
      <4>2. d.rv = Head(q).rv /\ d.spec = Head(q).spec /\ d.status = Head(q).status
        BY <2>1, <3>2, <4>1, CopyTyped
      <4> QED BY <4>1, <4>2 DEF Succeeds, Follows, Confirms
    <3> QED BY <3>1, <3>2
  <2>4. \A i \in 1 .. Len(q) - 1 : Succeeds(o, q[i], q[i + 1])
    BY <1>3, <2>1 DEF InOrder
  <2> HIDE DEF q, c, r, d
  <2>5. /\ Head(q) = q[1] /\ r \in Seq(Sent(o)) /\ Len(r) = Len(q) - 1
        /\ \A i \in 1 .. Len(r) : r[i] = q[i + 1]
    BY <1>2, <2>1, HeadTailProperties
  <2>6. r # <<>> => Head(r) = r[1] /\ Len(r) > 0
    <3>1. r # <<>> => Len(r) > 0
      BY <2>5, EmptySeq, LenProperties
    <3> QED BY <2>5, <3>1, HeadTailProperties
  <2>7. r # <<>> => Succeeds(o, d, Head(r))
    <3> SUFFICES ASSUME r # <<>> PROVE Succeeds(o, d, Head(r))
      OBVIOUS
    <3>1. 1 \in 1 .. Len(r) /\ 1 \in 1 .. Len(q) - 1
      BY <1>2, <2>5, <2>6
    <3> QED BY <2>3, <2>4, <2>5, <2>6, <3>1
  <2>8. ASSUME NEW i \in 1 .. Len(r) - 1 PROVE Succeeds(o, r[i], r[i + 1])
    <3>1. i \in 1 .. Len(r) /\ i + 1 \in 1 .. Len(r) /\ i + 1 \in 1 .. Len(q) - 1
      BY <1>2, <2>5, <2>8
    <3> QED BY <2>4, <2>5, <3>1
  <2> QED BY <1>4, <2>7, <2>8 DEF r, d
<1> QED BY <1>1, <1>6, <1>7, <1>8, <1>9, <1>10, <1>11 DEF OneOf

-----------------------------------------------------------------------------
(* What cannot be left as it is is attended to. *)

\* The invariants of the next state, said of the values a step leaves.
LEMMA HearsThen ==
    ASSUME NEW s \in Server, NEW o \in Object,
           \/ cache'[s][o] = Absent
           \/ Right(s, o, cache'[s][o])
           \/ \E i \in 1 .. Len(pending'[s][o]) :
                pending'[s][o][i] \in Gone \/ Right(s, o, pending'[s][o][i])
    PROVE  HearsRight(s, o)'
BY DEF HearsRight, Right, EntryIsRight, EntryError, BadEntry, LeadsHome, LeadsAway,
       ZoneIsRight, SaysSo, Affirms, AlwaysTop, AlwaysNested, Declarable, Gone

\* The same for the worker.
LEMMA AttendsThen ==
    ASSUME NEW s \in Server, NEW o \in Object,
           \/ o \in queue'[s] \cup delayed'[s]
           \/ HearsRight(s, o)'
           \/ /\ worker'[s].pc \in FindsOut /\ worker'[s].key = o
              /\ Right(s, o, worker'[s].obj) => Right(s, o, cache'[s][o])
           \/ /\ worker'[s].pc = "write" /\ worker'[s].key = o
              /\ Right(s, o, [worker'[s].obj EXCEPT !.status = worker'[s].status])
    PROVE  Attends(s, o)'
<1>1. CASE \/ o \in queue'[s] \cup delayed'[s]
           \/ HearsRight(s, o)'
  BY <1>1 DEF Attends
<1>2. CASE /\ worker'[s].pc \in FindsOut /\ worker'[s].key = o
           /\ Right(s, o, worker'[s].obj) => Right(s, o, cache'[s][o])
  BY <1>2 DEF Attends, Right, EntryIsRight, EntryError, BadEntry, LeadsHome, LeadsAway,
              ZoneIsRight, SaysSo, Affirms, AlwaysTop, AlwaysNested, Declarable,
              FindsOut
<1>3. CASE /\ worker'[s].pc = "write" /\ worker'[s].key = o
           /\ Right(s, o, [worker'[s].obj EXCEPT !.status = worker'[s].status])
  BY <1>3 DEF Attends, Right, EntryIsRight, EntryError, BadEntry, LeadsHome, LeadsAway,
              ZoneIsRight, SaysSo, Affirms, AlwaysTop, AlwaysNested, Declarable
<1> QED BY <1>1, <1>2, <1>3

\* What makes a copy right is part of the version.
LEMMA RightCopies ==
    ASSUME NEW s, NEW o, NEW a, NEW b, SameCopy(a, b)
    PROVE  /\ a = Absent <=> b = Absent
           /\ Right(s, o, a) <=> Right(s, o, b)
BY DEF SameCopy, Right

\* A copy that is right, or missing, stays so.
NoWorse(s, o) ==
    IF cache[s][o] = Absent THEN cache'[s][o] = Absent
    ELSE Right(s, o, cache[s][o]) => Right(s, o, cache'[s][o])

\* A server that hears what it needs still does when its copy is no worse.
LEMMA HearsKept ==
    ASSUME Versioned, NEW s \in Server, NEW o \in Object, up[s], up'[s],
           spent'["relists"] = 0, OneOf(s, o), HearsRight(s, o),
           NoWorse(s, o)
    PROVE  HearsRight(s, o)'
<1> DEFINE q == pending[s][o]
           r == pending'[s][o]
<1>1. q \in Seq(Sent(o)) /\ Len(q) \in Nat
  BY PendingIsSeq DEF Versioned
<1>2. CASE cache[s][o] = Absent \/ Right(s, o, cache[s][o])
  BY <1>2, HearsThen DEF NoWorse
<1>3. ASSUME NEW i \in 1 .. Len(q), q[i] \in Gone \/ Right(s, o, q[i])
      PROVE  HearsRight(s, o)'
  <2>1. CASE Rests(s, o)
    BY <1>3, <2>1, HearsThen DEF Rests
  <2>2. CASE Hears(s, o)
    <3>1. r = Append(q, api'[o])
      BY <2>2 DEF Hears
    <3>2. Len(r) = Len(q) + 1 /\ r[i] = q[i]
      BY <1>1, <1>3, <3>1, Appended
    <3>3. i \in 1 .. Len(r)
      BY <1>1, <1>3, <3>2
    <3> QED BY <1>3, <3>2, <3>3, HearsThen
  <2>3. CASE Renews(s, o)
    <3>1. /\ q # <<>> /\ r = Tail(q) /\ Head(q) # Missed
          /\ cache'[s][o] = IF Head(q) = Absent THEN Absent ELSE Copy(s, Head(q))
      BY <2>3 DEF Renews, Incoming, Event
    <3>2. CASE i = 1
      <4>1. Head(q) = q[i] /\ Head(q) \in Sent(o)
        BY <1>1, <3>1, <3>2, PendingIsSeq DEF Event, Versioned
      <4>2. CASE Head(q) = Absent
        BY <3>1, <4>2, HearsThen
      <4>3. CASE Head(q) # Absent
        <5>1. Head(q) \in Stored(o) /\ Right(s, o, Head(q))
          BY <1>3, <3>1, <4>1, <4>3 DEF Sent, Gone
        <5>2. /\ cache'[s][o].spec = Head(q).spec
              /\ cache'[s][o].status = Head(q).status
          BY <3>1, <4>3, <5>1, CopyTyped
        <5>3. Right(s, o, cache'[s][o])
          BY <5>1, <5>2 DEF Right
        <5> QED BY <5>3, HearsThen
      <4> QED BY <4>2, <4>3
    <3>3. CASE i # 1
      <4>1. Len(r) = Len(q) - 1 /\ \A j \in 1 .. Len(r) : r[j] = q[j + 1]
        BY <1>1, <3>1, HeadTailProperties
      <4>2. i - 1 \in 1 .. Len(r)
        BY <1>1, <1>3, <3>3, <4>1
      <4>3. r[i - 1] = q[i]
        BY <1>3, <4>1, <4>2
      <4> QED BY <1>3, <4>2, <4>3, HearsThen
    <3> QED BY <3>2, <3>3
  <2>4. CASE Lists(s, o) \/ Relists(s, o) \/ Ends(s, o)
    BY <2>4 DEF Lists, Relists, Ends
  <2> QED BY <2>1, <2>2, <2>3, <2>4 DEF OneOf
<1> QED BY <1>2, <1>3 DEF HearsRight

\* The worker is at the object, and stays at what it does.
Waits(s, o) ==
    LET w == worker[s]
    IN  w.key = o /\ w.pc \in FindsOut \cup {"write"}
SameWork(s) ==
    /\ worker'[s].pc = worker[s].pc /\ worker'[s].key = worker[s].key
    /\ worker'[s].obj = worker[s].obj /\ worker'[s].status = worker[s].status

\* A step that does not take the worker away leaves the object attended to.
LEMMA AttendsKept ==
    ASSUME Versioned, NEW s \in Server, NEW o \in Object, up[s], up'[s],
           spent'["relists"] = 0, OneOf(s, o), Attends(s, o),
           NoWorse(s, o),
           o \in queue[s] \cup delayed[s] => o \in queue'[s] \cup delayed'[s],
           ~Waits(s, o) \/ SameWork(s)
    PROVE  Attends(s, o)'
<1>1. CASE o \in queue[s] \cup delayed[s]
  BY <1>1, AttendsThen
<1>2. CASE HearsRight(s, o)
  BY <1>2, HearsKept, AttendsThen
<1>3. CASE o \notin queue[s] \cup delayed[s] /\ ~HearsRight(s, o)
  <2>1. SameWork(s)
    BY <1>3 DEF Attends, Waits
  <2>2. cache[s][o] # Absent
    BY <1>3 DEF HearsRight
  <2>3. \/ /\ worker[s].pc \in FindsOut /\ worker[s].key = o
           /\ Right(s, o, worker[s].obj) => Right(s, o, cache[s][o])
        \/ /\ worker[s].pc = "write" /\ worker[s].key = o
           /\ Right(s, o, [worker[s].obj EXCEPT !.status = worker[s].status])
    BY <1>3 DEF Attends
  <2> QED BY <2>1, <2>2, <2>3, AttendsThen DEF SameWork, NoWorse
<1> QED BY <1>1, <1>2, <1>3

\* The same copy, or none, is no worse.
LEMMA SameIsNoWorse ==
    ASSUME NEW s \in Server, NEW o \in Object, SameCopy(cache[s][o], cache'[s][o])
    PROVE  NoWorse(s, o)
BY RightCopies DEF NoWorse

\* Initially the keys of all objects are queued.
LEMMA AttendsInit == Init => AllAttended
<1> SUFFICES ASSUME Init, NEW s \in Server, NEW o \in Object, up[s] PROVE Attends(s, o)
  BY DEF AllAttended
<1>1. s \in Synced
  BY DEF Init
<1>2. CASE Initial[o] # Absent
  BY <1>1, <1>2 DEF Init, Attends
<1>3. CASE Initial[o] = Absent
  <2>1. cache[s][o] = Absent
    BY <1>1, <1>3 DEF Init
  <2> QED BY <2>1 DEF Attends, HearsRight
<1> QED BY <1>2, <1>3

\* A version with the same declaration that may follow a right one is right: the
\* mark of an aaS controller stays, a condition is not taken back, and a state that
\* is the same before and after the mark is Invalid.
LEMMA FollowerIsRight ==
    ASSUME NEW s \in Server, NEW o \in Object, NEW a, NEW b, Minds(s, o),
           Follows(o, a, b), Right(s, o, a),
           o \in Zone => a.spec.mail = b.spec.mail /\ a.status.state = b.status.state,
           o \in Entry => a.spec = b.spec
    PROVE  Right(s, o, b)
<1>1. CASE o \in Zone
  <2>1. /\ Confirms(o, a, b) /\ (a.status.managed => b.status.managed)
        /\ ZoneIsRight(s, o, a.spec, a.status)
    BY <1>1 DEF Follows, Right
  <2>2. CASE s \in Slave \/ a.status.managed
    <3>1. AlwaysTop(o) => SaysSo(b.spec, b.status)
      BY <1>1, <2>1, <2>2 DEF ZoneIsRight, Confirms
    <3> QED BY <1>1, <2>1, <2>2, <3>1 DEF Right, ZoneIsRight
  <2>3. CASE s \notin Slave /\ ~a.status.managed /\ ~b.status.managed
    BY <1>1, <2>1, <2>3 DEF Right, ZoneIsRight
  <2>4. CASE s \notin Slave /\ ~a.status.managed /\ b.status.managed
    <3>1. b.status.state = (IF Affirms(b.status.server) THEN "Ready" ELSE "Invalid")
      BY <2>1, <2>4 DEF Confirms
    <3>2. b.status.state = (IF b.spec.mail THEN "Ok" ELSE "Invalid")
      BY <1>1, <2>1, <2>4 DEF ZoneIsRight
    <3>3. ~Affirms(b.status.server) /\ ~b.spec.mail
      BY <3>1, <3>2
    <3>4. SaysSo(b.spec, b.status)
      BY <3>3 DEF SaysSo
    <3> QED BY <1>1, <2>4, <3>4 DEF Right, ZoneIsRight
  <2> QED BY <2>2, <2>3, <2>4
<1>2. CASE o \notin Zone /\ a.status.managed
  BY <1>2 DEF Follows, Right
<1>3. CASE o \notin Zone /\ ~a.status.managed
  <2>1. /\ o \in Entry /\ a.spec = b.spec
        /\ EntryIsRight(s, a.spec, a.status) /\ Keeps(a.spec, a.status, b.status)
    BY <1>3 DEF Follows, Right, Object
  <2>2. RootOf[s] # None
    BY NamesAreDistinct, ServersAreConfigured DEF Object
  <2>3. LeadsAway(s, b.spec.zone) => b.status.root # RootOf[s]
    BY <2>1, <2>2 DEF LeadsAway, Keeps, EntryIsRight
  <2>4. ~b.status.managed => EntryIsRight(s, b.spec, b.status)
    BY <2>1, <2>3 DEF Keeps, EntryIsRight
  <2> QED BY <1>3, <2>4 DEF Right
<1> QED BY <1>1, <1>2, <1>3

\* An update that the handler takes for no change is none: the version the
\* informer holds was reported as right if the new one is, because the state and
\* the mail address of a zone are compared, and what its users change of an entry.
LEMMA UnnoticedIsNoWorse ==
    ASSUME Versioned, EventsInOrder, spent["relists"] = 0,
           NEW s \in Server, NEW o \in Object, Minds(s, o), DeliverUpdate(s, o),
           ~Differ(cache[s][o], Copy(s, Event(s, o)))
    PROVE  NoWorse(s, o)
<1> DEFINE c == cache[s][o]
           v == Event(s, o)
           d == Copy(s, v)
<1>1. /\ up[s] /\ pending[s][o] # <<>>
      /\ v \notin Gone /\ v = Head(pending[s][o]) /\ c # Absent
      /\ cache'[s][o] = d
  BY DEF DeliverUpdate, Incoming, Event, Gone, Replace, Versioned, TypeOK, CacheOK
<1>2. /\ v \in Stored(o) /\ c \in Copied(o) /\ c \notin Gone
      /\ v.spec \in Declarable(o) /\ c.spec \in Declarable(o)
  <2>1. v \in Sent(o) /\ v = pending[s][o][1] /\ 1 \in 1 .. Len(pending[s][o])
    BY <1>1, PendingIsSeq DEF Versioned
  <2>2. v.spec \in Declarable(o) /\ c.spec \in Declarable(o)
    BY <1>1, <2>1 DEF Versioned, Declared, Known
  <2> QED BY <1>1, <2>1, <2>2, NamesAreDistinct DEF Sent, Gone, Versioned, TypeOK, CacheOK
<1>3. c.rv < v.rv /\ Follows(o, c, v)
  BY <1>1, <1>2 DEF EventsInOrder, InOrder, Succeeds
<1>4. d.rv = v.rv /\ d.spec = v.spec /\ d.status = v.status /\ d.name = o
  BY <1>1, <1>2, CopyTyped DEF Copied
<1>5. c.rv # d.rv
  BY <1>2, <1>3, <1>4 DEF Stored, Copied
<1>6. IF o \in Zone THEN ZoneEqual(c, d) ELSE EntryEqual(c, d)
  BY <1>4, <1>5 DEF Differ
<1> HIDE DEF d, v, c
<1>7. Follows(o, c, d)
  BY <1>3, <1>4 DEF Follows, Confirms
<1>8. o \in Zone => c.spec.mail = d.spec.mail /\ c.status.state = d.status.state
  BY <1>6 DEF ZoneEqual
<1>9. ASSUME o \in Entry PROVE c.spec = d.spec
  <2> DEFINE x == [spec |-> c.spec]
             y == [spec |-> d.spec]
  <2>1. o \notin Zone /\ Showing(o)
    BY <1>9, NamesAreDistinct, ServersAreConfigured DEF Minds
  <2>2. EntryEqual(x, y)
    BY <1>6, <2>1 DEF EntryEqual
  <2> HIDE DEF x, y
  <2> QED BY <1>2, <1>4, <2>1, <2>2 DEF Showing, x, y
<1>10. Right(s, o, c) => Right(s, o, d)
  BY <1>7, <1>8, <1>9, FollowerIsRight
<1> QED BY <1>1, <1>10 DEF NoWorse, c

\* The informer of a server: what it does not enqueue is no worse.
LEMMA AttendsDeliver ==
    ASSUME Versioned, EventsInOrder, NEW s \in Server, NEW o \in Object, Minds(s, o),
           up'[s], spent["relists"] = 0, spent'["relists"] = 0, OneOf(s, o),
           Attends(s, o), Deliver(s)
    PROVE  Attends(s, o)'
<1>1. TypeOK /\ ~\E k \in Object : UpdatePanics(s, k) \/ DeletePanics(s, k)
  BY DEF UpdatePanics, DeletePanics, Die, Versioned, TypeOK, RestOK
<1>2. ASSUME o \in queue'[s] PROVE Attends(s, o)'
  BY <1>2, AttendsThen
<1>3. ASSUME NEW k \in Object, NEW c, Replace(s, k, c)
      PROVE  /\ SameWork(s)
             /\ cache'[s][o] = IF k = o THEN c ELSE cache[s][o]
  <2>1. worker'[s] = [worker[s] EXCEPT !.alias = @ /\ worker[s].key # k]
    BY <1>1, <1>3 DEF Replace, TypeOK, WorkersOK
  <2>2. worker[s] \in Worker
    BY <1>1 DEF TypeOK, WorkersOK
  <2>3. SameWork(s)
    BY <2>1, <2>2 DEF SameWork, Worker
  <2> QED BY <1>1, <1>3, <2>3 DEF Replace, TypeOK, CacheOK
<1>4. ASSUME NEW k \in Object, Notice(s, k)
      PROVE  queue[s] \subseteq queue'[s] /\ k \in queue'[s]
  BY <1>1, <1>4 DEF Notice, TypeOK, RestOK
<1>5. ASSUME up[s], SameWork(s), NoWorse(s, o), queue[s] \subseteq queue'[s], UNCHANGED delayed
      PROVE  Attends(s, o)'
  BY <1>5, AttendsKept
<1>6. ASSUME NEW k \in Object, NEW c, Replace(s, k, c), Notice(s, k), up[s], UNCHANGED delayed
      PROVE  Attends(s, o)'
  <2>1. CASE k = o
    BY <1>2, <1>4, <1>6, <2>1
  <2>2. CASE k # o
    <3>1. NoWorse(s, o) /\ SameWork(s)
      BY <1>3, <1>6, <2>2 DEF NoWorse
    <3> QED BY <1>4, <1>5, <1>6, <3>1
  <2> QED BY <2>1, <2>2
<1>7. ASSUME NEW k \in Object, DeliverAdd(s, k) \/ DeliverDelete(s, k) PROVE Attends(s, o)'
  <2>1. /\ Replace(s, k, Copy(s, Event(s, k))) \/ Replace(s, k, Absent)
        /\ Notice(s, k) /\ up[s] /\ UNCHANGED delayed
    BY <1>7 DEF DeliverAdd, DeliverDelete, Incoming
  <2> QED BY <1>6, <2>1
<1>8. ASSUME NEW k \in Object, DeliverUpdate(s, k) PROVE Attends(s, o)'
  <2>1. /\ Replace(s, k, Copy(s, Event(s, k))) /\ up[s] /\ UNCHANGED delayed
        /\ IF Differ(cache[s][k], Copy(s, Event(s, k)))
           THEN Notice(s, k) ELSE UNCHANGED <<modified, queue>>
    BY <1>8 DEF DeliverUpdate, Incoming
  <2>2. CASE Differ(cache[s][k], Copy(s, Event(s, k)))
    BY <1>6, <2>1, <2>2
  <2>3. CASE ~Differ(cache[s][k], Copy(s, Event(s, k)))
    <3>1. NoWorse(s, o)
      <4>1. CASE k = o
        BY <1>8, <2>3, <4>1, UnnoticedIsNoWorse
      <4>2. CASE k # o
        BY <1>3, <2>1, <4>2 DEF NoWorse
      <4> QED BY <4>1, <4>2
    <3> QED BY <1>3, <1>5, <2>1, <2>3, <3>1
  <2> QED BY <2>2, <2>3
<1> QED BY <1>1, <1>7, <1>8 DEF Deliver

\* The worker takes a key: the copy of the object goes with it.
LEMMA AttendsTake ==
    ASSUME Versioned, NEW s \in Server, NEW o \in Object, up'[s],
           spent'["relists"] = 0, OneOf(s, o), Attends(s, o), Take(s)
    PROVE  Attends(s, o)'
<1>1. /\ UNCHANGED <<up, cache, delayed>> /\ up[s] /\ worker[s].pc = "idle" /\ TypeOK
  BY DEF Take, TakeZone, TakeDeletedZone, TakeEntry, DropEntry, Busy, Versioned
<1>2. NoWorse(s, o) /\ ~Waits(s, o)
  BY <1>1 DEF NoWorse, Waits, FindsOut
<1>3. ASSUME NEW k \in Object, k # o, queue' = [queue EXCEPT ![s] = @ \ {k}]
      PROVE  Attends(s, o)'
  <2>1. queue'[s] = queue[s] \ {k}
    BY <1>1, <1>3 DEF TypeOK, RestOK
  <2> QED BY <1>1, <1>2, <1>3, <2>1, AttendsKept
<1>4. ASSUME NEW w, Becomes(s, w), w.pc \in FindsOut, w.key = o, w.obj = cache[s][o]
      PROVE  Attends(s, o)'
  <2>1. worker'[s] = w
    BY <1>1, <1>4 DEF Becomes, TypeOK, WorkersOK
  <2> QED BY <1>1, <1>4, <2>1, AttendsThen
<1>5. CASE TakeZone(s, o)
  <2> DEFINE w == [Idle EXCEPT !.pc = "walk", !.key = o, !.obj = cache[s][o],
                               !.alias = TRUE, !.at = cache[s][o]]
  <2>1. w.pc \in FindsOut /\ w.key = o /\ w.obj = cache[s][o]
    BY DEF Idle, FindsOut
  <2>2. Becomes(s, w)
    BY <1>5 DEF TakeZone
  <2> HIDE DEF w
  <2> QED BY <1>4, <2>1, <2>2
<1>6. CASE TakeEntry(s, o)
  <2> DEFINE w == [Idle EXCEPT !.pc = "lookup", !.key = o,
                               !.obj = cache[s][o], !.alias = TRUE]
  <2>1. w.pc \in FindsOut /\ w.key = o /\ w.obj = cache[s][o]
    BY DEF Idle, FindsOut
  <2>2. Becomes(s, w)
    BY <1>6 DEF TakeEntry
  <2> HIDE DEF w
  <2> QED BY <1>4, <2>1, <2>2
<1>7. ASSUME cache[s][o] = Absent \/ (o \in Entry /\ cache[s][o].spec.zone = None)
      PROVE  Attends(s, o)'
  <2>1. o \in Entry => o \notin Zone
    BY NamesAreDistinct
  <2>2. None \notin Zone
    BY NamesAreDistinct DEF Object
  <2>3. cache'[s][o] = Absent \/ Right(s, o, cache'[s][o])
    BY <1>1, <1>7, <2>1, <2>2 DEF Right, EntryIsRight, LeadsHome, LeadsAway
  <2> QED BY <2>3, HearsThen, AttendsThen
<1>8. CASE TakeDeletedZone(s, o) \/ DropEntry(s, o)
  BY <1>7, <1>8 DEF TakeDeletedZone, DropEntry
<1> QED BY <1>3, <1>5, <1>6, <1>8 DEF Take, TakeZone, TakeDeletedZone, TakeEntry, DropEntry

\* What a server finds out about a pristine copy of its root zone is right.
LEMMA VerdictIsRight ==
    ASSUME NEW s \in Server, NEW z \in Zone, NEW c \in Copied(z), Pristine(s, c), Minds(s, z),
           AlwaysTop(z) => c.spec.parent = None
    PROVE  Right(s, z, [c EXCEPT !.status = ZoneStatusOf(c)])
<1> DEFINE st == ZoneStatusOf(c)
           d == [c EXCEPT !.status = st]
<1>1. d.status = st /\ d.spec = c.spec
  BY DEF Copied
<1>2. s \in Transitive \/ c.spec.parent = None
  BY NamesAreDistinct DEF Minds
<1>3. /\ st.managed = c.status.managed
      /\ c.plain = (s \notin Slave /\ ~c.status.managed)
      /\ c.plain => st.state = IF c.spec.mail THEN "Ok" ELSE "Invalid"
      /\ ~c.plain => SaysSo(c.spec, st)
  BY <1>2, VerdictSaysSo
<1>4. c.status.managed \in BOOLEAN
  BY DEF Copied, StatusOf, ZoneStatus
<1> HIDE DEF st, d
<1>5. ZoneIsRight(s, z, c.spec, st)
  BY <1>3, <1>4 DEF ZoneIsRight
<1>6. Right(s, z, d)
  BY <1>1, <1>5 DEF Right
<1> QED BY <1>6 DEF d, st

\* A status computed with an error of the copy or of the walk shows the mistakes of
\* an entry below the root zone, and one that leaves the claim out shows the rest.
LEMMA EntryVerdictIsRight ==
    ASSUME NEW s \in Server \ Slave, NEW e \in Entry, NEW c \in Copied(e),
           CopyVerdict(c), PlainCopy(s, c), NEW root, NEW names, NEW err,
           LeadsAway(s, c.spec.zone) => root # RootOf[s]
    PROVE  Right(s, e, [c EXCEPT !.status = EntryStatusOf(c, root, names, err)])
<1> DEFINE st == EntryStatusOf(c, root, names, err)
           d == [c EXCEPT !.status = st]
           why == IF c.err # <<>> THEN c.err ELSE err
<1>1. /\ c.status \in EntryStatus /\ d.status = st /\ d.spec = c.spec
      /\ e \notin Zone /\ (c.plain = ~c.status.managed)
  BY NamesAreDistinct DEF Copied, StatusOf, PlainCopy
<1>2. EntryError(c.spec) # <<>> => why # <<>>
  BY DEF CopyVerdict
<1> HIDE DEF why
<1>3. CASE c.plain
  <2>1. st.root = root /\ (why # <<>> => st.state = "Invalid")
    BY <1>1, <1>3 DEF EntryStatusOf, EntryStatus, why
  <2> HIDE DEF st, d
  <2>2. EntryIsRight(s, d.spec, d.status)
    BY <1>1, <1>2, <2>1 DEF EntryIsRight
  <2>3. Right(s, e, d)
    BY <1>1, <2>2 DEF Right
  <2> QED BY <2>3 DEF d, st
<1>4. CASE ~c.plain
  <2>1. st.managed = c.status.managed
    BY <1>1, <1>4 DEF EntryStatusOf, EntryStatus
  <2>2. c.status.managed
    BY <1>1, <1>4 DEF EntryStatus
  <2> HIDE DEF st, d
  <2>3. Right(s, e, d)
    BY <1>1, <2>1, <2>2 DEF Right
  <2> QED BY <2>3 DEF d, st
<1> QED BY <1>3, <1>4

\* What a worker that found out leaves: a right status to store, or a copy that was
\* right before.
Found(s, o) ==
    \/ /\ worker'[s].pc = "write" /\ worker'[s].key = o
       /\ Right(s, o, [worker'[s].obj EXCEPT !.status = worker'[s].status])
    \/ Right(s, o, worker[s].obj)

\* Such a worker attended to the object, and goes on to do so.
LEMMA FoundAttends ==
    ASSUME Versioned, NEW s \in Server, NEW o \in Object, up[s], up'[s],
           spent'["relists"] = 0, OneOf(s, o), Attends(s, o), NoWorse(s, o),
           o \in queue[s] \cup delayed[s] => o \in queue'[s] \cup delayed'[s],
           worker[s].pc \in FindsOut, worker[s].key = o, Found(s, o)
    PROVE  Attends(s, o)'
<1>1. CASE /\ worker'[s].pc = "write" /\ worker'[s].key = o
           /\ Right(s, o, [worker'[s].obj EXCEPT !.status = worker'[s].status])
  BY <1>1, AttendsThen
<1>2. CASE Right(s, o, worker[s].obj)
  <2>1. o \in queue[s] \cup delayed[s] \/ HearsRight(s, o)
    BY <1>2 DEF Attends, HearsRight, FindsOut
  <2> QED BY <2>1, HearsKept, AttendsThen
<1> QED BY <1>1, <1>2 DEF Found

\* The worker serves its root zone.
LEMMA RootIsFound ==
    ASSUME Versioned, NEW s \in Server, NEW z \in Zone, Minds(s, z),
           SameCopy(cache[s][z], cache'[s][z]), up[s], Waits(s, z), Reconcile(s)
    PROVE  worker[s].pc \in FindsOut /\ Found(s, z)
<1>1. /\ z \in Object /\ z \notin Entry /\ TypeOK
      /\ worker[s] \in Worker /\ WorkerOK(worker[s])
      /\ z = RootOf[s] /\ (s \in Transitive \/ AlwaysTop(z))
  BY NamesAreDistinct DEF Object, Versioned, TypeOK, WorkersOK, Minds
<1>2. worker[s].key = z /\ worker[s].pc \in {"lookup", "walk", "write"}
  BY DEF Waits, FindsOut
<1>3. ZoneServed(s)
  <2>1. worker[s].pc = "walk" => ~HasParent(s) /\ ~AtForeignRoot(s)
    BY <1>1, <1>2, RootIsAtRoot DEF Busy, Versioned
  <2>2. ~WalkUp(s) /\ ~ZoneOrphaned(s) /\ ~ZoneIgnored(s)
    BY <2>1 DEF WalkUp, ZoneOrphaned, ZoneIgnored, ReconcilesZone, Busy
  <2>3. ~EntryServed(s) /\ ~EntryOrphaned(s) /\ ~EntryForeign(s)
    BY <1>1, <1>2 DEF EntryServed, EntryOrphaned, EntryForeign, ReconcilesEntry
  <2>4. ~LookupZone(s) /\ ~ZoneMissing(s) /\ ~TriggerEntries(s) /\ ~TriggerNested(s)
    BY <1>1, <1>2 DEF LookupZone, ZoneMissing, TriggerEntries, TriggerNested, Busy, WorkerOK
  <2> QED BY <2>2, <2>3, <2>4 DEF Reconcile
<1> DEFINE c == worker[s].obj
           a == ServedCopy(s)
           st == ZoneStatusOf(a)
<1>4. /\ ReconcilesZone(s) /\ Busy(s, "walk") /\ UpdateZone(s, a, "all", "all")
  BY <1>3 DEF ZoneServed, ServedCopy, ReconcilesZone
<1>5. /\ a \in Copied(z) /\ SameCopy(c, a)
      /\ a.plain = worker[s].at.plain /\ a.err = c.err
  BY <1>1, <1>2, <1>4, JudgedCopies
<1>6. Pristine(s, c) /\ worker[s].at.plain = c.plain
  BY <1>1, <1>2, <1>4 DEF Versioned, RootsArePristine, Busy
<1>7. Pristine(s, a)
  BY <1>5, <1>6 DEF Pristine, SameCopy
<1>8. Right(s, z, [a EXCEPT !.status = st])
  <2>1. AlwaysTop(z) => c.spec.parent = None
    BY <1>2, <1>4 DEF Versioned, ZonesAtWork, ZoneWork, Busy
  <2>2. AlwaysTop(z) => a.spec.parent = None
    BY <1>5, <2>1 DEF SameCopy
  <2> HIDE DEF a, c
  <2> QED BY <1>5, <1>7, <2>2, VerdictIsRight
<1>9. CASE ZoneStatusModified(a)
  <2> DEFINE w == Submit(a, st, "all")
  <2>1. w.pc = "write" /\ w.key = a.name /\ w.obj = a /\ w.status = st
    BY DEF Submit, Idle
  <2>2. Becomes(s, w)
    BY <1>4, <1>9 DEF UpdateZone
  <2>3. a.name = z
    BY <1>5 DEF Copied
  <2> HIDE DEF w, a, st
  <2>4. worker'[s] = w
    BY <1>1, <2>2 DEF Becomes, TypeOK, WorkersOK
  <2> QED BY <1>4, <1>8, <2>1, <2>3, <2>4 DEF Found, FindsOut, Busy
<1>10. CASE ~ZoneStatusModified(a)
  <2>1. st = a.status
    BY <1>10 DEF ZoneStatusModified
  <2>2. [a EXCEPT !.status = st] = a
    BY <1>5, <2>1 DEF Copied
  <2> HIDE DEF a, st
  <2>3. Right(s, z, a)
    BY <1>8, <2>2
  <2>4. Right(s, z, c)
    BY <1>5, <2>3, RightCopies
  <2> QED BY <1>4, <2>4 DEF Found, FindsOut, Busy
<1> QED BY <1>9, <1>10

\* A decision on an entry that leaves the claim out of a root zone of its own right.
LEMMA DecisionIsFound ==
    ASSUME Versioned, NEW s \in Server \ Slave, NEW e \in Entry, worker[s].key = e,
           worker[s].obj \in Copied(e), NEW root, NEW names, NEW err,
           UpdateEntry(s, root, names, err),
           LeadsAway(s, worker[s].obj.spec.zone) => root # RootOf[s]
    PROVE  Found(s, e)
<1> DEFINE c == worker[s].obj
           st == EntryStatusOf(c, root, names, err)
           w == Submit(c, st, "none")
<1>1. c # Absent /\ CopyVerdict(c) /\ PlainCopy(s, c) /\ c.name = e /\ e \notin Zone
  BY NamesAreDistinct DEF Object, Versioned, VerdictsInFlight, WorkerVerdict, EntriesAtWork,
                          EntryWork, Copied
<1>2. Right(s, e, [c EXCEPT !.status = st])
  BY <1>1, EntryVerdictIsRight
<1>3. CASE EntryStatusModified(c, root, names, err)
  <2>1. w.pc = "write" /\ w.key = c.name /\ w.obj = c /\ w.status = st
    BY DEF Submit, Idle
  <2>2. Becomes(s, w)
    BY <1>3 DEF UpdateEntry
  <2> HIDE DEF w, c, st
  <2>3. worker'[s] = w
    BY <2>2 DEF Becomes, Versioned, TypeOK, WorkersOK
  <2> QED BY <1>1, <1>2, <2>1, <2>3 DEF Found
<1>4. CASE ~EntryStatusModified(c, root, names, err) /\ c.plain
  <2>1. st = c.status
    BY <1>4 DEF EntryStatusModified
  <2>2. [c EXCEPT !.status = st] = c
    BY <2>1 DEF Copied
  <2> QED BY <1>2, <2>2 DEF Found
<1>5. CASE ~c.plain
  <2>1. c.status.managed \in BOOLEAN
    BY <1>1 DEF Copied, StatusOf, EntryStatus
  <2>2. c.status.managed
    BY <1>1, <1>5, <2>1 DEF PlainCopy
  <2> QED BY <1>1, <2>2 DEF Found, Right
<1> QED BY <1>3, <1>4, <1>5

\* The worker goes on with an entry, or finds out.
LEMMA EntryIsFound ==
    ASSUME Versioned, NEW s \in Server \ Slave, NEW e \in Entry,
           Waits(s, e), Reconcile(s)
    PROVE  /\ worker[s].pc \in FindsOut
           /\ \/ Found(s, e)
              \/ /\ worker'[s].pc \in FindsOut /\ worker'[s].key = e
                 /\ worker'[s].obj = worker[s].obj
<1> DEFINE c == worker[s].obj
           z == c.spec.zone
<1>1. /\ e \in Object /\ e \notin Zone /\ TypeOK /\ worker[s] \in Worker
      /\ WorkerOK(worker[s]) /\ EntryWork(s, worker[s])
  BY NamesAreDistinct DEF Object, Versioned, TypeOK, WorkersOK, EntriesAtWork
<1>2. worker[s].key = e /\ worker[s].pc \in {"lookup", "walk", "write"}
  BY DEF Waits, FindsOut
<1>3. RootOf[s] \in Zone /\ RootOf[s] # None
  BY NamesAreDistinct, ServersAreConfigured DEF Object
<1>4. worker[s].pc \in {"lookup", "walk"}
  BY <1>2 DEF Reconcile, WalkUp, ZoneServed, ZoneOrphaned, ZoneIgnored, LookupZone,
              ZoneMissing, EntryServed, EntryOrphaned, EntryForeign, TriggerEntries,
              TriggerNested, ReconcilesZone, ReconcilesEntry, Busy
<1>5. c \in Copied(e)
  BY <1>1, <1>2, <1>4 DEF WorkerOK
<1>6. ASSUME NEW w, Becomes(s, w), w.pc = "walk", w.key = e, w.obj = c
      PROVE  /\ worker'[s].pc \in FindsOut /\ worker'[s].key = e
             /\ worker'[s].obj = c
  BY <1>1, <1>6 DEF Becomes, TypeOK, WorkersOK, FindsOut
<1>7. ASSUME WalkUp(s) \/ LookupZone(s)
      PROVE  /\ worker'[s].pc \in FindsOut /\ worker'[s].key = e
             /\ worker'[s].obj = c
  <2> DEFINE w == [worker[s] EXCEPT !.at = Parent(s), !.names = AggregateNames(@, Parent(s))]
             v == [worker[s] EXCEPT
                     !.pc = "walk", !.zone = ZoneOfEntry(s), !.at = ZoneOfEntry(s),
                     !.names = AggregateNames(c.spec.names, ZoneOfEntry(s))]
  <2>1. CASE WalkUp(s)
    <3>1. worker[s].pc = "walk" /\ Becomes(s, w)
      BY <2>1 DEF WalkUp, Busy
    <3>2. w.pc = "walk" /\ w.key = e /\ w.obj = c
      BY <1>1, <1>2, <3>1 DEF Worker
    <3> HIDE DEF w
    <3> QED BY <1>6, <3>1, <3>2
  <2>2. CASE LookupZone(s)
    <3>1. Becomes(s, v)
      BY <2>2 DEF LookupZone
    <3>2. v.pc = "walk" /\ v.key = e /\ v.obj = c
      BY <1>1, <1>2 DEF Worker
    <3> HIDE DEF v
    <3> QED BY <1>6, <3>1, <3>2
  <2> QED BY <1>7, <2>1, <2>2
<1>8. ASSUME ZoneMissing(s) PROVE Found(s, e)
  BY <1>2, <1>3, <1>5, <1>8, DecisionIsFound DEF ZoneMissing
<1>9. ASSUME EntryServed(s) PROVE Found(s, e)
  <2>1. /\ ReconcilesEntry(s) /\ AtRoot(s)
        /\ \E root, err : UpdateEntry(s, root, worker[s].names, err)
    BY <1>9 DEF EntryServed
  <2>2. ~LeadsAway(s, z)
    BY <1>1, <2>1, WalkIsHome DEF LeadsAway, ReconcilesEntry, Busy
  <2> QED BY <1>2, <1>5, <2>1, <2>2, DecisionIsFound
<1>10. ASSUME EntryOrphaned(s) PROVE Found(s, e)
  BY <1>2, <1>3, <1>5, <1>10, DecisionIsFound DEF EntryOrphaned
<1>11. ASSUME EntryForeign(s) PROVE Found(s, e)
  <2>1. CASE c.status.root = RootOf[s]
    BY <1>2, <1>3, <1>5, <1>11, <2>1, DecisionIsFound DEF EntryForeign
  <2>2. CASE c.status.root # RootOf[s]
    <3> DEFINE y == worker[s].at.name
    <3>1. /\ worker[s].pc = "walk" /\ y # RootOf[s] /\ worker[s].at.spec.parent = None
          /\ worker[s].at \in CopiedZone
      BY <1>1, <1>11 DEF EntryForeign, ReconcilesEntry, Busy, AtForeignRoot, AtRoot, WorkerOK
    <3>2. /\ y \in Zone /\ worker[s].at.spec \in Declarable(y)
          /\ z = RootOf[s] => y = z
      BY <1>1, <1>2, <3>1 DEF EntryWork, CopiedZone
    <3>3. ~LeadsHome(s, z)
      BY <3>1, <3>2 DEF LeadsHome, AlwaysNested
    <3> QED BY <1>1, <2>2, <3>3 DEF Found, Right, EntryIsRight
  <2> QED BY <2>1, <2>2
<1>12. /\ ~ZoneServed(s) /\ ~ZoneOrphaned(s) /\ ~ZoneIgnored(s)
       /\ ~TriggerEntries(s) /\ ~TriggerNested(s)
  BY <1>1, <1>2, <1>4 DEF ZoneServed, ZoneOrphaned, ZoneIgnored, ReconcilesZone,
                          TriggerEntries, TriggerNested, Busy
<1> QED BY <1>4, <1>7, <1>8, <1>9, <1>10, <1>11, <1>12 DEF Reconcile, FindsOut

\* The worker reconciles: what it found out is written, or was right before.
LEMMA AttendsReconcile ==
    ASSUME Versioned, NEW s \in Server, NEW o \in Object, Minds(s, o),
           up'[s], spent'["relists"] = 0, OneOf(s, o), Attends(s, o), Reconcile(s)
    PROVE  Attends(s, o)'
<1>1. TypeOK /\ Rests(s, o)
  BY ReconcileRests DEF Versioned
<1>2. SameCopy(cache[s][o], cache'[s][o]) /\ up[s]
  BY <1>1 DEF Rests
<1>3. NoWorse(s, o)
  BY <1>2, SameIsNoWorse
<1>4. queue[s] \subseteq queue'[s] /\ UNCHANGED delayed
  <2>1. ASSUME NEW keys, Enqueue(s, keys) PROVE queue[s] \subseteq queue'[s]
    BY <1>1, <2>1 DEF Enqueue, TypeOK, RestOK
  <2>2. TriggerEntries(s) \/ TriggerNested(s) => queue[s] \subseteq queue'[s] /\ UNCHANGED delayed
    BY <2>1 DEF TriggerEntries, TriggerNested
  <2>3. ~TriggerEntries(s) /\ ~TriggerNested(s) => UNCHANGED <<queue, delayed>>
    BY DEF Reconcile, WalkUp, ZoneServed, ZoneOrphaned, ZoneIgnored, LookupZone, ZoneMissing,
           EntryServed, EntryOrphaned, EntryForeign
  <2> QED BY <2>2, <2>3
<1>5. CASE ~Waits(s, o)
  BY <1>2, <1>3, <1>4, <1>5, AttendsKept
<1>6. ASSUME Waits(s, o), worker[s].pc \in FindsOut, Found(s, o) PROVE Attends(s, o)'
  <2>1. worker[s].key = o
    BY <1>6 DEF Waits
  <2> QED BY <1>2, <1>3, <1>4, <1>6, <2>1, FoundAttends
<1>7. CASE Waits(s, o) /\ o \in Zone
  BY <1>2, <1>6, <1>7, RootIsFound
<1>8. CASE Waits(s, o) /\ o \in Entry
  <2>0. s \notin Slave
    BY <1>8, NamesAreDistinct, ServersAreConfigured DEF Minds
  <2>1. /\ worker[s].pc \in FindsOut
        /\ \/ Found(s, o)
           \/ /\ worker'[s].pc \in FindsOut /\ worker'[s].key = o
              /\ worker'[s].obj = worker[s].obj
    BY <1>8, <2>0, EntryIsFound
  <2>2. ASSUME worker'[s].pc \in FindsOut, worker'[s].key = o,
               worker'[s].obj = worker[s].obj
        PROVE  Attends(s, o)'
    <3>1. CASE o \in queue[s] \cup delayed[s] \/ HearsRight(s, o)
      BY <1>2, <1>3, <1>4, <3>1, HearsKept, AttendsThen
    <3>2. CASE o \notin queue[s] \cup delayed[s] /\ ~HearsRight(s, o)
      <4>1. cache[s][o] # Absent /\ (Right(s, o, worker[s].obj) => Right(s, o, cache[s][o]))
        BY <2>1, <3>2 DEF Attends, HearsRight, FindsOut
      <4> QED BY <1>3, <2>2, <4>1, AttendsThen DEF NoWorse
    <3> QED BY <3>1, <3>2
  <2> QED BY <1>6, <1>8, <2>1, <2>2
<1> QED BY <1>5, <1>7, <1>8 DEF Object

\* The API server answers: it has stored a right version and announced it, or the
\* key is tried again.
LEMMA AttendsWrite ==
    ASSUME Versioned, NEW s \in Server, NEW o \in Object, up'[s],
           spent'["relists"] = 0, OneOf(s, o), Attends(s, o), Answer(s) \/ Fault(s)
    PROVE  Attends(s, o)'
<1>1. /\ UNCHANGED <<up, cache, queue>> /\ up[s] /\ worker[s].pc = "write" /\ TypeOK
  BY DEF Answer, Fault, WriteAccepted, WriteRejected, WriteFails, WriteUnanswered, Busy,
         Versioned
<1>2. NoWorse(s, o)
  BY <1>1 DEF NoWorse
<1>3. Retry(s) \/ WriteAccepted(s)
  BY DEF Answer, Fault, WriteRejected, WriteFails, WriteUnanswered
<1>4. delayed[s] \subseteq delayed'[s] /\ (Retry(s) => worker[s].key \in delayed'[s])
  BY <1>1, <1>3 DEF Retry, WriteAccepted, TypeOK, RestOK
<1>5. CASE ~Waits(s, o)
  BY <1>1, <1>2, <1>4, <1>5, AttendsKept
<1>6. CASE Waits(s, o) /\ Retry(s)
  BY <1>4, <1>6, AttendsThen DEF Waits
<1>7. CASE Waits(s, o) /\ WriteAccepted(s)
  <2>1. worker[s].key = o
    BY <1>7 DEF Waits
  <2>2. CASE o \in queue[s] \cup delayed[s]
    BY <1>1, <1>4, <2>2, AttendsThen
  <2>3. CASE HearsRight(s, o)
    BY <1>1, <1>2, <2>3, HearsKept, AttendsThen
  <2>4. CASE o \notin queue[s] \cup delayed[s] /\ ~HearsRight(s, o)
    <3> DEFINE c == worker[s].obj
               st == worker[s].status
               v == [api[o] EXCEPT !.rv = NewVersion(o), !.status = st]
               q == pending[s][o]
               r == pending'[s][o]
    <3>1. Right(s, o, [c EXCEPT !.status = st])
      BY <1>1, <2>4 DEF Attends, FindsOut
    <3>2. c \in Copied(o) /\ c # Absent
      BY <1>1, <2>1, NamesAreDistinct DEF TypeOK, WorkersOK, WorkerOK
    <3>3. Fresh(s) /\ Publish(v)
      BY <1>7, <2>1 DEF WriteAccepted, Apply
    <3>4. api[o] # Absent /\ api[o].rv = c.rv
      BY <2>1, <3>3 DEF Fresh
    <3>5. c.spec = api[o].spec
      BY <1>1, <2>1, <3>2, <3>4 DEF Versioned, CopiesAreVersions, StoreCurrent,
                                    WorkersAgree, Agrees
    <3>6. v = [name |-> o, rv |-> NewVersion(o), spec |-> api[o].spec, status |-> st]
      BY <1>1, <3>4, StatusReplaced
    <3>7. Right(s, o, v)
      <4> DEFINE d == [c EXCEPT !.status = st]
      <4>1. d.spec = c.spec /\ d.status = st
        BY <3>2 DEF Copied
      <4>2. v.spec = c.spec /\ v.status = st /\ v.name = o
        BY <3>5, <3>6
      <4>3. Right(s, o, d)
        BY <3>1
      <4> HIDE DEF v, d
      <4> QED BY <4>1, <4>2, <4>3 DEF Right
    <3>8. v.name = o
      BY <3>6
    <3> HIDE DEF v
    <3>9. r = Append(q, v)
      BY <1>1, <3>3, <3>8 DEF Publish, Announce, TypeOK, PendingOK
    <3>10. q \in Seq(Sent(o)) /\ Len(q) \in Nat
      BY <1>1, PendingIsSeq
    <3> HIDE DEF q
    <3>11. Len(r) = Len(q) + 1 /\ r[Len(q) + 1] = v
      BY <3>9, <3>10, Appended
    <3>12. Len(r) \in 1 .. Len(r) /\ r[Len(r)] = v
      BY <3>10, <3>11
    <3> QED BY <3>7, <3>12, HearsThen, AttendsThen
  <2> QED BY <2>2, <2>3, <2>4
<1> QED BY <1>3, <1>5, <1>6, <1>7

\* The delay of a key ends: it is queued.
LEMMA AttendsExpire ==
    ASSUME Versioned, NEW s \in Server, NEW o \in Object, up'[s],
           spent'["relists"] = 0, OneOf(s, o), Attends(s, o), Expire(s)
    PROVE  Attends(s, o)'
<1>1. PICK k \in Object : Requeue(s, k)
  BY DEF Expire
<1>2. UNCHANGED <<up, cache, worker>> /\ up[s] /\ TypeOK
  BY <1>1 DEF Requeue, Versioned
<1>3. queue'[s] = queue[s] \cup {k} /\ delayed'[s] = delayed[s] \ {k}
  BY <1>1, <1>2 DEF Requeue, Enqueue, TypeOK, RestOK
<1>4. NoWorse(s, o) /\ SameWork(s)
  BY <1>2 DEF NoWorse, SameWork
<1> QED BY <1>2, <1>3, <1>4, AttendsKept

\* Whatever happens, somebody attends to an object that is not right.
LEMMA AttendsNext ==
    ASSUME Versioned, Followed, EventsInOrder, AllAttended, [Next]_vars
    PROVE  AllAttended'
<1> SUFFICES ASSUME NEW s \in Server, NEW o \in Object, up'[s], Minds(s, o),
                    spent'["relists"] = 0
             PROVE  Attends(s, o)'
  BY DEF AllAttended, Minds, Showing, AlwaysTop, Declarable, EntryEqual
<1>1. TypeOK /\ spent["relists"] = 0 /\ up[s] \in BOOLEAN
  BY RelistsGrow DEF Versioned, TypeOK, RestOK
<1>2. OneOf(s, o)
  BY <1>1, EveryStepIsOneOf DEF Versioned
<1>3. CASE ~up[s]
  <2>1. cache'[s][o] = Absent
    BY <1>1, <1>2, <1>3 DEF OneOf, Rests, Hears, Lists, Relists, Ends, Renews,
                            Followed, DownIsEmpty, Incoming, SameCopy
  <2> QED BY <2>1, HearsThen, AttendsThen
<1>4. CASE up[s]
  <2>1. Attends(s, o)
    BY <1>1, <1>4 DEF AllAttended
  <2>2. ASSUME Untouched(s) PROVE Attends(s, o)'
    <3>1. NoWorse(s, o) /\ SameWork(s)
      BY <2>2 DEF NoWorse, SameWork, Untouched
    <3> QED BY <1>1, <1>2, <1>4, <2>1, <2>2, <3>1, AttendsKept DEF Untouched
  <2>3. CASE UNCHANGED vars
    BY <2>2, <2>3 DEF vars, Untouched
  <2>4. CASE Environment
    <3>1. ~Die(s)
      BY <1>1 DEF Die, TypeOK, RestOK
    <3> QED BY <1>1, <2>2, <2>4, <3>1, EnvironmentRests
  <2>5. ASSUME NEW t \in Server, t # s, Deliver(t) \/ Work(t) \/ Expire(t)
        PROVE  Attends(s, o)'
    BY <1>1, <2>2, <2>5, OthersRest
  <2>6. CASE Deliver(s)
    BY <1>1, <1>2, <2>1, <2>6, AttendsDeliver
  <2>7. CASE Take(s)
    BY <1>1, <1>2, <2>1, <2>7, AttendsTake
  <2>8. CASE Reconcile(s)
    BY <1>1, <1>2, <2>1, <2>8, AttendsReconcile
  <2>9. CASE Answer(s) \/ Fault(s)
    BY <1>1, <1>2, <2>1, <2>9, AttendsWrite
  <2>10. CASE Expire(s)
    BY <1>1, <1>2, <2>1, <2>10, AttendsExpire
  <2> QED BY <2>3, <2>4, <2>5, <2>6, <2>7, <2>8, <2>9, <2>10 DEF Next, Work
<1> QED BY <1>3, <1>4

\* All of them, and what they say when nothing is left to do for an object.
Attended == Versioned /\ Followed /\ EventsInOrder /\ AllAttended

\* They hold always.
LEMMA AttendedAlways == Spec => []Attended
<1>1. Init => Attended
  BY VersionedInit, FollowInit, OrderInit, AttendsInit DEF Attended, Followed
<1>2. Attended /\ [Next]_vars => Attended'
  BY VersionedNext, FollowNext, OrderNext, AttendsNext DEF Attended, Versioned
<1> QED BY <1>1, <1>2, PTL DEF Spec

\* An object that nobody is told about, and that is in nobody's queue, is right.
LEMMA UndisturbedIsRight ==
    ASSUME Attended, spent["relists"] = 0, NEW s \in Server, NEW o \in Object,
           Minds(s, o), Undisturbed(s, o), Exists(o)
    PROVE  Right(s, o, api[o])
<1>1. /\ up[s] /\ o \notin queue[s] \cup delayed[s] /\ worker[s].key # o
      /\ pending[s][o] = <<>>
  BY DEF Undisturbed
<1>2. Tells(cache[s][o], o)
  BY <1>1 DEF Attended, Followed, CachesFollow, Latest
<1>3. HearsRight(s, o)
  BY <1>1 DEF Attended, AllAttended, Attends
<1>4. \A i \in 1 .. Len(<<>>) : FALSE
  BY EmptySeq
<1>5. Right(s, o, cache[s][o])
  BY <1>1, <1>2, <1>3, <1>4 DEF HearsRight, Tells
<1> QED BY <1>2, <1>5 DEF Tells, Right

\* For any number of servers and objects: as soon as a server has nothing to do for
\* its root zone and nothing to hear of it, the zone has the state its declaration
\* deserves, whatever users, other servers, failing calls and restarts did before,
\* as long as no watch broke.
THEOREM RootZonesAreSettled == Spec => []RootZonesSettle
<1>1. Attended => RootZonesSettle
  <2> SUFFICES ASSUME Attended, spent["relists"] = 0, NEW s \in Server \ Slave,
                      s \in Transitive \/ AlwaysTop(RootOf[s]),
                      Undisturbed(s, RootOf[s]), Exists(RootOf[s]), Plain(RootOf[s])
               PROVE  api[RootOf[s]].status.state
                      = (IF api[RootOf[s]].spec.mail THEN "Ok" ELSE "Invalid")
    BY DEF RootZonesSettle
  <2>1. RootOf[s] \in Object /\ RootOf[s] \in Zone
    BY ServersAreConfigured DEF Object
  <2>2. Right(s, RootOf[s], api[RootOf[s]])
    BY <2>1, UndisturbedIsRight DEF Minds
  <2> QED BY <2>1, <2>2 DEF Right, ZoneIsRight, Plain
<1> QED BY <1>1, AttendedAlways, PTL

\* For any number of servers and objects: as soon as a server has nothing to do for
\* its root zone, which never has a parent, and nothing to hear of it, and leaves
\* the state to an aaS controller, the condition says whether the zone is served,
\* whoever wrote the status last, although Equal compares no conditions.
THEOREM ConditionsAreSettled == Spec => []ConditionsSettle
<1>1. Attended => ConditionsSettle
  <2> SUFFICES ASSUME Attended, spent["relists"] = 0, NEW s \in Server,
                      AlwaysTop(RootOf[s]), Undisturbed(s, RootOf[s]), Exists(RootOf[s]),
                      s \in Slave \/ ~Plain(RootOf[s])
               PROVE  SaysSo(api[RootOf[s]].spec, api[RootOf[s]].status)
    BY DEF ConditionsSettle
  <2>1. RootOf[s] \in Object /\ RootOf[s] \in Zone
    BY ServersAreConfigured DEF Object
  <2>2. Right(s, RootOf[s], api[RootOf[s]])
    BY <2>1, UndisturbedIsRight DEF Minds
  <2> QED BY <2>1, <2>2 DEF Right, ZoneIsRight, Plain
<1> QED BY <1>1, AttendedAlways, PTL

\* For any number of servers and objects: as soon as a server has nothing to do for
\* a wrong entry and nothing to hear of it, the entry is reported as invalid, when
\* every walk from its zone ends at the root zone of the server or at a gap.
THEOREM WrongEntriesAreSettled == Spec => []WrongEntriesSettle
<1>1. Attended => WrongEntriesSettle
  <2> SUFFICES ASSUME Attended, spent["relists"] = 0, NEW s \in Server \ Slave,
                      NEW e \in Entry, Showing(e), Undisturbed(s, e), Exists(e), Plain(e),
                      WrongEntry(e), LeadsHome(s, api[e].spec.zone)
               PROVE  api[e].status.state = "Invalid"
    BY DEF WrongEntriesSettle
  <2>1. e \in Object /\ e \notin Zone
    BY NamesAreDistinct DEF Object
  <2>2. Right(s, e, api[e])
    BY <2>1, UndisturbedIsRight DEF Minds
  <2>3. EntryError(api[e].spec) # <<>>
    BY DEF WrongEntry, EntryError, BadEntry
  <2> QED BY <2>1, <2>2, <2>3 DEF Right, EntryIsRight, Plain
<1> QED BY <1>1, AttendedAlways, PTL

\* For any number of servers and objects: as soon as a server has nothing to do for
\* an entry in another zone that never has a parent and nothing to hear of it, the
\* entry is not claimed by the root zone of the server, whoever wrote its status last.
THEOREM LeftEntriesAreReleased == Spec => []LeftEntriesRelease
<1>1. Attended => LeftEntriesRelease
  <2> SUFFICES ASSUME Attended, spent["relists"] = 0, NEW s \in Server \ Slave,
                      NEW e \in Entry, Showing(e), Undisturbed(s, e), Exists(e), Plain(e),
                      LeadsAway(s, api[e].spec.zone)
               PROVE  api[e].status.root # RootOf[s]
    BY DEF LeftEntriesRelease
  <2>1. e \in Object /\ e \notin Zone
    BY NamesAreDistinct DEF Object
  <2>2. Right(s, e, api[e])
    BY <2>1, UndisturbedIsRight DEF Minds
  <2> QED BY <2>1, <2>2 DEF Right, EntryIsRight, Plain
<1> QED BY <1>1, AttendedAlways, PTL
=============================================================================
