--------------------------- MODULE ControllerProofs ---------------------------
(***************************************************************************)
(* Proofs about the controller, for any number of servers and objects.     *)
(***************************************************************************)
EXTENDS ControllerProps, SequenceTheorems, TLAPS

-----------------------------------------------------------------------------
(* The operators of Objects. *)

\* A sequence of one element.
LEMMA Singleton == ASSUME NEW S, NEW x \in S PROVE <<x>> \in Seq(S)
OBVIOUS

\* A message, like every other text the controller writes, is a sequence of
\* parts.
LEMMA MessagesTyped ==
    /\ <<>> \in Message /\ NoRootZone \in Message /\ Nested \in Message
    /\ NoMail \in Message /\ BadEntry \in Message /\ ResponsibilityLost \in Message
    /\ ZoneIsServed \in Message
    /\ <<"hosted zone served">> \in Message /\ <<"entry served">> \in Message
    /\ \A msg \in Message : ZoneFailure(msg) \in Message
    /\ \A err, served \in Message : Condition(err, served) \in Message
<1>1. \A str \in Text : <<str>> \in Message
  BY Singleton DEF Message
<1>2. \A a, b \in Message : a \o b \in Message
  BY ConcatProperties DEF Message
<1>3. <<>> \in Message
  BY EmptySeq DEF Message
<1>4. /\ NoRootZone \in Message /\ Nested \in Message
      /\ NoMail \in Message /\ BadEntry \in Message /\ ResponsibilityLost \in Message
      /\ ZoneIsServed \in Message
  BY <1>1 DEF NoRootZone, Nested, NoMail, BadEntry, ResponsibilityLost, ZoneIsServed, Text
<1>5. \A msg \in Message : ZoneFailure(msg) \in Message
  BY <1>1, <1>2 DEF ZoneFailure, Text
<1>6. \A err, served \in Message : Condition(err, served) \in Message
  BY <1>1, <1>2 DEF Condition, Text
<1>7. <<"hosted zone served">> \in Message /\ <<"entry served">> \in Message
  BY <1>1 DEF Text
<1> QED BY <1>3, <1>4, <1>5, <1>6, <1>7

\* Copying an object keeps its version, specification and status.
LEMMA CopyTyped ==
    ASSUME NEW s \in Server, NEW o \in Object, NEW v \in Stored(o)
    PROVE  /\ Copy(s, v) \in Copied(o)
           /\ Copy(s, v).rv = v.rv
           /\ Copy(s, v).spec = v.spec
           /\ Copy(s, v).status = v.status
<1>1. ZoneError(v.spec, s \in Transitive) \in Message
  BY MessagesTyped DEF ZoneError
<1>2. EntryError(v.spec) \in Message
  BY MessagesTyped DEF EntryError
<1>3. CASE o \in Zone
  BY <1>1, <1>3 DEF Copy, ToZone, Stored, Copied
<1>4. CASE o \notin Zone
  BY <1>2, <1>4 DEF Copy, ToEntry, Stored, Copied
<1> QED BY <1>3, <1>4

\* The names of a copy's zone are names again.
LEMMA NamesTyped ==
    ASSUME NEW names \in SUBSET Name, NEW z \in CopiedZone
    PROVE  AggregateNames(names, z) \in SUBSET Name
<1>1. z.spec.domains \in SUBSET Name
  BY DEF CopiedZone, ZoneSpec
<1>2. \A n \in Name, d \in Name : n \o d \in Name
  BY ConcatProperties DEF Name
<1>3. ASSUME NEW x \in AggregateNames(names, z) PROVE x \in Name
  <2>1. PICK n \in names, d \in z.spec.domains : x = n \o d
    BY DEF AggregateNames
  <2> QED BY <1>1, <1>2, <2>1
<1> QED BY <1>3

\* The status computed for a copy is a status of its kind.
LEMMA ZoneStatusTyped ==
    ASSUME NEW o \in Zone, NEW z \in Copied(o)
    PROVE  ZoneStatusOf(z) \in StatusOf(o)
<1>1. z.status \in ZoneStatus /\ z.err \in Message
  BY DEF Copied, StatusOf
<1>2. Condition(z.err, <<"hosted zone served">>) \in Message
  BY <1>1, MessagesTyped
<1> QED BY <1>1, <1>2, MessagesTyped DEF ZoneStatusOf, ZoneStatus, StatusOf, State

\* The same for an entry, whatever root zone, names and error it is given.
LEMMA EntryStatusTyped ==
    ASSUME NEW o \in Entry, NEW c \in Copied(o), NEW root \in Ref,
           NEW names \in SUBSET Name, NEW err \in Message
    PROVE  EntryStatusOf(c, root, names, err) \in StatusOf(o)
<1> DEFINE why == IF c.err # <<>> THEN c.err ELSE err
<1>1. o \notin Zone
  BY NamesAreDistinct
<1>2. c.status \in EntryStatus /\ c.err \in Message
  BY <1>1 DEF Copied, StatusOf
<1>3. why \in Message
  BY <1>2
<1>4. Condition(why, <<"entry served">>) \in Message
  BY <1>3, MessagesTyped
<1> HIDE DEF why
<1> QED
  BY <1>1, <1>2, <1>3, <1>4, MessagesTyped
     DEF EntryStatusOf, EntryStatus, StatusOf, State, why

-----------------------------------------------------------------------------
(* The parts of the state. *)

\* Objects, and their copies, filed under their own name are objects and copies.
LEMMA StoredIsAny ==
    ASSUME NEW o \in Object
    PROVE  Stored(o) \subseteq AnyStored
BY NamesAreDistinct DEF Stored, AnyStored, SpecOf, StatusOf, AnyStatus, Object

\* The same for the copies of an object in the caches.
LEMMA CopiedIsAny ==
    ASSUME NEW o \in Object
    PROVE  Copied(o) \subseteq AnyCopied
BY NamesAreDistinct DEF Copied, AnyCopied, SpecOf, StatusOf, AnyStatus, Object

\* A copy of a zone is what the walk from zone to parent expects.
LEMMA CopiedZones ==
    ASSUME NEW z \in Zone
    PROVE  Copied(z) \subseteq CopiedZone
BY DEF Copied, CopiedZone, SpecOf, StatusOf

\* An idle worker, and what the worker becomes in between, is a worker.
LEMMA IdleTyped == Idle \in Worker /\ WorkerOK(Idle)
BY DEF Idle, Worker, WorkerOK, PC

\* A worker that is done with a zone, or triggers what depends on it.
LEMMA FollowTyped ==
    ASSUME NEW z \in Zone, NEW after \in {"none", "entries", "all"}
    PROVE  WorkerOK(Follow(z, after))
<1>1. CASE after = "none"
  BY <1>1, IdleTyped DEF Follow
<1>2. CASE after # "none"
  <2> DEFINE w == [Idle EXCEPT !.pc = "entries", !.key = z, !.after = after]
  <2>1. /\ w.pc = "entries" /\ w.key = z /\ w.obj = Absent
        /\ w \in Worker
    BY DEF Idle, Worker, PC, Object
  <2>2. Follow(z, after) = w
    BY <1>2 DEF Follow
  <2> HIDE DEF w
  <2>3. WorkerOK(w)
    BY <2>1 DEF WorkerOK
  <2> QED BY <2>2, <2>3
<1> QED BY <1>1, <1>2

\* A worker that is about to store a status of the kind of its copy.
LEMMA SubmitTyped ==
    ASSUME NEW o \in Object, NEW c \in Copied(o), NEW status \in StatusOf(o),
           NEW after \in {"none", "entries", "all"},
           o \in Entry => after = "none"
    PROVE  WorkerOK(Submit(c, status, after))
<1>1. c.name = o /\ c \in AnyCopied
  BY CopiedIsAny DEF Copied
<1>2. status \in AnyStatus
  BY DEF StatusOf, AnyStatus
<1> HIDE DEF AnyCopied, AnyStatus
<1> QED BY <1>1, <1>2 DEF Submit, Idle, Worker, WorkerOK, PC

-----------------------------------------------------------------------------
(* What the building blocks of the actions do to the parts of the state. *)

\* The events of an object are events.
LEMMA SentIsAny ==
    ASSUME NEW o \in Object
    PROVE  Seq(Sent(o)) \subseteq Seq(AnyStored \cup {Absent, Missed})
<1>1. Sent(o) \subseteq AnyStored \cup {Absent, Missed}
  BY StoredIsAny DEF Sent
<1> QED BY <1>1, SeqMonotonic

\* Announcing a change adds an event of the object that changed.
LEMMA AnnounceTyped ==
    ASSUME PendingOK, NEW o \in Object, NEW v \in Sent(o), Announce(o, v)
    PROVE  PendingOK'
<1>1. ASSUME NEW s \in Server, NEW p \in Object
      PROVE  pending'[s][p] \in Seq(Sent(p))
  <2>1. pending[s][p] \in Seq(Sent(p))
    BY DEF PendingOK
  <2>2. p = o => Append(pending[s][p], v) \in Seq(Sent(p))
    BY <2>1, AppendProperties
  <2>3. pending'[s] = IF up[s] THEN [pending[s] EXCEPT ![o] = Append(@, v)]
                      ELSE pending[s]
    BY DEF Announce
  <2>4. pending[s] \in [Object -> Seq(AnyStored \cup {Absent, Missed})]
    BY DEF PendingOK
  <2> QED BY <2>1, <2>2, <2>3, <2>4
<1>2. ASSUME NEW s \in Server
      PROVE  pending'[s] \in [Object -> Seq(AnyStored \cup {Absent, Missed})]
  <2>1. \A p \in Object : pending'[s][p] \in Seq(AnyStored \cup {Absent, Missed})
    BY <1>1, SentIsAny
  <2>2. pending'[s] = [p \in Object |-> pending'[s][p]]
    BY DEF PendingOK, Announce
  <2> QED BY <2>1, <2>2
<1>3. pending' = [s \in Server |-> pending'[s]]
  BY DEF Announce
<1> QED BY <1>1, <1>2, <1>3 DEF PendingOK

\* An accepted change keeps the objects and the events typed.
LEMMA PublishTyped ==
    ASSUME ApiOK, PendingOK, NEW o \in Object, NEW v \in Stored(o), Publish(v)
    PROVE  ApiOK' /\ PendingOK'
<1>1. v.name = o /\ v.rv \in Nat /\ v \in AnyStored
  BY StoredIsAny DEF Stored
<1>2. PendingOK'
  BY <1>1, AnnounceTyped DEF Publish, Sent
<1>3. ApiOK'
  BY <1>1 DEF Publish, ApiOK
<1> QED BY <1>2, <1>3

\* Delivering an event keeps the remaining ones typed.
LEMMA ConsumeTyped ==
    ASSUME PendingOK, NEW s \in Server, NEW o \in Object, Consume(s, o),
           pending[s][o] # <<>>
    PROVE  PendingOK'
<1>1. Tail(pending[s][o]) \in Seq(Sent(o))
  BY HeadTailProperties DEF PendingOK
<1>2. Tail(pending[s][o]) \in Seq(AnyStored \cup {Absent, Missed})
  BY <1>1, SentIsAny
<1> QED BY <1>1, <1>2 DEF PendingOK, Consume

\* The event that is delivered is the object it is filed under.
LEMMA EventTyped ==
    ASSUME PendingOK, NEW s \in Server, NEW o \in Object, Incoming(s, o),
           Event(s, o) \notin {Absent, Missed}
    PROVE  Event(s, o) \in Stored(o)
<1>1. Event(s, o) \in Sent(o)
  BY HeadTailProperties DEF PendingOK, Incoming, Event
<1> QED BY <1>1 DEF Sent

\* A copy that replaces another one of the same object.
LEMMA CacheTyped ==
    ASSUME CacheOK, NEW s \in Server, NEW o \in Object,
           NEW c \in Copied(o) \cup {Absent}, cache' = [cache EXCEPT ![s][o] = c]
    PROVE  CacheOK'
<1>1. c \in AnyCopied \cup {Absent}
  BY CopiedIsAny
<1> QED BY <1>1 DEF CacheOK

\* A worker that becomes a well-formed one.
LEMMA BecomesTyped ==
    ASSUME WorkersOK, NEW s \in Server, NEW w, WorkerOK(w), Becomes(s, w)
    PROVE  WorkersOK'
BY DEF WorkersOK, Becomes, WorkerOK

\* Whether the copy of a worker is still the cached one does not matter to its type.
LEMMA AliasTyped ==
    ASSUME NEW w, WorkerOK(w), NEW b \in BOOLEAN
    PROVE  WorkerOK([w EXCEPT !.alias = b])
BY DEF WorkerOK, Worker

\* An informer that replaces a copy keeps caches and workers typed.
LEMMA ReplaceTyped ==
    ASSUME CacheOK, WorkersOK, NEW s \in Server, NEW o \in Object,
           NEW c \in Copied(o) \cup {Absent}, Replace(s, o, c)
    PROVE  CacheOK' /\ WorkersOK'
<1> DEFINE w == [worker[s] EXCEPT !.alias = @ /\ worker[s].key # o]
<1>1. CacheOK'
  BY CacheTyped DEF Replace
<1>2. WorkerOK(worker[s]) /\ worker[s].alias \in BOOLEAN
  BY DEF WorkersOK, WorkerOK, Worker
<1>3. WorkerOK(w)
  BY <1>2, AliasTyped
<1>4. Becomes(s, w)
  BY DEF Replace, Becomes
<1> HIDE DEF w
<1> QED BY <1>1, <1>3, <1>4, BecomesTyped

\* A handler enqueues the key of an object.
LEMMA NoticeTyped ==
    ASSUME RestOK, NEW s \in Server, NEW o \in Object, Notice(s, o),
           UNCHANGED <<spent, up, delayed>>
    PROVE  RestOK'
<1>1. Now \in Nat
  BY DEF Now, RestOK, Budget
<1> QED BY <1>1 DEF Notice, RestOK

\* The environment acts once more.
LEMMA SpendTyped ==
    ASSUME spent \in [Budget -> Nat], NEW b \in Budget, Spend(b)
    PROVE  spent' \in [Budget -> Nat]
BY DEF Spend

\* An informer that lists gets each existing object once.
LEMMA ListedTyped ==
    ASSUME ApiOK
    PROVE  \A o \in Object : Listed[o] \in Seq(Sent(o))
<1>1. ASSUME NEW o \in Object PROVE Listed[o] \in Seq(Sent(o))
  <2>1. CASE api[o] = Absent
    BY <2>1, EmptySeq DEF Listed
  <2>2. CASE api[o] # Absent
    <3>1. api[o] \in Sent(o)
      BY <2>2 DEF ApiOK, Sent
    <3>2. <<api[o]>> \in Seq(Sent(o))
      BY <3>1, Singleton
    <3> QED BY <2>2, <3>2 DEF Listed
  <2> QED BY <2>1, <2>2
<1> QED BY <1>1

\* What is pending for one server may be replaced by any typed events.
LEMMA RefillTyped ==
    ASSUME PendingOK, NEW s \in Server, NEW p,
           p = [o \in Object |-> p[o]],
           \A o \in Object : p[o] \in Seq(Sent(o)),
           pending' = [pending EXCEPT ![s] = p]
    PROVE  PendingOK'
<1>1. \A o \in Object : p[o] \in Seq(AnyStored \cup {Absent, Missed})
  BY SentIsAny
<1>2. p \in [Object -> Seq(AnyStored \cup {Absent, Missed})]
  BY <1>1
<1> QED BY <1>2 DEF PendingOK

\* A process that ends leaves an empty memory behind.
LEMMA DieTyped ==
    ASSUME TypeOK, NEW s \in Server, Die(s)
    PROVE  /\ PendingOK' /\ CacheOK' /\ WorkersOK'
           /\ spent' \in [Budget -> Nat] => RestOK'
<1>1. PendingOK'
  <2>1. NoEvents = [o \in Object |-> NoEvents[o]]
        /\ \A o \in Object : NoEvents[o] = <<>>
    BY DEF NoEvents
  <2>2. \A o \in Object : NoEvents[o] \in Seq(Sent(o))
    BY <2>1, EmptySeq
  <2> HIDE DEF NoEvents
  <2> QED BY <2>1, <2>2, RefillTyped DEF Die, TypeOK
<1>2. CacheOK'
  BY DEF Die, TypeOK, CacheOK, NoCopies
<1>3. WorkersOK'
  BY IdleTyped, BecomesTyped DEF Die, TypeOK, Becomes
<1>4. spent' \in [Budget -> Nat] => RestOK'
  BY DEF Die, TypeOK, RestOK
<1> QED BY <1>1, <1>2, <1>3, <1>4

\* A worker that decides on an entry has a status of an entry to store, or is idle.
LEMMA UpdateEntryTyped ==
    ASSUME WorkersOK, NEW s \in Server, worker[s].key \in Entry,
           worker[s].obj \in Copied(worker[s].key),
           NEW root \in Ref, NEW names \in SUBSET Name, NEW err \in Message,
           UpdateEntry(s, root, names, err)
    PROVE  WorkersOK'
<1> DEFINE e == worker[s].obj
           st == EntryStatusOf(e, root, names, err)
<1>1. st \in StatusOf(worker[s].key)
  BY EntryStatusTyped
<1>2. WorkerOK(Submit(e, st, "none"))
  BY <1>1, SubmitTyped DEF Object
<1> HIDE DEF e, st
<1>3. WorkerOK(IF EntryStatusModified(e, root, names, err)
               THEN Submit(e, st, "none") ELSE Idle)
  BY <1>2, IdleTyped
<1> QED BY <1>3, BecomesTyped DEF UpdateEntry, e, st

\* The same for a zone, whose copy in the cache is amended as well.
LEMMA UpdateZoneTyped ==
    ASSUME TypeOK, NEW s \in Server, NEW k \in Zone, NEW z \in Copied(k),
           NEW modAfter \in {"none", "entries", "all"},
           NEW after \in {"none", "entries", "all"},
           UpdateZone(s, z, modAfter, after)
    PROVE  CacheOK' /\ WorkersOK'
<1>1. z.name = k /\ k \in Object
  BY DEF Copied, Object
<1>2. CacheOK'
  <2>1. CASE worker[s].alias
    BY <1>1, <2>1, CacheTyped DEF UpdateZone, Amend, TypeOK
  <2>2. CASE ~worker[s].alias
    BY <2>2 DEF UpdateZone, Amend, TypeOK, CacheOK
  <2> QED BY <2>1, <2>2
<1>3. WorkerOK(Submit(z, ZoneStatusOf(z), modAfter)) /\ WorkerOK(Follow(z.name, after))
  BY <1>1, ZoneStatusTyped, SubmitTyped, FollowTyped, NamesAreDistinct
<1>4. WorkersOK'
  <2>1. WorkerOK(IF ZoneStatusModified(z) THEN Submit(z, ZoneStatusOf(z), modAfter)
                 ELSE Follow(z.name, after))
    BY <1>3
  <2> QED BY <2>1, BecomesTyped DEF UpdateZone, TypeOK
<1> QED BY <1>2, <1>4

-----------------------------------------------------------------------------
(* Type correctness *)

\* Initially everything is typed.
LEMMA TypeInit == Init => TypeOK
<1> SUFFICES ASSUME Init PROVE TypeOK
  OBVIOUS
<1>1. ApiOK
  <2>1. \A o \in Object : Initial[o] \in Stored(o) \cup {Absent}
    BY EnvironmentIsTyped
  <2>2. \A o \in Object : Initial[o] \in AnyStored \cup {Absent}
    BY <2>1, StoredIsAny
  <2> QED BY <2>1, <2>2 DEF Init, ApiOK
<1>2. PendingOK
  <2>1. \A o \in Object : <<>> \in Seq(Sent(o)) /\ <<>> \in Seq(AnyStored \cup {Absent, Missed})
    BY EmptySeq
  <2> QED BY <2>1 DEF Init, PendingOK, NoEvents
<1>3. CacheOK
  <2>1. ASSUME NEW s \in Server, NEW o \in Object
        PROVE  cache[s][o] \in Copied(o) \cup {Absent}
    <3>1. Initial[o] # Absent => Copy(s, Initial[o]) \in Copied(o)
      BY EnvironmentIsTyped, CopyTyped
    <3> QED BY <3>1 DEF Init
  <2>2. \A s \in Server, o \in Object : cache[s][o] \in AnyCopied \cup {Absent}
    BY <2>1, CopiedIsAny
  <2>3. /\ cache = [s \in Server |-> cache[s]]
        /\ \A s \in Server : cache[s] = [o \in Object |-> cache[s][o]]
    BY DEF Init
  <2>4. \A s \in Server : cache[s] \in [Object -> AnyCopied \cup {Absent}]
    BY <2>2, <2>3
  <2> QED BY <2>1, <2>3, <2>4 DEF CacheOK
<1>4. WorkersOK
  BY IdleTyped DEF Init, WorkersOK
<1>5. RestOK
  BY DEF Init, RestOK, Budget
<1> QED BY <1>1, <1>2, <1>3, <1>4, <1>5 DEF TypeOK

\* The actions of the environment.
LEMMA TypeEnvironment == TypeOK /\ Environment => TypeOK'
<1> SUFFICES ASSUME TypeOK, Environment PROVE TypeOK'
  OBVIOUS
<1> USE DEF TypeOK
<1>1. ASSUME NEW o \in Object, NEW spec \in Specs[o], Create(o, spec) PROVE TypeOK'
  <2> DEFINE v == [name |-> o, rv |-> NewVersion(o), spec |-> spec,
                   status |-> IF o \in Zone THEN NewZoneStatus ELSE NewEntryStatus]
  <2>1. NewZoneStatus \in ZoneStatus /\ NewEntryStatus \in EntryStatus
    BY MessagesTyped DEF NewZoneStatus, NewEntryStatus, ZoneStatus, EntryStatus,
                         State, Ref
  <2>2. v \in Stored(o)
    BY <2>1, EnvironmentIsTyped DEF Stored, StatusOf, NewVersion, ApiOK
  <2>3. Publish(v)
    BY <1>1 DEF Create
  <2> HIDE DEF v
  <2>4. ApiOK' /\ PendingOK'
    BY <2>2, <2>3, PublishTyped
  <2>5. CacheOK' /\ WorkersOK' /\ RestOK'
    BY <1>1, SpendTyped DEF Create, memory, CacheOK, WorkersOK, RestOK, Budget
  <2> QED BY <2>4, <2>5
<1>2. ASSUME NEW o \in Object, NEW spec \in Specs[o], Update(o, spec) PROVE TypeOK'
  <2> DEFINE v == [api[o] EXCEPT !.rv = NewVersion(o), !.spec = spec]
  <2>1. v \in Stored(o)
    <3>1. api[o] \in Stored(o) /\ NewVersion(o) \in Nat
      BY <1>2 DEF Update, NewVersion, ApiOK
    <3>2. spec \in SpecOf(o)
      BY EnvironmentIsTyped
    <3> QED BY <3>1, <3>2 DEF Stored
  <2>2. Publish(v)
    BY <1>2 DEF Update
  <2> HIDE DEF v
  <2>3. ApiOK' /\ PendingOK'
    BY <2>1, <2>2, PublishTyped
  <2>4. CacheOK' /\ WorkersOK' /\ RestOK'
    BY <1>2, SpendTyped DEF Update, memory, CacheOK, WorkersOK, RestOK, Budget
  <2> QED BY <2>3, <2>4
<1>3. ASSUME NEW o \in Object, Delete(o) PROVE TypeOK'
  <2>1. ApiOK'
    BY <1>3 DEF Delete, ApiOK
  <2>2. PendingOK'
    BY <1>3, AnnounceTyped DEF Delete, Sent
  <2>3. CacheOK' /\ WorkersOK' /\ RestOK'
    BY <1>3, SpendTyped DEF Delete, memory, CacheOK, WorkersOK, RestOK, Budget
  <2> QED BY <2>1, <2>2, <2>3
<1>4. ASSUME NEW o \in Supervised, Supervise(o) PROVE TypeOK'
  <2> DEFINE v == [api[o] EXCEPT !.rv = NewVersion(o), !.status = Supervision(@)]
  <2>1. o \in Object /\ api[o] \in Stored(o)
    BY <1>4, EnvironmentIsTyped DEF Supervise, ApiOK
  <2>2. Supervision(api[o].status) \in StatusOf(o)
    <3>1. CASE o \in Zone
      BY <2>1, <3>1 DEF Supervision, Stored, StatusOf, ZoneStatus, State
    <3>2. CASE o \notin Zone
      BY <2>1, <3>2 DEF Supervision, Stored, StatusOf, EntryStatus, State
    <3> QED BY <3>1, <3>2
  <2>3. v \in Stored(o)
    <3>1. NewVersion(o) \in Nat
      BY <2>1 DEF NewVersion, ApiOK
    <3> QED BY <2>1, <2>2, <3>1 DEF Stored
  <2>4. Publish(v)
    BY <1>4 DEF Supervise
  <2> HIDE DEF v
  <2>5. ApiOK' /\ PendingOK'
    BY <2>1, <2>3, <2>4, PublishTyped
  <2>6. CacheOK' /\ WorkersOK' /\ RestOK'
    BY <1>4 DEF Supervise, memory, CacheOK, WorkersOK, RestOK
  <2> QED BY <2>5, <2>6
<1>5. CASE Tick
  BY <1>5, SpendTyped
     DEF Tick, memory, store, ApiOK, PendingOK, CacheOK, WorkersOK, RestOK, Budget
<1>6. ASSUME NEW s \in Server, Kill(s) PROVE TypeOK'
  <2>1. ApiOK' /\ spent' \in [Budget -> Nat]
    BY <1>6, SpendTyped DEF Kill, store, ApiOK, RestOK, Budget
  <2> QED BY <1>6, <2>1, DieTyped DEF Kill
<1>7. ASSUME NEW s \in Server, Start(s) PROVE TypeOK'
  <2>1. PendingOK'
    <3>1. Listed = [o \in Object |-> Listed[o]]
      BY DEF Listed
    <3>2. \A o \in Object : Listed[o] \in Seq(Sent(o))
      BY ListedTyped
    <3>3. pending' = [pending EXCEPT ![s] = Listed]
      BY <1>7 DEF Start
    <3> HIDE DEF Listed
    <3> QED BY <3>1, <3>2, <3>3, RefillTyped
  <2>2. ApiOK' /\ CacheOK' /\ WorkersOK' /\ RestOK'
    BY <1>7 DEF Start, store, memory, ApiOK, CacheOK, WorkersOK, RestOK
  <2> QED BY <2>1, <2>2
<1>8. ASSUME NEW s \in Server, Relist(s) PROVE TypeOK'
  <2> DEFINE p == [o \in Object |-> IF api[o] = Absent /\ cache[s][o] # Absent
                                     THEN <<Missed>> ELSE Listed[o]]
  <2>1. \A o \in Object : <<Missed>> \in Seq(Sent(o))
    BY Singleton DEF Sent
  <2>2. \A o \in Object : p[o] \in Seq(Sent(o))
    BY <2>1, ListedTyped
  <2>3. pending' = [pending EXCEPT ![s] = p] /\ p = [o \in Object |-> p[o]]
    BY <1>8 DEF Relist
  <2> HIDE DEF p
  <2>4. PendingOK'
    BY <2>2, <2>3, RefillTyped
  <2>5. ApiOK' /\ CacheOK' /\ WorkersOK' /\ RestOK'
    BY <1>8, SpendTyped
       DEF Relist, store, memory, ApiOK, CacheOK, WorkersOK, RestOK, Budget
  <2> QED BY <2>4, <2>5
<1> HIDE DEF TypeOK
<1> QED BY <1>1, <1>2, <1>3, <1>4, <1>5, <1>6, <1>7, <1>8 DEF Environment, Users

\* The informers.
LEMMA TypeDeliver ==
    ASSUME TypeOK, NEW s \in Server, Deliver(s)
    PROVE  TypeOK'
<1> USE DEF TypeOK
<1>1. ASSUME NEW o \in Object, DeliverAdd(s, o) PROVE TypeOK'
  <2>1. Copy(s, Event(s, o)) \in Copied(o)
    BY <1>1, EventTyped, CopyTyped DEF DeliverAdd
  <2>2. CacheOK' /\ WorkersOK'
    BY <1>1, <2>1, ReplaceTyped DEF DeliverAdd
  <2>3. PendingOK'
    BY <1>1, ConsumeTyped DEF DeliverAdd, Incoming
  <2>4. ApiOK' /\ RestOK'
    BY <1>1, NoticeTyped DEF DeliverAdd, store, ApiOK
  <2> QED BY <2>2, <2>3, <2>4
<1>2. ASSUME NEW o \in Object, DeliverUpdate(s, o) PROVE TypeOK'
  <2>1. Copy(s, Event(s, o)) \in Copied(o)
    BY <1>2, EventTyped, CopyTyped DEF DeliverUpdate
  <2>2. CacheOK' /\ WorkersOK'
    BY <1>2, <2>1, ReplaceTyped DEF DeliverUpdate
  <2>3. PendingOK'
    BY <1>2, ConsumeTyped DEF DeliverUpdate, Incoming
  <2>4. ApiOK'
    BY <1>2 DEF DeliverUpdate, store, ApiOK
  <2>5. RestOK'
    <3>1. UNCHANGED <<spent, up, delayed>>
      BY <1>2 DEF DeliverUpdate
    <3>2. Notice(s, o) \/ UNCHANGED <<modified, queue>>
      BY <1>2 DEF DeliverUpdate
    <3>3. CASE Notice(s, o)
      BY <3>1, <3>3, NoticeTyped
    <3>4. CASE UNCHANGED <<modified, queue>>
      BY <3>1, <3>4 DEF RestOK
    <3> QED BY <3>2, <3>3, <3>4
  <2> QED BY <2>2, <2>3, <2>4, <2>5
<1>3. ASSUME NEW o \in Object, DeliverDelete(s, o) PROVE TypeOK'
  <2>1. CacheOK' /\ WorkersOK'
    BY <1>3, ReplaceTyped DEF DeliverDelete
  <2>2. PendingOK'
    BY <1>3, ConsumeTyped DEF DeliverDelete, Incoming
  <2>3. ApiOK' /\ RestOK'
    BY <1>3, NoticeTyped DEF DeliverDelete, store, ApiOK
  <2> QED BY <2>1, <2>2, <2>3
<1>4. ASSUME NEW o \in Object, UpdatePanics(s, o) \/ DeletePanics(s, o) PROVE TypeOK'
  <2>1. Die(s) /\ UNCHANGED <<store, spent>>
    BY <1>4 DEF UpdatePanics, DeletePanics
  <2>2. ApiOK' /\ spent' \in [Budget -> Nat]
    BY <2>1 DEF store, ApiOK, RestOK
  <2> QED BY <2>1, <2>2, DieTyped
<1> HIDE DEF TypeOK
<1> QED BY <1>1, <1>2, <1>3, <1>4 DEF Deliver

\* The worker takes a key.
LEMMA TypeTake ==
    ASSUME TypeOK, NEW s \in Server, Take(s)
    PROVE  TypeOK'
<1> USE DEF TypeOK
<1>1. ASSUME NEW k \in Object, queue' = [queue EXCEPT ![s] = @ \ {k}],
             UNCHANGED <<spent, up, delayed, modified>>
      PROVE  RestOK'
  BY <1>1 DEF RestOK
<1>2. ASSUME UNCHANGED <<store, spent, up, pending, cache, delayed, modified>>
      PROVE  ApiOK' /\ PendingOK' /\ CacheOK'
  BY <1>2 DEF store, ApiOK, PendingOK, CacheOK
<1>3. ASSUME NEW k \in Object, TakeZone(s, k) PROVE TypeOK'
  <2> DEFINE w == [Idle EXCEPT !.pc = "walk", !.key = k, !.obj = cache[s][k],
                               !.alias = TRUE, !.at = cache[s][k]]
  <2>1. k \in Zone /\ cache[s][k] \in Copied(k)
    BY <1>3 DEF TakeZone, CacheOK
  <2>2. cache[s][k] \in CopiedZone /\ cache[s][k] \in AnyCopied /\ k \notin Entry
    BY <2>1, CopiedZones, CopiedIsAny, NamesAreDistinct
  <2>3. WorkerOK(w)
    BY <2>1, <2>2, IdleTyped DEF WorkerOK, Worker, Idle, PC
  <2>4. Becomes(s, w)
    BY <1>3 DEF TakeZone
  <2> HIDE DEF w
  <2> QED BY <1>1, <1>2, <1>3, <2>3, <2>4, BecomesTyped DEF TakeZone
<1>4. ASSUME NEW k \in Object, TakeDeletedZone(s, k) PROVE TypeOK'
  <2>1. WorkerOK(Follow(k, "all"))
    BY <1>4, FollowTyped DEF TakeDeletedZone
  <2> QED BY <1>1, <1>2, <1>4, <2>1, BecomesTyped DEF TakeDeletedZone
<1>5. ASSUME NEW k \in Object, TakeEntry(s, k) PROVE TypeOK'
  <2> DEFINE w == [Idle EXCEPT !.pc = "lookup", !.key = k,
                               !.obj = cache[s][k], !.alias = TRUE]
  <2>1. k \in Entry /\ cache[s][k] \in Copied(k) /\ cache[s][k].spec.zone # None
    BY <1>5 DEF TakeEntry, CacheOK
  <2>2. cache[s][k] \in AnyCopied /\ cache[s][k].spec.zone \in Zone
    BY <2>1, CopiedIsAny, NamesAreDistinct DEF Copied, SpecOf, EntrySpec, Ref
  <2>3. WorkerOK(w)
    BY <2>1, <2>2, IdleTyped DEF WorkerOK, Worker, Idle, PC
  <2>4. Becomes(s, w)
    BY <1>5 DEF TakeEntry
  <2> HIDE DEF w
  <2> QED BY <1>1, <1>2, <1>5, <2>3, <2>4, BecomesTyped DEF TakeEntry
<1>6. ASSUME NEW k \in Object, DropEntry(s, k) PROVE TypeOK'
  <2>1. WorkersOK'
    BY <1>6 DEF DropEntry, WorkersOK
  <2> QED BY <1>1, <1>2, <1>6, <2>1 DEF DropEntry
<1> HIDE DEF TypeOK
<1> QED BY <1>3, <1>4, <1>5, <1>6 DEF Take

\* A worker walks: it is a worker of the right kind, and parents are zones.
LEMMA WalkTyped ==
    ASSUME TypeOK, NEW s \in Server, Busy(s, "walk")
    PROVE  LET w == worker[s] IN
           /\ w.key \in Object /\ w.obj \in Copied(w.key) /\ w.at \in CopiedZone
           /\ w.key \in Entry => w.zone \in CopiedZone
           /\ w.names \in SUBSET Name
           /\ WorkerOK(w)
           /\ HasParent(s) /\ Parent(s) # Absent => Parent(s) \in CopiedZone
<1>1. WorkerOK(worker[s]) /\ worker[s] \in Worker
  BY DEF TypeOK, WorkersOK
<1>2. /\ worker[s].key \in Object /\ worker[s].obj \in Copied(worker[s].key)
      /\ worker[s].at \in CopiedZone
      /\ worker[s].key \in Entry => worker[s].zone \in CopiedZone
      /\ worker[s].names \in SUBSET Name
  BY <1>1 DEF Busy, WorkerOK, Worker
<1>3. ASSUME HasParent(s), Parent(s) # Absent PROVE Parent(s) \in CopiedZone
  <2>1. worker[s].at.spec.parent \in Zone
    BY <1>2, <1>3 DEF HasParent, CopiedZone, ZoneSpec, Ref
  <2>2. Parent(s) \in Copied(worker[s].at.spec.parent)
    BY <1>3, <2>1 DEF Parent, TypeOK, CacheOK, Object
  <2> QED BY <2>1, <2>2, CopiedZones
<1> QED BY <1>1, <1>2, <1>3

\* The worker reconciles a zone or an entry, and triggers what depends on a zone.
LEMMA TypeReconcile ==
    ASSUME TypeOK, NEW s \in Server, Reconcile(s)
    PROVE  TypeOK'
<1> USE DEF TypeOK
<1> DEFINE w == worker[s]
<1>1. ASSUME UNCHANGED <<store, spent, up, pending, delayed, modified>>,
             CacheOK' /\ WorkersOK',
             queue' \in [Server -> SUBSET Object]
      PROVE  TypeOK'
  BY <1>1 DEF store, ApiOK, PendingOK, RestOK
<1>2. ASSUME UNCHANGED <<store, spent, up, pending, cache, queue, delayed, modified>>,
             WorkersOK'
      PROVE  TypeOK'
  BY <1>2 DEF store, ApiOK, PendingOK, CacheOK, RestOK
<1>3. ASSUME WalkUp(s) PROVE TypeOK'
  <2> DEFINE v == [worker[s] EXCEPT !.at = Parent(s),
                                    !.names = AggregateNames(@, Parent(s))]
  <2>1. WorkerOK(w) /\ Parent(s) \in CopiedZone /\ w.pc = "walk"
    BY <1>3, WalkTyped DEF WalkUp, Busy
  <2>2. AggregateNames(w.names, Parent(s)) \in SUBSET Name
    BY <1>3, <2>1, WalkTyped, NamesTyped DEF WalkUp
  <2>3. WorkerOK(v)
    BY <2>1, <2>2 DEF WorkerOK, Worker
  <2>4. Becomes(s, v)
    BY <1>3 DEF WalkUp
  <2> HIDE DEF v
  <2> QED BY <1>2, <1>3, <2>3, <2>4, BecomesTyped DEF WalkUp
<1>4. ASSUME ReconcilesZone(s)
      PROVE  w.key \in Zone /\ w.obj \in Copied(w.key) /\ w.at \in CopiedZone
  BY <1>4, WalkTyped DEF ReconcilesZone
<1>5. ASSUME ZoneServed(s) PROVE TypeOK'
  <2> DEFINE z == [w.obj EXCEPT !.plain = w.at.plain]
  <2>1. w.key \in Zone /\ z \in Copied(w.key)
    BY <1>4, <1>5 DEF ZoneServed, Copied, CopiedZone
  <2>2. UpdateZone(s, z, "all", "all")
    BY <1>5 DEF ZoneServed
  <2> HIDE DEF z
  <2>3. CacheOK' /\ WorkersOK'
    BY <2>1, <2>2, UpdateZoneTyped
  <2> QED BY <1>1, <1>5, <2>3 DEF ZoneServed, RestOK
<1>6. ASSUME ZoneOrphaned(s) PROVE TypeOK'
  <2> DEFINE z == [w.obj EXCEPT !.err = IF @ = <<>> THEN NoRootZone ELSE @]
  <2>1. w.key \in Zone /\ z \in Copied(w.key)
    BY <1>4, <1>6, MessagesTyped DEF ZoneOrphaned, Copied
  <2>2. UpdateZone(s, z, "entries", "none")
    BY <1>6 DEF ZoneOrphaned
  <2> HIDE DEF z
  <2>3. CacheOK' /\ WorkersOK'
    BY <2>1, <2>2, UpdateZoneTyped
  <2> QED BY <1>1, <1>6, <2>3 DEF ZoneOrphaned, RestOK
<1>7. ASSUME ZoneIgnored(s) PROVE TypeOK'
  BY <1>2, <1>7, IdleTyped, BecomesTyped DEF ZoneIgnored
<1>8. ASSUME Busy(s, "lookup")
      PROVE  /\ WorkerOK(w) /\ w.key \in Entry /\ w.obj \in Copied(w.key)
             /\ w.obj.spec.zone \in Zone /\ w.obj.spec.names \in SUBSET Name
  BY <1>8, NamesAreDistinct
     DEF Busy, WorkersOK, WorkerOK, Copied, SpecOf, EntrySpec
<1>9. ASSUME LookupZone(s) PROVE TypeOK'
  <2> DEFINE names == AggregateNames(w.obj.spec.names, ZoneOfEntry(s))
             v == [worker[s] EXCEPT !.pc = "walk", !.zone = ZoneOfEntry(s),
                                    !.at = ZoneOfEntry(s), !.names = names]
  <2>1. ZoneOfEntry(s) \in Copied(w.obj.spec.zone) /\ w.obj.spec.zone \in Zone
    BY <1>8, <1>9 DEF LookupZone, ZoneOfEntry, CacheOK, Object
  <2>2. ZoneOfEntry(s) \in CopiedZone
    BY <2>1, CopiedZones
  <2>3. names \in SUBSET Name
    BY <1>8, <1>9, <2>2, NamesTyped DEF LookupZone
  <2> HIDE DEF names
  <2>4. WorkerOK(v)
    BY <1>8, <1>9, <2>2, <2>3 DEF WorkerOK, Worker, PC, Object, LookupZone
  <2>5. Becomes(s, v)
    BY <1>9 DEF LookupZone, names
  <2> HIDE DEF v
  <2> QED BY <1>2, <1>9, <2>4, <2>5, BecomesTyped DEF LookupZone
<1>10. None \in Ref /\ RootOf[s] \in Ref /\ {} \in SUBSET Name
  BY ServersAreConfigured DEF Ref
<1>11. ASSUME ZoneMissing(s) PROVE TypeOK'
  <2>1. WorkersOK'
    BY <1>8, <1>10, <1>11, MessagesTyped, UpdateEntryTyped DEF ZoneMissing
  <2> QED BY <1>2, <1>11, <2>1 DEF ZoneMissing
<1>12. ASSUME ReconcilesEntry(s)
       PROVE  /\ w.key \in Entry /\ w.obj \in Copied(w.key)
              /\ w.zone \in CopiedZone /\ w.names \in SUBSET Name
  BY <1>12, WalkTyped DEF ReconcilesEntry
<1>13. ASSUME EntryServed(s) PROVE TypeOK'
  <2>1. w.zone.status.message \in Message
    BY <1>12, <1>13 DEF EntryServed, CopiedZone, ZoneStatus
  <2>2. ZoneFailure(w.zone.status.message) \in Message /\ <<>> \in Message
    BY <2>1, MessagesTyped
  <2>3. \/ UpdateEntry(s, RootOf[s], w.names, <<>>)
        \/ UpdateEntry(s, None, w.names, ZoneFailure(w.zone.status.message))
    BY <1>13 DEF EntryServed
  <2>4. WorkersOK'
    BY <1>10, <1>12, <1>13, <2>2, <2>3, UpdateEntryTyped DEF EntryServed
  <2> QED BY <1>2, <1>13, <2>4 DEF EntryServed
<1>14. ASSUME EntryOrphaned(s) PROVE TypeOK'
  <2>1. Becomes(s, Idle) \/ UpdateEntry(s, None, {}, NoRootZone)
    BY <1>14 DEF EntryOrphaned
  <2>2. WorkersOK'
    BY <1>10, <1>12, <1>14, <2>1, MessagesTyped, UpdateEntryTyped, IdleTyped,
       BecomesTyped DEF EntryOrphaned
  <2> QED BY <1>2, <1>14, <2>2 DEF EntryOrphaned
<1>15. ASSUME EntryForeign(s) PROVE TypeOK'
  <2>1. Becomes(s, Idle) \/ UpdateEntry(s, None, {}, ResponsibilityLost)
    BY <1>15 DEF EntryForeign
  <2>2. WorkersOK'
    BY <1>10, <1>12, <1>15, <2>1, MessagesTyped, UpdateEntryTyped, IdleTyped,
       BecomesTyped DEF EntryForeign
  <2> QED BY <1>2, <1>15, <2>2 DEF EntryForeign
<1>16. ASSUME NEW keys \in SUBSET Object, Enqueue(s, keys)
       PROVE  queue' \in [Server -> SUBSET Object]
  BY <1>16 DEF Enqueue, RestOK
<1>17. ASSUME TriggerEntries(s) PROVE TypeOK'
  <2>1. EntriesOf(s, w.key) \in SUBSET Object
    BY DEF EntriesOf, Object
  <2>2. queue' \in [Server -> SUBSET Object]
    BY <1>16, <1>17, <2>1 DEF TriggerEntries
  <2>3. WorkerOK(w) /\ w.key \in Zone
    BY <1>17 DEF TriggerEntries, Busy, WorkersOK, WorkerOK
  <2>4. WorkerOK([worker[s] EXCEPT !.pc = "nested"])
    BY <2>3 DEF WorkerOK, Worker, PC
  <2>5. WorkersOK'
    BY <1>17, <2>4, IdleTyped, BecomesTyped DEF TriggerEntries
  <2> QED BY <1>1, <1>17, <2>2, <2>5 DEF TriggerEntries, CacheOK
<1>18. ASSUME TriggerNested(s) PROVE TypeOK'
  <2>1. NestedIn(s, w.key) \in SUBSET Object
    BY DEF NestedIn, Object
  <2>2. queue' \in [Server -> SUBSET Object]
    BY <1>16, <1>18, <2>1 DEF TriggerNested
  <2>3. WorkersOK'
    BY <1>18, IdleTyped, BecomesTyped DEF TriggerNested
  <2> QED BY <1>1, <1>18, <2>2, <2>3 DEF TriggerNested, CacheOK
<1> HIDE DEF TypeOK
<1> QED BY <1>3, <1>5, <1>6, <1>7, <1>9, <1>11, <1>13, <1>14, <1>15, <1>17, <1>18
        DEF Reconcile

\* The API server answers a status update, or fails to.
LEMMA TypeWrite ==
    ASSUME TypeOK, NEW s \in Server, Answer(s) \/ Fault(s)
    PROVE  TypeOK'
<1> USE DEF TypeOK
<1> DEFINE w == worker[s]
           v == [api[w.key] EXCEPT !.rv = NewVersion(w.key), !.status = w.status]
<1>1. Busy(s, "write")
  BY DEF Answer, Fault, WriteAccepted, WriteRejected, WriteFails, WriteUnanswered
<1>2. /\ WorkerOK(w) /\ w.key \in Object /\ w.status \in StatusOf(w.key)
      /\ w.key \in Entry => w.after = "none"
      /\ w.after \in {"none", "entries", "all"}
  BY <1>1 DEF Busy, WorkersOK, WorkerOK, Worker
<1>3. ASSUME Apply(s), Fresh(s) PROVE ApiOK' /\ PendingOK'
  <2>1. api[w.key] \in Stored(w.key) /\ NewVersion(w.key) \in Nat
    BY <1>2, <1>3 DEF Fresh, ApiOK, NewVersion
  <2>2. v \in Stored(w.key)
    BY <1>2, <2>1 DEF Stored
  <2>3. Publish(v)
    BY <1>3 DEF Apply
  <2> HIDE DEF v
  <2> QED BY <1>2, <2>2, <2>3, PublishTyped
<1>4. ASSUME Retry(s) PROVE WorkersOK' /\ delayed' \in [Server -> SUBSET Object]
  <2>1. WorkersOK'
    BY <1>4, IdleTyped, BecomesTyped DEF Retry
  <2>2. delayed' \in [Server -> SUBSET Object]
    BY <1>2, <1>4 DEF Retry, RestOK
  <2> QED BY <2>1, <2>2
<1>5. ASSUME WriteAccepted(s) PROVE TypeOK'
  <2>1. WorkerOK(Follow(w.key, w.after))
    <3>1. CASE w.key \in Zone
      BY <1>2, <3>1, FollowTyped
    <3>2. CASE w.key \notin Zone
      BY <1>2, <3>2, IdleTyped DEF Follow, Object
    <3> QED BY <3>1, <3>2
  <2>2. WorkersOK'
    BY <1>5, <2>1, BecomesTyped DEF WriteAccepted
  <2>3. ApiOK' /\ PendingOK'
    BY <1>3, <1>5 DEF WriteAccepted
  <2> QED BY <1>5, <2>2, <2>3 DEF WriteAccepted, CacheOK, RestOK
<1>6. ASSUME WriteRejected(s) PROVE TypeOK'
  BY <1>4, <1>6 DEF WriteRejected, store, ApiOK, PendingOK, CacheOK, RestOK
<1>7. ASSUME WriteFails(s) PROVE TypeOK'
  BY <1>4, <1>7, SpendTyped
     DEF WriteFails, store, ApiOK, PendingOK, CacheOK, RestOK, Budget
<1>8. ASSUME WriteUnanswered(s) PROVE TypeOK'
  BY <1>3, <1>4, <1>8, SpendTyped DEF WriteUnanswered, CacheOK, RestOK, Budget
<1> HIDE DEF TypeOK
<1> QED BY <1>5, <1>6, <1>7, <1>8 DEF Answer, Fault

\* The delay of a key ends.
LEMMA TypeExpire ==
    ASSUME TypeOK, NEW s \in Server, Expire(s)
    PROVE  TypeOK'
BY DEF Expire, Requeue, Enqueue, TypeOK, store, ApiOK, PendingOK, CacheOK,
       WorkersOK, RestOK

\* Every step keeps everything typed.
LEMMA TypeNext == TypeOK /\ [Next]_vars => TypeOK'
<1>1. TypeOK /\ UNCHANGED vars => TypeOK'
  BY DEF vars, TypeOK, ApiOK, PendingOK, CacheOK, WorkersOK, RestOK
<1> QED BY <1>1, TypeEnvironment, TypeDeliver, TypeTake, TypeReconcile, TypeWrite,
           TypeExpire DEF Next, Work

\* Whatever users, other servers, lost watches, failing calls and restarts do,
\* every object, event and copy is filed under its own name, and the worker has
\* the data its phase needs: it never walks on from a zone that is missing and
\* never stores the status of a zone in an entry.
THEOREM TypeCorrect == Spec => []TypeOK
BY TypeInit, TypeNext, PTL DEF Spec

-----------------------------------------------------------------------------
(* Versions.  A step keeps every copy agreeing with the object, because it  *)
(* either leaves the object alone, or deletes it, or gives it a version no  *)
(* copy has; and the copies it makes are made of copies that agree.         *)

AgreesNext(c, o) ==
    /\ c.rv <= version'[o]
    /\ c.rv = version'[o] /\ api'[o] # Absent =>
         c.spec = api'[o].spec /\ c.status = api'[o].status

Kept ==
    \A o \in Object : \A c \in AnyStored \cup AnyCopied :
      Agrees(c, o) => AgreesNext(c, o)

\* A step that leaves the store alone.
LEMMA StoreKept ==
    ASSUME StoreCurrent, UNCHANGED store
    PROVE  Kept /\ StoreCurrent'
BY DEF StoreCurrent, store, Kept, Agrees, AgreesNext

\* An event joins the events of an object.
LEMMA AnnounceAgrees ==
    ASSUME TypeOK, EventsAgree, Kept, NEW o \in Object, NEW v \in Sent(o),
           v \notin {Absent, Missed} => AgreesNext(v, o), Announce(o, v)
    PROVE  EventsAgree'
<1> SUFFICES ASSUME NEW s \in Server, NEW p \in Object,
                    NEW i \in 1 .. Len(pending'[s][p]),
                    pending'[s][p][i] \notin {Absent, Missed}
             PROVE  AgreesNext(pending'[s][p][i], p)
  BY DEF EventsAgree, Agrees, AgreesNext
<1>1. pending[s][p] \in Seq(Sent(p)) /\ pending[s] \in [Object -> Seq(AnyStored \cup {Absent, Missed})]
  BY DEF TypeOK, PendingOK
<1>2. ASSUME NEW j \in 1 .. Len(pending[s][p]), pending[s][p][j] \notin {Absent, Missed}
      PROVE  AgreesNext(pending[s][p][j], p)
  <2>1. pending[s][p][j] \in AnyStored
    BY <1>1, <1>2, StoredIsAny, ElementOfSeq DEF Sent
  <2> QED BY <1>2, <2>1 DEF EventsAgree, Kept
<1>3. pending'[s] = IF up[s] THEN [pending[s] EXCEPT ![o] = Append(@, v)] ELSE pending[s]
  BY DEF Announce
<1>4. CASE up[s] /\ p = o
  <2>1. pending'[s][p] = Append(pending[s][p], v)
    BY <1>1, <1>3, <1>4
  <2>2. CASE i = Len(pending[s][p]) + 1
    BY <1>1, <1>4, <2>1, <2>2, AppendProperties
  <2>3. CASE i # Len(pending[s][p]) + 1
    BY <1>1, <1>2, <1>4, <2>1, <2>3, AppendProperties
  <2> QED BY <2>2, <2>3
<1>5. CASE ~(up[s] /\ p = o)
  BY <1>1, <1>2, <1>3, <1>5
<1> QED BY <1>4, <1>5

\* A new version of an object.
LEMMA PublishAgrees ==
    ASSUME TypeOK, CopiesAreVersions, NEW o \in Object, NEW v \in Stored(o),
           v.rv = NewVersion(o), Publish(v)
    PROVE  Kept /\ StoreCurrent' /\ EventsAgree'
<1>1. v.name = o /\ version[o] \in Nat
  BY DEF Stored, TypeOK, ApiOK
<1>2. version' = [version EXCEPT ![o] = version[o] + 1] /\ api' = [api EXCEPT ![o] = v]
  BY <1>1 DEF Publish, NewVersion
<1>3. Kept
  <2> SUFFICES ASSUME NEW p \in Object, NEW c \in AnyStored \cup AnyCopied, Agrees(c, p)
               PROVE  AgreesNext(c, p)
    BY DEF Kept
  <2>1. c.rv \in Nat
    BY DEF AnyStored, AnyCopied
  <2> QED BY <1>1, <1>2, <2>1 DEF Agrees, AgreesNext, TypeOK, ApiOK
<1>4. StoreCurrent'
  BY <1>1, <1>2 DEF CopiesAreVersions, StoreCurrent, TypeOK, ApiOK, NewVersion
<1>5. AgreesNext(v, o)
  BY <1>1, <1>2 DEF AgreesNext, TypeOK, ApiOK, NewVersion
<1>6. EventsAgree'
  BY <1>1, <1>3, <1>5, AnnounceAgrees DEF Publish, Sent, CopiesAreVersions
<1> QED BY <1>3, <1>4, <1>6

\* An object disappears.
LEMMA DeleteAgrees ==
    ASSUME TypeOK, CopiesAreVersions, NEW o \in Object, Delete(o)
    PROVE  Kept /\ StoreCurrent' /\ EventsAgree'
<1>1. api' = [api EXCEPT ![o] = Absent] /\ version' = version
  BY DEF Delete
<1>2. Kept
  BY <1>1 DEF Kept, Agrees, AgreesNext, TypeOK, ApiOK
<1>3. StoreCurrent'
  BY <1>1 DEF CopiesAreVersions, StoreCurrent, TypeOK, ApiOK
<1>4. EventsAgree'
  BY <1>2, AnnounceAgrees DEF Delete, Sent, CopiesAreVersions
<1> QED BY <1>2, <1>3, <1>4

\* The copies of a step: the same, one replaced, or those of one worker.
LEMMA CachesKept ==
    ASSUME TypeOK, CachesAgree, Kept, UNCHANGED cache
    PROVE  CachesAgree'
<1>1. \A s \in Server, o \in Object : cache[s][o] # Absent => cache[s][o] \in AnyCopied
  BY DEF TypeOK, CacheOK
<1> QED BY <1>1 DEF CachesAgree, Kept, Agrees, AgreesNext

\* One copy is replaced by one that agrees.
LEMMA CacheReplaced ==
    ASSUME TypeOK, CachesAgree, Kept, NEW s \in Server, NEW o \in Object, NEW c,
           c # Absent => AgreesNext(c, o), cache' = [cache EXCEPT ![s][o] = c]
    PROVE  CachesAgree'
<1> SUFFICES ASSUME NEW t \in Server, NEW p \in Object, cache'[t][p] # Absent
             PROVE  AgreesNext(cache'[t][p], p)
  BY DEF CachesAgree, Agrees, AgreesNext
<1>1. CASE t = s /\ p = o
  BY <1>1 DEF TypeOK, CacheOK
<1>2. CASE ~(t = s /\ p = o)
  <2>1. cache'[t][p] = cache[t][p] /\ cache[t][p] \in AnyCopied \cup {Absent}
    BY <1>2 DEF TypeOK, CacheOK
  <2> QED BY <2>1 DEF CachesAgree, Kept
<1> QED BY <1>1, <1>2

\* The copy a worker holds agrees as long as no version is overwritten.
LEMMA WorkersKept ==
    ASSUME TypeOK, WorkersAgree, Kept, NEW s \in Server
    PROVE  worker[s].obj # Absent => AgreesNext(worker[s].obj, worker[s].key)
<1>1. worker[s].obj # Absent => worker[s].obj \in AnyCopied /\ worker[s].key \in Object
  BY DEF TypeOK, WorkersOK, WorkerOK, Worker
<1> QED BY <1>1 DEF WorkersAgree, Kept

\* One worker is replaced by one whose copy agrees.
LEMMA WorkerReplaced ==
    ASSUME TypeOK, WorkersAgree, Kept, NEW s \in Server, NEW w,
           w.obj # Absent => AgreesNext(w.obj, w.key),
           worker' = [worker EXCEPT ![s] = w]
    PROVE  WorkersAgree'
<1> SUFFICES ASSUME NEW t \in Server, worker'[t].obj # Absent
             PROVE  AgreesNext(worker'[t].obj, worker'[t].key)
  BY DEF WorkersAgree, Agrees, AgreesNext
<1> QED BY WorkersKept DEF TypeOK, WorkersOK

\* The events of one server are replaced.
LEMMA EventsReplaced ==
    ASSUME TypeOK, EventsAgree, Kept, NEW s \in Server, NEW p,
           pending' = [pending EXCEPT ![s] = p],
           \A o \in Object : \A i \in 1 .. Len(p[o]) :
             p[o][i] \notin {Absent, Missed} => AgreesNext(p[o][i], o)
    PROVE  EventsAgree'
<1> SUFFICES ASSUME NEW t \in Server, NEW o \in Object,
                    NEW i \in 1 .. Len(pending'[t][o]),
                    pending'[t][o][i] \notin {Absent, Missed}
             PROVE  AgreesNext(pending'[t][o][i], o)
  BY DEF EventsAgree, Agrees, AgreesNext
<1>1. CASE t = s
  BY <1>1 DEF TypeOK, PendingOK
<1>2. CASE t # s
  <2>1. pending'[t][o] = pending[t][o] /\ pending[t][o] \in Seq(Sent(o))
    BY <1>2 DEF TypeOK, PendingOK
  <2>2. pending[t][o][i] \in AnyStored
    BY <2>1, StoredIsAny, ElementOfSeq DEF Sent
  <2> QED BY <2>1, <2>2 DEF EventsAgree, Kept
<1> QED BY <1>1, <1>2

\* Events that stay where they are.
LEMMA EventsKept ==
    ASSUME TypeOK, EventsAgree, Kept, UNCHANGED pending
    PROVE  EventsAgree'
<1>1. ASSUME NEW s \in Server, NEW o \in Object, NEW i \in 1 .. Len(pending[s][o])
      PROVE  pending[s][o][i] \in AnyStored \cup {Absent, Missed}
  <2>1. pending[s][o] \in Seq(Sent(o))
    BY DEF TypeOK, PendingOK
  <2> QED BY <2>1, StoredIsAny, ElementOfSeq DEF Sent
<1> QED BY <1>1 DEF EventsAgree, Kept, Agrees, AgreesNext

\* A listed object is the present version.
LEMMA ListedAgrees ==
    ASSUME ApiOK, StoreCurrent, UNCHANGED store
    PROVE  \A o \in Object : \A i \in 1 .. Len(Listed[o]) :
             Listed[o][i] \notin {Absent, Missed} => AgreesNext(Listed[o][i], o)
BY DEF Listed, ApiOK, StoreCurrent, store, AgreesNext

\* A process that ends leaves nothing that could disagree.
LEMMA DieAgrees ==
    ASSUME TypeOK, CopiesAreVersions, Kept, NEW s \in Server, Die(s)
    PROVE  CachesAgree' /\ EventsAgree' /\ WorkersAgree'
<1> USE DEF CopiesAreVersions
<1>1. CachesAgree'
  <2> SUFFICES ASSUME NEW t \in Server, NEW o \in Object, cache'[t][o] # Absent
               PROVE  AgreesNext(cache'[t][o], o)
    BY DEF CachesAgree, Agrees, AgreesNext
  <2>1. t # s /\ cache'[t][o] = cache[t][o] /\ cache[t][o] \in AnyCopied \cup {Absent}
    BY DEF Die, NoCopies, TypeOK, CacheOK
  <2> QED BY <2>1 DEF CachesAgree, Kept
<1>2. EventsAgree'
  <2>1. \A o \in Object : \A i \in 1 .. Len(NoEvents[o]) : FALSE
    BY DEF NoEvents
  <2>2. pending' = [pending EXCEPT ![s] = NoEvents]
    BY DEF Die
  <2> HIDE DEF NoEvents
  <2> QED BY <2>1, <2>2, EventsReplaced
<1>3. WorkersAgree'
  <2>1. Idle.obj = Absent
    BY DEF Idle
  <2> QED BY <2>1, WorkerReplaced DEF Die
<1> QED BY <1>1, <1>2, <1>3

\* Initially the caches hold the initial objects, or nothing.
LEMMA VersionsInit == Init => CopiesAreVersions
<1> SUFFICES ASSUME Init PROVE CopiesAreVersions
  OBVIOUS
<1>1. \A o \in Object : api[o] = Initial[o] /\ version[o] = (IF Initial[o] = Absent THEN 0 ELSE 1)
  BY DEF Init
<1>2. StoreCurrent
  BY <1>1, EnvironmentIsTyped DEF StoreCurrent
<1>3. CachesAgree
  <2> SUFFICES ASSUME NEW s \in Server, NEW o \in Object, cache[s][o] # Absent
               PROVE  Agrees(cache[s][o], o)
    BY DEF CachesAgree
  <2>1. Initial[o] # Absent /\ cache[s][o] = Copy(s, Initial[o])
    BY DEF Init
  <2>2. Initial[o] \in Stored(o) /\ Initial[o].rv = 1
    BY <2>1, EnvironmentIsTyped
  <2> QED BY <1>1, <2>1, <2>2, CopyTyped DEF Agrees
<1>4. EventsAgree
  BY DEF Init, NoEvents, EventsAgree
<1>5. WorkersAgree
  BY DEF Init, Idle, WorkersAgree
<1> QED BY <1>2, <1>3, <1>4, <1>5 DEF CopiesAreVersions

\* Users, the aaS controller, the clock and the processes.
LEMMA VersionsEnvironment ==
    ASSUME TypeOK, CopiesAreVersions, Environment
    PROVE  CopiesAreVersions'
<1> USE DEF CopiesAreVersions
<1>1. ASSUME Kept, StoreCurrent', EventsAgree', UNCHANGED memory
      PROVE  CopiesAreVersions'
  <2>1. WorkersAgree'
    BY <1>1, WorkersKept DEF memory, WorkersAgree, Agrees, AgreesNext
  <2> QED BY <1>1, <2>1, CachesKept DEF memory
<1>2. ASSUME NEW o \in Object, NEW spec \in Specs[o], Create(o, spec)
      PROVE  CopiesAreVersions'
  <2> DEFINE v == [name |-> o, rv |-> NewVersion(o), spec |-> spec,
                   status |-> IF o \in Zone THEN NewZoneStatus ELSE NewEntryStatus]
  <2>1. NewZoneStatus \in ZoneStatus /\ NewEntryStatus \in EntryStatus
    BY MessagesTyped DEF NewZoneStatus, NewEntryStatus, ZoneStatus, EntryStatus,
                         State, Ref
  <2>2. v \in Stored(o)
    BY <2>1, EnvironmentIsTyped DEF Stored, StatusOf, NewVersion, TypeOK, ApiOK
  <2>3. Publish(v) /\ v.rv = NewVersion(o)
    BY <1>2 DEF Create
  <2> HIDE DEF v
  <2> QED BY <1>1, <1>2, <2>2, <2>3, PublishAgrees DEF Create
<1>3. ASSUME NEW o \in Object, NEW spec \in Specs[o], Update(o, spec)
      PROVE  CopiesAreVersions'
  <2> DEFINE v == [api[o] EXCEPT !.rv = NewVersion(o), !.spec = spec]
  <2>1. api[o] \in Stored(o) /\ NewVersion(o) \in Nat /\ spec \in SpecOf(o)
    BY <1>3, EnvironmentIsTyped DEF Update, NewVersion, TypeOK, ApiOK
  <2>2. v \in Stored(o) /\ v.rv = NewVersion(o)
    BY <2>1 DEF Stored
  <2>3. Publish(v)
    BY <1>3 DEF Update
  <2> HIDE DEF v
  <2> QED BY <1>1, <1>3, <2>2, <2>3, PublishAgrees DEF Update
<1>4. ASSUME NEW o \in Object, Delete(o) PROVE CopiesAreVersions'
  BY <1>1, <1>4, DeleteAgrees DEF Delete
<1>5. ASSUME NEW o \in Supervised, Supervise(o) PROVE CopiesAreVersions'
  <2> DEFINE v == [api[o] EXCEPT !.rv = NewVersion(o), !.status = Supervision(@)]
  <2>1. /\ o \in Object /\ api[o] \in Stored(o) /\ NewVersion(o) \in Nat
    BY <1>5, EnvironmentIsTyped DEF Supervise, NewVersion, TypeOK, ApiOK
  <2>2. Supervision(api[o].status) \in StatusOf(o)
    <3>1. CASE o \in Zone
      BY <2>1, <3>1 DEF Supervision, Stored, StatusOf, ZoneStatus, State
    <3>2. CASE o \notin Zone
      BY <2>1, <3>2 DEF Supervision, Stored, StatusOf, EntryStatus, State
    <3> QED BY <3>1, <3>2
  <2>3. v \in Stored(o) /\ v.rv = NewVersion(o)
    BY <2>1, <2>2 DEF Stored
  <2>4. Publish(v)
    BY <1>5 DEF Supervise
  <2> HIDE DEF v
  <2> QED BY <1>1, <1>5, <2>1, <2>3, <2>4, PublishAgrees DEF Supervise
<1>6. CASE Tick
  BY <1>1, <1>6, StoreKept, EventsKept DEF Tick
<1>7. ASSUME NEW s \in Server, Kill(s) PROVE CopiesAreVersions'
  BY <1>7, StoreKept, DieAgrees DEF Kill
<1>8. ASSUME NEW s \in Server, Start(s) PROVE CopiesAreVersions'
  <2>1. EventsAgree'
    BY <1>8, StoreKept, ListedAgrees, EventsReplaced DEF Start, TypeOK
  <2> QED BY <1>1, <1>8, <2>1, StoreKept DEF Start
<1>9. ASSUME NEW s \in Server, Relist(s) PROVE CopiesAreVersions'
  <2> DEFINE p == [o \in Object |-> IF api[o] = Absent /\ cache[s][o] # Absent
                                     THEN <<Missed>> ELSE Listed[o]]
  <2>1. ASSUME NEW o \in Object, NEW i \in 1 .. Len(p[o]), p[o][i] \notin {Absent, Missed}
        PROVE  AgreesNext(p[o][i], o)
    <3>1. p[o] = Listed[o]
      BY <2>1
    <3> QED BY <1>9, <2>1, <3>1, ListedAgrees DEF Relist, TypeOK
  <2>2. pending' = [pending EXCEPT ![s] = p]
    BY <1>9 DEF Relist
  <2> HIDE DEF p
  <2>3. EventsAgree'
    BY <1>9, <2>1, <2>2, StoreKept, EventsReplaced DEF Relist
  <2> QED BY <1>1, <1>9, <2>3, StoreKept DEF Relist
<1> HIDE DEF CopiesAreVersions
<1> QED BY <1>2, <1>3, <1>4, <1>5, <1>6, <1>7, <1>8, <1>9 DEF Environment, Users

\* The informers: what they deliver becomes a copy of the same version.
LEMMA VersionsDeliver ==
    ASSUME TypeOK, CopiesAreVersions, NEW s \in Server, Deliver(s)
    PROVE  CopiesAreVersions'
<1> USE DEF CopiesAreVersions
<1>1. ASSUME NEW o \in Object, UNCHANGED store, Incoming(s, o), Consume(s, o), NEW c,
             Replace(s, o, c), c # Absent => AgreesNext(c, o)
      PROVE  CopiesAreVersions'
  <2>1. Kept /\ StoreCurrent'
    BY <1>1, StoreKept
  <2>2. CachesAgree'
    BY <1>1, <2>1, CacheReplaced DEF Replace
  <2>3. EventsAgree'
    <3> DEFINE p == [pending[s] EXCEPT ![o] = Tail(@)]
    <3>1. pending' = [pending EXCEPT ![s] = p]
      BY <1>1 DEF Consume
    <3>2. ASSUME NEW u \in Object, NEW i \in 1 .. Len(p[u]), p[u][i] \notin {Absent, Missed}
          PROVE  AgreesNext(p[u][i], u)
      <4>1. pending[s] \in [Object -> Seq(AnyStored \cup {Absent, Missed})]
        BY DEF TypeOK, PendingOK
      <4>2. PICK j \in 1 .. Len(pending[s][u]) : p[u][i] = pending[s][u][j]
        <5>1. CASE u = o
          <6>1. p[u] = Tail(pending[s][o]) /\ pending[s][o] # <<>>
            BY <1>1, <4>1, <5>1 DEF Incoming
          <6>2. i + 1 \in 1 .. Len(pending[s][u]) /\ p[u][i] = pending[s][u][i + 1]
            BY <4>1, <5>1, <6>1, HeadTailProperties
          <6> QED BY <6>2
        <5>2. CASE u # o
          BY <4>1, <5>2
        <5> QED BY <5>1, <5>2
      <4>3. pending[s][u][j] \in AnyStored
        BY <3>2, <4>1, <4>2, ElementOfSeq
      <4> HIDE DEF p
      <4> QED BY <2>1, <3>2, <4>2, <4>3 DEF EventsAgree, Kept
    <3> HIDE DEF p
    <3> QED BY <2>1, <3>1, <3>2, EventsReplaced
  <2>4. WorkersAgree'
    <3> DEFINE w == [worker[s] EXCEPT !.alias = @ /\ worker[s].key # o]
    <3>1. worker' = [worker EXCEPT ![s] = w]
      BY <1>1 DEF Replace
    <3>2. w.obj = worker[s].obj /\ w.key = worker[s].key
      BY DEF TypeOK, WorkersOK, WorkerOK, Worker
    <3> HIDE DEF w
    <3> QED BY <2>1, <3>1, <3>2, WorkersKept, WorkerReplaced
  <2> QED BY <2>1, <2>2, <2>3, <2>4
<1>2. ASSUME NEW o \in Object, Incoming(s, o), Event(s, o) \notin {Absent, Missed},
             UNCHANGED store
      PROVE  AgreesNext(Copy(s, Event(s, o)), o)
  <2>1. Event(s, o) \in Stored(o)
    BY <1>2, EventTyped DEF TypeOK
  <2>2. Event(s, o) = pending[s][o][1] /\ 1 \in 1 .. Len(pending[s][o])
    BY <1>2, HeadTailProperties DEF Incoming, Event, TypeOK, PendingOK
  <2>3. Agrees(Event(s, o), o)
    BY <1>2, <2>2 DEF EventsAgree
  <2> QED BY <1>2, <2>1, <2>3, CopyTyped DEF Agrees, AgreesNext, store
<1>3. ASSUME NEW o \in Object, DeliverAdd(s, o) PROVE CopiesAreVersions'
  BY <1>1, <1>2, <1>3 DEF DeliverAdd
<1>4. ASSUME NEW o \in Object, DeliverUpdate(s, o) PROVE CopiesAreVersions'
  <2>1. Replace(s, o, Copy(s, Event(s, o)))
    BY <1>4 DEF DeliverUpdate
  <2> QED BY <1>1, <1>2, <1>4, <2>1 DEF DeliverUpdate
<1>5. ASSUME NEW o \in Object, DeliverDelete(s, o) PROVE CopiesAreVersions'
  BY <1>1, <1>5 DEF DeliverDelete
<1>6. ASSUME NEW o \in Object, UpdatePanics(s, o) \/ DeletePanics(s, o)
      PROVE  CopiesAreVersions'
  <2>1. Die(s) /\ UNCHANGED store
    BY <1>6 DEF UpdatePanics, DeletePanics
  <2> QED BY <2>1, StoreKept, DieAgrees
<1> HIDE DEF CopiesAreVersions
<1> QED BY <1>3, <1>4, <1>5, <1>6 DEF Deliver

\* Steps of the worker that leave the store, the events and the caches alone.
LEMMA WorkerSteps ==
    ASSUME TypeOK, CopiesAreVersions, NEW s \in Server, NEW w, Becomes(s, w),
           w.obj # Absent => Agrees(w.obj, w.key),
           UNCHANGED <<store, pending, cache>>
    PROVE  CopiesAreVersions'
<1>1. Kept /\ StoreCurrent'
  BY StoreKept DEF CopiesAreVersions
<1>2. w.obj # Absent => AgreesNext(w.obj, w.key)
  BY DEF Agrees, AgreesNext, store
<1> QED BY <1>1, <1>2, CachesKept, EventsKept, WorkerReplaced
        DEF CopiesAreVersions, Becomes

\* The worker takes a copy out of the cache.
LEMMA VersionsTake ==
    ASSUME TypeOK, CopiesAreVersions, NEW s \in Server, Take(s)
    PROVE  CopiesAreVersions'
<1>1. ASSUME NEW k \in Object, TakeZone(s, k) PROVE CopiesAreVersions'
  <2> DEFINE w == [Idle EXCEPT !.pc = "walk", !.key = k, !.obj = cache[s][k],
                               !.alias = TRUE, !.at = cache[s][k]]
  <2>1. w.obj = cache[s][k] /\ w.key = k
    BY DEF Idle
  <2>2. Becomes(s, w) /\ UNCHANGED <<store, pending, cache>>
    BY <1>1 DEF TakeZone
  <2> HIDE DEF w
  <2> QED BY <2>1, <2>2, WorkerSteps DEF CopiesAreVersions, CachesAgree
<1>2. ASSUME NEW k \in Object, TakeDeletedZone(s, k) PROVE CopiesAreVersions'
  <2>1. Follow(k, "all").obj = Absent
    BY DEF Follow, Idle
  <2> QED BY <1>2, <2>1, WorkerSteps DEF TakeDeletedZone
<1>3. ASSUME NEW k \in Object, TakeEntry(s, k) PROVE CopiesAreVersions'
  <2> DEFINE w == [Idle EXCEPT !.pc = "lookup", !.key = k,
                               !.obj = cache[s][k], !.alias = TRUE]
  <2>1. w.obj = cache[s][k] /\ w.key = k
    BY DEF Idle
  <2>2. Becomes(s, w) /\ UNCHANGED <<store, pending, cache>>
    BY <1>3 DEF TakeEntry
  <2> HIDE DEF w
  <2> QED BY <2>1, <2>2, WorkerSteps DEF CopiesAreVersions, CachesAgree
<1>4. ASSUME NEW k \in Object, DropEntry(s, k) PROVE CopiesAreVersions'
  <2>1. UNCHANGED <<store, pending, cache, worker>>
    BY <1>4 DEF DropEntry
  <2> QED BY <2>1 DEF CopiesAreVersions, store, StoreCurrent, CachesAgree,
                      EventsAgree, WorkersAgree, Agrees
<1> QED BY <1>1, <1>2, <1>3, <1>4 DEF Take

\* A decision on an entry does not touch its copy.
LEMMA EntryUpdateAgrees ==
    ASSUME TypeOK, CopiesAreVersions, NEW s \in Server, worker[s].key \in Object,
           worker[s].obj \in Copied(worker[s].key), NEW root, NEW names, NEW err,
           UpdateEntry(s, root, names, err), UNCHANGED <<store, pending, cache>>
    PROVE  CopiesAreVersions'
<1> DEFINE e == worker[s].obj
           w == Submit(e, EntryStatusOf(e, root, names, err), "none")
<1>1. w.obj = e /\ w.key = worker[s].key /\ e # Absent /\ Idle.obj = Absent
  BY NamesAreDistinct DEF Submit, Idle, Copied
<1>2. Agrees(w.obj, w.key)
  BY <1>1 DEF CopiesAreVersions, WorkersAgree
<1>3. Becomes(s, Idle) \/ Becomes(s, w)
  BY DEF UpdateEntry
<1> HIDE DEF w, e
<1> QED BY <1>1, <1>2, <1>3, WorkerSteps

\* A decision on a zone assigns fields of the cached copy that are no part of the version.
LEMMA ZoneUpdateAgrees ==
    ASSUME TypeOK, CopiesAreVersions, NEW s \in Server, NEW k \in Zone,
           NEW z \in Copied(k), Agrees(z, k),
           NEW modAfter, NEW after, UpdateZone(s, z, modAfter, after),
           UNCHANGED <<store, pending>>
    PROVE  CopiesAreVersions'
<1>1. Kept /\ StoreCurrent'
  BY StoreKept DEF CopiesAreVersions
<1>2. AgreesNext(z, k) /\ z.name = k /\ k \in Object
  BY DEF Agrees, AgreesNext, store, Copied, Object
<1>3. CachesAgree'
  <2>1. CASE worker[s].alias
    BY <1>1, <1>2, <2>1, CacheReplaced DEF UpdateZone, Amend, CopiesAreVersions
  <2>2. CASE ~worker[s].alias
    BY <1>1, <2>2, CachesKept DEF UpdateZone, Amend, CopiesAreVersions
  <2> QED BY <2>1, <2>2
<1>4. WorkersAgree'
  <2> DEFINE v == Submit(z, ZoneStatusOf(z), modAfter)
             w == Follow(z.name, after)
  <2>1. v.obj = z /\ v.key = k /\ w.obj = Absent
    BY <1>2 DEF Submit, Follow, Idle
  <2>2. Becomes(s, v) \/ Becomes(s, w)
    BY DEF UpdateZone
  <2> HIDE DEF v, w
  <2> QED BY <1>1, <1>2, <2>1, <2>2, WorkerReplaced DEF Becomes, CopiesAreVersions
<1> QED BY <1>1, <1>3, <1>4, EventsKept DEF CopiesAreVersions

\* The worker reconciles, and triggers.
LEMMA VersionsReconcile ==
    ASSUME TypeOK, CopiesAreVersions, NEW s \in Server, Reconcile(s)
    PROVE  CopiesAreVersions'
<1> DEFINE c == worker[s].obj
           k == worker[s].key
<1>1. c # Absent => Agrees(c, k)
  BY DEF CopiesAreVersions, WorkersAgree
<1>2. Idle.obj = Absent
  BY DEF Idle
<1>3. ASSUME Becomes(s, Idle), UNCHANGED <<store, pending, cache>>
      PROVE  CopiesAreVersions'
  BY <1>2, <1>3, WorkerSteps
<1>4. ASSUME WalkUp(s) PROVE CopiesAreVersions'
  <2> DEFINE v == [worker[s] EXCEPT !.at = Parent(s),
                                    !.names = AggregateNames(@, Parent(s))]
  <2>1. v.obj = c /\ v.key = k
    BY DEF TypeOK, WorkersOK, WorkerOK, Worker
  <2>2. Becomes(s, v)
    BY <1>4 DEF WalkUp
  <2> HIDE DEF v
  <2> QED BY <1>1, <1>4, <2>1, <2>2, WorkerSteps DEF WalkUp
<1>5. ASSUME ReconcilesZone(s)
      PROVE  k \in Zone /\ c \in Copied(k) /\ Agrees(c, k) /\ worker[s].at.plain \in BOOLEAN
  <2>1. k \in Zone /\ c \in Copied(k) /\ k \in Object /\ worker[s].at \in CopiedZone
    BY <1>5, WalkTyped DEF ReconcilesZone
  <2> QED BY <1>1, <2>1, NamesAreDistinct DEF CopiedZone
<1>6. ASSUME ZoneServed(s) PROVE CopiesAreVersions'
  <2> DEFINE z == [c EXCEPT !.plain = worker[s].at.plain]
  <2>1. k \in Zone /\ z \in Copied(k) /\ Agrees(z, k)
    BY <1>5, <1>6 DEF ZoneServed, Copied, Agrees
  <2>2. UpdateZone(s, z, "all", "all")
    BY <1>6 DEF ZoneServed
  <2> HIDE DEF z
  <2> QED BY <1>6, <2>1, <2>2, ZoneUpdateAgrees DEF ZoneServed
<1>7. ASSUME ZoneOrphaned(s) PROVE CopiesAreVersions'
  <2> DEFINE z == [c EXCEPT !.err = IF @ = <<>> THEN NoRootZone ELSE @]
  <2>1. k \in Zone /\ z \in Copied(k) /\ Agrees(z, k)
    BY <1>5, <1>7, MessagesTyped DEF ZoneOrphaned, Copied, Agrees
  <2>2. UpdateZone(s, z, "entries", "none")
    BY <1>7 DEF ZoneOrphaned
  <2> HIDE DEF z
  <2> QED BY <1>7, <2>1, <2>2, ZoneUpdateAgrees DEF ZoneOrphaned
<1>8. ASSUME ZoneIgnored(s) PROVE CopiesAreVersions'
  BY <1>3, <1>8 DEF ZoneIgnored
<1>9. ASSUME Busy(s, "lookup") PROVE k \in Object /\ c \in Copied(k)
  BY <1>9 DEF Busy, TypeOK, WorkersOK, WorkerOK, Object
<1>10. ASSUME LookupZone(s) PROVE CopiesAreVersions'
  <2> DEFINE v == [worker[s] EXCEPT
                     !.pc = "walk", !.zone = ZoneOfEntry(s), !.at = ZoneOfEntry(s),
                     !.names = AggregateNames(worker[s].obj.spec.names, ZoneOfEntry(s))]
  <2>1. v.obj = c /\ v.key = k
    BY DEF TypeOK, WorkersOK, WorkerOK, Worker
  <2>2. Becomes(s, v)
    BY <1>10 DEF LookupZone
  <2> HIDE DEF v
  <2> QED BY <1>1, <1>10, <2>1, <2>2, WorkerSteps DEF LookupZone
<1>11. ASSUME ZoneMissing(s) PROVE CopiesAreVersions'
  BY <1>9, <1>11, EntryUpdateAgrees DEF ZoneMissing
<1>12. ASSUME ReconcilesEntry(s) PROVE k \in Object /\ c \in Copied(k)
  BY <1>12, WalkTyped DEF ReconcilesEntry
<1>13. ASSUME EntryServed(s) PROVE CopiesAreVersions'
  BY <1>12, <1>13, EntryUpdateAgrees DEF EntryServed
<1>14. ASSUME EntryOrphaned(s) PROVE CopiesAreVersions'
  BY <1>3, <1>12, <1>14, EntryUpdateAgrees DEF EntryOrphaned
<1>15. ASSUME EntryForeign(s) PROVE CopiesAreVersions'
  BY <1>3, <1>12, <1>15, EntryUpdateAgrees DEF EntryForeign
<1>16. ASSUME TriggerEntries(s) PROVE CopiesAreVersions'
  <2> DEFINE v == [worker[s] EXCEPT !.pc = "nested"]
  <2>1. v.obj = c /\ v.key = k
    BY DEF TypeOK, WorkersOK, WorkerOK, Worker
  <2>2. Becomes(s, v) \/ Becomes(s, Idle)
    BY <1>16 DEF TriggerEntries
  <2> HIDE DEF v
  <2> QED BY <1>1, <1>3, <1>16, <2>1, <2>2, WorkerSteps DEF TriggerEntries
<1>17. ASSUME TriggerNested(s) PROVE CopiesAreVersions'
  BY <1>3, <1>17 DEF TriggerNested
<1> QED BY <1>4, <1>6, <1>7, <1>8, <1>10, <1>11, <1>13, <1>14, <1>15, <1>16, <1>17
        DEF Reconcile

\* The API server answers, or the call fails.
LEMMA VersionsWrite ==
    ASSUME TypeOK, CopiesAreVersions, NEW s \in Server, Answer(s) \/ Fault(s)
    PROVE  CopiesAreVersions'
<1> DEFINE k == worker[s].key
           v == [api[k] EXCEPT !.rv = NewVersion(k), !.status = worker[s].status]
<1>1. Idle.obj = Absent /\ Follow(k, worker[s].after).obj = Absent
  BY DEF Idle, Follow
<1>2. k \in Object /\ worker[s].status \in StatusOf(k)
  BY DEF Answer, Fault, WriteAccepted, WriteRejected, WriteFails, WriteUnanswered,
         Busy, TypeOK, WorkersOK, WorkerOK
<1>3. ASSUME Fresh(s), Apply(s), UNCHANGED cache, NEW w, Becomes(s, w), w.obj = Absent
      PROVE  CopiesAreVersions'
  <2>1. api[k] \in Stored(k) /\ NewVersion(k) \in Nat
    BY <1>2, <1>3 DEF Fresh, TypeOK, ApiOK, NewVersion
  <2>2. v \in Stored(k) /\ v.rv = NewVersion(k)
    BY <1>2, <2>1 DEF Stored
  <2>3. Publish(v)
    BY <1>3 DEF Apply
  <2> HIDE DEF v
  <2>4. Kept /\ StoreCurrent' /\ EventsAgree'
    BY <1>2, <2>2, <2>3, PublishAgrees
  <2> QED BY <1>3, <2>4, CachesKept, WorkerReplaced DEF Becomes, CopiesAreVersions
<1>4. ASSUME WriteAccepted(s) PROVE CopiesAreVersions'
  BY <1>1, <1>3, <1>4 DEF WriteAccepted
<1>5. ASSUME WriteUnanswered(s) PROVE CopiesAreVersions'
  BY <1>1, <1>3, <1>5 DEF WriteUnanswered, Retry
<1>6. ASSUME WriteRejected(s) \/ WriteFails(s) PROVE CopiesAreVersions'
  BY <1>1, <1>6, WorkerSteps DEF WriteRejected, WriteFails, Retry
<1> QED BY <1>4, <1>5, <1>6 DEF Answer, Fault

\* Every step keeps copies versions.
LEMMA VersionsNext == TypeOK /\ CopiesAreVersions /\ [Next]_vars => CopiesAreVersions'
<1> SUFFICES ASSUME TypeOK, CopiesAreVersions, [Next]_vars PROVE CopiesAreVersions'
  OBVIOUS
<1>1. ASSUME UNCHANGED <<store, pending, cache, worker>> PROVE CopiesAreVersions'
  BY <1>1 DEF CopiesAreVersions, store, StoreCurrent, CachesAgree, EventsAgree,
              WorkersAgree, Agrees
<1>2. ASSUME NEW s \in Server, Expire(s) PROVE CopiesAreVersions'
  BY <1>1, <1>2 DEF Expire, Requeue
<1>3. CASE UNCHANGED vars
  BY <1>1, <1>3 DEF vars, store
<1> QED BY <1>2, <1>3, VersionsEnvironment, VersionsDeliver, VersionsTake,
           VersionsReconcile, VersionsWrite DEF Next, Work

\* The resource version is a sound guard of the status updates, for any number
\* of servers, zones, entries and restarts: a copy that has the version of the
\* object also has its specification and status, so an accepted status update
\* was computed from the specification it is stored beside.
THEOREM Versions == Spec => []CopiesAreVersions
<1>1. Init => TypeOK /\ CopiesAreVersions
  BY TypeInit, VersionsInit
<1>2. (TypeOK /\ CopiesAreVersions) /\ [Next]_vars => (TypeOK /\ CopiesAreVersions)'
  BY TypeNext, VersionsNext
<1> QED BY <1>1, <1>2, PTL DEF Spec
=============================================================================
