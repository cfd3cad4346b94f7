---------------------------- MODULE VerdictProofs ----------------------------
(***************************************************************************)
(* A verdict fits the specification it is stored beside, for any number of *)
(* servers and objects.  The worker only ever stores what it computed from *)
(* a copy (VerdictsInFlight), and the API server only accepts it while     *)
(* that copy has the specification of the object (CopiesAreVersions).      *)
(***************************************************************************)
EXTENDS ControllerProofs

-----------------------------------------------------------------------------
(* Names under names. *)

\* A name followed by a domain still starts with what the name starts with.
LEMMA StartsWithConcat ==
    ASSUME NEW m \in Name, NEW n \in Name, NEW d \in Name, StartsWith(n, m)
    PROVE  StartsWith(n \o d, m)
<1>1. /\ Len(m) \in Nat /\ Len(n) \in Nat /\ Len(d) \in Nat
      /\ Len(n \o d) = Len(n) + Len(d)
  BY LenProperties, ConcatProperties DEF Name
<1>2. Len(m) <= Len(n \o d)
  BY <1>1 DEF StartsWith
<1>3. SubSeq(n \o d, 1, Len(m)) = SubSeq(n, 1, Len(m))
  <2>1. CASE Len(m) = 0
    BY <1>1, <2>1
  <2>2. CASE Len(m) # 0
    <3>1. 1 \in 1 .. Len(n) /\ Len(m) \in 1 .. Len(n)
      BY <1>1, <2>2 DEF StartsWith
    <3> QED BY <3>1, SubSeqOfConcat1 DEF Name
  <2> QED BY <2>1, <2>2
<1> QED BY <1>2, <1>3 DEF StartsWith

\* So the names along a line of zones stay under the names of the entry.
LEMMA AggregateUnder ==
    ASSUME NEW names \in SUBSET Name, NEW wanted \in SUBSET Name,
           NEW z \in CopiedZone, AreUnder(names, wanted)
    PROVE  AreUnder(AggregateNames(names, z), wanted)
<1> SUFFICES ASSUME NEW x \in AggregateNames(names, z)
             PROVE  \E m \in wanted : StartsWith(x, m)
  BY DEF AreUnder
<1>1. PICK n \in names, d \in z.spec.domains : x = n \o d
  BY DEF AggregateNames
<1>2. PICK m \in wanted : StartsWith(n, m)
  BY DEF AreUnder
<1>3. d \in Name /\ n \in Name /\ m \in Name
  BY DEF CopiedZone, ZoneSpec
<1> QED BY <1>1, <1>2, <1>3, StartsWithConcat

\* The names of an entry start with themselves.
LEMMA UnderThemselves ==
    ASSUME NEW names \in SUBSET Name
    PROVE  AreUnder(names, names)
<1>1. ASSUME NEW n \in names PROVE StartsWith(n, n)
  BY SubSeqFull, LenProperties DEF StartsWith, Name
<1> QED BY <1>1 DEF AreUnder

-----------------------------------------------------------------------------
(* What a step leaves in the caches and with the workers. *)

CacheVerdicts == \A s \in Server : \A e \in Entry :
                   cache[s][e] # Absent => CopyVerdict(cache[s][e])

\* A new copy of an entry has the error of its specification.
LEMMA CopyHasVerdict ==
    ASSUME NEW s \in Server, NEW e \in Entry, NEW v \in Stored(e)
    PROVE  CopyVerdict(Copy(s, v))
BY NamesAreDistinct DEF CopyVerdict, Copy, ToEntry, Stored

\* One copy is replaced by one with the error of its specification.
LEMMA CopyReplaced ==
    ASSUME TypeOK, VerdictsInFlight, NEW s \in Server, NEW o \in Object, NEW c,
           o \in Entry /\ c # Absent => CopyVerdict(c),
           cache' = [cache EXCEPT ![s][o] = c]
    PROVE  CacheVerdicts'
<1> SUFFICES ASSUME NEW t \in Server, NEW e \in Entry, cache'[t][e] # Absent
             PROVE  CopyVerdict(cache'[t][e])
  BY DEF CacheVerdicts, CopyVerdict
<1>1. e \in Object
  BY DEF Object
<1>2. CASE t = s /\ e = o
  BY <1>2 DEF TypeOK, CacheOK
<1>3. CASE ~(t = s /\ e = o)
  <2>1. cache'[t][e] = cache[t][e]
    BY <1>1, <1>3 DEF TypeOK, CacheOK
  <2> QED BY <2>1 DEF VerdictsInFlight
<1> QED BY <1>2, <1>3

\* One worker is replaced by one whose verdict fits its copy.
LEMMA VerdictsReplaced ==
    ASSUME TypeOK, VerdictsInFlight, CacheVerdicts', NEW s \in Server, NEW w,
           WorkerVerdict(w), worker' = [worker EXCEPT ![s] = w]
    PROVE  VerdictsInFlight'
<1>1. ASSUME NEW t \in Server PROVE WorkerVerdict(worker'[t])
  <2>1. worker'[t] = IF t = s THEN w ELSE worker[t]
    BY DEF TypeOK, WorkersOK
  <2> QED BY <2>1 DEF VerdictsInFlight
<1>2. \A t \in Server : WorkerVerdict(worker[t])'
  BY <1>1 DEF WorkerVerdict, CopyVerdict
<1> QED BY <1>2 DEF VerdictsInFlight, CacheVerdicts

\* Steps that leave caches and workers alone.
LEMMA VerdictsKept ==
    ASSUME VerdictsInFlight, UNCHANGED <<cache, worker>>
    PROVE  VerdictsInFlight'
BY DEF VerdictsInFlight, WorkerVerdict, CopyVerdict

\* Steps that leave the caches alone.
LEMMA CopiesKept ==
    ASSUME VerdictsInFlight, UNCHANGED cache
    PROVE  CacheVerdicts'
BY DEF VerdictsInFlight, CacheVerdicts, CopyVerdict

\* A worker that holds no copy, or a zone, has no verdict on an entry.
LEMMA NoVerdict ==
    /\ WorkerVerdict(Idle)
    /\ \A k, after : WorkerVerdict(Follow(k, after))
    /\ \A z, status, after : z.name \notin Entry => WorkerVerdict(Submit(z, status, after))
BY DEF WorkerVerdict, Idle, Follow, Submit

\* A process that ends has no verdicts.
LEMMA DieVerdicts ==
    ASSUME TypeOK, VerdictsInFlight, NEW s \in Server, Die(s)
    PROVE  VerdictsInFlight'
<1>1. CacheVerdicts'
  <2> SUFFICES ASSUME NEW t \in Server, NEW e \in Entry, cache'[t][e] # Absent
               PROVE  CopyVerdict(cache'[t][e])
    BY DEF CacheVerdicts, CopyVerdict
  <2>1. cache'[t][e] = cache[t][e]
    BY DEF Die, NoCopies, TypeOK, CacheOK, Object
  <2> QED BY <2>1 DEF VerdictsInFlight
<1> QED BY <1>1, NoVerdict, VerdictsReplaced DEF Die

\* Initially no worker has a verdict.
LEMMA VerdictsInit == Init => VerdictsInFlight
<1> SUFFICES ASSUME Init, NEW s \in Server
             PROVE  /\ \A e \in Entry : cache[s][e] # Absent => CopyVerdict(cache[s][e])
                    /\ WorkerVerdict(worker[s])
  BY DEF VerdictsInFlight
<1>1. ASSUME NEW e \in Entry, cache[s][e] # Absent PROVE CopyVerdict(cache[s][e])
  <2>1. e \in Object /\ Initial[e] # Absent /\ cache[s][e] = Copy(s, Initial[e])
    BY <1>1 DEF Init, Object
  <2>2. Initial[e] \in Stored(e)
    BY <2>1, EnvironmentIsTyped
  <2> QED BY <2>1, <2>2, CopyHasVerdict
<1>2. worker[s] = Idle
  BY DEF Init
<1> QED BY <1>1, <1>2, NoVerdict

\* Users, the aaS controller, the clock and the processes.
LEMMA VerdictsEnvironment ==
    ASSUME TypeOK, VerdictsInFlight, Environment
    PROVE  VerdictsInFlight'
<1>1. ASSUME UNCHANGED memory PROVE VerdictsInFlight'
  BY <1>1, VerdictsKept DEF memory
<1>2. ASSUME Users PROVE VerdictsInFlight'
  BY <1>1, <1>2 DEF Users, Create, Update, Delete
<1>3. ASSUME NEW o \in Supervised, Supervise(o) PROVE VerdictsInFlight'
  BY <1>1, <1>3 DEF Supervise
<1>4. CASE Tick
  BY <1>1, <1>4 DEF Tick
<1>5. ASSUME NEW s \in Server, Kill(s) PROVE VerdictsInFlight'
  BY <1>5, DieVerdicts DEF Kill
<1>6. ASSUME NEW s \in Server, Start(s) \/ Relist(s) PROVE VerdictsInFlight'
  BY <1>1, <1>6 DEF Start, Relist
<1> QED BY <1>2, <1>3, <1>4, <1>5, <1>6 DEF Environment

\* The informers: a new copy comes with its error, the worker keeps the old one.
LEMMA VerdictsDeliver ==
    ASSUME TypeOK, VerdictsInFlight, NEW s \in Server, Deliver(s)
    PROVE  VerdictsInFlight'
<1>1. ASSUME NEW o \in Object, NEW c, Replace(s, o, c),
             o \in Entry /\ c # Absent => CopyVerdict(c)
      PROVE  VerdictsInFlight'
  <2> DEFINE w == [worker[s] EXCEPT !.alias = @ /\ worker[s].key # o]
  <2>1. WorkerVerdict(worker[s]) /\ worker[s] \in Worker
    BY DEF VerdictsInFlight, TypeOK, WorkersOK, WorkerOK
  <2>2. WorkerVerdict(w)
    BY <2>1 DEF WorkerVerdict, Worker
  <2>3. worker' = [worker EXCEPT ![s] = w] /\ CacheVerdicts'
    BY <1>1, CopyReplaced DEF Replace
  <2> HIDE DEF w
  <2> QED BY <2>2, <2>3, VerdictsReplaced
<1>2. ASSUME NEW o \in Object, Incoming(s, o), Event(s, o) \notin {Absent, Missed}
      PROVE  o \in Entry => CopyVerdict(Copy(s, Event(s, o)))
  BY <1>2, EventTyped, CopyHasVerdict DEF TypeOK
<1>3. ASSUME NEW o \in Object, DeliverAdd(s, o) PROVE VerdictsInFlight'
  BY <1>1, <1>2, <1>3 DEF DeliverAdd
<1>4. ASSUME NEW o \in Object, DeliverUpdate(s, o) PROVE VerdictsInFlight'
  <2>1. Replace(s, o, Copy(s, Event(s, o)))
    BY <1>4 DEF DeliverUpdate
  <2> QED BY <1>1, <1>2, <1>4, <2>1 DEF DeliverUpdate
<1>5. ASSUME NEW o \in Object, DeliverDelete(s, o) PROVE VerdictsInFlight'
  BY <1>1, <1>5 DEF DeliverDelete
<1>6. ASSUME NEW o \in Object, UpdatePanics(s, o) \/ DeletePanics(s, o)
      PROVE  VerdictsInFlight'
  BY <1>6, DieVerdicts DEF UpdatePanics, DeletePanics
<1> QED BY <1>3, <1>4, <1>5, <1>6 DEF Deliver

\* The worker takes a copy out of the cache.
LEMMA VerdictsTake ==
    ASSUME TypeOK, VerdictsInFlight, NEW s \in Server, Take(s)
    PROVE  VerdictsInFlight'
<1>1. ASSUME NEW k \in Object, TakeZone(s, k) PROVE VerdictsInFlight'
  <2> DEFINE w == [Idle EXCEPT !.pc = "walk", !.key = k, !.obj = cache[s][k],
                               !.alias = TRUE, !.at = cache[s][k]]
  <2>1. WorkerVerdict(w)
    BY <1>1, NamesAreDistinct DEF WorkerVerdict, TakeZone, Idle
  <2>2. Becomes(s, w) /\ UNCHANGED cache
    BY <1>1 DEF TakeZone
  <2> HIDE DEF w
  <2> QED BY <2>1, <2>2, CopiesKept, VerdictsReplaced DEF Becomes
<1>2. ASSUME NEW k \in Object, TakeDeletedZone(s, k) PROVE VerdictsInFlight'
  BY <1>2, NoVerdict, CopiesKept, VerdictsReplaced DEF TakeDeletedZone, Becomes
<1>3. ASSUME NEW k \in Object, TakeEntry(s, k) PROVE VerdictsInFlight'
  <2> DEFINE w == [Idle EXCEPT !.pc = "lookup", !.key = k,
                               !.obj = cache[s][k], !.alias = TRUE]
  <2>1. WorkerVerdict(w)
    BY <1>3 DEF WorkerVerdict, TakeEntry, Idle, VerdictsInFlight
  <2>2. Becomes(s, w) /\ UNCHANGED cache
    BY <1>3 DEF TakeEntry
  <2> HIDE DEF w
  <2> QED BY <2>1, <2>2, CopiesKept, VerdictsReplaced DEF Becomes
<1>4. ASSUME NEW k \in Object, DropEntry(s, k) PROVE VerdictsInFlight'
  BY <1>4, VerdictsKept DEF DropEntry
<1> QED BY <1>1, <1>2, <1>3, <1>4 DEF Take

\* The status an entry gets has the error of the copy and the given names.
LEMMA StatusVerdict ==
    ASSUME NEW e \in Entry, NEW c \in Copied(e), NEW root, NEW names, NEW err
    PROVE  LET st == EntryStatusOf(c, root, names, err) IN
           /\ st.names = names
           /\ st.state = "Ok" /\ c.status.state # "Ok" => c.err = <<>>
<1>1. c.status \in EntryStatus
  BY NamesAreDistinct DEF Copied, StatusOf
<1> DEFINE why == IF c.err # <<>> THEN c.err ELSE err
<1>2. why = <<>> => c.err = <<>>
  OBVIOUS
<1> HIDE DEF why
<1>3. CASE c.plain
  BY <1>1, <1>2, <1>3 DEF EntryStatusOf, EntryStatus, why
<1>4. CASE ~c.plain
  BY <1>1, <1>4 DEF EntryStatusOf, EntryStatus
<1> QED BY <1>3, <1>4

\* A decision on an entry gives names under those of its copy, and its error.
LEMMA EntryVerdicts ==
    ASSUME TypeOK, VerdictsInFlight, NEW s \in Server, worker[s].key \in Entry,
           worker[s].obj \in Copied(worker[s].key),
           NEW root, NEW names, AreUnder(names, worker[s].obj.spec.names), NEW err,
           UpdateEntry(s, root, names, err), UNCHANGED cache
    PROVE  VerdictsInFlight'
<1> DEFINE e == worker[s].obj
           st == EntryStatusOf(e, root, names, err)
           w == Submit(e, st, "none")
<1>1. e.name = worker[s].key /\ e # Absent
  BY NamesAreDistinct DEF Copied, Object
<1>2. CopyVerdict(e)
  BY <1>1 DEF VerdictsInFlight, WorkerVerdict
<1>3. st.names = names /\ (st.state = "Ok" /\ e.status.state # "Ok" => e.err = <<>>)
  BY StatusVerdict
<1> HIDE DEF st
<1>4. w.key = e.name /\ w.obj = e /\ w.status = st /\ w.pc = "write"
  BY DEF Submit, Idle
<1> HIDE DEF w
<1>5. WorkerVerdict(w)
  BY <1>2, <1>3, <1>4 DEF WorkerVerdict
<1>6. Becomes(s, w) \/ Becomes(s, Idle)
  BY DEF UpdateEntry, w, st
<1> QED BY <1>5, <1>6, NoVerdict, CopiesKept, VerdictsReplaced DEF Becomes

\* A decision on a zone gives no verdict on an entry.
LEMMA ZoneVerdicts ==
    ASSUME TypeOK, VerdictsInFlight, NEW s \in Server, NEW k \in Zone,
           NEW z \in Copied(k), NEW modAfter, NEW after,
           UpdateZone(s, z, modAfter, after)
    PROVE  VerdictsInFlight'
<1>1. z.name = k /\ k \notin Entry /\ k \in Object
  BY NamesAreDistinct DEF Copied, Object
<1>2. CacheVerdicts'
  <2>1. CASE worker[s].alias
    BY <1>1, <2>1, CopyReplaced DEF UpdateZone, Amend
  <2>2. CASE ~worker[s].alias
    BY <2>2, CopiesKept DEF UpdateZone, Amend
  <2> QED BY <2>1, <2>2
<1> QED BY <1>1, <1>2, NoVerdict, VerdictsReplaced DEF UpdateZone, Becomes

\* The worker reconciles, and triggers.
LEMMA VerdictsReconcile ==
    ASSUME TypeOK, VerdictsInFlight, NEW s \in Server, Reconcile(s)
    PROVE  VerdictsInFlight'
<1> DEFINE c == worker[s].obj
           k == worker[s].key
<1>1. WorkerVerdict(worker[s]) /\ WorkerOK(worker[s]) /\ worker[s] \in Worker
  BY DEF VerdictsInFlight, TypeOK, WorkersOK, WorkerOK
<1>2. AreUnder({}, c.spec.names)
  BY DEF AreUnder
<1>3. ASSUME Becomes(s, Idle), UNCHANGED cache PROVE VerdictsInFlight'
  BY <1>3, NoVerdict, CopiesKept, VerdictsReplaced DEF Becomes
<1>4. ASSUME k \in Entry, c \in Copied(k)
      PROVE  c.spec.names \in SUBSET Name /\ c # Absent
  BY <1>4, NamesAreDistinct DEF Copied, SpecOf, EntrySpec, Object
<1>5. ASSUME WalkUp(s) PROVE VerdictsInFlight'
  <2> DEFINE v == [worker[s] EXCEPT !.at = Parent(s),
                                    !.names = AggregateNames(@, Parent(s))]
  <2>1. worker[s].pc = "walk" /\ Parent(s) \in CopiedZone /\ c \in Copied(k)
        /\ worker[s].names \in SUBSET Name
    BY <1>5, WalkTyped DEF WalkUp, Busy
  <2>2. k \in Entry => AreUnder(AggregateNames(worker[s].names, Parent(s)), c.spec.names)
    <3> SUFFICES ASSUME k \in Entry
                 PROVE  AreUnder(AggregateNames(worker[s].names, Parent(s)), c.spec.names)
      OBVIOUS
    <3>1. c.spec.names \in SUBSET Name /\ AreUnder(worker[s].names, c.spec.names)
      BY <1>1, <1>4, <2>1 DEF WorkerVerdict
    <3> QED BY <2>1, <3>1, AggregateUnder
  <2>3. /\ v.obj = c /\ v.key = k /\ v.pc = "walk"
        /\ v.names = AggregateNames(worker[s].names, Parent(s))
    BY <1>1, <2>1 DEF Worker
  <2>4. Becomes(s, v) /\ UNCHANGED cache
    BY <1>5 DEF WalkUp
  <2> HIDE DEF v
  <2>5. WorkerVerdict(v)
    BY <1>1, <2>2, <2>3 DEF WorkerVerdict
  <2> QED BY <2>4, <2>5, CopiesKept, VerdictsReplaced DEF Becomes
<1>6. ASSUME ReconcilesZone(s)
      PROVE  k \in Zone /\ c \in Copied(k) /\ worker[s].at.plain \in BOOLEAN
  BY <1>6, WalkTyped DEF ReconcilesZone, CopiedZone
<1>7. ASSUME ZoneServed(s) PROVE VerdictsInFlight'
  <2> DEFINE z == [c EXCEPT !.plain = worker[s].at.plain]
  <2>1. k \in Zone /\ z \in Copied(k) /\ UpdateZone(s, z, "all", "all")
    BY <1>6, <1>7 DEF ZoneServed, Copied
  <2> HIDE DEF z
  <2> QED BY <2>1, ZoneVerdicts
<1>8. ASSUME ZoneOrphaned(s) PROVE VerdictsInFlight'
  <2> DEFINE z == [c EXCEPT !.err = IF @ = <<>> THEN NoRootZone ELSE @]
  <2>1. k \in Zone /\ z \in Copied(k) /\ UpdateZone(s, z, "entries", "none")
    BY <1>6, <1>8, MessagesTyped DEF ZoneOrphaned, Copied
  <2> HIDE DEF z
  <2> QED BY <2>1, ZoneVerdicts
<1>9. ASSUME ZoneIgnored(s) PROVE VerdictsInFlight'
  BY <1>3, <1>9 DEF ZoneIgnored
<1>10. ASSUME LookupZone(s) PROVE VerdictsInFlight'
  <2> DEFINE names == AggregateNames(c.spec.names, ZoneOfEntry(s))
             v == [worker[s] EXCEPT
                     !.pc = "walk", !.zone = ZoneOfEntry(s), !.at = ZoneOfEntry(s),
                     !.names = names]
  <2>1. k \in Entry /\ c \in Copied(k) /\ c.spec.zone \in Zone
    BY <1>1, <1>10 DEF LookupZone, Busy, WorkerOK
  <2>2. ZoneOfEntry(s) \in CopiedZone
    BY <1>10, <2>1, CopiedZones DEF LookupZone, ZoneOfEntry, TypeOK, CacheOK, Object
  <2>3. AreUnder(names, c.spec.names)
    BY <1>4, <2>1, <2>2, UnderThemselves, AggregateUnder
  <2>4. v.obj = c /\ v.key = k /\ v.pc = "walk" /\ v.names = names
    BY <1>1 DEF Worker
  <2>5. Becomes(s, v) /\ UNCHANGED cache
    BY <1>10 DEF LookupZone
  <2> HIDE DEF v, names
  <2>6. WorkerVerdict(v)
    BY <1>1, <2>3, <2>4 DEF WorkerVerdict
  <2> QED BY <2>5, <2>6, CopiesKept, VerdictsReplaced DEF Becomes
<1>11. ASSUME ZoneMissing(s) PROVE VerdictsInFlight'
  <2>1. k \in Entry /\ c \in Copied(k)
    BY <1>1, <1>11 DEF ZoneMissing, Busy, WorkerOK
  <2> QED BY <1>2, <1>11, <2>1, EntryVerdicts DEF ZoneMissing
<1>12. ASSUME ReconcilesEntry(s)
       PROVE  k \in Entry /\ c \in Copied(k) /\ AreUnder(worker[s].names, c.spec.names)
  <2>1. k \in Entry /\ c \in Copied(k) /\ worker[s].pc = "walk"
    BY <1>12, WalkTyped DEF ReconcilesEntry, Busy
  <2> QED BY <1>1, <1>4, <2>1 DEF WorkerVerdict
<1>13. ASSUME EntryServed(s) PROVE VerdictsInFlight'
  <2>1. \E root, err : UpdateEntry(s, root, worker[s].names, err)
    BY <1>13 DEF EntryServed
  <2> QED BY <1>12, <1>13, <2>1, EntryVerdicts DEF EntryServed
<1>14. ASSUME EntryOrphaned(s) PROVE VerdictsInFlight'
  BY <1>2, <1>3, <1>12, <1>14, EntryVerdicts DEF EntryOrphaned
<1>15. ASSUME EntryForeign(s) PROVE VerdictsInFlight'
  BY <1>2, <1>3, <1>12, <1>15, EntryVerdicts DEF EntryForeign
<1>16. ASSUME TriggerEntries(s) PROVE VerdictsInFlight'
  <2> DEFINE v == [worker[s] EXCEPT !.pc = "nested"]
  <2>1. k \in Zone /\ k \notin Entry
    BY <1>1, <1>16, NamesAreDistinct DEF TriggerEntries, Busy, WorkerOK
  <2>2. WorkerVerdict(v)
    BY <1>1, <2>1 DEF WorkerVerdict, Worker
  <2>3. Becomes(s, v) \/ Becomes(s, Idle)
    BY <1>16 DEF TriggerEntries
  <2>4. UNCHANGED cache
    BY <1>16 DEF TriggerEntries
  <2> HIDE DEF v
  <2> QED BY <1>3, <2>2, <2>3, <2>4, CopiesKept, VerdictsReplaced DEF Becomes
<1>17. ASSUME TriggerNested(s) PROVE VerdictsInFlight'
  BY <1>3, <1>17 DEF TriggerNested
<1> QED BY <1>5, <1>7, <1>8, <1>9, <1>10, <1>11, <1>13, <1>14, <1>15, <1>16, <1>17
        DEF Reconcile

\* Every step keeps the verdicts fitting.
LEMMA VerdictsNext == TypeOK /\ VerdictsInFlight /\ [Next]_vars => VerdictsInFlight'
<1> SUFFICES ASSUME TypeOK, VerdictsInFlight, [Next]_vars PROVE VerdictsInFlight'
  OBVIOUS
<1>1. ASSUME NEW s \in Server, Answer(s) \/ Fault(s) PROVE VerdictsInFlight'
  <2>1. Becomes(s, Idle) \/ Becomes(s, Follow(worker[s].key, worker[s].after))
    BY <1>1 DEF Answer, Fault, WriteAccepted, WriteRejected, WriteFails,
                WriteUnanswered, Retry
  <2>2. UNCHANGED cache
    BY <1>1 DEF Answer, Fault, WriteAccepted, WriteRejected, WriteFails, WriteUnanswered
  <2> QED BY <2>1, <2>2, NoVerdict, CopiesKept, VerdictsReplaced DEF Becomes
<1>2. ASSUME NEW s \in Server, Expire(s) PROVE VerdictsInFlight'
  BY <1>2, VerdictsKept DEF Expire, Requeue
<1>3. CASE UNCHANGED vars
  BY <1>3, VerdictsKept DEF vars
<1> QED BY <1>1, <1>2, <1>3, VerdictsEnvironment, VerdictsDeliver, VerdictsTake,
           VerdictsReconcile DEF Next, Work

\* Whatever is under way, the verdict a worker is about to store fits the copy
\* it was computed from.
THEOREM VerdictsTravel == Spec => []VerdictsInFlight
<1>1. Init => TypeOK /\ VerdictsInFlight
  BY TypeInit, VerdictsInit
<1>2. (TypeOK /\ VerdictsInFlight) /\ [Next]_vars => (TypeOK /\ VerdictsInFlight)'
  BY TypeNext, VerdictsNext
<1> QED BY <1>1, <1>2, PTL DEF Spec

-----------------------------------------------------------------------------
(* The verdict is stored. *)

\* Two kinds of steps change the status of an object: those of the aaS
\* controller, which give no verdict, and accepted status updates.
LEMMA StatusSteps ==
    ASSUME TypeOK, [Next]_vars, NEW e \in Entry, Stays(e)
    PROVE  \/ api'[e].status = api[e].status
           \/ api'[e].status = Supervision(api[e].status)
           \/ \E s \in Server :
                /\ Busy(s, "write") /\ Fresh(s) /\ worker[s].key = e
                /\ api'[e].status = worker[s].status
<1>1. e \in Object /\ api[e] \in Stored(e)
  BY DEF Stays, Exists, TypeOK, ApiOK, Object
<1>2. ASSUME NEW o \in Object, NEW v, v.name = o, Publish(v)
      PROVE  api'[e] = IF e = o THEN v ELSE api[e]
  BY <1>1, <1>2 DEF Publish, TypeOK, ApiOK
<1>3. CASE UNCHANGED api
  BY <1>3
<1>4. ASSUME NEW o \in Object, NEW spec, Create(o, spec)
      PROVE  api'[e] = api[e]
  <2>1. api[o] = Absent /\ o # e
    BY <1>4 DEF Create, Stays, Exists
  <2> QED BY <1>2, <1>4, <2>1 DEF Create
<1>5. ASSUME NEW o \in Object, NEW spec, Update(o, spec)
      PROVE  api'[e].status = api[e].status
  <2> DEFINE v == [api[o] EXCEPT !.rv = NewVersion(o), !.spec = spec]
  <2>1. api[o] \in Stored(o) /\ Publish(v)
    BY <1>5 DEF Update, TypeOK, ApiOK
  <2>2. v.name = o /\ v.status = api[o].status
    BY <2>1 DEF Stored
  <2> HIDE DEF v
  <2> QED BY <1>2, <2>1, <2>2
<1>6. ASSUME NEW o \in Object, Delete(o) PROVE api'[e] = api[e]
  BY <1>6 DEF Delete, Stays, TypeOK, ApiOK
<1>7. ASSUME NEW o \in Supervised, Supervise(o)
      PROVE  \/ api'[e].status = api[e].status
             \/ api'[e].status = Supervision(api[e].status)
  <2> DEFINE v == [api[o] EXCEPT !.rv = NewVersion(o), !.status = Supervision(@)]
  <2>1. o \in Object /\ api[o] \in Stored(o) /\ Publish(v)
    BY <1>7, EnvironmentIsTyped DEF Supervise, TypeOK, ApiOK
  <2>2. v.name = o /\ v.status = Supervision(api[o].status)
    BY <2>1 DEF Stored
  <2> HIDE DEF v
  <2> QED BY <1>2, <2>1, <2>2
<1>8. ASSUME NEW s \in Server, Busy(s, "write"), Fresh(s), Apply(s)
      PROVE  \/ api'[e].status = api[e].status
             \/ worker[s].key = e /\ api'[e].status = worker[s].status
  <2> DEFINE k == worker[s].key
             v == [api[k] EXCEPT !.rv = NewVersion(k), !.status = worker[s].status]
  <2>1. k \in Object /\ api[k] \in Stored(k) /\ Publish(v)
    BY <1>8 DEF Fresh, Apply, Busy, TypeOK, ApiOK, WorkersOK, WorkerOK
  <2>2. v.name = k /\ v.status = worker[s].status
    BY <2>1 DEF Stored
  <2> HIDE DEF v
  <2> QED BY <1>2, <2>1, <2>2
<1>9. ASSUME Environment
      PROVE  \/ UNCHANGED api
             \/ \E o \in Object : (\E spec : Create(o, spec) \/ Update(o, spec)) \/ Delete(o)
             \/ \E o \in Supervised : Supervise(o)
  BY <1>9 DEF Environment, Users, Tick, Kill, Start, Relist, store
<1>10. ASSUME NEW s \in Server, Deliver(s) \/ Take(s) \/ Reconcile(s) \/ Expire(s)
       PROVE  UNCHANGED api
  BY <1>10
     DEF Deliver, DeliverAdd, DeliverUpdate, DeliverDelete, UpdatePanics, DeletePanics,
         Take, TakeZone, TakeDeletedZone, TakeEntry, DropEntry,
         Reconcile, WalkUp, ZoneServed, ZoneOrphaned, ZoneIgnored, LookupZone,
         ZoneMissing, EntryServed, EntryOrphaned, EntryForeign, TriggerEntries,
         TriggerNested, Expire, Requeue, store
<1>11. ASSUME NEW s \in Server, Answer(s) \/ Fault(s)
       PROVE  UNCHANGED api \/ (Busy(s, "write") /\ Fresh(s) /\ Apply(s))
  BY <1>11 DEF Answer, Fault, WriteAccepted, WriteRejected, WriteFails,
               WriteUnanswered, store
<1> QED BY <1>3, <1>4, <1>5, <1>6, <1>7, <1>8, <1>9, <1>10, <1>11 DEF Next, Work, vars

\* A verdict that is stored fits the specification it is stored beside: the
\* copy it was computed from has the version of the stored object, and hence its
\* specification.
LEMMA VerdictStored ==
    ASSUME TypeOK, CopiesAreVersions, VerdictsInFlight, [Next]_vars, NEW e \in Entry
    PROVE  VerdictFits(e)
<1> SUFFICES ASSUME Stays(e) PROVE VerdictFits(e)
  BY DEF VerdictFits
<1>1. api[e] \in Stored(e) /\ api[e].status \in EntryStatus /\ e \in Object
  BY NamesAreDistinct DEF Stays, Exists, TypeOK, ApiOK, Stored, StatusOf, Object
<1>2. CASE api'[e].status = api[e].status
  BY <1>2 DEF VerdictFits
<1>3. CASE api'[e].status = Supervision(api[e].status)
  <2>1. api'[e].status.state # "Ok" /\ api'[e].status.names = api[e].status.names
    BY <1>1, <1>3 DEF Supervision, EntryStatus
  <2> QED BY <2>1 DEF VerdictFits
<1>4. ASSUME NEW s \in Server, Busy(s, "write"), Fresh(s), worker[s].key = e,
             api'[e].status = worker[s].status
      PROVE  VerdictFits(e)
  <2> DEFINE c == worker[s].obj
  <2>1. c \in Copied(e) /\ c # Absent
    BY <1>1, <1>4, NamesAreDistinct DEF Busy, TypeOK, WorkersOK, WorkerOK
  <2>2. api[e] # Absent /\ api[e].rv = version[e] /\ c.rv = version[e]
    BY <1>1, <1>4 DEF Fresh, CopiesAreVersions, StoreCurrent
  <2>3. c.spec = api[e].spec /\ c.status = api[e].status
    BY <1>4, <2>1, <2>2 DEF CopiesAreVersions, WorkersAgree, Agrees
  <2>4. /\ CopyVerdict(c)
        /\ worker[s].status.state = "Ok" /\ c.status.state # "Ok" => c.err = <<>>
        /\ AreUnder(worker[s].status.names, c.spec.names)
    BY <1>4, <2>1 DEF VerdictsInFlight, WorkerVerdict, Busy
  <2>5. EntryError(c.spec) = <<>> => ~WrongEntry(e)
    BY <2>3 DEF EntryError, WrongEntry, BadEntry
  <2> QED BY <1>4, <2>3, <2>4, <2>5 DEF VerdictFits, CopyVerdict
<1> QED BY <1>2, <1>3, <1>4, StatusSteps

\* A status update may be late, lost, rejected or repeated, the entry may be
\* changed, deleted and created again while it is under way, and any number of
\* servers may write: a verdict of a server is stored only beside the
\* specification it was computed from.
THEOREM VerdictsFit == Spec => VerdictFitsSpec
<1>1. Init => TypeOK /\ CopiesAreVersions /\ VerdictsInFlight
  BY TypeInit, VersionsInit, VerdictsInit
<1>2. (TypeOK /\ CopiesAreVersions /\ VerdictsInFlight) /\ [Next]_vars
      => (TypeOK /\ CopiesAreVersions /\ VerdictsInFlight)'
  BY TypeNext, VersionsNext, VerdictsNext
<1>3. (TypeOK /\ CopiesAreVersions /\ VerdictsInFlight) /\ [Next]_vars
      => [\A e \in Entry : VerdictFits(e)]_vars
  BY VerdictStored
<1> QED BY <1>1, <1>2, <1>3, PTL DEF Spec, VerdictFitsSpec
=============================================================================
