----------------------------- MODULE StoreProofs -----------------------------
(***************************************************************************)
(* The controller implements the store of versioned objects, for any       *)
(* number of servers and objects.  A status leaves alone what is not the   *)
(* server's when it is computed (StatusesInFlight), fits the copy it is    *)
(* computed from (VerdictsInFlight), and is only stored while that copy is *)
(* the stored object (CopiesAreVersions).                                  *)
(***************************************************************************)
EXTENDS VerdictProofs, ControllerRefines

-----------------------------------------------------------------------------
(* Copies and statuses. *)

\* An entry without error is good.
LEMMA FineIsGood ==
    ASSUME NEW o \in Entry, NEW spec, EntryError(spec) = <<>>
    PROVE  Store!Good(o, spec)
BY NamesAreDistinct DEF EntryError, BadEntry, Store!Good

\* A condition affirms only without an error.
LEMMA OnlyGoodAffirmed ==
    ASSUME NEW err \in Message, NEW served, Store!Affirms(Condition(err, <<served>>))
    PROVE  err = <<>>
<1>1. ASSUME err # <<>> PROVE Head(<<"False">> \o err) = "False"
  <2>1. <<"False">> \in Seq(Text) /\ <<"False">> # <<>> /\ Head(<<"False">>) = "False"
    BY DEF Text
  <2>2. err \in Seq(Text)
    BY DEF Message
  <2> QED BY <2>1, <2>2, ConcatProperties, HeadTailProperties
<1> QED BY <1>1 DEF Condition, Store!Affirms

\* A new copy is marked as its conditions and its specification say.
LEMMA CopyMarked ==
    ASSUME NEW s \in Server, NEW o \in Object, NEW v \in Stored(o)
    PROVE  CopyMark(Copy(s, v))
<1>1. v.name = o /\ (o \in Zone \/ o \in Entry) /\ ~(o \in Zone /\ o \in Entry)
  BY NamesAreDistinct DEF Stored, Object
<1>2. CASE o \in Zone
  <2>1. /\ Copy(s, v).name = o /\ Copy(s, v).spec = v.spec
        /\ Copy(s, v).err = ZoneError(v.spec, s \in Transitive)
    BY <1>1, <1>2 DEF Copy, ToZone
  <2>2. ZoneError(v.spec, s \in Transitive) = <<>> => v.spec.mail
    BY DEF ZoneError, Nested, NoMail
  <2> QED BY <1>1, <1>2, <2>1, <2>2 DEF CopyMark, Store!Good
<1>3. CASE o \in Entry
  <2>1. /\ Copy(s, v).name = o /\ Copy(s, v).spec = v.spec
        /\ Copy(s, v).err = EntryError(v.spec)
        /\ Copy(s, v).plain => ~Copy(s, v).status.managed
    BY <1>1, <1>3 DEF Copy, ToEntry, IsPlain
  <2> QED BY <1>3, <2>1, FineIsGood DEF CopyMark
<1> QED BY <1>1, <1>2, <1>3

\* The status of a zone is a verdict on it, and leaves the marks and the name
\* servers alone.
LEMMA ZoneStatusKept ==
    ASSUME NEW k \in Zone, NEW c \in Copied(k), CopyMark(c), ZoneStatusModified(c)
    PROVE  Preserved(c, ZoneStatusOf(c))
<1>1. /\ c.name = k /\ k \notin Entry
      /\ c.status \in ZoneStatus /\ c.err \in Message
  BY NamesAreDistinct DEF Copied, StatusOf
<1>2. c.err = <<>> => Store!Good(k, c.spec)
  BY <1>1 DEF CopyMark
<1> DEFINE st == ZoneStatusOf(c)
<1>3. CASE c.plain
  <2>1. /\ st.managed = c.status.managed /\ st.ns = c.status.ns
        /\ st.server = c.status.server /\ (st.state = "Ok" => c.err = <<>>)
    BY <1>1, <1>3 DEF ZoneStatusOf, ZoneStatus
  <2> HIDE DEF st
  <2>2. Preserved(c, st)
    BY <1>1, <1>2, <2>1 DEF Preserved, Store!Judges, Store!Spares
  <2> QED BY <2>2 DEF st
<1>4. CASE ~c.plain
  <2> DEFINE cond == Condition(c.err, <<"hosted zone served">>)
  <2>1. st = [c.status EXCEPT !.server = cond]
    BY <1>4 DEF ZoneStatusOf
  <2>2. Store!Affirms(cond) => c.err = <<>>
    BY <1>1, OnlyGoodAffirmed
  <2>3. st # c.status
    BY DEF ZoneStatusModified
  <2> HIDE DEF cond, st
  <2>4. /\ st.managed = c.status.managed /\ st.ns = c.status.ns
        /\ st.state = c.status.state /\ st.message = c.status.message
        /\ st.server = cond /\ st.server # c.status.server
    BY <1>1, <2>1, <2>3 DEF ZoneStatus
  <2>5. Preserved(c, st)
    BY <1>1, <1>2, <2>2, <2>4 DEF Preserved, Store!Judges, Store!Spares
  <2> QED BY <2>5 DEF st
<1> QED BY <1>3, <1>4

\* The status of an entry is a verdict on it, and leaves the mark alone, and the
\* state of a marked one.
LEMMA EntryStatusKept ==
    ASSUME NEW k \in Entry, NEW c \in Copied(k), CopyMark(c),
           NEW root, NEW names, NEW err \in Message,
           EntryStatusModified(c, root, names, err)
    PROVE  Preserved(c, EntryStatusOf(c, root, names, err))
<1>1. /\ c.name = k /\ k \notin Zone
      /\ c.status \in EntryStatus /\ c.err \in Message
  BY NamesAreDistinct DEF Copied, StatusOf
<1>2. (c.plain => ~c.status.managed) /\ (c.err = <<>> => Store!Good(k, c.spec))
  BY <1>1 DEF CopyMark
<1> DEFINE why == IF c.err # <<>> THEN c.err ELSE err
           cond == Condition(why, <<"entry served">>)
           st == EntryStatusOf(c, root, names, err)
<1>3. why \in Message /\ (why = <<>> => c.err = <<>>)
  BY <1>1
<1>4. CASE c.plain
  <2>1. st = [c.status EXCEPT !.root = root, !.names = names, !.message = why,
                              !.state = IF why = <<>> THEN "Ok" ELSE "Invalid"]
    BY <1>4 DEF EntryStatusOf
  <2> HIDE DEF why, st
  <2>2. /\ st.managed = c.status.managed /\ st.server = c.status.server
        /\ st.state = "Ok" => why = <<>>
    BY <1>1, <2>1 DEF EntryStatus
  <2>3. Preserved(c, st)
    BY <1>1, <1>2, <1>3, <1>4, <2>2 DEF Preserved, Store!Judges, Store!Spares
  <2> QED BY <2>3 DEF st
<1>5. CASE ~c.plain
  <2>1. st = [c.status EXCEPT !.root = root, !.names = names, !.server = cond]
    BY <1>5 DEF EntryStatusOf
  <2>2. st.server # c.status.server
    BY <1>5 DEF EntryStatusModified
  <2>3. Store!Affirms(cond) => why = <<>>
    BY <1>3, OnlyGoodAffirmed
  <2> HIDE DEF why, cond, st
  <2>4. /\ st.managed = c.status.managed /\ st.state = c.status.state
        /\ st.message = c.status.message /\ st.server = cond
    BY <1>1, <2>1 DEF EntryStatus
  <2>5. Preserved(c, st)
    BY <1>1, <1>2, <1>3, <2>2, <2>3, <2>4 DEF Preserved, Store!Judges, Store!Spares
  <2> QED BY <2>5 DEF st
<1> QED BY <1>4, <1>5

-----------------------------------------------------------------------------
(* What a step leaves in the caches and with the workers. *)

\* One copy is replaced by a marked one.
LEMMA MarkReplaced ==
    ASSUME TypeOK, StatusesInFlight, NEW s \in Server, NEW o \in Object, NEW c,
           c # Absent => CopyMark(c), cache' = [cache EXCEPT ![s][o] = c]
    PROVE  CacheMarks'
<1> SUFFICES ASSUME NEW t \in Server, NEW p \in Object, cache'[t][p] # Absent
             PROVE  CopyMark(cache'[t][p])
  BY DEF CacheMarks, CopyMark
<1>1. CASE t = s /\ p = o
  BY <1>1 DEF TypeOK, CacheOK
<1>2. CASE ~(t = s /\ p = o)
  <2>1. cache'[t][p] = cache[t][p]
    BY <1>2 DEF TypeOK, CacheOK
  <2> QED BY <2>1 DEF StatusesInFlight, CacheMarks
<1> QED BY <1>1, <1>2

\* One worker is replaced by one that leaves alone what is not its own.
LEMMA MarksReplaced ==
    ASSUME TypeOK, StatusesInFlight, CacheMarks', NEW s \in Server, NEW w,
           WorkerMark(w), worker' = [worker EXCEPT ![s] = w]
    PROVE  StatusesInFlight'
<1>1. ASSUME NEW t \in Server PROVE WorkerMark(worker'[t])
  <2>1. worker'[t] = IF t = s THEN w ELSE worker[t]
    BY DEF TypeOK, WorkersOK
  <2> QED BY <2>1 DEF StatusesInFlight
<1>2. \A t \in Server : WorkerMark(worker[t])'
  BY <1>1 DEF WorkerMark, CopyMark, Preserved,
              Store!Judges, Store!Spares, Store!Affirms, Store!Good
<1> QED BY <1>2 DEF StatusesInFlight

\* Steps that leave the caches alone.
LEMMA MarksKept ==
    ASSUME StatusesInFlight, UNCHANGED cache
    PROVE  CacheMarks'
BY DEF StatusesInFlight, CacheMarks, CopyMark

\* Steps that leave caches and workers alone.
LEMMA StatusesKept ==
    ASSUME StatusesInFlight, UNCHANGED <<cache, worker>>
    PROVE  StatusesInFlight'
<1>1. \A t \in Server : WorkerMark(worker'[t])
  BY DEF StatusesInFlight
<1>2. \A t \in Server : WorkerMark(worker[t])'
  BY <1>1 DEF WorkerMark, CopyMark, Preserved,
              Store!Judges, Store!Spares, Store!Affirms, Store!Good
<1> QED BY <1>2, MarksKept DEF StatusesInFlight

\* A worker without a copy has no status to store.
LEMMA NoStatus ==
    /\ WorkerMark(Idle)
    /\ \A k, after : WorkerMark(Follow(k, after))
BY DEF WorkerMark, Idle, Follow

\* A process that ends has no statuses.
LEMMA DieStatuses ==
    ASSUME TypeOK, StatusesInFlight, NEW s \in Server, Die(s)
    PROVE  StatusesInFlight'
<1>1. CacheMarks'
  <2> SUFFICES ASSUME NEW t \in Server, NEW o \in Object, cache'[t][o] # Absent
               PROVE  CopyMark(cache'[t][o])
    BY DEF CacheMarks, CopyMark
  <2>1. cache'[t][o] = cache[t][o]
    BY DEF Die, NoCopies, TypeOK, CacheOK
  <2> QED BY <2>1 DEF StatusesInFlight, CacheMarks
<1> QED BY <1>1, NoStatus, MarksReplaced DEF Die

\* Initially no worker has a status to store.
LEMMA StatusesInit == Init => StatusesInFlight
<1> SUFFICES ASSUME Init PROVE StatusesInFlight
  OBVIOUS
<1>1. ASSUME NEW s \in Server, NEW o \in Object, cache[s][o] # Absent
      PROVE  CopyMark(cache[s][o])
  <2>1. Initial[o] # Absent /\ cache[s][o] = Copy(s, Initial[o])
    BY <1>1 DEF Init
  <2>2. Initial[o] \in Stored(o)
    BY <2>1, EnvironmentIsTyped
  <2> QED BY <2>1, <2>2, CopyMarked
<1>2. \A s \in Server : worker[s] = Idle
  BY DEF Init
<1> QED BY <1>1, <1>2, NoStatus DEF StatusesInFlight, CacheMarks
-----------------------------------------------------------------------------
(* The steps *)

\* Users, the aaS controller, the clock and the processes.
LEMMA StatusesEnvironment ==
    ASSUME TypeOK, StatusesInFlight, Environment
    PROVE  StatusesInFlight'
<1>1. ASSUME UNCHANGED memory PROVE StatusesInFlight'
  BY <1>1, StatusesKept DEF memory
<1>2. ASSUME Users PROVE StatusesInFlight'
  BY <1>1, <1>2 DEF Users, Create, Update, Delete
<1>3. ASSUME NEW o \in Supervised, Supervise(o) PROVE StatusesInFlight'
  BY <1>1, <1>3 DEF Supervise
<1>4. CASE Tick
  BY <1>1, <1>4 DEF Tick
<1>5. ASSUME NEW s \in Server, Kill(s) PROVE StatusesInFlight'
  BY <1>5, DieStatuses DEF Kill
<1>6. ASSUME NEW s \in Server, Start(s) \/ Relist(s) PROVE StatusesInFlight'
  BY <1>1, <1>6 DEF Start, Relist
<1> QED BY <1>2, <1>3, <1>4, <1>5, <1>6 DEF Environment

\* The informers: a new copy is marked, the worker keeps the old one.
LEMMA StatusesDeliver ==
    ASSUME TypeOK, StatusesInFlight, NEW s \in Server, Deliver(s)
    PROVE  StatusesInFlight'
<1>1. ASSUME NEW o \in Object, NEW c, Replace(s, o, c), c # Absent => CopyMark(c)
      PROVE  StatusesInFlight'
  <2> DEFINE w == [worker[s] EXCEPT !.alias = @ /\ worker[s].key # o]
  <2>1. WorkerMark(worker[s]) /\ worker[s] \in Worker
    BY DEF StatusesInFlight, TypeOK, WorkersOK, WorkerOK
  <2>2. WorkerMark(w)
    BY <2>1 DEF WorkerMark, Worker
  <2>3. worker' = [worker EXCEPT ![s] = w] /\ CacheMarks'
    BY <1>1, MarkReplaced DEF Replace
  <2> HIDE DEF w
  <2> QED BY <2>2, <2>3, MarksReplaced
<1>2. ASSUME NEW o \in Object, Incoming(s, o), Event(s, o) \notin {Absent, Missed}
      PROVE  CopyMark(Copy(s, Event(s, o)))
  BY <1>2, EventTyped, CopyMarked DEF TypeOK
<1>3. ASSUME NEW o \in Object, DeliverAdd(s, o) PROVE StatusesInFlight'
  BY <1>1, <1>2, <1>3 DEF DeliverAdd
<1>4. ASSUME NEW o \in Object, DeliverUpdate(s, o) PROVE StatusesInFlight'
  <2>1. Replace(s, o, Copy(s, Event(s, o)))
    BY <1>4 DEF DeliverUpdate
  <2> QED BY <1>1, <1>2, <1>4, <2>1 DEF DeliverUpdate
<1>5. ASSUME NEW o \in Object, DeliverDelete(s, o) PROVE StatusesInFlight'
  BY <1>1, <1>5 DEF DeliverDelete
<1>6. ASSUME NEW o \in Object, UpdatePanics(s, o) \/ DeletePanics(s, o)
      PROVE  StatusesInFlight'
  BY <1>6, DieStatuses DEF UpdatePanics, DeletePanics
<1> QED BY <1>3, <1>4, <1>5, <1>6 DEF Deliver

\* The worker takes a copy out of the cache.
LEMMA StatusesTake ==
    ASSUME TypeOK, StatusesInFlight, NEW s \in Server, Take(s)
    PROVE  StatusesInFlight'
<1>1. ASSUME NEW k \in Object, cache[s][k] # Absent PROVE CopyMark(cache[s][k])
  BY <1>1 DEF StatusesInFlight, CacheMarks
<1>2. ASSUME NEW w, Becomes(s, w), UNCHANGED cache, WorkerMark(w)
      PROVE  StatusesInFlight'
  BY <1>2, MarksKept, MarksReplaced DEF Becomes
<1>3. ASSUME NEW k \in Object, TakeZone(s, k) PROVE StatusesInFlight'
  <2> DEFINE w == [Idle EXCEPT !.pc = "walk", !.key = k, !.obj = cache[s][k],
                               !.alias = TRUE, !.at = cache[s][k]]
  <2>1. WorkerMark(w)
    BY <1>1, <1>3 DEF WorkerMark, TakeZone, Idle
  <2>2. Becomes(s, w) /\ UNCHANGED cache
    BY <1>3 DEF TakeZone
  <2> HIDE DEF w
  <2> QED BY <1>2, <2>1, <2>2
<1>4. ASSUME NEW k \in Object, TakeDeletedZone(s, k) PROVE StatusesInFlight'
  BY <1>2, <1>4, NoStatus DEF TakeDeletedZone
<1>5. ASSUME NEW k \in Object, TakeEntry(s, k) PROVE StatusesInFlight'
  <2> DEFINE w == [Idle EXCEPT !.pc = "lookup", !.key = k,
                               !.obj = cache[s][k], !.alias = TRUE]
  <2>1. WorkerMark(w)
    BY <1>1, <1>5 DEF WorkerMark, TakeEntry, Idle
  <2>2. Becomes(s, w) /\ UNCHANGED cache
    BY <1>5 DEF TakeEntry
  <2> HIDE DEF w
  <2> QED BY <1>2, <2>1, <2>2
<1>6. ASSUME NEW k \in Object, DropEntry(s, k) PROVE StatusesInFlight'
  BY <1>6, StatusesKept DEF DropEntry
<1> QED BY <1>3, <1>4, <1>5, <1>6 DEF Take

\* A decision on an entry.
LEMMA EntryStatuses ==
    ASSUME TypeOK, StatusesInFlight, NEW s \in Server, worker[s].key \in Entry,
           worker[s].obj \in Copied(worker[s].key),
           NEW root, NEW names, NEW err \in Message,
           UpdateEntry(s, root, names, err), UNCHANGED cache
    PROVE  StatusesInFlight'
<1> DEFINE e == worker[s].obj
           st == EntryStatusOf(e, root, names, err)
           w == Submit(e, st, "none")
<1>1. e # Absent
  BY NamesAreDistinct DEF Object
<1>2. CopyMark(e)
  BY <1>1 DEF StatusesInFlight, WorkerMark
<1>3. EntryStatusModified(e, root, names, err) => Preserved(e, st)
  BY <1>2, EntryStatusKept
<1> HIDE DEF st
<1>4. w.obj = e /\ w.status = st
  BY DEF Submit, Idle
<1> HIDE DEF w
<1>5. CASE EntryStatusModified(e, root, names, err)
  <2>1. WorkerMark(w)
    BY <1>2, <1>3, <1>4, <1>5 DEF WorkerMark
  <2>2. Becomes(s, w)
    BY <1>5 DEF UpdateEntry, w, st
  <2> QED BY <2>1, <2>2, MarksKept, MarksReplaced DEF Becomes
<1>6. CASE ~EntryStatusModified(e, root, names, err)
  BY <1>6, NoStatus, MarksKept, MarksReplaced DEF UpdateEntry, Becomes
<1> QED BY <1>5, <1>6

\* A decision on a zone, whose copy is also assigned in the cache.
LEMMA ZoneStatuses ==
    ASSUME TypeOK, StatusesInFlight, NEW s \in Server, NEW k \in Zone,
           NEW z \in Copied(k), CopyMark(z), NEW modAfter, NEW after,
           UpdateZone(s, z, modAfter, after)
    PROVE  StatusesInFlight'
<1>1. z.name = k /\ k \in Object
  BY DEF Copied, Object
<1>2. CacheMarks'
  <2>1. CASE worker[s].alias
    BY <1>1, <2>1, MarkReplaced DEF UpdateZone, Amend
  <2>2. CASE ~worker[s].alias
    BY <2>2, MarksKept DEF UpdateZone, Amend
  <2> QED BY <2>1, <2>2
<1> DEFINE st == ZoneStatusOf(z)
           w == Submit(z, st, modAfter)
<1>3. ZoneStatusModified(z) => Preserved(z, st)
  BY ZoneStatusKept
<1>4. Becomes(s, IF ZoneStatusModified(z) THEN w ELSE Follow(z.name, after))
  BY DEF UpdateZone
<1> HIDE DEF st
<1>5. w.obj = z /\ w.status = st
  BY DEF Submit, Idle
<1> HIDE DEF w
<1>6. CASE ZoneStatusModified(z)
  <2>1. WorkerMark(w)
    BY <1>3, <1>5, <1>6 DEF WorkerMark
  <2> QED BY <1>2, <1>4, <1>6, <2>1, MarksReplaced DEF Becomes
<1>7. CASE ~ZoneStatusModified(z)
  BY <1>2, <1>4, <1>7, NoStatus, MarksReplaced DEF Becomes
<1> QED BY <1>6, <1>7

\* The worker reconciles, and triggers.
LEMMA StatusesReconcile ==
    ASSUME TypeOK, StatusesInFlight, NEW s \in Server, Reconcile(s)
    PROVE  StatusesInFlight'
<1> DEFINE c == worker[s].obj
           k == worker[s].key
<1>1. WorkerMark(worker[s]) /\ WorkerOK(worker[s]) /\ worker[s] \in Worker
  BY DEF StatusesInFlight, TypeOK, WorkersOK, WorkerOK
<1>2. ASSUME NEW w, Becomes(s, w), UNCHANGED cache, WorkerMark(w)
      PROVE  StatusesInFlight'
  BY <1>2, MarksKept, MarksReplaced DEF Becomes
<1>3. ASSUME Becomes(s, Idle), UNCHANGED cache PROVE StatusesInFlight'
  BY <1>2, <1>3, NoStatus
<1>4. ASSUME WalkUp(s) PROVE StatusesInFlight'
  <2> DEFINE w == [worker[s] EXCEPT !.at = Parent(s),
                                    !.names = AggregateNames(@, Parent(s))]
  <2>1. WorkerMark(w)
    BY <1>1, <1>4 DEF WorkerMark, Worker, WalkUp, Busy
  <2>2. Becomes(s, w) /\ UNCHANGED cache
    BY <1>4 DEF WalkUp
  <2> HIDE DEF w
  <2> QED BY <1>2, <2>1, <2>2
<1>5. ASSUME ReconcilesZone(s)
      PROVE  k \in Zone /\ c \in Copied(k) /\ worker[s].at.plain \in BOOLEAN
  BY <1>5, WalkTyped DEF ReconcilesZone, CopiedZone
<1>6. ASSUME k \in Zone, c \in Copied(k) PROVE c.name = k /\ k \notin Entry /\ CopyMark(c)
  BY <1>1, <1>6, NamesAreDistinct DEF Copied, Object, WorkerMark
<1>7. ASSUME ZoneServed(s) PROVE StatusesInFlight'
  <2> DEFINE z == [c EXCEPT !.plain = worker[s].at.plain]
  <2>1. k \in Zone /\ c \in Copied(k) /\ z \in Copied(k) /\ UpdateZone(s, z, "all", "all")
    BY <1>5, <1>7 DEF ZoneServed, Copied
  <2>2. z.name = c.name /\ z.err = c.err /\ z.spec = c.spec
    BY <2>1 DEF Copied
  <2> HIDE DEF z
  <2>3. CopyMark(z)
    BY <1>6, <2>1, <2>2 DEF CopyMark
  <2> QED BY <2>1, <2>3, ZoneStatuses
<1>8. ASSUME ZoneOrphaned(s) PROVE StatusesInFlight'
  <2> DEFINE z == [c EXCEPT !.err = IF @ = <<>> THEN NoRootZone ELSE @]
  <2>1. k \in Zone /\ c \in Copied(k) /\ z \in Copied(k)
        /\ UpdateZone(s, z, "entries", "none")
    BY <1>5, <1>8, MessagesTyped DEF ZoneOrphaned, Copied
  <2>2. z.name = c.name /\ (z.err = <<>> => c.err = <<>>) /\ z.spec = c.spec
    BY <2>1 DEF Copied, NoRootZone
  <2> HIDE DEF z
  <2>3. CopyMark(z)
    BY <1>6, <2>1, <2>2 DEF CopyMark
  <2> QED BY <2>1, <2>3, ZoneStatuses
<1>9. ASSUME ZoneIgnored(s) PROVE StatusesInFlight'
  BY <1>3, <1>9 DEF ZoneIgnored
<1>10. ASSUME LookupZone(s) PROVE StatusesInFlight'
  <2> DEFINE w == [worker[s] EXCEPT
                     !.pc = "walk", !.zone = ZoneOfEntry(s), !.at = ZoneOfEntry(s),
                     !.names = AggregateNames(worker[s].obj.spec.names,
                                              ZoneOfEntry(s))]
  <2>1. WorkerMark(w)
    BY <1>1, <1>10 DEF WorkerMark, Worker, LookupZone, Busy
  <2>2. Becomes(s, w) /\ UNCHANGED cache
    BY <1>10 DEF LookupZone
  <2> HIDE DEF w
  <2> QED BY <1>2, <2>1, <2>2
<1>11. ASSUME ZoneMissing(s) PROVE StatusesInFlight'
  <2>1. k \in Entry /\ c \in Copied(k)
    BY <1>1, <1>11 DEF ZoneMissing, Busy, WorkerOK
  <2> QED BY <1>11, <2>1, EntryStatuses, MessagesTyped DEF ZoneMissing
<1>12. ASSUME ReconcilesEntry(s)
       PROVE  k \in Entry /\ c \in Copied(k) /\ worker[s].zone \in CopiedZone
  BY <1>12, WalkTyped DEF ReconcilesEntry, Busy
<1>13. ASSUME EntryServed(s) PROVE StatusesInFlight'
  <2>1. worker[s].zone.status.message \in Message
    BY <1>12, <1>13 DEF EntryServed, CopiedZone, ZoneStatus
  <2>2. \E root : \E err \in Message : UpdateEntry(s, root, worker[s].names, err)
    BY <1>13, <2>1, MessagesTyped DEF EntryServed
  <2> QED BY <1>12, <1>13, <2>2, EntryStatuses DEF EntryServed
<1>14. ASSUME EntryOrphaned(s) PROVE StatusesInFlight'
  BY <1>3, <1>12, <1>14, EntryStatuses, MessagesTyped DEF EntryOrphaned
<1>15. ASSUME EntryForeign(s) PROVE StatusesInFlight'
  BY <1>3, <1>12, <1>15, EntryStatuses, MessagesTyped DEF EntryForeign
<1>16. ASSUME TriggerEntries(s) PROVE StatusesInFlight'
  <2> DEFINE w == [worker[s] EXCEPT !.pc = "nested"]
  <2>1. WorkerMark(w)
    BY <1>1 DEF WorkerMark, Worker
  <2>2. Becomes(s, w) \/ Becomes(s, Idle)
    BY <1>16 DEF TriggerEntries
  <2>3. UNCHANGED cache
    BY <1>16 DEF TriggerEntries
  <2> HIDE DEF w
  <2> QED BY <1>2, <1>3, <2>1, <2>2, <2>3
<1>17. ASSUME TriggerNested(s) PROVE StatusesInFlight'
  BY <1>3, <1>17 DEF TriggerNested
<1> QED BY <1>4, <1>7, <1>8, <1>9, <1>10, <1>11, <1>13, <1>14, <1>15, <1>16, <1>17
        DEF Reconcile

\* Every step keeps what is on its way within its bounds.
LEMMA StatusesNext == TypeOK /\ StatusesInFlight /\ [Next]_vars => StatusesInFlight'
<1> SUFFICES ASSUME TypeOK, StatusesInFlight, [Next]_vars PROVE StatusesInFlight'
  OBVIOUS
<1>1. ASSUME NEW s \in Server, Answer(s) \/ Fault(s) PROVE StatusesInFlight'
  <2>1. Becomes(s, Idle) \/ Becomes(s, Follow(worker[s].key, worker[s].after))
    BY <1>1 DEF Answer, Fault, WriteAccepted, WriteRejected, WriteFails,
                WriteUnanswered, Retry
  <2>2. UNCHANGED cache
    BY <1>1 DEF Answer, Fault, WriteAccepted, WriteRejected, WriteFails, WriteUnanswered
  <2> QED BY <2>1, <2>2, NoStatus, MarksKept, MarksReplaced DEF Becomes
<1>2. ASSUME NEW s \in Server, Expire(s) PROVE StatusesInFlight'
  BY <1>2, StatusesKept DEF Expire, Requeue
<1>3. CASE UNCHANGED vars
  BY <1>3, StatusesKept DEF vars
<1> QED BY <1>1, <1>2, <1>3, StatusesEnvironment, StatusesDeliver, StatusesTake,
           StatusesReconcile DEF Next, Work
\* A status on its way leaves alone what is not the server's, for any number of
\* servers and objects.
THEOREM StatusesTravel == Spec => []StatusesInFlight
<1>1. Init => TypeOK /\ StatusesInFlight
  BY TypeInit, StatusesInit
<1>2. (TypeOK /\ StatusesInFlight) /\ [Next]_vars => (TypeOK /\ StatusesInFlight)'
  BY TypeNext, StatusesNext
<1> QED BY <1>1, <1>2, PTL DEF Spec

-----------------------------------------------------------------------------
(* Every step is one of the store, or changes nothing there. *)

\* An accepted change stores the specification and the status it is made of,
\* under the next version.
LEMMA PublishPuts ==
    ASSUME TypeOK, NEW o \in Object, NEW v, Publish(v), NEW spec, NEW status,
           v = [name |-> o, rv |-> NewVersion(o), spec |-> spec, status |-> status]
    PROVE  Store!Put(o, spec, status)
<1>1. v.name = o /\ v.rv = version[o] + 1
  BY DEF NewVersion
<1>2. api' = [api EXCEPT ![o] = [name |-> o, rv |-> version[o] + 1, spec |-> spec,
                                 status |-> status]]
  BY <1>1 DEF Publish, NewVersion
<1>3. version' = [version EXCEPT ![o] = version[o] + 1]
  BY <1>1 DEF Publish
<1> QED BY <1>2, <1>3 DEF Store!Put

\* A stored object is made of four fields.
LEMMA StoredFields ==
    ASSUME TypeOK, NEW o \in Object, api[o] # Absent, NEW rv
    PROVE  [api[o] EXCEPT !.rv = rv] =
             [name |-> o, rv |-> rv, spec |-> api[o].spec, status |-> api[o].status]
<1>1. api[o] \in Stored(o)
  BY DEF TypeOK, ApiOK
<1> QED BY <1>1 DEF Stored

\* A change of the specification keeps the status.
LEMMA SpecReplaced ==
    ASSUME TypeOK, NEW o \in Object, api[o] # Absent, NEW rv, NEW spec
    PROVE  [api[o] EXCEPT !.rv = rv, !.spec = spec]
           = [name |-> o, rv |-> rv, spec |-> spec, status |-> api[o].status]
<1> DEFINE v == [api[o] EXCEPT !.rv = rv]
<1>1. v = [name |-> o, rv |-> rv, spec |-> api[o].spec, status |-> api[o].status]
  BY StoredFields
<1> HIDE DEF v
<1>2. [v EXCEPT !.spec = spec]
      = [name |-> o, rv |-> rv, spec |-> spec, status |-> api[o].status]
  BY <1>1
<1> QED BY <1>2 DEF v

\* A change of the status keeps the specification.
LEMMA StatusReplaced ==
    ASSUME TypeOK, NEW o \in Object, api[o] # Absent, NEW rv, NEW status
    PROVE  [api[o] EXCEPT !.rv = rv, !.status = status]
           = [name |-> o, rv |-> rv, spec |-> api[o].spec, status |-> status]
<1> DEFINE v == [api[o] EXCEPT !.rv = rv]
<1>1. v = [name |-> o, rv |-> rv, spec |-> api[o].spec, status |-> api[o].status]
  BY StoredFields
<1> HIDE DEF v
<1>2. [v EXCEPT !.status = status]
      = [name |-> o, rv |-> rv, spec |-> api[o].spec, status |-> status]
  BY <1>1
<1> QED BY <1>2 DEF v

\* What a worker is about to store fits the object while it is accepted.
LEMMA ReportFits ==
    ASSUME TypeOK, CopiesAreVersions, VerdictsInFlight, StatusesInFlight,
           NEW s \in Server, Busy(s, "write"), Fresh(s), NEW k, k = worker[s].key
    PROVE  Store!Fits(k, api[k].spec, api[k].status, worker[s].status)
<1> DEFINE c == worker[s].obj
           st == worker[s].status
<1>1. k \in Object /\ c \in Copied(k) /\ c # Absent /\ c.name = k
  <2>1. k \in Object /\ c \in Copied(k)
    BY DEF Busy, TypeOK, WorkersOK, WorkerOK
  <2> QED BY <2>1, NamesAreDistinct DEF Copied
<1>2. api[k] # Absent /\ api[k].rv = version[k] /\ c.rv = version[k]
  BY <1>1 DEF Fresh, CopiesAreVersions, StoreCurrent
<1>3. c.spec = api[k].spec /\ c.status = api[k].status
  BY <1>1, <1>2 DEF CopiesAreVersions, WorkersAgree, Agrees
<1>4. Preserved(c, st)
  BY <1>1 DEF StatusesInFlight, WorkerMark, Busy
<1>5. ASSUME k \in Entry
      PROVE  \A n \in st.names : \E m \in c.spec.names : Store!StartsWith(n, m)
  <2>1. AreUnder(st.names, c.spec.names)
    BY <1>1, <1>5 DEF VerdictsInFlight, WorkerVerdict, Busy
  <2> QED BY <2>1 DEF AreUnder, StartsWith, Store!StartsWith
<1> QED BY <1>1, <1>3, <1>4, <1>5 DEF Preserved, Store!Fits

\* An accepted status update is a report that fits.
LEMMA ApplyReports ==
    ASSUME TypeOK, CopiesAreVersions, VerdictsInFlight, StatusesInFlight,
           NEW s \in Server, Busy(s, "write"), Fresh(s), Apply(s)
    PROVE  Store!Servers
<1> DEFINE k == worker[s].key
           st == worker[s].status
           v == [api[k] EXCEPT !.rv = NewVersion(k), !.status = st]
<1>1. k \in Object /\ api[k] # Absent
  BY DEF Busy, Fresh, TypeOK, WorkersOK, WorkerOK
<1>2. Publish(v)
  BY DEF Apply
<1>3. v = [name |-> k, rv |-> NewVersion(k), spec |-> api[k].spec, status |-> st]
  BY <1>1, StatusReplaced
<1> HIDE DEF v
<1>4. Store!Put(k, api[k].spec, st)
  BY <1>1, <1>2, <1>3, PublishPuts
<1>5. api'[k] = v
  BY <1>1, <1>2, <1>3 DEF Publish, TypeOK, ApiOK
<1>6. v \in Stored(k) /\ v.status = st
  <2>1. st \in StatusOf(k) /\ api[k] \in Stored(k)
    BY <1>1 DEF Busy, TypeOK, ApiOK, WorkersOK, WorkerOK
  <2>2. NewVersion(k) \in Nat
    BY <1>1 DEF NewVersion, TypeOK, ApiOK
  <2> QED BY <1>3, <2>1, <2>2 DEF Stored
<1>7. api'[k] # Absent /\ api'[k].status = st
  BY <1>1, <1>5, <1>6, NamesAreDistinct
<1>8. Store!Fits(k, api[k].spec, api[k].status, st)
  BY ReportFits
<1> HIDE DEF k, st
<1>9. Store!Report(k, api'[k].status)
  BY <1>4, <1>7, <1>8 DEF Store!Report
<1> QED BY <1>1, <1>7, <1>9 DEF Store!Servers, Store!Exists, Store!Object, Object

\* What users do is what they do in the store.
LEMMA UsersChange ==
    ASSUME TypeOK, Users
    PROVE  Store!Users
<1>1. ASSUME NEW o \in Object, NEW spec, Create(o, spec) PROVE Store!Declare(o, spec)
  <2> DEFINE v == [name |-> o, rv |-> NewVersion(o), spec |-> spec,
                   status |-> NewStatusOf(o)]
  <2>1. Publish(v) /\ api[o] = Absent
    BY <1>1 DEF Create, NewStatusOf
  <2> HIDE DEF v
  <2>2. Store!Put(o, spec, NewStatusOf(o))
    BY <2>1, PublishPuts DEF v
  <2> QED BY <2>1, <2>2 DEF Store!Declare, Store!Exists
<1>2. ASSUME NEW o \in Object, NEW spec, Update(o, spec) PROVE Store!Change(o, spec)
  <2> DEFINE v == [api[o] EXCEPT !.rv = NewVersion(o), !.spec = spec]
  <2>1. Publish(v) /\ api[o] # Absent
    BY <1>2 DEF Update
  <2>2. v = [name |-> o, rv |-> NewVersion(o), spec |-> spec, status |-> api[o].status]
    BY <2>1, SpecReplaced
  <2> HIDE DEF v
  <2>3. Store!Put(o, spec, api[o].status)
    BY <2>1, <2>2, PublishPuts
  <2> QED BY <2>1, <2>3 DEF Store!Change, Store!Exists
<1>3. ASSUME NEW o \in Object, Delete(o) PROVE Store!Remove(o)
  BY <1>3 DEF Delete, Store!Remove, Store!Exists
<1> QED BY <1>1, <1>2, <1>3 DEF Users, Store!Users, Store!Object, Object

\* So is what the aaS controller does.
LEMMA SupervisorChanges ==
    ASSUME TypeOK, NEW o \in Supervised, Supervise(o)
    PROVE  Store!Supervise(o)
<1> DEFINE v == [api[o] EXCEPT !.rv = NewVersion(o), !.status = Supervision(@)]
           st == Supervision(api[o].status)
<1>1. o \in Object /\ Publish(v) /\ api[o] # Absent
  BY EnvironmentIsTyped DEF Supervise
<1>2. v = [api[o] EXCEPT !.rv = NewVersion(o), !.status = st]
  OBVIOUS
<1> HIDE DEF v, st
<1>3. v = [name |-> o, rv |-> NewVersion(o), spec |-> api[o].spec, status |-> st]
  BY <1>1, <1>2, StatusReplaced
<1>4. Store!Put(o, api[o].spec, st)
  BY <1>1, <1>3, PublishPuts
<1> QED BY <1>1, <1>4 DEF Store!Supervise, Store!Exists, st

\* Every other step leaves the store as it is.
LEMMA StoreSteps ==
    ASSUME TypeOK, CopiesAreVersions, VerdictsInFlight, StatusesInFlight, [Next]_vars
    PROVE  [Store!Next]_(Store!vars)
<1>1. ASSUME UNCHANGED store PROVE UNCHANGED Store!vars
  BY <1>1 DEF store, Store!vars
<1>2. ASSUME Environment PROVE [Store!Next]_(Store!vars)
  <2>1. CASE Users
    BY <2>1, UsersChange DEF Store!Next
  <2>2. ASSUME NEW o \in Supervised, Supervise(o) PROVE Store!Next
    BY <2>2, SupervisorChanges DEF Store!Next
  <2>3. ASSUME Tick \/ \E s \in Server : Kill(s) \/ Start(s) \/ Relist(s)
        PROVE  UNCHANGED store
    BY <2>3 DEF Tick, Kill, Start, Relist
  <2> QED BY <1>1, <1>2, <2>1, <2>2, <2>3 DEF Environment
<1>3. ASSUME NEW s \in Server, Deliver(s) \/ Take(s) \/ Reconcile(s) \/ Expire(s)
      PROVE  UNCHANGED store
  BY <1>3
     DEF Deliver, DeliverAdd, DeliverUpdate, DeliverDelete, UpdatePanics, DeletePanics,
         Take, TakeZone, TakeDeletedZone, TakeEntry, DropEntry,
         Reconcile, WalkUp, ZoneServed, ZoneOrphaned, ZoneIgnored, LookupZone,
         ZoneMissing, EntryServed, EntryOrphaned, EntryForeign, TriggerEntries,
         TriggerNested, Expire, Requeue
<1>4. ASSUME NEW s \in Server, Answer(s) \/ Fault(s)
      PROVE  UNCHANGED store \/ (Busy(s, "write") /\ Fresh(s) /\ Apply(s))
  BY <1>4 DEF Answer, Fault, WriteAccepted, WriteRejected, WriteFails, WriteUnanswered
<1>5. ASSUME NEW s \in Server, Answer(s) \/ Fault(s) PROVE [Store!Next]_(Store!vars)
  BY <1>1, <1>4, <1>5, ApplyReports DEF Store!Next
<1>6. CASE UNCHANGED vars
  BY <1>1, <1>6 DEF vars, store
<1> QED BY <1>1, <1>2, <1>3, <1>5, <1>6 DEF Next, Work

\* The initial objects are those of the store.
LEMMA StoreInit == Init => Store!Init
BY DEF Init, Store!Init, Store!Object, Object

\* The controller implements the store: users and the aaS controller aside, an
\* object only changes by a verdict that fits the specification it has at that
\* moment, whatever is late, lost, repeated or restarted.
THEOREM ControllerImplementsStore == Spec => StoreSpec
<1> DEFINE IInv == TypeOK /\ CopiesAreVersions /\ VerdictsInFlight /\ StatusesInFlight
<1>1. Init => IInv
  BY TypeInit, VersionsInit, VerdictsInit, StatusesInit
<1>2. IInv /\ [Next]_vars => IInv'
  BY TypeNext, VersionsNext, VerdictsNext, StatusesNext
<1>3. IInv /\ [Next]_vars => [Store!Next]_(Store!vars)
  BY StoreSteps
<1> QED BY <1>1, <1>2, <1>3, StoreInit, PTL DEF Spec, StoreSpec, Store!Spec
=============================================================================
