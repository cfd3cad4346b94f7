----------------------------- MODULE Controller -----------------------------
(***************************************************************************)
(* The controller of the plugin in mode Primary, in any number of DNS      *)
(* servers that work on the same namespace of one API server.              *)
(*                                                                         *)
(* Each server has an informer per resource, which keeps a cache of        *)
(* converted objects and enqueues keys, and one worker (WORKER_NO = 1)     *)
(* which reads the caches, writes the status of the object and enqueues    *)
(* the keys of dependent objects.  Users, an aaS controller, lost watches, *)
(* failing API calls and killed processes are the environment.             *)
(*                                                                         *)
(* An event stays in pending from the moment the API server accepts the    *)
(* change until the informer has updated its cache and called the handler. *)
(* Events of one object are delivered in order; events of different        *)
(* objects in any order, which covers the two independent informers, the   *)
(* order of a list and the grouping by object of the informers' queue.     *)
(***************************************************************************)
EXTENDS Objects

CONSTANTS
    Server,      \* the DNS server processes
    RootOf,      \* the root zone each server is configured with (zoneRef)
    Slave,       \* servers with option slave
    Transitive,  \* servers with option transitive
    Specs,       \* the specifications users may give each object
    Initial,     \* the objects that exist at the start, Absent for the others
    Synced,      \* servers that start with caches that hold the initial objects
    Ops,         \* what users may do: <<"create" | "update" | "delete", object>>
    Supervised,  \* the objects an aaS controller adds conditions to
    Limit,       \* how often the environment acts, by kind of action
    Missed       \* the event of an informer that finds an object gone

Budget == {"ops", "kills", "relists", "faults", "ticks"}

ASSUME NamesAreDistinct ==
    /\ Zone \cap Entry = {}
    /\ None \notin Object
    /\ \A o \in Object : Absent \notin Stored(o) \cup Copied(o)
    /\ \A o \in Object : Missed \notin Stored(o) \cup Copied(o)
    /\ Missed # Absent

ASSUME ServersAreConfigured ==
    /\ RootOf \in [Server -> Zone]
    /\ Slave \subseteq Server
    /\ Transitive \subseteq Server
    /\ Synced \subseteq Server

ASSUME EnvironmentIsTyped ==
    /\ \A o \in Object : Specs[o] \subseteq SpecOf(o)
    /\ Supervised \subseteq Object
    /\ Limit \in [Budget -> Nat]
    /\ \A o \in Object :
         Initial[o] # Absent => Initial[o] \in Stored(o) /\ Initial[o].rv = 1

VARIABLES
    api,       \* the objects in the API server
    version,   \* the last resource version each object had
    spent,     \* how often the environment acted, by kind of action
    up,        \* which servers run
    pending,   \* per server and object, the events not yet delivered
    cache,     \* per server and object, the copy in the informer's cache
    queue,     \* per server, the keys in the work queue
    delayed,   \* per server, the keys that wait for their rate limit
    worker,    \* per server, what the worker is doing
    modified   \* per server, the time of the last change it noticed

vars == <<api, version, spent, up, pending, cache, queue, delayed, worker,
          modified>>
store == <<api, version>>
memory == <<cache, queue, delayed, worker, modified>>

-----------------------------------------------------------------------------
(* The worker.  It is idle, about to look up the zone of an entry, walking *)
(* from zone to parent, about to write a status, or about to trigger the   *)
(* entries or the nested zones of a zone.  alias says that the copy it     *)
(* works on is still the one in the cache and not a replaced one.          *)

PC == {"idle", "lookup", "walk", "write", "entries", "nested"}

Idle == [pc |-> "idle", key |-> None, obj |-> Absent, alias |-> FALSE,
         zone |-> Absent, at |-> Absent, names |-> {}, status |-> Absent,
         after |-> "none"]

AnyStatus == ZoneStatus \cup EntryStatus
AnyCopied == [name : Object, rv : Nat, spec : ZoneSpec \cup EntrySpec,
              status : AnyStatus, plain : BOOLEAN, err : Message]
CopiedZone == [name : Zone, rv : Nat, spec : ZoneSpec, status : ZoneStatus,
               plain : BOOLEAN, err : Message]

Worker == [pc : PC, key : Object \cup {None}, obj : AnyCopied \cup {Absent},
           alias : BOOLEAN, zone : CopiedZone \cup {Absent},
           at : CopiedZone \cup {Absent}, names : SUBSET Name,
           status : AnyStatus \cup {Absent}, after : {"none", "entries", "all"}]

Now == 1 + spent.ticks

NoEvents == [o \in Object |-> <<>>]
NoCopies == [o \in Object |-> Absent]
Listed == [o \in Object |-> IF api[o] = Absent THEN <<>> ELSE <<api[o]>>]

Copy(s, v) ==
    IF v.name \in Zone
    THEN ToZone(v, s \in Transitive, s \in Slave)
    ELSE ToEntry(v, s \in Slave)

Init ==
    /\ api = [o \in Object |-> Initial[o]]
    /\ version = [o \in Object |-> IF Initial[o] = Absent THEN 0 ELSE 1]
    /\ spent = [b \in Budget |-> 0]
    /\ up = [s \in Server |-> s \in Synced]
    /\ pending = [s \in Server |-> NoEvents]
    /\ cache = [s \in Server |-> [o \in Object |->
                  IF s \in Synced /\ Initial[o] # Absent
                  THEN Copy(s, Initial[o]) ELSE Absent]]
    /\ queue = [s \in Server |->
                  IF s \in Synced THEN {o \in Object : Initial[o] # Absent} ELSE {}]
    /\ delayed = [s \in Server |-> {}]
    /\ worker = [s \in Server |-> Idle]
    /\ modified = [s \in Server |-> IF s \in Synced THEN 1 ELSE 0]

-----------------------------------------------------------------------------
(* The API server.  Every accepted change gets a new resource version and  *)
(* is announced to the servers that run.                                   *)

Spend(b) ==
    /\ spent[b] < Limit[b]
    /\ spent' = [spent EXCEPT ![b] = @ + 1]

Announce(o, v) ==
    pending' = [s \in Server |->
                  IF up[s] THEN [pending[s] EXCEPT ![o] = Append(@, v)]
                  ELSE pending[s]]

Publish(v) ==
    /\ api' = [api EXCEPT ![v.name] = v]
    /\ version' = [version EXCEPT ![v.name] = v.rv]
    /\ Announce(v.name, v)

NewVersion(o) == version[o] + 1

Create(o, spec) ==
    /\ api[o] = Absent
    /\ Spend("ops")
    /\ Publish([name |-> o, rv |-> NewVersion(o), spec |-> spec,
                status |-> IF o \in Zone THEN NewZoneStatus ELSE NewEntryStatus])
    /\ UNCHANGED <<up, memory>>

Update(o, spec) ==
    /\ api[o] # Absent
    /\ api[o].spec # spec
    /\ Spend("ops")
    /\ Publish([api[o] EXCEPT !.rv = NewVersion(o), !.spec = spec])
    /\ UNCHANGED <<up, memory>>

Delete(o) ==
    /\ api[o] # Absent
    /\ Spend("ops")
    /\ api' = [api EXCEPT ![o] = Absent]
    /\ Announce(o, Absent)
    /\ UNCHANGED <<version, up, memory>>

\* The aaS controller keeps a condition of its own and derives the state of
\* the object from the condition of the DNS server.
Supervision(st) ==
    [st EXCEPT !.managed = TRUE,
               !.state = IF st.server # <<>> /\ Head(st.server) = "True"
                         THEN "Ready" ELSE "Invalid"]

Supervise(o) ==
    /\ api[o] # Absent
    /\ api[o].status # Supervision(api[o].status)
    /\ Publish([api[o] EXCEPT !.rv = NewVersion(o), !.status = Supervision(@)])
    /\ UNCHANGED <<spent, up, memory>>

Tick ==
    /\ Spend("ticks")
    /\ UNCHANGED <<store, up, pending, memory>>

-----------------------------------------------------------------------------
(* The process.  Nothing is persisted: a server starts with empty caches   *)
(* and lists all objects.                                                  *)

Die(s) ==
    /\ up' = [up EXCEPT ![s] = FALSE]
    /\ pending' = [pending EXCEPT ![s] = NoEvents]
    /\ cache' = [cache EXCEPT ![s] = NoCopies]
    /\ queue' = [queue EXCEPT ![s] = {}]
    /\ delayed' = [delayed EXCEPT ![s] = {}]
    /\ worker' = [worker EXCEPT ![s] = Idle]
    /\ modified' = [modified EXCEPT ![s] = 0]

Kill(s) ==
    /\ up[s]
    /\ Spend("kills")
    /\ Die(s)
    /\ UNCHANGED store

Start(s) ==
    /\ ~up[s]
    /\ up' = [up EXCEPT ![s] = TRUE]
    /\ pending' = [pending EXCEPT ![s] = Listed]
    /\ UNCHANGED <<store, spent, memory>>

\* Mutant: an object that is gone is not reported.
RelistForgets(s) ==
    /\ up[s]
    /\ Spend("relists")
    /\ pending' = [pending EXCEPT ![s] = Listed]
    /\ UNCHANGED <<store, up, memory>>

\* The watch breaks and the informer lists again: the events that were under
\* way are lost, and an object that is cached but no longer listed is
\* reported as deleted without its final state.
Relist(s) ==
    /\ up[s]
    /\ Spend("relists")
    /\ pending' = [pending EXCEPT ![s] =
                     [o \in Object |->
                        IF api[o] = Absent /\ cache[s][o] # Absent
                        THEN <<Missed>> ELSE Listed[o]]]
    /\ UNCHANGED <<store, up, memory>>

-----------------------------------------------------------------------------
(* The informers and their handlers Add, Update and Delete. *)

Incoming(s, o) == up[s] /\ pending[s][o] # <<>>
Event(s, o) == Head(pending[s][o])

Consume(s, o) == pending' = [pending EXCEPT ![s][o] = Tail(@)]

\* The copy in the cache is replaced; a worker that holds it keeps the old one.
Replace(s, o, c) ==
    /\ cache' = [cache EXCEPT ![s][o] = c]
    /\ worker' = [worker EXCEPT ![s].alias = @ /\ worker[s].key # o]

Notice(s, o) ==
    /\ modified' = [modified EXCEPT ![s] = Now]
    /\ queue' = [queue EXCEPT ![s] = @ \cup {o}]

DeliverAdd(s, o) ==
    /\ Incoming(s, o)
    /\ Event(s, o) \notin {Absent, Missed}
    /\ cache[s][o] = Absent
    /\ Replace(s, o, Copy(s, Event(s, o)))
    /\ Notice(s, o)
    /\ Consume(s, o)
    /\ UNCHANGED <<store, spent, up, delayed>>

Differ(old, new) ==
    /\ old.rv # new.rv
    /\ IF new.name \in Zone THEN ~ZoneEqual(old, new) ELSE ~EntryEqual(old, new)

ComparePanics(old, new) ==
    /\ old.rv # new.rv
    /\ new.name \in Entry
    /\ EntryEqualPanics(old, new)

DeliverUpdate(s, o) ==
    /\ Incoming(s, o)
    /\ Event(s, o) \notin {Absent, Missed}
    /\ cache[s][o] # Absent
    /\ LET new == Copy(s, Event(s, o))
       IN  /\ ~ComparePanics(cache[s][o], new)
           /\ Replace(s, o, new)
           /\ IF Differ(cache[s][o], new)
              THEN Notice(s, o) ELSE UNCHANGED <<modified, queue>>
    /\ Consume(s, o)
    /\ UNCHANGED <<store, spent, up, delayed>>

DeliverDelete(s, o) ==
    /\ Incoming(s, o)
    /\ Event(s, o) = Absent
    /\ Replace(s, o, Absent)
    /\ Notice(s, o)
    /\ Consume(s, o)
    /\ UNCHANGED <<store, spent, up, delayed>>

\* The comparison dereferences a missing service section; the panic ends the
\* process, because the goroutine of the informer does not recover.
UpdatePanics(s, o) ==
    /\ Incoming(s, o)
    /\ Event(s, o) \notin {Absent, Missed}
    /\ cache[s][o] # Absent
    /\ ComparePanics(cache[s][o], Copy(s, Event(s, o)))
    /\ Die(s)
    /\ UNCHANGED <<store, spent>>

\* Delete expects an object but is called with cache.DeletedFinalStateUnknown.
DeletePanics(s, o) ==
    /\ Incoming(s, o)
    /\ Event(s, o) = Missed
    /\ Die(s)
    /\ UNCHANGED <<store, spent>>

-----------------------------------------------------------------------------
(* The worker: what a step leaves it with. *)

Becomes(s, w) == worker' = [worker EXCEPT ![s] = w]

Enqueue(s, keys) == queue' = [queue EXCEPT ![s] = @ \cup keys]

\* The worker is done with its key, or goes on to trigger dependent objects.
Follow(key, after) ==
    IF after = "none" THEN Idle
    ELSE [Idle EXCEPT !.pc = "entries", !.key = key, !.after = after]

\* Mutant: the new status is assigned in the copy itself.
SubmitInPlace(c, status, after) ==
    [Idle EXCEPT !.pc = "write", !.key = c.name, !.obj = [c EXCEPT !.status = status],
                 !.status = status, !.after = after]

Submit(c, status, after) ==
    [Idle EXCEPT !.pc = "write", !.key = c.name, !.obj = c,
                 !.status = status, !.after = after]

Busy(s, pc) == up[s] /\ worker[s].pc = pc

\* The API call of UpdateStatus is made only when the status changes.
UpdateEntry(s, root, names, err) ==
    LET c == worker[s].obj
    IN  Becomes(s, IF EntryStatusModified(c, root, names, err)
                   THEN Submit(c, EntryStatusOf(c, root, names, err), "none")
                   ELSE Idle)

-----------------------------------------------------------------------------
(* reconcileZone *)

TakeZone(s, k) ==
    /\ Busy(s, "idle")
    /\ k \in Zone \cap queue[s]
    /\ cache[s][k] # Absent
    /\ queue' = [queue EXCEPT ![s] = @ \ {k}]
    /\ Becomes(s, [Idle EXCEPT !.pc = "walk", !.key = k, !.obj = cache[s][k],
                               !.alias = TRUE, !.at = cache[s][k]])
    /\ UNCHANGED <<store, spent, up, pending, cache, delayed, modified>>

TakeDeletedZone(s, k) ==
    /\ Busy(s, "idle")
    /\ k \in Zone \cap queue[s]
    /\ cache[s][k] = Absent
    /\ queue' = [queue EXCEPT ![s] = @ \ {k}]
    /\ Becomes(s, Follow(k, "all"))
    /\ UNCHANGED <<store, spent, up, pending, cache, delayed, modified>>

\* Mutant: every zone without parent is taken for the root zone.
AtAnyRoot(s) == worker[s].at.spec.parent = None

\* The walk of responsibleForZoneObject: it ends at the root zone of the
\* server, at another zone without parent or at a parent that is not cached.
AtRoot(s) == worker[s].at.name = RootOf[s]
AtForeignRoot(s) == ~AtRoot(s) /\ worker[s].at.spec.parent = None
Parent(s) == cache[s][worker[s].at.spec.parent]
HasParent(s) == ~AtRoot(s) /\ worker[s].at.spec.parent # None

WalkUp(s) ==
    /\ Busy(s, "walk")
    /\ HasParent(s)
    /\ Parent(s) # Absent
    /\ Becomes(s, [worker[s] EXCEPT !.at = Parent(s),
                                    !.names = AggregateNames(@, Parent(s))])
    /\ UNCHANGED <<store, spent, up, pending, cache, queue, delayed, modified>>

\* Mutant: the status is assigned in the object of the cache, too.
AmendStatus(s, z) ==
    cache' = IF worker[s].alias
             THEN [cache EXCEPT ![s][z.name] = [z EXCEPT !.status = ZoneStatusOf(z)]]
             ELSE cache

\* Error and Plain are assigned in the object of the cache.
Amend(s, z) ==
    cache' = IF worker[s].alias
             THEN [cache EXCEPT ![s][z.name] = z] ELSE cache

UpdateZone(s, z, modAfter, after) ==
    /\ Amend(s, z)
    /\ Becomes(s, IF ZoneStatusModified(z)
                  THEN Submit(z, ZoneStatusOf(z), modAfter)
                  ELSE Follow(z.name, after))

ReconcilesZone(s) == Busy(s, "walk") /\ worker[s].key \in Zone
ReconcilesEntry(s) == Busy(s, "walk") /\ worker[s].key \in Entry

ZoneServed(s) ==
    /\ ReconcilesZone(s)
    /\ AtRoot(s)
    /\ UpdateZone(s, [worker[s].obj EXCEPT !.plain = worker[s].at.plain],
                  "all", "all")
    /\ UNCHANGED <<store, spent, up, pending, queue, delayed, modified>>

\* Mutant: the entries of the zone are not triggered.
ZoneOrphanedAlone(s) ==
    /\ ReconcilesZone(s)
    /\ HasParent(s)
    /\ Parent(s) = Absent
    /\ s \notin Slave
    /\ UpdateZone(s, [worker[s].obj EXCEPT
                        !.err = IF @ = <<>> THEN NoRootZone ELSE @],
                  "none", "none")
    /\ UNCHANGED <<store, spent, up, pending, queue, delayed, modified>>

ZoneOrphaned(s) ==
    /\ ReconcilesZone(s)
    /\ HasParent(s)
    /\ Parent(s) = Absent
    /\ s \notin Slave
    /\ UpdateZone(s, [worker[s].obj EXCEPT
                        !.err = IF @ = <<>> THEN NoRootZone ELSE @],
                  "entries", "none")
    /\ UNCHANGED <<store, spent, up, pending, queue, delayed, modified>>

\* Zones of another server, and for a slave zones without root, are ignored.
ZoneIgnored(s) ==
    /\ ReconcilesZone(s)
    /\ \/ AtForeignRoot(s)
       \/ HasParent(s) /\ Parent(s) = Absent /\ s \in Slave
    /\ Becomes(s, Idle)
    /\ UNCHANGED <<store, spent, up, pending, cache, queue, delayed, modified>>

-----------------------------------------------------------------------------
(* reconcileEntry *)

\* Mutant: the copy is used without a look whether there is one.
TakeEntryUnchecked(s, k) ==
    /\ Busy(s, "idle")
    /\ k \in Entry \cap queue[s]
    /\ queue' = [queue EXCEPT ![s] = @ \ {k}]
    /\ Becomes(s, [Idle EXCEPT !.pc = "lookup", !.key = k,
                               !.obj = cache[s][k], !.alias = TRUE])
    /\ UNCHANGED <<store, spent, up, pending, cache, delayed, modified>>

TakeEntry(s, k) ==
    /\ Busy(s, "idle")
    /\ k \in Entry \cap queue[s]
    /\ cache[s][k] # Absent
    /\ cache[s][k].spec.zone # None
    /\ queue' = [queue EXCEPT ![s] = @ \ {k}]
    /\ Becomes(s, [Idle EXCEPT !.pc = "lookup", !.key = k,
                               !.obj = cache[s][k], !.alias = TRUE])
    /\ UNCHANGED <<store, spent, up, pending, cache, delayed, modified>>

\* An entry that is gone or belongs to no zone needs nothing.
DropEntry(s, k) ==
    /\ Busy(s, "idle")
    /\ k \in Entry \cap queue[s]
    /\ \/ cache[s][k] = Absent
       \/ cache[s][k] # Absent /\ cache[s][k].spec.zone = None
    /\ queue' = [queue EXCEPT ![s] = @ \ {k}]
    /\ UNCHANGED <<store, spent, up, pending, cache, delayed, worker, modified>>

ZoneOfEntry(s) == cache[s][worker[s].obj.spec.zone]

LookupZone(s) ==
    /\ Busy(s, "lookup")
    /\ ZoneOfEntry(s) # Absent
    /\ Becomes(s, [worker[s] EXCEPT
                     !.pc = "walk", !.zone = ZoneOfEntry(s), !.at = ZoneOfEntry(s),
                     !.names = AggregateNames(worker[s].obj.spec.names,
                                              ZoneOfEntry(s))])
    /\ UNCHANGED <<store, spent, up, pending, cache, queue, delayed, modified>>

ZoneMissing(s) ==
    /\ Busy(s, "lookup")
    /\ ZoneOfEntry(s) = Absent
    /\ UpdateEntry(s, None, {}, NoRootZone)
    /\ UNCHANGED <<store, spent, up, pending, cache, queue, delayed, modified>>

\* Mutant: the state of the zone is not looked at.
EntryServedBlindly(s) ==
    /\ ReconcilesEntry(s)
    /\ AtRoot(s)
    /\ UpdateEntry(s, RootOf[s], worker[s].names, <<>>)
    /\ UNCHANGED <<store, spent, up, pending, cache, queue, delayed, modified>>

EntryServed(s) ==
    /\ ReconcilesEntry(s)
    /\ AtRoot(s)
    /\ LET z == worker[s].zone
       IN  IF z.status.state \in {"Ready", "Ok"}
           THEN UpdateEntry(s, RootOf[s], worker[s].names, <<>>)
           ELSE UpdateEntry(s, None, worker[s].names,
                            ZoneFailure(z.status.message))
    /\ UNCHANGED <<store, spent, up, pending, cache, queue, delayed, modified>>

EntryOrphaned(s) ==
    /\ ReconcilesEntry(s)
    /\ HasParent(s)
    /\ Parent(s) = Absent
    /\ IF s \in Slave THEN Becomes(s, Idle)
                      ELSE UpdateEntry(s, None, {}, NoRootZone)
    /\ UNCHANGED <<store, spent, up, pending, cache, queue, delayed, modified>>

\* Mutant: a claim is taken back whoever made it.
EntryForeignTaken(s) ==
    /\ ReconcilesEntry(s)
    /\ AtForeignRoot(s)
    /\ UpdateEntry(s, None, {}, ResponsibilityLost)
    /\ UNCHANGED <<store, spent, up, pending, cache, queue, delayed, modified>>

EntryForeign(s) ==
    /\ ReconcilesEntry(s)
    /\ AtForeignRoot(s)
    /\ IF worker[s].obj.status.root = RootOf[s]
       THEN UpdateEntry(s, None, {}, ResponsibilityLost)
       ELSE Becomes(s, Idle)
    /\ UNCHANGED <<store, spent, up, pending, cache, queue, delayed, modified>>

-----------------------------------------------------------------------------
(* The API call, and what follows it. *)

\* Mutant: the status is written without the version of the copy.
FreshUnversioned(s) == api[worker[s].key] # Absent

\* The API server accepts a status only for the version the copy was made of.
Fresh(s) ==
    LET k == worker[s].key
    IN  api[k] # Absent /\ api[k].rv = worker[s].obj.rv

Apply(s) ==
    LET k == worker[s].key
    IN  Publish([api[k] EXCEPT !.rv = NewVersion(k), !.status = worker[s].status])

\* Mutant: the key is forgotten after an error.
RetryForgotten(s) ==
    /\ Becomes(s, Idle)
    /\ UNCHANGED delayed

\* The error of a call makes the worker drop the key for a while.
Retry(s) ==
    /\ delayed' = [delayed EXCEPT ![s] = @ \cup {worker[s].key}]
    /\ Becomes(s, Idle)

WriteAccepted(s) ==
    /\ Busy(s, "write")
    /\ Fresh(s)
    /\ Apply(s)
    /\ Becomes(s, Follow(worker[s].key, worker[s].after))
    /\ UNCHANGED <<spent, up, cache, queue, delayed, modified>>

\* Mutant: only conflicts are handled, not the absence of the object.
WriteRejectedOnConflict(s) ==
    /\ Busy(s, "write")
    /\ api[worker[s].key] # Absent
    /\ ~Fresh(s)
    /\ Retry(s)
    /\ UNCHANGED <<store, spent, up, pending, cache, queue, modified>>

WriteRejected(s) ==
    /\ Busy(s, "write")
    /\ ~Fresh(s)
    /\ Retry(s)
    /\ UNCHANGED <<store, spent, up, pending, cache, queue, modified>>

WriteFails(s) ==
    /\ Busy(s, "write")
    /\ Spend("faults")
    /\ Retry(s)
    /\ UNCHANGED <<store, up, pending, cache, queue, modified>>

\* The status is stored but the answer does not arrive.
WriteUnanswered(s) ==
    /\ Busy(s, "write")
    /\ Fresh(s)
    /\ Spend("faults")
    /\ Apply(s)
    /\ Retry(s)
    /\ UNCHANGED <<up, cache, queue, modified>>

EntriesOf(s, k) ==
    {e \in Entry : cache[s][e] # Absent /\ cache[s][e].spec.zone = k}
NestedIn(s, k) ==
    {z \in Zone : cache[s][z] # Absent /\ cache[s][z].spec.parent = k}

TriggerEntries(s) ==
    /\ Busy(s, "entries")
    /\ Enqueue(s, EntriesOf(s, worker[s].key))
    /\ Becomes(s, IF worker[s].after = "all"
                  THEN [worker[s] EXCEPT !.pc = "nested"] ELSE Idle)
    /\ UNCHANGED <<store, spent, up, pending, cache, delayed, modified>>

TriggerNested(s) ==
    /\ Busy(s, "nested")
    /\ Enqueue(s, NestedIn(s, worker[s].key))
    /\ Becomes(s, Idle)
    /\ UNCHANGED <<store, spent, up, pending, cache, delayed, modified>>

\* Mutant: a key that was added again waits for its limit once more.
RequeueAgain(s, k) ==
    /\ up[s]
    /\ k \in delayed[s]
    /\ Enqueue(s, {k})
    /\ UNCHANGED <<store, spent, up, pending, cache, delayed, worker, modified>>

Requeue(s, k) ==
    /\ up[s]
    /\ k \in delayed[s]
    /\ delayed' = [delayed EXCEPT ![s] = @ \ {k}]
    /\ Enqueue(s, {k})
    /\ UNCHANGED <<store, spent, up, pending, cache, worker, modified>>

-----------------------------------------------------------------------------

Users ==
    \E o \in Object :
        \/ \E spec \in Specs[o] :
             \/ <<"create", o>> \in Ops /\ Create(o, spec)
             \/ <<"update", o>> \in Ops /\ Update(o, spec)
        \/ <<"delete", o>> \in Ops /\ Delete(o)

Environment ==
    \/ Users
    \/ \E o \in Supervised : Supervise(o)
    \/ Tick
    \/ \E s \in Server : Kill(s) \/ Start(s) \/ Relist(s)

Deliver(s) ==
    \E o \in Object :
        \/ DeliverAdd(s, o)
        \/ DeliverUpdate(s, o)
        \/ DeliverDelete(s, o)
        \/ UpdatePanics(s, o)
        \/ DeletePanics(s, o)

Take(s) ==
    \E k \in Object :
        \/ TakeZone(s, k)
        \/ TakeDeletedZone(s, k)
        \/ TakeEntry(s, k)
        \/ DropEntry(s, k)

Reconcile(s) ==
    \/ WalkUp(s)
    \/ ZoneServed(s)
    \/ ZoneOrphaned(s)
    \/ ZoneIgnored(s)
    \/ LookupZone(s)
    \/ ZoneMissing(s)
    \/ EntryServed(s)
    \/ EntryOrphaned(s)
    \/ EntryForeign(s)
    \/ TriggerEntries(s)
    \/ TriggerNested(s)

Answer(s) == WriteAccepted(s) \/ WriteRejected(s)
Fault(s) == WriteFails(s) \/ WriteUnanswered(s)
Expire(s) == \E k \in Object : Requeue(s, k)

Work(s) == Take(s) \/ Reconcile(s) \/ Answer(s) \/ Fault(s)

Next ==
    \/ Environment
    \/ \E s \in Server : Deliver(s) \/ Work(s) \/ Expire(s)

\* A killed container is restarted, the informers deliver what they are sent,
\* the one worker takes the next key and runs on, the API server answers, and
\* the delay of a key ends.  The aaS controller follows every change.
Fairness ==
    /\ \A s \in Server :
         /\ WF_vars(Start(s))
         /\ WF_vars(Deliver(s))
         /\ WF_vars(Take(s))
         /\ WF_vars(Reconcile(s))
         /\ WF_vars(Answer(s))
         /\ WF_vars(Expire(s))
    /\ \A o \in Supervised : WF_vars(Supervise(o))

Spec == Init /\ [][Next]_vars
FairSpec == Spec /\ Fairness
=============================================================================
