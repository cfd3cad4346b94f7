-------------------------- MODULE ControllerRefines --------------------------
(***************************************************************************)
(* The controller implements the store of versioned objects: seen from the *)
(* API server, whatever the servers, their caches, their queues and their  *)
(* late, lost and repeated calls do is a report that fits, or nothing.     *)
(***************************************************************************)
EXTENDS ControllerProps

NewStatusOf(o) == IF o \in Zone THEN NewZoneStatus ELSE NewEntryStatus

Store == INSTANCE StatusStore WITH
             objects <- api,
             versions <- version,
             NewStatus <- NewStatusOf

\* Every change of an object is made by its users, by the aaS controller, or
\* is a verdict of a server which fits the specification the object has when
\* the verdict is stored, keeps the conditions and the name servers others
\* report, and keeps the state of an entry an aaS controller looks after.
StoreSpec == Store!Spec

-----------------------------------------------------------------------------
(* Why: what a worker is about to store already fits the copy it holds. *)

\* A copy without error is good, though not the other way around, and an entry
\* with an aaS controller is never taken for one without.
CopyMark(c) ==
    /\ c.err = <<>> => Store!Good(c.name, c.spec)
    /\ c.name \in Entry /\ c.plain => ~c.status.managed

Preserved(c, st) ==
    /\ Store!Judges(c.name, c.spec, c.status, st)
    /\ Store!Spares(c.name, c.status, st)

WorkerMark(w) ==
    w.obj # Absent => CopyMark(w.obj) /\ (w.pc = "write" => Preserved(w.obj, w.status))

CacheMarks == \A s \in Server : \A o \in Object :
                cache[s][o] # Absent => CopyMark(cache[s][o])

\* A status on its way leaves alone what is not the server's, although the
\* worker assigns Error and Plain of the copies it shares with the cache.
StatusesInFlight == CacheMarks /\ \A s \in Server : WorkerMark(worker[s])
=============================================================================
