-------------------------------- MODULE Server --------------------------------
(***************************************************************************)
(* A DNS server from its start to its end: two informers fill the caches   *)
(* while users change the objects, the start waits for them (or does not), *)
(* and requests are resolved from whatever the caches hold.  The           *)
(* controller's worker is left out: it writes statuses, and no answer      *)
(* depends on them.                                                        *)
(*                                                                         *)
(* An event stays in feed[o] from the change of the object until the       *)
(* informer has stored it.  Watches are not lost here (see Controller).    *)
(***************************************************************************)
EXTENDS Resolver, FiniteSets

CONSTANTS
    Initial,     \* the declared objects at the start, Absent for the others
    Choices,     \* what users may declare each object to be
    Modes,       \* the values of option transitive
    MaxChanges   \* how often users change an object

VARIABLES
    api,         \* the declared objects
    changes,     \* how often they changed
    feed,        \* the values the informer has received but not yet stored
    informer,    \* the state of the informer of each resource
    listed,      \* the objects of the first list that are not yet stored
    serving,     \* "down", "waiting" for the caches, or "serving"
    closed,      \* whether the stop channel is closed
    past         \* history, not in the code: what each object was declared to be
                 \* when its informer listed it and since, while it runs

vars == <<held, transitive, req, api, changes, feed, informer, listed, serving, closed, past>>
caches == <<held, feed, informer, listed, past>>
lifecycle == <<serving, closed>>

Resource == {"zones", "entries"}
ObjectsOf(k) == IF k = "zones" THEN Zone ELSE Entry
ResourceOf(o) == IF o \in Zone THEN "zones" ELSE "entries"

ASSUME ServerIsTyped ==
    /\ Zone \cap Entry = {} /\ None \notin Object /\ DOMAIN Initial = Object
    /\ \A o \in Object : /\ Choices[o] \subseteq SpecOf(o) \cup {Absent}
                         /\ Initial[o] \in SpecOf(o) \cup {Absent}
                         /\ Absent \notin SpecOf(o) \cup Copied(o)
    /\ Modes \subseteq BOOLEAN /\ MaxChanges \in Nat

\* What an informer stores: only the specification matters to answers.
AsObject(o, spec) == [name |-> o, rv |-> 0, spec |-> spec,
                     status |-> IF o \in Zone THEN NewZoneStatus ELSE NewEntryStatus]
Copy(o, spec) ==
    IF spec = Absent THEN Absent
    ELSE IF o \in Zone THEN ToZone(AsObject(o, spec), transitive, FALSE)
    ELSE ToEntry(AsObject(o, spec), FALSE)

Init ==
    /\ transitive \in Modes
    /\ held = [o \in Object |-> Absent]
    /\ req = NoRequest
    /\ api = Initial
    /\ changes = 0
    /\ feed = [o \in Object |-> <<>>]
    /\ informer = [k \in Resource |-> "off"]
    /\ listed = [k \in Resource |-> {}]
    /\ serving = "down" /\ closed = FALSE
    /\ past = [o \in Object |-> {}]

-----------------------------------------------------------------------------
(* Readiness *)

\* Mutant: only one of the informers is asked.
HasSyncedEntries == informer["entries"] # "off" /\ listed["entries"] = {}

\* Mutant: an informer that has nothing to do counts as filled.
HasSyncedIdle ==
    \A k \in Resource : informer[k] # "off" /\ \A o \in ObjectsOf(k) : feed[o] = <<>>

\* Both first lists are stored.  An informer that stopped keeps its answer.
HasSynced == \A k \in Resource : informer[k] \in {"on", "stopped"} /\ listed[k] = {}

-----------------------------------------------------------------------------
(* The informers *)

Unsteady == req' = [req EXCEPT !.steady = FALSE]

\* The first list, and the watch that begins where it ends.
List(k) ==
    /\ serving # "down" /\ ~closed /\ informer[k] = "off"
    /\ LET present == {o \in ObjectsOf(k) : api[o] # Absent}
       IN  /\ feed' = [o \in Object |-> IF o \in present THEN <<api[o]>> ELSE feed[o]]
           /\ listed' = [listed EXCEPT ![k] = present]
    /\ informer' = [informer EXCEPT ![k] = "on"]
    /\ past' = [o \in Object |-> IF o \in ObjectsOf(k) THEN {api[o]} ELSE past[o]]
    /\ Unsteady
    /\ UNCHANGED <<held, transitive, api, changes, lifecycle>>

\* Also after the stop what was received is stored.
Deliver(o) ==
    /\ feed[o] # <<>>
    /\ held' = [held EXCEPT ![o] = Copy(o, Head(feed[o]))]
    /\ feed' = [feed EXCEPT ![o] = Tail(@)]
    /\ listed' = [listed EXCEPT ![ResourceOf(o)] = @ \ {o}]
    /\ Unsteady
    /\ UNCHANGED <<transitive, api, changes, informer, past, lifecycle>>

InformerStops(k) ==
    /\ closed /\ informer[k] = "on"
    /\ informer' = [informer EXCEPT ![k] = "stopped"]
    /\ UNCHANGED <<held, transitive, feed, listed, req, api, changes, past, lifecycle>>

\* Users declare, change or remove an object.
Change(o) ==
    /\ changes < MaxChanges
    /\ \E spec \in Choices[o] \ {api[o]} :
         /\ api' = [api EXCEPT ![o] = spec]
         /\ IF informer[ResourceOf(o)] = "on"
            THEN /\ feed' = [feed EXCEPT ![o] = Append(@, spec)]
                 /\ past' = [past EXCEPT ![o] = @ \cup {spec}]
            ELSE UNCHANGED <<feed, past>>
    /\ changes' = changes + 1
    /\ UNCHANGED <<held, transitive, informer, listed, req, lifecycle>>

-----------------------------------------------------------------------------
(* The start, the wait for the caches and the end. *)

\* The informers start in the background.
Startup ==
    /\ serving = "down"
    /\ serving' = "waiting"
    /\ UNCHANGED <<caches, transitive, req, api, changes, closed>>

\* Every 100 milliseconds the caches are asked.
Poll ==
    /\ serving = "waiting" /\ HasSynced
    /\ serving' = "serving"
    /\ UNCHANGED <<caches, transitive, req, api, changes, closed>>

\* Mutant: the caches are asked when the time is up, too.
TimeoutWhenSynced ==
    /\ serving = "waiting" /\ HasSynced
    /\ serving' = "serving"
    /\ UNCHANGED <<caches, transitive, req, api, changes, closed>>

\* After five seconds the server starts in any case.
Timeout ==
    /\ serving = "waiting"
    /\ serving' = "serving"
    /\ UNCHANGED <<caches, transitive, req, api, changes, closed>>

\* The first call closes the channel; every other one is refused.
Stop ==
    /\ serving = "serving" /\ ~closed
    /\ closed' = TRUE
    /\ UNCHANGED <<caches, transitive, req, api, changes, serving>>

-----------------------------------------------------------------------------

Arrival ==
    /\ serving = "serving"
    /\ \E query \in Queries : Accept(query, HasSynced)
    /\ UNCHANGED <<caches, transitive, api, changes, lifecycle>>

Answering ==
    /\ Resolve(HasSynced)
    /\ UNCHANGED <<caches, transitive, api, changes, lifecycle>>

Informers == \E o \in Object : Deliver(o)
Users == \E o \in Object : Change(o)

Next ==
    \/ Startup \/ Poll \/ Timeout \/ Stop
    \/ Informers \/ Users
    \/ \E k \in Resource : List(k) \/ InformerStops(k)
    \/ Arrival \/ Answering

Spec == Init /\ [][Next]_vars

\* Requests and timers always go on; the API server may never answer a list, the
\* informers may be slow for ever, and nobody has to change an object or stop the
\* server.
FairSpec ==
    /\ Spec
    /\ WF_vars(Startup) /\ WF_vars(Timeout) /\ WF_vars(Answering)
=============================================================================
