----------------------------- MODULE StatusStore -----------------------------
(***************************************************************************)
(* What everyone who watches the objects may rely on, however many DNS     *)
(* servers report on them: a store of versioned objects.  Users declare    *)
(* specifications, an aaS controller derives states from conditions, and a *)
(* server reports a verdict, which fits the specification that is stored   *)
(* at that very moment and leaves alone what is not the server's.  There   *)
(* are no informers, caches, queues or retries here.                       *)
(***************************************************************************)
EXTENDS Naturals, Sequences

CONSTANTS
    Zone, Entry,      \* the objects
    Absent,           \* "there is no such object"
    Specs,            \* the specifications users may give each object
    Initial,          \* the objects that exist at the start
    Ops,              \* what users may do
    Supervised,       \* the objects an aaS controller looks after
    NewStatus(_),     \* the status of a new object
    Supervision(_)    \* what the aaS controller makes of a status

Object == Zone \cup Entry

VARIABLES
    objects,   \* the objects in the API server
    versions   \* the last resource version each object had

vars == <<objects, versions>>

Init ==
    /\ objects = [o \in Object |-> Initial[o]]
    /\ versions = [o \in Object |-> IF Initial[o] = Absent THEN 0 ELSE 1]

Put(o, spec, status) ==
    /\ objects' = [objects EXCEPT ![o] =
                     [name |-> o, rv |-> versions[o] + 1, spec |-> spec,
                      status |-> status]]
    /\ versions' = [versions EXCEPT ![o] = @ + 1]

Exists(o) == objects[o] # Absent

Declare(o, spec) ==
    /\ ~Exists(o)
    /\ Put(o, spec, NewStatus(o))

Change(o, spec) ==
    /\ Exists(o)
    /\ Put(o, spec, objects[o].status)

Remove(o) ==
    /\ Exists(o)
    /\ objects' = [objects EXCEPT ![o] = Absent]
    /\ UNCHANGED versions

Supervise(o) ==
    /\ Exists(o)
    /\ Put(o, objects[o].spec, Supervision(objects[o].status))

-----------------------------------------------------------------------------
(* The verdicts of the servers. *)

StartsWith(n, m) == Len(m) <= Len(n) /\ SubSeq(n, 1, Len(m)) = m

\* A zone is only found good with an e-mail address, an entry when it is free of
\* errors.
Good(o, spec) ==
    IF o \in Zone THEN spec.mail
    ELSE ~spec.bad /\ spec.names # {} /\ (spec.recs # "" \/ spec.srv # "")

Affirms(condition) == condition # <<>> /\ Head(condition) = "True"

\* Every report carries a verdict on the specification of the moment, in one
\* place: in the state, or in the condition from which an aaS controller derives
\* the state, which is only reported when it changes.
Judges(o, spec, old, new) ==
    \/ /\ new.server = old.server
       /\ new.state = "Ok" => Good(o, spec)
    \/ /\ new.server # old.server /\ new.state = old.state /\ new.message = old.message
       /\ Affirms(new.server) => Good(o, spec)

\* Other conditions and the name servers of a zone are not the business of this
\* server, nor is the state of an entry where there is an aaS controller.
Spares(o, old, new) ==
    /\ new.managed = old.managed
    /\ o \in Zone => new.ns = old.ns
    /\ o \in Entry /\ old.managed => new.state = old.state /\ new.message = old.message

\* An entry is served under the names it asks for.
Fits(o, spec, old, new) ==
    /\ Judges(o, spec, old, new)
    /\ Spares(o, old, new)
    /\ o \in Entry => \A n \in new.names : \E m \in spec.names : StartsWith(n, m)

Report(o, status) ==
    /\ Fits(o, objects[o].spec, objects[o].status, status)
    /\ Put(o, objects[o].spec, status)

-----------------------------------------------------------------------------

Users ==
    \E o \in Object :
        \/ \E spec \in Specs[o] :
             \/ <<"create", o>> \in Ops /\ Declare(o, spec)
             \/ <<"update", o>> \in Ops /\ Change(o, spec)
        \/ <<"delete", o>> \in Ops /\ Remove(o)

\* The status is whatever the server says, as long as it fits.
Servers ==
    \E o \in Object :
        /\ Exists(o)
        /\ objects'[o] # Absent
        /\ Report(o, objects'[o].status)

Next == Users \/ (\E o \in Supervised : Supervise(o)) \/ Servers

Spec == Init /\ [][Next]_vars
=============================================================================
