--------------------------- MODULE ControllerProps ---------------------------
(***************************************************************************)
(* What the controller promises.  The promises about the objects are read  *)
(* off the objects in the API server alone: lines of zones from parent to  *)
(* parent, and the names spelled along them.  They never use the walk, the *)
(* caches or the status operators of the controller.                       *)
(***************************************************************************)
EXTENDS Controller, FiniteSets

AnyStored == [name : Object, rv : Nat, spec : ZoneSpec \cup EntrySpec,
              status : AnyStatus]
Sent(o) == Stored(o) \cup {Absent, Missed}

\* What a worker holds in each of its phases.
WorkerOK(w) ==
    /\ w \in Worker
    /\ w.obj # Absent => w.key \in Object /\ w.obj \in Copied(w.key)
    /\ w.pc = "lookup" =>
         w.key \in Entry /\ w.obj \in Copied(w.key) /\ w.obj.spec.zone \in Zone
    /\ w.pc = "walk" =>
         /\ w.key \in Object /\ w.obj \in Copied(w.key) /\ w.at \in CopiedZone
         /\ w.key \in Entry => w.zone \in CopiedZone
    /\ w.pc = "write" =>
         /\ w.key \in Object /\ w.obj \in Copied(w.key) /\ w.status \in StatusOf(w.key)
         /\ w.key \in Entry => w.after = "none"
    /\ w.pc \in {"entries", "nested"} => w.key \in Zone

ApiOK ==
    /\ api \in [Object -> AnyStored \cup {Absent}]
    /\ \A o \in Object : api[o] \in Stored(o) \cup {Absent}
    /\ version \in [Object -> Nat]

PendingOK ==
    /\ pending \in [Server -> [Object -> Seq(AnyStored \cup {Absent, Missed})]]
    /\ \A s \in Server, o \in Object : pending[s][o] \in Seq(Sent(o))

CacheOK ==
    /\ cache \in [Server -> [Object -> AnyCopied \cup {Absent}]]
    /\ \A s \in Server, o \in Object : cache[s][o] \in Copied(o) \cup {Absent}

WorkersOK ==
    /\ worker \in [Server -> Worker]
    /\ \A s \in Server : WorkerOK(worker[s])

RestOK ==
    /\ spent \in [Budget -> Nat]
    /\ up \in [Server -> BOOLEAN]
    /\ queue \in [Server -> SUBSET Object]
    /\ delayed \in [Server -> SUBSET Object]
    /\ modified \in [Server -> Nat]

\* Every variable keeps its type: objects, events and copies are filed under
\* their own name, and the worker always has the data its phase needs.
TypeOK == ApiOK /\ PendingOK /\ CacheOK /\ WorkersOK /\ RestOK

-----------------------------------------------------------------------------
(* Versions *)

\* A copy of version v of an object carries what the API server stores as
\* version v: no copy is newer than the object, and one that is as new agrees
\* with it.
Agrees(c, o) ==
    /\ c.rv <= version[o]
    /\ c.rv = version[o] /\ api[o] # Absent =>
         c.spec = api[o].spec /\ c.status = api[o].status

StoreCurrent == \A o \in Object : api[o] # Absent => api[o].rv = version[o]

CachesAgree ==
    \A s \in Server, o \in Object : cache[s][o] # Absent => Agrees(cache[s][o], o)

EventsAgree ==
    \A s \in Server, o \in Object : \A i \in 1 .. Len(pending[s][o]) :
      pending[s][o][i] \notin {Absent, Missed} => Agrees(pending[s][o][i], o)

WorkersAgree ==
    \A s \in Server :
      worker[s].obj # Absent => Agrees(worker[s].obj, worker[s].key)

\* This is what makes the resource version a valid guard of the status
\* updates: it holds for the events on their way, for the caches and for the
\* copy a worker computed its status from, although the controller assigns
\* fields of cached objects and replaces them while a worker holds them.
CopiesAreVersions == StoreCurrent /\ CachesAgree /\ EventsAgree /\ WorkersAgree

-----------------------------------------------------------------------------
(* Verdicts on their way.  Together with CopiesAreVersions they are what   *)
(* makes VerdictFitsSpec hold.                                             *)

StartsWith(n, m) == Len(m) <= Len(n) /\ SubSeq(n, 1, Len(m)) = m
\* Each name is one of the wanted names, or a name that starts with one.
AreUnder(names, wanted) == \A n \in names : \E m \in wanted : StartsWith(n, m)

CopyVerdict(c) == c.err = EntryError(c.spec)

WorkerVerdict(w) ==
    w.key \in Entry /\ w.obj # Absent =>
      /\ CopyVerdict(w.obj)
      /\ w.pc = "walk" => AreUnder(w.names, w.obj.spec.names)
      /\ w.pc = "write" =>
           /\ w.status.state = "Ok" /\ w.obj.status.state # "Ok" => w.obj.err = <<>>
           /\ AreUnder(w.status.names, w.obj.spec.names)

\* What a worker has found out about an entry, and is about to store, fits the
\* specification of the copy it works on: the error of a copy is never cleared
\* or replaced, and the names are made of names of that copy.
VerdictsInFlight ==
    \A s \in Server :
      /\ \A e \in Entry : cache[s][e] # Absent => CopyVerdict(cache[s][e])
      /\ WorkerVerdict(worker[s])

-----------------------------------------------------------------------------
(* Trees of zones, as the API server stores them. *)

Exists(o) == api[o] # Absent

\* A line of existing zones, each the child of the next one.
Lines == UNION {[1 .. n -> Zone] : n \in 1 .. Cardinality(Zone)}
Last(p) == p[Len(p)]
IsLine(p) ==
    /\ \A i \in DOMAIN p : Exists(p[i])
    /\ \A i \in 1 .. Len(p) - 1 : api[p[i]].spec.parent = p[i + 1]

LinesToRoot(s, z) ==
    {p \in Lines : IsLine(p) /\ p[1] = z /\ Last(p) = RootOf[s]
                   /\ \A i \in 1 .. Len(p) - 1 : p[i] # RootOf[s]}
InTree(s, z) == LinesToRoot(s, z) # {}

\* The zone is gone, or one of its ancestors is.
Orphan(z) ==
    \/ ~Exists(z)
    \/ \E p \in Lines :
         /\ IsLine(p) /\ p[1] = z
         /\ api[Last(p)].spec.parent \in Zone
         /\ ~Exists(api[Last(p)].spec.parent)

\* The full names of an entry: one of its names, followed by a domain of every
\* zone on the line to the root.
FullNames(e, p) ==
    LET under[i \in 0 .. Len(p)] ==
          IF i = 0 THEN api[e].spec.names
          ELSE {m \o d : m \in under[i - 1], d \in api[p[i]].spec.domains}
    IN  under[Len(p)]

Zones == {z \in Zone : Exists(z)}
Entries == {e \in Entry : Exists(e) /\ api[e].spec.zone # None}
Plain(o) == ~api[o].status.managed

\* The mistakes users can make.
WrongZone(s, z) ==
    \/ s \notin Transitive /\ api[z].spec.parent # None
    \/ ~api[z].spec.mail
WrongEntry(e) ==
    \/ api[e].spec.bad
    \/ api[e].spec.names = {}
    \/ api[e].spec.recs = "" /\ api[e].spec.srv = ""

-----------------------------------------------------------------------------
(* What the informers of a server are told. *)

\* The last thing an informer holds or has received of an object.
Latest(s, o) ==
    IF pending[s][o] = <<>> THEN cache[s][o] ELSE Last(pending[s][o])

\* It is the object as the API server stores it, or that there is none.
Tells(v, o) ==
    IF Exists(o)
    THEN /\ v \notin {Absent, Missed}
         /\ v.rv = api[o].rv /\ v.spec = api[o].spec /\ v.status = api[o].status
    ELSE v \in {Absent, Missed}

\* A server that runs is told, in the end, of each object what the API server
\* stores of it: nothing but the events on their way lies between the object and
\* its copy.  Neither a restart, nor a broken watch that swallows a change or a
\* deletion, nor the worker that assigns fields of cached objects while they are
\* replaced leaves a copy behind that no event will renew.
CachesFollow == \A s \in Server, o \in Object : up[s] => Tells(Latest(s, o), o)

-----------------------------------------------------------------------------
(* Nothing is under way: whatever the controller was told it has worked off. *)

Quiet ==
    /\ \A s \in Server :
         /\ up[s]
         /\ worker[s] = Idle
         /\ queue[s] = {} /\ delayed[s] = {}
         /\ \A o \in Object : pending[s][o] = <<>>
    /\ \A o \in Supervised : Exists(o) => api[o].status = Supervision(api[o].status)

\* A zone in the tree of a server is reported as served unless its own
\* declaration is wrong (README, mode Primary; reconcileZone).  A wakeup lost
\* on the way from parent to child would leave it in an older state.
ServedZonesSettle ==
    Quiet =>
      \A s \in Server \ Slave : \A z \in Zones :
        InTree(s, z) /\ Plain(z) =>
          api[z].status.state = (IF WrongZone(s, z) THEN "Invalid" ELSE "Ok")

\* A server has nothing to do for an object and nothing to hear of it.
Undisturbed(s, o) ==
    /\ up[s]
    /\ o \notin queue[s] \cup delayed[s]
    /\ worker[s].key # o
    /\ pending[s][o] = <<>>

\* The specifications an object can have.
Declarable(o) ==
    Specs[o] \cup (IF Initial[o] = Absent THEN {} ELSE {Initial[o].spec})

\* Its users never change just what the comparison of entries does not look at:
\* the zone, or whether an address is malformed.
Showing(e) ==
    \A a, b \in Declarable(e) : EntryEqual([spec |-> a], [spec |-> b]) => a = b

\* A zone that never has a parent, and one that always has.
AlwaysTop(z) == \A spec \in Declarable(z) : spec.parent = None
AlwaysNested(z) == \A spec \in Declarable(z) : spec.parent # None

\* As soon as a server has nothing to do for its root zone, the zone is reported as
\* its declaration deserves, whatever users, other servers and the aaS controller
\* did before, and whatever still goes on elsewhere: a change that overtakes the
\* reconciliation of the one before, an update that is refused, fails or is not
\* answered, and a restart all leave a wakeup behind.  A broken watch may not: it
\* can pass off a zone created again as the old one (detectChanges).
RootZonesSettle ==
    spent["relists"] = 0 =>
      \A s \in Server \ Slave :
        LET z == RootOf[s]
        IN  /\ s \in Transitive \/ AlwaysTop(z)
            /\ Undisturbed(s, z) /\ Exists(z) /\ Plain(z)
            => api[z].status.state = (IF api[z].spec.mail THEN "Ok" ELSE "Invalid")

\* The condition of a zone tells the aaS controller what its declaration deserves.
Affirms(condition) == condition # <<>> /\ Head(condition) = "True"
SaysSo(spec, status) == Affirms(status.server) <=> spec.mail

\* As soon as a server has nothing to do for its root zone, and leaves the state of
\* the zone to an aaS controller, the condition says whether the zone is served
\* (Zone.UpdateStatus).  Equal does not compare conditions: what reaches the server
\* again of its own report, of another server's or of the state the aaS controller
\* derives from it must not hide a condition that is still missing or wrong.
ConditionsSettle ==
    spent["relists"] = 0 =>
      \A s \in Server :
        LET z == RootOf[s]
        IN  /\ AlwaysTop(z) /\ Undisturbed(s, z) /\ Exists(z)
            /\ s \in Slave \/ ~Plain(z)
            => SaysSo(api[z].spec, api[z].status)

\* No walk from the zone ends at a root zone that is not the server's.
LeadsHome(s, z) ==
    z \in Zone /\ (z = RootOf[s] \/ \A y \in Zone \ {RootOf[s]} : AlwaysNested(y))
\* The walk from the zone ends there and then, at another root zone.
LeadsAway(s, z) == z \in Zone /\ z # RootOf[s] /\ AlwaysTop(z)

\* As soon as a server has nothing to do for a wrong entry below its root zone,
\* the entry is reported as invalid, whatever zones come and go, other servers
\* write and users did to the entry before (reconcileEntry, Entry.UpdateStatus).
\* No order of the steps hides a mistake: not a status of another server that
\* arrives with the change, and not a write that is refused or lost.
WrongEntriesSettle ==
    spent["relists"] = 0 =>
      \A s \in Server \ Slave, e \in Entry :
        /\ Showing(e) /\ Undisturbed(s, e) /\ Exists(e) /\ Plain(e)
        /\ WrongEntry(e) /\ LeadsHome(s, api[e].spec.zone)
        => api[e].status.state = "Invalid"

\* As soon as a server has nothing to do for an entry in a zone of its own right,
\* its root zone does not claim the entry (reconcileEntry: "remove old zone
\* responsibility"): neither a change that overtakes the reconciliation of the
\* former zone nor a status still on its way leaves the claim behind.
LeftEntriesRelease ==
    spent["relists"] = 0 =>
      \A s \in Server \ Slave, e \in Entry :
        /\ Showing(e) /\ Undisturbed(s, e) /\ Exists(e) /\ Plain(e)
        /\ LeadsAway(s, api[e].spec.zone)
        => api[e].status.root # RootOf[s]

\* An entry in the tree of a server is claimed by its root zone, reported with
\* the names along the present line of zones, and Ok exactly if neither the
\* entry nor its zone is wrong (reconcileEntry).  Entries must therefore be
\* woken up by every change of their zone, and must not miss one of their own.
ServedEntriesSettle ==
    Quiet =>
      \A s \in Server \ Slave : \A e \in Entries :
        \A p \in LinesToRoot(s, api[e].spec.zone) :
          LET st == api[e].status
              wrongZone == WrongZone(s, api[e].spec.zone)
          IN  Plain(e) =>
                /\ st.names = FullNames(e, p)
                /\ st.root = (IF wrongZone THEN None ELSE RootOf[s])
                /\ st.state = (IF wrongZone \/ WrongEntry(e)
                               THEN "Invalid" ELSE "Ok")

\* When a zone disappears, neither the zones below it nor the entries in them
\* stay reported as served (reconcileZone: "update entries for deleted zone").
OrphansSettle ==
    Quiet /\ Server # Slave =>
      /\ \A z \in Zones : Orphan(z) /\ Plain(z) => api[z].status.state = "Invalid"
      /\ \A e \in Entries : Orphan(api[e].spec.zone) /\ Plain(e) =>
           /\ api[e].status.state = "Invalid"
           /\ api[e].status.root = None

\* An entry that left the tree of a server is no longer claimed by its root
\* zone (reconcileEntry: "remove old zone responsibility").
ForeignEntriesReleased ==
    Quiet =>
      \A s \in Server : \A e \in Entries :
        api[e].status.root = RootOf[s] => InTree(s, api[e].spec.zone)

\* An aaS controller is told about each object it supervises whether the server
\* serves it (UpdateStatus: "a server condition is managed, which is the handled
\* by the aaS controller to determine an aggregated object state").
SupervisedObjectsSettle ==
    Quiet =>
      \A s \in Server : \A o \in Supervised :
        /\ o \in Zones /\ InTree(s, o) =>
             (api[o].status.state = "Ready") = ~WrongZone(s, o)
        /\ o \in Entries /\ InTree(s, api[o].spec.zone) =>
             (api[o].status.state = "Ready")
             = (~WrongEntry(o) /\ ~WrongZone(s, api[o].spec.zone))

-----------------------------------------------------------------------------
(* Steps *)

\* Comparing two versions of an object, however they differ, does not end the
\* process: a server only stops when it is killed from outside.
OnlyKillsStop ==
    [][\A s \in Server : up[s] /\ ~up'[s] => spent'.kills = spent.kills + 1]_vars

Stays(o) == Exists(o) /\ api'[o] # Absent

VerdictFits(e) ==
    Stays(e) =>
      /\ api[e].status.state # "Ok" /\ api'[e].status.state = "Ok" => ~WrongEntry(e)
      /\ api'[e].status.names # api[e].status.names =>
           AreUnder(api'[e].status.names, api[e].spec.names)

\* A verdict fits the specification an entry has at the very moment the
\* verdict is stored, however late the status update is and whoever changed the
\* entry in between: an entry becomes Ok only when it is free of errors, and
\* each name it is newly reported with starts with a name its users want.
VerdictFitsSpec == [][\A e \in Entry : VerdictFits(e)]_vars

\* A claim on an entry is taken back only by the server whose root zone holds
\* it, or replaced by a server in whose tree the entry is now.
OnlyOwnersRelease ==
    [][\A e \in Entry :
         Stays(e) /\ api[e].status.root # None /\ api'[e].status.root = None =>
           \E s \in Server :
             /\ worker[s].key = e /\ worker'[s] # worker[s]
             /\ \/ RootOf[s] = api[e].status.root
                \/ InTree(s, api[e].spec.zone)]_vars

-----------------------------------------------------------------------------
(* Liveness *)

\* The one worker of a server always comes back for the next key.
WorkerReturns == \A s \in Server : []<>(worker[s].pc = "idle")

\* Once the users stop, the servers stop as well: status updates, the events
\* they cause and the retries of failed calls do not feed each other forever.
Calms == <>[]Quiet
=============================================================================
