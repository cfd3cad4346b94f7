# A verified model of kubedyndns

`kubedyndns` is a CoreDNS plugin that serves DNS records from two Kubernetes
resources, `HostedZone` and `CoreDNSEntry`. In mode `Primary` it also reports,
in the status of these objects, which zones and entries it serves and under
which names. This directory holds TLA+ modules of its setup, its controller and
its resolver, the TLC configurations that check them, and proofs for TLAPS.
Line numbers refer to `src/plugin/kubedyndns/` unless a path says otherwise.

Contents: [inventory](#inventory), [modules](#modules-and-the-code),
[runs](#runs-and-bounds), [fairness](#fairness),
[disagreements](#disagreements-with-the-documentation),
[observations](#observations-without-a-run), [proofs](#proofs),
[what is not modelled](#not-modelled).

## Inventory

| component | state | operations | interacts with |
|---|---|---|---|
| Configuration (`setup.go` 55-101, 127-401, `kubedyndns.go` 79-206) | the parsed options, the client configuration | `parse`, `ParseStanza`, `getClientConfig`, `InitKubeCache` | Corefile, file system |
| Objects (`objects/zone.go`, `objects/entry.go`, `apis/coredns/v1alpha1`) | none; three forms of an object: API object, cached copy, status to write | `ToZone`, `ToEntry`, `Equal`, `IsPlain`, `UpdateStatus`, `Services`, `MatchType` | called by informers, handlers, worker and resolver |
| Controller (`controller.go`, `reconcile_zones.go`, `reconcile_entries.go`) | two indexer caches, a rate limited work queue, `modified`; fields `Error` and `Plain` of cached zones | handlers `Add`, `Update`, `Delete`; `workerFunc`, `reconcileZone`, `reconcileEntry`; index lookups | API server (list, watch, status updates), informers (callbacks), resolver (reads) |
| Startup, readiness, shutdown (`setup.go` 104-125, `ready.go`, `controller.go` 318-351) | `stopCh`, the informers' sync flags | `RegisterKubeCache`, `Run`, `HasSynced`, `Ready`, `Stop` | CoreDNS life cycle callbacks, resolver |
| Resolver (`handler.go`, `backend.go`, `parse.go`, `reverse.go`, `ns.go`) | one request: its zone, the way to it, its outcome; reads the caches | `ServeDNS`, `findZone`, `Handle`, `parseRequest`, `findEntries`, `Reverse`, SOA and NS answers | caches, CoreDNS chain |
| SOA serial (`controller.go` 528-537) | `modified` | `updateModifed`, `Serial` | handlers write, resolver reads |
| List/watch over several namespaces (`utils/filtering*.go`) | none | `List`, `Watch` | informers; out of reach with one namespace |
| Generated client and API code, command, examples | none | | |

Hard behaviours, and where they bite:

* *Stale reads.* Every decision is made from informer caches that lag behind
  the API server, also behind the server's own writes (`entry.go:379`), and a
  request reads them object by object while they change (`handler.go:93`).
* *Lost wakeups.* Dependent objects are found by an index lookup at the moment
  a zone is done (`reconcile_zones.go:79`), and updates for which `Equal` holds
  are dropped (`controller.go:440`).
* *Two or more writers.* Several servers, slaves and aaS controllers update the
  status of the same objects (`reconcile_entries.go:72`, `zone.go:157`,
  `entry.go:378`).
* *Shared mutable copies.* The worker assigns `Error` and `Plain` in objects
  that belong to the informer cache (`reconcile_zones.go:52`, `:73`).
* *Failures.* Status updates conflict, fail or lose their answer; watches
  break; handlers panic outside every `recover`; processes restart with empty
  caches and the worker running before the caches are filled (`controller.go:335`).
* *Timeouts.* A server starts to serve after five seconds whether its caches
  are filled or not (`setup.go:116`).
* *Long inputs.* The lines of a stanza come in any order and number, and the
  checks at its end decide from what they left (`setup.go:344`).

What makes the parts correct:

* setup: what starts is one instance in the only mode the rest is written for,
  and it uses or refuses the kubeconfig and the token it was given;
* controller: copies are versions of the stored objects; a status is never
  stored beside a specification it was not computed from, and leaves alone what
  others report; when nothing is under way any more, zones in the tree are
  served, entries carry the names along their line of zones, orphans and
  entries that left are released; the work caused by a change ends;
* startup: readiness means that the first lists of both resources are stored
  and is never taken back, and serving starts in any case;
* resolver: a request is handed down a line of zones, its answer consists of
  what is declared in the zone that owns the name, nothing is denied that is
  declared outside the reverse trees or not yet known, and every request is
  answered.

`PROJECT.json` lists each hazard at its line with the properties about it.

## Modules and the code

| module | what it models |
|---|---|
| `Setup` | the setup of a server block: the lines of its stanzas, the checks at their end, and the choice of a client configuration |
| `Objects` | the API types and the cached copies, `ToZone`, `ToEntry`, `IsPlain`, both `Equal`, `aggregateNames`, and the status computed by both `UpdateStatus`, as operators |
| `Controller` | API server, informers, handlers, queue and worker of any number of servers, as a state machine |
| `ControllerProps` | its properties, stated over the stored objects without the controller's own operators |
| `StatusStore` | the abstract specification: a store of versioned objects on which servers report verdicts that fit |
| `ControllerRefines` | `Controller` as an implementation of `StatusStore`, and why |
| `Resolver` | one DNS request, from `ServeDNS` to its answer, reading the caches step by step |
| `Server` | two informers, startup, readiness, the bounded wait, shutdown, and requests, composed with `Resolver` |
| `ServerProps` | its properties, stated over the declared names without the walk of the resolver |
| `MCSetup`, `MCController`, `MCServer` | small instances for the runs |
| `SetupProofs` | proofs about the setup |
| `ControllerProofs`, `VerdictProofs`, `StoreProofs`, `SettleProofs` | proofs about the controller, each on top of the one before |
| `ServerProofs`, `NameProofs`, `AnswerProofs` | proofs about startup and resolver, each on top of the one before |

`Objects` is the common base: `Controller` and `Resolver` extend it, so that
both sides agree on what a cached copy is. `ControllerProps` extends
`Controller`, `ControllerRefines` extends `ControllerProps` and instantiates
`StatusStore`; `Server` extends `Resolver`. `Setup` stands alone: it ends where
the others begin, and its theorem `PrimaryOnly` is why they know one mode, one
namespace and one instance only.

An operator that starts with "Mutant:" in its comment is not part of the
model. It is a plausible wrong version of the definition that follows it;
replacing that definition by it must violate a property (`PROJECT.json`,
"mutants").

### Controller

| variable | in the code |
|---|---|
| `api`, `version` | objects in the API server and their resource versions |
| `pending[s][o]` | watch events of `o` not yet delivered to server `s` (network and `DeltaFIFO`) |
| `cache[s][o]` | the indexers `entryLister` and `zoneLister` |
| `queue[s]`, `delayed[s]` | the work queue, and the keys in its rate limiter |
| `worker[s]` | the program counter and the local variables of `workerFunc`, `reconcileZone`, `reconcileEntry`, `UpdateStatus` |
| `modified[s]` | `controller.modified` |
| `up`, `spent` | running processes; how often the environment acted |

A reconciliation is split where another goroutine or process can act in
between: at each cache lookup, at the API call, and at each of the two
triggers.

| actions | code |
|---|---|
| `DeliverAdd`, `DeliverUpdate`, `DeliverDelete` | update of the indexer and `Add`, `detectChanges`, `Delete` (418-452) |
| `UpdatePanics`, `DeletePanics` | the panic of `Entry.Equal` (`entry.go:213`), and of `Delete` for a tombstone (424); both end the process |
| `TakeZone`, `TakeDeletedZone`, `TakeEntry`, `DropEntry` | `queue.Get` and the first lookup |
| `WalkUp` | one round of the loop in `responsibleForZoneObject` (104-125) |
| `ZoneServed`, `ZoneOrphaned`, `ZoneIgnored` | the branches of `reconcileZone` up to the API call |
| `LookupZone`, `ZoneMissing`, `EntryServed`, `EntryOrphaned`, `EntryForeign` | those of `reconcileEntry` |
| `WriteAccepted`, `WriteRejected`, `WriteFails`, `WriteUnanswered` | the call of `UpdateStatus`: stored, conflict or not found, failed before it was stored, failed after |
| `TriggerEntries`, `TriggerNested` | `triggerEntriesForZone`, `triggerNestedZones` |
| `Requeue` | `AddRateLimited` puts the key back |
| `Create`, `Update`, `Delete`, `Supervise`, `Kill`, `Start`, `Relist`, `Tick` | the environment |

`worker[s].alias` tells whether the copy a worker holds is still the one in the
cache. Assignments to `Error` and `Plain` reach the cache only in that case
(`Amend`).

### The store of versioned objects

`StatusStore` has two variables, the objects and their versions, and knows no
caches, queues, retries or crashes. Users declare, change and remove
specifications, an aaS controller derives states, and a server may report any
status that fits. Each report is a verdict on the specification of the moment
(`Judges`), given either by the state, or by the server's condition, which then
is a new one: Ok and "True" only for a specification without errors. Names start
with declared names, and nothing changes that the server does not own
(`Spares`: the mark of other conditions, the name servers, the state of an entry
an aaS controller looks after). `ControllerRefines` maps `objects` to `api` and
`versions` to `version`; all other variables of `Controller` are stuttering.
What the mapping shows is that a status computed from an old copy is never
stored: `WriteAccepted` is the only step of a server that maps to `Report`, and
it must fit the specification and the status of the moment.

### Server and Resolver

| variable | in the code |
|---|---|
| `held` | the indexers `entryLister` and `zoneLister` |
| `transitive` | option `transitive` |
| `req` | the local variables of one `ServeDNS` and the calls below it: `path` is the chain of `ZoneInfo`, `at` the label `findZone` is at |
| `api`, `changes` | the declared objects, and how often they changed |
| `feed[o]`, `informer`, `listed` | what an informer has received but not stored, whether it runs, and what of the first list is missing |
| `serving`, `closed` | the state of `OnStartup`; `stopCh` |

| actions | code |
|---|---|
| `Startup`, `Poll`, `Timeout` | `RegisterKubeCache` (103-120) |
| `Stop`, `InformerStops` | `controller.Stop` (317-331), and the informers that follow |
| `List`, `Deliver` | the first list and the updates of the indexers |
| `Accept` (in `Arrival`) | `ServeDNS` up to the choice of a zone of the plugin (50-57) |
| `ReadRoot` | the root zone object and its domains (60-91) |
| `WalkDown` | one label of `findZone` (173-204): an index lookup and, for a nested zone, its copy |
| `EndWalk` | delegation or the branches of `Handle` by type (`handler.go` 93-133, `backend.go` 56-118) |
| `Lookup`, `LookupWildcard` | the two index lookups of `EntryDNSIndex` and what `findEntries` makes of them |
| `LookupAddress` | `Reverse` |
| `Deny` | the choice between next plugin, SERVFAIL and NXDOMAIN (135-144) |
| `Finish` | the answer is sent |

Requests do not write the caches, so one request at a time stands for any
number of them. Three things are history for the properties and in no guard:
`steady` and `informed` in `req` say whether the caches stood still since the
request came, and whether the first lists were stored then; `past[o]` holds what
object `o` was declared to be when its informer listed it and at all times since,
while the informer ran.

`dnsutil.IsReverse` (`backend.go:152`) and `dnsutil.ExtractAddressFromReverse`
(`reverse.go:33`) are two different tests. The first one looks at the suffix
(`IsReverse`, `InReverse`): below `in-addr.arpa` and `ip6.arpa` no entry is ever
looked up. The second one wants the full name of an address (`Reverse`, the
domain of the constant `AddressOf`).

### Setup

`phase` is where the setup is, `k8s` the `KubeDynDNS` of the stanza that is
parsed, `ks` those of the accepted stanzas, `access` and `scope` the outcome.
At every point the file may go on with any line of the constant `Directive`,
end the stanza or end the block: `SetMode` to `SetSlave` and `RefuseUnknown`
are the cases of the switch in `ParseStanza`, `StanzaPanics` and `StanzaEnds`
its end, `BlockEnds` the end of `parse`, and `Connect` is `getClientConfig` and
`InitKubeCache`. Both nil dereferences (359, 371) are outcomes of their own.

## Runs and bounds

Deadlock is not checked: a system in which nothing is under way, or a setup
that ended, has nothing to do. No symmetry is used, because the zones have
different places in the tree.

### Controller

The environment acts a bounded number of times, by kind: user operations,
kills, broken watches (`relists`), failing calls (`faults`), and clock ticks.
The constant `Limit` holds the bounds; nothing else is bounded, so within them
every interleaving is explored. Two user operations are what it takes for one
change to overtake the work on another. Zone `r` is the root; `n` is nested in
`r`, `m` in `n`; `q` is a second root.

| run | instance | checks |
|---|---|---|
| `steady` | one server, `r`, `n`, `e`, two operations of any kind | served zones and entries, and orphans, end up with the right status; wrong entries are reported as soon as nothing is to be done for them; verdicts on their way fit; the controller implements `StatusStore` |
| `restart` | one server, cold caches, `r`, `e`; one operation, kill, broken watch, and failed or unanswered call | types, copies, verdicts; caches are told of every change, and the root zone is attended to; with fairness, the work ends and the worker always returns |
| `handover` | two servers with roots `r` and `q`, an entry that moves between them twice | claims are released and taken by the right server, and only by it; an entry that left is released as soon as nothing is to be done for it |
| `managed` | a slave that is not transitive and an aaS controller on `r`, `n`, `e`; two operations and a tick: the nested zone is refused, the entry moves between it and the root zone and is broken, the root zone is deleted and created again, broken or not | the state derived from the server's condition is right, the condition of the root zone is as soon as nothing is to be done for it (`ConditionsSettle`), neither writer touches what is the other's (`StoreSpec`), and the two do not keep each other busy |
| `late_root`, `cascade`, `move`, `cold`, `section` | as small as possible | the disagreements below |

`Quiet` says that all servers are up, all events delivered, all queues empty
and all workers idle. The properties that end in `Settle` (and
`ForeignEntriesReleased`) are about quiet states. That such states are reached
is `Calms`, checked in `restart` and `managed`. `VerdictsInFlight`,
`CopiesAreVersions`, `CachesFollow`, `RootZonesSettle`, `ConditionsSettle`,
`WrongEntriesSettle` and `LeftEntriesRelease` hold in all states, quiet or not;
each is checked in one run and proved for all instances. The last four are about
a single object of which one server has heard everything and for which it has
nothing to do (`Undisturbed`), whatever goes on elsewhere.

In the passing runs the users' operations are chosen such that

* no zone returns to a former specification ([observation](#observations-without-a-run) 1),
* a nested zone is not broken by its users before its root is deleted, and
  there are at most two levels of zones (`cascade`),
* an entry that moves or breaks also changes a name (`move`),
* a root zone exists before the zones nested in it (`late_root`),
* `restart` does not check `ServedEntriesSettle`, and the other runs start
  with filled caches (`cold`),
* in `restart` the root zone is not deleted and created again
  ([observation](#observations-without-a-run) 6).

Each of these restrictions stands for the disagreement in parentheses, below,
or for a variant named there.

### Server

`server` has a root zone with the domains `c` and `in-addr.arpa`, a zone `sub`
nested in it, and two entries: one with an address and an `apex.dns` name, one
with a service, an address and two wildcards, one of which (`*.dns`) is hidden
by the `apex.dns` of the other. It starts with empty caches, with and without
`transitive`. Users change one object, at any moment: the nested zone is
loosened or removed, the first entry moves into it, the second one becomes a
name server entry of the root zone or goes. With one change, and
four objects that arrive in any order, a request can meet at each of its
lookups the caches before and after a change, and views of the objects that
were never declared together. Twenty questions take every branch of the
resolver: the host, apex, nested, wildcard and missing names; the apex of the
nested zone, for which the hidden wildcard is tried or not; names that begin
with a protocol label; `NS` and `SOA` of a root and a nested zone; `ANY`;
services with and without a service label and at the apex; reverse lookups that
have an entry, have none, and are passed on; and an address, a service and the
apex below `in-addr.arpa`, where the declared names are denied and only the apex
itself, as `ANY`, is not. Requests, changes, the lists, the time limit and the
stop come in any order.

What the properties of answers say about a request during which the caches
stand still:

* `AddressesAreDeclared`: the addresses are exactly those of the valid entries
  declared for the name, or else for its wildcard (`Applying`), and NXDOMAIN
  comes exactly when there is neither or the name is below the reverse trees.
  `HidesWildcard` says when a wildcard is not tried, as the code has it: not for
  names with a single label before the domain, and not if an entry of any zone
  has the name (observation 16).
* `ServicesAreDeclared`: the same for services, whose host is what follows the
  protocol; here the answer may contain less than what is declared.
* `DelegationsAreDeclared`: delegated are exactly the names a nested zone owns
  and the server does not answer for. Names for which entries with NS records
  are declared are left out (`DelegatedByEntry`), since documentation and code
  disagree about them (observation 12).
* `ReadyMeansListed` needs no such condition: of every object, a server that
  says it is ready holds a declaration from the time since its informer listed
  it (`past`). An object that existed then cannot be missing unless it was
  removed since; and the two resources are asked both (`HasSynced`).

### Setup

`setup` reads every server block of up to two stanzas and five lines in all,
from all directives in a proper and, where there is one, a broken form. Five
lines are enough to declare mode and zone object and three credentials or
namespaces in one stanza, and to complete two stanzas. `example` reads the
block of `examples/corefile`.

## Fairness

`FairSpec` of `Controller` assumes weak fairness of

* `Start`: Kubernetes restarts a container that ended;
* `Deliver`: the reflector and `DeltaFIFO` goroutines run, per server;
* `Take` and `Reconcile`: the one worker (`WORKER_NO = 1`) runs on, and takes
  some key when it is idle and there is one. The order of the keys is left
  open, which is weaker than the queue's first in, first out;
* `Answer`: a status update is answered;
* `Expire`: a rate limiter delay ends;
* `Supervise`: the aaS controller follows changes.

Users, kills, broken watches, faults and ticks are not fair. Calls may fail
only as often as `Limit` says, because nothing in the code makes progress while
every call fails.

`FairSpec` of `Server` assumes weak fairness of the start callback, of the time
limit (`time.After`, `setup.go:108`), and of the goroutine of a request. Nothing
is assumed of the informers: an API server that never answers a list, and caches
that never change, are allowed, and `ServingStarts` holds nevertheless. Changes
and the stop are not fair either. `EveryRequestIsAnswered` holds because a
request does a bounded number of lookups; the change of caches under it cannot
keep it busy. "Answered" includes the failure CoreDNS makes of a panic
(observations 14 and 17). `RequestsProgress` says the same as an action
property.

## Disagreements with the documentation

Each run in the list violates one property.

* `late_root` (`reconcile_zones.go:51`). A zone reconciled before its root zone
  is cached gets the error "no root zone found" in the cached object. Nothing
  removes it, and the zone stays Invalid after the root zone arrives. The
  plugin's README (line 104) says that with `transitive` all transitively
  nested zones are handled.
* `cascade` (`reconcile_zones.go:58`). When the root zone is deleted, a zone
  two levels below is not reconciled and stays Ok, against the comment "update
  entries for deleted zone" (line 41). The same line loses wakeups in two more
  ways, seen in variants of this run: the entries are triggered only when the
  zone's status was modified, which is not so when the answer to the first
  update was lost, nor when the zone had an error of its own already (its
  e-mail address missing) while an entry was just written as Ok from the
  zone's former state.
* `move` (`entry.go:195`). `Equal` does not compare `ZoneRef`: an entry that
  only changes its zone stays claimed by its former root zone, although
  `Equal` "checks if the update to an entry is something that matters to us".
  For the same reason a malformed address that is added to an entry is not
  noticed, because the copy leaves it out.
* `cold` (`controller.go:335`). The worker starts before the informers and
  nothing waits for the first lists. A restart without any change can leave an
  entry that was Ok as Invalid and without root zone. With a second server on
  other zones, the same start takes back the claim of the first server, because
  `reconcile_entries.go:54-56` does not look whose claim it is.
* `section` (`entry.go:213`). `Equal` dereferences the SRV section of both
  copies when only one has it. The panic is in an informer goroutine and ends
  the process.
* `example` (`setup.go:371`). In every mode but `Primary` the zone reference is
  nil, and the namespace is taken from it: a block in mode `FilterByZones` or
  `Subdomains` panics while it is parsed. `examples/corefile:6` says
  `mode FilterByZones`, and the plugin's README describes all three modes
  (line 95); its own example (line 231) names no mode, which means the same.

## Observations without a run

These were met while modelling. The models contain them unless stated
otherwise; no property contradicts them, and no run shows them.

Controller:

1. `entry.go:385`: the names are compared with the cached status. If a domain
   changes and changes back while the last status update is not yet delivered,
   the names of the domain in between stay in the status. A run of `steady`
   with two such updates of `r` violates `ServedEntriesSettle`. In the same way a
   condition of an entry can stay that was true in between: a run of `managed`
   in which the users break the root zone and repair it violates
   `SupervisedObjectsSettle`.
2. `entry.go:405`, `:422`: for objects with conditions, `mod` is overwritten by
   the result for the condition, so that new names alone are never stored in a
   supervised entry (`EntryStatusModified`). `SupervisedObjectsSettle`
   therefore says nothing about names.
3. `reconcile_zones.go:108`: parents that form a cycle make the walk endless.
   The runs use trees.
4. `controller.go:317-345`: after `Stop` the worker goes on waiting in
   `queue.Get`, and `Run`, which waits for it, does not return. Nobody waits
   for `Run` (`setup.go:106`). Not in the model.
5. `controller.go:535`: the SOA serial counts seconds and is zero after a
   restart, until the first event.
6. `controller.go:432`: a list after a broken watch reports an object that was
   deleted and created again as an update. If the copy of the old object has no
   status, the new one compares equal to it (`zone.go:208`), nobody reconciles
   it, and it stays without a status. A run of `restart` in which the root zone
   starts without a status and is deleted and created while the watch is broken
   violates `ServedZonesSettle`. This is why `RootZonesSettle` is about
   executions in which no watch broke.
7. `apis/coredns/v1alpha1/hostedzone_equal.go:25`: parents are not compared. A
   server that is not transitive refuses a zone with a parent (`zone.go:101`),
   and does not notice when its root zone gets one or loses it.
   `RootZonesSettle` is therefore about transitive servers and root zones that
   never have a parent, and `ConditionsSettle` about the latter.

Setup:

8. `setup.go:359`: in mode `Primary` a stanza without any of the lines that
   create `APIConn` panics for lack of it (`StanzaPanics`).
9. `kubedyndns.go:199`: the selector of `labels` is built and never handed to
   the controller, although the plugin's README (line 48) says that only matching
   objects are considered.
10. `kubedyndns.go:103`: the default of `ttl` is 10; the plugin's README (line
    53) says 5 seconds. `kubedyndns.go:123`: a `kubeconfig` is used without
    `endpoint`; line 45 says that it is ignored then. `kubedyndns.go:123-148`:
    the certificate and key of `tls` are passed over without a word beside a
    `kubeconfig` or a `token`, and without `endpoint`; line 44 tells only of the
    latter. `CredentialsUsed` states what the code does in these cases.
11. `cmds/coredns/main.go:43` continues the list of directives at `idx+2` and so
    drops the one that follows. Not in the model.

Resolver:

12. `entry.go:107-165`: the conversion never fills `NS` in, so that the search
    for NS entries in `findZone` (`handler.go:179-191`) finds none: an entry with
    NS records delegates nothing, and is an answer without data. The plugin's
    README says that such entries delegate (lines 106 and 115).
    `DelegationsAreDeclared` says nothing about names they are declared for.
13. The addresses of a zone itself are those of an entry `apex.dns`. Without
    one the answer is NXDOMAIN, where `parse.go:57` says NODATA.
14. `handler.go:67`, `:69`: the root zone is dereferenced before the check for
    nil; a request before the first list panics, which CoreDNS turns into
    SERVFAIL (`ReadRoot`). `backend.go:186`: a question for a service panics
    when an entry of that name has no SRV section (`Lookup`).
15. `handler.go:139`: whether the caches are complete is asked after the
    lookup. `SteadyDenials` is about requests during which they stand still;
    without that condition it fails.
16. `controller.go:373`: the wildcard is tried only if no entry of any zone has
    the name, so that an entry of one zone hides the wildcard of another.
    `backend.go:152`: names below `in-addr.arpa` and `ip6.arpa` are denied also
    if entries are declared for them; reverse lookups (PTR) do not pass this test.
17. `parse.go:58`: "_upd" is taken for a protocol. `parse.go:65`: a name that
    begins with "_udp" indexes an empty string and panics (`Breaks`).
18. `handler.go:167`: `findZone` compares names as they are spelled in the
    request. Spelling is not in the model.
19. `handler.go:191`: a root zone `c` whose parent is a zone `x` nested in it
    is found again by the resolver as `c.x.c`, and what is below is looked for in
    the root zone once more. The controller ends a line of zones at the root. The
    properties are about trees (`Unambiguous`).
20. `handler.go:173`: domains may overlap. If a nested zone has the domains `y`
    and `x.y`, a name below `x.y` is looked up below `y` alone, because the walk
    goes label by label, and an entry declared as `www` is not found under
    `www.x.y`, although its status lists that name. In the same way `apex.dns`
    or a wildcard may be a domain. The properties of the resolver are about names
    for which the declarations leave one choice (`Unambiguous`, `OneDomain`).

## Proofs

| module | theorem | statement |
|---|---|---|
| `ControllerProofs` | `TypeCorrect` | `Spec => []TypeOK` |
| | `Versions` | `Spec => []CopiesAreVersions` |
| `VerdictProofs` | `VerdictsTravel` | `Spec => []VerdictsInFlight` |
| | `VerdictsFit` | `Spec => VerdictFitsSpec` |
| `StoreProofs` | `StatusesTravel` | `Spec => []StatusesInFlight` |
| | `ControllerImplementsStore` | `Spec => StoreSpec` |
| `SettleProofs` | `CachesAreTold` | `Spec => []CachesFollow` |
| | `RootZonesAreSettled` | `Spec => []RootZonesSettle` |
| | `ConditionsAreSettled` | `Spec => []ConditionsSettle` |
| | `WrongEntriesAreSettled` | `Spec => []WrongEntriesSettle` |
| | `LeftEntriesAreReleased` | `Spec => []LeftEntriesRelease` |
| `SetupProofs` | `SetupTyped` | `Spec => []TypeOK` |
| | `PrimaryOnly` | `Spec => []StartsAsPrimary` |
| | `CredentialsAreUsed` | `Spec => []CredentialsUsed` |
| `ServerProofs` | `TypeCorrect` | `Spec => []TypeOK` |
| | `WaysAreLinked` | `Spec => []PathsAreLinked` |
| | `SyncedForGood` | `Spec => ReadyForGood` |
| | `ReadinessIsEarned` | `Spec => []ReadyMeansListed` |
| | `DenialsAreInformed` | `Spec => []SteadyDenials` |
| | `RequestsEnd` | `Spec => RequestsProgress` |
| `NameProofs` | `NamesAreClosed` | `Names = NamesBelow(Names)` |
| `AnswerProofs` | `ZonesNamed` | `Spec => []ZonesAreNamed` |
| | `DelegationsDeclared` | `Spec => []DelegationsAreDeclared` |
| | `AddressesDeclared` | `Spec => []AddressesAreDeclared` |
| | `ServicesDeclared` | `Spec => []ServicesAreDeclared` |

They hold for all servers, zones, entries, labels, specifications, operations,
limits, questions, files and lines. Assumptions, each declared in the module it
is about and evaluated by TLC in every run of it: `NamesAreDistinct` (zones and
entries have different keys, and the special values are no objects),
`ServersAreConfigured`, `EnvironmentIsTyped` for the controller;
`InputIsTyped` for the setup; `ResolverIsTyped` and `ServerIsTyped` for the
server; `AddressesAreReverse` (the name for an address is below one of the
reverse trees, `dnsutil`) and `ZonesAreFinite` (the set of zone names, for the recursion
in `Names`) for the answers.

*Controller.* `TypeOK` is inductive because `WorkerOK` says what a worker holds
in each phase: in phase "walk" a copy of the kind of its key and a zone to walk
on from, in phase "write" a status of that kind. `CopiesAreVersions` says that
no copy is newer than its object and that a copy of the same version agrees
with it in specification and status. It is inductive relative to `TypeOK`: a
step either keeps every stored version (`Kept`) or stores a new one, which no
copy can have yet; and assignments to cached objects touch `Error` and `Plain`
only. `VerdictsInFlight` says that the error of a copy is the one of its
specification and that the names a worker collects start with names of its
copy. It is inductive relative to `TypeOK`; the lemma behind it is that
appending a domain keeps the beginning of a name. `VerdictsFit` combines the
three: only the aaS controller and accepted status updates change a status
(`StatusSteps`); the former leaves names alone and never says Ok; the latter is
accepted only if the version of the copy is the stored one, so by
`CopiesAreVersions` the specification beside the new status is the one the
verdict was computed from. The strengthening is needed because
`VerdictFitsSpec` alone says nothing about what is on its way.

*Refinement.* `StatusesInFlight` is the fourth part: the status a worker is
about to write is a verdict on the copy it was computed from, and keeps its
other conditions and name servers, and the state of an entry that is looked
after. That it is a verdict, for objects with conditions, rests on
`ZoneStatusModified` and `EntryStatusModified`: nothing is written unless the
condition changes. With
`TypeOK`, `CopiesAreVersions` and `VerdictsInFlight` it is an inductive
invariant under which every step of `Controller` is a step of `StatusStore` or
changes neither objects nor versions: users' operations map to those of the
store, `Supervise` to the derivation of a state, `WriteAccepted` and
`WriteUnanswered` to `Report`. That the report fits the stored object, not the
copy, is again `CopiesAreVersions`.

*Caches.* `CachesFollow` says that the last thing a running server holds or has
received of an object is what is stored. The only other writer of a cache is
the worker, and it assigns fields of the copy it holds; so the invariant needs
`AliasIsCached`, that such a copy is the one in the cache, and `DownIsEmpty`,
that a process which starts has no copies. All steps are then sorted by what
they do to one object at one server (`OneOf`): nothing that matters, a change
that is announced, a list after a start or a broken watch, the end of the
process, or the delivery of an event. Everything later is proved for these six
kinds of steps and not for each action.

*No wakeup is lost.* `RootZonesSettle`, `ConditionsSettle`, `WrongEntriesSettle`
and `LeftEntriesRelease` say that a server which has heard everything of an
object, and has no key of it anywhere, leaves nothing wrong in it: a root zone
has the state its declaration asks for, or the condition where an aaS controller
derives the state, a wrong entry is Invalid, an entry that is in another server's
root zone is not claimed. One inductive invariant, `Attended`, carries all four.
Its last part, `AllAttended`, names who still has a wakeup:
the queue, the rate limiter, an event on its way, or the worker, which either
will see that the status is not right (`Right`) or is about to store the right
one. What the other parts are for:

* The delivery of an event is the hard case, since `Equal` may drop it. Then
  the copy before it is as right or wrong as the one after it
  (`UnnoticedIsNoWorse`). For a root zone that is because e-mail address, state
  and name servers are the same. `Entry.Equal` looks at less: not at the zone,
  the root zone in the status, or the state. So what an informer holds and
  receives must be successive versions of one object (`EventsInOrder`), and of
  two successive versions with one specification the later one must be no worse
  (`Keeps`): a wrong entry that is Invalid stays so, and a claim changes only to
  none or to the zone the entry is in.
* `Zone.Equal` does not compare conditions, and several servers and the aaS
  controller write the status of one root zone. So of two successive versions of
  a zone with the same e-mail address the later one has no worse condition, and
  the first state of a zone that an aaS controller takes over is the one it
  derives from the condition (`Confirms`): if that state is the same as before,
  it is Invalid, and a missing condition says the same. `ZonesAtWork` is what the
  workers must do for it: for a zone without parent they are at the end of the
  walk at once, and a condition on its way to the API server takes no right one
  back.
* `Keeps` is a promise of all writers, so every status on its way must keep it
  (`EntriesAtWork`). It is computed from a copy, and stored only if the copy has
  the stored version, by `CopiesAreVersions` the same specification and status.
* An aaS controller that looks after an object goes on to do so (`Follows`).
* The error of a copy of the root zone is the one of its declaration, because a
  worker assigns "no root zone found" to copies of other zones only
  (`RootsArePristine`).
* What is cached or on its way was declared of its object at some time
  (`Declared`). A worker that walks up from an entry of a zone without parent
  is therefore at that zone or has ended.

In the end, an object that no one is told about has a copy equal to it, by
`CachesFollow`, and by `AllAttended` that one is right (`UndisturbedIsRight`).

The conditions of the properties are those under which the code does this. A
broken watch can hide a deletion ([observation](#observations-without-a-run) 6).
A server that is not transitive has errors of zones that `Equal` does not see
(7), and a root zone with a parent is a nested zone to other servers, which may
write a condition with an error of their own. `Showing` is the condition `move` violates: users who change only the zone
of an entry, or only whether its address is malformed, are not noticed. Other
changes of an entry, also between two sections or to another zone together with
a name, are covered, and so are all changes of zones. `LeadsHome` says that the
walk from the zone of the entry can end at no root zone but the server's; the
walk may end nowhere, at a zone that is missing. Without it, a server in whose
tree the entry is not would be asked to report it. `LeadsAway` says that the
entry is in another zone that never has a parent. A parent given to a zone, or
taken from it, is not noticed (7), and so wakes up no entry in it.

*Setup.* `Prepared` is inductive relative to `TypeOK`: whatever the lines were,
a stanza is only accepted as `Accepted` says (mode `Primary`, one zone object,
one namespace, one base domain, in agreement with each other), there is at most
one accepted stanza, since a second one is refused for bringing a client
configuration of its own, and what starts uses the credentials of that one. No
lemma about the order of lines is needed, because the end of a stanza checks
what they left.

*Server.* `RequestOK` and `PathsAreLinked` are inductive together: the step of
`findZone` needs that the label it looks at lies below the last zone of the
path, and gives a new zone whose domain is the part of the name in between.
Nothing is needed about the caches, which is why the theorem holds while they
change. `ReadyForGood` follows from the types, one case per action.

`ReadyMeansListed` rests on `Stocked`: what an informer has received of an
object, and what it holds of one it has not still to store from its list, was
declared when it listed the object or since. That needs to be known of objects
which do not exist at the list, too: before it nothing is stored or received of
any object (`Untouched`), so that an empty place in the cache agrees with the
list. `HasSynced` then says that both lists are stored.
`SteadyDenials` rests on `Informed`, which follows a request to the one place
where a name is denied: while the caches stand still, no informer can complete
its list, so what `Deny` finds there was so when the request came.

`RequestsProgress` follows from the types: the measure `Remaining` of a request
falls with each of its steps, because the walk goes on below the label where it
found a zone, and steps of the informers leave it alone. With the fairness of
`Answering` this gives `EveryRequestIsAnswered`; that last step needs ENABLED.

*Names.* What is declared is defined by recursion over lines of parents
(`Names`), to the depth of the number of zones. `NamesAreClosed` says that this
depth is enough. The stages of the recursion grow, a stage that adds no zone is
the last one, and there are no more stages that add one than zones. The name of
a zone is therefore one of its domains before a name of its parent, whatever
the tree. Induction over numbers is done with least elements of sets of numbers
(`Least`, `Induct`), which follow from the theorem about finite subsets of the
library.

*Answers.* `Known` is what a request knows in each phase while the caches stand
still: the zones of its way are the cached ones; no zone nested in the last one
begins at a label that was passed (`NoneBetween`); no entry of the name exists
when the wildcard is tried; what the answer contains was found for the last
zone. It is inductive relative to `TypeOK` and `PathsAreLinked`. The rest is
about one state. By `NamesAreClosed` every zone on the way covers the name. If
some zone had a longer domain than the last one of the way, take the one with
the shortest such domain: its parent covers the name, too, and can only be the
last zone; so its domain begins at a label the walk has passed, against
`NoneBetween` (`WayEndsAtOwner`). Entries declared for the name are those found
in the index: because of `OneDomain`, the domain below which they are declared
is the one the walk cut off (`DeclaredAreFound`). Whether the wildcard is tried
is read off the declarations in `HidesWildcard` and off the index in `Lookup`;
`WildcardIsTried` says that both agree, and `AppliesAsFound` that the entries
which answer are the same. The test for the reverse trees is made on the name of
the request, with `apex.dns` before it at an apex, as `Host` is
(`AddressIsWanted`), so names below them are exactly the ones denied in spite of
declarations.

*Model-checked only.* `ServedZonesSettle`, `ServedEntriesSettle`,
`OrphansSettle`, `ForeignEntriesReleased` and `SupervisedObjectsSettle` hold
for the operations chosen above and are false in general: `late_root`,
`cascade`, `move` and `cold` are counterexamples to one or the other, and so
are the observations 1, 2 and 6. No theorem for all values of the constants can
state them. The parts of them that do hold in general are proved:
`RootZonesSettle` of the first, `ConditionsSettle` of the last (the conditions of
entries are subject to observation 1), `WrongEntriesSettle` of the second (that a
right entry becomes Ok, and its names, depend on zones above it and on the
wakeups `cascade` loses), and `LeftEntriesRelease` of the fourth (an entry in a
zone *nested* in another server's root depends on what this server's worker
reads on its walk, object by object). `OnlyOwnersRelease` is checked in
`handover`, from filled caches; `cold` says what happens otherwise. All
liveness (`Calms`, `WorkerReturns`, `EveryRequestIsAnswered`, `ServingStarts`)
is beyond the prover.

## Not modelled

Abstractions of the controller:

* Events of one object are delivered in order, those of different objects in
  any order. This covers the two informers, the order of a list, and the
  grouping by object in `DeltaFIFO`. Updating the cache and calling the handler
  are one step: the processor does both in a row, and what the worker could do
  in between is to read a copy for which a reconciliation is about to be
  enqueued.
* The queue is a set, as the work queue removes duplicates. Taking a key and
  the first lookup are one step; only superfluous reconciliations are lost by
  this.
* `Relist` replaces what is pending by the listed objects and delivers a
  tombstone for a cached object that is gone. The informers are created
  without resync.

Abstractions of the data:

* Names are sequences of labels and lists of names are sets; that a status
  list is written again when only its order differs is left out. Spelling
  (upper case, final dots) is left out.
* Of the data of an entry the models keep its A, AAAA and TXT records (one
  value), the SRV section, and whether an address is malformed. An entry with
  nothing but NS records occurs in `server` only, with a value of its own;
  `Entry.Equal` never compares NS records, so `WrongEntriesSettle`,
  `LeftEntriesRelease` and the other properties of the controller are to be read
  for A, AAAA and TXT.
* Of the data of a zone the models keep its parent, domains and whether it has
  an e-mail address. AAAA and CNAME questions take the way of A, MX that of a
  question without data. TTLs and the parameters of SOA records are left out.
* The words of a Corefile are values of a set; what makes a number, a host, a
  selector or a file readable is a constant of `Setup`.

Left out of `Server`: the worker, because answers do not depend on statuses;
lost watches, which are in `Controller`; the lines of a delegation, which come
from entries under `ns.dns`.

Left out altogether:

* the modes `Subdomains` and `FilterByZones` after the setup, because no server
  starts in them (`setup.go:371`, theorem `PrimaryOnly`);
* several instances of the plugin in a block, and the list/watch over several
  namespaces (`utils/filteringlistwatch.go`), for the same reason;
  `utils/filteringstore.go` has no caller;
* what secondaries conclude from the SOA serial: nothing of it is in the code;
* parents that form a cycle, and the worker that does not end after `Stop`:
  both are single states without an interleaving to explore;
* generated API code and client, `main.go`, the tools of the build.
