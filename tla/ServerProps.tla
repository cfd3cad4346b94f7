----------------------------- MODULE ServerProps -----------------------------
(***************************************************************************)
(* What a DNS server promises to those who ask it.  The promises about     *)
(* answers are read off the declared names: they spell the names of        *)
(* entries and zones along the line of parents, as the controller does for *)
(* the status, and never walk along the labels of a request.               *)
(***************************************************************************)
EXTENDS Server

RequestOK ==
    /\ req \in Request
    /\ req.pc = "root" => req.path = <<>>
    /\ req.pc \in {"walk", "lookup", "wildcard", "address", "verdict"} =>
         /\ req.path # <<>> /\ req.at \in 0 .. Here.low - 1
    /\ req.pc = "address" => Reverse

ObjectsOK ==
    /\ DOMAIN held = Object /\ DOMAIN api = Object
    /\ DOMAIN feed = Object /\ DOMAIN past = Object
    /\ \A o \in Object : /\ held[o] \in Copied(o) \cup {Absent}
                         /\ api[o] \in SpecOf(o) \cup {Absent}
                         /\ feed[o] \in Seq(SpecOf(o) \cup {Absent})
                         /\ past[o] \subseteq SpecOf(o) \cup {Absent}

RestOK ==
    /\ transitive \in BOOLEAN
    /\ changes \in Nat
    /\ informer \in [Resource -> {"off", "on", "stopped"}]
    /\ listed \in [Resource -> SUBSET Object]
    /\ serving \in {"down", "waiting", "serving"}
    /\ closed \in BOOLEAN
\* Every variable keeps its type, and a request that walks or looks up has a
\* zone and stays within the labels before it.
TypeOK == RequestOK /\ ObjectsOK /\ RestOK

-----------------------------------------------------------------------------
(* The caches *)

Cached(o) == IF Has(o) THEN held[o].spec ELSE Absent

\* When the server says that it is ready (Ready, ready.go), it holds of each
\* object, zone or entry, what was declared when the informer of its resource
\* listed it or at some time since: every object that existed then has been
\* stored, also when it is changed while the lists are stored, and an object that
\* is not in the cache did not exist then or at some time since.
ReadyMeansListed == HasSynced => \A o \in Object : Cached(o) \in past[o]

\* A server that is ready once stays so, whatever is changed or stopped.
ReadyForGood == [][HasSynced => HasSynced']_vars

-----------------------------------------------------------------------------
(* The way of a request *)

IsLinked(cut, next) ==
    /\ next.zone.spec.parent = cut.zone.name
    /\ next.low <= next.high /\ next.high = cut.low - 1
    /\ SubSeq(req.query.name, next.low, next.high) \in next.zone.spec.domains

\* The zones a request is handed along form a line from the root zone down:
\* each names the one before it as its parent, and its domain is exactly the
\* part of the name between that zone and the next (findZone).  This holds
\* although the caches change between the steps.
PathsAreLinked ==
    req.path # <<>> =>
      /\ req.path[1].zone.name = RootZone
      /\ req.path[1].high = Len(req.query.name)
      /\ \A i \in 1 .. Len(req.path) - 1 : IsLinked(req.path[i], req.path[i + 1])

-----------------------------------------------------------------------------
(* Names as they are declared *)

ASSUME ZonesAreFinite == IsFiniteSet(Zone)

Held(S) == {o \in S : Has(o)}

\* Every name before every end.
Joined(names, ends) == {n \o f : n \in names, f \in ends}

\* The root zone has its domains below the zone the plugin is declared for.
RootNames ==
    [z \in Zone |-> IF z = RootZone /\ Has(z)
                    THEN Joined(held[z].spec.domains, {req.base}) ELSE {}]

\* Every other zone has its domains below the names of its parent.
NamesBelow(names) ==
    [z \in Zone |-> IF z # RootZone /\ Has(z) /\ held[z].spec.parent \in Zone
                    THEN Joined(held[z].spec.domains, names[held[z].spec.parent])
                    ELSE RootNames[z]]

\* A line of parents that reaches the root zone has at most all zones in it.
Names ==
    LET names[i \in 0 .. Cardinality(Zone)] ==
          IF i = 0 THEN RootNames ELSE NamesBelow(names[i - 1])
    IN  names[Cardinality(Zone)]

ZoneNames(z) == Names[z]
FullNames(names, z) == Joined(names, ZoneNames(z))

Asked == req.query.name
Covering == {z \in Held(Zone) : \E d \in ZoneNames(z) : IsUnder(Asked, d)}
Domain(z) == CHOOSE d \in ZoneNames(z) : IsUnder(Asked, d)

\* Of the names of a zone a name is below one at most.
OneDomain(n, z) ==
    \A c, d \in ZoneNames(z) : IsUnder(n, c) /\ IsUnder(n, d) => c = d

\* The name belongs to one line of zones, which does not go through the root
\* zone again, and to one domain of each: the declarations leave no choice.
Unambiguous ==
    /\ Covering # {}
    /\ \A z \in Covering : OneDomain(Asked, z)
    /\ held[RootZone].spec.parent \notin Covering
    /\ \A y, z \in Covering :
         Len(Domain(y)) <= Len(Domain(z)) /\ y # z =>
           /\ Len(Domain(y)) < Len(Domain(z))
           /\ \E x \in Covering : held[z].spec.parent = x /\ Len(Domain(y)) <= Len(Domain(x))

Owner == CHOOSE z \in Covering : \A y \in Covering : Len(Domain(y)) <= Len(Domain(z))

\* The entries of the owner that are declared for a name, and those declared
\* for its wildcard.
Declared(n) == {e \in Held(Entry) : /\ held[e].spec.zone = Owner
                                    /\ n \in FullNames(held[e].spec.names, Owner)}
Recs(entries) == {held[e].spec.recs : e \in Fine(entries)} \ {"", "NS"}

\* At the apex of a zone addresses are those of "apex.dns".
Host == IF Asked = Domain(Owner) THEN Special \o Asked ELSE Asked
Wildcard(n) == <<"*">> \o Tail(n)

\* A wildcard stands for names with more than one label before the domain, and
\* only if no entry of any zone is declared with the labels of the name itself
\* (EntryDNSIndex looks for the wildcard before the entries are filtered).
HidesWildcard(n) ==
    \/ Len(n) - Len(Domain(Owner)) < 2
    \/ \E e \in Held(Entry) : \E m \in held[e].spec.names : m \o Domain(Owner) = n

\* The entries that answer for a name.
Applying(n) == Declared(n) \cup (IF HidesWildcard(n) THEN {} ELSE Declared(Wildcard(n)))

Answered(kind) == req.pc = "done" /\ req.out.kind = kind
Settled == req.pc = "done" /\ req.steady /\ Unambiguous
AsksAddress ==
    /\ req.query.type = "A"
    /\ \A i \in DOMAIN Asked : Asked[i] \notin {"_tcp", "_udp", "_upd"}

\* As long as the caches stand still, the addresses of a name are exactly those
\* of the valid entries declared for it in the zone that owns it, by the names
\* the controller reports in their status, or else of its wildcard; a name is
\* denied exactly when there is neither, or when it is below the reverse trees,
\* where declared names are denied, too (findZone, Records, findEntries).  The
\* name looked up and its wildcard are below one domain of the zone, too.
AddressesAreDeclared ==
    /\ Settled /\ AsksAddress /\ req.out.kind \in {"answer", "nodata", "nxdomain"}
    /\ OneDomain(Host, Owner) /\ OneDomain(Wildcard(Host), Owner)
    =>
      /\ Answered("nxdomain") <=> IsReverse(Host) \/ Applying(Host) = {}
      /\ ~Answered("nxdomain") => req.out.data = Recs(Applying(Host))

\* The records of a service come from the entries declared for its host in the
\* zone that owns the host, or else for its wildcard, and a service is denied
\* only when there are none or when it is below the reverse trees, where none is
\* ever answered.
ServicesAreDeclared ==
    Settled /\ req.query.type = "SRV" =>
      \A i \in 2 .. Len(Asked) - Len(Domain(Owner)) :
        LET host == SubSeq(Asked, i + 1, Len(Asked))
        IN  /\ Asked[i] \in {"_tcp", "_udp"}
            /\ \A j \in 1 .. i - 1 : Asked[j] \notin {"_tcp", "_udp", "_upd"}
            /\ OneDomain(Wildcard(host), Owner)
            => /\ Answered("answer") =>
                    /\ ~IsReverse(Asked)
                    /\ req.out.data \subseteq {held[e].spec.srv : e \in Fine(Applying(host))}
               /\ Answered("nxdomain") => IsReverse(Asked) \/ Applying(host) = {}

\* An entry with NS records is declared for the name, or for a name above it.
DelegatedByEntry ==
    \E e \in Held(Entry), i \in DOMAIN Asked :
      /\ held[e].spec.recs = "NS" /\ held[e].spec.zone \in Zone
      /\ LET above == SubSeq(Asked, i, Len(Asked))
         IN  {above, Wildcard(above)}
               \cap FullNames(held[e].spec.names, held[e].spec.zone) # {}

\* A server that is not transitive answers for the root zone alone and sends
\* everybody else to the name servers of the nested zone; a transitive one does
\* so only for the name servers of a nested zone.  Of names that entries with NS
\* records are declared for nothing is said: they should be delegated, but the
\* records do not get into the cache (ToEntry).
DelegationsAreDeclared ==
    Settled /\ ~DelegatedByEntry /\ req.out.kind \notin {"next", "failure"} =>
      Answered("delegation") =
        /\ Owner # RootZone
        /\ transitive => req.query.type = "NS" /\ Asked = Domain(Owner)

\* Answers without data, denials and the answer to the question for the zone
\* itself carry the SOA record of the domain that owns the name, not the one of
\* a zone above or below: whoever asks keeps the denial as that zone's
\* (ServeDNS, BackendError).
ZonesAreNamed ==
    Settled /\ (\/ req.out.kind \in {"nxdomain", "nodata", "servfail"}
                \/ Answered("answer") /\ req.query.type = "SOA")
      => req.out.soa = Domain(Owner)

\* A name is only denied when the caches were complete from the beginning, as
\* long as they stand still (ServeDNS: "If we haven't synchronized with the
\* kubernetes cluster, return server failure").
SteadyDenials == Answered("nxdomain") /\ req.steady => req.informed

\* What a request still does at most: one label after the other, the lookup of the
\* name and of its wildcard or of an address, the verdict, and the answer.
Remaining ==
    CASE req.pc = "root"     -> Len(req.query.name) + 6
      [] req.pc = "walk"     -> req.at + 5
      [] req.pc = "lookup"   -> 4
      [] req.pc = "wildcard" -> 3
      [] req.pc = "address"  -> 3
      [] req.pc = "verdict"  -> 2
      [] req.pc = "done"     -> 1
      [] OTHER               -> 0

\* Whatever the caches turn into between two lookups, each step of a request
\* brings it nearer to its answer, and no change of the caches throws it back: it
\* visits a label once, even if zones come and go below it, and a lookup that
\* finds nothing is not made again (findZone, findEntries).
RequestsProgress ==
    [][req.pc # "idle" /\ req' # req =>
         Remaining' < Remaining \/ Unsteady]_vars

-----------------------------------------------------------------------------
(* Liveness *)

\* Every request is answered, however often the caches change meanwhile.
EveryRequestIsAnswered == []<>(req.pc = "idle")

\* The server starts to serve, even when the API server never answers.
ServingStarts == <>(serving = "serving")
=============================================================================
