------------------------------- MODULE Resolver -------------------------------
(***************************************************************************)
(* One DNS request in a server of mode Primary: from the zone it is for,   *)
(* along the nested zones, to the entries of its name.  The request reads  *)
(* the caches object by object while the informers replace them: every     *)
(* read is a step of its own.                                              *)
(*                                                                         *)
(* Of the data of an answer only its origin is kept: recs for addresses,   *)
(* srv for the name of a service, whose records are all for TCP, and the   *)
(* domain the SOA record is for.  Names are in lower case, although the    *)
(* walk along the zones and the rest treat the case differently            *)
(* (handler.go:167, request.Name).                                         *)
(***************************************************************************)
EXTENDS Objects

CONSTANTS
    RootZone,       \* the zone object of the stanza
    Bases,          \* the zones the plugin is declared for
    Fall,           \* the zones that fall through to the next plugin
    Queries,        \* the requests: [name, type]
    AddressOf,      \* the addresses of the names for reverse lookups
    Bare            \* the labels without their underscore

VARIABLES
    held,           \* the copies in the caches of the server
    transitive,     \* whether the zones below the root zone are served, too
    req             \* the request

Query == [name : Name, type : {"A", "TXT", "SRV", "PTR", "SOA", "NS", "ANY"}]

ASSUME ResolverIsTyped ==
    /\ RootZone \in Zone /\ Bases \subseteq Name /\ Fall \subseteq Name
    /\ Queries \subseteq Query /\ Queries # {}
    /\ \A n \in DOMAIN AddressOf : AddressOf[n] \in STRING

CopiedZone == [name : Zone, rv : Nat, spec : ZoneSpec, status : ZoneStatus,
               plain : BOOLEAN, err : Message]

\* A zone on the way of the request, with the labels of the name it stands for.
Cut == [zone : CopiedZone, low : Nat, high : Nat]

Kind == {"", "next", "failure", "delegation", "servfail", "nxdomain", "nodata", "answer"}
Outcome == [kind : Kind, data : SUBSET STRING, soa : Name]
Because(kind) == [kind |-> kind, data |-> {}, soa |-> <<>>]
Records(data) == [kind |-> "answer", data |-> data, soa |-> <<>>]

PC == {"idle", "root", "walk", "lookup", "wildcard", "address", "verdict", "done"}

\* steady and informed are not in the code: whether the caches stayed the same
\* since the request came, and whether they were complete then.
Request == [pc : PC, query : Query, base : Name, path : Seq(Cut), at : Nat,
            out : Outcome, steady : BOOLEAN, informed : BOOLEAN]

IsUnder(n, zone) ==
    Len(zone) <= Len(n) /\ SubSeq(n, Len(n) - Len(zone) + 1, Len(n)) = zone
\* The trees of the names for reverse lookups; their own names are none of them.
ReverseTrees == {<<"in-addr", "arpa">>, <<"ip6", "arpa">>}
IsReverse(n) == \E tree \in ReverseTrees : n # tree /\ IsUnder(n, tree)

\* The name for an address consists of its parts and of one of these trees, but
\* by far not every name below them is one (dnsutil, external).
ASSUME AddressesAreReverse == \A n \in DOMAIN AddressOf : IsReverse(n)

IsLongest(n, S) == n \in S /\ \A m \in S : Len(m) <= Len(n)
Has(o) == held[o] # Absent

NoRequest == [pc |-> "idle", query |-> CHOOSE q \in Queries : TRUE, base |-> <<>>,
              path |-> <<>>, at |-> 0, out |-> Because(""), steady |-> FALSE,
              informed |-> FALSE]

Goto(pc) == req' = [req EXCEPT !.pc = pc]
Answer(out) == req' = [req EXCEPT !.pc = "done", !.out = out]
Fails == Answer(Because("failure"))

-----------------------------------------------------------------------------
(* The zone of the request. *)

\* Only requests for one of the zones of the plugin are taken.
Accept(query, synced) ==
    /\ req.pc = "idle"
    /\ LET bases == {b \in Bases : IsUnder(query.name, b)}
           new == [pc |-> "root", query |-> query, base |-> <<>>, path |-> <<>>, at |-> 0,
                   out |-> Because(""), steady |-> TRUE, informed |-> synced]
       IN  IF bases = {}
           THEN req' = [new EXCEPT !.pc = "done", !.out = Because("next")]
           ELSE \E b \in bases : IsLongest(b, bases) /\ req' = [new EXCEPT !.base = b]

\* Mutant: the walk goes on with the last label of the zone itself.
WalkAgain(cut) == req' = [req EXCEPT !.pc = "walk", !.path = Append(@, cut), !.at = cut.low]

Walk(cut) == req' = [req EXCEPT !.pc = "walk", !.path = Append(@, cut), !.at = cut.low - 1]

\* The domains of the root zone are read before the check that there is one.
ReadRoot ==
    /\ req.pc = "root"
    /\ LET qname == req.query.name
           domains == {d \o req.base : d \in held[RootZone].spec.domains}
           zones == {z \in domains : IsUnder(qname, z)}
       IN  IF ~Has(RootZone) THEN Fails
           ELSE IF zones = {} THEN Answer(Because("next"))
           ELSE \E z \in zones :
                  /\ IsLongest(z, zones)
                  /\ Walk([zone |-> held[RootZone], low |-> Len(qname) - Len(z) + 1,
                        high |-> Len(qname)])

-----------------------------------------------------------------------------
(* The walk along the labels, from right to left.  It also looks for       *)
(* entries with NS data, but finds none: the conversion leaves them out.   *)

Here == req.path[Len(req.path)]
Below == SubSeq(req.query.name, req.at, Here.low - 1)

\* Mutant: any zone of that domain will do.
NestedAnywhere(z) == Has(z) /\ Below \in held[z].spec.domains

IsCut(z) ==
    Has(z) /\ Below \in held[z].spec.domains /\ held[z].spec.parent = Here.zone.name

WalkDown ==
    /\ req.pc = "walk" /\ req.at > 0
    /\ transitive \/ Len(req.path) = 1
    /\ IF \E z \in Zone : IsCut(z)
       THEN \E z \in Zone : /\ IsCut(z)
                            /\ Walk([zone |-> held[z], low |-> req.at, high |-> Here.low - 1])
       ELSE req' = [req EXCEPT !.at = @ - 1]

-----------------------------------------------------------------------------
(* The request is for the last zone of the path, or is delegated to it. *)

\* Mutant: the zone of the request stays the root zone.
ApexOfRoot == SubSeq(req.query.name, req.path[1].low, Len(req.query.name))

Apex == SubSeq(req.query.name, Here.low, Len(req.query.name))

\* Answers that carry the SOA record of the zone.
SOA(kind) == [kind |-> kind, data |-> {}, soa |-> Apex]

Rel == SubSeq(req.query.name, 1, Here.low - 1)
AtApex == Rel = <<>>
IsNested == Len(req.path) > 1
Type == req.query.type
Reverse == req.query.name \in DOMAIN AddressOf

\* Mutant: a transitive server delegates like any other.
DelegatedAlways == IsNested

Delegated == IsNested /\ ~(transitive /\ ~(Type = "NS" /\ AtApex))

\* The request for a service: <service>.<protocol>.<name>.
Protocols == {i \in DOMAIN Rel : Rel[i] \in {"_tcp", "_udp"}}
First == CHOOSE i \in Protocols : \A j \in Protocols : i <= j
IsService == Protocols # {}
Service == IF First = 2 THEN Bare[Rel[1]] ELSE "several labels"

\* Mutant: the protocol stays part of the name.
HostPartWithProtocol == IF IsService THEN SubSeq(Rel, First, Len(Rel)) ELSE Rel

HostPart == IF IsService THEN SubSeq(Rel, First + 1, Len(Rel)) ELSE Rel

\* A name that begins with "_udp" makes an empty service name, which is indexed.
Malformed == AtApex \/ Rel[1] \in {"_tcp", "_upd"}
Breaks == ~Malformed /\ Rel[1] = "_udp"

\* At the apex some types are looked up under a special name.
Special == <<"apex", "dns">>
UsesSpecial == AtApex /\ Type \in {"A", "TXT", "ANY"}
Wanted == IF UsesSpecial THEN Special ELSE HostPart

\* Mutant: only the names of addresses are kept from the entries.
InReverseAddress == Reverse

\* Below the reverse trees no entry is looked up, whatever is declared there.
InReverse == IsReverse(IF UsesSpecial THEN Special \o req.query.name ELSE req.query.name)

\* Of the lookups for ANY the last one decides, which is the one for a service.
Denied == Malformed \/ InReverse \/ IsService # (Type \in {"SRV", "ANY"})

Owned(types) == ~Delegated /\ Type \in types

EndWalk ==
    /\ req.pc = "walk"
    /\ req.at = 0 \/ (~transitive /\ IsNested)
    /\ \/ Delegated /\ Answer(Because("delegation"))
       \/ Owned({"SOA"}) /\ Answer(SOA("answer"))
       \/ Owned({"NS"}) /\ AtApex /\ Answer(SOA("nodata"))
       \/ Owned({"PTR"}) /\ Reverse /\ Goto("address")
       \/ Owned({"A", "TXT", "ANY"}) /\ AtApex /\ Goto("lookup")
       \/ Owned({"PTR", "SRV"}) /\ AtApex /\ ~(Type = "PTR" /\ Reverse) /\ Goto("verdict")
       \/ /\ Owned({"A", "TXT", "SRV", "PTR", "NS", "ANY"}) /\ ~AtApex
          /\ ~(Type = "PTR" /\ Reverse)
          /\ IF Breaks THEN Fails ELSE Goto(IF Denied THEN "verdict" ELSE "lookup")

-----------------------------------------------------------------------------
(* The entries of the name. *)

Named == IsService /\ Service \notin {"any", "all"}
Fine(hits) == {e \in hits : held[e].err = <<>>}

Data(hits) ==
    IF IsService
    THEN {held[e].spec.srv : e \in {e \in Fine(hits) :
            /\ held[e].spec.srv # ""
            /\ Named => held[e].spec.srv = Service /\ Rel[First] = "_tcp"}}
    ELSE IF Type = "A" \/ (UsesSpecial /\ Type = "ANY")
    THEN {held[e].spec.recs : e \in Fine(hits)} \ {"", "NS"}
    ELSE {}

\* Mutant: the entries of all zones count.
Unfiltered(entries) == entries

Filtered(entries) == {e \in entries : held[e].spec.zone = Here.zone.name}

Found(entries) ==
    LET hits == Filtered(entries)
        data == Data(hits)
    IN  IF hits = {}
        THEN IF AtApex /\ Type = "ANY" THEN Answer(SOA("nodata")) ELSE Goto("verdict")
        ELSE IF Named /\ \E e \in hits : held[e].spec.srv = "" THEN Fails
        ELSE Answer(IF data = {} THEN SOA("nodata") ELSE Records(data))

EntriesNamed(n) == {e \in Entry : Has(e) /\ n \in held[e].spec.names}

Lookup ==
    /\ req.pc = "lookup"
    /\ IF InReverse THEN Found({})
       ELSE IF EntriesNamed(Wanted) = {} /\ Len(Wanted) > 1
       THEN Goto("wildcard") ELSE Found(EntriesNamed(Wanted))

\* Mutant: the name is looked up again when the wildcard finds nothing.
LookupWildcardAgain ==
    /\ req.pc = "wildcard"
    /\ LET entries == EntriesNamed(<<"*">> \o Tail(Wanted))
       IN  IF Filtered(entries) = {} THEN Goto("lookup") ELSE Found(entries)

LookupWildcard ==
    /\ req.pc = "wildcard"
    /\ Found(EntriesNamed(<<"*">> \o Tail(Wanted)))

\* Reverse lookups take an entry of any zone.
LookupAddress ==
    /\ req.pc = "address"
    /\ LET address == AddressOf[req.query.name]
       IN  IF \E e \in Entry : /\ Has(e) /\ held[e].spec.recs = address
                               /\ held[e].spec.names # {}
           THEN Answer(Records({address}))
           ELSE Goto("verdict")

-----------------------------------------------------------------------------

\* Mutant: whether the caches are complete is not asked for.
DenyAlways(synced) ==
    /\ req.pc = "verdict"
    /\ Answer(IF \E z \in Fall : IsUnder(req.query.name, z) THEN Because("next")
              ELSE SOA("nxdomain"))

Deny(synced) ==
    /\ req.pc = "verdict"
    /\ Answer(IF \E z \in Fall : IsUnder(req.query.name, z) THEN Because("next")
              ELSE SOA(IF synced THEN "nxdomain" ELSE "servfail"))

Finish == req.pc = "done" /\ req' = NoRequest

Resolve(synced) ==
    \/ ReadRoot \/ WalkDown \/ EndWalk
    \/ Lookup \/ LookupWildcard \/ LookupAddress
    \/ Deny(synced) \/ Finish
=============================================================================
