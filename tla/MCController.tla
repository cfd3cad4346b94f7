---------------------------- MODULE MCController ----------------------------
(***************************************************************************)
(* Small instances of the controller for TLC: root zones r and q, a zone n *)
(* nested in r, a zone m nested in n, and an entry e.                      *)
(***************************************************************************)
EXTENDS ControllerRefines, TLC

CONSTANTS s1, s2, r, q, n, m, e   \* servers and objects

ZoneIn(parent, domain) == [parent |-> parent, domains |-> {<<domain>>},
                           mail |-> TRUE]
BadZoneIn(parent, domain) == [ZoneIn(parent, domain) EXCEPT !.mail = FALSE]
EntryIn(zone, name) == [zone |-> zone, names |-> {<<name>>}, recs |-> "A",
                        srv |-> "", bad |-> FALSE]
BadEntryIn(zone, name) == [EntryIn(zone, name) EXCEPT !.bad = TRUE]
ServiceIn(zone, name) == [EntryIn(zone, name) EXCEPT !.srv = "dns"]

New(o, spec) == [name |-> o, rv |-> 1, spec |-> spec,
                 status |-> IF o \in Zone THEN NewZoneStatus ELSE NewEntryStatus]
Served(z, spec) == [New(z, spec) EXCEPT !.status.state = "Ok",
                                        !.status.message = ZoneIsServed]
NewSupervised(o, spec) == [New(o, spec) EXCEPT !.status.managed = TRUE]

RootR == [s \in Server |-> r]
RootsRQ == (s1 :> r) @@ (s2 :> q)

Quota(k) == [b \in Budget |-> IF b \in DOMAIN k THEN k[b] ELSE 0]

(* Steady: one server, up to date at the start; the names of both zones and *)
(* the entry change, the entry is broken and repaired, and the objects come *)
(* and go.                                                                  *)

SteadySpecs == (r :> {ZoneIn(None, "de")}) @@ (n :> {})
               @@ (e :> {EntryIn(n, "www"), BadEntryIn(n, "ftp")})
SteadyInitial == (r :> New(r, ZoneIn(None, "org"))) @@ (n :> New(n, ZoneIn(r, "sub")))
                 @@ (e :> New(e, EntryIn(n, "www")))
SteadyOps == {<<"update", r>>, <<"update", n>>, <<"create", e>>, <<"update", e>>,
              <<"delete", e>>, <<"delete", n>>, <<"delete", r>>}
SteadyLimit == Quota([ops |-> 2])

(* Restart: one server and its root zone, from cold caches, with every way  *)
(* to lose events and processes.                                            *)

RestartSpecs == (r :> {ZoneIn(None, "de")})
                @@ (e :> {EntryIn(r, "www"), ServiceIn(r, "www")})
RestartInitial == (r :> New(r, ZoneIn(None, "org"))) @@ (e :> New(e, EntryIn(r, "www")))
RestartOps == {<<"update", r>>, <<"update", e>>, <<"delete", e>>}
RestartLimit == Quota([ops |-> 1, kills |-> 1, relists |-> 1, faults |-> 1])

(* Handover: two servers with a root zone each; the entry moves between them. *)

HandoverSpecs == (r :> {}) @@ (q :> {})
                 @@ (e :> {EntryIn(r, "www"), EntryIn(q, "ftp")})
HandoverInitial == (r :> Served(r, ZoneIn(None, "org"))) @@ (q :> Served(q, ZoneIn(None, "de")))
                   @@ (e :> New(e, EntryIn(r, "www")))
HandoverOps == {<<"update", e>>}
HandoverLimit == Quota([ops |-> 2])

(* Managed: a slave shares its root zone with an aaS controller.  It is not *)
(* transitive, so that it refuses the nested zone; the entry moves between   *)
(* the two zones and is broken, and the root zone is deleted and created     *)
(* again, broken or not.                                                    *)

ManagedSpecs == (r :> {ZoneIn(None, "org"), BadZoneIn(None, "org")}) @@ (n :> {})
                @@ (e :> {EntryIn(r, "ftp"), BadEntryIn(r, "dev"), EntryIn(n, "www")})
Reported(o, spec, ready, why) ==
    [NewSupervised(o, spec) EXCEPT !.status.state = ready, !.status.server = why]
ManagedInitial ==
    (r :> Reported(r, ZoneIn(None, "org"), "Ready", <<"True", "hosted zone served">>))
    @@ (n :> Reported(n, ZoneIn(r, "sub"), "Invalid", <<"False">> \o Nested))
    @@ (e :> NewSupervised(e, EntryIn(n, "www")))
ManagedOps == {<<"delete", r>>, <<"create", r>>, <<"delete", n>>, <<"update", e>>}
ManagedLimit == Quota([ops |-> 2, ticks |-> 1])

NoOperations == {}
NoActions == Quota(<<>>)
OneOperation == Quota([ops |-> 1])

(* The disagreements between the code and what its comments and documents   *)
(* say, each with as little as shows it.                                    *)

\* A nested zone exists before its root zone.
LateRootSpecs == (r :> {ZoneIn(None, "org")}) @@ (n :> {}) @@ (e :> {})
LateRootInitial == (r :> Absent) @@ (n :> New(n, ZoneIn(r, "sub"))) @@ (e :> Absent)
LateRootOps == {<<"create", r>>}

\* The root zone above two levels of nested zones is deleted.
CascadeSpecs == (r :> {}) @@ (n :> {}) @@ (m :> {}) @@ (e :> {})
CascadeInitial == (r :> Served(r, ZoneIn(None, "org"))) @@ (n :> Served(n, ZoneIn(r, "sub")))
                  @@ (m :> Served(m, ZoneIn(n, "dev"))) @@ (e :> New(e, EntryIn(m, "www")))
CascadeOps == {<<"delete", r>>}

\* The zone reference of an entry changes and nothing else.
MoveSpecs == (r :> {}) @@ (q :> {}) @@ (e :> {EntryIn(q, "www")})
MoveInitial == (r :> Served(r, ZoneIn(None, "org"))) @@ (q :> Served(q, ZoneIn(None, "de")))
               @@ (e :> New(e, EntryIn(r, "www")))
MoveOps == {<<"update", e>>}

\* A server starts while every object has the status it should have.
WarmEntry(root, names) == [NewEntryStatus EXCEPT !.state = "Ok", !.root = root,
                                                 !.names = names]
ColdSpecs == (r :> {}) @@ (e :> {})
ColdInitial == (r :> Served(r, ZoneIn(None, "org")))
               @@ (e :> [New(e, EntryIn(r, "www")) EXCEPT
                           !.status = WarmEntry(r, {<<"www", "org">>})])

\* The SRV section is added to an entry.
SectionInitial == (r :> Served(r, ZoneIn(None, "org"))) @@ (e :> New(e, EntryIn(r, "www")))
SectionOps == {<<"update", e>>}
SectionSpecs == (r :> {}) @@ (e :> {ServiceIn(r, "www")})
=============================================================================
