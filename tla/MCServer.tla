------------------------------ MODULE MCServer ------------------------------
(***************************************************************************)
(* Small instances of a DNS server for TLC: a root zone r for "c" and for  *)
(* reverse lookups, a zone n nested in it, and two entries.                *)
(***************************************************************************)
EXTENDS ServerProps, TLC

CONSTANTS r, n, e, f   \* objects

ZoneIn(parent, domains) == [parent |-> parent, domains |-> domains, mail |-> TRUE]
EntryIn(zone, names, recs, srv) ==
    [zone |-> zone, names |-> names, recs |-> recs, srv |-> srv, bad |-> FALSE]

Root == ZoneIn(None, {<<"c">>, <<"in-addr", "arpa">>})
Sub == ZoneIn(r, {<<"sub">>})
Loose == ZoneIn(None, {<<"sub">>})
Web(zone) == EntryIn(zone, {<<"www">>, <<"apex", "dns">>}, "1", "")
HttpService == EntryIn(n, {<<"www">>, <<"*", "lab">>, <<"*", "dns">>}, "2", "http")
External == EntryIn(r, {<<"ext">>}, "NS", "")

RootBases == {<<>>}
NoNames == {}
FallNames == {<<"2", "in-addr", "arpa">>}
Reverses == (<<"1", "in-addr", "arpa">> :> "1") @@ (<<"2", "in-addr", "arpa">> :> "9")
Labels == {"c", "in-addr", "arpa", "sub", "www", "apex", "dns", "*", "lab", "ext", "1", "2", "a", "org", "_http", "_any", "_tcp", "_udp", "_upd"}
Stripped == [l \in Labels |-> CASE l = "_http" -> "http" [] l = "_any" -> "any" [] OTHER -> l]

Ask(name, type) == [name |-> name, type |-> type]
AllQueries ==
    {Ask(<<"www", "c">>, "A"), Ask(<<"c">>, "A"), Ask(<<"www", "sub", "c">>, "A"),
     Ask(<<"a", "lab", "sub", "c">>, "A"), Ask(<<"sub", "c">>, "A"),
     Ask(<<"_udp", "c">>, "A"), Ask(<<"org">>, "A"),
     Ask(<<"sub", "c">>, "NS"), Ask(<<"c">>, "NS"), Ask(<<"c">>, "SOA"), Ask(<<"c">>, "ANY"),
     Ask(<<"_http", "_any", "_tcp", "www", "sub", "c">>, "SRV"), Ask(<<"c">>, "SRV"),
     Ask(<<"_any", "_tcp", "www", "sub", "c">>, "SRV"),
     Ask(<<"1", "in-addr", "arpa">>, "PTR"), Ask(<<"2", "in-addr", "arpa">>, "PTR"),
     Ask(<<"www", "in-addr", "arpa">>, "A"), Ask(<<"in-addr", "arpa">>, "A"),
     Ask(<<"in-addr", "arpa">>, "ANY"),
     Ask(<<"_any", "_tcp", "www", "sub", "in-addr", "arpa">>, "SRV")}

Begin == (r :> Root) @@ (n :> Sub) @@ (e :> Web(r)) @@ (f :> HttpService)
AnyChoice == (r :> {}) @@ (n :> {Loose, Absent}) @@ (e :> {Web(n)})
             @@ (f :> {External, Absent})
BothModes == BOOLEAN
=============================================================================
