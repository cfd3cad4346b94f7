------------------------------- MODULE MCSetup -------------------------------
(***************************************************************************)
(* Small instances of the setup for TLC: every line a stanza knows, in a   *)
(* proper and a broken form.                                               *)
(***************************************************************************)
EXTENDS Setup, TLC

Keys == <<".">>
Lists == {<<>>, <<"my.domain", "in-addr.arpa">>, <<"a.domain", "b.domain">>,
          <<"bad">>}

Lines ==
    {<<"mode", <<"Primary">>>>, <<"mode", <<"Subdomains">>>>, <<"mode", <<"Other">>>>,
     <<"zoneobject", <<"test">>>>, <<"zoneobject", <<>>>>,
     <<"namespaces", <<"default">>>>, <<"namespaces", <<"prod">>>>, <<"namespaces", <<>>>>,
     <<"endpoint", <<"url">>>>, <<"endpoint", <<"url", "url">>>>,
     <<"token", <<"file">>>>, <<"token", <<"dir">>>>, <<"token", <<"empty">>>>,
     <<"token", <<"file", "ca.crt">>>>, <<"token", <<>>>>,
     <<"tls", <<"cert", "key", "ca.crt">>>>, <<"tls", <<"cert">>>>,
     <<"labels", <<"app=dns">>>>, <<"labels", <<"=">>>>,
     <<"fallthrough", <<>>>>, <<"ttl", <<"30">>>>, <<"ttl", <<"3601">>>>,
     <<"kubeconfig", <<"config", "ctx">>>>, <<"kubeconfig", <<"missing">>>>,
     <<"kubeconfig", <<>>>>,
     <<"transitive", <<>>>>, <<"transitive", <<"maybe">>>>,
     <<"slave", <<"false">>>>, <<"slave", <<"maybe">>>>, <<"other", <<>>>>}

WordsOf(zones, options) ==
    {".", "token", "ca.crt"} \cup UNION {RangeOf(l) : l \in zones}
      \cup {d[1] : d \in options} \cup UNION {RangeOf(d[2]) : d \in options}
FileWords == WordsOf(Lists, Lines) \cup {"app=dns"}

Selectors == {<<"app=dns">>}
Numbers == ("30" :> 30) @@ ("3601" :> 3601)
Flags == ("true" :> TRUE) @@ ("false" :> FALSE)

\* The server block of examples/corefile.
ExampleLists == {<<"test.mandelsoft.org">>}
ExampleLines ==
    {<<"mode", <<"FilterByZones">>>>,
     <<"kubeconfig", <<"secret/kubeconfig", "default">>>>,
     <<"fallthrough", <<>>>>, <<"ttl", <<"30">>>>}
ExampleWords == WordsOf(ExampleLists, ExampleLines) \cup {"app=dns"}
=============================================================================
