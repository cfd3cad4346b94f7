-------------------------------- MODULE Setup --------------------------------
(***************************************************************************)
(* The setup of the plugin for one server block: the stanzas of the block  *)
(* are parsed line by line, each ends with the checks of its mode, and the *)
(* first instance connects to the API server.                              *)
(*                                                                         *)
(* The lines are the input: at every point the file may go on with any of  *)
(* the lines in Directive, or end the stanza, or end the block.  Words     *)
(* that are converted (numbers, flags, selectors, paths) are told apart by *)
(* the result of the conversion only.                                      *)
(***************************************************************************)
EXTENDS Integers, Sequences

CONSTANTS
    Word,        \* the words of a file, and paths
    BlockKeys,   \* the zones the server block is declared for, a sequence
    ZoneLists,   \* the zones that may follow the name of the plugin
    Directive,   \* the lines a stanza may hold: <<property, arguments>>
    Reverse,     \* zones for addresses
    NoHost,      \* zones that do not denote a host
    Number,      \* the words that are numbers, and their values
    Flag,        \* the words that are truth values, and their values
    Selector,    \* the argument lists that are label selectors
    Directory,   \* the paths of directories ...
    WithToken,   \* ... those with a file "token" ...
    WithCA,      \* ... and those with a file "ca.crt"
    Readable,    \* the files with proper content
    InCluster,   \* whether the process runs in a cluster
    None,        \* nothing declared
    MaxStanzas,  \* bound on the stanzas of the block
    MaxLines     \* bound on the lines of all of them

Words == Seq(Word)

ASSUME InputIsTyped ==
    /\ {".", "token", "ca.crt"} \subseteq Word
    /\ BlockKeys \in Words
    /\ ZoneLists \subseteq Words
    /\ Directive \subseteq Word \X Words
    /\ Selector \subseteq Words
    /\ None \notin Word /\ None \notin Word \X Word
    /\ \A w \in DOMAIN Flag : Flag[w] \in BOOLEAN
    /\ MaxStanzas \in Nat /\ MaxLines \in Nat

Mode == {"FilterByZones", "Subdomains", "Primary"}
Property == {"mode", "zoneobject", "namespaces", "endpoint", "token", "tls",
             "labels", "fallthrough", "ttl", "kubeconfig", "transitive", "slave"}
RangeOf(s) == {s[i] : i \in 1 .. Len(s)}
TTL == 0 .. 3600
Optional(S) == S \cup {None}

\* K8SConfig: how to reach the API server.
Access == [servers : Words, token : Optional(Word), ca : Optional(Word),
           cert : Optional(Word), kubeconfig : Optional(Word),
           labels : Optional(Words)]
NoAccess == [servers |-> <<>>, token |-> None, ca |-> None, cert |-> None,
             kubeconfig |-> None, labels |-> None]

\* KubeDynDNS: an instance of the plugin.
Instance == [mode : Mode, zones : Words, served : SUBSET Nat,
             zoneObject : Optional(Word), zoneRef : Optional(Word \X Word),
             namespaces : SUBSET Word, conf : Optional(Access), ttl : TTL,
             transitive : BOOLEAN, slave : BOOLEAN, fall : SUBSET Word]
New(zones, served) ==
    [mode |-> "FilterByZones", zones |-> zones, served |-> served,
     zoneObject |-> None, zoneRef |-> None, namespaces |-> {}, conf |-> None,
     ttl |-> 10, transitive |-> FALSE, slave |-> FALSE, fall |-> {}]

\* What the controller of a started server watches.
Scope == [namespaces : SUBSET Word, zone : Optional(Word \X Word),
          selector : Optional(Words)]

VARIABLES
    phase,    \* where the setup is
    lines,    \* the lines parsed so far
    k8s,      \* the instance of the stanza that is parsed
    ks,       \* the instances of the stanzas that are accepted
    access,   \* how the API server is reached
    scope     \* what is watched there

vars == <<phase, lines, k8s, ks, access, scope>>

Phase == {"block", "stanza", "connect", "started", "refused", "panicked"}

Init ==
    /\ phase = "block" /\ lines = 0
    /\ k8s = New(<<>>, {}) /\ ks = <<>>
    /\ access = None /\ scope = None

Refuse == phase' = "refused" /\ UNCHANGED <<lines, k8s, ks, access, scope>>
Panic == phase' = "panicked" /\ UNCHANGED <<lines, k8s, ks, access, scope>>

-----------------------------------------------------------------------------
(* A stanza begins: the zones are its own or those of the block. *)

\* The positions of the zones for names.
Forward(zones) == {i \in 1 .. Len(zones) : zones[i] \notin Reverse}

BeginStanza(own) ==
    /\ phase = "block" /\ Len(ks) < MaxStanzas
    /\ LET zones == IF own # <<>> THEN own ELSE BlockKeys
       IN  IF RangeOf(zones) \cap NoHost # {}
           THEN Refuse
           ELSE /\ k8s' = New(zones, Forward(zones))
                /\ phase' = "stanza"
                /\ UNCHANGED <<lines, ks, access, scope>>

-----------------------------------------------------------------------------
(* The lines of a stanza. *)

Line(property, args) ==
    /\ phase = "stanza" /\ lines < MaxLines
    /\ <<property, args>> \in Directive

Set(field, x) ==
    /\ k8s' = [k8s EXCEPT ![field] = x] /\ lines' = lines + 1
    /\ UNCHANGED <<phase, ks, access, scope>>

Conf(k) == IF k.conf = None THEN NoAccess ELSE k.conf
Reach(field, x) == Set("conf", [Conf(k8s) EXCEPT ![field] = x])
Authenticate(field, x, ca) == Set("conf", [Conf(k8s) EXCEPT ![field] = x, !.ca = ca])

SetMode(args) ==
    /\ Line("mode", args)
    /\ IF Len(args) = 1 /\ args[1] \in Mode THEN Set("mode", args[1]) ELSE Refuse

SetZoneObject(args) ==
    /\ Line("zoneobject", args)
    /\ IF Len(args) = 1 THEN Set("zoneObject", args[1]) ELSE Refuse

AddNamespaces(args) ==
    /\ Line("namespaces", args)
    /\ IF args # <<>> THEN Set("namespaces", k8s.namespaces \cup RangeOf(args)) ELSE Refuse

SetEndpoint(args) ==
    /\ Line("endpoint", args)
    /\ IF Len(args) = 1 THEN Reach("servers", args) ELSE Refuse

CAIn(dir) == IF dir \in WithCA THEN "ca.crt" ELSE Conf(k8s).ca

SetToken(args) ==
    /\ Line("token", args)
    /\ \/ Len(args) = 2 /\ Authenticate("token", args[1], args[2])
       \/ Len(args) = 1 /\ args[1] \notin Directory /\ Reach("token", args[1])
       \/ /\ Len(args) = 1 /\ args[1] \in Directory \cap WithToken
          /\ Authenticate("token", "token", CAIn(args[1]))
       \/ Len(args) = 1 /\ args[1] \in Directory \ WithToken /\ Refuse
       \/ Len(args) \notin {1, 2} /\ Refuse

SetTLS(args) ==
    /\ Line("tls", args)
    /\ IF Len(args) = 3 THEN Authenticate("cert", args[1], args[3]) ELSE Refuse

SetLabels(args) ==
    /\ Line("labels", args)
    /\ IF args # <<>> /\ args \in Selector THEN Reach("labels", args) ELSE Refuse

SetFallthrough(args) ==
    /\ Line("fallthrough", args)
    /\ Set("fall", IF args = <<>> THEN {"."} ELSE RangeOf(args))

\* Mutant: the range is not checked.
SetAnyTTL(args) ==
    /\ Line("ttl", args)
    /\ IF args # <<>> /\ args[1] \in DOMAIN Number
       THEN Set("ttl", Number[args[1]]) ELSE Refuse

SetTTL(args) ==
    /\ Line("ttl", args)
    /\ IF args # <<>> /\ args[1] \in DOMAIN Number /\ Number[args[1]] \in TTL
       THEN Set("ttl", Number[args[1]]) ELSE Refuse

SetKubeconfig(args) ==
    /\ Line("kubeconfig", args)
    /\ IF Len(args) \in {1, 2} THEN Reach("kubeconfig", args[1]) ELSE Refuse

IsFlag(args) == args = <<>> \/ (Len(args) = 1 /\ args[1] \in DOMAIN Flag)
Truth(args) == args = <<>> \/ Flag[args[1]]

SetTransitive(args) ==
    /\ Line("transitive", args)
    /\ IF IsFlag(args) THEN Set("transitive", Truth(args)) ELSE Refuse

SetSlave(args) ==
    /\ Line("slave", args)
    /\ IF IsFlag(args) THEN Set("slave", Truth(args)) ELSE Refuse

RefuseUnknown(property, args) ==
    /\ Line(property, args)
    /\ property \notin Property
    /\ Refuse

-----------------------------------------------------------------------------
(* A stanza ends. *)

IsPrimary(k) == k.mode = "Primary"

\* Mutant: any number of namespaces will do.
AnyPrimary(k) ==
    IsPrimary(k) /\ k.zoneObject # None /\ k.namespaces # {}

ProperPrimary(k) ==
    /\ IsPrimary(k) /\ k.zoneObject # None
    /\ \E n \in k.namespaces : k.namespaces = {n}

DeclaredAgain(k) == ks # <<>> /\ k.conf # None

\* Two assignments dereference what may be missing: with a zone object the
\* namespace is added to a configuration that no line of the stanza created;
\* without one it is taken from the zone object.
Dereferences(k) ==
    \/ ProperPrimary(k) /\ k.conf = None
    \/ ~IsPrimary(k) /\ k.zoneObject = None /\ ~DeclaredAgain(k)

OneBase(k) == \E i \in k.served : k.served = {i}

StanzaPanics ==
    /\ phase = "stanza"
    /\ Dereferences(k8s)
    /\ Panic

AcceptedAs(k) ==
    /\ ks' = Append(ks, k)
    /\ phase' = "block"
    /\ UNCHANGED <<lines, k8s, access, scope>>

StanzaEnds ==
    /\ phase = "stanza"
    /\ ~Dereferences(k8s)
    /\ IF ProperPrimary(k8s) /\ ~DeclaredAgain(k8s) /\ OneBase(k8s)
       THEN AcceptedAs([k8s EXCEPT !.zoneRef =
                          <<k8s.zoneObject, CHOOSE n \in k8s.namespaces : TRUE>>])
       ELSE Refuse

\* Several instances exclude one that exposes all namespaces.
BlockEnds ==
    /\ phase = "block" /\ ks # <<>>
    /\ IF Len(ks) > 1 /\ \E i \in 1 .. Len(ks) : ks[i].namespaces = {}
       THEN Refuse
       ELSE phase' = "connect" /\ UNCHANGED <<lines, k8s, ks, access, scope>>

-----------------------------------------------------------------------------
(* The first instance gets a controller.  How it reaches the API server: *)

\* Mutant: a token beside a kubeconfig is passed over.
TokenPassedOver(conf) ==
    conf.kubeconfig = None /\ conf.token # None /\ conf.servers = <<>>

Clashes(conf) ==
    \/ conf.kubeconfig # None /\ conf.token # None
    \/ conf.token # None /\ conf.servers = <<>>

AccessOf(conf) ==
    CASE conf.kubeconfig # None -> "kubeconfig"
      [] conf.kubeconfig = None /\ conf.servers = <<>> -> "cluster"
      [] conf.kubeconfig = None /\ conf.servers # <<>> /\ conf.token # None -> "token"
      [] OTHER -> "endpoint"

IsFile(path) == path = None \/ path \in Readable

Usable(conf) ==
    CASE AccessOf(conf) = "kubeconfig" -> IsFile(conf.kubeconfig)
      [] AccessOf(conf) = "cluster" -> InCluster
      [] AccessOf(conf) = "token" ->
           IsFile(conf.token) /\ (IF conf.ca = None THEN InCluster ELSE IsFile(conf.ca))
      [] OTHER -> IsFile(conf.cert) /\ IsFile(conf.ca)

\* The label selector of the configuration does not get to the controller.
ScopeOf(k) == [namespaces |-> k.namespaces, zone |-> k.zoneRef, selector |-> None]

Connect ==
    /\ phase = "connect"
    /\ LET k == ks[1]
       IN  IF Clashes(k.conf) \/ ~Usable(k.conf)
           THEN Refuse
           ELSE /\ phase' = "started"
                /\ access' = AccessOf(k.conf)
                /\ scope' = ScopeOf(k)
                /\ UNCHANGED <<lines, k8s, ks>>

-----------------------------------------------------------------------------

ParseLine(property, args) ==
    \/ SetMode(args) \/ SetZoneObject(args) \/ AddNamespaces(args)
    \/ SetEndpoint(args) \/ SetToken(args) \/ SetTLS(args) \/ SetLabels(args)
    \/ SetFallthrough(args) \/ SetTTL(args) \/ SetKubeconfig(args)
    \/ SetTransitive(args) \/ SetSlave(args)
    \/ RefuseUnknown(property, args)

Next ==
    \/ \E own \in ZoneLists : BeginStanza(own)
    \/ \E d \in Directive : ParseLine(d[1], d[2])
    \/ StanzaPanics \/ StanzaEnds \/ BlockEnds \/ Connect

Spec == Init /\ [][Next]_vars

-----------------------------------------------------------------------------
(* Properties *)

TypeOK ==
    /\ phase \in Phase /\ lines \in Nat
    /\ k8s \in Instance /\ ks \in Seq(Instance)
    /\ access \in Optional({"kubeconfig", "cluster", "token", "endpoint"})
    /\ scope \in Optional(Scope)

\* Whatever a file holds, a server that starts has one instance, in mode
\* Primary, with one zone object in the one namespace it watches, and one base
\* domain.  The controller and the resolver are written for these servers: the
\* code for other modes, several namespaces or several instances cannot run.
StartsAsPrimary ==
    phase = "started" =>
      /\ Len(ks) = 1
      /\ IsPrimary(ks[1]) /\ OneBase(ks[1])
      /\ scope.zone # None /\ scope.namespaces = {scope.zone[2]}

\* In whatever order and however often the lines of a stanza are repeated, a
\* kubeconfig or a token is used or the setup refuses (getClientConfig: "only API
\* token or kubeconfig").  A client certificate gives way silently: it is used
\* unless a kubeconfig or a token is declared beside it, or no endpoint.
CredentialsUsed ==
    phase = "started" =>
      LET conf == ks[1].conf
      IN  /\ conf.kubeconfig # None => access = "kubeconfig"
          /\ conf.token # None => access = "token"
          /\ conf.cert # None /\ access # "endpoint" =>
               conf.kubeconfig # None \/ conf.token # None \/ conf.servers = <<>>

\* The setup ends with a server or with an error.  The examples of the plugin's
\* documentation start without a mode (README, Examples).
SetupAnswers == phase # "panicked"
=============================================================================
