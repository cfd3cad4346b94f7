------------------------------- MODULE Objects -------------------------------
(***************************************************************************)
(* The two resources of the plugin, HostedZone and CoreDNSEntry, in the    *)
(* three forms the code gives them: the object in the API server, the      *)
(* stripped copy the informers keep (objects.Zone, objects.Entry) and the  *)
(* status the controller computes for it.  Only pure operators live here.  *)
(*                                                                         *)
(* All objects are in one namespace: mode Primary requires exactly one     *)
(* (setup.go:349) and the informers list and watch that namespace only.    *)
(* A domain name is a sequence of labels and a list of names is a set of   *)
(* them: a change that only reorders a list is left out.  A message is the *)
(* sequence of its parts, <<>> standing for no error.                      *)
(***************************************************************************)
EXTENDS Integers, Sequences

CONSTANTS
    Zone,     \* names of HostedZone objects
    Entry,    \* names of CoreDNSEntry objects
    Label,    \* labels of domain names
    None,     \* the empty object reference
    Absent    \* "there is no such object"

Object == Zone \cup Entry
Ref == Zone \cup {None}
Name == Seq(Label)

\* The parts messages and conditions are made of.
Text == {"True", "False", "zone is served", "hosted zone served", "entry served",
         "no root zone found", "responsibility lost", "zone failure",
         "invalid entry", "email address requird",
         "nested zones not supported in non-transitive mode"}
Message == Seq(Text)

-----------------------------------------------------------------------------
(* The API types. *)

\* What a zone's users declare; mail says whether an e-mail address is given.
\* The SOA parameters are left out: they are data of the DNS answers only.
ZoneSpec == [parent : Ref, domains : SUBSET Name, mail : BOOLEAN]

\* What an entry's users declare: recs stands for the A, AAAA and TXT data,
\* srv for the SRV section ("" when the section is missing), bad for a
\* malformed address, which the conversion leaves out of the copy it caches.
\* In module Server recs may be "NS": NS records are valid data for EntryError,
\* but no address of an answer.  Entry.Equal never compares them, so what is said
\* about the controller is to be read for A, AAAA and TXT data.
\* CNAME behaves like recs but is compared after the services; it is left out.
EntrySpec == [zone : Ref, names : SUBSET Name, recs : STRING, srv : STRING,
              bad : BOOLEAN]

State == {"", "Ok", "Ready", "Invalid"}

\* server is the condition of type DNSServer, as its status followed by its
\* message, <<>> when the object has none; managed says that the object also
\* carries a condition of another type, the mark of an aaS controller.
ZoneStatus == [state : State, message : Message, server : Message,
               managed : BOOLEAN, ns : BOOLEAN]
EntryStatus == [state : State, message : Message, server : Message,
                managed : BOOLEAN, root : Ref, names : SUBSET Name]

NewZoneStatus == [state |-> "", message |-> <<>>, server |-> <<>>,
                  managed |-> FALSE, ns |-> FALSE]
NewEntryStatus == [state |-> "", message |-> <<>>, server |-> <<>>,
                   managed |-> FALSE, root |-> None, names |-> {}]

SpecOf(o) == IF o \in Zone THEN ZoneSpec ELSE EntrySpec
StatusOf(o) == IF o \in Zone THEN ZoneStatus ELSE EntryStatus

\* The object o in the API server, and the copies of it in the informer caches.
Stored(o) == [name : {o}, rv : Nat, spec : SpecOf(o), status : StatusOf(o)]
Copied(o) == [name : {o}, rv : Nat, spec : SpecOf(o), status : StatusOf(o),
              plain : BOOLEAN, err : Message]

-----------------------------------------------------------------------------
(* Conversion of an API object into the cached copy. *)

IsPlain(status) == ~status.managed

Nested == <<"nested zones not supported in non-transitive mode">>
NoMail == <<"email address requird">>
BadEntry == <<"invalid entry">>

\* Mutant: nested zones are refused in every mode.
ZoneErrorInEveryMode(spec, transitive) ==
    IF spec.parent # None THEN Nested
    ELSE IF spec.mail THEN <<>> ELSE NoMail

\* Of two errors the last one found is kept.
ZoneError(spec, transitive) ==
    IF ~transitive /\ spec.parent # None THEN Nested
    ELSE IF spec.mail THEN <<>> ELSE NoMail

EntryError(spec) ==
    IF \/ spec.bad
       \/ spec.names = {}
       \/ spec.recs = "" /\ spec.srv = ""
    THEN BadEntry ELSE <<>>

ToZone(o, transitive, slave) ==
    [name |-> o.name, rv |-> o.rv, spec |-> o.spec, status |-> o.status,
     plain |-> ~slave /\ IsPlain(o.status),
     err |-> ZoneError(o.spec, transitive)]

ToEntry(o, slave) ==
    [name |-> o.name, rv |-> o.rv, spec |-> o.spec, status |-> o.status,
     plain |-> ~slave /\ IsPlain(o.status),
     err |-> EntryError(o.spec)]

-----------------------------------------------------------------------------
(* The comparisons that decide whether an update is worth a reconcilation. *)

ZoneEqual(a, b) ==
    /\ a.status.ns = b.status.ns
    /\ a.spec.domains = b.spec.domains
    /\ a.spec.mail = b.spec.mail
    /\ a.status.state = b.status.state

EntryEqual(a, b) ==
    /\ a.spec.names = b.spec.names
    /\ a.spec.recs = b.spec.recs
    /\ a.spec.srv = b.spec.srv

\* Once the names and the address and text records are found equal, the
\* service names are compared without a look at whether both sections exist.
EntryEqualPanics(a, b) ==
    /\ a.spec.names = b.spec.names
    /\ a.spec.recs = b.spec.recs
    /\ (a.spec.srv = "") # (b.spec.srv = "")

-----------------------------------------------------------------------------
(* Names and statuses computed by the controller. *)

\* Mutant: the domain comes before the name.
AggregateNamesSwapped(names, z) == {d \o n : n \in names, d \in z.spec.domains}

\* Every name under every domain of the zone.
AggregateNames(names, z) == {n \o d : n \in names, d \in z.spec.domains}

NoRootZone == <<"no root zone found">>
ResponsibilityLost == <<"responsibility lost">>
ZoneFailure(msg) == <<"zone failure">> \o msg
ZoneIsServed == <<"zone is served">>

Condition(err, served) ==
    IF err = <<>> THEN <<"True">> \o served ELSE <<"False">> \o err

\* The status Zone.UpdateStatus gives a copy, from the error of the copy.
ZoneStatusOf(z) ==
    IF z.plain
    THEN [z.status EXCEPT
            !.state = IF z.err = <<>> THEN "Ok" ELSE "Invalid",
            !.message = IF z.err = <<>> THEN ZoneIsServed ELSE z.err]
    ELSE [z.status EXCEPT
            !.server = Condition(z.err, <<"hosted zone served">>)]

\* Mutant: a condition alone is not worth an update.
ZoneStateModified(z) ==
    [ZoneStatusOf(z) EXCEPT !.server = <<>>] # [z.status EXCEPT !.server = <<>>]

ZoneStatusModified(z) == ZoneStatusOf(z) # z.status

\* Mutant: the error of the entry itself is forgotten.
EntryStatusOfZone(e, root, names, err) ==
    IF e.plain
    THEN [e.status EXCEPT
            !.root = root, !.names = names, !.message = err,
            !.state = IF err = <<>> THEN "Ok" ELSE "Invalid"]
    ELSE [e.status EXCEPT
            !.root = root, !.names = names,
            !.server = Condition(err, <<"entry served">>)]

\* The error of the entry itself comes before the one of its zone.
EntryStatusOf(e, root, names, err) ==
    LET why == IF e.err # <<>> THEN e.err ELSE err
    IN  IF e.plain
        THEN [e.status EXCEPT
                !.root = root, !.names = names, !.message = why,
                !.state = IF why = <<>> THEN "Ok" ELSE "Invalid"]
        ELSE [e.status EXCEPT
                !.root = root, !.names = names,
                !.server = Condition(why, <<"entry served">>)]

\* For an entry with conditions the verdict on the condition replaces the
\* one on the root zone and on the names.
EntryStatusModified(e, root, names, err) ==
    LET new == EntryStatusOf(e, root, names, err)
    IN  IF e.plain THEN new # e.status ELSE new.server # e.status.server
=============================================================================
