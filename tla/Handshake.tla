----------------------------- MODULE Handshake -----------------------------
(***************************************************************************)
(* `handshake check` (src/src/handshake.rs): a read-only probe that        *)
(* resolves its inputs, then asks the server three things under one        *)
(* deadline and reports a closed classification of what it saw.            *)
(*                                                                         *)
(* The inputs are tiers of optional values, "bad" where one is present and *)
(* does not parse.  The server is external: it may be replaced by another  *)
(* cluster or change its templates between two answers, and answer with    *)
(* any status, encoding and body, or not at all.                           *)
(***************************************************************************)
EXTENDS Contract, FiniteSets

CONSTANTS
    Inputs,       \* the flags, environments and files to resolve
    Uuids,        \* cluster UUIDs
    VersionLists, \* what the component template may list as accepted
    Statuses,     \* HTTP statuses
    MaxVersions,  \* the longest list of accepted versions (256)
    MaxChanges    \* bound: changes of the server during a probe

\* ClassifiedProbe: what a probe can report.
Reasons == {"ready", "pending_enrollment", "local_config", "connectivity", "auth",
            "destination", "compatibility", "unclassified_4xx"}
Reports == [outcome : {"failed", "ready", "pending_enrollment"}, reason : Reasons,
            stage : {"local", "root", "template", "mapping", "none"}, generation : BOOLEAN,
            uuid : Uuids \cup {None}, digest : (SUBSET (1..9)) \cup {None}]

ASSUME HandshakeAssumptions ==
    /\ MaxVersions \in Nat \ {0} /\ MaxChanges \in Nat
    /\ {200, 404} \subseteq Statuses /\ Statuses \subseteq 100..599
    /\ None \notin Uuids /\ None \notin Statuses /\ None \notin {"yes", "pending", "bad"}
    /\ None \notin Reports

VARIABLES
    input,               \* what preflight resolves
    stage,               \* "local", "root", "template", "mapping" or "done"
    late,                \* the deadline of all three requests has passed
    affinity, observed, digest,   \* resolved, and read from the server so far
    report,              \* the ClassifiedProbe, None until the probe ends
    server, changes,     \* external: the cluster behind the endpoint
    sent                 \* history: the answers used, in the order of the requests

read == <<affinity, observed, digest>>
vars == <<input, stage, late, read, report, server, changes, sent>>

-----------------------------------------------------------------------------
(* Preflight *)

\* The first tier that has a value decides, whether or not the value is good.
First(tiers) ==
    IF \A i \in DOMAIN tiers : tiers[i] = None THEN None
    ELSE tiers[CHOOSE i \in DOMAIN tiers :
                  tiers[i] # None /\ \A k \in 1..(i - 1) : tiers[k] = None]

Resolved(tiers) == First(tiers) \notin {None, "bad"}

\* affinity_pair: a UUID or pending enrolment, not both; "bad" is an error.
affinity_pair(uuid, pending) ==
    CASE uuid # None /\ pending # None -> "bad"
      [] uuid # None /\ pending = None -> uuid
      [] uuid = None /\ pending = "yes" -> "pending"
      [] uuid = None /\ pending \notin {None, "yes"} -> "bad"
      [] uuid = None /\ pending = None -> None

\* Mutant: the configuration before the shipping policy.
FileFirst(i) ==
    LET pair(p) == affinity_pair(p.uuid, p.pending)
    IN First(<<pair(i.flag), pair(i.env), pair(i.file), i.policy>>)

\* resolve_affinity: flags, environment, shipping policy, configuration.  The
\* configuration's pair is looked at, and may fail, under the policy's.
resolve_affinity(i) ==
    LET flag == affinity_pair(i.flag.uuid, i.flag.pending)
        env == affinity_pair(i.env.uuid, i.env.pending)
        file == affinity_pair(i.file.uuid, i.file.pending)
    IN IF flag # None THEN flag
       ELSE IF env # None THEN env
       ELSE IF file = "bad" THEN "bad"
       ELSE First(<<i.policy, file>>)

\* credentials_from_file, else the configuration's own values.
Credentials(i) ==
    IF First(i.credFile) # None THEN First(i.credFile) ELSE i.credValues

\* preflight: every source that is consulted must be readable and valid.
PreflightOk(i) ==
    /\ i.config # "bad" /\ i.policy # "bad"
    /\ Resolved(i.endpoint) /\ Resolved(i.generation)
    /\ resolve_affinity(i) \notin {None, "bad"}
    /\ First(i.ca) # "bad"
    /\ Credentials(i) \notin {None, "bad"}

-----------------------------------------------------------------------------
(* Classification *)

\* status_reason: 404 blames the destination where the path is fixed.
status_reason(status, at) ==
    CASE status \in {401, 403} -> "auth"
      [] status \in {408, 429} \cup 500..599 -> "connectivity"
      [] status \in 300..399 -> "destination"
      [] status \in {400, 413} -> "compatibility"
      [] status = 404 /\ at \in {"root", "mapping"} -> "destination"
      [] status = 404 /\ at = "template" -> "compatibility"
      [] status \in 400..499 \ {400, 401, 403, 404, 408, 413, 429} -> "unclassified_4xx"
      [] OTHER -> "compatibility"

\* classify_http: the reason an answer is refused, "ok" where its body counts.
\* The status decides before the encoding, and that before the body.
classify_http(a, at) ==
    CASE a.status = None -> "connectivity"
      [] a.status \notin {None, 200} -> status_reason(a.status, at)
      [] a.status = 200 /\ ~a.identity -> "compatibility"
      [] a.status = 200 /\ a.identity /\ a.body = "cap" -> "compatibility"
      [] a.status = 200 /\ a.identity /\ a.body = "cut" -> "connectivity"
      [] OTHER -> "ok"

\* checked_json_stage: a body that is too deep, too long, no JSON, or that
\* repeats a key the decision rests on, is "junk"; the mapping rests on none.
Parsed(a, at) == a.body = "json" \/ (a.body = "repeats" /\ at = "mapping")

\* accepted_set: a list that is not empty, not too long, of valid versions;
\* its digest tells the set.
valid_version(v) == v \in 1..9
AcceptedSet(list) ==
    IF list = <<>> \/ Len(list) > MaxVersions \/ \E i \in DOMAIN list : ~valid_version(list[i])
    THEN None ELSE {list[i] : i \in DOMAIN list}

Failure(reason, at, uuid, dig) ==
    [outcome |-> "failed", reason |-> reason, stage |-> at,
     generation |-> at # "local", uuid |-> uuid, digest |-> dig]

Success(pending, uuid, dig) ==
    LET word == IF pending THEN "pending_enrollment" ELSE "ready"
    IN [outcome |-> word, reason |-> word, stage |-> "none",
        generation |-> TRUE, uuid |-> uuid, digest |-> dig]

exit_code(r) ==
    CASE r.reason = "ready" -> 0 [] r.reason = "pending_enrollment" -> 10
      [] r.reason = "local_config" -> 11 [] r.reason = "connectivity" -> 12
      [] r.reason = "auth" -> 13 [] r.reason = "destination" -> 14
      [] r.reason = "compatibility" -> 15 [] r.reason = "unclassified_4xx" -> 16

-----------------------------------------------------------------------------
(* run_check *)

\* Mutant: the probe reports and goes on.
EndsOpen(r) == report' = r /\ UNCHANGED stage

Ends(r) == report' = r /\ stage' = "done"

Preflight ==
    /\ stage = "local"
    /\ IF PreflightOk(input)
       THEN /\ affinity' = resolve_affinity(input)
            /\ stage' = "root"
            /\ UNCHANGED report
       ELSE /\ Ends(Failure("local_config", "local", None, None))
            /\ UNCHANGED affinity
    /\ UNCHANGED <<input, late, observed, digest, server, changes, sent>>

\* Mutant: a request that is not answered never ends.
AnswersOnly ==
    IF late THEN {}
    ELSE [status : Statuses, identity : BOOLEAN, body : {"cap", "cut", "junk", "repeats", "json"}]

\* What the transport hands over: nothing once the deadline has passed, and a
\* body cut short when it passes while the body is read.
Answers ==
    {[status |-> None, identity |-> TRUE, body |-> "cut"]} \cup
    (IF late THEN {}
     ELSE [status : Statuses, identity : BOOLEAN, body : {"cap", "cut", "junk", "repeats", "json"}])

\* One exchange, answered a and classified; what a good body yields is Reads.
Exchange(at, a, Reads) ==
    /\ stage = at /\ a \in Answers
    /\ sent' = Append(sent, [at |-> at, ok |-> classify_http(a, at) = "ok",
                           uuid |-> server.uuid, late |-> late])
    /\ IF classify_http(a, at) # "ok"
       THEN /\ Ends(Failure(classify_http(a, at), at, observed, digest))
            /\ UNCHANGED read
       ELSE Reads
    /\ UNCHANGED <<input, late, server, changes>>

\* Mutant: the cluster is read, and not compared.
AnyRoot(a) ==
    /\ observed' = server.uuid
    /\ stage' = "template"
    /\ UNCHANGED <<report, affinity, digest>>

RootReads(a) ==
    IF ~Parsed(a, "root")
    THEN /\ Ends(Failure("compatibility", "root", None, None))
         /\ UNCHANGED read
    ELSE /\ observed' = server.uuid
         /\ IF affinity \notin {"pending", server.uuid}
            THEN Ends(Failure("destination", "root", server.uuid, None))
            ELSE stage' = "template" /\ UNCHANGED report
         /\ UNCHANGED <<affinity, digest>>

TemplateReads(a) ==
    LET set == IF Parsed(a, "template") THEN AcceptedSet(server.versions) ELSE None
    IN /\ digest' = set
       /\ IF set = None \/ Schema \notin set
          THEN Ends(Failure("compatibility", "template", observed, set))
          ELSE stage' = "mapping" /\ UNCHANGED report
       /\ UNCHANGED <<affinity, observed>>

MappingReads(a) ==
    /\ Ends(IF Parsed(a, "mapping") THEN Success(affinity = "pending", observed, digest)
            ELSE Failure("compatibility", "mapping", observed, digest))
    /\ UNCHANGED read

Root == \E a \in Answers : Exchange("root", a, RootReads(a))
Template == \E a \in Answers : Exchange("template", a, TemplateReads(a))
Mapping == \E a \in Answers : Exchange("mapping", a, MappingReads(a))

Deadline ==
    /\ stage \in {"root", "template", "mapping"} /\ ~late
    /\ late' = TRUE
    /\ UNCHANGED <<input, stage, read, report, server, changes, sent>>

\* External: another cluster answers, or its template is replaced.
ServerChanges ==
    /\ changes < MaxChanges /\ stage # "done"
    /\ changes' = changes + 1
    /\ \E u \in Uuids, v \in VersionLists : server' = [uuid |-> u, versions |-> v]
    /\ UNCHANGED <<input, stage, late, read, report, sent>>

Fresh ==
    /\ stage = "local" /\ late = FALSE /\ report = None
    /\ affinity = None /\ observed = None /\ digest = None
    /\ changes = 0 /\ sent = <<>>

HandshakeInit ==
    /\ input \in Inputs
    /\ server \in [uuid : Uuids, versions : VersionLists]
    /\ Fresh

HandshakeNext ==
    \/ Preflight \/ Root \/ Template \/ Mapping
    \/ Deadline \/ ServerChanges
=============================================================================
