-------------------------- MODULE ResponseAnalysis --------------------------
(***************************************************************************)
(* The diff engine, the issue classifier and what the result collector     *)
(* builds from them: the responses of one endpoint are paired, the two of  *)
(* a pair are compared, an anomalous difference becomes a list of issues,  *)
(* and the issues become a report.                                         *)
(*                                                                         *)
(* A body is a member of a set; what SequenceMatcher, _flatten_json and    *)
(* _extract_ids compute from bodies are the functions Ratio, Fields and    *)
(* Ids.  A ratio is counted in units of 1/100000, and a DiffResult's       *)
(* body_similarity, rounded to four digits, in units of 1/10000.           *)
(*                                                                         *)
(* Abstracted: titles, descriptions, recommendations, CWE and OWASP texts, *)
(* reproduction steps, value_changes (which nothing reads),                *)
(* removed_fields (which is only shown), and how generate_json,            *)
(* generate_markdown and generate_html write a report.                     *)
(***************************************************************************)
EXTENDS Naturals, FiniteSets, Lists

CONSTANTS
  Endpoint,      \* method and endpoint of a request
  Destructive,   \* the endpoints whose method is DELETE, PUT or PATCH
  AdminPath,     \* the endpoints whose path hints at administration
  Body,          \* response bodies
  NoBody,        \* stands for None
  Ratio,         \* Ratio[<<a, b>>]: SequenceMatcher's ratio of two bodies
  Fields,        \* Fields[b]: the flattened keys of a JSON body, else {}
  Ids,           \* Ids[b]: the ids in a JSON body, else {}
  Pii,           \* fields whose name tells of personal data
  Sensitive,     \* fields whose name tells of a secret
  User,          \* values of user_id
  Tenant,        \* values of tenant_id
  NoTenant,      \* stands for None
  Threshold      \* similarity_threshold (65000 by default)

Role     == {"admin", "manager", "user", "guest"}
Code     == {200, 401, 403, 404, 429}
Response == [endpoint : Endpoint, status : Code, body : Body \cup {NoBody}, user : User,
             role : Role, tenant : Tenant \cup {NoTenant}, tampered : BOOLEAN]

\* The threshold is not below the 0.65 that _check_bola asks for.
ASSUME AnalysisAssumption ==
  /\ Ratio \in [Body \X Body -> Nat]
  /\ Threshold \in Nat /\ Threshold >= 65000

-----------------------------------------------------------------------------
(* diff_engine.py                                                          *)

BodySimilarity(a, b) ==
  CASE a.body = NoBody /\ b.body = NoBody -> 100000
    [] a.body # NoBody /\ b.body # NoBody -> Ratio[<<a.body, b.body>>]
    [] OTHER -> 0

\* round(body_sim, 4)
Rounded(ratio) == (ratio + 5) \div 10

FieldsOf(r) == IF r.body = NoBody THEN {} ELSE Fields[r.body]
IdsOf(r)    == IF r.body = NoBody THEN {} ELSE Ids[r.body]

DifferentTenant(a, b) ==
  a.tenant # NoTenant /\ b.tenant # NoTenant /\ a.tenant # b.tenant

ForeignIds(a, b) ==
  IF DifferentTenant(a, b) \/ a.user # b.user THEN IdsOf(a) \cap IdsOf(b) ELSE {}

\* The three branches of compare_responses; in each the users differ.
SameData(a, b) ==
  a.status = 200 /\ b.status = 200 /\ BodySimilarity(a, b) >= Threshold
IdsShared(a, b)  == ForeignIds(a, b) # {} /\ 200 \in {a.status, b.status}
Restricted(a, b) == a.status \in {401, 403} /\ b.status = 200

IsAnomaly(a, b) ==
  a.user # b.user /\ (SameData(a, b) \/ IdsShared(a, b) \/ Restricted(a, b))

\* compare_responses: a is the reference, b the challenger.
Compare(a, b) ==
  [a |-> a, b |-> b,
   similarity |-> Rounded(BodySimilarity(a, b)),
   leaked     |-> FieldsOf(a) \cap FieldsOf(b),
   added      |-> FieldsOf(b) \ FieldsOf(a),
   foreign    |-> ForeignIds(a, b),
   anomaly    |-> IsAnomaly(a, b)]

-----------------------------------------------------------------------------
(* issue_classifier.py                                                     *)

BolaSeverity(d) ==
  IF d.leaked \cap Pii # {} \/ d.similarity >= 9000 THEN "CRITICAL"
  ELSE IF d.similarity >= 7000 \/ Cardinality(d.leaked) >= 5 THEN "HIGH" ELSE "MEDIUM"

BflaSeverity(d) ==
  LET hints == {x \in {Destructive, AdminPath} : d.a.endpoint \in x}
  IN  CASE hints = {} -> "MEDIUM"
        [] d.a.endpoint \in Destructive \cap AdminPath -> "CRITICAL"
        [] OTHER -> "HIGH"

Rank(role) == CASE role = "admin" -> 3 [] role = "manager" -> 2
                [] role = "user" -> 1  [] role = "guest" -> 0

JwtBypass(d)  == d.b.status = 200 /\ d.b.tampered
TenantLeak(d) == d.foreign # {} /\ ~(d.a.tenant # NoTenant /\ d.a.tenant = d.b.tenant)
\* Mutant of Bola: the bound is excluded.
BolaStrict(d) == /\ d.a.status = 200 /\ d.b.status = 200
                 /\ d.similarity > 6500 /\ d.a.user # d.b.user
Bola(d)       == /\ d.a.status = 200 /\ d.b.status = 200
                 /\ d.similarity >= 6500 /\ d.a.user # d.b.user
Bfla(d)       == d.a.status \in {401, 403} /\ d.b.status = 200
Escalation(d) == /\ d.a.status = 200 /\ d.b.status = 200
                 /\ Rank(d.b.role) < Rank(d.a.role) /\ d.similarity >= 5000
Disclosure(d) == d.added \cap Sensitive # {}

\* The checkers of classify_diff, in their order: what each finds.
Checkers(d) ==
  << [found |-> JwtBypass(d),  type |-> "JWT_BYPASS",      severity |-> "CRITICAL"],
     [found |-> TenantLeak(d), type |-> "TENANT_LEAK",     severity |-> "CRITICAL"],
     [found |-> Bola(d),       type |-> "BOLA",            severity |-> BolaSeverity(d)],
     [found |-> Bfla(d),       type |-> "BFLA",            severity |-> BflaSeverity(d)],
     [found |-> Escalation(d), type |-> "PRIV_ESCALATION", severity |-> "HIGH"],
     [found |-> Disclosure(d), type |-> "INFO_DISCLOSURE", severity |-> "MEDIUM"] >>

\* classify_diff: the issues of an anomalous difference.
Classify(d) ==
  IF ~d.anomaly THEN <<>>
  ELSE LET results == Picked(Checkers(d), {i \in DOMAIN Checkers(d) : Checkers(d)[i].found})
       IN  [i \in DOMAIN results |->
              [type |-> results[i].type, severity |-> results[i].severity, diff |-> d]]

-----------------------------------------------------------------------------
(* result_collector.py and report_generator.py.                            *)

IsReference(r) == r.role = "admin"

\* The pairs of references and challengers that differ in user or role.
Pairings(references, challengers) ==
  LET Differ(a, b) == a.user # b.user \/ a.role # b.role
  IN  FlattenSeq([i \in DOMAIN references |->
        Picked([j \in DOMAIN challengers |-> <<references[i], challengers[j]>>],
               {j \in DOMAIN challengers : Differ(references[i], challengers[j])})])

Admins(group) == {i \in DOMAIN group : IsReference(group[i])}

\* Mutant of References: only the first administrator's response.
ReferencesFirst(group) ==
  IF Admins(group) = {} THEN <<group[1]>> ELSE <<Picked(group, Admins(group))[1]>>

\* The references of a group; without an administrator's response the first one.
References(group) ==
  IF Admins(group) = {} THEN <<group[1]>> ELSE Picked(group, Admins(group))

Challengers(group) ==
  IF Admins(group) = {} THEN Tail(group) ELSE Picked(group, DOMAIN group \ Admins(group))

\* _build_pairs
BuildPairs(group) == Pairings(References(group), Challengers(group))

\* The keys of _buffer in the order of their first response, and its lists.
Keys(buffer) ==
  LET asked == [i \in DOMAIN buffer |-> buffer[i].endpoint] IN Picked(asked, Firsts(asked))

Group(buffer, key) == Picked(buffer, {i \in DOMAIN buffer : buffer[i].endpoint = key})

\* The diffs and the issues of process_buffered.
DiffsOf(buffer) ==
  LET pairs == FlattenSeq([k \in DOMAIN Keys(buffer) |->
                             BuildPairs(Group(buffer, Keys(buffer)[k]))])
  IN  [i \in DOMAIN pairs |-> Compare(pairs[i][1], pairs[i][2])]

IssuesOf(ds) == FlattenSeq([i \in DOMAIN ds |-> Classify(ds[i])])

Severities == <<"CRITICAL", "HIGH", "MEDIUM", "LOW", "INFO">>

With(issues, severity) == Picked(issues, {i \in DOMAIN issues : issues[i].severity = severity})

\* build_report: the stable sort by SEVERITY_SCORE and the summary.
BuildReport(issues, buffer, ds) ==
  [issues    |-> FlattenSeq([k \in DOMAIN Severities |-> With(issues, Severities[k])]),
   counts    |-> [k \in DOMAIN Severities |-> Len(With(issues, Severities[k]))],
   endpoints |-> Len(Keys(buffer)),
   requests  |-> Len(buffer),
   diffs     |-> Len(ds),
   anomalies |-> Cardinality({i \in DOMAIN ds : ds[i].anomaly})]
=============================================================================
