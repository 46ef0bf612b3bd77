--------------------------- MODULE TaskGeneration ---------------------------
(***************************************************************************)
(* POST /scans/{id}/discover: a specification is fetched and parsed, and   *)
(* crawler tasks, tasks with swapped tokens and mutated tasks are made of  *)
(* its endpoints.  One request is followed; it never awaits between the    *)
(* look-up of the scan and submit_tasks (ScanPipeline), so that the        *)
(* requests it sends are its only steps others can tell.                   *)
(*                                                                         *)
(* A document is what a fetch or a file yields.  Abstracted: parameters,   *)
(* which no generated task uses; references, which resolve; the contents   *)
(* of payloads.  A base URL has a scheme and an authority.                 *)
(***************************************************************************)
EXTENDS MutationEngine

CONSTANTS
  Documents,     \* what a fetch, a file or the request itself may hold
  Sources,       \* spec_source: [kind, authority, path, json]; the last three for a URL
  Bases,         \* base_url or the scan's target: [authority, path, slash]
  Jwts,          \* the tokens of the request
  NoJwt,         \* stands for "no token"
  NoBodyObject   \* stands for "no body described"

BodyObject == [required : BOOLEAN, schema : BOOLEAN]
OperationObject ==
  [method : STRING, details : {"good", "none", "crash"},
   security : {"absent", "empty", "listed"},
   requestBody : BodyObject \cup {NoBodyObject}, bodyParam : BodyObject \cup {NoBodyObject}]
PathItem == [pieces : Seq(Piece), spelled : STRING, ops : Seq(OperationObject)]

ASSUME GenerationAssumption ==
  /\ \A doc \in Documents :
       /\ doc.root \in {"unreadable", "syntax", "noPaths", "empty", "object"}
       /\ doc.paths \in Seq(PathItem)
  /\ \A s \in Sources : {s.authority, s.path} \subseteq Seq(Piece)
  /\ \A b \in Bases : {b.authority, b.path} \subseteq Seq(Piece)
  /\ IsFiniteSet(Jwts)

VARIABLES
  source, base,  \* the request
  stage,         \* where the handler is
  probes,        \* the fallback URLs not tried yet
  endpoints,     \* what has been discovered
  fallback,      \* whether the source is taken for the only endpoint
  tasks,         \* the tasks made so far
  reply          \* the status code; 0 while the handler runs

genVars == <<source, base, stage, probes, endpoints, fallback, tasks, reply>>

-----------------------------------------------------------------------------
(* OpenAPIParser.                                                          *)

ValidMethods == {"GET", "POST", "PUT", "DELETE", "PATCH", "OPTIONS", "HEAD", "TRACE"}

\* One slash between pieces, none at the end: the spelling is dropped.
NormalizePath(raw) == raw.pieces

\* Security of the operation, or of the document if the operation says nothing.
CheckAuth(doc, op) == (IF op.security = "absent" THEN doc.security ELSE op.security) = "listed"

\* The request body, or else the first body parameter.
ExtractBodySchema(op) ==
  IF op.requestBody # NoBodyObject /\ op.requestBody.schema THEN op.requestBody
  ELSE IF op.bodyParam # NoBodyObject THEN op.bodyParam
  ELSE [required |-> op.requestBody # NoBodyObject /\ op.requestBody.required, schema |-> FALSE]

DiscoveredEndpoint(doc, entry, op) ==
  [method |-> op.method, path |-> NormalizePath(entry), auth |-> CheckAuth(doc, op),
   required |-> ExtractBodySchema(op).required, schema |-> ExtractBodySchema(op).schema]

\* The operations that are read at all, in order.
Operations(doc) ==
  LET Of(entry) ==
        LET Read(op) == op.method \in ValidMethods /\ op.details # "none"
            ops      == Picked(entry.ops, {i \in DOMAIN entry.ops : Read(entry.ops[i])})
        IN  [i \in DOMAIN ops |-> [details |-> ops[i].details,
                                   endpoint |-> DiscoveredEndpoint(doc, entry, ops[i])]]
  IN  FlattenSeq([i \in DOMAIN doc.paths |-> Of(doc.paths[i])])

\* The first operation of each method and path.
Unseen(found) ==
  LET Key(op) == <<op.endpoint.method, op.endpoint.path>> IN
  Picked(found, Firsts([i \in DOMAIN found |-> Key(found[i])]))

\* from_url, from_file and from_content, then parse.  `hint`: an error mentions paths or
\* json, as the one for a document that is no object ("syntax" stands for it too), and as
\* the URL itself may; `crash`: an exception that nobody below the handler catches.
Parse(doc, url) ==
  LET nothing == [endpoints |-> <<>>, hint |-> TRUE, crash |-> FALSE] IN
  CASE doc.root = "unreadable" -> [nothing EXCEPT !.hint = url]
    [] doc.root \in {"syntax", "noPaths"} -> nothing
    [] doc.root = "empty"      -> [nothing EXCEPT !.hint = FALSE]
    [] doc.root = "object"     ->
         LET read == Operations(doc)
             kept == Unseen(read)
         IN  [endpoints |-> [i \in DOMAIN kept |-> kept[i].endpoint],
              hint |-> FALSE,
              crash |-> \E i \in DOMAIN kept : kept[i].details = "crash"]

-----------------------------------------------------------------------------
(* The tasks.                                                              *)

GenTask(kind, method, url, token, level) ==
  [kind |-> kind, method |-> method, url |-> url, token |-> token, level |-> level]

\* base_url without its slashes at the end, one slash, the path without its own.
TargetUrl(b, path) == UrlOf(b.authority, b.path \o path)
\* Mutant of SwapUrl: one slash too many.
SwapUrlDoubled(b, path) == [TargetUrl(b, path) EXCEPT !.form = "joint"]
\* base_url + path, as it is: a slash at the end of base_url stays.
SwapUrl(b, path) ==
  [TargetUrl(b, path) EXCEPT !.form = IF b.slash THEN "joint" ELSE "plain"]

CrawlerTasks(b, found) ==
  [i \in DOMAIN found |->
    GenTask("crawler", Method(found[i].method), TargetUrl(b, found[i].path), NoJwt, "P3")]

\* generate_jwt_tasks: every endpoint that needs authentication, with every token.
SwapTasks(b, found) ==
  LET guarded == Picked(found, {i \in DOMAIN found : found[i].auth})
      jwts    == SetToSeq(Jwts)
  IN  FlattenSeq([i \in DOMAIN guarded |-> [j \in DOMAIN jwts |->
        GenTask("jwt", Method(guarded[i].method), SwapUrl(b, guarded[i].path), jwts[j], "P2")]])

FuzzRequest(b, ep) ==
  [method |-> ep.method, path |-> TargetUrl(b, ep.path),
   headers |-> Only("Content-Type", "application/json"),
   body |-> IF ep.required THEN [dummy |-> Text("value")] ELSE <<>>]

\* What a mutation does not carry is not taken from the request: GET, and no URL.
FuzzTask(m) ==
  GenTask("fuzz", IF "method" \in m.carries THEN m.method ELSE Method("GET"), m.path, NoJwt, "P4")

FuzzTasks(b, found) ==
  FlattenSeq([i \in DOMAIN found |->
    LET made == Mutate(FuzzRequest(b, found[i]))
    IN  [j \in DOMAIN made |-> FuzzTask(made[j].mutation)]])

-----------------------------------------------------------------------------
(* The handler.                                                            *)

GenInit ==
  /\ source \in Sources
  /\ base \in Bases
  /\ stage = "scan"
  /\ probes = 0
  /\ endpoints = <<>>
  /\ fallback = FALSE
  /\ tasks = <<>>
  /\ reply = 0

Replies(code) == stage' = "end" /\ reply' = code

LookUpScan ==
  /\ stage = "scan"
  /\ \/ stage' = "load" /\ UNCHANGED reply
     \/ Replies(404)
  /\ UNCHANGED <<source, base, probes, endpoints, fallback, tasks>>

\* The URLs made of the source, and of its host if that is another.
Candidates == IF source.path = <<>> THEN 3 ELSE 6

\* Only a document that is no URL is refused.
NothingFound(hint) ==
  IF source.kind = "url"
  THEN stage' = "probe" /\ probes' = (IF hint THEN Candidates ELSE 0) /\ UNCHANGED reply
  ELSE Replies(400) /\ UNCHANGED probes

\* The first document.
LoadSpec ==
  /\ stage = "load"
  /\ \E doc \in Documents :
       LET parsed == Parse(doc, source.kind = "url" /\ source.json) IN
       /\ source.kind = "inline" => doc.root # "unreadable"
       /\ CASE parsed.crash             -> Replies(500) /\ UNCHANGED <<probes, endpoints>>
            [] ~parsed.crash /\ parsed.endpoints # <<>> ->
                 stage' = "crawl" /\ endpoints' = parsed.endpoints /\ UNCHANGED <<probes, reply>>
            [] ~parsed.crash /\ parsed.endpoints = <<>> ->
                 NothingFound(parsed.hint) /\ UNCHANGED endpoints
  /\ UNCHANGED <<source, base, fallback, tasks>>

\* One fallback URL; an exception goes on to the next.
Probe ==
  /\ stage = "probe" /\ probes > 0
  /\ \E doc \in Documents :
       LET parsed == Parse(doc, TRUE) IN
       IF parsed.endpoints # <<>> /\ ~parsed.crash
       THEN stage' = "crawl" /\ endpoints' = parsed.endpoints /\ UNCHANGED probes
       ELSE probes' = probes - 1 /\ UNCHANGED <<stage, endpoints>>
  /\ UNCHANGED <<source, base, fallback, tasks, reply>>

\* The source is the endpoint.
FallBack ==
  /\ stage = "probe" /\ probes = 0
  /\ stage' = "crawl"
  /\ fallback' = TRUE
  /\ endpoints' = <<[method |-> "GET", path |-> source.path, auth |-> FALSE,
                     required |-> FALSE, schema |-> FALSE]>>
  /\ UNCHANGED <<source, base, probes, tasks, reply>>

\* The fallback replaces base_url for the crawler tasks only.
CrawlBase ==
  IF fallback THEN [authority |-> source.authority, path |-> <<>>, slash |-> FALSE] ELSE base

Crawl ==
  /\ stage = "crawl"
  /\ tasks' = CrawlerTasks(CrawlBase, endpoints)
  /\ stage' = "swap"
  /\ UNCHANGED <<source, base, probes, endpoints, fallback, reply>>

Swap ==
  /\ stage = "swap"
  /\ tasks' = tasks \o SwapTasks(base, endpoints)
  /\ stage' = "fuzz"
  /\ UNCHANGED <<source, base, probes, endpoints, fallback, reply>>

\* The node process may fail: no mutations.
Fuzz ==
  /\ stage = "fuzz"
  /\ \/ tasks' = tasks \o FuzzTasks(base, endpoints)
     \/ UNCHANGED tasks
  /\ stage' = "submit"
  /\ UNCHANGED <<source, base, probes, endpoints, fallback, reply>>

\* submit_tasks finds the scan in its session; the scan may be gone when it commits.
\* There is always a task, so that the handler's last two answers are never given.
SubmitAll ==
  /\ stage = "submit"
  /\ \E code \in {202, 500} : Replies(code)
  /\ UNCHANGED <<source, base, probes, endpoints, fallback, tasks>>

GenNext == LookUpScan \/ LoadSpec \/ Probe \/ FallBack \/ Crawl \/ Swap \/ Fuzz \/ SubmitAll

GenSpec == GenInit /\ [][GenNext]_genVars
-----------------------------------------------------------------------------
(* Properties.                                                             *)

TasksOf(kind) == {tasks[i] : i \in {j \in DOMAIN tasks : tasks[j].kind = kind}}

\* The report compares the responses of one URL, letter by letter, and needs the request
\* without token and those with each token.  Three functions join base_url and path, each
\* in its way; they agree unless base_url ends with a slash.
SwapsMeetCrawler ==
  reply = 202 /\ ~base.slash =>
    \A i \in DOMAIN endpoints : endpoints[i].auth =>
      \E c \in TasksOf("crawler") :
        /\ c.method = Method(endpoints[i].method)
        /\ \A j \in Jwts : \E t \in TasksOf("jwt") :
             t.url = c.url /\ t.method = c.method /\ t.token = j

\* Hosts do not tell letters apart.
SameAuthority(a, b) == [i \in DOMAIN a |-> Upper(a[i])] = [i \in DOMAIN b |-> Upper(b[i])]

\* The digits that a number mutator looks for stand in the host or port, as a whole number
\* or in the middle of one; also if the path has no number, so that they are the host's own.
Astray(url, kinds) ==
  /\ Numbered(url, kinds) # {}
  /\ \E p \in ToSet(url.authority) :
       p.kind \in kinds /\ Offsets(p, LastNumber(url, kinds), kinds) # {}

\* Every request goes to the host and port that it is meant for: the base URL's, or the
\* source's if that is crawled as the only endpoint.  The exceptions are mutated tasks. One
\* that carries no URL, or one with all its slashes doubled, names no host, and nothing is
\* sent.  And as the mutations are made of whole URLs and replace the first copy of the
\* last number's digits, the request for /users/1 goes to other ports than 8010; it still
\* has the path of an endpoint whose number, or version, is found in the host or port.
StaysOnTarget ==
  \A i \in DOMAIN tasks : LET t == tasks[i] IN
    \/ SameAuthority(t.url.authority, IF t.kind = "crawler" THEN CrawlBase.authority
                                      ELSE base.authority)
    \/ t.kind = "fuzz" /\ t.url.authority = <<>>
    \/ /\ t.kind = "fuzz"
       /\ \E e \in DOMAIN endpoints, k \in {{"number", "version"}, {"version"}} :
            LET url == TargetUrl(base, endpoints[e].path)
            IN  Astray(url, k) /\ t.url.path = url.path

\* The engine drops a mutation only if it keeps one that sets the same parts to the same
\* values.  The exception of the code: a mutation that empties what it carries, as if it
\* carried nothing, is taken for a duplicate of any other such mutation.
MutationsSurvive ==
  stage = "fuzz" =>
    \A i \in DOMAIN endpoints :
      LET request == FuzzRequest(base, endpoints[i])
          kept    == Mutate(request)
      IN  \A m \in ToSet(AllMutations(request)) :
            \/ m = Mutation(m.carries, m.strategy)
            \/ \E k \in DOMAIN kept : [kept[k].mutation EXCEPT !.strategy = m.strategy] = m
=============================================================================
