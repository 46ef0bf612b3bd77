-------------------------------- MODULE MCApi --------------------------------
(***************************************************************************)
(* AuthSessions, RequestWindow, EventStream and TaskGeneration side by     *)
(* side.  They share no variable and no property relates them, so a        *)
(* behaviour moves one of the four only.                                   *)
(***************************************************************************)
EXTENDS AuthSessions, RequestWindow, EventStream, TaskGeneration

CONSTANTS jwtAdmin, jwtUser

Numbers == ("7" :> 7)
Admin   == ("isAdmin" :> [type |-> "boolean", value |-> "true"])
Suffix1 == <<".json", ".bak">>
Suffix2 == <<";admin", "?debug">>
Suffix3 == <<"/../", "/../admin">>
Injected == <<"' OR", "null", "undefined", "{}">>
Nulls    == <<"", "null", "undefined", "0">>
Tokens   == <<"Bearer fake", "">>
Levels   == <<"admin", "root">>
Mimes    == <<"text/xml", "text/plain">>
Sender   == <<"X-Forwarded-For", "X-Real-IP">>

\* host:8010, in whose port the digits of an id may stand, and v2.host, whose version the
\* path may have too.
Port8010 == <<Word("host"), Digits(<<8, 0, 1, 0>>)>>
VHost    == <<Version(<<2>>), Word("host")>>
SomeBases ==
  {[authority |-> Port8010, path |-> <<>>, slash |-> FALSE],
   [authority |-> Port8010, path |-> <<Word("api")>>, slash |-> TRUE],
   [authority |-> VHost, path |-> <<>>, slash |-> FALSE]}
SomeSources ==
  {[kind |-> "url", authority |-> <<Word("docs")>>, path |-> p, json |-> j] :
     p \in {<<>>, <<Word("spec"), Digits(<<3>>)>>}, j \in BOOLEAN}
  \cup {[kind |-> k, authority |-> <<>>, path |-> <<>>, json |-> FALSE] : k \in {"inline", "file"}}

Body(required, schema) == [required |-> required, schema |-> schema]
Op(method, details, security, requestBody, bodyParam) ==
  [method |-> method, details |-> details, security |-> security,
   requestBody |-> requestBody, bodyParam |-> bodyParam]
Entry(pieces, spelled, ops) == [pieces |-> pieces, spelled |-> spelled, ops |-> ops]

Users == <<Version(<<2>>), Word("users"), Digits(<<7>>)>>
First == <<Version(<<8, 0>>), Word("users"), Digits(<<1>>)>>
Doc(root, security, paths) == [root |-> root, security |-> security, paths |-> paths]
SomeDocuments ==
  {Doc(root, "absent", <<>>) : root \in {"unreadable", "syntax", "noPaths", "empty", "object"}}
  \cup
  {Doc("object", "listed",
       <<Entry(Users, "plain",
               <<Op("GET", "good", "absent", NoBodyObject, NoBodyObject),
                 Op("POST", "good", "listed", Body(TRUE, FALSE), Body(TRUE, TRUE)),
                 Op("FETCH", "good", "absent", NoBodyObject, NoBodyObject)>>),
         Entry(Users, "trailing", <<Op("GET", "good", "empty", NoBodyObject, NoBodyObject)>>),
         Entry(First, "plain", <<Op("DELETE", "good", "listed", NoBodyObject, NoBodyObject)>>)>>),
   Doc("object", "absent",
       <<Entry(<<Word("host"), Word("health")>>, "plain",
               <<Op("PUT", "good", "empty", Body(TRUE, TRUE), NoBodyObject),
                 Op("HEAD", "none", "absent", NoBodyObject, NoBodyObject)>>)>>),
   Doc("object", "absent",
       <<Entry(Users, "double", <<Op("GET", "crash", "absent", NoBodyObject, NoBodyObject)>>)>>)}

VARIABLE part    \* which of the four moves

vars == <<part, authVars, windowVars, streamVars, genVars>>

Init ==
  /\ AuthInit /\ WindowInit /\ StreamInit /\ GenInit
  /\ part \in {"auth", "window", "stream", "generation"}
  /\ part # "generation" => /\ source = CHOOSE s \in Sources : TRUE
                            /\ base = CHOOSE b \in Bases : TRUE

Next ==
  \/ part = "auth"       /\ AuthNext   /\ UNCHANGED <<part, windowVars, streamVars, genVars>>
  \/ part = "window"     /\ WindowNext /\ UNCHANGED <<part, authVars, streamVars, genVars>>
  \/ part = "stream"     /\ StreamNext /\ UNCHANGED <<part, authVars, windowVars, genVars>>
  \/ part = "generation" /\ GenNext    /\ UNCHANGED <<part, authVars, windowVars, streamVars>>

Spec == Init /\ [][Next]_vars

Symmetric == Permutations(Request) \cup Permutations(Writer)
=============================================================================
