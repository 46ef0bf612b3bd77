--------------------------- MODULE MCScanAnalysis ---------------------------
(***************************************************************************)
(* ResultCollector and ScanViews side by side.  They share no variable and *)
(* no property relates them, so a behaviour moves one of the two only.     *)
(***************************************************************************)
EXTENDS ResultCollector, ScanViews

CONSTANTS t1, t2, u1, u2, p1, b1, b2, alice, bob, none

Bodies    == {b1, b2}
\* SequenceMatcher is not symmetric; 64996 is below the threshold but rounds to it.
SomeRatio == [p \in Bodies \X Bodies |->
                CASE p[1] = p[2] -> 100000 [] p = <<b1, b2>> -> 64996 [] OTHER -> 65000]
SomeIds    == [b \in Bodies |-> IF b = b1 THEN {"id"} ELSE {}]
SomeFields == [b \in Bodies |-> IF b = b1 THEN {"email", "name"} ELSE {"name", "token"}]

Responses ==
  {[endpoint |-> u1, status |-> x[1], body |-> x[2], user |-> w[1], role |-> w[2],
    tenant |-> NoTenant, tampered |-> FALSE] :
     x \in {<<200, b1>>, <<200, b2>>, <<403, b1>>},
     w \in {<<alice, "admin">>, <<bob, "admin">>, <<bob, "user">>}}

Token(who, role) == [user |-> who, role |-> role]
Ask(url, token)  == [url |-> url, path |-> p1, token |-> token]
SomeAsking ==
  [t \in Task |-> IF t = t1
     THEN {Ask(u1, Token(alice, "admin")), Ask(u1, Token(none, "admin"))}
     ELSE {Ask(u1, Token(bob, "user")), Ask(u1, NoToken), Ask(u2, NoToken)}]
SomeAnswering ==
  {[status |-> 200, body |-> b1, error |-> NoCode], [status |-> 403, body |-> b2, error |-> 429]}

VARIABLE part    \* which of the two modules moves

vars == <<part, collectorVars, viewVars>>

Init ==
  /\ CollectorInit /\ ViewsInit
  /\ part \in {"collector", "views"}
  /\ part = "collector" => view.kind = "list"
  /\ content[t2].status = 200
  /\ view.kind # "swaps" =>
       /\ asked = [t \in Task |-> Ask(u1, IF t = t1 THEN Token(alice, "admin") ELSE NoToken)]
       /\ content[t1].status = 200

Next ==
  \/ part = "collector" /\ CollectorNext /\ UNCHANGED <<part, viewVars>>
  \/ part = "views"     /\ ViewsNext     /\ UNCHANGED <<part, collectorVars>>

Spec == Init /\ [][Next]_vars
=============================================================================
