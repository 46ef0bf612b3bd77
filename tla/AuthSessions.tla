---------------------------- MODULE AuthSessions ----------------------------
(***************************************************************************)
(* Accounts and tokens: registration, login, refresh with rotation,        *)
(* logout, the requests an access token opens, and the administrator that  *)
(* the startup of an API process may create.                               *)
(*                                                                         *)
(* Every request runs in a session of its own and every await on the       *)
(* database ends a step, so that a check may be old when the commit comes. *)
(* A token is named by the request that issued it: a pair has one access   *)
(* and one refresh token.                                                  *)
(*                                                                         *)
(* Abstracted: passwords (right or wrong is a choice), signatures, the     *)
(* expiry of tokens, which only refuses more, and is_active, which no code *)
(* sets to false.                                                          *)
(***************************************************************************)
EXTENDS Naturals, FiniteSets

CONSTANTS
  Request,       \* the requests, and the startups of API processes
  Email,         \* addresses
  NoEmail,       \* stands for "no address"
  NoToken        \* stands for "no token"

ASSUME NoneAssumption == NoEmail \notin Email

VARIABLES
  role,          \* the table users: role[e] is "none" without a row
  revoked,       \* the table revoked_tokens
  call,          \* each request: operation, argument, where it is, what it has read
  answer,        \* its answer; "none" while it runs
  owner,         \* whose tokens a request has issued
  before         \* history: the requests answered when a request began

authVars == <<role, revoked, call, answer, owner, before>>

Operation == {"register", "bootstrap", "login", "refresh", "logout", "me", "users"}
Token     == [by : Request, type : {"access", "refresh"}]
Pc        == {"new", "email", "first", "insert", "reread", "revoked", "user", "again",
              "revoke", "done"}
Roles     == {"admin", "user", "viewer"}
Status    == {"none", "200", "201", "401", "403", "409", "500", "504"}

Idle      == [op |-> "login", email |-> NoEmail, token |-> NoToken, pc |-> "new", first |-> FALSE]

AuthInit ==
  /\ role = [e \in Email |-> "none"]
  /\ revoked = {}
  /\ call = [r \in Request |-> Idle]
  /\ answer = [r \in Request |-> "none"]
  /\ owner = [r \in Request |-> NoEmail]
  /\ before = [r \in Request |-> {}]

-----------------------------------------------------------------------------

At(r, op, pc)   == call[r].op \in op /\ call[r].pc = pc
Goto(r, pc)     == call' = [call EXCEPT ![r].pc = pc]
NobodyThere     == \A e \in Email : role[e] = "none"
Issued(t)       == owner[t.by] # NoEmail
Subject(r)      == owner[call[r].token.by]

\* The client gets its answer, unless the middleware has answered 504 already.
Answers(r, status) ==
  /\ answer' = [answer EXCEPT ![r] = IF @ = "none" THEN status ELSE @]
  /\ Goto(r, "done")

\* create_access_token and create_refresh_token, in the answer that carries them.
Issues(r, status, email) ==
  /\ Answers(r, status)
  /\ owner' = [owner EXCEPT ![r] = IF answer[r] = "none" THEN email ELSE @]

Fails(r, status) == Answers(r, status) /\ UNCHANGED owner

Continues(r, pc) == Goto(r, pc) /\ UNCHANGED <<answer, owner>>

\* A client, or an operator, sends a request; a token it presents has been issued.
Begin(r) ==
  /\ call[r].pc = "new"
  /\ before' = [before EXCEPT ![r] = {q \in Request : answer[q] # "none"}]
  /\ \/ \E op \in {"register", "bootstrap", "login"}, e \in Email :
          call' = [call EXCEPT ![r] = [Idle EXCEPT !.op = op, !.email = e, !.pc = "email"]]
     \/ \E op \in {"refresh", "logout", "me", "users"}, t \in Token :
          /\ Issued(t)
          /\ call' = [call EXCEPT ![r] = [Idle EXCEPT !.op = op, !.token = t,
                        !.pc = IF op = "logout" THEN "again" ELSE "revoked"]]
  /\ UNCHANGED <<role, revoked, answer, owner>>

\* login: the account and its password are right, or they are not.
LogIn(r) == (role[call[r].email] # "none" /\ Issues(r, "200", call[r].email)) \/ Fails(r, "401")

\* _get_user_by_email: the account must not exist, or must exist with this password.
FindEmail(r) ==
  /\ At(r, {"register", "bootstrap", "login"}, "email")
  /\ LET there == role[call[r].email] # "none" IN
     CASE call[r].op = "register"  -> IF there THEN Fails(r, "409") ELSE Continues(r, "first")
       [] call[r].op = "bootstrap" -> IF there THEN Fails(r, "200") ELSE Continues(r, "insert")
       [] call[r].op = "login"     -> LogIn(r)
  /\ UNCHANGED <<role, revoked, before>>

\* select(User): is this the first account?
LookForFirst(r) ==
  /\ At(r, {"register"}, "first")
  /\ call' = [call EXCEPT ![r].first = NobodyThere, ![r].pc = "insert"]
  /\ UNCHANGED <<role, revoked, answer, owner, before>>

\* Mutant of RoleFor: a requested role is honoured for everyone.
RoleForAnyone(r) == Roles

\* Only the first account may ask for a role; without a valid one it is admin.
RoleFor(r) ==
  IF call[r].op = "bootstrap" THEN {"admin"}
  ELSE IF call[r].first THEN Roles ELSE {"user"}

\* The commit; the unique index on email may refuse it (register: 500, startup: logged).
Insert(r) ==
  /\ At(r, {"register", "bootstrap"}, "insert")
  /\ IF role[call[r].email] # "none"
       THEN Fails(r, IF call[r].op = "register" THEN "500" ELSE "200") /\ UNCHANGED role
       ELSE /\ \E new \in RoleFor(r) : role' = [role EXCEPT ![call[r].email] = new]
            /\ IF call[r].op = "register" THEN Continues(r, "reread") ELSE Fails(r, "201")
  /\ UNCHANGED <<revoked, before>>

\* db.refresh(user), then the pair.
Reread(r) ==
  /\ At(r, {"register"}, "reread")
  /\ Issues(r, "201", call[r].email)
  /\ UNCHANGED <<role, revoked, before>>

TypeFor(op) == IF op = "refresh" THEN "refresh" ELSE "access"

\* Mutant of Refused: the table is not looked at.
RefusedIfWrongType(r) == call[r].token.type # TypeFor(call[r].op)

\* decode_token, the type claim and is_token_revoked.
Refused(r) == \/ call[r].token.type # TypeFor(call[r].op)
              \/ call[r].token \in revoked

CheckRevoked(r) ==
  /\ At(r, {"refresh", "me", "users"}, "revoked")
  /\ IF Refused(r) THEN Fails(r, "401") ELSE Continues(r, "user")
  /\ UNCHANGED <<role, revoked, before>>

\* me serves every account, list_users an administrator.
Serve(r) ==
  Fails(r, IF call[r].op = "me" \/ role[Subject(r)] = "admin" THEN "200" ELSE "403")

\* db.get(User); the role that counts is the row's, not the token's.
GetUser(r) ==
  /\ At(r, {"refresh", "me", "users"}, "user")
  /\ IF role[Subject(r)] = "none" THEN Fails(r, "401")
     ELSE IF call[r].op = "refresh" THEN Continues(r, "again") ELSE Serve(r)
  /\ UNCHANGED <<role, revoked, before>>

\* What refresh and logout answer once the token is in the table.
Rotated(r) == IF call[r].op = "refresh" THEN Issues(r, "200", Subject(r)) ELSE Fails(r, "200")

\* revoke_token looks a second time: it returns if the token is in the table by now,
\* and its caller goes on as if it had revoked it.
LookAgain(r) ==
  /\ At(r, {"refresh", "logout"}, "again")
  /\ IF call[r].token \in revoked THEN Rotated(r) ELSE Continues(r, "revoke")
  /\ UNCHANGED <<role, revoked, before>>

\* The commit; the primary key may refuse it.
Revoke(r) ==
  /\ At(r, {"refresh", "logout"}, "revoke")
  /\ IF call[r].token \in revoked
       THEN Fails(r, "500") /\ UNCHANGED revoked
       ELSE revoked' = revoked \cup {call[r].token} /\ Rotated(r)
  /\ UNCHANGED <<role, before>>

\* request_timeout_middleware answers 504; the handler may be cut off or run on.
TimeOut(r) ==
  /\ call[r].pc \notin {"new", "done"}
  /\ call[r].op # "bootstrap"
  /\ answer[r] = "none"
  /\ answer' = [answer EXCEPT ![r] = "504"]
  /\ \/ Goto(r, "done")
     \/ UNCHANGED call
  /\ UNCHANGED <<role, revoked, owner, before>>

AuthNext ==
  \E r \in Request :
    \/ Begin(r) \/ FindEmail(r) \/ LookForFirst(r) \/ Insert(r) \/ Reread(r)
    \/ CheckRevoked(r) \/ GetUser(r) \/ LookAgain(r) \/ Revoke(r)
    \/ TimeOut(r)

AuthSpec == AuthInit /\ [][AuthNext]_authVars
-----------------------------------------------------------------------------
(* Properties.                                                             *)

\* Every variable has its type; a token in the table has been issued.
AuthTypeOK ==
  /\ role \in [Email -> Roles \cup {"none"}]
  /\ revoked \subseteq {t \in Token : Issued(t)}
  /\ \A r \in Request : call[r].op \in Operation /\ call[r].pc \in Pc
  /\ answer \in [Request -> Status]
  /\ owner \in [Request -> Email \cup {NoEmail}]
  /\ before \in [Request -> SUBSET Request]

\* r was over when q began.
Precedes(r, q) == r \in before[q]

\* Who registers after an account exists never becomes administrator, whatever role it
\* asks for and however requests overlap: the administrators are those of the startup
\* and those whose registration began before any registration had been answered.
\* (Two first registrations that overlap may both become administrator.)
LateRegistrationIsUser ==
  \A r, q \in Request :
    /\ call[r].op = "register" /\ answer[r] = "201"
    /\ call[q].op \in {"register", "bootstrap"} /\ answer[q] = "201"
    /\ Precedes(q, r)
    => role[call[r].email] = "user"

\* A token that one request has used up, by rotation or logout, opens nothing for a
\* request that begins later; only requests that overlap can both succeed with one
\* refresh token, because revoke_token does not tell its caller that another was
\* faster.
UsedUpStaysUsedUp ==
  \A r, q \in Request :
    /\ call[r].op \in {"refresh", "logout"} /\ answer[r] = "200"
    /\ call[q].op \in {"refresh", "me", "users"} /\ answer[q] = "200"
    /\ call[r].token = call[q].token
    => ~Precedes(r, q)
=============================================================================
