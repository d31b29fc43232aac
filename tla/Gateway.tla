------------------------------ MODULE Gateway ------------------------------
(***************************************************************************)
(* The middleware in front of the API: auth/__init__.py                    *)
(* (RateLimitMiddleware, APIKeyAuthMiddleware, JWTAuthMiddleware,          *)
(* require_role) and api/auth.py (APIKeyMiddleware).  A middleware runs    *)
(* without an await up to call_next, so that each is one step of a         *)
(* request; the steps of different requests interleave, and time passes.   *)
(*                                                                         *)
(* create_app installs APIKeyMiddleware alone; an application that uses    *)
(* the others puts them in an order of its own, Stack.  A refusal's status *)
(* code is left out.                                                       *)
(***************************************************************************)
EXTENDS Integers, Sequences, FiniteSets

CONSTANTS
  Requests,     \* requests, each handled once
  Clients,      \* client addresses
  Paths,        \* the paths they ask for, some of those named below
  Keys,         \* API keys that are registered
  Tokens,       \* JWTs, each issued at most once
  Nobody,       \* no credential, or no user
  Unknown,      \* a credential nobody issued
  Roles,        \* the roles of a key's user, or those a token was issued with
  Needs,        \* the role an endpoint requires, as a set
  Stack,        \* the order of the two middlewares, outermost first
  Auths,        \* the kinds of authentication, one of which is installed
  Limit,        \* requests_per_minute
  Window,       \* the minute
  Life,         \* expiration_minutes
  MaxTime       \* bound on the clock

ASSUME GatewayAssumption ==
  /\ Limit \in Nat /\ Window \in Nat \ {0} /\ Life \in Nat /\ MaxTime \in Nat
  /\ Nobody \notin Keys \cup Tokens /\ Unknown \notin Keys \cup Tokens
  /\ Stack \in {<<"limit", "auth">>, <<"auth", "limit">>}
  /\ Auths \subseteq {"key", "jwt", "env", "off"}

VARIABLES
  auth,       \* the authentication installed
  now,        \* time.time()
  expires,    \* the exp of each token, 0 before it is issued
  pc,         \* where a request is: new, inside, admitted or refused at the end
  ahead,      \* the middlewares it has still to pass
  req,        \* who asks what with which credential
  user,       \* request.state.user
  checked,    \* when its credential was accepted
  seen,       \* the keys of _requests
  log,        \* _requests: per client, the requests recorded
  stamp,      \* the time recorded for a request, or at which it was refused
  counted     \* the requests the limiter has let through and recorded, ever

vars == <<auth, now, expires, pc, ahead, req, user, checked, seen, log, stamp, counted>>

LimiterExempt == {"health", "metrics"}
AuthExempt ==
  CASE auth = "key" -> {"health", "docs"}
    [] auth = "jwt" -> {"health", "docs", "login"}
    [] auth = "env" -> {"health", "docs", "dashboard"}
    [] auth = "off" -> Paths

Init ==
  /\ auth \in Auths
  /\ now = 1
  /\ expires = [t \in Tokens |-> 0]
  /\ pc = [r \in Requests |-> "new"]
  /\ ahead = [r \in Requests |-> Stack]
  /\ req = [r \in Requests |-> [client |-> Nobody, path |-> Nobody, cred |-> Nobody]]
  /\ user = [r \in Requests |-> Nobody]
  /\ checked = [r \in Requests |-> 0]
  /\ seen = {}
  /\ log = [c \in Clients |-> {}]
  /\ stamp = [r \in Requests |-> 0]
  /\ counted = {}

Tick ==
  /\ now < MaxTime
  /\ now' = now + 1
  /\ UNCHANGED <<auth, expires, pc, ahead, req, user, checked, seen, log, stamp, counted>>

\* generate_token, called by the application's login.
GenerateToken(t) ==
  /\ auth = "jwt" /\ expires[t] = 0
  /\ expires' = [expires EXCEPT ![t] = now + Life]
  /\ UNCHANGED <<auth, now, pc, ahead, req, user, checked, seen, log, stamp, counted>>

\* The credentials a request can carry under the installed authentication.
Credentials ==
  {Nobody, Unknown} \cup IF auth = "jwt" THEN {t \in Tokens : expires[t] # 0} ELSE Keys

Arrive(r) ==
  /\ pc[r] = "new"
  /\ \E c \in Clients, p \in Paths, k \in Credentials :
       req' = [req EXCEPT ![r] = [client |-> c, path |-> p, cred |-> k]]
  /\ pc' = [pc EXCEPT ![r] = "inside"]
  /\ UNCHANGED <<auth, now, expires, ahead, user, checked, seen, log, stamp, counted>>

\* The request's next middleware is the one named,
At(r, name) == pc[r] = "inside" /\ ahead[r] # <<>> /\ Head(ahead[r]) = name

\* ... which awaits call_next.
Pass(r) == ahead' = [ahead EXCEPT ![r] = Tail(@)] /\ UNCHANGED pc

Refuse(r) == pc' = [pc EXCEPT ![r] = "refused"] /\ UNCHANGED ahead

-----------------------------------------------------------------------------
(* RateLimitMiddleware.dispatch *)

LimiterSkips(r) ==
  /\ At(r, "limit") /\ req[r].path \in LimiterExempt
  /\ Pass(r)
  /\ UNCHANGED <<auth, now, expires, req, user, checked, seen, log, stamp, counted>>

\* The client's list once the old entries are cleaned.
Recent(c) == {q \in log[c] : now - stamp[q] < Window}

\* A client seen for the first time is not checked.
Exceeded(c) == c \in seen /\ Cardinality(Recent(c)) >= Limit

\* Mutation: a refused request is recorded as well.
LimiterRefuses_Recorded(r) ==
  LET c == req[r].client
  IN /\ At(r, "limit") /\ req[r].path \notin LimiterExempt /\ Exceeded(c)
     /\ log' = [log EXCEPT ![c] = Recent(c) \cup {r}]
     /\ stamp' = [stamp EXCEPT ![r] = now]
     /\ Refuse(r)
     /\ UNCHANGED <<auth, now, expires, req, user, checked, seen, counted>>

LimiterRefuses(r) ==
  LET c == req[r].client
  IN /\ At(r, "limit") /\ req[r].path \notin LimiterExempt /\ Exceeded(c)
     /\ log' = [log EXCEPT ![c] = Recent(c)]
     /\ stamp' = [stamp EXCEPT ![r] = now]
     /\ Refuse(r)
     /\ UNCHANGED <<auth, now, expires, req, user, checked, seen, counted>>

\* Mutation: the request is to be recorded when call_next has returned.
LimiterAdmits_RecordsLater(r) ==
  LET c == req[r].client
  IN /\ At(r, "limit") /\ req[r].path \notin LimiterExempt /\ ~Exceeded(c)
     /\ seen' = seen \cup {c}
     /\ log' = [log EXCEPT ![c] = Recent(c) \cup
                  {q \in counted : req[q].client = c /\ pc[q] # "inside" /\ now - stamp[q] < Window}]
     /\ stamp' = [stamp EXCEPT ![r] = now]
     /\ counted' = counted \cup {r}
     /\ Pass(r)
     /\ UNCHANGED <<auth, now, expires, req, user, checked>>

LimiterAdmits(r) ==
  LET c == req[r].client
  IN /\ At(r, "limit") /\ req[r].path \notin LimiterExempt /\ ~Exceeded(c)
     /\ seen' = seen \cup {c}
     /\ log' = [log EXCEPT ![c] = Recent(c) \cup {r}]
     /\ stamp' = [stamp EXCEPT ![r] = now]
     /\ counted' = counted \cup {r}
     /\ Pass(r)
     /\ UNCHANGED <<auth, now, expires, req, user, checked>>

-----------------------------------------------------------------------------
(* The authentication middlewares *)

AuthSkips(r) ==
  /\ At(r, "auth") /\ req[r].path \in AuthExempt
  /\ Pass(r)
  /\ UNCHANGED <<auth, now, expires, req, user, checked, seen, log, stamp, counted>>

\* APIKeyAuth.validate gives the user registered for the key.
KeyIsKnown(k) == k \in Keys

\* Mutation: any token that was issued is good.
TokenIsValid_ForEver(t) == t \in Tokens

\* JWTAuth.validate: signed here, and not expired.
TokenIsValid(t) == t \in Tokens /\ now < expires[t]

Accepted(k) ==
  CASE auth = "jwt" -> TokenIsValid(k)
    [] auth \in {"key", "env"} -> KeyIsKnown(k)
    [] auth = "off" -> TRUE

\* No credential, or one that does not validate.
AuthRefuses(r) ==
  /\ At(r, "auth") /\ req[r].path \notin AuthExempt /\ ~Accepted(req[r].cred)
  /\ Refuse(r)
  /\ UNCHANGED <<auth, now, expires, req, user, checked, seen, log, stamp, counted>>

\* APIKeyAuthMiddleware and JWTAuthMiddleware attach the user to the request;
\* APIKeyMiddleware compares the key and attaches nobody.
AuthAccepts(r) ==
  /\ At(r, "auth") /\ req[r].path \notin AuthExempt /\ Accepted(req[r].cred)
  /\ user' = [user EXCEPT ![r] = IF auth = "env" THEN Nobody ELSE req[r].cred]
  /\ checked' = [checked EXCEPT ![r] = now]
  /\ Pass(r)
  /\ UNCHANGED <<auth, now, expires, req, seen, log, stamp, counted>>

-----------------------------------------------------------------------------
(* The endpoint, behind require_role when it needs a role *)

MayHandle(r) ==
  \/ Needs[req[r].path] = {}
  \/ user[r] # Nobody /\ Needs[req[r].path] \subseteq Roles[user[r]]

Handle(r) ==
  /\ pc[r] = "inside" /\ ahead[r] = <<>> /\ MayHandle(r)
  /\ pc' = [pc EXCEPT ![r] = "handled"]
  /\ UNCHANGED <<auth, now, expires, ahead, req, user, checked, seen, log, stamp, counted>>

RequireRoleRefuses(r) ==
  /\ pc[r] = "inside" /\ ahead[r] = <<>> /\ ~MayHandle(r)
  /\ Refuse(r)
  /\ UNCHANGED <<auth, now, expires, req, user, checked, seen, log, stamp, counted>>

Next ==
  \/ Tick
  \/ \E t \in Tokens : GenerateToken(t)
  \/ \E r \in Requests :
       \/ Arrive(r)
       \/ LimiterSkips(r) \/ LimiterRefuses(r) \/ LimiterAdmits(r)
       \/ AuthSkips(r) \/ AuthRefuses(r) \/ AuthAccepts(r)
       \/ Handle(r) \/ RequireRoleRefuses(r)

Spec == Init /\ [][Next]_vars

-----------------------------------------------------------------------------
(* Properties *)

\* The requests of r's client that were let through in the window ending when r
\* came.
WindowOf(r) ==
  {q \in counted : /\ req[q].client = req[r].client
                   /\ stamp[q] <= stamp[r] /\ stamp[r] - stamp[q] < Window}

\* A limit of 0 still lets the first request of a client through.
Allowed == IF Limit = 0 THEN 1 ELSE Limit

\* In no window are more requests of a client let through than the limit,
\* although the list is only cleaned when the client asks again and requests
\* overlap (RateLimitMiddleware.dispatch).
WindowBound == \A r \in counted : Cardinality(WindowOf(r)) <= Allowed

\* The limiter refuses a request only when as many as the limit allows were let
\* through in the window: neither refusals nor other clients count.
RefusedWhenFull ==
  \A r \in Requests : pc[r] = "refused" /\ ahead[r] # <<>> /\ Head(ahead[r]) = "limit" =>
    Cardinality(WindowOf(r)) >= Limit

\* What an endpoint handles has passed the authentication with a credential that
\* was good when it was checked, however long ago that is, unless the path is
\* exempt; and who reaches an endpoint that needs a role holds it.
HandledIsAuthorized ==
  \A r \in Requests : pc[r] = "handled" =>
    /\ req[r].path \notin AuthExempt /\ auth = "jwt" =>
         req[r].cred \in Tokens /\ checked[r] < expires[req[r].cred]
    /\ req[r].path \notin AuthExempt /\ auth \in {"key", "env"} => req[r].cred \in Keys
    /\ Needs[req[r].path] # {} =>
         user[r] = req[r].cred /\ Needs[req[r].path] \subseteq Roles[req[r].cred]
=============================================================================
