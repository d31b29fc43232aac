--------------------------- MODULE GatewayProofs ---------------------------
(***************************************************************************)
(* Theorems about Gateway, for any number of requests, clients, keys and   *)
(* tokens, any limit, and both orders of the middlewares.                  *)
(***************************************************************************)
EXTENDS Gateway, FiniteSetTheorems, TLAPS

Suffixes == {<<"limit", "auth">>, <<"auth", "limit">>, <<"limit">>, <<"auth">>, <<>>}

Typed ==
  /\ now \in Nat /\ auth \in {"key", "jwt", "env", "off"}
  /\ stamp \in [Requests -> Nat] /\ checked \in [Requests -> Nat]
  /\ expires \in [Tokens -> Nat]
  /\ counted \subseteq Requests /\ log \in [Clients -> SUBSET Requests]
  /\ pc \in [Requests -> {"new", "inside", "handled", "refused"}]
  /\ ahead \in [Requests -> Suffixes]
  /\ req = [r \in Requests |-> req[r]] /\ user = [r \in Requests |-> user[r]]
  /\ \A r \in Requests : IF pc[r] = "new" THEN ahead[r] = Stack
                         ELSE req[r].client \in Clients

\* What was let through is recorded under its client as long as it is in the
\* window, and nothing else is.
Recorded ==
  /\ IsFiniteSet(counted)
  /\ \A q \in counted : /\ pc[q] # "new" /\ ahead[q] \in {<<"auth">>, <<>>}
                        /\ stamp[q] <= now /\ req[q].client \in seen
                        /\ now - stamp[q] < Window => q \in log[req[q].client]
  /\ \A c \in Clients : \A q \in log[c] : q \in counted /\ req[q].client = c

\* What is known of the credential of a request that has passed.
CredentialGood(r) ==
  /\ req[r].path \notin AuthExempt /\ auth = "jwt" =>
       req[r].cred \in Tokens /\ checked[r] < expires[req[r].cred]
  /\ req[r].path \notin AuthExempt /\ auth \in {"key", "env"} => req[r].cred \in Keys

\* A user is attached to a request that has passed the authentication.
Cleared ==
  /\ \A r \in Requests : user[r] # Nobody => pc[r] # "new" /\ user[r] = req[r].cred
  /\ \A r \in Requests : pc[r] # "new" /\ ahead[r] \in {<<"limit">>, <<>>} => CredentialGood(r)
  /\ \A r \in Requests : pc[r] = "handled" =>
       /\ ahead[r] = <<>>
       /\ Needs[req[r].path] # {} =>
            user[r] # Nobody /\ Needs[req[r].path] \subseteq Roles[user[r]]

\* The refused have passed no limiter.
Refused ==
  \A r \in Requests : pc[r] = "refused" /\ ahead[r] # <<>> /\ Head(ahead[r]) = "limit" =>
    stamp[r] <= now

IInv == Typed /\ Recorded /\ Cleared /\ WindowBound /\ Refused /\ RefusedWhenFull

\* A request leaves a middleware with the next ones ahead of it.
LEMMA Stages ==
  ASSUME NEW s \in Suffixes, s # <<>>
  PROVE  /\ Head(s) = "limit" => s \in {<<"limit", "auth">>, <<"limit">>} /\ Tail(s) \in {<<"auth">>, <<>>}
         /\ Head(s) = "auth" => s \in {<<"auth", "limit">>, <<"auth">>} /\ Tail(s) \in {<<"limit">>, <<>>}
         /\ Tail(s) \in Suffixes
<1>1. s \in {<<"limit", "auth">>, <<"auth", "limit">>, <<"limit">>, <<"auth">>}
  BY DEF Suffixes
<1>2. CASE s = <<"limit", "auth">>
  BY <1>2 DEF Suffixes
<1>3. CASE s = <<"auth", "limit">>
  BY <1>3 DEF Suffixes
<1>4. CASE s = <<"limit">>
  BY <1>4 DEF Suffixes
<1>5. CASE s = <<"auth">>
  BY <1>5 DEF Suffixes
<1> QED
  BY <1>1, <1>2, <1>3, <1>4, <1>5

LEMMA SuffixesDiffer ==
  /\ <<"limit", "auth">> \notin {<<"auth">>, <<>>, <<"limit">>}
  /\ <<"auth", "limit">> \notin {<<"limit">>, <<>>, <<"auth">>}
  /\ <<"limit">> # <<"auth">> /\ <<"limit">> # <<>> /\ <<"auth">> # <<>>
<1>1. Len(<<"limit", "auth">>) = 2 /\ Len(<<"auth", "limit">>) = 2 /\ Len(<<>>) = 0
      /\ Len(<<"limit">>) = 1 /\ Len(<<"auth">>) = 1
  OBVIOUS
<1>2. <<"limit">>[1] # <<"auth">>[1]
  OBVIOUS
<1> QED
  BY <1>1, <1>2

\* A step that leaves the limiter's record alone keeps what is known of it.
LEMMA LimiterUntouched ==
  ASSUME Typed, Recorded, WindowBound, Refused, RefusedWhenFull,
         UNCHANGED <<seen, log, stamp, counted>>,
         now' \in Nat, now <= now',
         \A r \in Requests : pc[r] # "new" => pc'[r] # "new" /\ req'[r] = req[r],
         \A r \in Requests : ahead[r] \in {<<"auth">>, <<>>} => ahead'[r] \in {<<"auth">>, <<>>},
         \A r \in Requests :
           pc'[r] = "refused" /\ ahead'[r] # <<>> /\ Head(ahead'[r]) = "limit" =>
             pc[r] = "refused" /\ ahead[r] = ahead'[r]
  PROVE  (Recorded /\ WindowBound /\ Refused /\ RefusedWhenFull)'
<1>1. \A q \in counted : req'[q] = req[q] /\ q \in Requests
  BY DEF Recorded, Typed
<1>2. Window \in Nat
  BY GatewayAssumption DEF GatewayAssumption
<1>3. Recorded'
  <2>1. ASSUME NEW q \in counted
        PROVE  stamp[q] <= now' /\ (now' - stamp[q] < Window => now - stamp[q] < Window)
    <3>1. stamp[q] \in Nat /\ now \in Nat /\ now' \in Nat /\ stamp[q] <= now /\ now <= now'
      BY <1>1 DEF Typed, Recorded
    <3> QED
      BY <3>1, <1>2
  <2>2. \A q \in counted : /\ pc'[q] # "new" /\ ahead'[q] \in {<<"auth">>, <<>>}
                           /\ req'[q].client \in seen
    BY <1>1 DEF Recorded
  <2>3. \A q \in counted : now' - stamp[q] < Window => q \in log[req'[q].client]
    BY <1>1, <2>1 DEF Recorded
  <2>4. \A c \in Clients : \A q \in log[c] : q \in counted /\ req'[q].client = c
    BY <1>1 DEF Recorded
  <2>5. IsFiniteSet(counted)
    BY DEF Recorded
  <2> QED
    BY <2>1, <2>2, <2>3, <2>4, <2>5 DEF Recorded
<1>4. ASSUME NEW r \in Requests, pc[r] # "new" PROVE WindowOf(r)' = WindowOf(r)
  BY <1>1, <1>4 DEF WindowOf
<1>5. WindowBound'
  <2> SUFFICES ASSUME NEW r \in counted' PROVE (Cardinality(WindowOf(r)) <= Allowed)'
    BY DEF WindowBound
  <2>1. r \in counted /\ r \in Requests /\ pc[r] # "new"
    BY DEF Typed, Recorded
  <2>2. WindowOf(r)' = WindowOf(r)
    BY <2>1, <1>4
  <2>3. Cardinality(WindowOf(r)) <= Allowed
    BY <2>1 DEF WindowBound
  <2> QED
    BY <2>2, <2>3 DEF Allowed
<1>6. ASSUME NEW r \in Requests, pc'[r] = "refused", ahead'[r] # <<>>, Head(ahead'[r]) = "limit"
      PROVE  stamp'[r] <= now' /\ (Cardinality(WindowOf(r)) >= Limit)'
  <2>1. pc[r] = "refused" /\ ahead[r] # <<>> /\ Head(ahead[r]) = "limit"
    BY <1>6
  <2>2. WindowOf(r)' = WindowOf(r)
    BY <2>1, <1>4
  <2>3. stamp[r] <= now /\ Cardinality(WindowOf(r)) >= Limit
    BY <2>1 DEF Refused, RefusedWhenFull
  <2> QED
    BY <2>2, <2>3 DEF Typed
<1>7. Refused' /\ RefusedWhenFull'
  BY <1>6 DEF Refused, RefusedWhenFull
<1> QED
  BY <1>3, <1>5, <1>7

\* A step that does not concern the authentication keeps what it found.
LEMMA AuthUntouched ==
  ASSUME Typed, Cleared, UNCHANGED <<auth, expires, user, checked>>,
         \A r \in Requests : pc[r] # "new" => pc'[r] # "new" /\ req'[r] = req[r],
         \A r \in Requests : pc'[r] # "new" /\ ahead'[r] \in {<<"limit">>, <<>>} =>
             pc[r] # "new" /\ ahead[r] \in {<<"limit">>, <<>>},
         \A r \in Requests : pc'[r] = "handled" => pc[r] = "handled" /\ ahead'[r] = ahead[r]
  PROVE  Cleared'
<1>1. \A r \in Requests : user[r] # Nobody => pc'[r] # "new" /\ user[r] = req'[r].cred
  BY DEF Cleared
<1>2. ASSUME NEW r \in Requests, pc'[r] # "new", ahead'[r] \in {<<"limit">>, <<>>}
      PROVE  CredentialGood(r)'
  <2>1. CredentialGood(r) /\ req'[r] = req[r]
    BY <1>2 DEF Cleared
  <2> QED
    BY <2>1 DEF CredentialGood, AuthExempt
<1>3. ASSUME NEW r \in Requests, pc'[r] = "handled"
      PROVE  /\ ahead'[r] = <<>>
             /\ Needs[req'[r].path] # {} =>
                  user[r] # Nobody /\ Needs[req'[r].path] \subseteq Roles[user[r]]
  BY <1>3 DEF Cleared
<1> QED
  BY <1>1, <1>2, <1>3 DEF Cleared

LEMMA InitInv == Init => IInv
<1> SUFFICES ASSUME Init PROVE IInv
  OBVIOUS
<1> USE GatewayAssumption DEF GatewayAssumption, Init
<1>1. Typed
  BY DEF Typed, Suffixes
<1>2. Recorded
  BY FS_EmptySet DEF Recorded
<1>3. Cleared
  <2>1. \A r \in Requests : pc[r] = "new" /\ user[r] = Nobody
    OBVIOUS
  <2> QED
    BY <2>1 DEF Cleared
<1>4. WindowBound /\ Refused /\ RefusedWhenFull
  BY DEF WindowBound, Refused, RefusedWhenFull
<1> QED
  BY <1>1, <1>2, <1>3, <1>4 DEF IInv

LEMMA TickInv == IInv /\ Tick => IInv'
<1> SUFFICES ASSUME IInv, Tick PROVE IInv'
  OBVIOUS
<1> USE DEF Tick, IInv
<1>1. now' \in Nat /\ now <= now'
  BY DEF Typed
<1>2. Typed'
  BY <1>1 DEF Typed
<1>3. (Recorded /\ WindowBound /\ Refused /\ RefusedWhenFull)'
  BY <1>1, LimiterUntouched
<1>4. Cleared'
  BY AuthUntouched
<1> QED
  BY <1>2, <1>3, <1>4

LEMMA GenerateTokenInv ==
  ASSUME IInv, NEW t \in Tokens, GenerateToken(t) PROVE IInv'
<1> USE DEF GenerateToken, IInv
<1>1. Typed'
  <2>1. now + Life \in Nat
    BY GatewayAssumption DEF GatewayAssumption, Typed
  <2> QED
    BY <2>1 DEF Typed
<1>2. (Recorded /\ WindowBound /\ Refused /\ RefusedWhenFull)'
  <2>1. now' = now /\ now \in Nat /\ now <= now'
    BY DEF Typed
  <2> QED
    BY <2>1, LimiterUntouched
<1>3. Cleared'
  <2>1. \A r \in Requests : req[r].cred \in Tokens /\ checked[r] < expires[req[r].cred]
          => expires'[req[r].cred] = expires[req[r].cred]
    BY DEF Typed
  <2> QED
    BY <2>1 DEF Cleared, CredentialGood, AuthExempt
<1> QED
  BY <1>1, <1>2, <1>3

LEMMA ArriveInv ==
  ASSUME IInv, NEW r \in Requests, Arrive(r) PROVE IInv'
<1> USE DEF IInv
<1>1. PICK c \in Clients, p \in Paths, k \in Credentials :
        req' = [req EXCEPT ![r] = [client |-> c, path |-> p, cred |-> k]]
  BY DEF Arrive
<1>2. /\ pc[r] = "new" /\ pc' = [pc EXCEPT ![r] = "inside"]
      /\ UNCHANGED <<auth, now, expires, ahead, user, checked, seen, log, stamp, counted>>
  BY DEF Arrive
<1>3. req'[r].client = c /\ \A q \in Requests \ {r} : req'[q] = req[q] /\ pc'[q] = pc[q]
  BY <1>1, <1>2 DEF Typed
<1>4. Typed'
  BY <1>1, <1>2, <1>3 DEF Typed
<1>5. \A q \in Requests : pc[q] # "new" => pc'[q] # "new" /\ req'[q] = req[q]
  BY <1>2, <1>3 DEF Typed
<1>6. (Recorded /\ WindowBound /\ Refused /\ RefusedWhenFull)'
  <2>1. \A q \in Requests : pc'[q] = "refused" => pc[q] = "refused"
    BY <1>2 DEF Typed
  <2>2. now' \in Nat /\ now <= now'
    BY <1>2 DEF Typed
  <2> QED
    BY <1>2, <1>5, <2>1, <2>2, LimiterUntouched
<1>7. Cleared'
  <2>1. ahead[r] \notin {<<"limit">>, <<>>}
    <3>1. ahead[r] \in {<<"limit", "auth">>, <<"auth", "limit">>}
      BY <1>2, GatewayAssumption DEF GatewayAssumption, Typed
    <3> QED
      BY <3>1
  <2>2. \A q \in Requests : pc'[q] # "new" /\ ahead'[q] \in {<<"limit">>, <<>>} =>
             pc[q] # "new" /\ ahead[q] \in {<<"limit">>, <<>>}
    BY <1>2, <1>3, <2>1 DEF Typed
  <2>3. \A q \in Requests : pc'[q] = "handled" => pc[q] = "handled" /\ ahead'[q] = ahead[q]
    BY <1>2 DEF Typed
  <2> QED
    BY <1>2, <1>5, <2>2, <2>3, AuthUntouched
<1> QED
  BY <1>4, <1>6, <1>7

\* What the middleware at the head of the line finds and leaves.
LEMMA AtLimiter ==
  ASSUME IInv, NEW r \in Requests, At(r, "limit")
  PROVE  /\ pc[r] = "inside" /\ r \notin counted /\ req[r].client \in Clients
         /\ ahead[r] \in {<<"limit", "auth">>, <<"limit">>}
         /\ Tail(ahead[r]) \in {<<"auth">>, <<>>} /\ Tail(ahead[r]) \in Suffixes
         /\ Tail(ahead[r]) = <<>> => ahead[r] = <<"limit">>
<1>1. ahead[r] \in Suffixes /\ pc[r] = "inside" /\ ahead[r] # <<>> /\ Head(ahead[r]) = "limit"
  BY DEF IInv, Typed, At
<1>2. /\ ahead[r] \in {<<"limit", "auth">>, <<"limit">>}
      /\ Tail(ahead[r]) \in {<<"auth">>, <<>>} /\ Tail(ahead[r]) \in Suffixes
  BY <1>1, Stages
<1>3. ahead[r] \notin {<<"auth">>, <<>>}
  BY <1>2, SuffixesDiffer
<1>4. r \notin counted
  BY <1>3 DEF IInv, Recorded
<1>5. req[r].client \in Clients
  BY <1>1 DEF IInv, Typed
<1>6. Tail(ahead[r]) = <<>> => ahead[r] = <<"limit">>
  BY <1>2, Tail(<<"limit", "auth">>) = <<"auth">>, SuffixesDiffer
<1> QED
  BY <1>1, <1>2, <1>4, <1>5, <1>6

LEMMA AtAuth ==
  ASSUME IInv, NEW r \in Requests, At(r, "auth")
  PROVE  /\ pc[r] = "inside"
         /\ ahead[r] \in {<<"auth", "limit">>, <<"auth">>}
         /\ Tail(ahead[r]) \in {<<"limit">>, <<>>} /\ Tail(ahead[r]) \in Suffixes
         /\ Tail(ahead[r]) = <<>> <=> ahead[r] = <<"auth">>
<1>1. ahead[r] \in Suffixes /\ pc[r] = "inside" /\ ahead[r] # <<>> /\ Head(ahead[r]) = "auth"
  BY DEF IInv, Typed, At
<1>2. /\ ahead[r] \in {<<"auth", "limit">>, <<"auth">>}
      /\ Tail(ahead[r]) \in {<<"limit">>, <<>>} /\ Tail(ahead[r]) \in Suffixes
  BY <1>1, Stages
<1>3. Tail(ahead[r]) = <<>> <=> ahead[r] = <<"auth">>
  BY <1>2, Tail(<<"auth", "limit">>) = <<"limit">>, Tail(<<"auth">>) = <<>>, SuffixesDiffer
<1> QED
  BY <1>1, <1>2, <1>3

LEMMA LimiterSkipsInv ==
  ASSUME IInv, NEW r \in Requests, LimiterSkips(r) PROVE IInv'
<1>1. /\ At(r, "limit") /\ ahead' = [ahead EXCEPT ![r] = Tail(@)] /\ UNCHANGED pc
      /\ UNCHANGED <<auth, now, expires, req, user, checked, seen, log, stamp, counted>>
  BY DEF LimiterSkips, Pass
<1>2. /\ pc[r] = "inside" /\ ahead[r] \in {<<"limit", "auth">>, <<"limit">>}
      /\ ahead'[r] \in {<<"auth">>, <<>>} /\ ahead'[r] \in Suffixes
      /\ ahead'[r] = <<>> => ahead[r] = <<"limit">>
      /\ \A q \in Requests \ {r} : ahead'[q] = ahead[q]
  BY <1>1, AtLimiter DEF IInv, Typed
<1>3. Typed'
  BY <1>1, <1>2 DEF IInv, Typed
<1>4. (Recorded /\ WindowBound /\ Refused /\ RefusedWhenFull)'
  <2>1. now' \in Nat /\ now <= now'
    BY <1>1 DEF IInv, Typed
  <2>2. \A q \in Requests : ahead[q] \in {<<"auth">>, <<>>} => ahead'[q] \in {<<"auth">>, <<>>}
    BY <1>2, SuffixesDiffer
  <2>3. \A q \in Requests : pc'[q] = "refused" => pc[q] = "refused" /\ ahead[q] = ahead'[q]
    BY <1>1, <1>2
  <2> QED
    BY <1>1, <2>1, <2>2, <2>3, LimiterUntouched DEF IInv
<1>5. Cleared'
  <2>1. \A q \in Requests : ahead'[q] \in {<<"limit">>, <<>>} => ahead[q] \in {<<"limit">>, <<>>}
    BY <1>2
  <2>2. \A q \in Requests : pc'[q] = "handled" => pc[q] = "handled" /\ ahead'[q] = ahead[q]
    BY <1>1, <1>2
  <2> QED
    BY <1>1, <2>1, <2>2, AuthUntouched DEF IInv
<1> QED
  BY <1>3, <1>4, <1>5 DEF IInv

LEMMA AuthSkipsInv ==
  ASSUME IInv, NEW r \in Requests, AuthSkips(r) PROVE IInv'
<1>1. /\ At(r, "auth") /\ ahead' = [ahead EXCEPT ![r] = Tail(@)] /\ UNCHANGED pc
      /\ req[r].path \in AuthExempt
      /\ UNCHANGED <<auth, now, expires, req, user, checked, seen, log, stamp, counted>>
  BY DEF AuthSkips, Pass
<1>2. /\ pc[r] = "inside" /\ ahead[r] \in {<<"auth", "limit">>, <<"auth">>}
      /\ ahead'[r] \in {<<"limit">>, <<>>} /\ ahead'[r] \in Suffixes
      /\ ahead'[r] = <<>> <=> ahead[r] = <<"auth">>
      /\ \A q \in Requests \ {r} : ahead'[q] = ahead[q]
  BY <1>1, AtAuth DEF IInv, Typed
<1>3. Typed'
  BY <1>1, <1>2 DEF IInv, Typed
<1>4. (Recorded /\ WindowBound /\ Refused /\ RefusedWhenFull)'
  <2>1. now' \in Nat /\ now <= now'
    BY <1>1 DEF IInv, Typed
  <2>2. \A q \in Requests : ahead[q] \in {<<"auth">>, <<>>} => ahead'[q] \in {<<"auth">>, <<>>}
    BY <1>2, SuffixesDiffer
  <2>3. \A q \in Requests : pc'[q] = "refused" => pc[q] = "refused" /\ ahead[q] = ahead'[q]
    BY <1>1, <1>2
  <2> QED
    BY <1>1, <2>1, <2>2, <2>3, LimiterUntouched DEF IInv
<1>5. Cleared'
  <2>1. ASSUME NEW q \in Requests, pc'[q] # "new", ahead'[q] \in {<<"limit">>, <<>>}
        PROVE  CredentialGood(q)'
    <3>1. CredentialGood(q)
      <4>1. CASE q = r
        BY <4>1, <1>1 DEF CredentialGood
      <4>2. CASE q # r
        BY <4>2, <1>1, <1>2, <2>1 DEF IInv, Cleared
      <4> QED
        BY <4>1, <4>2
    <3> QED
      BY <3>1, <1>1 DEF CredentialGood, AuthExempt
  <2>2. \A q \in Requests : pc'[q] = "handled" => pc[q] = "handled" /\ ahead'[q] = ahead[q]
    BY <1>1, <1>2
  <2> QED
    BY <1>1, <2>1, <2>2 DEF IInv, Cleared
<1> QED
  BY <1>3, <1>4, <1>5 DEF IInv

LEMMA AuthAcceptsInv ==
  ASSUME IInv, NEW r \in Requests, AuthAccepts(r) PROVE IInv'
<1>1. /\ At(r, "auth") /\ ahead' = [ahead EXCEPT ![r] = Tail(@)] /\ UNCHANGED pc
      /\ req[r].path \notin AuthExempt /\ Accepted(req[r].cred)
      /\ user' = [user EXCEPT ![r] = IF auth = "env" THEN Nobody ELSE req[r].cred]
      /\ checked' = [checked EXCEPT ![r] = now]
      /\ UNCHANGED <<auth, now, expires, req, seen, log, stamp, counted>>
  BY DEF AuthAccepts, Pass
<1>2. /\ pc[r] = "inside" /\ ahead[r] \in {<<"auth", "limit">>, <<"auth">>}
      /\ ahead'[r] \in {<<"limit">>, <<>>} /\ ahead'[r] \in Suffixes
      /\ ahead'[r] = <<>> <=> ahead[r] = <<"auth">>
      /\ \A q \in Requests \ {r} : ahead'[q] = ahead[q]
  BY <1>1, AtAuth DEF IInv, Typed
<1>3. /\ \A q \in Requests \ {r} : user'[q] = user[q] /\ checked'[q] = checked[q]
      /\ checked'[r] = now /\ user'[r] \in {Nobody, req[r].cred}
  BY <1>1 DEF IInv, Typed
<1>4. Typed'
  BY <1>1, <1>2, <1>3 DEF IInv, Typed
<1>5. (Recorded /\ WindowBound /\ Refused /\ RefusedWhenFull)'
  <2>1. now' \in Nat /\ now <= now'
    BY <1>1 DEF IInv, Typed
  <2>2. \A q \in Requests : ahead[q] \in {<<"auth">>, <<>>} => ahead'[q] \in {<<"auth">>, <<>>}
    BY <1>2, SuffixesDiffer
  <2>3. \A q \in Requests : pc'[q] = "refused" => pc[q] = "refused" /\ ahead[q] = ahead'[q]
    BY <1>1, <1>2
  <2> QED
    BY <1>1, <2>1, <2>2, <2>3, LimiterUntouched DEF IInv
<1>6. Cleared'
  <2>1. ASSUME NEW q \in Requests, pc'[q] # "new", ahead'[q] \in {<<"limit">>, <<>>}
        PROVE  CredentialGood(q)'
    <3>1. CASE q = r
      <4>1. auth = "jwt" => req[r].cred \in Tokens /\ now < expires[req[r].cred]
        BY <1>1 DEF Accepted, TokenIsValid
      <4>2. auth \in {"key", "env"} => req[r].cred \in Keys
        BY <1>1 DEF Accepted, KeyIsKnown
      <4> QED
        BY <3>1, <4>1, <4>2, <1>1, <1>3 DEF CredentialGood
    <3>2. CASE q # r
      <4>1. CredentialGood(q)
        BY <3>2, <1>1, <1>2, <2>1 DEF IInv, Cleared
      <4> QED
        BY <3>2, <4>1, <1>1, <1>3 DEF CredentialGood, AuthExempt
    <3> QED
      BY <3>1, <3>2
  <2>2. \A q \in Requests : pc'[q] = "handled" =>
          q # r /\ pc[q] = "handled" /\ ahead'[q] = ahead[q] /\ user'[q] = user[q]
    BY <1>1, <1>2, <1>3
  <2>3. \A q \in Requests : user'[q] # Nobody => pc'[q] # "new" /\ user'[q] = req'[q].cred
    BY <1>1, <1>2, <1>3 DEF IInv, Cleared
  <2> QED
    BY <1>1, <2>1, <2>2, <2>3 DEF IInv, Cleared
<1> QED
  BY <1>4, <1>5, <1>6 DEF IInv

\* A request that authentication or require_role turns away.
LEMMA TurnedAway ==
  ASSUME IInv, NEW r \in Requests, pc[r] = "inside",
         ahead[r] = <<>> \/ Head(ahead[r]) = "auth", Refuse(r),
         UNCHANGED <<auth, now, expires, req, user, checked, seen, log, stamp, counted>>
  PROVE  IInv'
<1>1. pc' = [pc EXCEPT ![r] = "refused"] /\ ahead' = ahead
  BY DEF Refuse
<1>2. Typed'
  BY <1>1 DEF IInv, Typed
<1>3. (Recorded /\ WindowBound /\ Refused /\ RefusedWhenFull)'
  <2>1. now' \in Nat /\ now <= now'
    BY DEF IInv, Typed
  <2>2. \A q \in Requests : pc'[q] = "refused" /\ ahead'[q] # <<>> /\ Head(ahead'[q]) = "limit"
                              => pc[q] = "refused" /\ ahead[q] = ahead'[q]
    BY <1>1 DEF IInv, Typed
  <2>3. \A q \in Requests : pc[q] # "new" => pc'[q] # "new" /\ req'[q] = req[q]
    BY <1>1 DEF IInv, Typed
  <2> QED
    BY <1>1, <2>1, <2>2, <2>3, LimiterUntouched DEF IInv
<1>4. Cleared'
  <2>1. \A q \in Requests : /\ pc[q] # "new" => pc'[q] # "new"
                            /\ pc'[q] # "new" => pc[q] # "new"
                            /\ pc'[q] = "handled" => pc[q] = "handled"
    BY <1>1 DEF IInv, Typed
  <2> QED
    BY <1>1, <2>1, AuthUntouched DEF IInv
<1> QED
  BY <1>2, <1>3, <1>4 DEF IInv

LEMMA HandleInv ==
  ASSUME IInv, NEW r \in Requests, Handle(r) PROVE IInv'
<1>1. /\ pc[r] = "inside" /\ ahead[r] = <<>> /\ MayHandle(r)
      /\ pc' = [pc EXCEPT ![r] = "handled"]
      /\ UNCHANGED <<auth, now, expires, ahead, req, user, checked, seen, log, stamp, counted>>
  BY DEF Handle
<1>2. \A q \in Requests : /\ pc[q] # "new" => pc'[q] # "new"
                          /\ pc'[q] # "new" => pc[q] # "new"
                          /\ q # r => pc'[q] = pc[q]
                          /\ pc'[q] = "refused" => pc[q] = "refused"
  BY <1>1 DEF IInv, Typed
<1>3. Typed'
  BY <1>1, <1>2 DEF IInv, Typed
<1>4. (Recorded /\ WindowBound /\ Refused /\ RefusedWhenFull)'
  <2>1. now' \in Nat /\ now <= now'
    BY <1>1 DEF IInv, Typed
  <2> QED
    BY <1>1, <1>2, <2>1, LimiterUntouched DEF IInv
<1>5. Cleared'
  <2>0. Cleared
    BY DEF IInv
  <2>1. ASSUME NEW q \in Requests, user[q] # Nobody PROVE pc'[q] # "new" /\ user[q] = req[q].cred
    <3>1. pc[q] # "new" /\ user[q] = req[q].cred
      BY <2>0, <2>1 DEF Cleared
    <3>2. pc'[q] # "new"
      BY <3>1, <1>2
    <3> QED
      BY <3>1, <3>2
  <2>2. ASSUME NEW q \in Requests, pc'[q] # "new", ahead[q] \in {<<"limit">>, <<>>}
        PROVE  CredentialGood(q)'
    <3>1. CredentialGood(q)
      BY <2>0, <2>2, <1>2, Zenon DEF Cleared
    <3> QED
      BY <3>1, <1>1 DEF CredentialGood, AuthExempt
  <2>3. ASSUME NEW q \in Requests, pc'[q] = "handled"
        PROVE  /\ ahead[q] = <<>>
               /\ Needs[req[q].path] # {} =>
                    user[q] # Nobody /\ Needs[req[q].path] \subseteq Roles[user[q]]
    <3>1. CASE q = r
      BY <3>1, <1>1 DEF MayHandle
    <3>2. CASE q # r
      BY <3>2, <1>2, <2>0, <2>3, Zenon DEF Cleared
    <3> QED
      BY <3>1, <3>2
  <2> QED
    BY <1>1, <2>1, <2>2, <2>3 DEF Cleared
<1> QED
  BY <1>3, <1>4, <1>5 DEF IInv

LEMMA LimiterRefusesInv ==
  ASSUME IInv, NEW r \in Requests, LimiterRefuses(r) PROVE IInv'
<1> DEFINE c == req[r].client
<1>1. /\ At(r, "limit") /\ Exceeded(c)
      /\ log' = [log EXCEPT ![c] = Recent(c)] /\ stamp' = [stamp EXCEPT ![r] = now]
      /\ pc' = [pc EXCEPT ![r] = "refused"] /\ ahead' = ahead
      /\ UNCHANGED <<auth, now, expires, req, user, checked, seen, counted>>
  BY DEF LimiterRefuses, Refuse
<1>2. /\ pc[r] = "inside" /\ r \notin counted /\ c \in Clients
      /\ counted \subseteq Requests /\ IsFiniteSet(counted) /\ now \in Nat
  BY <1>1, AtLimiter DEF IInv, Typed, Recorded
<1>3. /\ stamp'[r] = now /\ \A q \in Requests \ {r} : stamp'[q] = stamp[q] /\ pc'[q] = pc[q]
      /\ \A d \in Clients \ {c} : log'[d] = log[d]
      /\ log'[c] = Recent(c) /\ Recent(c) \subseteq log[c]
  BY <1>1, <1>2 DEF IInv, Typed, Recent
<1>4. Typed'
  BY <1>1, <1>2, <1>3 DEF IInv, Typed
<1>5. Recorded'
  <2>1. ASSUME NEW q \in counted, now - stamp[q] < Window PROVE q \in log'[req[q].client]
    <3>1. q \in log[req[q].client]
      BY <2>1 DEF IInv, Recorded
    <3>2. req[q].client \in Clients
      BY <1>2 DEF IInv, Typed, Recorded
    <3> QED
      BY <2>1, <3>1, <3>2, <1>3 DEF Recent
  <2>2. \A q \in counted : /\ pc'[q] # "new" /\ ahead[q] \in {<<"auth">>, <<>>}
                           /\ stamp'[q] = stamp[q] /\ stamp[q] <= now /\ req[q].client \in seen
    BY <1>2, <1>3 DEF IInv, Recorded
  <2>3. \A d \in Clients : \A q \in log'[d] : q \in counted /\ req[q].client = d
    BY <1>2, <1>3 DEF IInv, Recorded
  <2> QED
    BY <1>1, <1>2, <2>1, <2>2, <2>3 DEF Recorded
<1>6. ASSUME NEW q \in Requests \ {r} PROVE WindowOf(q)' = WindowOf(q)
  BY <1>1, <1>2, <1>3 DEF WindowOf
<1>7. WindowBound'
  BY <1>1, <1>2, <1>6 DEF IInv, WindowBound, Allowed
<1>8. Refused'
  BY <1>1, <1>2, <1>3 DEF IInv, Refused
<1>9. (Cardinality(WindowOf(r)) >= Limit)'
  <2>1. Recent(c) \subseteq WindowOf(r)'
    <3> SUFFICES ASSUME NEW q \in Recent(c) PROVE q \in WindowOf(r)'
      OBVIOUS
    <3>1. q \in counted /\ req[q].client = c /\ now - stamp[q] < Window /\ stamp[q] <= now
      BY <1>2 DEF Recent, IInv, Recorded
    <3> QED
      BY <3>1, <1>1, <1>2, <1>3 DEF WindowOf
  <2>2. IsFiniteSet(WindowOf(r)')
    BY <1>1, <1>2, FS_Subset DEF WindowOf
  <2>3. /\ Cardinality(Recent(c)) <= Cardinality(WindowOf(r)')
        /\ Cardinality(Recent(c)) \in Nat /\ Cardinality(WindowOf(r)') \in Nat
    BY <2>1, <2>2, FS_Subset, FS_CardinalityType
  <2> QED
    BY <2>3, <1>1, GatewayAssumption DEF Exceeded, GatewayAssumption
<1>10. RefusedWhenFull'
  BY <1>1, <1>3, <1>6, <1>9 DEF IInv, RefusedWhenFull
<1>11. Cleared'
  <2>1. \A q \in Requests : /\ pc[q] # "new" => pc'[q] # "new"
                            /\ pc'[q] # "new" => pc[q] # "new"
                            /\ pc'[q] = "handled" => pc[q] = "handled"
    BY <1>1, <1>2 DEF IInv, Typed
  <2> QED
    BY <1>1, <2>1, AuthUntouched DEF IInv
<1> QED
  BY <1>4, <1>5, <1>7, <1>8, <1>10, <1>11 DEF IInv

LEMMA LimiterAdmitsInv ==
  ASSUME IInv, NEW r \in Requests, LimiterAdmits(r) PROVE IInv'
<1> DEFINE c == req[r].client
<1>1. /\ At(r, "limit") /\ ~Exceeded(c)
      /\ seen' = seen \cup {c} /\ counted' = counted \cup {r}
      /\ log' = [log EXCEPT ![c] = Recent(c) \cup {r}] /\ stamp' = [stamp EXCEPT ![r] = now]
      /\ ahead' = [ahead EXCEPT ![r] = Tail(@)] /\ pc' = pc
      /\ UNCHANGED <<auth, now, expires, req, user, checked>>
  BY DEF LimiterAdmits, Pass
<1>2. /\ pc[r] = "inside" /\ r \notin counted /\ c \in Clients
      /\ counted \subseteq Requests /\ IsFiniteSet(counted) /\ now \in Nat
  BY <1>1, AtLimiter DEF IInv, Typed, Recorded
<1>3. /\ stamp'[r] = now /\ \A q \in Requests \ {r} : stamp'[q] = stamp[q]
      /\ \A d \in Clients \ {c} : log'[d] = log[d]
      /\ log'[c] = Recent(c) \cup {r} /\ Recent(c) \subseteq log[c]
  BY <1>1, <1>2 DEF IInv, Typed, Recent
<1>4. /\ ahead[r] \in {<<"limit", "auth">>, <<"limit">>}
      /\ ahead'[r] \in {<<"auth">>, <<>>} /\ ahead'[r] \in Suffixes
      /\ ahead'[r] = <<>> => ahead[r] = <<"limit">>
      /\ \A q \in Requests \ {r} : ahead'[q] = ahead[q]
  BY <1>1, AtLimiter DEF IInv, Typed
<1>5. Typed'
  BY <1>1, <1>2, <1>3, <1>4 DEF IInv, Typed
<1>6. Recorded'
  <2>1. ASSUME NEW q \in counted', now - stamp'[q] < Window PROVE q \in log'[req[q].client]
    <3>1. CASE q = r
      BY <3>1, <1>3
    <3>2. CASE q # r
      <4>1. q \in log[req[q].client] /\ now - stamp[q] < Window /\ req[q].client \in Clients
        BY <3>2, <2>1, <1>1, <1>2, <1>3 DEF IInv, Recorded, Typed
      <4> QED
        BY <4>1, <1>3 DEF Recent
    <3> QED
      BY <3>1, <3>2
  <2>2. \A q \in counted' : /\ pc[q] # "new" /\ ahead'[q] \in {<<"auth">>, <<>>}
                            /\ stamp'[q] <= now /\ req[q].client \in seen'
    BY <1>1, <1>2, <1>3, <1>4 DEF IInv, Recorded
  <2>3. \A d \in Clients : \A q \in log'[d] : q \in counted' /\ req[q].client = d
    BY <1>1, <1>2, <1>3 DEF IInv, Recorded
  <2>4. IsFiniteSet(counted')
    BY <1>1, <1>2, FS_AddElement
  <2> QED
    BY <1>1, <2>1, <2>2, <2>3, <2>4 DEF Recorded
<1>7. ASSUME NEW q \in Requests \ {r} PROVE WindowOf(q) \subseteq WindowOf(q)'
  BY <1>1, <1>2, <1>3 DEF WindowOf
<1>8. ASSUME NEW q \in counted, stamp[q] # now \/ req[q].client # c PROVE WindowOf(q)' = WindowOf(q)
  <2>1. stamp[q] <= now /\ stamp[q] \in Nat /\ q # r /\ stamp'[q] = stamp[q]
    BY <1>2, <1>3 DEF IInv, Recorded, Typed
  <2>2. r \notin WindowOf(q)'
    BY <2>1, <1>1, <1>2, <1>3, <1>8 DEF WindowOf
  <2> QED
    BY <2>1, <2>2, <1>1, <1>2, <1>3 DEF WindowOf
<1>9. Cardinality(Recent(c) \cup {r}) <= Allowed /\ IsFiniteSet(Recent(c) \cup {r})
  <2>1. Recent(c) \subseteq counted /\ r \notin Recent(c)
    BY <1>2, <1>3 DEF IInv, Recorded
  <2>2. IsFiniteSet(Recent(c)) /\ Cardinality(Recent(c)) \in Nat
    BY <2>1, <1>2, FS_Subset, FS_CardinalityType
  <2>3. /\ IsFiniteSet(Recent(c) \cup {r})
        /\ Cardinality(Recent(c) \cup {r}) = Cardinality(Recent(c)) + 1
    BY <2>1, <2>2, FS_AddElement
  <2>4. CASE c \notin seen
    <3>1. Recent(c) = {}
      BY <2>4, <1>2, <1>3 DEF IInv, Recorded
    <3> QED
      BY <3>1, <2>3, FS_EmptySet, GatewayAssumption DEF GatewayAssumption, Allowed
  <2>5. CASE c \in seen
    <3>1. Cardinality(Recent(c)) < Limit
      BY <2>5, <2>2, <1>1, GatewayAssumption DEF Exceeded, GatewayAssumption
    <3> QED
      BY <3>1, <2>2, <2>3, GatewayAssumption DEF GatewayAssumption, Allowed
  <2> QED
    BY <2>4, <2>5
<1>10. WindowBound'
  <2> SUFFICES ASSUME NEW q \in counted' PROVE Cardinality(WindowOf(q)') <= Allowed
    BY DEF WindowBound, Allowed
  <2>1. CASE q \in counted /\ (stamp[q] # now \/ req[q].client # c)
    BY <2>1, <1>8 DEF IInv, WindowBound
  <2>2. CASE q = r \/ (stamp[q] = now /\ req[q].client = c)
    <3>1. stamp'[q] = now /\ req[q].client = c
      BY <2>2, <1>1, <1>2, <1>3
    <3>2. WindowOf(q)' \subseteq Recent(c) \cup {r}
      <4> SUFFICES ASSUME NEW p \in WindowOf(q)', p # r PROVE p \in Recent(c)
        OBVIOUS
      <4>1. p \in counted /\ req[p].client = c /\ now - stamp[p] < Window
        BY <3>1, <1>1, <1>2, <1>3 DEF WindowOf
      <4> QED
        BY <4>1 DEF Recent, IInv, Recorded
    <3>3. /\ Cardinality(WindowOf(q)') <= Cardinality(Recent(c) \cup {r})
          /\ Cardinality(WindowOf(q)') \in Nat /\ Cardinality(Recent(c) \cup {r}) \in Nat
      BY <3>2, <1>9, FS_Subset, FS_CardinalityType
    <3> QED
      BY <3>3, <1>9, GatewayAssumption DEF Allowed, GatewayAssumption
  <2> QED
    BY <2>1, <2>2, <1>1
<1>11. Refused'
  BY <1>1, <1>2, <1>3, <1>4 DEF IInv, Refused
<1>12. RefusedWhenFull'
  <2> SUFFICES ASSUME NEW q \in Requests, pc'[q] = "refused", ahead'[q] # <<>>,
                      Head(ahead'[q]) = "limit"
               PROVE  Cardinality(WindowOf(q)') >= Limit
    BY DEF RefusedWhenFull
  <2>1. q # r /\ pc[q] = "refused" /\ ahead[q] = ahead'[q]
    BY <1>1, <1>2, <1>4
  <2>2. Cardinality(WindowOf(q)) >= Limit
    BY <2>1 DEF IInv, RefusedWhenFull
  <2>3. IsFiniteSet(WindowOf(q)') /\ WindowOf(q) \subseteq WindowOf(q)'
    <3>1. IsFiniteSet(counted') /\ WindowOf(q)' \subseteq counted'
      BY <1>6 DEF Recorded, WindowOf
    <3> QED
      BY <3>1, <2>1, <1>7, FS_Subset
  <2>4. /\ Cardinality(WindowOf(q)) <= Cardinality(WindowOf(q)')
        /\ Cardinality(WindowOf(q)) \in Nat /\ Cardinality(WindowOf(q)') \in Nat
    BY <2>3, FS_Subset, FS_CardinalityType
  <2> QED
    BY <2>2, <2>4, GatewayAssumption DEF GatewayAssumption
<1>13. Cleared'
  <2>1. \A q \in Requests : ahead'[q] \in {<<"limit">>, <<>>} => ahead[q] \in {<<"limit">>, <<>>}
    <3>1. ahead'[r] \in {<<"limit">>, <<>>} => ahead'[r] = <<>>
      BY <1>4, SuffixesDiffer
    <3> QED
      BY <3>1, <1>4
  <2>2. \A q \in Requests : pc'[q] = "handled" => pc[q] = "handled" /\ ahead'[q] = ahead[q]
    BY <1>1, <1>2, <1>4
  <2> QED
    BY <1>1, <2>1, <2>2, AuthUntouched DEF IInv
<1> QED
  BY <1>5, <1>6, <1>10, <1>11, <1>12, <1>13 DEF IInv

\* Every request, whatever becomes of it, keeps the invariant.
THEOREM Invariant == Spec => []IInv
<1>1. IInv /\ [Next]_vars => IInv'
  <2> SUFFICES ASSUME IInv, [Next]_vars PROVE IInv'
    OBVIOUS
  <2>1. CASE Tick
    BY <2>1, TickInv
  <2>2. ASSUME NEW t \in Tokens, GenerateToken(t) PROVE IInv'
    BY <2>2, GenerateTokenInv
  <2>3. ASSUME NEW r \in Requests, Arrive(r) PROVE IInv'
    BY <2>3, ArriveInv
  <2>4. ASSUME NEW r \in Requests, LimiterSkips(r) PROVE IInv'
    BY <2>4, LimiterSkipsInv
  <2>5. ASSUME NEW r \in Requests, LimiterRefuses(r) PROVE IInv'
    BY <2>5, LimiterRefusesInv
  <2>6. ASSUME NEW r \in Requests, LimiterAdmits(r) PROVE IInv'
    BY <2>6, LimiterAdmitsInv
  <2>7. ASSUME NEW r \in Requests, AuthSkips(r) PROVE IInv'
    BY <2>7, AuthSkipsInv
  <2>8. ASSUME NEW r \in Requests, AuthRefuses(r) PROVE IInv'
    BY <2>8, TurnedAway DEF AuthRefuses, At
  <2>9. ASSUME NEW r \in Requests, AuthAccepts(r) PROVE IInv'
    BY <2>9, AuthAcceptsInv
  <2>10. ASSUME NEW r \in Requests, Handle(r) PROVE IInv'
    BY <2>10, HandleInv
  <2>11. ASSUME NEW r \in Requests, RequireRoleRefuses(r) PROVE IInv'
    BY <2>11, TurnedAway DEF RequireRoleRefuses
  <2>12. CASE UNCHANGED vars
    <3>1. (Recorded /\ WindowBound /\ Refused /\ RefusedWhenFull)'
      <4>1. now' \in Nat /\ now <= now'
        BY <2>12 DEF vars, IInv, Typed
      <4> QED
        BY <2>12, <4>1, LimiterUntouched DEF vars, IInv
    <3>2. Cleared'
      BY <2>12, AuthUntouched DEF vars, IInv
    <3>3. Typed'
      BY <2>12 DEF vars, IInv, Typed
    <3> QED
      BY <3>1, <3>2, <3>3 DEF IInv
  <2> QED
    BY <2>1, <2>2, <2>3, <2>4, <2>5, <2>6, <2>7, <2>8, <2>9, <2>10, <2>11, <2>12 DEF Next
<1> QED
  BY InitInv, <1>1, PTL DEF Spec

\* No window has more requests of a client than the limit.
THEOREM NoWindowOverflows == Spec => []WindowBound
<1>1. IInv => WindowBound
  BY DEF IInv
<1> QED
  BY <1>1, Invariant, PTL

\* A request is refused only when the limit is used up.
THEOREM RefusalsAreJustified == Spec => []RefusedWhenFull
<1>1. IInv => RefusedWhenFull
  BY DEF IInv
<1> QED
  BY <1>1, Invariant, PTL

\* Nobody reaches an endpoint without what it asks for.
THEOREM Authorization == Spec => []HandledIsAuthorized
<1>1. IInv => HandledIsAuthorized
  BY DEF IInv, Typed, Cleared, CredentialGood, HandledIsAuthorized
<1> QED
  BY <1>1, Invariant, PTL
=============================================================================
