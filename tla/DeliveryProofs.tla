--------------------------- MODULE DeliveryProofs ---------------------------
(***************************************************************************)
(* Theorems about Delivery: for any subscribers, publications and clients, *)
(* one failing subscriber stops no other, no client is sent an event       *)
(* twice, and one is left out only for a removal.                          *)
(***************************************************************************)
EXTENDS Delivery, FiniteSetTheorems, WellFoundedInduction, TLAPS

-----------------------------------------------------------------------------
(* The inductive invariant *)

Stages == {"due", "running", "returned", "raised"}
Subscribers == Handlers \cup {Forward}

Calls == Seq([handler : Subscribers, stage : Stages])

CallsFit(p) ==
  /\ calls[p] \in Calls
  /\ \A i, j \in 1 .. Len(calls[p]) :
       calls[p][i].handler = Forward /\ calls[p][j].handler = Forward => i = j

\* The forwarding handler is subscribed once at most, and so called once.
BusInv ==
  /\ subscribers \in Seq(Subscribers)
  /\ \A i, j \in 1 .. Len(subscribers) :
       subscribers[i] = Forward /\ subscribers[j] = Forward => i = j
  /\ DOMAIN pub = Publications
  /\ DOMAIN calls = Publications
  /\ \A p \in Publications : CallsFit(p)

\* Nobody is in the list twice, and no one who has not connected or has been
\* disconnected.
ListInv ==
  /\ connections \in Seq(Clients)
  /\ IsInjective(connections)
  /\ client \in [Clients -> {"away", "connected", "broken", "gone"}]
  /\ \A c \in Range(connections) : client[c] \in {"connected", "broken"}

\* Whom the broadcast of p has come to.
Heard(p) == Range(sent[p]) \cup {cast[p].to}

\* Who is in the list up to a place, and the clients that the broadcast has
\* passed without sending to them.
UpTo(list, k) == {list[j] : j \in {j \in 1 .. Len(list) : j <= k}}

Missed(p) ==
  {c \in (audience[p] \cap UpTo(connections, cast[p].at)) \ Heard(p) : client[c] = "connected"}

\* There is a broadcast only while the forwarding handler runs; before that
\* nothing was sent.
StageInv(p) ==
  /\ pub[p] # "gathering" => ~Casting(p) /\ sent[p] = <<>>
  /\ pub[p] = "gathering" =>
       \A i \in 1 .. Len(calls[p]) :
         /\ calls[p][i].stage = "running" => calls[p][i].handler = Forward /\ Casting(p)
         /\ calls[p][i].stage = "due" /\ calls[p][i].handler = Forward =>
              ~Casting(p) /\ sent[p] = <<>>

\* Whom a broadcast has come to is behind it in the list, or out of it, and so
\* is, for every removal, one client it has missed.
CastInv(p) ==
  /\ sent[p] \in Seq(Clients) /\ IsInjective(sent[p])
  /\ removals[p] \in Nat
  /\ Casting(p) =>
       /\ cast[p].at \in Nat /\ cast[p].to \in Clients
       /\ cast[p].stale \in Seq(Clients)
       /\ \A i \in 1 .. Len(cast[p].stale) : client[cast[p].stale[i]] \in {"broken", "gone"}
       /\ cast[p].to \notin Range(sent[p])
       /\ \A c \in Heard(p) \cup audience[p] : c \in Clients /\ client[c] # "away"
       /\ \A j \in 1 .. Len(connections) : j > cast[p].at => connections[j] \notin Heard(p)
       /\ Cardinality(Missed(p)) <= removals[p]

IInv ==
  /\ BusInv /\ ListInv
  /\ DOMAIN cast = Publications /\ DOMAIN sent = Publications
  /\ DOMAIN removals = Publications /\ DOMAIN audience = Publications
  /\ \A p \in Publications : StageInv(p) /\ CastInv(p)

-----------------------------------------------------------------------------
(* Removing from a list *)

LEMMA SetFacts ==
  /\ \A S, T : IsFiniteSet(S) /\ T \subseteq S =>
       /\ IsFiniteSet(T) /\ Cardinality(T) \in Nat /\ Cardinality(S) \in Nat
       /\ Cardinality(T) <= Cardinality(S)
       /\ Cardinality(T) = Cardinality(S) => S = T
  /\ \A n \in Nat : IsFiniteSet(1 .. n) /\ Cardinality(1 .. n) = n
<1>1. \A n \in Nat : IsFiniteSet(1 .. n) /\ Cardinality(1 .. n) = n
  <2> TAKE n \in Nat
  <2> QED
    BY FS_Interval
<1> QED
  BY <1>1, FS_Subset, FS_CardinalityType

LEMMA LeastNumber ==
  ASSUME NEW T, T \subseteq Nat, T # {}
  PROVE  \E m \in T : \A i \in T : m <= i
<1>1. PICK m \in T : \A i \in T : ~(<<i, m>> \in OpToRel(<, Nat))
  BY NatLessThanWellFounded, WFMin
<1>2. \A i \in T : ~(i < m)
  BY <1>1 DEF OpToRel
<1> QED
  BY <1>2

LEMMA ImageIsSmaller ==
  ASSUME NEW S, IsFiniteSet(S), NEW f, NEW T, T \subseteq {f[x] : x \in S}
  PROVE  IsFiniteSet(T) /\ Cardinality(T) <= Cardinality(S)
<1> DEFINE g == [x \in S |-> f[x]]
           image == {f[x] : x \in S}
<1>1. g \in Surjection(S, image)
  BY DEF Surjection
<1>2. IsFiniteSet(image) /\ Cardinality(image) <= Cardinality(S)
  <2> HIDE DEF g, image
  <2> QED
    BY <1>1, FS_Surjection
<1>3. T \in SUBSET image
  OBVIOUS
<1> HIDE DEF image
<1>4. /\ IsFiniteSet(T) /\ Cardinality(T) <= Cardinality(image)
      /\ Cardinality(T) \in Nat /\ Cardinality(image) \in Nat /\ Cardinality(S) \in Nat
  BY <1>2, <1>3, SetFacts
<1> QED
  BY <1>2, <1>4

\* What is left of a list keeps its order: everybody in it had as place in the
\* list before the one it has now, or one that is farther back by what was removed.
LEMMA WithoutFits ==
  ASSUME NEW S, NEW s \in Seq(S), IsInjective(s), NEW gone
  PROVE  /\ Without(s, gone) \in Seq(S) /\ IsInjective(Without(s, gone))
         /\ Range(Without(s, gone)) = Range(s) \ gone
         /\ IsFiniteSet(gone \cap Range(s))
         /\ \A k \in 1 .. Len(Without(s, gone)) : \E i \in 1 .. Len(s) :
              /\ Without(s, gone)[k] = s[i]
              /\ k <= i /\ i <= k + Cardinality(gone \cap Range(s))
<1> DEFINE n == Len(s)
           kept == {i \in 1 .. n : s[i] \notin gone}
           upTo(i) == {j \in kept : j <= i}
           m == Cardinality(kept)
           place == [k \in 1 .. m |-> CHOOSE i \in kept : Cardinality(upTo(i)) = k]
           left == Without(s, gone)
           g == Cardinality(gone \cap Range(s))
<1>1. n \in Nat /\ DOMAIN s = 1 .. n /\ \A i \in 1 .. n : s[i] \in S
  OBVIOUS
<1>2. left = [k \in 1 .. m |-> s[CHOOSE i \in kept : Cardinality(upTo(i)) = k]]
  BY DEF Without
<1> HIDE DEF n, left
<1>3. IsFiniteSet(kept) /\ m \in Nat /\ kept \subseteq 1 .. n
  BY <1>1, SetFacts
<1>4. ASSUME NEW i \in kept
      PROVE  Cardinality(upTo(i)) \in 1 .. m
  <2>1. IsFiniteSet(upTo(i)) /\ Cardinality(upTo(i)) \in Nat /\ Cardinality(upTo(i)) <= m
    BY <1>3, SetFacts
  <2>2. i \in upTo(i)
    BY <1>3
  <2>3. Cardinality(upTo(i)) # 0
    BY <2>1, <2>2, FS_EmptySet
  <2> QED
    BY <1>3, <2>1, <2>3
<1>5. ASSUME NEW i \in kept, NEW j \in kept, Cardinality(upTo(i)) = Cardinality(upTo(j))
      PROVE  i = j
  <2>1. ASSUME NEW a \in kept, NEW b \in kept, a < b PROVE Cardinality(upTo(a)) # Cardinality(upTo(b))
    <3>1. upTo(a) \subseteq upTo(b) /\ b \in upTo(b) /\ b \notin upTo(a)
      BY <1>3, <2>1
    <3>2. IsFiniteSet(upTo(b))
      <4>1. upTo(b) \subseteq kept
        OBVIOUS
      <4> HIDE DEF kept, upTo
      <4> QED
        BY <1>3, <4>1, SetFacts
    <3> HIDE DEF upTo
    <3> QED
      BY <3>1, <3>2, SetFacts
  <2> QED
    BY <1>3, <1>5, <2>1
<1>6. \A k \in 1 .. m : \E i \in kept : Cardinality(upTo(i)) = k
  <2> DEFINE rank == [i \in kept |-> Cardinality(upTo(i))]
  <2>1. rank \in Injection(kept, 1 .. m)
    BY <1>4, <1>5 DEF Injection, IsInjective
  <2>2. IsFiniteSet(1 .. m) /\ Cardinality(1 .. m) = m
    BY <1>3, SetFacts
  <2>3. rank \in Surjection(kept, 1 .. m)
    <3> HIDE DEF rank, kept
    <3> QED
      BY <2>1, <2>2, FS_Injection
  <2> QED
    BY <2>3 DEF Surjection
<1> HIDE DEF upTo
<1>7. \A k \in 1 .. m : place[k] \in kept /\ Cardinality(upTo(place[k])) = k
  BY <1>6
<1>8. left = [k \in 1 .. m |-> s[place[k]]]
  BY <1>2
<1> HIDE DEF place, kept, m
<1>9. left \in Seq(S) /\ Len(left) = m /\ DOMAIN left = 1 .. m
  <2>1. \A k \in 1 .. m : s[place[k]] \in S
    BY <1>1, <1>3, <1>7
  <2> QED
    BY <1>3, <1>8, <2>1
<1>10. IsInjective(left)
  <2> SUFFICES ASSUME NEW k \in 1 .. m, NEW l \in 1 .. m, left[k] = left[l] PROVE k = l
    BY <1>9 DEF IsInjective
  <2>1. s[place[k]] = s[place[l]] /\ place[k] \in 1 .. n /\ place[l] \in 1 .. n
    BY <1>3, <1>7, <1>8
  <2>2. place[k] = place[l]
    BY <1>1, <2>1 DEF IsInjective
  <2> QED
    BY <1>7, <2>2
<1>11. Range(left) = {s[i] : i \in kept}
  <2>1. \A k \in 1 .. m : left[k] \in {s[i] : i \in kept}
    BY <1>7, <1>8
  <2>2. ASSUME NEW i \in kept PROVE \E k \in 1 .. m : left[k] = s[i]
    <3> DEFINE k == Cardinality(upTo(i))
    <3>1. k \in 1 .. m
      BY <1>4 DEF kept, m, upTo
    <3>2. place[k] \in kept /\ Cardinality(upTo(place[k])) = Cardinality(upTo(i))
      BY <1>7, <3>1
    <3>3. place[k] = i
      BY <1>5, <3>2 DEF kept, upTo
    <3> QED
      BY <1>8, <3>1, <3>3
  <2> QED
    BY <1>9, <2>1, <2>2 DEF Range
<1>12. Range(left) = Range(s) \ gone
  <2>1. \A i : i \in kept <=> i \in 1 .. n /\ s[i] \notin gone
    BY DEF kept
  <2> QED
    BY <1>1, <1>11, <2>1 DEF Range
<1>13. IsFiniteSet(gone \cap Range(s))
  <2>1. gone \cap Range(s) \subseteq {s[i] : i \in 1 .. n}
    BY <1>1 DEF Range
  <2>2. IsFiniteSet(1 .. n)
    BY <1>1, SetFacts
  <2> QED
    BY <2>1, <2>2, ImageIsSmaller
<1>14. ASSUME NEW k \in 1 .. m PROVE k <= place[k] /\ place[k] <= k + g
  <2> DEFINE i == place[k]
             removed == {j \in 1 .. i : s[j] \in gone}
  <2>1. i \in 1 .. n /\ i \in Nat /\ Cardinality(upTo(i)) = k /\ k \in Nat
    <3>1. i \in kept /\ Cardinality(upTo(i)) = k
      BY <1>7
    <3>2. i \in 1 .. n
      BY <1>3, <3>1
    <3> HIDE DEF i
    <3> QED
      BY <1>1, <3>1, <3>2
  <2>2. upTo(i) = {j \in 1 .. i : s[j] \notin gone}
    BY <1>1, <2>1 DEF upTo, kept
  <2> HIDE DEF i
  <2>3. IsFiniteSet(1 .. i) /\ Cardinality(1 .. i) = i
    BY <2>1, SetFacts
  <2>4. IsFiniteSet(upTo(i)) /\ IsFiniteSet(removed) /\ Cardinality(upTo(i)) <= i
    <3>1. upTo(i) \subseteq 1 .. i /\ removed \subseteq 1 .. i
      BY <2>2
    <3> HIDE DEF removed
    <3>2. IsFiniteSet(upTo(i)) /\ Cardinality(upTo(i)) <= i
      BY <2>3, <3>1, SetFacts
    <3>3. IsFiniteSet(removed)
      BY <2>3, <3>1, FS_Subset
    <3> QED
      BY <3>2, <3>3
  <2>5. i = Cardinality(upTo(i)) + Cardinality(removed)
    <3>1. upTo(i) \cup removed = 1 .. i /\ upTo(i) \cap removed = {}
      BY <2>2
    <3> HIDE DEF removed
    <3>2. Cardinality(upTo(i) \cap removed) = 0
      BY <3>1, FS_EmptySet
    <3>3. Cardinality(upTo(i) \cup removed) =
            Cardinality(upTo(i)) + Cardinality(removed) - Cardinality(upTo(i) \cap removed)
      BY <2>4, FS_Union
    <3>4. Cardinality(upTo(i)) \in Nat /\ Cardinality(removed) \in Nat
      BY <2>4, FS_CardinalityType
    <3>5. Cardinality(upTo(i) \cup removed) = i
      BY <2>3, <3>1
    <3> QED
      BY <2>1, <3>2, <3>3, <3>4, <3>5
  <2>6. Cardinality(removed) <= g
    <3> DEFINE who == [j \in removed |-> s[j]]
    <3>1. who \in [removed -> gone \cap Range(s)]
      BY <1>1, <2>1 DEF Range
    <3>2. \A a, b \in removed : s[a] = s[b] => a = b
      BY <1>1, <2>1 DEF IsInjective
    <3>3. who \in Injection(removed, gone \cap Range(s))
      <4> HIDE DEF removed
      <4> QED
        BY <3>1, <3>2 DEF Injection, IsInjective
    <3> HIDE DEF who, removed
    <3> QED
      BY <1>13, <3>3, FS_Injection
  <2>7. Cardinality(removed) \in Nat /\ g \in Nat
    BY <1>13, <2>4, FS_CardinalityType
  <2> HIDE DEF removed, g
  <2> QED
    BY <2>1, <2>4, <2>5, <2>6, <2>7 DEF i
<1>15. \A k \in 1 .. m : place[k] \in 1 .. n /\ left[k] = s[place[k]]
  BY <1>3, <1>7, <1>8
<1> QED
  BY <1>9, <1>10, <1>12, <1>13, <1>14, <1>15 DEF left, n

\* Up to a place there are, when some are removed, at most as many others as
\* are removed.
LEMMA FrontGains ==
  ASSUME NEW S, NEW s \in Seq(S), IsInjective(s), NEW gone, NEW at \in Nat
  PROVE  /\ IsFiniteSet(UpTo(Without(s, gone), at) \ UpTo(s, at))
         /\ Cardinality(UpTo(Without(s, gone), at) \ UpTo(s, at)) <= Cardinality(gone \cap Range(s))
<1> DEFINE t == Without(s, gone)
           g == Cardinality(gone \cap Range(s))
           new == UpTo(t, at) \ UpTo(s, at)
           places == {k \in 1 .. Len(t) : k <= at /\ at < k + g}
<1>1. /\ t \in Seq(S) /\ IsFiniteSet(gone \cap Range(s))
      /\ \A k \in 1 .. Len(t) : \E i \in 1 .. Len(s) : t[k] = s[i] /\ k <= i /\ i <= k + g
  BY WithoutFits
<1>2. g \in Nat /\ Len(t) \in Nat /\ Len(s) \in Nat
  BY <1>1, FS_CardinalityType
<1> HIDE DEF t, g
<1>3. new \subseteq {t[k] : k \in places}
  <2> SUFFICES ASSUME NEW k \in 1 .. Len(t), k <= at, t[k] \notin UpTo(s, at)
               PROVE  k \in places
    BY DEF UpTo
  <2>1. PICK i \in 1 .. Len(s) : t[k] = s[i] /\ i <= k + g
    BY <1>1
  <2>2. ~(i <= at)
    BY <2>1 DEF UpTo
  <2> QED
    BY <1>2, <2>1, <2>2
<1>4. IsFiniteSet(places) /\ Cardinality(places) <= g
  <2> DEFINE h == [k \in places |-> at + 1 - k]
  <2>1. h \in Injection(places, 1 .. g)
    <3>1. h \in [places -> 1 .. g]
      BY <1>2
    <3>2. \A j, k \in places : at + 1 - j = at + 1 - k => j = k
      BY <1>2
    <3> HIDE DEF places
    <3> QED
      BY <3>1, <3>2 DEF Injection, IsInjective
  <2>2. IsFiniteSet(1 .. g) /\ Cardinality(1 .. g) = g
    BY <1>2, SetFacts
  <2> HIDE DEF h, places
  <2> QED
    BY <2>1, <2>2, FS_Injection
<1>5. IsFiniteSet(new) /\ Cardinality(new) <= Cardinality(places)
  <2> HIDE DEF new, places
  <2> QED
    BY <1>3, <1>4, ImageIsSmaller
<1>6. IsFiniteSet(new) /\ Cardinality(new) <= g
  <2>1. Cardinality(new) \in Nat /\ Cardinality(places) \in Nat
    BY <1>4, <1>5, FS_CardinalityType
  <2> HIDE DEF new, places
  <2> QED
    BY <1>2, <1>4, <1>5, <2>1
<1> QED
  BY <1>6 DEF t, g

\* What is added at the end of a list of clients.
LEMMA JoinedList ==
  ASSUME NEW S, NEW s \in Seq(S), IsInjective(s), NEW e \in S, e \notin Range(s)
  PROVE  /\ Append(s, e) \in Seq(S) /\ IsInjective(Append(s, e))
         /\ Range(Append(s, e)) = Range(s) \cup {e}
         /\ Len(s) \in Nat /\ Len(Append(s, e)) = Len(s) + 1
         /\ Append(s, e)[Len(s) + 1] = e
         /\ \A i \in 1 .. Len(s) : Append(s, e)[i] = s[i]
<1> DEFINE t == Append(s, e)
<1>1. /\ t \in Seq(S) /\ Len(s) \in Nat /\ Len(t) = Len(s) + 1
      /\ t[Len(s) + 1] = e /\ \A i \in 1 .. Len(s) : t[i] = s[i]
      /\ DOMAIN t = 1 .. Len(s) + 1 /\ DOMAIN s = 1 .. Len(s)
  OBVIOUS
<1> HIDE DEF t
<1>2. \A i \in 1 .. Len(s) : s[i] # e
  BY <1>1 DEF Range
<1>3. IsInjective(t)
  <2> SUFFICES ASSUME NEW i \in 1 .. Len(s) + 1, NEW j \in 1 .. Len(s) + 1, t[i] = t[j]
               PROVE  i = j
    BY <1>1 DEF IsInjective
  <2> QED
    BY <1>1, <1>2 DEF IsInjective
<1>4. Range(t) = Range(s) \cup {e}
  <2>1. \A i \in 1 .. Len(s) + 1 : t[i] \in Range(s) \cup {e}
    BY <1>1 DEF Range
  <2>2. \A i \in 1 .. Len(s) : s[i] \in Range(t)
    BY <1>1 DEF Range
  <2>3. e \in Range(t)
    BY <1>1 DEF Range
  <2> QED
    BY <1>1, <2>1, <2>2, <2>3 DEF Range
<1> QED
  BY <1>1, <1>3, <1>4 DEF t

-----------------------------------------------------------------------------
(* The event bus *)

LEMMA SameStage ==
  ASSUME NEW p \in Publications, StageInv(p),
         pub'[p] = pub[p], calls'[p] = calls[p], cast'[p] = cast[p], sent'[p] = sent[p]
  PROVE  StageInv(p)'
  BY DEF StageInv, Casting

LEMMA SameCast ==
  ASSUME NEW p \in Publications, CastInv(p), UNCHANGED <<connections, client>>,
         cast'[p] = cast[p], sent'[p] = sent[p],
         removals'[p] = removals[p], audience'[p] = audience[p]
  PROVE  CastInv(p)'
<1>1. Heard(p)' = Heard(p) /\ Casting(p)' = Casting(p)
  BY DEF Heard, Casting
<1>2. Missed(p)' = Missed(p)
  BY <1>1 DEF Missed, UpTo
<1> QED
  BY <1>1, <1>2 DEF CastInv

LEMMA SameCalls ==
  ASSUME UNCHANGED calls
  PROVE  \A p \in Publications : CallsFit(p) => CallsFit(p)'
  BY DEF CallsFit

LEMMA SubscribeStep ==
  ASSUME IInv, NEW h \in Subscribers, Subscribe(h)
  PROVE  IInv'
<1>1. /\ h = Forward => h \notin Range(subscribers)
      /\ subscribers' = Append(subscribers, h)
      /\ UNCHANGED <<pub, calls, connections, client, cast, sent, removals, audience>>
  BY DEF Subscribe, wsVars, ghostVars
<1>2. /\ subscribers \in Seq(Subscribers)
      /\ \A i, j \in 1 .. Len(subscribers) :
           subscribers[i] = Forward /\ subscribers[j] = Forward => i = j
  BY DEF IInv, BusInv
<1>3. /\ subscribers' \in Seq(Subscribers)
      /\ Len(subscribers) \in Nat /\ Len(subscribers') = Len(subscribers) + 1
      /\ subscribers'[Len(subscribers) + 1] = h
      /\ \A i \in 1 .. Len(subscribers) : subscribers'[i] = subscribers[i]
  BY <1>1, <1>2
<1>4. h = Forward => \A i \in 1 .. Len(subscribers) : subscribers[i] # Forward
  BY <1>1, <1>2 DEF Range
<1>5. \A i, j \in 1 .. Len(subscribers') :
        subscribers'[i] = Forward /\ subscribers'[j] = Forward => i = j
  BY <1>2, <1>3, <1>4
<1>6. BusInv'
  BY <1>1, <1>3, <1>5, SameCalls DEF IInv, BusInv
<1>7. ListInv'
  BY <1>1 DEF IInv, ListInv
<1>8. \A p \in Publications : StageInv(p)' /\ CastInv(p)'
  BY <1>1, SameStage, SameCast DEF IInv
<1> QED
  BY <1>1, <1>6, <1>7, <1>8 DEF IInv

LEMMA ConcatFacts ==
  ASSUME NEW S, NEW s \in Seq(S), NEW t \in Seq(S)
  PROVE  /\ s \o t \in Seq(S) /\ Len(s \o t) = Len(s) + Len(t)
         /\ \A k \in 1 .. Len(s) : (s \o t)[k] = s[k]
         /\ \A k \in 1 .. Len(t) : (s \o t)[Len(s) + k] = t[k]
  OBVIOUS

\* The list without its i-th entry.
LEMMA RemovedAt ==
  ASSUME NEW S, NEW s \in Seq(S), NEW i \in 1 .. Len(s)
  PROVE  /\ RemoveAt(s, i) \in Seq(S) /\ Len(RemoveAt(s, i)) = Len(s) - 1
         /\ \A k \in 1 .. Len(s) - 1 : RemoveAt(s, i)[k] = IF k < i THEN s[k] ELSE s[k + 1]
<1> DEFINE a == SubSeq(s, 1, i - 1)
           b == SubSeq(s, i + 1, Len(s))
<1>1. Len(s) \in Nat
  OBVIOUS
<1>2. a \in Seq(S) /\ Len(a) = i - 1 /\ \A k \in 1 .. i - 1 : a[k] = s[k]
  OBVIOUS
<1>3. b \in Seq(S) /\ Len(b) = Len(s) - i /\ \A k \in 1 .. Len(s) - i : b[k] = s[k + i]
  OBVIOUS
<1> HIDE DEF a, b
<1>4. /\ a \o b \in Seq(S) /\ Len(a \o b) = Len(a) + Len(b)
      /\ \A k \in 1 .. Len(a) : (a \o b)[k] = a[k]
      /\ \A k \in 1 .. Len(b) : (a \o b)[Len(a) + k] = b[k]
  <2>1. a \in Seq(S) /\ b \in Seq(S)
    BY <1>2, <1>3
  <2> QED
    BY <2>1, ConcatFacts
<1>5. ASSUME NEW k \in 1 .. Len(s) - 1 PROVE (a \o b)[k] = IF k < i THEN s[k] ELSE s[k + 1]
  <2>1. CASE k < i
    <3>1. k \in 1 .. i - 1 /\ k \in 1 .. Len(a)
      BY <1>1, <1>2, <1>3, <2>1
    <3> QED
      BY <1>2, <1>4, <2>1, <3>1
  <2>2. CASE ~(k < i)
    <3> DEFINE l == k - i + 1
    <3>1. l \in 1 .. Len(b) /\ Len(a) + l = k /\ l \in 1 .. Len(s) - i /\ l + i = k + 1
      BY <1>1, <1>2, <1>3, <2>2
    <3> HIDE DEF l
    <3>2. (a \o b)[k] = b[l]
      BY <1>4, <3>1
    <3>3. b[l] = s[l + i]
      BY <1>3, <3>1
    <3> QED
      BY <2>2, <3>1, <3>2, <3>3
  <2> QED
    BY <2>1, <2>2
<1>6. RemoveAt(s, i) = a \o b
  BY DEF RemoveAt, a, b
<1>7. Len(a \o b) = Len(s) - 1
  BY <1>1, <1>2, <1>3, <1>4
<1> QED
  BY <1>4, <1>5, <1>6, <1>7

LEMMA UnsubscribeStep ==
  ASSUME IInv, NEW h \in Subscribers, Unsubscribe(h)
  PROVE  IInv'
<1>1. /\ h \in Range(subscribers)
      /\ subscribers' = RemoveFirst(subscribers, h)
      /\ UNCHANGED <<pub, calls, connections, client, cast, sent, removals, audience>>
  BY DEF Unsubscribe, wsVars, ghostVars
<1>2. /\ subscribers \in Seq(Subscribers) /\ Len(subscribers) \in Nat
      /\ \A i, j \in 1 .. Len(subscribers) :
           subscribers[i] = Forward /\ subscribers[j] = Forward => i = j
  BY DEF IInv, BusInv
<1>3. PICK i \in 1 .. Len(subscribers) : subscribers' = RemoveAt(subscribers, i)
  <2> DEFINE I == {i \in 1 .. Len(subscribers) : subscribers[i] = h}
  <2>1. I # {} /\ I \subseteq Nat /\ I \subseteq 1 .. Len(subscribers)
    BY <1>1, <1>2 DEF Range
  <2>2. subscribers' = RemoveAt(subscribers, Min(I))
    BY <1>1, <2>1 DEF RemoveFirst, SelectInSeq
  <2> HIDE DEF I
  <2>3. Min(I) \in I
    BY <2>1, LeastNumber DEF Min
  <2> QED
    BY <2>1, <2>2, <2>3
<1>4. /\ subscribers' \in Seq(Subscribers) /\ Len(subscribers') = Len(subscribers) - 1
      /\ \A k \in 1 .. Len(subscribers) - 1 :
           subscribers'[k] = IF k < i THEN subscribers[k] ELSE subscribers[k + 1]
  BY <1>2, <1>3, RemovedAt
<1>5. \A k, l \in 1 .. Len(subscribers') :
        subscribers'[k] = Forward /\ subscribers'[l] = Forward => k = l
  <2> SUFFICES ASSUME NEW k \in 1 .. Len(subscribers) - 1, NEW l \in 1 .. Len(subscribers) - 1,
                      subscribers'[k] = Forward, subscribers'[l] = Forward
               PROVE  k = l
    BY <1>4
  <2> DEFINE was(j) == IF j < i THEN j ELSE j + 1
  <2>1. /\ was(k) \in 1 .. Len(subscribers) /\ was(l) \in 1 .. Len(subscribers)
        /\ subscribers[was(k)] = Forward /\ subscribers[was(l)] = Forward
    <3>1. ASSUME NEW j \in 1 .. Len(subscribers) - 1
          PROVE  was(j) \in 1 .. Len(subscribers) /\ subscribers'[j] = subscribers[was(j)]
      <4>1. CASE j < i
        BY <1>2, <1>4, <4>1
      <4>2. CASE ~(j < i)
        BY <1>2, <1>4, <4>2
      <4> QED
        BY <4>1, <4>2
    <3> HIDE DEF was
    <3> QED
      BY <3>1
  <2>2. was(k) = was(l)
    <3> HIDE DEF was
    <3> QED
      BY <1>2, <2>1
  <2> QED
    BY <2>2
<1>6. BusInv'
  BY <1>1, <1>4, <1>5, SameCalls DEF IInv, BusInv
<1>7. ListInv'
  BY <1>1 DEF IInv, ListInv
<1>8. \A p \in Publications : StageInv(p)' /\ CastInv(p)'
  BY <1>1, SameStage, SameCast DEF IInv
<1> QED
  BY <1>1, <1>6, <1>7, <1>8 DEF IInv

LEMMA SeqMember ==
  ASSUME NEW S, NEW s \in Seq(S), NEW i \in DOMAIN s
  PROVE  Len(s) \in Nat /\ DOMAIN s = 1 .. Len(s) /\ s[i] \in S
  OBVIOUS

\* One call of a publication goes on, the others do not.
LEMMA CallGoes ==
  ASSUME BusInv, NEW p \in Publications, NEW i \in DOMAIN calls[p], NEW stage \in Stages,
         CallGoesTo(p, i, stage)
  PROVE  /\ DOMAIN calls' = Publications
         /\ calls'[p] \in Calls /\ Len(calls'[p]) = Len(calls[p])
         /\ i \in 1 .. Len(calls[p]) /\ calls'[p][i].stage = stage
         /\ \A j \in 1 .. Len(calls[p]) :
              /\ calls'[p][j].handler = calls[p][j].handler
              /\ j # i => calls'[p][j].stage = calls[p][j].stage
         /\ \A q \in Publications \ {p} : calls'[q] = calls[q]
<1> DEFINE one == calls[p]
           goes == [one EXCEPT ![i].stage = stage]
<1>1. /\ DOMAIN calls = Publications /\ one \in Seq([handler : Subscribers, stage : Stages])
      /\ i \in DOMAIN one
  BY DEF BusInv, CallsFit, Calls
<1>2. calls' = [calls EXCEPT ![p] = goes]
  BY DEF CallGoesTo
<1>3. DOMAIN calls' = Publications /\ calls'[p] = goes /\ \A q \in Publications \ {p} : calls'[q] = calls[q]
  BY <1>1, <1>2
<1> HIDE DEF one
<1>4. Len(one) \in Nat /\ DOMAIN one = 1 .. Len(one) /\ i \in 1 .. Len(one)
      /\ one[i] \in [handler : Subscribers, stage : Stages]
  BY <1>1, SeqMember
<1>5. goes = [one EXCEPT ![i] = [one[i] EXCEPT !.stage = stage]]
  OBVIOUS
<1>6. [one[i] EXCEPT !.stage = stage] \in [handler : Subscribers, stage : Stages]
  BY <1>4
<1>7. /\ goes \in Calls /\ Len(goes) = Len(one)
      /\ goes[i] = [one[i] EXCEPT !.stage = stage]
      /\ \A j \in 1 .. Len(one) : j # i => goes[j] = one[j]
  BY <1>1, <1>4, <1>5, <1>6 DEF Calls
<1>8. goes[i].stage = stage /\ goes[i].handler = one[i].handler
  BY <1>4, <1>7
<1> HIDE DEF goes
<1> QED
  BY <1>3, <1>4, <1>7, <1>8 DEF one

\* What a step of one call leaves of the bus.
LEMMA CallKeepsBus ==
  ASSUME BusInv, NEW p \in Publications, NEW i \in DOMAIN calls[p], NEW stage \in Stages,
         CallGoesTo(p, i, stage), UNCHANGED <<subscribers, pub>>
  PROVE  BusInv'
<1>1. /\ DOMAIN calls' = Publications
      /\ calls'[p] \in Calls /\ Len(calls'[p]) = Len(calls[p])
      /\ \A j \in 1 .. Len(calls[p]) : calls'[p][j].handler = calls[p][j].handler
      /\ \A q \in Publications \ {p} : calls'[q] = calls[q]
  BY CallGoes
<1>2. \A q \in Publications : CallsFit(q)'
  BY <1>1 DEF BusInv, CallsFit
<1> QED
  BY <1>1, <1>2 DEF BusInv

LEMMA HandlerStep ==
  ASSUME IInv, NEW p \in Publications, NEW i, HandlerReturns(p, i) \/ HandlerRaises(p, i)
  PROVE  IInv'
<1>1. PICK stage \in {"returned", "raised"} : CallGoesTo(p, i, stage)
  BY DEF HandlerReturns, HandlerRaises
<1>2. /\ pub[p] = "gathering" /\ i \in DOMAIN calls[p] /\ calls[p][i].handler \in Handlers
      /\ UNCHANGED <<subscribers, pub, connections, client, cast, sent, removals, audience>>
  BY DeliveryAssumption DEF HandlerReturns, HandlerRaises, InStage, wsVars, ghostVars
<1>3. BusInv /\ stage \in Stages
  BY DEF IInv, Stages
<1>4. BusInv'
  BY <1>1, <1>2, <1>3, CallKeepsBus
<1>5. ListInv'
  BY <1>2 DEF IInv, ListInv
<1>6. \A q \in Publications : CastInv(q)'
  BY <1>2, SameCast DEF IInv
<1>7. \A q \in Publications : StageInv(q)'
  <2> TAKE q \in Publications
  <2>1. CASE q = p
    <3>1. /\ Len(calls'[p]) = Len(calls[p]) /\ i \in 1 .. Len(calls[p]) /\ calls'[p][i].stage = stage
          /\ \A j \in 1 .. Len(calls[p]) :
               /\ calls'[p][j].handler = calls[p][j].handler
               /\ j # i => calls'[p][j].stage = calls[p][j].stage
      BY <1>1, <1>2, <1>3, CallGoes
    <3>2. stage # "running" /\ stage # "due"
      OBVIOUS
    <3>3. Casting(p)' = Casting(p) /\ sent' = sent /\ pub' = pub
      BY <1>2 DEF Casting
    <3>4. StageInv(p)
      BY DEF IInv
    <3>5. ASSUME NEW j \in 1 .. Len(calls'[p])
          PROVE  /\ calls'[p][j].stage = "running" =>
                      calls'[p][j].handler = Forward /\ Casting(p)'
                 /\ calls'[p][j].stage = "due" /\ calls'[p][j].handler = Forward =>
                      ~Casting(p)' /\ sent'[p] = <<>>
      <4>1. CASE j = i
        BY <3>1, <3>2, <4>1
      <4>2. CASE j # i
        BY <1>2, <3>1, <3>3, <3>4, <4>2 DEF StageInv
      <4> QED
        BY <4>1, <4>2
    <3>6. StageInv(p)'
      BY <1>2, <3>3, <3>4, <3>5 DEF StageInv
    <3> QED
      BY <2>1, <3>6
  <2>2. CASE q # p
    <3>1. calls'[q] = calls[q]
      BY <1>1, <1>2, <1>3, <2>2, CallGoes
    <3> QED
      BY <1>2, <3>1, SameStage DEF IInv
  <2> QED
    BY <2>1, <2>2
<1> QED
  BY <1>2, <1>4, <1>5, <1>6, <1>7 DEF IInv

LEMMA PublishStep ==
  ASSUME IInv, NEW p \in Publications, Publish(p)
  PROVE  IInv'
<1> DEFINE new == [i \in DOMAIN subscribers |-> [handler |-> subscribers[i], stage |-> "due"]]
<1>1. /\ pub[p] = "waiting" /\ calls' = [calls EXCEPT ![p] = new]
      /\ pub' = [pub EXCEPT ![p] = IF subscribers = <<>> THEN "returned" ELSE "gathering"]
      /\ UNCHANGED <<subscribers, connections, client, cast, sent, removals, audience>>
  BY DEF Publish, wsVars, ghostVars
<1>2. /\ subscribers \in Seq(Subscribers) /\ DOMAIN calls = Publications /\ DOMAIN pub = Publications
      /\ \A i, j \in 1 .. Len(subscribers) :
           subscribers[i] = Forward /\ subscribers[j] = Forward => i = j
  BY DEF IInv, BusInv
<1>3. /\ new \in Seq([handler : Subscribers, stage : Stages]) /\ Len(new) = Len(subscribers)
      /\ \A i \in 1 .. Len(subscribers) : new[i].handler = subscribers[i] /\ new[i].stage = "due"
  <2>1. DOMAIN subscribers = 1 .. Len(subscribers) /\ Len(subscribers) \in Nat
    BY <1>2
  <2>2. \A i \in 1 .. Len(subscribers) :
          [handler |-> subscribers[i], stage |-> "due"] \in [handler : Subscribers, stage : Stages]
    BY <1>2 DEF Stages
  <2>3. new = [i \in 1 .. Len(subscribers) |-> [handler |-> subscribers[i], stage |-> "due"]]
    BY <2>1
  <2> HIDE DEF new
  <2> QED
    BY <2>1, <2>2, <2>3
<1> HIDE DEF new
<1>4. /\ DOMAIN calls' = Publications /\ calls'[p] = new
      /\ \A q \in Publications \ {p} : calls'[q] = calls[q] /\ pub'[q] = pub[q]
      /\ DOMAIN pub' = Publications
  BY <1>1, <1>2
<1>5. BusInv'
  <2>1. CallsFit(p)'
    BY <1>2, <1>3, <1>4 DEF CallsFit, Calls
  <2>2. \A q \in Publications \ {p} : CallsFit(q)'
    BY <1>4 DEF IInv, BusInv, CallsFit
  <2> QED
    BY <1>1, <1>4, <2>1, <2>2 DEF IInv, BusInv
<1>6. ListInv'
  BY <1>1 DEF IInv, ListInv
<1>7. \A q \in Publications : CastInv(q)'
  BY <1>1, SameCast DEF IInv
<1>8. \A q \in Publications : StageInv(q)'
  <2> TAKE q \in Publications
  <2>1. CASE q = p
    BY <1>1, <1>3, <1>4, <2>1 DEF IInv, StageInv, Casting
  <2>2. CASE q # p
    BY <1>1, <1>4, <2>2, SameStage DEF IInv
  <2> QED
    BY <2>1, <2>2
<1> QED
  BY <1>1, <1>5, <1>6, <1>7, <1>8 DEF IInv

\* A publication that has ended leaves nothing.
LEMMA EndStep ==
  ASSUME IInv, NEW p \in Publications, PublishReturns(p) \/ PublishCancelled(p)
  PROVE  IInv'
<1>1. /\ Forget(p) /\ UNCHANGED <<subscribers, connections, client>>
      /\ \E end \in {"returned", "raised", "cancelled"} : pub' = [pub EXCEPT ![p] = end]
  BY DEF PublishReturns, PublishCancelled
<1>2. /\ DOMAIN pub = Publications /\ DOMAIN calls = Publications
      /\ DOMAIN cast = Publications /\ DOMAIN sent = Publications
      /\ DOMAIN removals = Publications /\ DOMAIN audience = Publications
  BY DEF IInv, BusInv
<1>3. /\ DOMAIN pub' = Publications /\ DOMAIN calls' = Publications
      /\ DOMAIN cast' = Publications /\ DOMAIN sent' = Publications
      /\ DOMAIN removals' = Publications /\ DOMAIN audience' = Publications
  BY <1>1, <1>2 DEF Forget
<1>4. /\ pub'[p] # "gathering" /\ calls'[p] = <<>> /\ cast'[p] = NoBroadcast
      /\ sent'[p] = <<>> /\ removals'[p] = 0 /\ audience'[p] = {}
  BY <1>1, <1>2 DEF Forget
<1>5. \A q \in Publications \ {p} :
        /\ pub'[q] = pub[q] /\ calls'[q] = calls[q] /\ cast'[q] = cast[q]
        /\ sent'[q] = sent[q] /\ removals'[q] = removals[q] /\ audience'[q] = audience[q]
  BY <1>1, <1>2 DEF Forget
<1>6. BusInv'
  <2>1. CallsFit(p)'
    BY <1>4 DEF CallsFit, Calls
  <2>2. \A q \in Publications \ {p} : CallsFit(q)'
    BY <1>5 DEF IInv, BusInv, CallsFit
  <2> QED
    BY <1>1, <1>3, <2>1, <2>2 DEF IInv, BusInv
<1>7. ListInv'
  BY <1>1 DEF IInv, ListInv
<1>8. ~Casting(p)'
  BY <1>4 DEF Casting, NoBroadcast
<1>9. StageInv(p)' /\ CastInv(p)'
  BY <1>4, <1>8 DEF StageInv, CastInv, IsInjective
<1>10. \A q \in Publications \ {p} : StageInv(q)' /\ CastInv(q)'
  BY <1>1, <1>5, SameStage, SameCast DEF IInv
<1> QED
  BY <1>3, <1>6, <1>7, <1>9, <1>10 DEF IInv

-----------------------------------------------------------------------------
(* The connections *)

LEMMA MissedIsFinite ==
  ASSUME NEW p \in Publications, CastInv(p), Casting(p)
  PROVE  IsFiniteSet(Missed(p)) /\ Cardinality(Missed(p)) \in Nat
<1>1. Missed(p) \subseteq Clients
  BY DEF Missed, CastInv
<1> QED
  BY <1>1, DeliveryAssumption, SetFacts

\* Without a broadcast there is little to keep.
LEMMA IdleCast ==
  ASSUME NEW p \in Publications, CastInv(p), ~Casting(p),
         cast'[p] = cast[p], sent'[p] = sent[p], removals'[p] = removals[p]
  PROVE  CastInv(p)'
  BY DEF CastInv, Casting

\* The clients go on: nobody comes back who was broken or gone.
ClientsGoOn ==
  \A c \in Clients :
    client'[c] # client[c] =>
      <<client[c], client'[c]>> \in {<<"away", "connected">>, <<"connected", "broken">>, <<"broken", "gone">>}

\* A broadcast that waits while the list and the clients change.
LEMMA WaitingCast ==
  ASSUME NEW p \in Publications, CastInv(p), Casting(p), ClientsGoOn,
         cast'[p] = cast[p], sent'[p] = sent[p], audience'[p] = audience[p],
         \A j \in 1 .. Len(connections') : j > cast[p].at => connections'[j] \notin Heard(p),
         removals'[p] \in Nat, Cardinality(Missed(p)') <= removals'[p]
  PROVE  CastInv(p)'
<1>1. Heard(p)' = Heard(p) /\ Casting(p)'
  BY DEF Heard, Casting
<1>2. \A c \in Clients :
        /\ client[c] # "away" => client'[c] # "away"
        /\ client[c] \in {"broken", "gone"} => client'[c] \in {"broken", "gone"}
  BY DEF ClientsGoOn
<1>3. \A i \in 1 .. Len(cast[p].stale) : cast[p].stale[i] \in Clients
  BY DEF CastInv
<1> QED
  BY <1>1, <1>2, <1>3 DEF CastInv

LEMMA ConnectStep ==
  ASSUME IInv, NEW c \in Clients, Connect(c)
  PROVE  IInv'
<1>1. /\ client[c] = "away" /\ client' = [client EXCEPT ![c] = "connected"]
      /\ connections' = Append(connections, c)
      /\ UNCHANGED <<subscribers, pub, calls, cast, sent, removals, audience>>
  BY DEF Connect, busVars
<1>2. /\ connections \in Seq(Clients) /\ IsInjective(connections)
      /\ client \in [Clients -> {"away", "connected", "broken", "gone"}]
      /\ \A d \in Range(connections) : client[d] \in {"connected", "broken"}
  BY DEF IInv, ListInv
<1>3. c \notin Range(connections)
  BY <1>1, <1>2
<1>4. /\ connections' \in Seq(Clients) /\ IsInjective(connections')
      /\ Range(connections') = Range(connections) \cup {c}
      /\ Len(connections) \in Nat /\ Len(connections') = Len(connections) + 1
      /\ connections'[Len(connections) + 1] = c
      /\ \A i \in 1 .. Len(connections) : connections'[i] = connections[i]
  BY <1>1, <1>2, <1>3, JoinedList
<1>5. ListInv'
  BY <1>1, <1>2, <1>4 DEF ListInv
<1>6. BusInv'
  BY <1>1, SameCalls DEF IInv, BusInv
<1>7. ClientsGoOn
  BY <1>1, <1>2 DEF ClientsGoOn
<1>8. ASSUME NEW p \in Publications PROVE StageInv(p)' /\ CastInv(p)'
  <2>1. CASE ~Casting(p)
    BY <1>1, <2>1, SameStage, IdleCast DEF IInv
  <2>2. CASE Casting(p)
    <3>1. /\ CastInv(p) /\ removals[p] \in Nat /\ Cardinality(Missed(p)) <= removals[p]
          /\ c \notin Heard(p) /\ c \notin audience[p]
          /\ \A j \in 1 .. Len(connections) : j > cast[p].at => connections[j] \notin Heard(p)
      BY <1>1, <2>2 DEF IInv, CastInv
    <3>2. \A j \in 1 .. Len(connections') : j > cast[p].at => connections'[j] \notin Heard(p)
      BY <1>4, <3>1
    <3>3. Missed(p)' \subseteq Missed(p)
      <4>1. Heard(p)' = Heard(p) /\ audience'[p] = audience[p] /\ cast'[p] = cast[p]
        BY <1>1 DEF Heard
      <4>2. \A d \in UpTo(connections', cast[p].at) : d = c \/ d \in UpTo(connections, cast[p].at)
        BY <1>4 DEF UpTo
      <4>3. \A d \in audience[p] : client'[d] = client[d]
        BY <1>1, <1>2, <3>1
      <4> QED
        BY <3>1, <4>1, <4>2, <4>3 DEF Missed
    <3>4. Cardinality(Missed(p)') \in Nat /\ Cardinality(Missed(p)') <= Cardinality(Missed(p))
      BY <2>2, <3>1, <3>3, MissedIsFinite, SetFacts
    <3>5. Cardinality(Missed(p)) \in Nat
      BY <2>2, <3>1, MissedIsFinite
    <3>6. removals'[p] \in Nat /\ Cardinality(Missed(p)') <= removals'[p]
      BY <1>1, <3>1, <3>4, <3>5
    <3>7. CastInv(p)'
      BY <1>1, <1>7, <2>2, <3>1, <3>2, <3>6, WaitingCast
    <3> QED
      BY <1>1, <3>7, SameStage DEF IInv
  <2> QED
    BY <2>1, <2>2
<1> QED
  BY <1>1, <1>5, <1>6, <1>8 DEF IInv

LEMMA BreakStep ==
  ASSUME IInv, NEW c \in Clients, Break(c)
  PROVE  IInv'
<1>1. /\ client[c] = "connected" /\ client' = [client EXCEPT ![c] = "broken"]
      /\ UNCHANGED <<subscribers, pub, calls, connections, cast, sent, removals, audience>>
  BY DEF Break, busVars
<1>2. /\ connections \in Seq(Clients) /\ client \in [Clients -> {"away", "connected", "broken", "gone"}]
      /\ \A d \in Range(connections) : client[d] \in {"connected", "broken"}
  BY DEF IInv, ListInv
<1>3. ListInv'
  BY <1>1, <1>2 DEF IInv, ListInv
<1>4. BusInv'
  BY <1>1, SameCalls DEF IInv, BusInv
<1>5. ClientsGoOn /\ \A d \in Clients : client'[d] = "connected" => client[d] = "connected"
  BY <1>1, <1>2 DEF ClientsGoOn
<1>6. ASSUME NEW p \in Publications PROVE StageInv(p)' /\ CastInv(p)'
  <2>1. CASE ~Casting(p)
    BY <1>1, <2>1, SameStage, IdleCast DEF IInv
  <2>2. CASE Casting(p)
    <3>1. /\ CastInv(p) /\ removals[p] \in Nat /\ Cardinality(Missed(p)) <= removals[p]
          /\ audience[p] \subseteq Clients
          /\ \A j \in 1 .. Len(connections) : j > cast[p].at => connections[j] \notin Heard(p)
      BY <2>2 DEF IInv, CastInv
    <3>2. Missed(p)' \subseteq Missed(p)
      <4>1. Heard(p)' = Heard(p) /\ audience'[p] = audience[p]
            /\ UpTo(connections, cast[p].at)' = UpTo(connections, cast[p].at)
        BY <1>1 DEF Heard, UpTo
      <4> QED
        BY <1>5, <3>1, <4>1 DEF Missed
    <3>3. Cardinality(Missed(p)') \in Nat /\ Cardinality(Missed(p)') <= Cardinality(Missed(p))
      BY <2>2, <3>1, <3>2, MissedIsFinite, SetFacts
    <3>4. Cardinality(Missed(p)) \in Nat
      BY <2>2, <3>1, MissedIsFinite
    <3>5. removals'[p] \in Nat /\ Cardinality(Missed(p)') <= removals'[p]
      BY <1>1, <3>1, <3>3, <3>4
    <3>6. CastInv(p)'
      BY <1>1, <1>5, <2>2, <3>1, <3>5, WaitingCast
    <3> QED
      BY <1>1, <3>6, SameStage DEF IInv
  <2> QED
    BY <2>1, <2>2
<1> QED
  BY <1>1, <1>3, <1>4, <1>6 DEF IInv

\* A broadcast that waits while others are removed from the list.
LEMMA RemovalCast ==
  ASSUME ListInv, NEW p \in Publications, CastInv(p), Casting(p), ClientsGoOn,
         \A c \in Clients : client'[c] = "connected" => client[c] = "connected",
         cast'[p] = cast[p], sent'[p] = sent[p], audience'[p] = audience[p],
         NEW gone, connections' = Without(connections, gone),
         removals'[p] = removals[p] + Cardinality(gone \cap Range(connections))
  PROVE  CastInv(p)'
<1> DEFINE at == cast[p].at
           n == Cardinality(gone \cap Range(connections))
           new == UpTo(connections', at) \ UpTo(connections, at)
<1>1. /\ connections \in Seq(Clients) /\ IsInjective(connections)
      /\ removals[p] \in Nat /\ Cardinality(Missed(p)) <= removals[p] /\ at \in Nat
      /\ audience[p] \subseteq Clients
      /\ \A j \in 1 .. Len(connections) : j > at => connections[j] \notin Heard(p)
  BY DEF ListInv, CastInv
<1>2. /\ connections' \in Seq(Clients) /\ IsFiniteSet(gone \cap Range(connections))
      /\ \A k \in 1 .. Len(connections') : \E i \in 1 .. Len(connections) :
           connections'[k] = connections[i] /\ k <= i
  <2> DEFINE left == Without(connections, gone)
  <2>1. /\ left \in Seq(Clients) /\ IsFiniteSet(gone \cap Range(connections))
        /\ \A k \in 1 .. Len(left) : \E i \in 1 .. Len(connections) :
             /\ left[k] = connections[i]
             /\ k <= i /\ i <= k + Cardinality(gone \cap Range(connections))
    BY <1>1, WithoutFits
  <2>2. connections' = left
    OBVIOUS
  <2> HIDE DEF left
  <2> QED
    BY <2>1, <2>2
<1>3. n \in Nat
  BY <1>2, FS_CardinalityType
<1>4. \A j \in 1 .. Len(connections') : j > at => connections'[j] \notin Heard(p)
  <2> SUFFICES ASSUME NEW j \in 1 .. Len(connections'), j > at PROVE connections'[j] \notin Heard(p)
    OBVIOUS
  <2>1. PICK i \in 1 .. Len(connections) : connections'[j] = connections[i] /\ j <= i
    BY <1>2
  <2>2. i > at
    BY <1>1, <1>2, <2>1
  <2> QED
    BY <1>1, <2>1, <2>2
<1>5. IsFiniteSet(new) /\ Cardinality(new) \in Nat /\ Cardinality(new) <= n
  BY <1>1, FrontGains, FS_CardinalityType
<1>6. Missed(p)' \subseteq Missed(p) \cup new
  <2>1. Heard(p)' = Heard(p) /\ audience'[p] = audience[p] /\ cast'[p] = cast[p]
    BY DEF Heard
  <2> QED
    BY <1>1, <2>1 DEF Missed
<1> HIDE DEF n, new
<1>7. removals'[p] \in Nat /\ Cardinality(Missed(p)') <= removals'[p]
  <2>1. IsFiniteSet(Missed(p)) /\ Cardinality(Missed(p)) \in Nat
    BY MissedIsFinite
  <2>2. /\ IsFiniteSet(Missed(p) \cup new)
        /\ Cardinality(Missed(p) \cup new) = Cardinality(Missed(p)) + Cardinality(new) - Cardinality(Missed(p) \cap new)
    BY <1>5, <2>1, FS_Union
  <2>3. Cardinality(Missed(p) \cap new) \in Nat
    <3>1. Missed(p) \cap new \subseteq new
      OBVIOUS
    <3> QED
      BY <1>5, <3>1, SetFacts
  <2>4. Cardinality(Missed(p)') \in Nat /\ Cardinality(Missed(p)') <= Cardinality(Missed(p) \cup new)
    BY <1>6, <2>2, SetFacts
  <2> QED
    BY <1>1, <1>3, <1>5, <2>1, <2>2, <2>3, <2>4 DEF n
<1> QED
  BY <1>4, <1>7, WaitingCast

LEMMA DisconnectStep ==
  ASSUME IInv, NEW c \in Clients, Disconnect(c)
  PROVE  IInv'
<1>1. /\ client[c] = "broken" /\ client' = [client EXCEPT ![c] = "gone"]
      /\ connections' = Without(connections, {c})
      /\ removals' = [p \in Publications |-> IF Casting(p) /\ p \notin {}
                                             THEN removals[p] + IF c \in Range(connections) THEN 1 ELSE 0
                                             ELSE removals[p]]
      /\ UNCHANGED <<subscribers, pub, calls, cast, sent, audience>>
  BY DEF Disconnect, busVars, CountRemovals
<1>2. ListInv /\ connections \in Seq(Clients) /\ IsInjective(connections)
      /\ client \in [Clients -> {"away", "connected", "broken", "gone"}]
      /\ \A d \in Range(connections) : client[d] \in {"connected", "broken"}
  BY DEF IInv, ListInv
<1>3. /\ connections' \in Seq(Clients) /\ IsInjective(connections')
      /\ Range(connections') = Range(connections) \ {c}
  BY <1>1, <1>2, WithoutFits
<1>4. Range(connections) \subseteq Clients
  BY <1>2 DEF Range
<1>5. ListInv'
  BY <1>1, <1>2, <1>3, <1>4 DEF ListInv
<1>6. BusInv'
  BY <1>1, SameCalls DEF IInv, BusInv
<1>7. ClientsGoOn /\ \A d \in Clients : client'[d] = "connected" => client[d] = "connected"
  BY <1>1, <1>2 DEF ClientsGoOn
<1>8. Cardinality({c} \cap Range(connections)) = IF c \in Range(connections) THEN 1 ELSE 0
  <2>1. CASE c \in Range(connections)
    <3>1. {c} \cap Range(connections) = {c}
      BY <2>1
    <3> QED
      BY <2>1, <3>1, FS_Singleton
  <2>2. CASE c \notin Range(connections)
    <3>1. {c} \cap Range(connections) = {}
      BY <2>2
    <3> QED
      BY <2>2, <3>1, FS_EmptySet
  <2> QED
    BY <2>1, <2>2
<1>9. ASSUME NEW p \in Publications PROVE StageInv(p)' /\ CastInv(p)'
  <2>1. CASE ~Casting(p)
    BY <1>1, <2>1, SameStage, IdleCast DEF IInv
  <2>2. CASE Casting(p)
    <3>1. removals'[p] = removals[p] + Cardinality({c} \cap Range(connections))
      BY <1>1, <1>8, <2>2
    <3>2. CastInv(p) /\ StageInv(p)
      BY DEF IInv
    <3>3. CastInv(p)'
      BY <1>1, <1>2, <1>7, <2>2, <3>1, <3>2, RemovalCast
    <3> QED
      BY <1>1, <3>2, <3>3, SameStage
  <2> QED
    BY <2>1, <2>2
<1> QED
  BY <1>1, <1>5, <1>6, <1>9 DEF IInv

LEMMA FirstFits ==
  ASSUME ListInv, NEW k \in Nat, SendsFrom(k) # {}
  PROVE  /\ First(SendsFrom(k)) \in SendsFrom(k)
         /\ \A j \in SendsFrom(k) : First(SendsFrom(k)) <= j
<1>1. SendsFrom(k) \subseteq Nat
  BY DEF SendsFrom, ListInv
<1> QED
  BY <1>1, LeastNumber DEF First

LEMMA BroadcastStep ==
  ASSUME IInv, NEW p \in Publications, NEW i, Broadcast(p, i)
  PROVE  IInv'
<1>1. /\ pub[p] = "gathering" /\ i \in DOMAIN calls[p] /\ calls[p][i].stage = "due"
      /\ calls[p][i].handler = Forward
      /\ audience' = [audience EXCEPT ![p] = {c \in Range(connections) : client[c] = "connected"}]
      /\ UNCHANGED <<subscribers, pub, connections, client, sent, removals>>
  BY DEF Broadcast, InStage
<1>2. /\ BusInv /\ ListInv /\ StageInv(p) /\ CastInv(p)
      /\ DOMAIN cast = Publications /\ DOMAIN audience = Publications
  BY DEF IInv
<1>3. i \in 1 .. Len(calls[p]) /\ ~Casting(p) /\ sent[p] = <<>>
  <2>1. i \in 1 .. Len(calls[p])
    BY <1>1, <1>2, SeqMember DEF BusInv, CallsFit, Calls
  <2> QED
    BY <1>1, <1>2, <2>1 DEF StageInv
<1>4. PICK stage \in {"running", "returned"} :
        /\ CallGoesTo(p, i, stage)
        /\ stage = "running" =>
             /\ SendsFrom(1) # {}
             /\ cast' = [cast EXCEPT ![p] = [at |-> First(SendsFrom(1)),
                                             to |-> connections[First(SendsFrom(1))],
                                             stale |-> <<>>]]
        /\ stage = "returned" => UNCHANGED cast
  BY DEF Broadcast
<1>5. /\ DOMAIN calls' = Publications
      /\ calls'[p] \in Calls /\ Len(calls'[p]) = Len(calls[p]) /\ calls'[p][i].stage = stage
      /\ \A j \in 1 .. Len(calls[p]) :
           /\ calls'[p][j].handler = calls[p][j].handler
           /\ j # i => calls'[p][j].stage = calls[p][j].stage
      /\ \A q \in Publications \ {p} : calls'[q] = calls[q]
  BY <1>1, <1>2, <1>4, CallGoes DEF Stages
<1>6. BusInv'
  BY <1>1, <1>2, <1>4, CallKeepsBus DEF Stages
<1>7. ListInv'
  BY <1>1, <1>2 DEF ListInv
<1>8. /\ DOMAIN cast' = Publications /\ DOMAIN audience' = Publications
      /\ \A q \in Publications \ {p} : cast'[q] = cast[q] /\ audience'[q] = audience[q]
  BY <1>1, <1>2, <1>4
<1>9. ASSUME NEW q \in Publications \ {p} PROVE StageInv(q)' /\ CastInv(q)'
  BY <1>1, <1>5, <1>8, SameStage, SameCast DEF IInv
\* No other call of the publication is one of the forwarding handler.
<1>10. \A j \in 1 .. Len(calls[p]) : j # i => calls[p][j].handler # Forward
  BY <1>1, <1>2, <1>3 DEF BusInv, CallsFit
<1>11. CASE stage = "returned"
  <2>1. CastInv(p)'
    BY <1>1, <1>2, <1>3, <1>4, <1>11, IdleCast
  <2>2. StageInv(p)'
    BY <1>1, <1>2, <1>3, <1>4, <1>5, <1>10, <1>11 DEF StageInv, Casting
  <2> QED
    BY <1>1, <1>5, <1>6, <1>7, <1>8, <1>9, <2>1, <2>2 DEF IInv
<1>12. CASE stage = "running"
  <2> DEFINE k == First(SendsFrom(1))
             to == connections[k]
  <2>1. /\ k \in SendsFrom(1) /\ \A j \in SendsFrom(1) : k <= j
    BY <1>2, <1>4, <1>12, FirstFits
  <2>2. cast'[p] = [at |-> k, to |-> to, stale |-> <<>>]
    BY <1>2, <1>4, <1>12
  <2>3. /\ connections \in Seq(Clients) /\ IsInjective(connections) /\ Len(connections) \in Nat
        /\ DOMAIN connections = 1 .. Len(connections)
    BY <1>2 DEF ListInv
  <2> HIDE DEF k
  <2>4. k \in 1 .. Len(connections) /\ k \in Nat /\ to \in Clients /\ client[to] \in {"connected", "broken"}
    <3>1. k \in 1 .. Len(connections) /\ client[connections[k]] \in {"connected", "broken"}
      BY <2>1 DEF SendsFrom
    <3> QED
      BY <2>3, <3>1
  <2>5. Casting(p)' /\ Heard(p)' = {to}
    BY <1>1, <1>3, <2>2, <2>4, DeliveryAssumption DEF Casting, Heard, Range
  <2>6. /\ audience'[p] = {c \in Range(connections) : client[c] = "connected"}
        /\ audience'[p] \subseteq Clients
    BY <1>1, <1>2, <2>3 DEF Range
  <2>7. Missed(p)' = {}
    <3> SUFFICES ASSUME NEW c \in UpTo(connections, k), client[c] = "connected", c # to PROVE FALSE
      BY <1>1, <2>2, <2>5 DEF Missed
    <3>1. PICK j \in 1 .. Len(connections) : j <= k /\ connections[j] = c
      BY DEF UpTo
    <3>2. j \in SendsFrom(1) /\ j # k
      BY <3>1 DEF SendsFrom
    <3> QED
      BY <2>1, <2>4, <3>1, <3>2
  <2>8. \A j \in 1 .. Len(connections) : j > k => connections[j] # to
    BY <2>3, <2>4 DEF IsInjective
  <2>9. CastInv(p)'
    <3>1. Cardinality(Missed(p)') = 0
      BY <2>7, FS_EmptySet
    <3>2. sent'[p] = <<>> /\ removals'[p] \in Nat /\ IsInjective(sent'[p]) /\ Range(sent'[p]) = {}
      BY <1>1, <1>2, <1>3 DEF CastInv, IsInjective, Range
    <3> QED
      BY <1>1, <2>2, <2>4, <2>5, <2>6, <2>8, <3>1, <3>2 DEF CastInv
  <2>10. StageInv(p)'
    BY <1>1, <1>2, <1>3, <1>5, <1>10, <1>12, <2>5 DEF StageInv
  <2> QED
    BY <1>1, <1>5, <1>6, <1>7, <1>8, <1>9, <2>9, <2>10 DEF IInv
<1> QED
  BY <1>11, <1>12

\* A send ends: whom it was to, and that the broadcast has come to no other.
LEMMA SendEnds ==
  ASSUME IInv, NEW p \in Publications, NEW i, Sent(p, i) \/ SendFails(p, i)
  PROVE  /\ pub[p] = "gathering" /\ i \in DOMAIN calls[p] /\ i \in 1 .. Len(calls[p])
         /\ calls[p][i].handler = Forward /\ Casting(p)
         /\ UNCHANGED <<subscribers, pub, client, audience>>
         /\ DOMAIN sent' = Publications
         /\ \A q \in Publications \ {p} : sent'[q] = sent[q]
         /\ sent'[p] \in Seq(Clients) /\ IsInjective(sent'[p])
         /\ Range(sent[p]) \subseteq Range(sent'[p]) /\ Range(sent'[p]) \subseteq Heard(p)
         /\ client[cast[p].to] = "connected" => cast[p].to \in Range(sent'[p])
         /\ \E stale \in Seq(Clients) :
              /\ \A j \in 1 .. Len(stale) : client[stale[j]] \in {"broken", "gone"}
              /\ GoesOn(p, i, cast[p].at + 1, stale)
<1> DEFINE to == cast[p].to
<1>1. /\ pub[p] = "gathering" /\ i \in DOMAIN calls[p] /\ calls[p][i].stage = "running"
      /\ UNCHANGED <<subscribers, pub, client, audience>>
  BY DEF Sent, SendFails, InStage
<1>2. BusInv /\ ListInv /\ StageInv(p) /\ CastInv(p) /\ DOMAIN sent = Publications
  BY DEF IInv
<1>3. i \in 1 .. Len(calls[p]) /\ calls[p][i].handler = Forward /\ Casting(p)
  <2>1. i \in 1 .. Len(calls[p])
    BY <1>1, <1>2, SeqMember DEF BusInv, CallsFit, Calls
  <2> QED
    BY <1>1, <1>2, <2>1 DEF StageInv
<1>4. /\ to \in Clients /\ cast[p].stale \in Seq(Clients)
      /\ \A j \in 1 .. Len(cast[p].stale) : client[cast[p].stale[j]] \in {"broken", "gone"}
      /\ sent[p] \in Seq(Clients) /\ IsInjective(sent[p]) /\ to \notin Range(sent[p])
      /\ client[to] \in {"connected", "broken", "gone"}
  BY <1>2, <1>3 DEF CastInv, ListInv, Heard
<1> HIDE DEF to
<1>5. CASE Sent(p, i)
  <2>1. /\ client[to] = "connected" /\ sent' = [sent EXCEPT ![p] = Append(sent[p], to)]
        /\ GoesOn(p, i, cast[p].at + 1, cast[p].stale)
    BY <1>5 DEF Sent, to
  <2>2. DOMAIN sent' = Publications /\ sent'[p] = Append(sent[p], to)
        /\ \A q \in Publications \ {p} : sent'[q] = sent[q]
    BY <1>2, <2>1
  <2>3. /\ sent'[p] \in Seq(Clients) /\ IsInjective(sent'[p])
        /\ Range(sent'[p]) = Range(sent[p]) \cup {to}
    BY <1>4, <2>2, JoinedList
  <2> QED
    BY <1>1, <1>3, <1>4, <2>1, <2>2, <2>3 DEF Heard, to
<1>6. CASE SendFails(p, i)
  <2>1. /\ client[to] # "connected" /\ sent' = sent
        /\ GoesOn(p, i, cast[p].at + 1, Append(cast[p].stale, to))
    BY <1>6 DEF SendFails, to
  <2>2. Append(cast[p].stale, to) \in Seq(Clients)
    BY <1>4
  <2>3. \A j \in 1 .. Len(Append(cast[p].stale, to)) :
          client[Append(cast[p].stale, to)[j]] \in {"broken", "gone"}
    BY <1>4, <2>1
  <2> QED
    BY <1>1, <1>2, <1>3, <1>4, <2>1, <2>2, <2>3 DEF Heard, to
<1> QED
  BY <1>5, <1>6

LEMMA SendStep ==
  ASSUME IInv, NEW p \in Publications, NEW i, Sent(p, i) \/ SendFails(p, i)
  PROVE  IInv'
<1>1. /\ pub[p] = "gathering" /\ i \in DOMAIN calls[p] /\ i \in 1 .. Len(calls[p])
      /\ calls[p][i].handler = Forward /\ Casting(p)
      /\ UNCHANGED <<subscribers, pub, client, audience>>
      /\ DOMAIN sent' = Publications
      /\ \A q \in Publications \ {p} : sent'[q] = sent[q]
      /\ sent'[p] \in Seq(Clients) /\ IsInjective(sent'[p])
      /\ Range(sent[p]) \subseteq Range(sent'[p]) /\ Range(sent'[p]) \subseteq Heard(p)
      /\ client[cast[p].to] = "connected" => cast[p].to \in Range(sent'[p])
      /\ \E stale \in Seq(Clients) :
           /\ \A j \in 1 .. Len(stale) : client[stale[j]] \in {"broken", "gone"}
           /\ GoesOn(p, i, cast[p].at + 1, stale)
  BY SendEnds
<1> DEFINE at == cast[p].at
           to == cast[p].to
<1>2. /\ BusInv /\ ListInv /\ StageInv(p) /\ CastInv(p)
      /\ DOMAIN cast = Publications /\ DOMAIN audience = Publications /\ DOMAIN removals = Publications
  BY DEF IInv
<1>3. PICK stale \in Seq(Clients) :
        /\ \A j \in 1 .. Len(stale) : client[stale[j]] \in {"broken", "gone"}
        /\ GoesOn(p, i, at + 1, stale)
  BY <1>1
<1>4. PICK stage \in {"running", "returned"} :
        /\ CallGoesTo(p, i, stage)
        /\ stage = "running" =>
             /\ SendsFrom(at + 1) # {}
             /\ cast' = [cast EXCEPT ![p] = [at |-> First(SendsFrom(at + 1)),
                                             to |-> connections[First(SendsFrom(at + 1))],
                                             stale |-> stale]]
             /\ UNCHANGED <<connections, removals>>
        /\ stage = "returned" =>
             /\ cast' = [cast EXCEPT ![p] = NoBroadcast]
             /\ connections' = Without(connections, Range(stale))
             /\ CountRemovals(Cardinality(Range(stale) \cap Range(connections)), {p})
  BY <1>3 DEF GoesOn
<1>5. /\ calls'[p] \in Calls /\ Len(calls'[p]) = Len(calls[p]) /\ calls'[p][i].stage = stage
      /\ \A j \in 1 .. Len(calls[p]) :
           /\ calls'[p][j].handler = calls[p][j].handler
           /\ j # i => calls'[p][j].stage = calls[p][j].stage
      /\ \A q \in Publications \ {p} : calls'[q] = calls[q]
  BY <1>1, <1>2, <1>4, CallGoes DEF Stages
<1>6. BusInv'
  BY <1>1, <1>2, <1>4, CallKeepsBus DEF Stages
<1>7. \A j \in 1 .. Len(calls[p]) : j # i => calls[p][j].handler # Forward
  BY <1>1, <1>2 DEF BusInv, CallsFit
<1>8. /\ DOMAIN cast' = Publications /\ DOMAIN removals' = Publications /\ DOMAIN audience' = Publications
      /\ \A q \in Publications \ {p} : cast'[q] = cast[q] /\ audience'[q] = audience[q]
  BY <1>1, <1>2, <1>4 DEF CountRemovals
<1>9. /\ at \in Nat /\ to \in Clients /\ removals[p] \in Nat
      /\ \A c \in Heard(p) \cup audience[p] : c \in Clients /\ client[c] # "away"
      /\ \A j \in 1 .. Len(connections) : j > at => connections[j] \notin Heard(p)
      /\ Cardinality(Missed(p)) <= removals[p]
  BY <1>1, <1>2 DEF CastInv
<1>10. /\ connections \in Seq(Clients) /\ IsInjective(connections) /\ Len(connections) \in Nat
       /\ DOMAIN connections = 1 .. Len(connections)
       /\ client \in [Clients -> {"away", "connected", "broken", "gone"}]
       /\ \A c \in Range(connections) : client[c] \in {"connected", "broken"}
  BY <1>2 DEF ListInv
<1>11. CASE stage = "running"
  <2> DEFINE n == First(SendsFrom(at + 1))
             new == connections[n]
  <2>1. n \in SendsFrom(at + 1) /\ \A j \in SendsFrom(at + 1) : n <= j
    BY <1>2, <1>4, <1>9, <1>11, FirstFits
  <2>2. cast'[p] = [at |-> n, to |-> new, stale |-> stale] /\ UNCHANGED <<connections, removals>>
    BY <1>2, <1>4, <1>11
  <2> HIDE DEF n, at, to
  <2>3. n \in 1 .. Len(connections) /\ n \in Nat /\ n > at /\ new \in Clients
        /\ client[new] \in {"connected", "broken"}
    <3>1. n \in at + 1 .. Len(connections) /\ client[connections[n]] \in {"connected", "broken"}
      BY <2>1 DEF SendsFrom
    <3> QED
      BY <1>9, <1>10, <3>1
  <2>4. new \notin Heard(p)
    BY <1>9, <2>3
  <2>5. Casting(p)' /\ Heard(p)' = Range(sent'[p]) \cup {new}
    BY <2>2, <2>3, DeliveryAssumption DEF Casting, Heard
  <2>6. Missed(p)' \subseteq Missed(p)
    <3> SUFFICES ASSUME NEW c \in audience[p], NEW j \in 1 .. Len(connections), j <= n,
                        c = connections[j], c \notin Heard(p)', client[c] = "connected"
                 PROVE  c \in Missed(p)
      <4>1. Missed(p)' = {c \in (audience[p] \cap UpTo(connections, n)) \ Heard(p)' : client[c] = "connected"}
        <5>1. /\ cast'[p].at = n /\ audience'[p] = audience[p] /\ client' = client
              /\ UpTo(connections, cast[p].at)' = UpTo(connections, n)
          BY <1>1, <2>2 DEF UpTo
        <5> QED
          BY <5>1 DEF Missed
      <4> QED
        BY <4>1 DEF UpTo
    <3>1. j <= at
      <4> SUFFICES ASSUME ~(j <= at) PROVE FALSE
        OBVIOUS
      <4>1. j \in SendsFrom(at + 1)
        BY <1>9, <1>10 DEF SendsFrom
      <4>2. j = n
        BY <1>10, <2>1, <2>3, <4>1
      <4> QED
        BY <2>5, <4>2
    <3>2. c \notin Heard(p)
      BY <1>1, <2>5 DEF Heard, to
    <3> QED
      BY <3>1, <3>2 DEF Missed, UpTo, at
  <2>7. \A j \in 1 .. Len(connections) : j > n => connections[j] \notin Heard(p)'
    <3> SUFFICES ASSUME NEW j \in 1 .. Len(connections), j > n PROVE connections[j] \notin Heard(p)'
      OBVIOUS
    <3>1. connections[j] # new
      BY <1>10, <2>3 DEF IsInjective
    <3>2. connections[j] \notin Heard(p)
      BY <1>9, <1>10, <2>3
    <3> QED
      BY <1>1, <2>5, <3>1, <3>2
  <2>8. \A c \in Heard(p)' \cup audience[p] : c \in Clients /\ client[c] # "away"
    BY <1>1, <1>9, <2>3, <2>5
  <2>9. Cardinality(Missed(p)') <= removals'[p]
    <3>1. Cardinality(Missed(p)') \in Nat /\ Cardinality(Missed(p)') <= Cardinality(Missed(p))
      BY <1>1, <1>2, <2>6, MissedIsFinite, SetFacts
    <3>2. Cardinality(Missed(p)) \in Nat
      BY <1>1, <1>2, MissedIsFinite
    <3> QED
      BY <1>9, <2>2, <3>1, <3>2
  <2>10. CastInv(p)'
    <3>1. new \notin Range(sent'[p])
      BY <1>1, <2>4
    <3> HIDE DEF new
    <3> QED
      BY <1>1, <1>3, <1>9, <2>2, <2>3, <2>5, <2>7, <2>8, <2>9, <3>1 DEF CastInv
  <2>11. StageInv(p)'
    BY <1>1, <1>2, <1>5, <1>7, <1>11, <2>5 DEF StageInv
  <2>12. ListInv'
    BY <1>1, <1>2, <2>2 DEF ListInv
  <2>13. \A q \in Publications \ {p} : StageInv(q)' /\ CastInv(q)'
    BY <1>1, <1>5, <1>8, <2>2, SameStage, SameCast DEF IInv
  <2> QED
    BY <1>1, <1>5, <1>6, <1>8, <2>10, <2>11, <2>12, <2>13 DEF IInv
<1>12. CASE stage = "returned"
  <2> DEFINE gone == Range(stale)
             left == Without(connections, gone)
             n == Cardinality(gone \cap Range(connections))
  <2>1. /\ cast' = [cast EXCEPT ![p] = NoBroadcast] /\ connections' = left
        /\ removals' = [q \in Publications |-> IF Casting(q) /\ q \notin {p} THEN removals[q] + n
                                               ELSE removals[q]]
    BY <1>4, <1>12 DEF CountRemovals
  <2> HIDE DEF gone, n
  <2>2. left \in Seq(Clients) /\ IsInjective(left) /\ Range(left) = Range(connections) \ gone
    <3>1. connections \in Seq(Clients) /\ IsInjective(connections)
      BY <1>10
    <3> QED
      BY <3>1, WithoutFits
  <2> HIDE DEF left
  <2>3. ListInv'
    BY <1>1, <1>10, <2>1, <2>2 DEF ListInv
  <2>4. cast'[p] = NoBroadcast /\ removals'[p] = removals[p]
    BY <1>2, <2>1
  <2>5. ~Casting(p)'
    BY <2>4 DEF Casting, NoBroadcast
  <2>6. CastInv(p)'
    BY <1>1, <1>9, <2>4, <2>5 DEF CastInv
  <2>7. StageInv(p)'
    BY <1>1, <1>2, <1>5, <1>7, <1>12, <2>5 DEF StageInv
  <2>8. ASSUME NEW q \in Publications \ {p} PROVE StageInv(q)' /\ CastInv(q)'
    <3>1. /\ q \in Publications /\ cast'[q] = cast[q] /\ audience'[q] = audience[q]
          /\ sent'[q] = sent[q] /\ calls'[q] = calls[q] /\ pub'[q] = pub[q]
          /\ StageInv(q) /\ CastInv(q)
      BY <1>1, <1>5, <1>8 DEF IInv
    <3>2. StageInv(q)'
      BY <3>1, SameStage
    <3>3. CASE ~Casting(q)
      <4>1. removals'[q] = removals[q]
        BY <2>1, <3>3
      <4> QED
        BY <3>1, <3>2, <3>3, <4>1, IdleCast
    <3>4. CASE Casting(q)
      <4>1. removals'[q] = removals[q] + Cardinality(gone \cap Range(connections))
        BY <2>1, <3>4 DEF n
      <4>2. connections' = Without(connections, gone)
        BY <2>1 DEF left
      <4>3. ClientsGoOn /\ \A c \in Clients : client'[c] = "connected" => client[c] = "connected"
        BY <1>1 DEF ClientsGoOn
      <4>4. CastInv(q)'
        BY <1>2, <3>1, <3>4, <4>1, <4>2, <4>3, RemovalCast
      <4> QED
        BY <3>2, <4>4
    <3> QED
      BY <3>3, <3>4
  <2> QED
    BY <1>1, <1>5, <1>6, <1>8, <2>3, <2>6, <2>7, <2>8 DEF IInv
<1> QED
  BY <1>11, <1>12

-----------------------------------------------------------------------------

(* The theorems *)

LEMMA InitInv == Init => IInv
<1> SUFFICES ASSUME Init PROVE IInv
  OBVIOUS
<1>1. BusInv
  BY DEF Init, BusInv, CallsFit, Calls
<1>2. ListInv
  BY DEF Init, ListInv, IsInjective, Range
<1>3. \A p \in Publications : ~Casting(p)
  BY DEF Init, Casting, NoBroadcast
<1>4. \A p \in Publications : StageInv(p)
  BY <1>3 DEF Init, StageInv
<1>5. \A p \in Publications : CastInv(p)
  BY <1>3 DEF Init, CastInv, IsInjective
<1> QED
  BY <1>1, <1>2, <1>4, <1>5 DEF Init, IInv

LEMMA StutterStep == IInv /\ UNCHANGED vars => IInv'
<1> SUFFICES ASSUME IInv, UNCHANGED vars PROVE IInv'
  OBVIOUS
<1>1. UNCHANGED <<subscribers, pub, calls, connections, client, cast, sent, removals, audience>>
  BY DEF vars, busVars, wsVars, ghostVars
<1>2. BusInv'
  BY <1>1, SameCalls DEF IInv, BusInv
<1>3. ListInv'
  BY <1>1 DEF IInv, ListInv
<1>4. \A p \in Publications : StageInv(p)' /\ CastInv(p)'
  BY <1>1, SameStage, SameCast DEF IInv
<1> QED
  BY <1>1, <1>2, <1>3, <1>4 DEF IInv

LEMMA StepInv == IInv /\ [Next]_vars => IInv'
<1> SUFFICES ASSUME IInv, [Next]_vars PROVE IInv'
  OBVIOUS
<1>1. ASSUME NEW h \in Handlers \cup {Forward}, Subscribe(h) \/ Unsubscribe(h) PROVE IInv'
  BY <1>1, SubscribeStep, UnsubscribeStep DEF Subscribers
<1>2. ASSUME NEW c \in Clients, Connect(c) \/ Break(c) \/ Disconnect(c) PROVE IInv'
  BY <1>2, ConnectStep, BreakStep, DisconnectStep
<1>3. ASSUME NEW p \in Publications, Publish(p) \/ PublishReturns(p) \/ PublishCancelled(p) PROVE IInv'
  BY <1>3, PublishStep, EndStep
<1>4. ASSUME NEW p \in Publications, NEW i \in 1 .. MaxSubscriptions, CallStep(p, i) PROVE IInv'
  <2>1. CASE HandlerReturns(p, i) \/ HandlerRaises(p, i)
    BY <2>1, HandlerStep
  <2>2. CASE Broadcast(p, i)
    BY <2>2, BroadcastStep
  <2>3. CASE Sent(p, i) \/ SendFails(p, i)
    BY <2>3, SendStep
  <2> QED
    BY <1>4, <2>1, <2>2, <2>3 DEF CallStep
<1> QED
  BY <1>1, <1>2, <1>3, <1>4, StutterStep DEF Next

\* The calls, the list and every broadcast fit together as said above.
THEOREM Invariant == Spec => []IInv
<1>1. IInv /\ [Next]_vars => IInv'
  BY StepInv
<1> QED
  BY InitInv, <1>1, PTL DEF Spec

\* No client is sent an event twice, for any clients that come, break and are
\* disconnected while broadcasts go through the list (websocket.py:41-48).
THEOREM HeardOnce == Spec => []NobodyHearsTwice
<1>1. IInv => NobodyHearsTwice
  BY DEF IInv, CastInv, NobodyHearsTwice
<1> QED
  BY <1>1, Invariant, PTL

\* The publications that a step ends: publish returns, or is cancelled.
LEMMA EndingSteps ==
  ASSUME IInv, [Next]_vars, NEW p \in Publications, pub[p] = "gathering", pub'[p] # pub[p]
  PROVE  PublishReturns(p) \/ PublishCancelled(p)
<1>1. DOMAIN pub = Publications
  BY DEF IInv, BusInv
<1>2. ~(UNCHANGED pub)
  OBVIOUS
<1>3. ASSUME NEW h \in Handlers \cup {Forward} PROVE ~Subscribe(h) /\ ~Unsubscribe(h)
  BY <1>2 DEF Subscribe, Unsubscribe
<1>4. ASSUME NEW c \in Clients PROVE ~Connect(c) /\ ~Break(c) /\ ~Disconnect(c)
  BY <1>2 DEF Connect, Break, Disconnect, busVars
<1>5. ASSUME NEW q \in Publications, NEW i PROVE ~CallStep(q, i)
  BY <1>2 DEF CallStep, HandlerReturns, HandlerRaises, Broadcast, Sent, SendFails
<1>6. ~(UNCHANGED vars)
  BY <1>2 DEF vars, busVars
<1>7. PICK q \in Publications : Publish(q) \/ PublishReturns(q) \/ PublishCancelled(q)
  BY <1>3, <1>4, <1>5, <1>6 DEF Next
<1>8. q = p
  BY <1>1, <1>7 DEF Publish, PublishReturns, PublishCancelled
<1> QED
  BY <1>7, <1>8 DEF Publish

\* Unless a subscriber has left, those that publish has called are still subscribed
\* at the places they had; others come behind them.
Kept(p) ==
  \A i \in DOMAIN calls[p] : i \in DOMAIN subscribers /\ subscribers[i] = calls[p][i].handler

PlacesFit == \A p \in Publications : pub[p] = "gathering" /\ p \notin disturbed => Kept(p)

LEMMA CallStage ==
  ASSUME NEW p \in Publications, NEW i, CallStep(p, i)
  PROVE  /\ i \in DOMAIN calls[p] /\ UNCHANGED <<subscribers, pub, disturbed>>
         /\ \E stage \in Stages : CallGoesTo(p, i, stage)
<1>1. CASE HandlerReturns(p, i) \/ HandlerRaises(p, i)
  BY <1>1 DEF HandlerReturns, HandlerRaises, InStage, Stages
<1>2. CASE Broadcast(p, i)
  BY <1>2 DEF Broadcast, InStage, Stages
<1>3. CASE Sent(p, i) \/ SendFails(p, i)
  BY <1>3 DEF Sent, SendFails, GoesOn, InStage, Stages
<1> QED
  BY <1>1, <1>2, <1>3 DEF CallStep

LEMMA PlacesStep ==
  ASSUME IInv, PlacesFit, [Next]_vars
  PROVE  PlacesFit'
<1> SUFFICES ASSUME NEW p \in Publications, pub'[p] = "gathering", p \notin disturbed'
             PROVE  Kept(p)'
  BY DEF PlacesFit
<1>1. DOMAIN pub = Publications /\ DOMAIN calls = Publications /\ subscribers \in Seq(Subscribers)
      /\ calls[p] \in Calls
  BY DEF IInv, BusInv, CallsFit
<1>2. ASSUME NEW h \in Subscribers, Subscribe(h) PROVE Kept(p)'
  <2>1. Kept(p) /\ calls' = calls
    BY <1>2 DEF Subscribe, PlacesFit
  <2>2. \A i \in DOMAIN subscribers : i \in DOMAIN subscribers' /\ subscribers'[i] = subscribers[i]
    BY <1>1, <1>2 DEF Subscribe
  <2> QED
    BY <2>1, <2>2 DEF Kept
<1>3. ASSUME NEW h \in Subscribers, Unsubscribe(h) PROVE FALSE
  BY <1>3 DEF Unsubscribe
<1>4. ASSUME NEW q \in Publications, Publish(q) PROVE Kept(p)'
  <2>1. UNCHANGED <<subscribers, disturbed>>
    BY <1>4 DEF Publish
  <2>2. CASE p = q
    BY <1>1, <1>4, <2>1, <2>2 DEF Publish, Kept
  <2>3. CASE p # q
    BY <1>1, <1>4, <2>1, <2>3 DEF Publish, PlacesFit, Kept
  <2> QED
    BY <2>2, <2>3
<1>5. ASSUME NEW q \in Publications, PublishReturns(q) \/ PublishCancelled(q) PROVE Kept(p)'
  <2>1. p # q
    BY <1>1, <1>5 DEF PublishReturns, PublishCancelled
  <2>2. /\ pub'[p] = pub[p] /\ calls'[p] = calls[p] /\ UNCHANGED subscribers
        /\ p \in disturbed => p \in disturbed'
    BY <1>1, <1>5, <2>1 DEF PublishReturns, PublishCancelled, Forget
  <2> QED
    BY <2>2 DEF PlacesFit, Kept
<1>6. ASSUME NEW q \in Publications, NEW k, CallStep(q, k) PROVE Kept(p)'
  <2>1. /\ k \in DOMAIN calls[q] /\ UNCHANGED <<subscribers, pub, disturbed>>
        /\ \E stage \in Stages : CallGoesTo(q, k, stage)
    BY <1>6, CallStage
  <2>2. Kept(p)
    BY <2>1 DEF PlacesFit
  <2>3. CASE p # q
    <3>1. calls'[p] = calls[p]
      BY <1>1, <2>1, <2>3 DEF CallGoesTo
    <3> QED
      BY <2>1, <2>2, <3>1 DEF Kept
  <2>4. CASE p = q
    <3>1. /\ calls'[p] \in Calls /\ Len(calls'[p]) = Len(calls[p])
          /\ \A j \in 1 .. Len(calls[p]) : calls'[p][j].handler = calls[p][j].handler
      BY <2>1, <2>4, CallGoes DEF IInv
    <3>2. DOMAIN calls'[p] = 1 .. Len(calls[p]) /\ DOMAIN calls[p] = 1 .. Len(calls[p])
      BY <1>1, <3>1 DEF Calls
    <3> QED
      BY <2>1, <2>2, <3>1, <3>2 DEF Kept
  <2> QED
    BY <2>3, <2>4
<1>7. ASSUME UNCHANGED busVars PROVE Kept(p)'
  BY <1>7 DEF busVars, PlacesFit, Kept
<1>8. ASSUME NEW c \in Clients, Connect(c) \/ Break(c) \/ Disconnect(c) PROVE Kept(p)'
  BY <1>7, <1>8 DEF Connect, Break, Disconnect
<1>9. CASE UNCHANGED vars
  BY <1>7, <1>9 DEF vars
<1> QED
  BY <1>2, <1>3, <1>4, <1>5, <1>6, <1>8, <1>9 DEF Next, Subscribers

\* publish ends when all handlers have, whichever raised.  Unless a subscriber has
\* left meanwhile it blames those that failed, and raises itself only if one of
\* them has no name (events.py:70-82).
THEOREM HandlersAreApart == Spec => FailuresStayApart
<1> DEFINE Blamed(p) ==
      \A i \in DOMAIN calls[p] : Raised(p, i) =>
        i \in DOMAIN subscribers /\ subscribers[i] = calls[p][i].handler
    Unnamed(p) == \E i \in DOMAIN calls[p] : Raised(p, i) /\ calls[p][i].handler \in nameless
<1>1. ASSUME IInv, PlacesFit, [Next]_vars, NEW p \in Publications,
             pub[p] = "gathering", pub'[p] \in {"returned", "raised"}
      PROVE  /\ \A i \in DOMAIN calls[p] : Ended(p, i)
             /\ p \notin disturbed => Blamed(p) /\ (pub'[p] = "raised" => Unnamed(p))
  <2>1. DOMAIN pub = Publications
    BY <1>1 DEF IInv, BusInv
  <2>2. PublishReturns(p)
    <3>1. PublishReturns(p) \/ PublishCancelled(p)
      BY <1>1, EndingSteps
    <3> QED
      BY <1>1, <2>1, <3>1 DEF PublishCancelled
  <2>3. \A i \in DOMAIN calls[p] : Ended(p, i)
    BY <2>2 DEF PublishReturns
  <2>4. p \notin disturbed => Blamed(p)
    BY <1>1 DEF PlacesFit, Kept
  <2>5. ASSUME p \notin disturbed, pub'[p] = "raised" PROVE Unnamed(p)
    <3>1. PICK i \in DOMAIN calls[p] : Raised(p, i) /\ ~CanBeNamed(i)
      BY <2>1, <2>2, <2>5 DEF PublishReturns
    <3> QED
      BY <2>4, <2>5, <3>1 DEF CanBeNamed
  <2> QED
    BY <2>3, <2>4, <2>5
<1>2. Init => PlacesFit
  BY DEF Init, PlacesFit
<1>3. IInv /\ PlacesFit /\ [Next]_vars => PlacesFit'
  BY PlacesStep
<1>4. IInv /\ PlacesFit /\ [Next]_vars =>
        [\A p \in Publications : pub[p] = "gathering" /\ pub'[p] \in {"returned", "raised"} =>
           /\ \A i \in DOMAIN calls[p] : Ended(p, i)
           /\ p \notin disturbed =>
                /\ \A i \in DOMAIN calls[p] : Raised(p, i) =>
                     i \in DOMAIN subscribers /\ subscribers[i] = calls[p][i].handler
                /\ pub'[p] = "raised" =>
                     \E i \in DOMAIN calls[p] : Raised(p, i) /\ calls[p][i].handler \in nameless]_vars
  BY <1>1
<1> QED
  BY <1>2, <1>3, <1>4, Invariant, PTL DEF Spec, FailuresStayApart

\* A client that was connected all the time and is left out of a broadcast is
\* paid for by a removal of somebody else (websocket.py:41-48).
THEOREM LeftOutForRemovals == Spec => OnlyRemovalsHide
<1>1. ASSUME IInv, [Next]_vars, NEW p \in Publications,
             Casting(p), ~Casting(p)', pub'[p] = "gathering"
      PROVE  Cardinality(LeftOut(p)) <= removals[p]
  <2>1. /\ DOMAIN cast = Publications /\ DOMAIN pub = Publications
        /\ CastInv(p) /\ StageInv(p) /\ ListInv /\ BusInv
    BY <1>1 DEF IInv, BusInv
  <2>2. PICK i : Sent(p, i) \/ SendFails(p, i)
    <3>1. cast'[p] # cast[p] /\ ~(UNCHANGED cast)
      BY <1>1 DEF Casting
    <3>2. ASSUME NEW h \in Handlers \cup {Forward} PROVE ~Subscribe(h) /\ ~Unsubscribe(h)
      BY <3>1 DEF Subscribe, Unsubscribe, wsVars
    <3>3. ASSUME NEW c \in Clients PROVE ~Connect(c) /\ ~Break(c) /\ ~Disconnect(c)
      BY <3>1 DEF Connect, Break, Disconnect
    <3>4. ASSUME NEW q \in Publications PROVE ~Publish(q) /\ ~PublishReturns(q) /\ ~PublishCancelled(q)
      BY <1>1, <2>1, <3>1 DEF Publish, PublishReturns, PublishCancelled, wsVars, Forget
    <3>5. ~(UNCHANGED vars)
      BY <3>1 DEF vars, wsVars
    <3>6. PICK q \in Publications, i \in 1 .. MaxSubscriptions : CallStep(q, i)
      BY <1>1, <3>2, <3>3, <3>4, <3>5 DEF Next
    <3>7. ~HandlerReturns(q, i) /\ ~HandlerRaises(q, i)
      BY <3>1 DEF HandlerReturns, HandlerRaises, wsVars
    <3>8. ASSUME q = p PROVE ~Broadcast(q, i)
      <4>1. pub[p] = "gathering" => \A j \in 1 .. Len(calls[p]) :
              calls[p][j].stage = "due" /\ calls[p][j].handler = Forward => ~Casting(p)
        BY <2>1 DEF StageInv
      <4>2. \A j \in DOMAIN calls[p] : j \in 1 .. Len(calls[p])
        BY <2>1, SeqMember DEF BusInv, CallsFit, Calls
      <4> QED
        BY <1>1, <3>8, <4>1, <4>2 DEF Broadcast, InStage
    <3>9. q = p
      <4> SUFFICES ASSUME q # p PROVE cast'[p] = cast[p]
        BY <3>1
      <4> QED
        BY <2>1, <3>6, <3>7 DEF CallStep, Broadcast, Sent, SendFails, GoesOn
    <3> QED
      BY <3>6, <3>7, <3>8, <3>9 DEF CallStep
  <2>3. /\ UNCHANGED <<client, audience>>
        /\ Range(sent[p]) \subseteq Range(sent'[p])
        /\ client[cast[p].to] = "connected" => cast[p].to \in Range(sent'[p])
        /\ \E stale \in Seq(Clients) : GoesOn(p, i, cast[p].at + 1, stale)
    BY <1>1, <2>2, SendEnds
  <2>4. PICK stale : GoesOn(p, i, cast[p].at + 1, stale)
    BY <2>3
  <2>5. connections \in Seq(Clients) /\ cast[p].at \in Nat
    BY <1>1, <2>1 DEF ListInv, CastInv
  \* Nobody was left to send to, so whoever is in the list is behind its place.
  <2>6. SendsFrom(cast[p].at + 1) = {} /\ connections' = Without(connections, Range(stale))
    <3>1. ASSUME SendsFrom(cast[p].at + 1) # {} PROVE FALSE
      <4> DEFINE n == First(SendsFrom(cast[p].at + 1))
      <4>1. cast'[p].to = connections[n]
        BY <2>1, <2>4, <3>1 DEF GoesOn
      <4>2. n \in SendsFrom(cast[p].at + 1)
        BY <2>1, <2>5, <3>1, FirstFits
      <4> HIDE DEF n
      <4>3. connections[n] \in Clients
        BY <2>5, <4>2 DEF SendsFrom
      <4> QED
        BY <1>1, <4>1, <4>3, DeliveryAssumption DEF Casting
    <3> QED
      BY <2>4, <3>1 DEF GoesOn
  <2>7. Range(connections') \subseteq Range(connections)
    <3>1. connections \in Seq(Clients) /\ IsInjective(connections)
      BY <2>1 DEF ListInv
    <3> DEFINE gone == Range(stale)
    <3> HIDE DEF gone
    <3>2. Range(Without(connections, gone)) = Range(connections) \ gone
      BY <3>1, WithoutFits
    <3> QED
      BY <2>6, <3>2 DEF gone
  <2>8. LeftOut(p) \subseteq Missed(p)
    <3> SUFFICES ASSUME NEW c \in audience[p], client[c] = "connected", c \in Range(connections),
                        c \notin Range(sent'[p])
                 PROVE  c \in Missed(p)
      BY <2>3, <2>7 DEF LeftOut
    <3>1. PICK j \in 1 .. Len(connections) : connections[j] = c
      BY <2>5 DEF Range
    <3>2. j <= cast[p].at
      BY <2>5, <2>6, <3>1 DEF SendsFrom
    <3>3. c \notin Heard(p)
      BY <2>3 DEF Heard
    <3> QED
      BY <3>1, <3>2, <3>3 DEF Missed, UpTo
  <2>9. IsFiniteSet(Missed(p)) /\ Cardinality(Missed(p)) \in Nat /\ Cardinality(Missed(p)) <= removals[p]
        /\ removals[p] \in Nat
    BY <1>1, <2>1, MissedIsFinite DEF CastInv
  <2>10. Cardinality(LeftOut(p)) \in Nat /\ Cardinality(LeftOut(p)) <= Cardinality(Missed(p))
    BY <2>8, <2>9, SetFacts
  <2> QED
    BY <2>9, <2>10
<1>2. IInv /\ [Next]_vars =>
        [\A p \in Publications :
           Casting(p) /\ ~Casting(p)' /\ pub'[p] = "gathering" =>
             Cardinality(LeftOut(p)) <= removals[p]]_vars
  BY <1>1
<1> QED
  BY <1>2, Invariant, PTL DEF Spec, OnlyRemovalsHide
=============================================================================
