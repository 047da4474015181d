----------------------------- MODULE TicketsProofs -----------------------------
(***************************************************************************)
(* Lemmas about the tickets of one client: each operation of Tickets keeps *)
(* the numbers in the order of sending, and tickets of one stable sequence *)
(* in the order in which they were first queued (ClientOK).  The folds of   *)
(* Tickets are unfolded into chains of steps, and facts about every step   *)
(* of a chain follow from the least one that has none.                     *)
(***************************************************************************)
EXTENDS Tickets, WellFoundedInduction, TLAPS

-----------------------------------------------------------------------------
(* Induction over a set of numbers *)

LEMMA LeastNatural ==
  ASSUME NEW T \in SUBSET Nat, T # {}
  PROVE  \E m \in T : \A n \in T : m <= n
<1> DEFINE R == OpToRel(<, Nat)
<1>1. PICK m \in T : \A n \in T : ~(<<n, m>> \in R)
  BY NatLessThanWellFounded, WFMin, Zenon
<1>2. \A n \in T : ~(n < m)
  BY <1>1 DEF OpToRel
<1> QED
  BY <1>2

LEMMA EveryNatural ==
  ASSUME NEW T, 0 \in T, \A n \in Nat : n \in T => n + 1 \in T
  PROVE  Nat \subseteq T
<1> DEFINE None == Nat \ T
<1> SUFFICES ASSUME None # {} PROVE FALSE
  OBVIOUS
<1>1. None \in SUBSET Nat
  OBVIOUS
<1>2. PICK m \in None : \A k \in None : m <= k
  <2> HIDE DEF None
  <2> QED
    BY <1>1, LeastNatural
<1>3. m - 1 \in Nat /\ (m - 1) + 1 = m
  BY <1>2
<1> QED
  BY <1>2, <1>3

LEMMA EveryPrefix ==
  ASSUME NEW N \in Nat, NEW T, 0 \in T,
         \A n \in 1..N : n - 1 \in T => n \in T
  PROVE  0..N \subseteq T
<1> DEFINE U == T \cup {n \in Nat : n > N}
<1>1. 0 \in U
  OBVIOUS
<1>2. ASSUME NEW n \in Nat, n \in U
      PROVE  n + 1 \in U
  <2>1. CASE n + 1 \in 1..N
    <3>1. (n + 1) - 1 = n
      OBVIOUS
    <3> QED
      BY <1>2, <2>1, <3>1
  <2>2. CASE n + 1 > N
    BY <2>2
  <2> QED
    BY <2>1, <2>2
<1>3. Nat \subseteq U
  <2> HIDE DEF U
  <2> QED
    BY <1>1, <1>2, EveryNatural
<1> QED
  BY <1>3

-----------------------------------------------------------------------------
(* Folds as chains *)

LEMMA MaxOfPrefix ==
  ASSUME NEW n \in Nat, NEW s \in SUBSET (1..n), n \in s
  PROVE  Max(s) = n
<1>1. \A y \in s : n >= y
  OBVIOUS
<1>2. \A x \in s : (\A y \in s : x >= y) => x = n
  OBVIOUS
<1>3. Max(s) \in s /\ \A y \in s : Max(s) >= y
  BY <1>1 DEF Max
<1> QED
  BY <1>2, <1>3

LEMMA WithoutMax ==
  ASSUME NEW n \in Nat, NEW s \in SUBSET (1..(n + 1))
  PROVE  s \ {Max(s)} \in SUBSET (1..n)
<1>1. n + 1 \in s => Max(s) = n + 1
  BY MaxOfPrefix
<1>2. n + 1 \notin s \ {Max(s)}
  BY <1>1
<1>3. \A k \in 1..(n + 1) : k # n + 1 => k \in 1..n
  OBVIOUS
<1> QED
  BY <1>2, <1>3

LEMMA PrefixWithoutMax ==
  ASSUME NEW n \in Nat \ {0}
  PROVE  (1..n) \ {Max(1..n)} = 1..(n - 1)
BY MaxOfPrefix

\* The fold of RollbackTickets up to n.
RollsUpto(n, it, tickets, acknowledged, due, result) ==
  it = [s \in SUBSET (1..n) |->
         IF s = {} THEN result
         ELSE RollbackTicket(tickets[Max(s)], acknowledged, due, it[s \ {Max(s)}])]

LEMMA RollsFurther ==
  ASSUME NEW tickets, NEW acknowledged, NEW due, NEW result,
         NEW n \in Nat, NEW h, RollsUpto(n, h, tickets, acknowledged, due, result)
  PROVE  \E it : RollsUpto(n + 1, it, tickets, acknowledged, due, result)
<1> DEFINE Rolled(s) == IF s = {} THEN result
               ELSE RollbackTicket(tickets[Max(s)], acknowledged, due, h[s \ {Max(s)}])
           it == [s \in SUBSET (1..(n + 1)) |-> Rolled(s)]
<1>1. ASSUME NEW s \in SUBSET (1..n)
      PROVE  it[s] = h[s]
  <2>1. s \in SUBSET (1..(n + 1))
    OBVIOUS
  <2>2. h[s] = Rolled(s)
    BY DEF RollsUpto
  <2> HIDE DEF Rolled
  <2> QED
    BY <2>1, <2>2
<1>2. ASSUME NEW s \in SUBSET (1..(n + 1)), s # {}
      PROVE  it[s \ {Max(s)}] = h[s \ {Max(s)}]
  <2> HIDE DEF it
  <2> QED
    BY <1>1, WithoutMax
<1>3. it = [s \in SUBSET (1..(n + 1)) |->
           IF s = {} THEN result
           ELSE RollbackTicket(tickets[Max(s)], acknowledged, due, it[s \ {Max(s)}])]
  BY <1>2, Zenon
<1> QED
  BY <1>3 DEF RollsUpto

LEMMA RollsToTheEnd ==
  ASSUME NEW tickets, NEW acknowledged, NEW due, NEW result, NEW n \in Nat
  PROVE  \E it : RollsUpto(n, it, tickets, acknowledged, due, result)
<1> DEFINE T == {k \in Nat : \E it : RollsUpto(k, it, tickets, acknowledged, due, result)}
<1>1. 0 \in T
  <2>1. RollsUpto(0, [s \in {{}} |-> result], tickets, acknowledged, due, result)
    BY SUBSET (1..0) = {{}} DEF RollsUpto
  <2> QED
    BY <2>1
<1>2. \A k \in Nat : k \in T => k + 1 \in T
  BY RollsFurther
<1> HIDE DEF T
<1>3. n \in T
  BY <1>1, <1>2, EveryNatural
<1> QED
  BY <1>3 DEF T

\* The tickets are rolled back one after the other.
RollsAlong(c, tickets, acknowledged, due, result) ==
  /\ c[0] = result
  /\ \A k \in 1..Len(tickets) :
       c[k] = RollbackTicket(tickets[k], acknowledged, due, c[k - 1])
  /\ RollbackTickets(tickets, acknowledged, due, result) = c[Len(tickets)]

LEMMA RollbackChain ==
  ASSUME NEW S, NEW tickets \in Seq(S), NEW acknowledged, NEW due, NEW result
  PROVE  \E c : RollsAlong(c, tickets, acknowledged, due, result)
<1> DEFINE n == Len(tickets)
           Is(it) == it = [s \in SUBSET DOMAIN tickets |->
             IF s = {} THEN result
             ELSE RollbackTicket(tickets[Max(s)], acknowledged, due, it[s \ {Max(s)}])]
           it0 == CHOOSE it : Is(it)
           c == [k \in 0..n |-> it0[1..k]]
<1>1. RollbackTickets(tickets, acknowledged, due, result) = it0[DOMAIN tickets]
  BY Zenon DEF RollbackTickets, FoldLeft, MapThenFoldSet
<1>2. DOMAIN tickets = 1..n /\ n \in Nat
  OBVIOUS
<1>3. Is(it0)
  <2>1. PICK it : RollsUpto(n, it, tickets, acknowledged, due, result)
    BY <1>2, RollsToTheEnd
  <2>2. Is(it)
    BY <1>2, <2>1 DEF RollsUpto
  <2> HIDE DEF Is
  <2> QED
    BY <2>2
<1>4. \A k \in 0..n : 1..k \in SUBSET DOMAIN tickets
  BY <1>2
<1> HIDE DEF it0
<1>5. c[0] = result
  <2>1. 1..0 = {}
    OBVIOUS
  <2>2. it0[{}] = result
    BY <1>3
  <2> QED
    BY <2>1, <2>2, <1>2
<1>6. ASSUME NEW k \in 1..n
      PROVE  c[k] = RollbackTicket(tickets[k], acknowledged, due, c[k - 1])
  <2>1. 1..k # {} /\ Max(1..k) = k /\ (1..k) \ {Max(1..k)} = 1..(k - 1)
    BY MaxOfPrefix, PrefixWithoutMax
  <2>2. 1..k \in SUBSET DOMAIN tickets
    BY <1>4
  <2>3. it0[1..k] = RollbackTicket(tickets[Max(1..k)], acknowledged, due, it0[(1..k) \ {Max(1..k)}])
    BY <1>3, <2>1, <2>2
  <2>4. c[k] = it0[1..k] /\ c[k - 1] = it0[1..(k - 1)]
    OBVIOUS
  <2> HIDE DEF c, n
  <2> QED
    BY <2>1, <2>3, <2>4
<1>7. c[n] = it0[DOMAIN tickets]
  BY <1>2
<1> HIDE DEF c, n
<1>8. RollsAlong(c, tickets, acknowledged, due, result)
  BY <1>1, <1>2, <1>5, <1>6, <1>7 DEF n, RollsAlong
<1> QED
  BY <1>8

\* The fold of Only up to n.
Keep(S, x, kept) == IF x \in S THEN Append(kept, x) ELSE kept

KeepsUpto(n, it, seq, S) ==
  it = [s \in SUBSET (1..n) |->
         IF s = {} THEN <<>> ELSE Keep(S, seq[Max(s)], it[s \ {Max(s)}])]

LEMMA KeepsFurther ==
  ASSUME NEW seq, NEW S, NEW n \in Nat, NEW h, KeepsUpto(n, h, seq, S)
  PROVE  \E it : KeepsUpto(n + 1, it, seq, S)
<1> DEFINE Kept(s) == IF s = {} THEN <<>> ELSE Keep(S, seq[Max(s)], h[s \ {Max(s)}])
           it == [s \in SUBSET (1..(n + 1)) |-> Kept(s)]
<1>1. ASSUME NEW s \in SUBSET (1..n)
      PROVE  it[s] = h[s]
  <2>1. s \in SUBSET (1..(n + 1))
    OBVIOUS
  <2>2. h[s] = Kept(s)
    BY DEF KeepsUpto
  <2> HIDE DEF Kept
  <2> QED
    BY <2>1, <2>2
<1>2. ASSUME NEW s \in SUBSET (1..(n + 1)), s # {}
      PROVE  it[s \ {Max(s)}] = h[s \ {Max(s)}]
  <2> HIDE DEF it
  <2> QED
    BY <1>1, WithoutMax
<1>3. it = [s \in SUBSET (1..(n + 1)) |->
           IF s = {} THEN <<>> ELSE Keep(S, seq[Max(s)], it[s \ {Max(s)}])]
  BY <1>2, Zenon
<1> QED
  BY <1>3 DEF KeepsUpto

LEMMA KeepsToTheEnd ==
  ASSUME NEW seq, NEW S, NEW n \in Nat
  PROVE  \E it : KeepsUpto(n, it, seq, S)
<1> DEFINE T == {k \in Nat : \E it : KeepsUpto(k, it, seq, S)}
<1>1. 0 \in T
  <2>1. KeepsUpto(0, [s \in {{}} |-> <<>>], seq, S)
    BY SUBSET (1..0) = {{}} DEF KeepsUpto
  <2> QED
    BY <2>1
<1>2. \A k \in Nat : k \in T => k + 1 \in T
  BY KeepsFurther
<1> HIDE DEF T
<1>3. n \in T
  BY <1>1, <1>2, EveryNatural
<1> QED
  BY <1>3 DEF T

KeepsAlong(c, seq, S) ==
  /\ c[0] = <<>>
  /\ \A k \in 1..Len(seq) : c[k] = Keep(S, seq[k], c[k - 1])
  /\ Only(seq, S) = c[Len(seq)]

LEMMA OnlyChain ==
  ASSUME NEW X, NEW seq \in Seq(X), NEW S
  PROVE  \E c : KeepsAlong(c, seq, S)
<1> DEFINE n == Len(seq)
           Is(it) == it = [s \in SUBSET DOMAIN seq |->
             IF s = {} THEN <<>> ELSE Keep(S, seq[Max(s)], it[s \ {Max(s)}])]
           it0 == CHOOSE it : Is(it)
           c == [k \in 0..n |-> it0[1..k]]
<1>1. Only(seq, S) = it0[DOMAIN seq]
  BY Zenon DEF Only, FoldLeft, MapThenFoldSet, Keep
<1>2. DOMAIN seq = 1..n /\ n \in Nat
  OBVIOUS
<1>3. Is(it0)
  <2>1. PICK it : KeepsUpto(n, it, seq, S)
    BY <1>2, KeepsToTheEnd
  <2>2. Is(it)
    BY <1>2, <2>1 DEF KeepsUpto
  <2> HIDE DEF Is
  <2> QED
    BY <2>2
<1>4. \A k \in 0..n : 1..k \in SUBSET DOMAIN seq
  BY <1>2
<1> HIDE DEF it0
<1>5. c[0] = <<>>
  <2>1. 1..0 = {}
    OBVIOUS
  <2>2. it0[{}] = <<>>
    BY <1>3
  <2> QED
    BY <2>1, <2>2, <1>2
<1>6. ASSUME NEW k \in 1..n
      PROVE  c[k] = Keep(S, seq[k], c[k - 1])
  <2>1. 1..k # {} /\ Max(1..k) = k /\ (1..k) \ {Max(1..k)} = 1..(k - 1)
    BY MaxOfPrefix, PrefixWithoutMax
  <2>2. 1..k \in SUBSET DOMAIN seq
    BY <1>4
  <2>3. it0[1..k] = Keep(S, seq[Max(1..k)], it0[(1..k) \ {Max(1..k)}])
    BY <1>3, <2>1, <2>2
  <2>4. c[k] = it0[1..k] /\ c[k - 1] = it0[1..(k - 1)]
    OBVIOUS
  <2> HIDE DEF c, n
  <2> QED
    BY <2>1, <2>3, <2>4
<1>7. c[n] = it0[DOMAIN seq]
  BY <1>2
<1> HIDE DEF c, n
<1>8. KeepsAlong(c, seq, S)
  BY <1>1, <1>2, <1>5, <1>6, <1>7 DEF n, KeepsAlong
<1> QED
  BY <1>8

-----------------------------------------------------------------------------
(* Subsequences *)

\* The places f of the elements of s in t.
Embeds(f, s, t) ==
  /\ f \in [DOMAIN s -> DOMAIN t]
  /\ \A i \in DOMAIN s : s[i] = t[f[i]]
  /\ \A i, j \in DOMAIN s : i < j => f[i] < f[j]

IsSubsequence(s, t) == \E f : Embeds(f, s, t)

\* What has been kept of the first k elements, and where it was.
KeptAt(f, kept, seq, k, S) ==
  /\ f \in [1..Len(kept) -> 1..k]
  /\ \A i \in 1..Len(kept) : kept[i] = seq[f[i]] /\ seq[f[i]] \in S
  /\ \A i, j \in 1..Len(kept) : i < j => f[i] < f[j]
  /\ \A m \in 1..k : seq[m] \in S => \E i \in 1..Len(kept) : f[i] = m

KeptOf(kept, seq, k, S) == \E f : KeptAt(f, kept, seq, k, S)

LEMMA KeptOfNext ==
  ASSUME NEW X, NEW seq \in Seq(X), NEW S, NEW k \in 1..Len(seq),
         NEW kept \in Seq(X), KeptOf(kept, seq, k - 1, S)
  PROVE  /\ Keep(S, seq[k], kept) \in Seq(X)
         /\ KeptOf(Keep(S, seq[k], kept), seq, k, S)
<1> DEFINE n == Len(kept)
           next == Append(kept, seq[k])
<1>0. PICK f : KeptAt(f, kept, seq, k - 1, S)
  BY DEF KeptOf
<1>1. /\ f \in [1..n -> 1..(k - 1)]
      /\ \A i \in 1..n : kept[i] = seq[f[i]] /\ seq[f[i]] \in S
      /\ \A i, j \in 1..n : i < j => f[i] < f[j]
      /\ \A m \in 1..(k - 1) : seq[m] \in S => \E i \in 1..n : f[i] = m
  BY <1>0 DEF KeptAt
<1>2. n \in Nat /\ seq[k] \in X
  OBVIOUS
<1>3. CASE seq[k] \notin S
  <2>1. f \in [1..n -> 1..k]
    BY <1>1
  <2>2. \A m \in 1..k : seq[m] \in S => \E i \in 1..n : f[i] = m
    BY <1>1, <1>3
  <2>3. Keep(S, seq[k], kept) = kept
    BY <1>3 DEF Keep
  <2>4. KeptAt(f, kept, seq, k, S)
    BY <1>1, <2>1, <2>2 DEF KeptAt
  <2> QED
    BY <2>3, <2>4 DEF KeptOf
<1>4. CASE seq[k] \in S
  <2> DEFINE g == [i \in 1..(n + 1) |-> IF i = n + 1 THEN k ELSE f[i]]
  <2>1. Keep(S, seq[k], kept) = next /\ next \in Seq(X) /\ Len(next) = n + 1
    BY <1>2, <1>4 DEF Keep
  <2>2. /\ \A i \in 1..n : next[i] = kept[i]
        /\ next[n + 1] = seq[k]
    BY <1>2
  <2>3. /\ \A i \in 1..n : i \in 1..(n + 1) /\ g[i] = f[i] /\ f[i] \in 1..(k - 1)
        /\ g[n + 1] = k
        /\ \A i \in 1..(n + 1) : i = n + 1 \/ i \in 1..n
    <3> HIDE DEF n, next
    <3> QED
      BY <1>1, <1>2
  <2> HIDE DEF g, next
  <2>4. g \in [1..(n + 1) -> 1..k]
    <3>1. \A i \in 1..(n + 1) : (IF i = n + 1 THEN k ELSE f[i]) \in 1..k
      BY <1>1, <1>2
    <3> QED
      BY <3>1 DEF g
  <2>5. \A i \in 1..(n + 1) : next[i] = seq[g[i]] /\ seq[g[i]] \in S
    BY <1>1, <1>4, <2>2, <2>3
  <2>6. ASSUME NEW i \in 1..(n + 1), NEW j \in 1..(n + 1), i < j
        PROVE  g[i] < g[j]
    <3>1. i \in 1..n
      BY <2>6, <1>2
    <3>2. CASE j = n + 1
      BY <3>1, <3>2, <2>3
    <3>3. CASE j \in 1..n
      BY <2>6, <3>1, <3>3, <2>3, <1>1
    <3> QED
      BY <3>2, <3>3, <2>3
  <2>7. ASSUME NEW m \in 1..k, seq[m] \in S
        PROVE  \E i \in 1..(n + 1) : g[i] = m
    <3>1. CASE m = k
      BY <3>1, <2>3, <1>2
    <3>2. CASE m \in 1..(k - 1)
      BY <2>7, <3>2, <2>3, <1>1
    <3> QED
      BY <3>1, <3>2
  <2> HIDE DEF n
  <2>8. KeptAt(g, next, seq, k, S)
    BY <2>1, <2>4, <2>5, <2>6, <2>7 DEF KeptAt
  <2> QED
    BY <2>1, <2>8 DEF KeptOf
<1> QED
  BY <1>3, <1>4

LEMMA OnlyKept ==
  ASSUME NEW X, NEW seq \in Seq(X), NEW S
  PROVE  /\ Only(seq, S) \in Seq(X)
         /\ KeptOf(Only(seq, S), seq, Len(seq), S)
<1> DEFINE n == Len(seq)
<1>1. PICK c : /\ c[0] = <<>>
               /\ \A k \in 1..n : c[k] = Keep(S, seq[k], c[k - 1])
               /\ Only(seq, S) = c[n]
  <2>1. \E c : KeepsAlong(c, seq, S)
    BY OnlyChain
  <2> QED
    BY <2>1 DEF KeepsAlong
<1> DEFINE T == {k \in 0..n : c[k] \in Seq(X) /\ KeptOf(c[k], seq, k, S)}
<1>2. 0 \in T
  <2>1. <<>> \in Seq(X) /\ Len(<<>>) = 0 /\ n \in Nat
    OBVIOUS
  <2>2. KeptOf(<<>>, seq, 0, S)
    <3>1. KeptAt([i \in {} |-> 0], <<>>, seq, 0, S)
      BY 1..Len(<<>>) = {}, 1..0 = {} DEF KeptAt
    <3> QED
      BY <3>1 DEF KeptOf
  <2>3. 0 \in 0..n
    BY <2>1
  <2> QED
    BY <1>1, <2>1, <2>2, <2>3
<1>3. ASSUME NEW k \in 1..n, k - 1 \in T
      PROVE  k \in T
  <2>1. c[k - 1] \in Seq(X) /\ KeptOf(c[k - 1], seq, k - 1, S)
    BY <1>3
  <2>2. c[k] = Keep(S, seq[k], c[k - 1])
    BY <1>1
  <2>3. k \in 0..n
    OBVIOUS
  <2>4. c[k] \in Seq(X) /\ KeptOf(c[k], seq, k, S)
    BY <2>1, <2>2, KeptOfNext
  <2> QED
    BY <2>3, <2>4
<1>4. n \in T
  <2> HIDE DEF T
  <2>1. n \in Nat
    OBVIOUS
  <2> HIDE DEF n
  <2>2. \A k \in 1..n : k - 1 \in T => k \in T
    BY <1>3
  <2>3. 0..n \subseteq T
    BY <1>2, <2>1, <2>2, EveryPrefix
  <2> QED
    BY <2>1, <2>3
<1> QED
  BY <1>1, <1>4

\* Only keeps the elements in the set and no others, in their order.
LEMMA OnlyElements ==
  ASSUME NEW X, NEW seq \in Seq(X), NEW S
  PROVE  /\ Only(seq, S) \in Seq(X)
         /\ ToSet(Only(seq, S)) = ToSet(seq) \cap S
         /\ IsSubsequence(Only(seq, S), seq)
<1> DEFINE kept == Only(seq, S)
<1>1. kept \in Seq(X) /\ KeptOf(kept, seq, Len(seq), S)
  BY OnlyKept
<1> HIDE DEF kept
<1>2. PICK f : KeptAt(f, kept, seq, Len(seq), S)
  BY <1>1 DEF KeptOf
<1>3. DOMAIN kept = 1..Len(kept) /\ DOMAIN seq = 1..Len(seq)
  BY <1>1
<1>4. Embeds(f, kept, seq)
  BY <1>2, <1>3 DEF Embeds, KeptAt
<1>5. ToSet(kept) = ToSet(seq) \cap S
  BY <1>2, <1>3 DEF ToSet, KeptAt
<1> QED
  BY <1>1, <1>4, <1>5 DEF IsSubsequence, kept

LEMMA OfConcatenation ==
  ASSUME NEW X, NEW s \in Seq(X), NEW t \in Seq(X)
  PROVE  /\ s \o t \in Seq(X) /\ Len(s \o t) = Len(s) + Len(t)
         /\ \A i \in 1..Len(s) : (s \o t)[i] = s[i]
         /\ \A i \in 1..Len(t) : (s \o t)[Len(s) + i] = t[i]
         /\ \A i \in 1..(Len(s) + Len(t)) :
              i \in 1..Len(s) \/ \E j \in 1..Len(t) : i = Len(s) + j
         /\ ToSet(s \o t) = ToSet(s) \cup ToSet(t)
<1>1. /\ s \o t \in Seq(X) /\ Len(s \o t) = Len(s) + Len(t)
      /\ \A i \in 1..Len(s) : (s \o t)[i] = s[i]
      /\ \A i \in 1..Len(t) : (s \o t)[Len(s) + i] = t[i]
  OBVIOUS
<1>2. ASSUME NEW i \in 1..(Len(s) + Len(t)), i \notin 1..Len(s)
      PROVE  \E j \in 1..Len(t) : i = Len(s) + j
  <2>1. i - Len(s) \in 1..Len(t) /\ i = Len(s) + (i - Len(s))
    BY <1>2
  <2> QED
    BY <2>1
<1>3. ToSet(s \o t) = ToSet(s) \cup ToSet(t)
  <2>1. /\ DOMAIN s = 1..Len(s) /\ DOMAIN t = 1..Len(t) /\ Len(s) \in Nat /\ Len(t) \in Nat
        /\ DOMAIN (s \o t) = 1..(Len(s) + Len(t))
    BY <1>1
  <2>2. /\ \A i \in 1..Len(s) : i \in 1..(Len(s) + Len(t))
        /\ \A i \in 1..Len(t) : Len(s) + i \in 1..(Len(s) + Len(t))
    BY <2>1
  <2>3. ToSet(s \o t) \subseteq ToSet(s) \cup ToSet(t)
    BY <1>1, <1>2, <2>1 DEF ToSet
  <2>4. ToSet(s) \subseteq ToSet(s \o t)
    BY <1>1, <2>1, <2>2 DEF ToSet
  <2>5. ToSet(t) \subseteq ToSet(s \o t)
    BY <1>1, <2>1, <2>2 DEF ToSet
  <2> QED
    BY <2>3, <2>4, <2>5
<1> QED
  BY <1>1, <1>2, <1>3

LEMMA OfAppend ==
  ASSUME NEW X, NEW s \in Seq(X), NEW x \in X
  PROVE  /\ Append(s, x) \in Seq(X) /\ Len(Append(s, x)) = Len(s) + 1
         /\ \A i \in 1..Len(s) : Append(s, x)[i] = s[i]
         /\ Append(s, x)[Len(s) + 1] = x
         /\ ToSet(Append(s, x)) = ToSet(s) \cup {x}
<1>1. /\ Append(s, x) \in Seq(X) /\ Len(Append(s, x)) = Len(s) + 1
      /\ \A i \in 1..Len(s) : Append(s, x)[i] = s[i]
      /\ Append(s, x)[Len(s) + 1] = x
  OBVIOUS
<1>2. /\ DOMAIN s = 1..Len(s) /\ Len(s) \in Nat
      /\ DOMAIN Append(s, x) = 1..(Len(s) + 1)
      /\ \A i \in 1..(Len(s) + 1) : i \in 1..Len(s) \/ i = Len(s) + 1
      /\ \A i \in 1..Len(s) : i \in 1..(Len(s) + 1)
      /\ Len(s) + 1 \in 1..(Len(s) + 1)
  BY <1>1
<1>3. ToSet(Append(s, x)) \subseteq ToSet(s) \cup {x}
  BY <1>1, <1>2 DEF ToSet
<1>4. ToSet(s) \cup {x} \subseteq ToSet(Append(s, x))
  BY <1>1, <1>2 DEF ToSet
<1> QED
  BY <1>1, <1>3, <1>4

LEMMA OfPart ==
  ASSUME NEW X, NEW s \in Seq(X), NEW a \in Nat \ {0}, NEW b \in Nat, b <= Len(s)
  PROVE  /\ SubSeq(s, a, b) \in Seq(X)
         /\ IsSubsequence(SubSeq(s, a, b), s)
         /\ \A x : x \in ToSet(SubSeq(s, a, b)) <=> \E i \in a..b : x = s[i]
<1> DEFINE p == SubSeq(s, a, b)
           f == [i \in DOMAIN p |-> i + a - 1]
<1>1. /\ p \in Seq(X) /\ DOMAIN p \subseteq Nat
      /\ \A i \in DOMAIN p : i + a - 1 \in DOMAIN s /\ p[i] = s[i + a - 1] /\ i + a - 1 \in a..b
  OBVIOUS
<1>2. Embeds(f, p, s)
  <2>1. \A i \in DOMAIN p : f[i] = i + a - 1
    OBVIOUS
  <2>2. f \in [DOMAIN p -> DOMAIN s]
    BY <1>1
  <2> HIDE DEF f, p
  <2> QED
    BY <1>1, <2>1, <2>2 DEF Embeds
<1>3. \A i \in a..b : i - a + 1 \in DOMAIN p /\ p[i - a + 1] = s[i]
  OBVIOUS
<1>4. \A x : x \in ToSet(p) <=> \E i \in a..b : x = s[i]
  <2> HIDE DEF p
  <2> QED
    BY <1>1, <1>3 DEF ToSet
<1> QED
  BY <1>1, <1>2, <1>4 DEF IsSubsequence

LEMMA OfTail ==
  ASSUME NEW X, NEW s \in Seq(X), s # <<>>
  PROVE  /\ Tail(s) \in Seq(X)
         /\ IsSubsequence(Tail(s), s)
         /\ ToSet(s) = ToSet(Tail(s)) \cup {s[1]}
         /\ Head(s) = s[1] /\ s[1] \in ToSet(s)
<1> DEFINE p == Tail(s)
           f == [i \in DOMAIN p |-> i + 1]
<1>1. /\ p \in Seq(X) /\ DOMAIN p \subseteq Nat
      /\ \A i \in DOMAIN p : i + 1 \in DOMAIN s /\ p[i] = s[i + 1]
      /\ \A i \in DOMAIN s : i = 1 \/ (i - 1 \in DOMAIN p /\ p[i - 1] = s[i])
      /\ 1 \in DOMAIN s /\ Head(s) = s[1]
  OBVIOUS
<1>2. Embeds(f, p, s)
  <2>1. \A i \in DOMAIN p : f[i] = i + 1
    OBVIOUS
  <2>2. f \in [DOMAIN p -> DOMAIN s]
    BY <1>1
  <2> HIDE DEF f, p
  <2> QED
    BY <1>1, <2>1, <2>2 DEF Embeds
<1>3. ToSet(s) = ToSet(p) \cup {s[1]}
  <2> HIDE DEF p
  <2> QED
    BY <1>1 DEF ToSet
<1> QED
  BY <1>1, <1>2, <1>3 DEF IsSubsequence, ToSet

LEMMA OfRemoveAt ==
  ASSUME NEW X, NEW s \in Seq(X), NEW k \in 1..Len(s)
  PROVE  /\ RemoveAt(s, k) \in Seq(X)
         /\ IsSubsequence(RemoveAt(s, k), s)
         /\ ToSet(s) = ToSet(RemoveAt(s, k)) \cup {s[k]}
<1> DEFINE p == RemoveAt(s, k)
           f == [i \in DOMAIN p |-> IF i < k THEN i ELSE i + 1]
<1>0. k \in Nat /\ Len(s) \in Nat /\ 1 <= k /\ k <= Len(s) /\ DOMAIN s = 1..Len(s)
  OBVIOUS
<1>1. PICK a, b : /\ p = a \o b
                  /\ a \in Seq(X) /\ b \in Seq(X) /\ Len(a) = k - 1 /\ Len(b) = Len(s) - k
                  /\ \A i \in 1..(k - 1) : a[i] = s[i]
                  /\ \A i \in 1..(Len(s) - k) : b[i] = s[k + i]
  <2> DEFINE x == SubSeq(s, 1, k - 1)
             y == SubSeq(s, k + 1, Len(s))
  <2>1. /\ p = x \o y
        /\ x \in Seq(X) /\ y \in Seq(X) /\ Len(x) = k - 1 /\ Len(y) = Len(s) - k
        /\ \A i \in 1..(k - 1) : x[i] = s[i]
        /\ \A i \in 1..(Len(s) - k) : y[i] = s[k + i]
    BY DEF RemoveAt
  <2> HIDE DEF x, y, p
  <2> QED
    BY <2>1
<1> HIDE DEF p
<1>2. /\ p \in Seq(X) /\ DOMAIN p = 1..(Len(s) - 1)
      /\ \A i \in 1..(k - 1) : p[i] = s[i]
      /\ \A i \in k..(Len(s) - 1) : p[i] = s[i + 1]
  <2>1. /\ p \in Seq(X) /\ Len(p) = Len(s) - 1
        /\ \A i \in 1..(k - 1) : p[i] = a[i]
        /\ \A i \in 1..(Len(s) - k) : p[(k - 1) + i] = b[i]
    <3>1. /\ p \in Seq(X) /\ Len(p) = Len(a) + Len(b)
          /\ \A i \in 1..Len(a) : p[i] = a[i]
          /\ \A i \in 1..Len(b) : p[Len(a) + i] = b[i]
      <4>1. p = a \o b /\ a \in Seq(X) /\ b \in Seq(X)
        BY <1>1
      <4> QED
        BY <4>1
    <3> QED
      BY <1>0, <1>1, <3>1
  <2>2. ASSUME NEW i \in k..(Len(s) - 1)
        PROVE  p[i] = s[i + 1]
    <3>1. PICK m \in 1..(Len(s) - k) : i = (k - 1) + m /\ i + 1 = k + m
      <4>1. /\ i - k + 1 \in 1..(Len(s) - k) /\ i = (k - 1) + (i - k + 1)
            /\ i + 1 = k + (i - k + 1)
        BY <1>0
      <4> QED
        BY <4>1
    <3> QED
      BY <1>1, <2>1, <3>1
  <2>3. \A i \in 1..(k - 1) : p[i] = s[i]
    BY <1>1, <2>1
  <2>4. DOMAIN p = 1..(Len(s) - 1)
    BY <2>1
  <2> QED
    BY <2>1, <2>2, <2>3, <2>4
<1>3. Embeds(f, p, s)
  <2>1. /\ \A i \in DOMAIN p : f[i] = IF i < k THEN i ELSE i + 1
        /\ \A i \in DOMAIN p : i < k \/ i \in k..(Len(s) - 1)
        /\ \A i \in DOMAIN p : i < k => i \in 1..(k - 1)
    BY <1>0, <1>2
  <2>2. f \in [DOMAIN p -> DOMAIN s]
    BY <1>2, <2>1
  <2> HIDE DEF f
  <2>3. \A i \in DOMAIN p : p[i] = s[f[i]]
    BY <1>2, <2>1
  <2>4. \A i, j \in DOMAIN p : i < j => f[i] < f[j]
    BY <1>2, <2>1
  <2> QED
    BY <2>2, <2>3, <2>4 DEF Embeds
<1>4. ToSet(s) = ToSet(p) \cup {s[k]}
  <2>1. \A i \in DOMAIN s : \/ i = k
                            \/ i \in 1..(k - 1) /\ i \in DOMAIN p
                            \/ i - 1 \in k..(Len(s) - 1) /\ i - 1 \in DOMAIN p /\ (i - 1) + 1 = i
    BY <1>0, <1>2
  <2>2. \A i \in DOMAIN p : \/ i \in 1..(k - 1) /\ i \in DOMAIN s
                            \/ i \in k..(Len(s) - 1) /\ i + 1 \in DOMAIN s
    <3>1. \A i \in 1..(Len(s) - 1) : \/ i \in 1..(k - 1) /\ i \in 1..Len(s)
                                     \/ i \in k..(Len(s) - 1) /\ i + 1 \in 1..Len(s)
      BY <1>0
    <3> QED
      BY <1>0, <1>2, <3>1
  <2> HIDE DEF f
  <2>3. ToSet(s) \subseteq ToSet(p) \cup {s[k]}
    <3> SUFFICES ASSUME NEW i \in DOMAIN s, i # k
                 PROVE  \E j \in DOMAIN p : s[i] = p[j]
      BY DEF ToSet
    <3>1. CASE i \in 1..(k - 1)
      BY <1>2, <2>1, <3>1
    <3>2. CASE i - 1 \in k..(Len(s) - 1) /\ i - 1 \in DOMAIN p /\ (i - 1) + 1 = i
      BY <1>2, <3>2
    <3> QED
      BY <2>1, <3>1, <3>2
  <2>4. ToSet(p) \subseteq ToSet(s)
    BY <1>2, <2>2 DEF ToSet
  <2>5. s[k] \in ToSet(s)
    BY DEF ToSet
  <2> QED
    BY <2>3, <2>4, <2>5
<1> QED
  BY <1>2, <1>3, <1>4 DEF IsSubsequence, p

LEMMA PartElements ==
  ASSUME NEW s, NEW t, IsSubsequence(s, t)
  PROVE  ToSet(s) \subseteq ToSet(t)
BY DEF IsSubsequence, Embeds, ToSet

LEMMA PartOfPart ==
  ASSUME NEW r, NEW s, NEW t, IsSubsequence(r, s), IsSubsequence(s, t)
  PROVE  IsSubsequence(r, t)
<1>1. PICK f : Embeds(f, r, s)
  BY DEF IsSubsequence
<1>2. PICK g : Embeds(g, s, t)
  BY DEF IsSubsequence
<1> DEFINE h == [i \in DOMAIN r |-> g[f[i]]]
<1>3. \A i \in DOMAIN r : h[i] = g[f[i]] /\ f[i] \in DOMAIN s
  BY <1>1 DEF Embeds
<1>4. h \in [DOMAIN r -> DOMAIN t]
  BY <1>1, <1>2 DEF Embeds
<1> HIDE DEF h
<1>5. Embeds(h, r, t)
  BY <1>1, <1>2, <1>3, <1>4 DEF Embeds
<1> QED
  BY <1>5 DEF IsSubsequence

-----------------------------------------------------------------------------
(* Tickets in order *)

TicketOf(D, Q) == [data : D, sequence : Q, number : Nat, order : Nat, loop : Nat]
ClientOf(D, Q) ==
  [out : Seq(TicketOf(D, Q)), wait : Seq(TicketOf(D, Q)), sequence_number : Nat \ {0}]

\* t goes before u.
Before(t, u) ==
  /\ t.number < u.number
  /\ t.sequence = u.sequence => t.sequence = NoSequence \/ t.order < u.order

InOrder(s) == \A i, j \in DOMAIN s : i < j => Before(s[i], s[j])
AllBefore(S, T) == \A t \in S, u \in T : Before(t, u)
Numbered(S, n) == \A t \in S : t.order <= t.number /\ t.number \in 1..(n - 1)

\* Data of D, sequences of Q.
ClientOK(c, D, Q) ==
  /\ c \in ClientOf(D, Q)
  /\ InOrder(c.wait) /\ InOrder(c.out)
  /\ AllBefore(ToSet(c.wait), ToSet(c.out))
  /\ Numbered(ToSet(c.wait) \cup ToSet(c.out), c.sequence_number)

LEMMA InOrderPart ==
  ASSUME NEW s, NEW t, IsSubsequence(s, t), InOrder(t)
  PROVE  InOrder(s)
<1>1. PICK f : Embeds(f, s, t)
  BY DEF IsSubsequence
<1> QED
  BY <1>1 DEF Embeds, InOrder

LEMMA InOrderConcatenation ==
  ASSUME NEW X, NEW s \in Seq(X), NEW t \in Seq(X),
         InOrder(s), InOrder(t), AllBefore(ToSet(s), ToSet(t))
  PROVE  InOrder(s \o t)
<1>1. /\ Len(s) \in Nat /\ Len(t) \in Nat
      /\ DOMAIN s = 1..Len(s) /\ DOMAIN t = 1..Len(t)
      /\ DOMAIN (s \o t) = 1..(Len(s) + Len(t))
      /\ \A i \in 1..Len(s) : (s \o t)[i] = s[i]
      /\ \A i \in 1..Len(t) : (s \o t)[Len(s) + i] = t[i]
      /\ \A i \in 1..(Len(s) + Len(t)) :
           i \in 1..Len(s) \/ \E j \in 1..Len(t) : i = Len(s) + j
  <2>1. DOMAIN (s \o t) = 1..(Len(s) + Len(t))
    OBVIOUS
  <2>2. Len(s) \in Nat /\ Len(t) \in Nat /\ DOMAIN s = 1..Len(s) /\ DOMAIN t = 1..Len(t)
    OBVIOUS
  <2> QED
    BY <2>1, <2>2, OfConcatenation
<1> SUFFICES ASSUME NEW i \in DOMAIN (s \o t), NEW j \in DOMAIN (s \o t), i < j
             PROVE  Before((s \o t)[i], (s \o t)[j])
  BY DEF InOrder
<1>2. CASE j \in 1..Len(s)
  <2>1. i \in 1..Len(s)
    BY <1>1, <1>2
  <2> QED
    BY <1>1, <1>2, <2>1 DEF InOrder
<1>3. ASSUME NEW k \in 1..Len(t), j = Len(s) + k
      PROVE  Before((s \o t)[i], (s \o t)[j])
  <2>1. CASE i \in 1..Len(s)
    <3>1. s[i] \in ToSet(s) /\ t[k] \in ToSet(t)
      BY <1>1, <1>3, <2>1 DEF ToSet
    <3> QED
      BY <1>1, <1>3, <2>1, <3>1 DEF AllBefore
  <2>2. ASSUME NEW m \in 1..Len(t), i = Len(s) + m
        PROVE  Before((s \o t)[i], (s \o t)[j])
    <3>1. m < k
      BY <1>1, <1>3, <2>2
    <3>2. (s \o t)[i] = t[m] /\ (s \o t)[j] = t[k]
      BY <1>1, <1>3, <2>2
    <3> QED
      BY <1>1, <3>1, <3>2 DEF InOrder
  <2> QED
    BY <1>1, <2>1, <2>2
<1> QED
  BY <1>1, <1>2, <1>3

LEMMA InOrderAppend ==
  ASSUME NEW X, NEW s \in Seq(X), NEW x \in X,
         InOrder(s), AllBefore(ToSet(s), {x})
  PROVE  InOrder(Append(s, x))
<1>1. /\ Len(s) \in Nat /\ DOMAIN s = 1..Len(s)
      /\ DOMAIN Append(s, x) = 1..(Len(s) + 1)
      /\ \A i \in 1..Len(s) : Append(s, x)[i] = s[i]
      /\ Append(s, x)[Len(s) + 1] = x
  OBVIOUS
<1> SUFFICES ASSUME NEW i \in 1..(Len(s) + 1), NEW j \in 1..(Len(s) + 1), i < j
             PROVE  Before(Append(s, x)[i], Append(s, x)[j])
  BY <1>1 DEF InOrder
<1>2. i \in 1..Len(s)
  BY <1>1
<1>3. CASE j = Len(s) + 1
  <2>1. s[i] \in ToSet(s)
    BY <1>1, <1>2 DEF ToSet
  <2> QED
    BY <1>1, <1>2, <1>3, <2>1 DEF AllBefore
<1>4. CASE j \in 1..Len(s)
  BY <1>1, <1>2, <1>4 DEF InOrder
<1> QED
  BY <1>1, <1>3, <1>4

LEMMA ElementsAreTyped ==
  ASSUME NEW X, NEW s \in Seq(X)
  PROVE  /\ ToSet(s) \subseteq X
         /\ DOMAIN s = 1..Len(s) /\ Len(s) \in Nat
         /\ \A i \in DOMAIN s : s[i] \in ToSet(s) /\ s[i] \in X
BY DEF ToSet

-----------------------------------------------------------------------------
(* The operations keep tickets in order *)

LEMMA NewClientOK ==
  ASSUME NEW D, NEW Q
  PROVE  ClientOK(NewClient, D, Q)
<1>1. <<>> \in Seq(TicketOf(D, Q)) /\ DOMAIN <<>> = {} /\ ToSet(<<>>) = {}
  BY DEF ToSet
<1> QED
  BY <1>1 DEF ClientOK, ClientOf, NewClient, InOrder, AllBefore, Numbered

\* e is c with one ticket more to send.
AddedTo(c, e, d, q) ==
  /\ e.wait = c.wait
  /\ e.sequence_number = c.sequence_number + 1
  /\ ToSet(e.out) = ToSet(c.out) \cup {Ticket(d, q, c.sequence_number)}

LEMMA AddTicketOK ==
  ASSUME NEW D, NEW Q, NEW c, ClientOK(c, D, Q), NEW d \in D, NEW q \in Q
  PROVE  ClientOK(AddTicket(c, d, q), D, Q) /\ AddedTo(c, AddTicket(c, d, q), d, q)
<1> DEFINE t == Ticket(d, q, c.sequence_number)
           a == AddTicket(c, d, q)
<1>1. /\ c \in ClientOf(D, Q) /\ c.sequence_number \in Nat \ {0}
      /\ c.wait \in Seq(TicketOf(D, Q)) /\ c.out \in Seq(TicketOf(D, Q))
  BY DEF ClientOK, ClientOf
<1>2. /\ t \in TicketOf(D, Q)
      /\ t.number = c.sequence_number /\ t.order = c.sequence_number /\ t.sequence = q
  BY <1>1 DEF Ticket, TicketOf
<1>3. /\ a.wait = c.wait /\ a.out = Append(c.out, t)
      /\ a.sequence_number = c.sequence_number + 1
      /\ a \in ClientOf(D, Q)
  <2>1. Append(c.out, t) \in Seq(TicketOf(D, Q))
    BY <1>1, <1>2
  <2>2. a = [c EXCEPT !.out = Append(@, t), !.sequence_number = @ + 1]
    BY DEF AddTicket
  <2>3. c.sequence_number + 1 \in Nat \ {0}
    BY <1>1
  <2> HIDE DEF t, a
  <2> QED
    BY <1>1, <2>1, <2>2, <2>3 DEF ClientOf
<1> HIDE DEF a, t
<1>4. ToSet(a.out) = ToSet(c.out) \cup {t}
  BY <1>1, <1>2, <1>3, OfAppend
<1>5. ToSet(c.wait) \subseteq TicketOf(D, Q) /\ ToSet(c.out) \subseteq TicketOf(D, Q)
  BY <1>1, ElementsAreTyped
<1>6. AllBefore(ToSet(c.wait) \cup ToSet(c.out), {t})
  <2> SUFFICES ASSUME NEW u \in ToSet(c.wait) \cup ToSet(c.out)
               PROVE  Before(u, t)
    BY DEF AllBefore
  <2>1. u.order <= u.number /\ u.number \in 1..(c.sequence_number - 1) /\ u \in TicketOf(D, Q)
    BY <1>5 DEF ClientOK, Numbered
  <2>2. u.order \in Nat /\ u.number \in Nat
    BY <2>1 DEF TicketOf
  <2> QED
    BY <1>1, <1>2, <2>1, <2>2 DEF Before
<1>7. InOrder(a.out)
  <2>1. InOrder(c.out) /\ AllBefore(ToSet(c.out), {t})
    BY <1>6 DEF ClientOK, AllBefore
  <2> QED
    BY <1>1, <1>2, <1>3, <2>1, InOrderAppend
<1>8. AllBefore(ToSet(a.wait), ToSet(a.out))
  BY <1>3, <1>4, <1>6 DEF ClientOK, AllBefore
<1>9. Numbered(ToSet(a.wait) \cup ToSet(a.out), a.sequence_number)
  <2>1. t.order <= t.number /\ t.number \in 1..(a.sequence_number - 1)
    BY <1>1, <1>2, <1>3
  <2>2. \A u \in ToSet(c.wait) \cup ToSet(c.out) :
          u.order <= u.number /\ u.number \in 1..(a.sequence_number - 1)
    BY <1>1, <1>3 DEF ClientOK, Numbered
  <2> QED
    BY <1>3, <1>4, <2>1, <2>2 DEF Numbered
<1> QED
  BY <1>3, <1>4, <1>7, <1>8, <1>9 DEF ClientOK, AddedTo, a, t

LEMMA FlushTicketsOK ==
  ASSUME NEW D, NEW Q, NEW c, ClientOK(c, D, Q), NEW n \in 0..Len(c.out)
  PROVE  /\ ClientOK(FlushTickets(c, n).client, D, Q)
         /\ FlushTickets(c, n).client.sequence_number = c.sequence_number
         /\ FlushTickets(c, n).sent \in Seq(TicketOf(D, Q))
         /\ ToSet(FlushTickets(c, n).client.out) \subseteq ToSet(c.out)
         /\ ToSet(FlushTickets(c, n).sent) \subseteq ToSet(FlushTickets(c, n).client.wait)
         /\ ToSet(c.wait) \subseteq ToSet(FlushTickets(c, n).client.wait)
         /\ \A t \in ToSet(FlushTickets(c, n).client.wait) :
              t \in ToSet(c.wait) \/ t \in ToSet(FlushTickets(c, n).sent)
         /\ AllBefore(ToSet(FlushTickets(c, n).sent), ToSet(FlushTickets(c, n).client.out))
         /\ \A t \in ToSet(FlushTickets(c, n).sent) :
              \E u \in ToSet(c.out) : t.data = u.data /\ t.number = u.number
         /\ \A t \in ToSet(c.out) : \/ t \in ToSet(FlushTickets(c, n).client.out)
                                    \/ \E u \in ToSet(FlushTickets(c, n).sent) : u.data = t.data
         /\ n = Len(c.out) => FlushTickets(c, n).client.out = <<>>
<1> DEFINE sent == FlushTickets(c, n).sent
           f == FlushTickets(c, n).client
           Sent(t) == [t EXCEPT !.loop = @ + 1]
<1>1. /\ c \in ClientOf(D, Q) /\ c.sequence_number \in Nat \ {0}
      /\ c.wait \in Seq(TicketOf(D, Q)) /\ c.out \in Seq(TicketOf(D, Q))
      /\ Len(c.out) \in Nat /\ n \in Nat /\ n <= Len(c.out) /\ DOMAIN c.out = 1..Len(c.out)
  BY DEF ClientOK, ClientOf
<1>2. ASSUME NEW t \in TicketOf(D, Q)
      PROVE  /\ Sent(t) \in TicketOf(D, Q) /\ Sent(t).data = t.data
             /\ Sent(t).number = t.number /\ Sent(t).sequence = t.sequence
             /\ Sent(t).order = t.order
  BY DEF TicketOf
<1>3. sent = [i \in 1..n |-> Sent(c.out[i])]
  BY DEF FlushTickets
<1> HIDE DEF Sent
<1>4. /\ sent \in Seq(TicketOf(D, Q)) /\ DOMAIN sent = 1..n
      /\ \A i \in 1..n : sent[i] = Sent(c.out[i]) /\ c.out[i] \in TicketOf(D, Q)
      /\ ToSet(sent) = {Sent(c.out[i]) : i \in 1..n}
  <2>1. \A i \in 1..n : c.out[i] \in TicketOf(D, Q)
    BY <1>1
  <2>2. \A i \in 1..n : Sent(c.out[i]) \in TicketOf(D, Q)
    BY <1>2, <2>1
  <2> QED
    BY <1>1, <1>3, <2>1, <2>2 DEF ToSet
<1>5. /\ f = [c EXCEPT !.out = SubSeq(@, n + 1, Len(@)), !.wait = @ \o sent]
  BY DEF FlushTickets
<1> HIDE DEF sent, f
<1>6. /\ f.out = SubSeq(c.out, n + 1, Len(c.out)) /\ f.wait = c.wait \o sent
      /\ f.sequence_number = c.sequence_number
      /\ f.out \in Seq(TicketOf(D, Q)) /\ f.wait \in Seq(TicketOf(D, Q))
      /\ f \in ClientOf(D, Q)
  <2>1. c.wait \o sent \in Seq(TicketOf(D, Q)) /\ SubSeq(c.out, n + 1, Len(c.out)) \in Seq(TicketOf(D, Q))
    BY <1>1, <1>4
  <2> QED
    BY <1>1, <1>5, <2>1 DEF ClientOf
<1>7. /\ IsSubsequence(f.out, c.out)
      /\ \A x : x \in ToSet(f.out) <=> \E i \in (n + 1)..Len(c.out) : x = c.out[i]
  <2>1. n + 1 \in Nat \ {0} /\ Len(c.out) \in Nat /\ Len(c.out) <= Len(c.out)
    BY <1>1
  <2>2. /\ IsSubsequence(SubSeq(c.out, n + 1, Len(c.out)), c.out)
        /\ \A x : x \in ToSet(SubSeq(c.out, n + 1, Len(c.out)))
                   <=> \E i \in (n + 1)..Len(c.out) : x = c.out[i]
    BY <1>1, <2>1, OfPart
  <2> QED
    BY <1>6, <2>2
<1>8. ToSet(f.wait) = ToSet(c.wait) \cup ToSet(sent)
  BY <1>1, <1>4, <1>6, OfConcatenation
<1>9. ToSet(f.out) \subseteq ToSet(c.out)
  BY <1>7, PartElements
<1>10. InOrder(c.out) /\ AllBefore(ToSet(c.wait), ToSet(c.out))
  BY DEF ClientOK
<1>11. AllBefore(ToSet(sent), ToSet(f.out))
  <2> SUFFICES ASSUME NEW i \in 1..n, NEW j \in (n + 1)..Len(c.out)
               PROVE  Before(Sent(c.out[i]), c.out[j])
    BY <1>4, <1>7 DEF AllBefore
  <2>1. Before(c.out[i], c.out[j])
    BY <1>1, <1>10 DEF InOrder
  <2> QED
    BY <2>1, <1>2, <1>4 DEF Before
<1>12. InOrder(sent)
  <2> SUFFICES ASSUME NEW i \in 1..n, NEW j \in 1..n, i < j
               PROVE  Before(Sent(c.out[i]), Sent(c.out[j]))
    BY <1>4 DEF InOrder
  <2>1. Before(c.out[i], c.out[j])
    BY <1>1, <1>10 DEF InOrder
  <2> QED
    BY <2>1, <1>2, <1>4 DEF Before
<1>13. AllBefore(ToSet(c.wait), ToSet(sent))
  <2> SUFFICES ASSUME NEW t \in ToSet(c.wait), NEW i \in 1..n
               PROVE  Before(t, Sent(c.out[i]))
    BY <1>4 DEF AllBefore
  <2>1. c.out[i] \in ToSet(c.out)
    BY <1>1, ElementsAreTyped
  <2>2. Before(t, c.out[i])
    BY <1>10, <2>1 DEF AllBefore
  <2> QED
    BY <2>2, <1>2, <1>4 DEF Before
<1>14. InOrder(f.wait) /\ InOrder(f.out)
  <2>1. InOrder(c.wait)
    BY DEF ClientOK
  <2>2. InOrder(c.wait \o sent)
    BY <1>1, <1>4, <1>12, <1>13, <2>1, InOrderConcatenation, Zenon
  <2> QED
    BY <2>2, <1>6, <1>7, <1>10, InOrderPart
<1>15. AllBefore(ToSet(f.wait), ToSet(f.out))
  BY <1>8, <1>9, <1>10, <1>11 DEF AllBefore
<1>16. \A t \in ToSet(sent) : \E u \in ToSet(c.out) :
         t.data = u.data /\ t.number = u.number /\ t.order = u.order
  <2>1. \A i \in 1..n : c.out[i] \in ToSet(c.out)
    BY <1>1, ElementsAreTyped
  <2> QED
    BY <1>2, <1>4, <2>1
<1>17. Numbered(ToSet(f.wait) \cup ToSet(f.out), f.sequence_number)
  <2>1. Numbered(ToSet(c.wait) \cup ToSet(c.out), c.sequence_number)
    BY DEF ClientOK
  <2> QED
    BY <1>6, <1>8, <1>9, <1>16, <2>1 DEF Numbered
<1>18. \A t \in ToSet(c.out) : t \in ToSet(f.out) \/ \E u \in ToSet(sent) : u.data = t.data
  <2> SUFFICES ASSUME NEW i \in 1..Len(c.out)
               PROVE  \/ c.out[i] \in ToSet(f.out)
                      \/ \E u \in ToSet(sent) : u.data = c.out[i].data
    BY <1>1 DEF ToSet
  <2>1. CASE i \in 1..n
    BY <1>2, <1>4, <2>1
  <2>2. CASE i \in (n + 1)..Len(c.out)
    BY <1>7, <2>2
  <2> QED
    BY <1>1, <2>1, <2>2
<1>19. n = Len(c.out) => f.out = <<>>
  BY <1>1, <1>6
<1> QED
  BY <1>4, <1>6, <1>8, <1>9, <1>11, <1>14, <1>15, <1>16, <1>17, <1>18, <1>19
     DEF ClientOK, f, sent

\* Tickets that are taken from a client leave the others in order.
LEMMA FewerTicketsOK ==
  ASSUME NEW D, NEW Q, NEW c, ClientOK(c, D, Q),
         NEW e \in ClientOf(D, Q), e.sequence_number = c.sequence_number,
         IsSubsequence(e.wait, c.wait), IsSubsequence(e.out, c.out)
  PROVE  ClientOK(e, D, Q)
<1>1. ToSet(e.wait) \subseteq ToSet(c.wait) /\ ToSet(e.out) \subseteq ToSet(c.out)
  BY PartElements
<1>2. InOrder(e.wait) /\ InOrder(e.out)
  BY InOrderPart DEF ClientOK
<1>3. AllBefore(ToSet(e.wait), ToSet(e.out))
  BY <1>1 DEF ClientOK, AllBefore
<1>4. Numbered(ToSet(e.wait) \cup ToSet(e.out), e.sequence_number)
  BY <1>1 DEF ClientOK, Numbered
<1> QED
  BY <1>2, <1>3, <1>4 DEF ClientOK

LEMMA WholeIsPart ==
  ASSUME NEW X, NEW s \in Seq(X)
  PROVE  IsSubsequence(s, s) /\ IsSubsequence(<<>>, s)
<1> DEFINE f == [i \in DOMAIN s |-> i]
           g == [i \in {} |-> i]
<1>1. Embeds(f, s, s)
  BY DEF Embeds
<1>2. Embeds(g, <<>>, s)
  BY DEF Embeds
<1> HIDE DEF f, g
<1> QED
  BY <1>1, <1>2 DEF IsSubsequence

Reason == {"DeadlineReached", "StableSequenceMiss", "TooManyRetries", "ForcedDrop",
           "NoProcessedConfirmation"}
DropOf(D, Q) == [ticket : TicketOf(D, Q), reason : Reason]
ResultOf(D, Q) == [client : ClientOf(D, Q), dropped : Seq(DropOf(D, Q))]

\* A ticket with these data was dropped.
IsDropped(data, drops) == \E i \in DOMAIN drops : drops[i].ticket.data = data

Drops(s, reason) == [k \in DOMAIN s |-> Drop(s[k], reason)]

LEMMA DropsOfTickets ==
  ASSUME NEW D, NEW Q, NEW s \in Seq(TicketOf(D, Q)), NEW reason \in Reason
  PROVE  /\ Drops(s, reason) \in Seq(DropOf(D, Q))
         /\ \A t \in ToSet(s) : IsDropped(t.data, Drops(s, reason))
         /\ \A i \in DOMAIN Drops(s, reason) : Drops(s, reason)[i].ticket \in ToSet(s)
<1> DEFINE drops == Drops(s, reason)
<1>1. \A k \in DOMAIN s : Drop(s[k], reason) \in DropOf(D, Q) /\ Drop(s[k], reason).ticket = s[k]
  BY DEF Drop, DropOf
<1>2. drops \in Seq(DropOf(D, Q))
  BY <1>1 DEF Drops
<1>3. DOMAIN drops = DOMAIN s /\ \A k \in DOMAIN s : drops[k].ticket = s[k]
  BY <1>1 DEF Drops
<1> HIDE DEF drops
<1>4. \A t \in ToSet(s) : IsDropped(t.data, drops)
  BY <1>3 DEF IsDropped, ToSet
<1>5. \A i \in DOMAIN drops : drops[i].ticket \in ToSet(s)
  BY <1>3 DEF ToSet
<1> QED
  BY <1>2, <1>4, <1>5 DEF drops

LEMMA DropDueOK ==
  ASSUME NEW D, NEW Q, NEW c, ClientOK(c, D, Q), NEW due
  PROVE  /\ ClientOK(DropDue(c, due).client, D, Q)
         /\ DropDue(c, due).client.wait = c.wait
         /\ DropDue(c, due).client.sequence_number = c.sequence_number
         /\ ToSet(DropDue(c, due).client.out) \subseteq ToSet(c.out)
         /\ DropDue(c, due).dropped \in Seq(DropOf(D, Q))
         /\ \A t \in ToSet(c.out) :
              t \in ToSet(DropDue(c, due).client.out) \/ IsDropped(t.data, DropDue(c, due).dropped)
         /\ \A i \in DOMAIN DropDue(c, due).dropped :
              DropDue(c, due).dropped[i].ticket \in ToSet(c.out)
<1> DEFINE kept == Only(c.out, {t \in ToSet(c.out) : t.data \notin due})
           late == Only(c.out, {t \in ToSet(c.out) : t.data \in due})
           e == DropDue(c, due).client
           drops == DropDue(c, due).dropped
<1>1. /\ c \in ClientOf(D, Q) /\ c.wait \in Seq(TicketOf(D, Q)) /\ c.out \in Seq(TicketOf(D, Q))
  BY DEF ClientOK, ClientOf
<1>2. /\ kept \in Seq(TicketOf(D, Q)) /\ late \in Seq(TicketOf(D, Q))
      /\ ToSet(kept) = ToSet(c.out) \cap {t \in ToSet(c.out) : t.data \notin due}
      /\ ToSet(late) = ToSet(c.out) \cap {t \in ToSet(c.out) : t.data \in due}
      /\ IsSubsequence(kept, c.out)
  <2> DEFINE K == {t \in ToSet(c.out) : t.data \notin due}
             L == {t \in ToSet(c.out) : t.data \in due}
  <2> HIDE DEF K, L
  <2>1. /\ Only(c.out, K) \in Seq(TicketOf(D, Q)) /\ Only(c.out, L) \in Seq(TicketOf(D, Q))
        /\ ToSet(Only(c.out, K)) = ToSet(c.out) \cap K
        /\ ToSet(Only(c.out, L)) = ToSet(c.out) \cap L
        /\ IsSubsequence(Only(c.out, K), c.out)
    BY <1>1, OnlyElements
  <2> QED
    BY <2>1 DEF K, L
<1>3. /\ e = [c EXCEPT !.out = kept]
      /\ drops = Drops(late, "DeadlineReached")
  BY DEF DropDue, Drops
<1> HIDE DEF kept, late, e, drops
<1>4. /\ e \in ClientOf(D, Q) /\ e.out = kept /\ e.wait = c.wait
      /\ e.sequence_number = c.sequence_number
  BY <1>1, <1>2, <1>3 DEF ClientOf
<1>5. IsSubsequence(e.wait, c.wait) /\ IsSubsequence(e.out, c.out)
  BY <1>1, <1>2, <1>4, WholeIsPart
<1>6. ClientOK(e, D, Q)
  BY <1>4, <1>5, FewerTicketsOK
<1>7. /\ drops \in Seq(DropOf(D, Q))
      /\ \A t \in ToSet(late) : IsDropped(t.data, drops)
      /\ \A i \in DOMAIN drops : drops[i].ticket \in ToSet(late)
  <2>1. "DeadlineReached" \in Reason
    BY DEF Reason
  <2> QED
    BY <1>2, <1>3, <2>1, DropsOfTickets
<1>8. \A t \in ToSet(c.out) : t \in ToSet(e.out) \/ IsDropped(t.data, drops)
  BY <1>2, <1>4, <1>7
<1>9. ToSet(e.out) \subseteq ToSet(c.out) /\ ToSet(late) \subseteq ToSet(c.out)
  BY <1>2, <1>4
<1> QED
  BY <1>4, <1>6, <1>7, <1>8, <1>9 DEF e, drops

LEMMA DropTicketsOK ==
  ASSUME NEW D, NEW Q, NEW c, ClientOK(c, D, Q)
  PROVE  /\ ClientOK(DropTickets(c).client, D, Q)
         /\ DropTickets(c).client.wait = c.wait
         /\ DropTickets(c).client.out = <<>>
         /\ DropTickets(c).client.sequence_number = c.sequence_number
<1> DEFINE e == DropTickets(c).client
<1>1. /\ c \in ClientOf(D, Q) /\ c.wait \in Seq(TicketOf(D, Q)) /\ c.out \in Seq(TicketOf(D, Q))
  BY DEF ClientOK, ClientOf
<1>2. e = [c EXCEPT !.out = <<>>]
  BY DEF DropTickets
<1> HIDE DEF e
<1>3. <<>> \in Seq(TicketOf(D, Q))
  OBVIOUS
<1>4. /\ e \in ClientOf(D, Q) /\ e.out = <<>> /\ e.wait = c.wait
      /\ e.sequence_number = c.sequence_number
  BY <1>1, <1>2, <1>3 DEF ClientOf
<1>5. IsSubsequence(e.wait, c.wait) /\ IsSubsequence(e.out, c.out)
  BY <1>1, <1>4, WholeIsPart
<1>6. ClientOK(e, D, Q)
  BY <1>4, <1>5, FewerTicketsOK
<1> QED
  BY <1>4, <1>6 DEF e

LEMMA CloseClientDrops ==
  ASSUME NEW D, NEW Q, NEW c, ClientOK(c, D, Q)
  PROVE  /\ CloseClient(c).dropped \in Seq(DropOf(D, Q))
         /\ \A t \in ToSet(c.wait) : IsDropped(t.data, CloseClient(c).dropped)
         /\ \A i \in DOMAIN CloseClient(c).dropped :
              CloseClient(c).dropped[i].reason = "NoProcessedConfirmation"
<1>1. c.wait \in Seq(TicketOf(D, Q)) /\ "NoProcessedConfirmation" \in Reason
  BY DEF ClientOK, ClientOf, Reason
<1>2. CloseClient(c).dropped = Drops(c.wait, "NoProcessedConfirmation")
  BY DEF CloseClient, Drops
<1>3. \A i \in DOMAIN CloseClient(c).dropped :
        CloseClient(c).dropped[i].reason = "NoProcessedConfirmation"
  BY <1>2 DEF Drop, Drops
<1> QED
  BY <1>1, <1>2, <1>3, DropsOfTickets

-----------------------------------------------------------------------------
(* Tickets that are rolled back *)

\* What the rollback of tickets keeps: later are the tickets that stay in wait.
RollOK(r, later, D, Q) ==
  /\ r \in ResultOf(D, Q)
  /\ later \subseteq ToSet(r.client.wait)
  /\ InOrder(r.client.out)
  /\ AllBefore(later, ToSet(r.client.out))
  /\ Numbered(ToSet(r.client.wait) \cup ToSet(r.client.out), r.client.sequence_number)

\* e comes after r: nothing that r has to send or has dropped is missing, and
\* what there is more has new numbers and the data of lost tickets.
RollsOn(r, e, lost) ==
  /\ e.client.wait = r.client.wait
  /\ r.client.sequence_number <= e.client.sequence_number
  /\ ToSet(r.client.out) \subseteq ToSet(e.client.out)
  /\ \A data : IsDropped(data, r.dropped) => IsDropped(data, e.dropped)
  /\ \A u \in ToSet(e.client.out) :
       \/ u \in ToSet(r.client.out)
       \/ u.number >= r.client.sequence_number /\ \E t \in lost : u.data = t.data

\* The ticket has a new number above n, or it was dropped.
IsRolled(t, r, n) ==
  \/ \E u \in ToSet(r.client.out) : u.data = t.data /\ u.number >= n
  \/ IsDropped(t.data, r.dropped)

LEMMA AppendDrop ==
  ASSUME NEW D, NEW Q, NEW drops \in Seq(DropOf(D, Q)), NEW t \in TicketOf(D, Q),
         NEW reason \in Reason
  PROVE  /\ Append(drops, Drop(t, reason)) \in Seq(DropOf(D, Q))
         /\ IsDropped(t.data, Append(drops, Drop(t, reason)))
         /\ \A data : IsDropped(data, drops) => IsDropped(data, Append(drops, Drop(t, reason)))
<1>1. Drop(t, reason) \in DropOf(D, Q) /\ Drop(t, reason).ticket = t
  BY DEF Drop, DropOf
<1> DEFINE x == Drop(t, reason)
<1> HIDE DEF x
<1>2. /\ Append(drops, x) \in Seq(DropOf(D, Q)) /\ Append(drops, x)[Len(drops) + 1] = x
      /\ Len(drops) + 1 \in DOMAIN Append(drops, x)
      /\ \A i \in DOMAIN drops : i \in DOMAIN Append(drops, x) /\ Append(drops, x)[i] = drops[i]
  BY <1>1 DEF x
<1>3. IsDropped(t.data, Append(drops, x))
  BY <1>1, <1>2 DEF IsDropped, x
<1>4. \A data : IsDropped(data, drops) => IsDropped(data, Append(drops, x))
  BY <1>2 DEF IsDropped
<1> QED
  BY <1>2, <1>3, <1>4 DEF x

\* What RollbackTicket makes of a result.
Dropping(r, t, reason) == [r EXCEPT !.dropped = Append(@, Drop(t, reason))]
Requeued(r, t) ==
  [r EXCEPT !.client.out = Append(@, Renumbered(t, r.client.sequence_number)),
            !.client.sequence_number = @ + 1]

LEMMA RollDrops ==
  ASSUME NEW D, NEW Q, NEW later, NEW r, RollOK(r, later, D, Q),
         NEW t \in TicketOf(D, Q), NEW reason \in Reason, NEW n
  PROVE  /\ RollOK(Dropping(r, t, reason), later, D, Q)
         /\ RollsOn(r, Dropping(r, t, reason), {t})
         /\ IsRolled(t, Dropping(r, t, reason), n)
<1> DEFINE e == Dropping(r, t, reason)
<1>1. r \in ResultOf(D, Q) /\ r.client \in ClientOf(D, Q) /\ r.dropped \in Seq(DropOf(D, Q))
  BY DEF RollOK, ResultOf
<1>2. /\ Append(r.dropped, Drop(t, reason)) \in Seq(DropOf(D, Q))
      /\ IsDropped(t.data, Append(r.dropped, Drop(t, reason)))
      /\ \A data : IsDropped(data, r.dropped) => IsDropped(data, Append(r.dropped, Drop(t, reason)))
  BY <1>1, AppendDrop
<1>3. /\ e \in ResultOf(D, Q) /\ e.client = r.client
      /\ e.dropped = Append(r.dropped, Drop(t, reason))
  BY <1>1, <1>2 DEF ResultOf, Dropping
<1> HIDE DEF e
<1>4. RollOK(e, later, D, Q)
  BY <1>3 DEF RollOK
<1>5. r.client.sequence_number <= r.client.sequence_number
  BY <1>1 DEF ClientOf
<1>6. RollsOn(r, e, {t})
  BY <1>2, <1>3, <1>5 DEF RollsOn
<1>7. IsRolled(t, e, n)
  BY <1>2, <1>3 DEF IsRolled
<1> QED
  BY <1>4, <1>6, <1>7 DEF e

LEMMA RollRenumbers ==
  ASSUME NEW D, NEW Q, NEW later, NEW r, RollOK(r, later, D, Q),
         NEW t \in TicketOf(D, Q), t \in ToSet(r.client.wait),
         \A u \in later : t.number < u.number,
         NEW acknowledged, ~Superseded(t, acknowledged, r.client),
         NEW n \in Nat, n <= r.client.sequence_number
  PROVE  /\ RollOK(Requeued(r, t), later, D, Q)
         /\ RollsOn(r, Requeued(r, t), {t})
         /\ IsRolled(t, Requeued(r, t), n)
<1> DEFINE e == Requeued(r, t)
           m == r.client.sequence_number
           x == Renumbered(t, m)
<1>1. /\ r \in ResultOf(D, Q) /\ r.client \in ClientOf(D, Q)
      /\ r.client.out \in Seq(TicketOf(D, Q)) /\ r.client.wait \in Seq(TicketOf(D, Q))
      /\ m \in Nat \ {0}
  BY DEF RollOK, ResultOf, ClientOf
<1>2. /\ x \in TicketOf(D, Q) /\ x.number = m /\ x.data = t.data /\ x.order = t.order
      /\ x.sequence = t.sequence
  BY <1>1 DEF Renumbered, TicketOf
<1>3. /\ e \in ResultOf(D, Q)
      /\ e.client.out = Append(r.client.out, x)
      /\ e.client.wait = r.client.wait
      /\ e.client.sequence_number = m + 1
      /\ e.dropped = r.dropped
  <2>1. Append(r.client.out, x) \in Seq(TicketOf(D, Q)) /\ m + 1 \in Nat \ {0}
    BY <1>1, <1>2
  <2> HIDE DEF x
  <2>2. /\ e.client = [out |-> Append(r.client.out, x), wait |-> r.client.wait,
                      sequence_number |-> m + 1]
        /\ e.dropped = r.dropped
    BY <1>1 DEF ResultOf, ClientOf, Requeued, x
  <2>3. e.client \in ClientOf(D, Q)
    BY <1>1, <2>1, <2>2 DEF ClientOf
  <2>4. e \in ResultOf(D, Q)
    BY <1>1, <2>3 DEF ResultOf, Requeued
  <2> HIDE DEF e
  <2> QED
    BY <2>2, <2>4
<1> HIDE DEF e, x
<1>4. ToSet(e.client.out) = ToSet(r.client.out) \cup {x}
  BY <1>1, <1>2, <1>3, OfAppend
<1>5. ToSet(r.client.wait) \subseteq TicketOf(D, Q) /\ ToSet(r.client.out) \subseteq TicketOf(D, Q)
  BY <1>1, ElementsAreTyped
<1>6. Numbered(ToSet(r.client.wait) \cup ToSet(r.client.out), m)
  BY DEF RollOK
<1>7. \A u \in ToSet(r.client.wait) \cup ToSet(r.client.out) : u.number < m
  BY <1>1, <1>6 DEF Numbered
<1>8. t.order <= t.number /\ t.number < m
  BY <1>6, <1>7 DEF Numbered
<1>9. x.sequence # NoSequence =>
        /\ \A u \in ToSet(r.client.out) : u.sequence # x.sequence
        /\ \A u \in later : u.sequence # x.sequence
  <2> SUFFICES ASSUME t.sequence # NoSequence
               PROVE  /\ \A u \in ToSet(r.client.out) : u.sequence # t.sequence
                      /\ \A u \in later : u.sequence # t.sequence
    BY <1>2
  <2>1. /\ t.sequence \notin SequencesOf(r.client.out)
        /\ \A i \in DOMAIN r.client.wait :
             ~(r.client.wait[i].number > t.number /\ r.client.wait[i].sequence = t.sequence)
    BY DEF Superseded
  <2>2. \A u \in ToSet(r.client.out) : u.sequence # t.sequence
    BY <2>1 DEF SequencesOf, ToSet
  <2>3. ASSUME NEW u \in later
        PROVE  u.sequence # t.sequence
    <3>1. PICK i \in DOMAIN r.client.wait : u = r.client.wait[i]
      BY DEF RollOK, ToSet
    <3>2. t.number < u.number /\ t.number \in Nat /\ u.number \in Nat
      BY <1>5, <3>1 DEF TicketOf, RollOK
    <3> QED
      BY <2>1, <3>1, <3>2
  <2> QED
    BY <2>2, <2>3
<1>10. AllBefore(later \cup ToSet(r.client.out), {x})
  <2> SUFFICES ASSUME NEW u \in later \cup ToSet(r.client.out)
               PROVE  Before(u, x)
    BY DEF AllBefore
  <2>1. u \in ToSet(r.client.wait) \cup ToSet(r.client.out)
    BY DEF RollOK
  <2> QED
    BY <1>2, <1>7, <1>9, <2>1 DEF Before
<1>11. InOrder(e.client.out)
  <2>1. InOrder(r.client.out) /\ AllBefore(ToSet(r.client.out), {x})
    BY <1>10 DEF RollOK, AllBefore
  <2>2. InOrder(Append(r.client.out, x))
    BY <1>1, <1>2, <2>1, InOrderAppend
  <2> QED
    BY <1>3, <2>2
<1>12. AllBefore(later, ToSet(e.client.out))
  BY <1>4, <1>10 DEF RollOK, AllBefore
<1>13. Numbered(ToSet(e.client.wait) \cup ToSet(e.client.out), e.client.sequence_number)
  <2>1. x.order <= x.number /\ x.number \in 1..(e.client.sequence_number - 1)
    <3>1. t.order \in Nat /\ t.number \in Nat
      BY DEF TicketOf
    <3> QED
      BY <1>1, <1>2, <1>3, <1>8, <3>1
  <2>2. \A u \in ToSet(r.client.wait) \cup ToSet(r.client.out) :
          u.order <= u.number /\ u.number \in 1..(e.client.sequence_number - 1)
    BY <1>1, <1>3, <1>6 DEF Numbered
  <2> QED
    BY <1>3, <1>4, <2>1, <2>2 DEF Numbered
<1>14. RollOK(e, later, D, Q)
  BY <1>3, <1>11, <1>12, <1>13 DEF RollOK
<1>15. RollsOn(r, e, {t})
  <2>1. x.number >= m /\ m <= m + 1
    BY <1>1, <1>2
  <2> QED
    BY <1>2, <1>3, <1>4, <2>1 DEF RollsOn
<1>16. IsRolled(t, e, n)
  <2>1. x.number >= n
    BY <1>1, <1>2
  <2> QED
    BY <1>2, <1>4, <2>1 DEF IsRolled
<1> QED
  BY <1>14, <1>15, <1>16 DEF e, x

LEMMA RollbackTicketOK ==
  ASSUME NEW D, NEW Q, NEW later, NEW r, RollOK(r, later, D, Q),
         NEW t \in TicketOf(D, Q), t \in ToSet(r.client.wait),
         \A u \in later : t.number < u.number,
         NEW acknowledged, NEW due,
         NEW n \in Nat, n <= r.client.sequence_number
  PROVE  /\ RollOK(RollbackTicket(t, acknowledged, due, r), later, D, Q)
         /\ RollsOn(r, RollbackTicket(t, acknowledged, due, r), {t})
         /\ IsRolled(t, RollbackTicket(t, acknowledged, due, r), n)
<1>1. CASE t.data \in due
  <2>1. RollbackTicket(t, acknowledged, due, r) = Dropping(r, t, "DeadlineReached")
    BY <1>1 DEF RollbackTicket, Dropping
  <2>2. "DeadlineReached" \in Reason
    BY DEF Reason
  <2> QED
    BY <2>1, <2>2, RollDrops
<1>2. CASE t.data \notin due /\ Superseded(t, acknowledged, r.client)
  <2>1. RollbackTicket(t, acknowledged, due, r) = Dropping(r, t, "StableSequenceMiss")
    BY <1>2 DEF RollbackTicket, Dropping
  <2>2. "StableSequenceMiss" \in Reason
    BY DEF Reason
  <2> QED
    BY <2>1, <2>2, RollDrops
<1>3. CASE t.data \notin due /\ ~Superseded(t, acknowledged, r.client)
  <2>1. RollbackTicket(t, acknowledged, due, r) = Requeued(r, t)
    BY <1>3 DEF RollbackTicket, Requeued
  <2> QED
    BY <1>3, <2>1, RollRenumbers
<1> QED
  BY <1>1, <1>2, <1>3

-----------------------------------------------------------------------------
(* Acknowledgements *)

Numbers(tickets, number) == SelectInSeq(tickets, LAMBDA t : t.number = number)

LEMMA FirstWithNumber ==
  ASSUME NEW X, NEW s \in Seq(X), NEW number
  PROVE  \/ Numbers(s, number) = 0
         \/ Numbers(s, number) \in 1..Len(s) /\ s[Numbers(s, number)].number = number
<1> DEFINE I == {i \in 1..Len(s) : s[i].number = number}
<1>1. Numbers(s, number) = IF I # {} THEN Min(I) ELSE 0
  BY DEF Numbers, SelectInSeq
<1>2. I \in SUBSET Nat
  OBVIOUS
<1>3. ASSUME I # {}
      PROVE  Min(I) \in I
  <2> HIDE DEF I
  <2>1. \E m \in I : \A n \in I : m <= n
    BY <1>2, <1>3, LeastNatural
  <2> QED
    BY <2>1 DEF Min
<1> HIDE DEF I
<1>4. CASE I # {}
  BY <1>1, <1>3, <1>4 DEF I
<1> QED
  BY <1>1, <1>4

LEMMA RollsOnFurther ==
  ASSUME NEW D, NEW Q, NEW r, NEW e, NEW f, NEW L, NEW t \in L,
         r.client.sequence_number \in Nat, e.client.sequence_number \in Nat,
         f.client.sequence_number \in Nat,
         ToSet(f.client.out) \subseteq TicketOf(D, Q),
         RollsOn(r, e, L), RollsOn(e, f, {t})
  PROVE  /\ RollsOn(r, f, L)
         /\ \A x, n : IsRolled(x, e, n) => IsRolled(x, f, n)
<1>1. r.client.sequence_number <= f.client.sequence_number
  BY DEF RollsOn
<1>2. \A u \in ToSet(f.client.out) :
        \/ u \in ToSet(r.client.out)
        \/ u.number >= r.client.sequence_number /\ \E x \in L : u.data = x.data
  <2> SUFFICES ASSUME NEW u \in ToSet(f.client.out), u \notin ToSet(r.client.out)
               PROVE  u.number >= r.client.sequence_number /\ \E x \in L : u.data = x.data
    OBVIOUS
  <2>1. CASE u \in ToSet(e.client.out)
    BY <2>1 DEF RollsOn
  <2>2. CASE u \notin ToSet(e.client.out)
    <3>1. u.number >= e.client.sequence_number /\ u.data = t.data
      BY <2>2 DEF RollsOn
    <3>2. u.number \in Nat
      BY DEF TicketOf
    <3> QED
      BY <3>1, <3>2 DEF RollsOn
  <2> QED
    BY <2>1, <2>2
<1>3. RollsOn(r, f, L)
  BY <1>1, <1>2 DEF RollsOn
<1>4. \A x, n : IsRolled(x, e, n) => IsRolled(x, f, n)
  BY DEF RollsOn, IsRolled
<1> QED
  BY <1>3, <1>4

LEMMA RollbackTicketsOK ==
  ASSUME NEW D, NEW Q, NEW later, NEW r, RollOK(r, later, D, Q),
         NEW lost \in Seq(TicketOf(D, Q)), ToSet(lost) \subseteq ToSet(r.client.wait),
         \A t \in ToSet(lost) : \A u \in later : t.number < u.number,
         NEW acknowledged, NEW due
  PROVE  /\ RollOK(RollbackTickets(lost, acknowledged, due, r), later, D, Q)
         /\ RollsOn(r, RollbackTickets(lost, acknowledged, due, r), ToSet(lost))
         /\ \A t \in ToSet(lost) :
              IsRolled(t, RollbackTickets(lost, acknowledged, due, r), r.client.sequence_number)
<1> DEFINE N == Len(lost)
           n0 == r.client.sequence_number
<1>1. PICK c : /\ c[0] = r
               /\ \A k \in 1..N : c[k] = RollbackTicket(lost[k], acknowledged, due, c[k - 1])
               /\ RollbackTickets(lost, acknowledged, due, r) = c[N]
  <2> DEFINE X == TicketOf(D, Q)
  <2> HIDE DEF X
  <2>1. lost \in Seq(X)
    BY DEF X
  <2>2. \E c : RollsAlong(c, lost, acknowledged, due, r)
    BY <2>1, RollbackChain
  <2> QED
    BY <2>2 DEF RollsAlong
<1> DEFINE Good(k) == /\ RollOK(c[k], later, D, Q)
                      /\ RollsOn(r, c[k], ToSet(lost))
                      /\ \A j \in 1..k : IsRolled(lost[j], c[k], n0)
           T == {k \in 0..N : Good(k)}
<1>2. /\ N \in Nat /\ DOMAIN lost = 1..N
      /\ \A k \in 1..N : lost[k] \in TicketOf(D, Q) /\ lost[k] \in ToSet(lost)
  BY ElementsAreTyped
<1>3. ASSUME NEW e, RollOK(e, later, D, Q)
      PROVE  /\ e.client.sequence_number \in Nat
             /\ ToSet(e.client.out) \subseteq TicketOf(D, Q)
  <2>1. e.client \in ClientOf(D, Q)
    BY <1>3 DEF RollOK, ResultOf
  <2>2. e.client.out \in Seq(TicketOf(D, Q))
    BY <2>1 DEF ClientOf
  <2> QED
    BY <2>1, <2>2, ElementsAreTyped DEF ClientOf
<1>4. 0 \in T
  <2>1. RollsOn(r, r, ToSet(lost))
    <3>1. n0 <= n0
      BY <1>3
    <3> QED
      BY <3>1 DEF RollsOn
  <2>2. 1..0 = {} /\ 0 \in 0..N
    BY <1>2
  <2> QED
    BY <1>1, <2>1, <2>2
<1>5. ASSUME NEW k \in 1..N, k - 1 \in T
      PROVE  k \in T
  <2> DEFINE b == c[k - 1]
             t == lost[k]
  <2>1. Good(k - 1)
    BY <1>5
  <2>2. c[k] = RollbackTicket(t, acknowledged, due, b)
    BY <1>1
  <2>3. /\ RollOK(b, later, D, Q) /\ RollsOn(r, b, ToSet(lost))
        /\ t \in TicketOf(D, Q) /\ t \in ToSet(lost) /\ t \in ToSet(b.client.wait)
        /\ \A u \in later : t.number < u.number
        /\ n0 \in Nat /\ n0 <= b.client.sequence_number
    <3>1. RollOK(b, later, D, Q) /\ RollsOn(r, b, ToSet(lost))
      BY <2>1
    <3>2. t \in TicketOf(D, Q) /\ t \in ToSet(lost)
      BY <1>2
    <3> HIDE DEF b, t
    <3>3. n0 \in Nat
      BY <1>3
    <3> QED
      BY <3>1, <3>2, <3>3 DEF RollsOn
  <2>4. \A j \in 1..(k - 1) : IsRolled(lost[j], b, n0)
    BY <2>1
  <2> DEFINE e == RollbackTicket(t, acknowledged, due, b)
  <2> HIDE DEF b, t, Good, n0
  <2>5. RollOK(e, later, D, Q) /\ RollsOn(b, e, {t}) /\ IsRolled(t, e, n0)
    BY <2>3, RollbackTicketOK
  <2> HIDE DEF e
  <2>6. /\ RollsOn(r, e, ToSet(lost))
        /\ \A x, n : IsRolled(x, b, n) => IsRolled(x, e, n)
    <3>1. /\ r.client.sequence_number \in Nat /\ b.client.sequence_number \in Nat
          /\ e.client.sequence_number \in Nat /\ ToSet(e.client.out) \subseteq TicketOf(D, Q)
      BY <1>3, <2>3, <2>5
    <3> QED
      BY <2>3, <2>5, <3>1, RollsOnFurther
  <2>7. \A j \in 1..k : IsRolled(lost[j], e, n0)
    <3> SUFFICES ASSUME NEW j \in 1..k
                 PROVE  IsRolled(lost[j], e, n0)
      OBVIOUS
    <3>1. CASE j = k
      BY <2>5, <3>1 DEF t
    <3>2. CASE j \in 1..(k - 1)
      BY <2>4, <2>6, <3>2
    <3> QED
      BY <3>1, <3>2
  <2>8. k \in 0..N
    OBVIOUS
  <2> QED
    BY <2>2, <2>5, <2>6, <2>7, <2>8 DEF Good, e
<1>6. Good(N)
  <2> HIDE DEF T
  <2>1. \A k \in 1..N : k - 1 \in T => k \in T
    BY <1>5
  <2>2. N \in 0..N
    BY <1>2
  <2> HIDE DEF N
  <2>3. N \in T
    BY <1>2, <1>4, <2>1, <2>2, EveryPrefix
  <2> HIDE DEF Good
  <2> QED
    BY <2>3 DEF T
<1>7. \A t \in ToSet(lost) : IsRolled(t, c[N], n0)
  BY <1>2, <1>6 DEF ToSet
<1> QED
  BY <1>1, <1>6, <1>7

\* What an acknowledgement does to a client, and what it drops: only a ticket
\* with the acknowledged number may be gone with nobody told.
Acknowledges(c, number, r, D, Q) ==
  /\ ClientOK(r.client, D, Q)
  /\ r.dropped \in Seq(DropOf(D, Q))
  /\ c.sequence_number <= r.client.sequence_number
  /\ ToSet(r.client.wait) \subseteq ToSet(c.wait)
  /\ \A u \in ToSet(r.client.out) :
       \/ u \in ToSet(c.out)
       \/ u.number >= c.sequence_number /\ \E t \in ToSet(c.wait) : u.data = t.data
  /\ \A t \in ToSet(c.out) : t.number # number => t \in ToSet(r.client.out)
  /\ \A t \in ToSet(c.wait) :
       t.number > number => t \in ToSet(r.client.wait) \/ IsDropped(t.data, r.dropped)
  /\ \A t \in ToSet(c.wait) :
       t.number < number => t \in ToSet(r.client.wait) \/ IsRolled(t, r, c.sequence_number)

LEMMA AcknowledgeSkipped ==
  ASSUME NEW D, NEW Q, NEW c, ClientOK(c, D, Q), NEW number \in Nat,
         NEW K, \A t \in ToSet(c.out) : t \in K <=> t.number # number,
         NEW e, e.dropped = <<>>, e.client.out = Only(c.out, K), e.client.wait = c.wait,
         e.client.sequence_number = c.sequence_number,
         Only(c.out, K) \in Seq(TicketOf(D, Q)) => e.client \in ClientOf(D, Q)
  PROVE  Acknowledges(c, number, e, D, Q)
<1> DEFINE X == TicketOf(D, Q)
<1>1. c.wait \in Seq(X) /\ c.out \in Seq(X) /\ c.sequence_number \in Nat
  BY DEF ClientOK, ClientOf
<1> HIDE DEF X
<1>2. /\ e.client.out \in Seq(X) /\ IsSubsequence(e.client.out, c.out)
      /\ ToSet(e.client.out) = ToSet(c.out) \cap K
  BY <1>1, OnlyElements
<1>3. IsSubsequence(e.client.wait, c.wait)
  BY <1>1, WholeIsPart
<1>4. ClientOK(e.client, D, Q)
  BY <1>2, <1>3, FewerTicketsOK DEF X
<1>5. c.sequence_number <= c.sequence_number /\ <<>> \in Seq(DropOf(D, Q))
  BY <1>1
<1> QED
  BY <1>2, <1>4, <1>5 DEF Acknowledges

LEMMA AcknowledgeFirst ==
  ASSUME NEW D, NEW Q, NEW c, ClientOK(c, D, Q), NEW number \in Nat,
         c.wait # <<>>, c.wait[1].number = number,
         NEW e, e.dropped = <<>>, e.client \in ClientOf(D, Q), e.client.wait = Tail(c.wait),
         e.client.out = c.out, e.client.sequence_number = c.sequence_number
  PROVE  Acknowledges(c, number, e, D, Q)
<1> DEFINE X == TicketOf(D, Q)
<1>1. c.wait \in Seq(X) /\ c.out \in Seq(X) /\ c.sequence_number \in Nat
  BY DEF ClientOK, ClientOf
<1>2. \A t \in ToSet(c.wait) : t.number \in Nat
  <2>1. \A t \in ToSet(c.wait) : t \in X
    BY <1>1, ElementsAreTyped
  <2> QED
    BY <2>1 DEF TicketOf
<1> HIDE DEF X
<1>3. /\ IsSubsequence(Tail(c.wait), c.wait)
      /\ ToSet(c.wait) = ToSet(Tail(c.wait)) \cup {c.wait[1]}
  BY <1>1, OfTail
<1>4. IsSubsequence(e.client.out, c.out)
  BY <1>1, WholeIsPart
<1>5. ClientOK(e.client, D, Q)
  BY <1>3, <1>4, FewerTicketsOK
<1>6. c.sequence_number <= c.sequence_number /\ <<>> \in Seq(DropOf(D, Q))
  BY <1>1
<1>7. \A t \in ToSet(c.wait) : t.number > number \/ t.number < number => t \in ToSet(e.client.wait)
  BY <1>2, <1>3
<1> QED
  BY <1>3, <1>5, <1>6, <1>7 DEF Acknowledges

\* The acknowledgement of the ticket at k, when it is not the oldest one.
AcknowledgesLater(c, number, due, k, rest, O, W, L, M, old, waiting, lost, base, rolled, e, D, Q) ==
  /\ k \in 1..Len(c.wait) /\ c.wait[k].number = number
  /\ rest = RemoveAt(c.wait, k)
  /\ \A t \in ToSet(rest) : t \in O <=> t.loop > OldLoop
  /\ \A t \in ToSet(rest) : t \in W <=> t.loop <= OldLoop
  /\ \A t \in ToSet(waiting) : t \in L <=> t.number < number
  /\ \A t \in ToSet(waiting) : t \in M <=> t.number >= number
  /\ old = Only(rest, O) /\ waiting = Only(rest, W) /\ lost = Only(waiting, L)
  /\ base \in ResultOf(D, Q) /\ base.client.wait = waiting
  /\ base.client.out = c.out /\ base.client.sequence_number = c.sequence_number
  /\ base.dropped = Drops(old, "TooManyRetries")
  /\ rolled = RollbackTickets(lost, c.wait[k], due, base)
  /\ rolled \in ResultOf(D, Q) /\ rolled.client.wait = waiting =>
       /\ e.dropped = rolled.dropped /\ e.client.out = rolled.client.out
       /\ e.client.sequence_number = rolled.client.sequence_number
       /\ e.client.wait = Only(waiting, M)
       /\ Only(waiting, M) \in Seq(TicketOf(D, Q)) => e.client \in ClientOf(D, Q)

LEMMA AcknowledgeLater ==
  ASSUME NEW D, NEW Q, NEW c, ClientOK(c, D, Q), NEW number \in Nat, NEW due,
         NEW k, NEW rest, NEW O, NEW W, NEW L, NEW M, NEW old, NEW waiting, NEW lost,
         NEW base, NEW rolled, NEW e,
         AcknowledgesLater(c, number, due, k, rest, O, W, L, M, old, waiting, lost, base,
                           rolled, e, D, Q)
  PROVE  Acknowledges(c, number, e, D, Q)
<1>0. /\ k \in 1..Len(c.wait) /\ c.wait[k].number = number
      /\ rest = RemoveAt(c.wait, k)
      /\ \A t \in ToSet(rest) : t \in O <=> t.loop > OldLoop
      /\ \A t \in ToSet(rest) : t \in W <=> t.loop <= OldLoop
      /\ \A t \in ToSet(waiting) : t \in L <=> t.number < number
      /\ \A t \in ToSet(waiting) : t \in M <=> t.number >= number
      /\ old = Only(rest, O) /\ waiting = Only(rest, W) /\ lost = Only(waiting, L)
      /\ base \in ResultOf(D, Q) /\ base.client.wait = waiting
      /\ base.client.out = c.out /\ base.client.sequence_number = c.sequence_number
      /\ base.dropped = Drops(old, "TooManyRetries")
      /\ rolled = RollbackTickets(lost, c.wait[k], due, base)
      /\ rolled \in ResultOf(D, Q) /\ rolled.client.wait = waiting =>
           /\ e.dropped = rolled.dropped /\ e.client.out = rolled.client.out
           /\ e.client.sequence_number = rolled.client.sequence_number
           /\ e.client.wait = Only(waiting, M)
           /\ Only(waiting, M) \in Seq(TicketOf(D, Q)) => e.client \in ClientOf(D, Q)
  BY DEF AcknowledgesLater
<1> USE <1>0
<1> DEFINE X == TicketOf(D, Q)
<1>1. /\ c \in ClientOf(D, Q) /\ c.wait \in Seq(X) /\ c.out \in Seq(X)
      /\ c.sequence_number \in Nat
  BY DEF ClientOK, ClientOf
<1> HIDE DEF X
<1>2. rest \in Seq(X) /\ IsSubsequence(rest, c.wait) /\ ToSet(c.wait) = ToSet(rest) \cup {c.wait[k]}
  BY <1>1, OfRemoveAt
<1>3. /\ old \in Seq(X) /\ waiting \in Seq(X) /\ lost \in Seq(X)
      /\ ToSet(old) = ToSet(rest) \cap O
      /\ ToSet(waiting) = ToSet(rest) \cap W
      /\ ToSet(lost) = ToSet(waiting) \cap L
      /\ IsSubsequence(waiting, rest)
  <2>1. /\ old \in Seq(X) /\ waiting \in Seq(X) /\ IsSubsequence(waiting, rest)
        /\ ToSet(old) = ToSet(rest) \cap O /\ ToSet(waiting) = ToSet(rest) \cap W
    BY <1>2, OnlyElements
  <2>2. lost \in Seq(X) /\ ToSet(lost) = ToSet(waiting) \cap L
    BY <2>1, OnlyElements
  <2> QED
    BY <2>1, <2>2
<1>4. \A t \in ToSet(c.wait) : t \in X /\ t.number \in Nat /\ t.loop \in Nat
  <2>1. \A t \in ToSet(c.wait) : t \in X
    BY <1>1, ElementsAreTyped
  <2> QED
    BY <2>1 DEF X, TicketOf
<1> DEFINE later == ToSet(waiting) \cap M
<1>5. ToSet(waiting) \subseteq ToSet(c.wait) /\ ToSet(lost) \subseteq ToSet(waiting)
  BY <1>2, <1>3
<1>6. RollOK(base, later, D, Q)
  <2>1. InOrder(c.out)
    BY DEF ClientOK
  <2>2. AllBefore(later, ToSet(c.out))
    BY <1>5 DEF ClientOK, AllBefore
  <2>3. Numbered(ToSet(waiting) \cup ToSet(c.out), c.sequence_number)
    BY <1>5 DEF ClientOK, Numbered
  <2>4. later \subseteq ToSet(waiting)
    OBVIOUS
  <2> HIDE DEF later
  <2> QED
    BY <2>1, <2>2, <2>3, <2>4 DEF RollOK
<1>7. \A t \in ToSet(lost) : \A u \in later : t.number < u.number
  <2> SUFFICES ASSUME NEW t \in ToSet(lost), NEW u \in later
               PROVE  t.number < u.number
    OBVIOUS
  <2>1. t.number < number /\ u.number >= number
    BY <1>3
  <2>2. t.number \in Nat /\ u.number \in Nat
    BY <1>4, <1>5
  <2> QED
    BY <2>1, <2>2
<1>8. \A t \in later : t \in ToSet(waiting) /\ t.number >= number
  OBVIOUS
<1> HIDE DEF later
<1>9. /\ RollOK(rolled, later, D, Q)
      /\ RollsOn(base, rolled, ToSet(lost))
      /\ \A t \in ToSet(lost) : IsRolled(t, rolled, c.sequence_number)
  <2>1. lost \in Seq(TicketOf(D, Q)) /\ ToSet(lost) \subseteq ToSet(base.client.wait)
    BY <1>3, <1>5 DEF X
  <2>2. /\ RollOK(RollbackTickets(lost, c.wait[k], due, base), later, D, Q)
        /\ RollsOn(base, RollbackTickets(lost, c.wait[k], due, base), ToSet(lost))
        /\ \A t \in ToSet(lost) :
             IsRolled(t, RollbackTickets(lost, c.wait[k], due, base), base.client.sequence_number)
    BY <1>6, <1>7, <2>1, RollbackTicketsOK
  <2> QED
    BY <2>2
<1> DEFINE final == Only(waiting, M)
<1>10. /\ final \in Seq(X) /\ IsSubsequence(final, waiting) /\ ToSet(final) = later
  BY <1>3, OnlyElements DEF later
<1> HIDE DEF final
<1>11. /\ e.dropped = rolled.dropped /\ e.client.out = rolled.client.out
       /\ e.client.sequence_number = rolled.client.sequence_number
       /\ e.client.wait = final
       /\ e.client \in ClientOf(D, Q)
  <2>1. rolled \in ResultOf(D, Q) /\ rolled.client.wait = waiting
    BY <1>9 DEF RollOK, RollsOn
  <2>2. Only(waiting, M) \in Seq(TicketOf(D, Q))
    BY <1>10 DEF final, X
  <2> QED
    BY <2>1, <2>2 DEF final
<1>12. e.client \in ClientOf(D, Q) /\ e.dropped \in Seq(DropOf(D, Q))
  BY <1>9, <1>11 DEF RollOK, ResultOf
<1>13. ClientOK(e.client, D, Q)
  <2>1. InOrder(e.client.wait)
    <3>1. InOrder(waiting)
      BY <1>2, <1>3, InOrderPart DEF ClientOK
    <3> QED
      BY <1>10, <1>11, <3>1, InOrderPart
  <2>2. InOrder(e.client.out) /\ AllBefore(ToSet(e.client.wait), ToSet(e.client.out))
    BY <1>9, <1>10, <1>11 DEF RollOK
  <2>3. rolled.client.wait = waiting
    BY <1>9 DEF RollsOn
  <2>4. Numbered(ToSet(e.client.wait) \cup ToSet(e.client.out), e.client.sequence_number)
    BY <1>8, <1>9, <1>10, <1>11, <2>3 DEF RollOK, Numbered
  <2> QED
    BY <1>12, <2>1, <2>2, <2>4 DEF ClientOK
<1>14. c.sequence_number <= e.client.sequence_number
  BY <1>9, <1>11 DEF RollsOn
<1>15. \A u \in ToSet(e.client.out) :
         \/ u \in ToSet(c.out)
         \/ u.number >= c.sequence_number /\ \E t \in ToSet(c.wait) : u.data = t.data
  <2>1. \A u \in ToSet(e.client.out) :
          \/ u \in ToSet(c.out)
          \/ u.number >= c.sequence_number /\ \E t \in ToSet(lost) : u.data = t.data
    BY <1>9, <1>11 DEF RollsOn
  <2> QED
    BY <1>5, <2>1
<1>16. \A t \in ToSet(c.out) : t \in ToSet(e.client.out)
  BY <1>9, <1>11 DEF RollsOn
<1>17. \A t \in ToSet(old) : IsDropped(t.data, e.dropped)
  <2>1. \A t \in ToSet(old) : IsDropped(t.data, base.dropped)
    <3>1. "TooManyRetries" \in Reason
      BY DEF Reason
    <3> QED
      BY <1>3, <3>1, DropsOfTickets DEF X
  <2> QED
    BY <1>9, <1>11, <2>1 DEF RollsOn
<1>18. \A t \in ToSet(c.wait) : t.number = number \/ t \in ToSet(old) \/ t \in ToSet(waiting)
  <2> SUFFICES ASSUME NEW t \in ToSet(c.wait), t.number # number
               PROVE  t \in ToSet(old) \/ t \in ToSet(waiting)
    OBVIOUS
  <2>1. t \in ToSet(rest)
    BY <1>2
  <2>2. t.loop > OldLoop \/ t.loop <= OldLoop
    BY <1>4, TicketsAssumption
  <2> QED
    BY <1>3, <2>1, <2>2
<1>19. \A t \in ToSet(waiting) : t.number >= number => t \in ToSet(e.client.wait)
  BY <1>10, <1>11 DEF later
<1>20. \A t \in ToSet(c.wait) :
         t.number > number => t \in ToSet(e.client.wait) \/ IsDropped(t.data, e.dropped)
  <2> SUFFICES ASSUME NEW t \in ToSet(c.wait), t.number > number
               PROVE  t \in ToSet(e.client.wait) \/ IsDropped(t.data, e.dropped)
    OBVIOUS
  <2>1. t.number # number /\ t.number >= number
    BY <1>4
  <2> QED
    BY <1>17, <1>18, <1>19, <2>1
<1>21. \A t \in ToSet(c.wait) : t.number < number => IsRolled(t, e, c.sequence_number)
  <2> SUFFICES ASSUME NEW t \in ToSet(c.wait), t.number < number
               PROVE  IsRolled(t, e, c.sequence_number)
    OBVIOUS
  <2>1. CASE t \in ToSet(old)
    BY <1>17, <2>1 DEF IsRolled
  <2>2. CASE t \in ToSet(waiting)
    <3>1. t \in ToSet(lost)
      BY <1>3, <2>2
    <3> QED
      BY <1>9, <1>11, <3>1 DEF IsRolled
  <2>3. t.number # number
    BY <1>4
  <2> QED
    BY <1>18, <2>1, <2>2, <2>3
<1>22. ToSet(e.client.wait) \subseteq ToSet(c.wait)
  BY <1>5, <1>8, <1>10, <1>11
<1> QED
  BY <1>12, <1>13, <1>14, <1>15, <1>16, <1>20, <1>21, <1>22 DEF Acknowledges

\* The acknowledgement of a number: whatever is dropped, the tickets keep
\* their order, and only those with that number go without a word.
LEMMA PreProcessMessageOK ==
  ASSUME NEW D, NEW Q, NEW c, ClientOK(c, D, Q), NEW number \in Nat, NEW due
  PROVE  Acknowledges(c, number, PreProcessMessage(c, number, due), D, Q)
<1> DEFINE k == Numbers(c.wait, number)
           rest == RemoveAt(c.wait, k)
           old == Only(rest, {t \in ToSet(rest) : t.loop > OldLoop})
           waiting == Only(rest, {t \in ToSet(rest) : t.loop <= OldLoop})
           lost == Only(waiting, {t \in ToSet(waiting) : t.number < number})
           base == [client |-> [c EXCEPT !.wait = waiting],
                    dropped |-> Drops(old, "TooManyRetries")]
           rolled == RollbackTickets(lost, c.wait[k], due, base)
           e == PreProcessMessage(c, number, due)
<1>1. e = CASE k = 0 ->
                 [client  |-> [c EXCEPT !.out = Only(@, {t \in ToSet(@) : t.number # number})],
                  dropped |-> <<>>]
            [] k = 1 -> [client |-> [c EXCEPT !.wait = Tail(@)], dropped |-> <<>>]
            [] OTHER ->
                 [rolled EXCEPT !.client.wait = Only(@, {t \in ToSet(@) : t.number >= number})]
  BY DEF PreProcessMessage, Numbers, Drops
<1>2. c \in ClientOf(D, Q) /\ c.wait \in Seq(TicketOf(D, Q)) /\ c.out \in Seq(TicketOf(D, Q))
  BY DEF ClientOK, ClientOf
<1>3. k = 0 \/ (k \in 1..Len(c.wait) /\ c.wait[k].number = number)
  <2> DEFINE X == TicketOf(D, Q)
             s == c.wait
  <2>1. s \in Seq(X) /\ k = Numbers(s, number)
    BY <1>2
  <2> HIDE DEF X, k, s
  <2>2. k = 0 \/ (k \in 1..Len(s) /\ s[k].number = number)
    BY <2>1, FirstWithNumber
  <2> QED
    BY <2>2 DEF s
<1>4. CASE k = 0
  <2> DEFINE K == {t \in ToSet(c.out) : t.number # number}
  <2> HIDE DEF k
  <2>1. /\ e.client = [c EXCEPT !.out = Only(c.out, K)]
        /\ e.dropped = <<>>
    BY <1>1, <1>4
  <2>2. \A t \in ToSet(c.out) : t \in K <=> t.number # number
    OBVIOUS
  <2> HIDE DEF K, e
  <2>3. /\ Only(c.out, K) \in Seq(TicketOf(D, Q)) => e.client \in ClientOf(D, Q)
        /\ e.client.out = Only(c.out, K) /\ e.client.wait = c.wait
        /\ e.client.sequence_number = c.sequence_number
    BY <1>2, <2>1 DEF ClientOf
  <2>4. Acknowledges(c, number, e, D, Q)
    BY <2>1, <2>2, <2>3, AcknowledgeSkipped
  <2> QED
    BY <2>4 DEF e
<1>5. CASE k = 1
  <2>1. e.client = [c EXCEPT !.wait = Tail(@)] /\ e.dropped = <<>>
    <3> HIDE DEF k, rolled, e
    <3>1. e = [client |-> [c EXCEPT !.wait = Tail(@)], dropped |-> <<>>]
      BY <1>1, <1>5
    <3> QED
      BY <3>1
  <2> HIDE DEF k
  <2> HIDE DEF e
  <2>2. c.wait # <<>> /\ c.wait[1].number = number
    BY <1>2, <1>3, <1>5
  <2>3. Tail(c.wait) \in Seq(TicketOf(D, Q))
    BY <1>2, <2>2
  <2>4. /\ e.client \in ClientOf(D, Q) /\ e.client.wait = Tail(c.wait)
        /\ e.client.out = c.out /\ e.client.sequence_number = c.sequence_number
    BY <1>2, <2>1, <2>3 DEF ClientOf
  <2> QED
    BY <2>1, <2>2, <2>4, AcknowledgeFirst DEF e
<1>6. CASE k # 0 /\ k # 1
  <2> DEFINE O == {t \in ToSet(rest) : t.loop > OldLoop}
             W == {t \in ToSet(rest) : t.loop <= OldLoop}
             L == {t \in ToSet(waiting) : t.number < number}
             M == {t \in ToSet(waiting) : t.number >= number}
  <2>1. e = [rolled EXCEPT !.client.wait =
               Only(rolled.client.wait, {t \in ToSet(rolled.client.wait) : t.number >= number})]
    <3> HIDE DEF k, rolled, e
    <3> QED
      BY <1>1, <1>6
  <2>2. k \in 1..Len(c.wait) /\ c.wait[k].number = number
    BY <1>3, <1>6
  <2> HIDE DEF k
  <2>3. /\ \A t \in ToSet(rest) : t \in O <=> t.loop > OldLoop
        /\ \A t \in ToSet(rest) : t \in W <=> t.loop <= OldLoop
        /\ \A t \in ToSet(waiting) : t \in L <=> t.number < number
        /\ \A t \in ToSet(waiting) : t \in M <=> t.number >= number
        /\ old = Only(rest, O) /\ waiting = Only(rest, W) /\ lost = Only(waiting, L)
    OBVIOUS
  <2>4. base.client = [c EXCEPT !.wait = waiting] /\ base.dropped = Drops(old, "TooManyRetries")
    OBVIOUS
  <2>5. rolled = RollbackTickets(lost, c.wait[k], due, base)
    OBVIOUS
  <2>6. rest = RemoveAt(c.wait, k)
    OBVIOUS
  <2>7. base = [client |-> base.client, dropped |-> base.dropped]
    OBVIOUS
  <2> HIDE DEF rest, old, waiting, lost, base, rolled, e, O, W, L
  <2>8. /\ rest \in Seq(TicketOf(D, Q)) /\ old \in Seq(TicketOf(D, Q))
        /\ waiting \in Seq(TicketOf(D, Q)) /\ lost \in Seq(TicketOf(D, Q))
        /\ ToSet(lost) \subseteq ToSet(waiting)
    <3> DEFINE X == TicketOf(D, Q)
    <3> HIDE DEF X
    <3>1. c.wait \in Seq(X)
      BY <1>2 DEF X
    <3>2. rest \in Seq(X)
      BY <2>2, <2>6, <3>1, OfRemoveAt
    <3>3. old \in Seq(X) /\ waiting \in Seq(X)
      BY <2>3, <3>2, OnlyElements
    <3>4. lost \in Seq(X) /\ ToSet(lost) = ToSet(waiting) \cap L
      BY <2>3, <3>3, OnlyElements
    <3> QED
      BY <3>2, <3>3, <3>4 DEF X
  <2>9. /\ base.client \in ClientOf(D, Q) /\ base.client.wait = waiting
        /\ base.client.out = c.out /\ base.client.sequence_number = c.sequence_number
    BY <1>2, <2>4, <2>8 DEF ClientOf
  <2>10. base \in ResultOf(D, Q)
    <3>1. "TooManyRetries" \in Reason
      BY DEF Reason
    <3>2. Drops(old, "TooManyRetries") \in Seq(DropOf(D, Q))
      BY <2>8, <3>1, DropsOfTickets
    <3> QED
      BY <2>4, <2>7, <2>9, <3>2 DEF ResultOf
  <2>11. ASSUME rolled \in ResultOf(D, Q), rolled.client.wait = waiting
         PROVE  /\ e.dropped = rolled.dropped /\ e.client.out = rolled.client.out
                /\ e.client.sequence_number = rolled.client.sequence_number
                /\ e.client.wait = Only(waiting, M)
                /\ Only(waiting, M) \in Seq(TicketOf(D, Q)) => e.client \in ClientOf(D, Q)
    <3>1. /\ e = [rolled EXCEPT !.client.wait = Only(waiting, M)]
          /\ rolled.client \in ClientOf(D, Q)
      BY <2>1, <2>11 DEF ResultOf
    <3> DEFINE final == Only(waiting, M)
    <3> HIDE DEF final, M
    <3>2. /\ e.dropped = rolled.dropped /\ e.client.out = rolled.client.out
          /\ e.client.sequence_number = rolled.client.sequence_number
          /\ e.client.wait = final
          /\ final \in Seq(TicketOf(D, Q)) => e.client \in ClientOf(D, Q)
      BY <2>11, <3>1 DEF ResultOf, ClientOf, final
    <3> QED
      BY <3>2 DEF final
  <2>12. \A t \in ToSet(waiting) : t \in M <=> t.number >= number
    BY <2>3
  <2> HIDE DEF M
  <2>13. AcknowledgesLater(c, number, due, k, rest, O, W, L, M, old, waiting, lost, base,
                           rolled, e, D, Q)
    BY <2>2, <2>3, <2>5, <2>6, <2>4, <2>9, <2>10, <2>11, <2>12 DEF AcknowledgesLater
  <2>14. Acknowledges(c, number, e, D, Q)
    BY <2>13, AcknowledgeLater
  <2> QED
    BY <2>14 DEF e
<1> QED
  BY <1>3, <1>4, <1>5, <1>6

\* The number is used up, and no ticket to send has it.
Past(n, c) == n < c.sequence_number /\ \A t \in ToSet(c.out) : n < t.number

\* d comes after c: its tickets to send were there, or have new numbers.
Grows(c, d) ==
  /\ c.sequence_number <= d.sequence_number
  /\ \A t \in ToSet(d.out) : t \in ToSet(c.out) \/ t.number >= c.sequence_number

LEMMA TicketsAreTyped ==
  ASSUME NEW D, NEW Q, NEW c, ClientOK(c, D, Q)
  PROVE  /\ c.sequence_number \in Nat \ {0}
         /\ c.out \in Seq(TicketOf(D, Q)) /\ c.wait \in Seq(TicketOf(D, Q))
         /\ \A t \in ToSet(c.out) \cup ToSet(c.wait) :
              /\ t \in TicketOf(D, Q) /\ t.number \in Nat /\ t.data \in D
              /\ t.number < c.sequence_number
<1> DEFINE X == TicketOf(D, Q)
<1>1. c.out \in Seq(X) /\ c.wait \in Seq(X) /\ c.sequence_number \in Nat \ {0}
  BY DEF ClientOK, ClientOf
<1>2. \A t \in X : t.number \in Nat /\ t.data \in D
  BY DEF TicketOf
<1> HIDE DEF X
<1>3. ToSet(c.out) \subseteq X /\ ToSet(c.wait) \subseteq X
  BY <1>1, ElementsAreTyped
<1>4. \A t \in ToSet(c.out) \cup ToSet(c.wait) : t.number \in 1..(c.sequence_number - 1)
  BY DEF ClientOK, Numbered
<1> QED
  BY <1>1, <1>2, <1>3, <1>4 DEF X
=============================================================================
