-------------------------- MODULE OrderedMapProofs --------------------------
(***************************************************************************)
(* Proofs about the components whose state is a JavaScript Map that is     *)
(* deleted from while it is walked (Kept of OrderedMaps), each for any     *)
(* values of its constants:                                                *)
(*   - McpTasks: a task ends once and its result agrees, a waiter's result *)
(*     is on its way, and paging skips only what was removed;              *)
(*   - StdioSubscriptions: every sink in the registry is its closer's, and *)
(*     a subscription is acknowledged once before it is completed once;    *)
(*   - ClientCache: nothing stale stays in the cache or comes from it, and *)
(*     the pages of a traversal agree, but for the races each names.       *)
(***************************************************************************)
EXTENDS McpTasks, StdioSubscriptions, ClientCache, FiniteSetTheorems,
        WellFoundedInduction, TLAPS

\* A task's entry, its start call and its fiber agree: a fiber reports the outcome it
\* gave the task, and nobody has changed that since.
StatusInv ==
  \A t \in Tasks :
    /\ starter[t] = "idle" <=> status[t] = "none"
    /\ starter[t] = "started" <=> worker[t] # "none"
    /\ worker[t] \in {"completed", "failed"} => status[t] = worker[t]

\* A cancel past its transition has cancelled its task.
CancelInv ==
  \A c \in Cancels :
    cancel[c].at \in {"notifying", "joining", "done"} => status[cancel[c].task] = "cancelled"

\* The entries a client has seen are in front of its cursor; those it found with its
\* first page are in front of all others, and as long as none of them is removed the
\* ones in front of the cursor have been seen.
InOrder(map, l) ==
  /\ \A i \in DOMAIN map : map[i] \in ToSet(l.seen) => i <= l.cursor
  /\ \A i, j \in DOMAIN map : i < j /\ map[j] \in l.first => map[i] \in l.first
  /\ l.first \subseteq ToSet(map) =>
       \A i \in DOMAIN map : map[i] \in l.first /\ i <= l.cursor => map[i] \in ToSet(l.seen)

PagingInv ==
  /\ listing.first \subseteq Known /\ ToSet(listing.seen) \subseteq Known
  /\ listing.at = "idle" =>
       listing.cursor = 0 /\ listing.first = {} /\ listing.seen = <<>>
  /\ InOrder(tasks, listing)

Inv ==
  /\ TypeOK
  /\ StatusInv /\ ResultMatchesStatus
  /\ CancelInv /\ CancelIsFinal
  /\ PagingInv /\ PagingSkipsOnlyRemoved

-----------------------------------------------------------------------------
(* The map that cleanupExpired leaves.                                     *)

\* Induction over the natural numbers, as a least counterexample.
LEMMA LeastNat ==
  ASSUME NEW T, T \subseteq Nat, T # {}
  PROVE  \E n \in T : \A m \in T : n <= m
<1> DEFINE R == OpToRel(<, Nat)
<1>1. IsWellFoundedOn(R, Nat)
  BY NatLessThanWellFounded
<1>2. \A x, y \in Nat : <<y, x>> \in R <=> y < x
  BY DEF OpToRel
<1> HIDE DEF R
<1>3. \E x \in T : \A y \in T : <<y, x>> \notin R
  BY <1>1, WFMin
<1>4. \E x \in T : \A y \in T : ~(y < x)
  BY Zenon, <1>2, <1>3
<1> QED
  BY <1>4

\* What the walk has kept of s after n entries, given what it had kept before.
Walk(s, gone, f, n) ==
  IF n = 0 THEN <<>> ELSE IF s[n] \in gone THEN f[n - 1] ELSE Append(f[n - 1], s[n])

Walks(s, gone, f, m) == f = [n \in 0..m |-> Walk(s, gone, f, n)]

LEMMA WalkExists ==
  ASSUME NEW s, NEW gone, NEW N \in Nat
  PROVE  \E f : Walks(s, gone, f, N)
<1> DEFINE Bad == {m \in 0..N : ~\E f : Walks(s, gone, f, m)}
<1>0. N \in 0..N /\ Bad \subseteq Nat
  OBVIOUS
<1> SUFFICES ASSUME Bad # {} PROVE FALSE
  BY <1>0
<1>1. PICK m \in Bad : \A k \in Bad : m <= k
  <2> HIDE DEF Bad
  <2> QED
    BY <1>0, LeastNat
<1>2. CASE m = 0
  <2>1. Walks(s, gone, [n \in 0..0 |-> <<>>], 0)
    BY DEF Walks, Walk
  <2> QED
    BY <1>2, <2>1
<1>3. CASE m # 0
  <2>1. m - 1 \in 0..N /\ m - 1 \notin Bad /\ m \in Nat
    BY <1>1, <1>3
  <2>2. PICK f : Walks(s, gone, f, m - 1)
    BY <2>1
  <2> DEFINE g == [n \in 0..m |-> IF n = m THEN Walk(s, gone, f, m) ELSE f[n]]
  <2>3. \A n \in 0..m : g[n] = Walk(s, gone, g, n)
    <3> TAKE n \in 0..m
    <3>1. CASE n = m
      BY <1>3, <2>1, <3>1 DEF Walk
    <3>2. CASE n # m
      <4>1. n \in 0..(m - 1) /\ g[n] = f[n]
        BY <2>1, <3>2
      <4>2. f[n] = Walk(s, gone, f, n)
        BY <2>2, <4>1 DEF Walks
      <4>3. n # 0 => g[n - 1] = f[n - 1]
        BY <2>1, <4>1
      <4> QED
        BY <4>1, <4>2, <4>3 DEF Walk
    <3> QED
      BY <3>1, <3>2
  <2>4. Walks(s, gone, g, m)
    BY <2>3 DEF Walks
  <2> QED
    BY <2>4
<1> QED
  BY <1>2, <1>3

\* Each entry kept comes from one of the map, in the same order, and no entry that
\* is not gone is missed.
Embeds(h, q, s, gone, n) ==
  /\ h \in [1..Len(q) -> 1..n]
  /\ \A i \in 1..Len(q) : i <= h[i] /\ q[i] = s[h[i]] /\ s[h[i]] \notin gone
  /\ \A i \in 1..Len(q) : Len(q) + h[i] <= n + i
  /\ \A i, j \in 1..Len(q) : i < j => h[i] < h[j]
  /\ \A k \in 1..n : s[k] \notin gone => \E i \in 1..Len(q) : h[i] = k

LEMMA WalkKeeps ==
  ASSUME NEW S, NEW s \in Seq(S), NEW gone, NEW f, Walks(s, gone, f, Len(s))
  PROVE  /\ f[Len(s)] \in Seq(S)
         /\ \E h : Embeds(h, f[Len(s)], s, gone, Len(s))
<1> DEFINE Good(n) == f[n] \in Seq(S) /\ \E h : Embeds(h, f[n], s, gone, n)
           Bad == {n \in 0..Len(s) : ~Good(n)}
<1>0. Len(s) \in Nat /\ \A n \in 0..Len(s) : f[n] = Walk(s, gone, f, n)
  BY DEF Walks
<1>a. Len(s) \in 0..Len(s) /\ Bad \subseteq Nat
  BY <1>0
<1> SUFFICES ASSUME Bad # {} PROVE FALSE
  BY <1>a
<1>1. PICK n \in Bad : \A k \in Bad : n <= k
  <2> HIDE DEF Bad
  <2> QED
    BY <1>a, LeastNat
<1>2. CASE n = 0
  <2>1. f[n] = <<>>
    BY <1>0, <1>1, <1>2 DEF Walk
  <2> DEFINE e == [i \in 1..0 |-> i]
  <2>2. Len(<<>>) = 0 /\ 1..0 = {} /\ <<>> \in Seq(S)
    OBVIOUS
  <2>3. Embeds(e, <<>>, s, gone, 0)
    BY <2>2 DEF Embeds
  <2> QED
    BY <1>1, <1>2, <2>1, <2>2, <2>3
<1>3. CASE n # 0
  <2>1. n - 1 \in 0..Len(s) /\ n - 1 \notin Bad /\ n \in 1..Len(s) /\ n \in Nat
    BY <1>0, <1>1, <1>3
  <2>2. f[n - 1] \in Seq(S)
    BY <2>1
  <2>3. PICK h : Embeds(h, f[n - 1], s, gone, n - 1)
    BY <2>1
  <2> DEFINE q == f[n - 1]
             L == Len(q)
  <2>4. L \in Nat /\ h \in [1..L -> 1..(n - 1)]
    BY <2>2, <2>3 DEF Embeds
  <2>5. CASE s[n] \in gone
    <3>1. f[n] = q
      BY <1>0, <2>1, <1>3, <2>5 DEF Walk
    <3>2. Embeds(h, q, s, gone, n)
      <4>1. h \in [1..L -> 1..n]
        BY <2>1, <2>4
      <4>2. \A k \in 1..n : s[k] \notin gone => \E i \in 1..L : h[i] = k
        <5>1. \A k \in 1..n : s[k] \notin gone => k \in 1..(n - 1)
          BY <2>1, <2>5
        <5> QED
          BY <2>3, <5>1 DEF Embeds
      <4>3. \A i \in 1..L : L + h[i] <= n + i
        <5>1. \A i \in 1..L : h[i] \in Nat /\ i \in Nat /\ L + h[i] <= (n - 1) + i
          <6>1. \A i \in 1..L : L + h[i] <= (n - 1) + i
            BY <2>3, Zenon DEF Embeds
          <6> HIDE DEF L
          <6>2. \A i \in 1..L : h[i] \in Nat /\ i \in Nat
            BY <2>1, <2>4
          <6> QED
            BY <6>1, <6>2
        <5> HIDE DEF L
        <5> QED
          BY <2>1, <2>4, <5>1
      <4> QED
        BY <2>3, <4>1, <4>2, <4>3 DEF Embeds
    <3> QED
      BY <1>1, <2>2, <3>1, <3>2
  <2>6. CASE s[n] \notin gone
    <3> DEFINE r == Append(q, s[n])
               g == [i \in 1..(L + 1) |-> IF i = L + 1 THEN n ELSE h[i]]
    <3>0. s[n] \in S
      BY <2>1
    <3>1. f[n] = r
      BY <1>0, <2>1, <1>3, <2>6 DEF Walk
    <3>2. r \in Seq(S) /\ Len(r) = L + 1 /\ r[L + 1] = s[n] /\ \A i \in 1..L : r[i] = q[i]
      BY <2>2, <3>0
    <3>3. g \in [1..Len(r) -> 1..n]
      BY <2>1, <2>4, <3>2
    <3>4. L + 1 <= n
      <4>1. CASE L = 0
        BY <2>1, <4>1
      <4>2. CASE L # 0
        <5>1. L <= h[L] /\ h[L] \in 1..(n - 1)
          BY <2>3, <2>4, <4>2, SMTT(60) DEF Embeds
        <5> QED
          BY <2>1, <2>4, <5>1
      <4> QED
        BY <4>1, <4>2
    <3>5. ASSUME NEW i \in 1..Len(r)
          PROVE  i <= g[i] /\ r[i] = s[g[i]] /\ s[g[i]] \notin gone
      <4>1. CASE i = L + 1
        BY <2>6, <3>2, <3>4, <4>1
      <4>2. CASE i \in 1..L
        <5>1. g[i] = h[i] /\ r[i] = q[i]
          BY <2>4, <3>2, <4>2
        <5>2. i <= h[i] /\ q[i] = s[h[i]] /\ s[h[i]] \notin gone
          BY <2>3, <2>4, <4>2 DEF Embeds
        <5> QED
          BY <5>1, <5>2
      <4> QED
        BY <2>4, <3>2, <4>1, <4>2
    <3>6. ASSUME NEW i \in 1..Len(r), NEW j \in 1..Len(r), i < j PROVE g[i] < g[j]
      <4>0. L \in Nat /\ i \in 1..L /\ i \in 1..(L + 1) /\ i # L + 1
        BY <2>4, <3>2, <3>6
      <4>1. i \in 1..L /\ g[i] = h[i] /\ h[i] \in 1..(n - 1)
        BY <2>4, <4>0
      <4>2. CASE j = L + 1
        BY <2>1, <4>1, <4>2, <3>2
      <4>3. CASE j \in 1..L
        BY <2>3, <2>4, <3>6, <4>1, <4>3 DEF Embeds
      <4> QED
        BY <2>4, <3>2, <4>2, <4>3
    <3>7. ASSUME NEW k \in 1..n, s[k] \notin gone PROVE \E i \in 1..Len(r) : g[i] = k
      <4>1. CASE k = n
        <5>1. L + 1 \in 1..Len(r) /\ g[L + 1] = n
          BY <2>4, <3>2
        <5> QED
          BY <4>1, <5>1
      <4>2. CASE k \in 1..(n - 1)
        <5>1. PICK i \in 1..L : h[i] = k
          BY <2>3, <3>7, <4>2 DEF Embeds
        <5>2. i \in 1..Len(r) /\ g[i] = k
          BY <2>4, <3>2, <5>1
        <5> QED
          BY <5>2
      <4>3. k = n \/ k \in 1..(n - 1)
        BY <2>1
      <4> QED
        BY <4>1, <4>2, <4>3
    <3>7a. ASSUME NEW i \in 1..Len(r) PROVE Len(r) + g[i] <= n + i
      <4>1. CASE i = L + 1
        BY <2>1, <2>4, <3>2, <4>1
      <4>2. CASE i \in 1..L
        <5>1. L + h[i] <= (n - 1) + i /\ g[i] = h[i] /\ h[i] \in Nat
          BY <2>3, <2>4, <3>2, <4>2 DEF Embeds
        <5> QED
          BY <2>1, <2>4, <3>2, <4>2, <5>1
      <4> QED
        BY <2>4, <3>2, <4>1, <4>2
    <3>8. Embeds(g, r, s, gone, n)
      BY <3>3, <3>5, <3>6, <3>7, <3>7a DEF Embeds
    <3> QED
      BY <1>1, <3>1, <3>2, <3>8
  <2> QED
    BY <2>5, <2>6
<1> QED
  BY <1>2, <1>3

LEMMA KeptEmbeds ==
  ASSUME NEW S, NEW s \in Seq(S), NEW gone
  PROVE  /\ Kept(s, gone) \in Seq(S)
         /\ \E h : Embeds(h, Kept(s, gone), s, gone, Len(s))
<1> DEFINE f == CHOOSE g : Walks(s, gone, g, Len(s))
<1>1. Walks(s, gone, f, Len(s))
  BY WalkExists
<1>2. Kept(s, gone) = f[Len(s)]
  BY DEF Kept, Walks, Walk
<1> HIDE DEF f
<1> QED
  BY <1>1, <1>2, WalkKeeps

\* What is in front of everything gone keeps its place.
LEMMA EmbedsPrefix ==
  ASSUME NEW S, NEW s \in Seq(S), NEW q \in Seq(S), NEW gone, NEW h,
         Embeds(h, q, s, gone, Len(s)), NEW n \in 0..Len(s), \A k \in 1..n : s[k] \notin gone
  PROVE  \A k \in 1..n : k \in 1..Len(q) /\ h[k] = k
<1> DEFINE Bad == {k \in 1..n : ~(k \in 1..Len(q) /\ h[k] = k)}
<1>0. Bad \subseteq Nat /\ Len(s) \in Nat /\ Len(q) \in Nat
  OBVIOUS
<1> SUFFICES ASSUME Bad # {} PROVE FALSE
  OBVIOUS
<1>1. PICK k \in Bad : \A j \in Bad : k <= j
  <2> HIDE DEF Bad
  <2> QED
    BY <1>0, LeastNat
<1>2. PICK i \in 1..Len(q) : h[i] = k
  <2>1. k \in 1..n /\ k \in 1..Len(s)
    BY <1>0, <1>1
  <2>2. s[k] \notin gone
    BY <2>1
  <2> QED
    BY <2>1, <2>2, Zenon DEF Embeds
<1>3. i <= k
  BY <1>2, Zenon DEF Embeds
<1>4. i # k => i \in 1..n /\ i \notin Bad
  BY <1>0, <1>1, <1>2, <1>3
<1> QED
  BY <1>1, <1>2, <1>4

\* A walk that deletes leaves the other entries, each once if they were there once,
\* and a shorter map if it deleted any.
LEMMA KeptMap ==
  ASSUME NEW S, NEW s \in Seq(S), NEW gone
  PROVE  /\ Kept(s, gone) \in Seq(S) /\ Len(Kept(s, gone)) <= Len(s)
         /\ ToSet(Kept(s, gone)) = ToSet(s) \ gone
         /\ IsInjective(s) => IsInjective(Kept(s, gone))
         /\ ToSet(s) \cap gone # {} => Len(Kept(s, gone)) < Len(s)
<1> DEFINE q == Kept(s, gone)
<1>1. q \in Seq(S)
  BY KeptEmbeds
<1>2. PICK h : Embeds(h, q, s, gone, Len(s))
  BY KeptEmbeds
<1> HIDE DEF q
<1>3. /\ DOMAIN q = 1..Len(q) /\ Len(q) \in Nat
      /\ DOMAIN s = 1..Len(s) /\ Len(s) \in Nat
  BY <1>1
<1>4. Len(q) <= Len(s)
  <2>1. CASE Len(q) = 0
    BY <1>3, <2>1
  <2>2. CASE Len(q) # 0
    <3>1. Len(q) <= h[Len(q)] /\ h[Len(q)] \in 1..Len(s)
      BY <1>2, <1>3, <2>2 DEF Embeds
    <3> QED
      BY <1>3, <3>1
  <2> QED
    BY <2>1, <2>2
<1>5. ASSUME IsInjective(s), NEW i \in DOMAIN q, NEW j \in DOMAIN q, q[i] = q[j]
      PROVE  i = j
  <2>1. h[i] \in DOMAIN s /\ h[j] \in DOMAIN s /\ s[h[i]] = s[h[j]]
    BY <1>2, <1>3, <1>5 DEF Embeds
  <2>2. h[i] = h[j]
    BY <1>5, <2>1 DEF IsInjective
  <2> QED
    BY <1>2, <1>3, <2>2 DEF Embeds
<1>6. ToSet(q) \subseteq ToSet(s) \ gone
  BY <1>2, <1>3 DEF ToSet, Embeds
<1>7. ToSet(s) \ gone \subseteq ToSet(q)
  <2> SUFFICES ASSUME NEW k \in DOMAIN s, s[k] \notin gone
               PROVE  \E i \in DOMAIN q : q[i] = s[k]
    BY DEF ToSet
  <2>1. PICK i \in 1..Len(q) : h[i] = k
    BY <1>2, <1>3 DEF Embeds
  <2> QED
    BY <1>2, <1>3, <2>1 DEF Embeds
<1>8. ASSUME NEW k \in DOMAIN s, s[k] \in gone, Len(q) = Len(s) PROVE FALSE
  <2>1. k \in 1..Len(q) /\ k \in Nat
    BY <1>3, <1>8
  <2>2. k <= h[k] /\ Len(q) + h[k] <= Len(s) + k /\ s[h[k]] \notin gone /\ h[k] \in Nat
    BY <1>2, <1>3, <2>1 DEF Embeds
  <2>3. h[k] = k
    BY <1>3, <1>8, <2>1, <2>2
  <2> QED
    BY <1>8, <2>2, <2>3
<1>9. ToSet(s) \cap gone # {} => Len(q) < Len(s)
  <2> SUFFICES ASSUME NEW k \in DOMAIN s, s[k] \in gone PROVE Len(q) < Len(s)
    BY Zenon DEF ToSet
  <2>1. Len(q) # Len(s)
    BY <1>8, Zenon
  <2>2. Len(q) \in Nat /\ Len(s) \in Nat
    BY <1>3, Zenon
  <2> QED
    BY <1>4, <2>1, <2>2
<1>10. IsInjective(s) => IsInjective(q)
  BY <1>5 DEF IsInjective
<1>11. ToSet(q) = ToSet(s) \ gone
  BY <1>6, <1>7
<1> QED
  BY <1>1, <1>4, <1>9, <1>10, <1>11, Zenon DEF q

LEMMA CleanedType ==
  ASSUME TypeOK
  PROVE  /\ Cleaned \in Seq(Known) /\ Len(Cleaned) <= Len(tasks) /\ IsInjective(Cleaned)
         /\ \E h : Embeds(h, Cleaned, tasks, due, Len(tasks))
         /\ ToSet(Cleaned) = ToSet(tasks) \ due
<1>1. tasks \in Seq(Known) /\ IsInjective(tasks)
  BY DEF TypeOK
<1> QED
  BY <1>1, KeptEmbeds, KeptMap DEF Cleaned

LEMMA MinOfTwo ==
  ASSUME NEW a \in Nat, NEW b \in Nat
  PROVE  Min({a, b}) = IF a <= b THEN a ELSE b
<1>1. \E x \in {a, b} : \A y \in {a, b} : x <= y
  OBVIOUS
<1>2. Min({a, b}) \in {a, b} /\ \A y \in {a, b} : Min({a, b}) <= y
  BY <1>1 DEF Min
<1> QED
  BY <1>2

\* A page holds the entries behind the cursor, as many as there are up to its size.
LEMMA PageIs ==
  ASSUME TypeOK, NEW c \in 0..Len(Cleaned)
  PROVE  /\ Page(c) \in Seq(Known)
         /\ Len(Page(c)) <= PageSize /\ c + Len(Page(c)) <= Len(Cleaned)
         /\ c + Len(Page(c)) = c + PageSize \/ c + Len(Page(c)) = Len(Cleaned)
         /\ \A i \in 1..Len(Page(c)) : Page(c)[i] = Cleaned[c + i]
<1> DEFINE m == Min({c + PageSize, Len(Cleaned)})
<1>1. Cleaned \in Seq(Known) /\ PageSize \in Nat \ {0}
  BY CleanedType, TasksAssumption
<1>2. m = IF c + PageSize <= Len(Cleaned) THEN c + PageSize ELSE Len(Cleaned)
  BY <1>1, MinOfTwo
<1>3. Page(c) = SubSeq(Cleaned, c + 1, m)
  BY DEF Page
<1>4. m \in Nat /\ c <= m /\ m <= Len(Cleaned) /\ m - c <= PageSize
  BY <1>1, <1>2
<1> HIDE DEF m
<1>5. /\ Page(c) \in Seq(Known) /\ Len(Page(c)) = m - c
      /\ \A i \in 1..(m - c) : Page(c)[i] = Cleaned[c + i]
  BY <1>1, <1>3, <1>4
<1> QED
  BY <1>1, <1>2, <1>4, <1>5

-----------------------------------------------------------------------------
(* Type correctness.                                                       *)

\* A task that is known stays known, so the map may be kept or cleaned.
LEMMA TasksType ==
  ASSUME TypeOK, \A t \in Tasks : status[t] # "none" => status'[t] # "none",
         tasks' \in {tasks, Cleaned}
  PROVE  tasks' \in Seq(Known') /\ IsInjective(tasks')
<1>1. Known \subseteq Known'
  BY DEF Known
<1>2. tasks' \in Seq(Known) /\ IsInjective(tasks')
  BY CleanedType DEF TypeOK
<1> QED
  BY <1>1, <1>2

LEMMA MoveType ==
  ASSUME TypeOK, NEW t \in Tasks, NEW to \in TaskStatus,
         NEW by \in {"worker", "cancel", "application"}, Move(t, to, by)
  PROVE  /\ status' \in [Tasks -> {"none"} \cup TaskStatus]
         /\ ender' \in [Tasks -> {"nobody", "worker", "cancel", "application"}]
BY DEF TypeOK, Move

LEMMA CancelType ==
  ASSUME TypeOK, NEW c \in Cancels,
         NEW at \in {"notifying", "joining", "done", "refused", "interrupted"},
         cancel' = [cancel EXCEPT ![c].at = at]
  PROVE  /\ cancel' \in [Cancels -> [at : {"idle", "notifying", "joining", "done",
                                           "refused", "interrupted"}, task : Tasks]]
         /\ \A d \in Cancels : cancel'[d] = IF d = c THEN [cancel[c] EXCEPT !.at = at]
                                                     ELSE cancel[d]
<1>1. cancel \in [Cancels -> [at : {"idle", "notifying", "joining", "done", "refused",
                                    "interrupted"}, task : Tasks]]
  BY DEF TypeOK
<1>2. [cancel[c] EXCEPT !.at = at]
        \in [at : {"idle", "notifying", "joining", "done", "refused", "interrupted"},
             task : Tasks]
  BY <1>1
<1> QED
  BY <1>1, <1>2

LEMMA TypeOKInit == Init => TypeOK
<1> SUFFICES ASSUME Init PROVE TypeOK
  OBVIOUS
<1>1. tasks \in Seq(Known) /\ IsInjective(tasks)
  BY DEF Init, IsInjective
<1>2. <<>> \in Seq(Tasks)
  OBVIOUS
<1> QED
  BY <1>1, <1>2 DEF Init, TypeOK

LEMMA TypeOKStep == TypeOK /\ StatusInv /\ [Next]_vars => TypeOK'
<1> SUFFICES ASSUME TypeOK, StatusInv, Next PROVE TypeOK'
  BY DEF TypeOK, Known, vars
<1> USE DEF Terminal, TaskStatus
<1>1. ASSUME NEW t \in Tasks, Start(t) PROVE TypeOK'
  <2>1. t \notin Known /\ Known' = Known \cup {t}
    BY <1>1 DEF TypeOK, StatusInv, Known, Start
  <2>2. tasks \in Seq(Known') /\ tasks' = Append(tasks, t) /\ t \in Known'
    BY <1>1, <2>1 DEF TypeOK, Start
  <2>3. \A i \in DOMAIN tasks : tasks[i] # t
    BY <2>1 DEF TypeOK
  <2>4. tasks' \in Seq(Known') /\ IsInjective(tasks')
    BY <2>2, <2>3 DEF TypeOK, IsInjective
  <2> QED
    BY <1>1, <2>4 DEF TypeOK, Start
<1>2. ASSUME UNCHANGED <<tasks, status>> PROVE tasks' \in Seq(Known') /\ IsInjective(tasks')
  BY <1>2, TasksType
<1>3. ASSUME NEW t \in Tasks, Fork(t) \/ InterruptStart(t) \/ Report(t) \/ Expire(t)
      PROVE  TypeOK'
  <2>1. tasks' \in Seq(Known') /\ IsInjective(tasks')
    BY <1>2, <1>3 DEF Fork, InterruptStart, Report, Expire
  <2>2. CASE Fork(t)
    <3>1. /\ starter' \in [Tasks -> {"idle", "notifying", "started", "interrupted"}]
          /\ worker' \in [Tasks -> {"none", "running", "completed", "failed", "over"}]
      BY <2>2 DEF TypeOK, Fork
    <3> QED
      BY <2>1, <2>2, <3>1, Zenon DEF TypeOK, Fork
  <2>2a. CASE InterruptStart(t)
    <3>1. starter' \in [Tasks -> {"idle", "notifying", "started", "interrupted"}]
      BY <2>2a DEF TypeOK, InterruptStart
    <3> QED
      BY <2>1, <2>2a, <3>1, Zenon DEF TypeOK, InterruptStart
  <2>3. CASE Report(t)
    BY <2>1, <2>3 DEF TypeOK, Report, Settle
  <2>4. CASE Expire(t)
    BY <2>1, <2>4 DEF TypeOK, Expire
  <2> QED
    BY <1>3, <2>2, <2>2a, <2>3, <2>4
<1>4. ASSUME NEW t \in Tasks, NEW outcome \in {"completed", "failed"}, Work(t, outcome)
      PROVE  TypeOK'
  <2>1. tasks' \in Seq(Known') /\ IsInjective(tasks')
    BY <1>4, TasksType DEF TypeOK, Work, Move
  <2>2. /\ status' \in [Tasks -> {"none"} \cup TaskStatus]
        /\ ender' \in [Tasks -> {"nobody", "worker", "cancel", "application"}]
    BY <1>4, MoveType DEF TypeOK, Work
  <2>3. worker' \in [Tasks -> {"none", "running", "completed", "failed", "over"}]
    BY <1>4 DEF TypeOK, Work
  <2> QED
    BY <1>4, <2>1, <2>2, <2>3 DEF TypeOK, Work
<1>5. ASSUME NEW t \in Tasks, NEW to \in TaskStatus, Transition(t, to) PROVE TypeOK'
  <2>1. tasks' \in Seq(Known') /\ IsInjective(tasks')
    BY <1>5, TasksType DEF TypeOK, Transition, Move
  <2>2. /\ status' \in [Tasks -> {"none"} \cup TaskStatus]
        /\ ender' \in [Tasks -> {"nobody", "worker", "cancel", "application"}]
    BY <1>5, MoveType DEF Transition
  <2> QED
    BY <1>5, <2>1, <2>2 DEF TypeOK, Transition
<1>6. ASSUME NEW c \in Cancels, Cancel(c) PROVE TypeOK'
  <2>1. cancel[c].task \in Tasks
    BY DEF TypeOK
  <2>2. tasks' \in Seq(Known') /\ IsInjective(tasks')
    BY <1>6, <2>1, TasksType DEF TypeOK, Cancel, Move
  <2>3. /\ status' \in [Tasks -> {"none"} \cup TaskStatus]
        /\ ender' \in [Tasks -> {"nobody", "worker", "cancel", "application"}]
    BY <1>6, <2>1, MoveType DEF TypeOK, Cancel
  <2>4. PICK at \in {"notifying", "refused"} : cancel' = [cancel EXCEPT ![c].at = at]
    BY <1>6 DEF Cancel
  <2> QED
    BY <1>6, <2>2, <2>3, <2>4, CancelType DEF TypeOK, Cancel
<1>7. ASSUME NEW c \in Cancels, Notified(c) \/ Joined(c) \/ InterruptCancel(c)
      PROVE  TypeOK'
  <2>1. cancel[c].task \in Tasks
    BY DEF TypeOK
  <2>2. PICK at \in {"done", "joining", "interrupted"} :
          cancel' = [cancel EXCEPT ![c].at = at]
    BY <1>7 DEF Notified, Joined, InterruptCancel
  <2>3. result' \in [Tasks -> {"pending"} \cup Terminal]
    BY <1>7, <2>1 DEF TypeOK, Notified, Joined, InterruptCancel, Settle
  <2>4. UNCHANGED <<tasks, status, starter, worker, due, ender, wait, listing>>
    BY <1>7 DEF Notified, Joined, InterruptCancel
  <2>5. tasks' \in Seq(Known') /\ IsInjective(tasks')
    BY <1>2, <2>4
  <2> QED
    BY <2>2, <2>3, <2>4, <2>5, CancelType DEF TypeOK
<1>8. ASSUME NEW w \in Waits, Await(w) \/ Answer(w) PROVE TypeOK'
  <2>1. tasks' \in Seq(Known') /\ IsInjective(tasks')
    BY <1>8, TasksType DEF Await, Answer
  <2>2. PICK at \in {"waiting", "refused", "answered"} : wait' = [wait EXCEPT ![w].at = at]
    BY <1>8 DEF Await, Answer
  <2> QED
    BY <1>8, <2>1, <2>2 DEF TypeOK, Await, Answer
<1>9. CASE Get
  <2>1. tasks' \in Seq(Known') /\ IsInjective(tasks')
    BY <1>9, TasksType DEF Get
  <2> QED
    BY <1>9, <2>1 DEF TypeOK, Get
<1>10. CASE ListPage
  <2>1. tasks' \in Seq(Known') /\ IsInjective(tasks')
    BY <1>10, TasksType DEF ListPage
  <2>2. listing' \in [at : {"idle", "paging", "finished", "refused"}, cursor : Nat,
                      first : SUBSET Tasks, seen : Seq(Tasks)]
    <3> DEFINE c == listing.cursor
    <3>1. CASE c > Len(Cleaned)
      BY <1>10, <3>1 DEF TypeOK, ListPage
    <3>2. CASE ~(c > Len(Cleaned))
      <4>1. c \in 0..Len(Cleaned) /\ Cleaned \in Seq(Known)
        BY <3>2, CleanedType DEF TypeOK
      <4>2. listing.seen \o Page(c) \in Seq(Tasks)
        <5>1. Known \subseteq Tasks /\ Page(c) \in Seq(Known)
          BY <4>1, PageIs DEF Known
        <5> QED
          BY <5>1 DEF TypeOK
      <4>3. NextCursor(c) \in Nat /\ ToSet(Cleaned) \in SUBSET Tasks
        BY <4>1, TasksAssumption DEF NextCursor, ToSet, Known
      <4> QED
        BY <1>10, <3>2, <4>2, <4>3 DEF TypeOK, ListPage
    <3> QED
      BY <3>1, <3>2
  <2> QED
    BY <1>10, <2>1, <2>2 DEF TypeOK, ListPage
<1> QED
  BY <1>1, <1>3, <1>4, <1>5, <1>6, <1>7, <1>8, <1>9, <1>10 DEF Next

-----------------------------------------------------------------------------
(* A task ends once, and its result agrees.                                *)

\* What any step may do to one task: start it, move it on while it is not over,
\* work on it or settle its result.
LEMMA TaskSteps ==
  ASSUME TypeOK, StatusInv, CancelInv, Next, NEW t \in Tasks
  PROVE  /\ \/ status'[t] = status[t]
            \/ status[t] = "none" /\ status'[t] = "working" /\ starter[t] = "idle"
               /\ starter'[t] = "notifying" /\ worker'[t] = worker[t]
            \/ status[t] \in {"working", "input_required"} /\ status'[t] \in TaskStatus
               /\ starter'[t] = starter[t] /\ result'[t] = result[t]
               /\ worker'[t] \in {worker[t], status'[t]}
         /\ \/ starter'[t] = starter[t]
            \/ starter[t] = "idle" /\ status'[t] = "working" /\ starter'[t] = "notifying"
            \/ starter[t] = "notifying" /\ starter'[t] \in {"started", "interrupted"}
         /\ \/ worker'[t] = worker[t] /\ (starter'[t] = "started" <=> starter[t] = "started")
            \/ worker[t] = "none" /\ worker'[t] = "running" /\ starter'[t] = "started"
            \/ worker[t] # "none" /\ starter'[t] = starter[t]
               /\ (worker'[t] = "over" \/ (worker[t] = "running" /\ worker'[t] = status'[t]))
         /\ \/ result'[t] = result[t]
            \/ status'[t] = status[t] /\ result[t] = "pending"
               /\ result'[t] = status[t]
<1> USE DEF Terminal, TaskStatus
<1>a. /\ starter[t] = "idle" <=> status[t] = "none"
      /\ starter[t] = "started" <=> worker[t] # "none"
      /\ worker[t] \in {"completed", "failed"} => status[t] = worker[t]
  BY DEF StatusInv
<1>1. ASSUME NEW u \in Tasks, Start(u) \/ Fork(u) \/ InterruptStart(u) \/ Expire(u)
      PROVE  /\ UNCHANGED result
             /\ \/ status'[t] = status[t] /\ starter'[t] = starter[t] /\ worker'[t] = worker[t]
                \/ /\ status'[t] = "working" /\ starter[t] = "idle"
                   /\ starter'[t] = "notifying" /\ worker'[t] = worker[t]
                \/ /\ status'[t] = status[t] /\ starter[t] = "notifying"
                   /\ starter'[t] = "started" /\ worker'[t] = "running"
                \/ /\ status'[t] = status[t] /\ starter[t] = "notifying"
                   /\ starter'[t] = "interrupted" /\ worker'[t] = worker[t]
  <2>1. CASE Start(u)
    BY <2>1 DEF TypeOK, Start
  <2>2. CASE Fork(u)
    BY <2>2 DEF TypeOK, Fork
  <2>3. CASE InterruptStart(u)
    BY <2>3 DEF TypeOK, InterruptStart
  <2>4. CASE Expire(u)
    BY <2>4 DEF Expire
  <2> QED
    BY <1>1, <2>1, <2>2, <2>3, <2>4
<1>2. ASSUME NEW u \in Tasks, NEW outcome \in {"completed", "failed"}, Work(u, outcome)
      PROVE  /\ UNCHANGED <<result, starter>>
             /\ \/ t # u /\ status'[t] = status[t] /\ worker'[t] = worker[t]
                \/ t = u /\ worker[t] = "running" /\ worker'[t] = "over" /\ status'[t] = status[t]
                \/ t = u /\ worker[t] = "running" /\ worker'[t] = outcome /\ status'[t] = outcome
                   /\ status[t] \notin Terminal
  <2>1. CASE Reports(u) /\ Present(u)
    <3>1. /\ status' = [status EXCEPT ![u] = outcome]
          /\ worker' = [worker EXCEPT ![u] = outcome]
          /\ worker[u] = "running" /\ status[u] \notin Terminal
          /\ UNCHANGED <<result, starter>>
      BY <1>2, <2>1 DEF Work, Move, Reports
    <3> QED
      BY <3>1 DEF TypeOK
  <2>2. CASE ~(Reports(u) /\ Present(u))
    <3>1. worker' = [worker EXCEPT ![u] = "over"] /\ worker[u] = "running"
          /\ UNCHANGED <<result, starter, status>>
      BY <1>2, <2>2 DEF Work
    <3> QED
      BY <3>1 DEF TypeOK
  <2> QED
    BY <2>1, <2>2
<1>3. ASSUME NEW u \in Tasks, Report(u)
      PROVE  /\ UNCHANGED <<status, starter>>
             /\ \/ t # u /\ result'[t] = result[t] /\ worker'[t] = worker[t]
                \/ t = u /\ worker[t] \in {"completed", "failed"} /\ worker'[t] = "over"
                   /\ (result'[t] = result[t] \/ (result[t] = "pending" /\ result'[t] = worker[t]))
  BY <1>3 DEF TypeOK, Report, Settle
<1>4. ASSUME NEW u \in Tasks, NEW to \in TaskStatus, Transition(u, to)
      PROVE  /\ UNCHANGED <<result, starter, worker>>
             /\ \/ status'[t] = status[t]
                \/ status[t] \in {"working", "input_required"} /\ status'[t] \in TaskStatus
  BY <1>4 DEF TypeOK, Transition, CanTransition, Move
<1>5. ASSUME NEW c \in Cancels, Cancel(c)
      PROVE  /\ UNCHANGED <<result, starter, worker>>
             /\ \/ status'[t] = status[t]
                \/ status[t] \in {"working", "input_required"} /\ status'[t] = "cancelled"
  BY <1>5 DEF TypeOK, Cancel, Cancellable, Known, Move
<1>6. ASSUME NEW c \in Cancels, Notified(c) \/ Joined(c) \/ InterruptCancel(c)
      PROVE  /\ UNCHANGED <<status, starter, worker>>
             /\ \/ result'[t] = result[t]
                \/ result[t] = "pending" /\ result'[t] = "cancelled" /\ status[t] = "cancelled"
  <2>1. cancel[c].task \in Tasks
    BY DEF TypeOK
  <2>2. CASE UNCHANGED result
    BY <1>6, <2>2 DEF Notified, Joined, InterruptCancel
  <2>3. CASE Settle(cancel[c].task, "cancelled")
    <3>1. cancel[c].at \in {"notifying", "joining", "interrupted"} => ~InterruptCancel(c)
                                                      \/ UNCHANGED result
      BY DEF InterruptCancel
    <3>2. CASE InterruptCancel(c)
      BY <3>2 DEF InterruptCancel
    <3>3. CASE Notified(c) \/ Joined(c)
      <4>1. status[cancel[c].task] = "cancelled"
        BY <3>3 DEF CancelInv, Notified, Joined
      <4> QED
        BY <2>1, <2>3, <3>3, <4>1 DEF TypeOK, Settle, Notified, Joined
    <3> QED
      BY <1>6, <3>2, <3>3
  <2> QED
    BY <1>6, <2>2, <2>3 DEF Notified, Joined, InterruptCancel
<1>7. ASSUME (\E w \in Waits : Await(w) \/ Answer(w)) \/ Get \/ ListPage
      PROVE  UNCHANGED <<status, result, starter, worker>>
  BY <1>7 DEF Await, Answer, Get, ListPage
<1>8. CASE \E u \in Tasks : Start(u) \/ Fork(u) \/ InterruptStart(u) \/ Expire(u)
  <2>1. PICK u \in Tasks : Start(u) \/ Fork(u) \/ InterruptStart(u) \/ Expire(u)
    BY <1>8
  <2> QED
    BY <1>a, <1>1, <2>1
<1>9. CASE \E u \in Tasks, outcome \in {"completed", "failed"} : Work(u, outcome)
  <2>1. PICK u \in Tasks, outcome \in {"completed", "failed"} : Work(u, outcome)
    BY <1>9
  <2>2. status[t] \in {"none"} \cup TaskStatus
    BY DEF TypeOK
  <2> QED
    BY <1>a, <1>2, <2>1, <2>2
<1>10. CASE \E u \in Tasks : Report(u)
  BY <1>a, <1>3, <1>10
<1>11. CASE \E u \in Tasks, to \in TaskStatus : Transition(u, to)
  BY <1>4, <1>11
<1>12. CASE \E c \in Cancels : Cancel(c)
  BY <1>5, <1>12
<1>13. CASE \E c \in Cancels : Notified(c) \/ Joined(c) \/ InterruptCancel(c)
  BY <1>6, <1>13
<1> QED
  BY <1>7, <1>8, <1>9, <1>10, <1>11, <1>12, <1>13 DEF Next

LEMMA StatusInvStep == TypeOK /\ StatusInv /\ CancelInv /\ [Next]_vars => StatusInv'
<1>1. CASE UNCHANGED vars
  BY <1>1 DEF StatusInv, vars
<1>2. ASSUME TypeOK, StatusInv, CancelInv, Next, NEW t \in Tasks
      PROVE  /\ starter'[t] = "idle" <=> status'[t] = "none"
             /\ starter'[t] = "started" <=> worker'[t] # "none"
             /\ worker'[t] \in {"completed", "failed"} => status'[t] = worker'[t]
  <2>1. /\ starter[t] = "idle" <=> status[t] = "none"
        /\ starter[t] = "started" <=> worker[t] # "none"
        /\ worker[t] \in {"completed", "failed"} => status[t] = worker[t]
    BY <1>2 DEF StatusInv
  <2> QED
    BY <1>2, <2>1, TaskSteps DEF TaskStatus, Terminal
<1> QED
  BY <1>1, <1>2 DEF StatusInv

LEMMA ResultStep ==
  TypeOK /\ StatusInv /\ CancelInv /\ ResultMatchesStatus /\ [Next]_vars
    => ResultMatchesStatus'
<1>1. CASE UNCHANGED vars
  BY <1>1 DEF ResultMatchesStatus, vars
<1>2. ASSUME TypeOK, StatusInv, CancelInv, ResultMatchesStatus, Next, NEW t \in Tasks,
             result'[t] # "pending"
      PROVE  result'[t] = status'[t]
  <2>1. result[t] # "pending" => result[t] = status[t] /\ status[t] \in Terminal
    BY <1>2 DEF ResultMatchesStatus, TypeOK
  <2> QED
    BY <1>2, <2>1, TaskSteps DEF Terminal
<1> QED
  BY <1>1, <1>2 DEF ResultMatchesStatus

\* A call of cancel keeps its task, is past its transition only if that cancelled the
\* task, and returns only once it has settled the result.
LEMMA CancelSteps ==
  ASSUME TypeOK, StatusInv, CancelInv, Next, NEW c \in Cancels
  PROVE  LET t == cancel[c].task
         IN  /\ cancel'[c].task = t /\ t \in Tasks
             /\ \/ cancel'[c] = cancel[c]
                \/ cancel[c].at = "idle" /\ cancel'[c].at = "notifying" /\ status'[t] = "cancelled"
                \/ cancel'[c].at \in {"refused", "interrupted"}
                \/ cancel[c].at = "notifying" /\ cancel'[c].at = "joining"
                \/ /\ cancel[c].at \in {"notifying", "joining"} /\ cancel'[c].at = "done"
                   /\ Settle(t, "cancelled")
<1> DEFINE t == cancel[c].task
<1>0. t \in Tasks
  BY DEF TypeOK
<1>1. ASSUME NEW d \in Cancels, NEW at \in {"notifying", "joining", "done", "refused",
                                            "interrupted"},
             cancel' = [cancel EXCEPT ![d].at = at]
      PROVE  /\ cancel'[c].task = t
             /\ IF d = c THEN cancel'[c].at = at ELSE cancel'[c] = cancel[c]
  <2>1. cancel[c] \in [at : {"idle", "notifying", "joining", "done", "refused",
                             "interrupted"}, task : Tasks]
    BY DEF TypeOK
  <2> QED
    BY <1>1, <2>1, CancelType
<1>2. ASSUME NEW d \in Cancels, Cancel(d)
      PROVE  /\ cancel[d].at = "idle"
             /\ \/ /\ cancel' = [cancel EXCEPT ![d].at = "notifying"]
                   /\ status'[cancel[d].task] = "cancelled"
                \/ cancel' = [cancel EXCEPT ![d].at = "refused"]
  BY <1>2 DEF TypeOK, Cancel, Move
<1>3. ASSUME NEW d \in Cancels, Notified(d) \/ Joined(d)
      PROVE  \/ /\ cancel[d].at \in {"notifying", "joining"}
                /\ Settle(cancel[d].task, "cancelled")
                /\ cancel' = [cancel EXCEPT ![d].at = "done"]
             \/ /\ cancel[d].at = "notifying"
                /\ cancel' = [cancel EXCEPT ![d].at = "joining"]
  BY <1>3 DEF Notified, Joined
<1>4. ASSUME NEW d \in Cancels, InterruptCancel(d)
      PROVE  cancel' = [cancel EXCEPT ![d].at = "interrupted"]
  BY <1>4 DEF InterruptCancel
<1>5. CASE UNCHANGED cancel
  BY <1>0, <1>5
<1>6. CASE \E d \in Cancels : Cancel(d)
  <2>1. PICK d \in Cancels : Cancel(d)
    BY <1>6
  <2> QED
    BY <1>0, <1>1, <1>2, <2>1
<1>7. CASE \E d \in Cancels : Notified(d) \/ Joined(d)
  <2>1. PICK d \in Cancels : Notified(d) \/ Joined(d)
    BY <1>7
  <2> QED
    BY <1>0, <1>1, <1>3, <2>1
<1>8. CASE \E d \in Cancels : InterruptCancel(d)
  <2>1. PICK d \in Cancels : InterruptCancel(d)
    BY <1>8
  <2> QED
    BY <1>0, <1>1, <1>4, <2>1
<1>9. \/ UNCHANGED cancel
      \/ \E d \in Cancels : Cancel(d) \/ Notified(d) \/ Joined(d) \/ InterruptCancel(d)
  BY DEF Next, Start, Fork, InterruptStart, Work, Report, Expire, Transition, Await, Answer,
         Get, ListPage
<1> QED
  BY <1>5, <1>6, <1>7, <1>8, <1>9

LEMMA CancelStep ==
  /\ TypeOK /\ StatusInv /\ CancelInv /\ ResultMatchesStatus /\ CancelIsFinal
  /\ ResultMatchesStatus' /\ StatusInv'
  /\ [Next]_vars
  => CancelInv' /\ CancelIsFinal'
<1>1. CASE UNCHANGED vars
  BY <1>1 DEF CancelInv, CancelIsFinal, vars
<1>2. ASSUME TypeOK, StatusInv, CancelInv, ResultMatchesStatus, CancelIsFinal,
             StatusInv', Next, NEW c \in Cancels
      PROVE  LET t == cancel'[c].task
             IN  /\ cancel'[c].at \in {"notifying", "joining", "done"} => status'[t] = "cancelled"
                 /\ cancel'[c].at = "done" =>
                      /\ status'[t] = "cancelled" /\ result'[t] = "cancelled"
                      /\ worker'[t] \notin {"completed", "failed"}
  <2> DEFINE t == cancel[c].task
  <2>1. cancel'[c].task = t /\ t \in Tasks
    BY <1>2, CancelSteps
  <2>2. status[t] = "cancelled" => status'[t] = "cancelled"
    BY <1>2, <2>1, TaskSteps
  <2>3. cancel'[c].at \in {"notifying", "joining", "done"} => status'[t] = "cancelled"
    BY <1>2, <2>2, CancelSteps DEF CancelInv
  <2>4. ASSUME cancel'[c].at = "done" PROVE result'[t] = "cancelled"
    <3>1. result[t] # "pending" => result[t] = status[t]
      BY <1>2, <2>1 DEF ResultMatchesStatus
    <3>2. CASE cancel[c].at = "done"
      <4>1. result[t] = "cancelled"
        BY <1>2, <3>2 DEF CancelIsFinal
      <4> QED
        BY <1>2, <2>1, <4>1, TaskSteps
    <3>3. CASE cancel[c].at \in {"notifying", "joining"} /\ Settle(t, "cancelled")
      <4>1. status[t] = "cancelled"
        BY <1>2, <3>3 DEF CancelInv
      <4> QED
        BY <1>2, <2>1, <3>1, <3>3, <4>1 DEF Settle, TypeOK
    <3> QED
      BY <1>2, <2>4, <3>2, <3>3, CancelSteps
  <2>5. worker'[t] \in {"completed", "failed"} => status'[t] # "cancelled"
    BY <1>2, <2>1 DEF StatusInv
  <2> QED
    BY <2>1, <2>3, <2>4, <2>5
<1> QED
  BY <1>1, <1>2 DEF CancelInv, CancelIsFinal

-----------------------------------------------------------------------------
(* Paging.                                                                 *)

\* Cleaning the map moves nothing the client has seen behind its cursor, and what
\* the cursor would skip was behind a removed entry.
LEMMA CleanedInOrder ==
  ASSUME TypeOK, InOrder(tasks, listing)
  PROVE  InOrder(Cleaned, listing)
<1>1. /\ Cleaned \in Seq(Known) /\ tasks \in Seq(Known)
      /\ ToSet(Cleaned) = ToSet(tasks) \ due
  BY CleanedType DEF TypeOK
<1>2. PICK h : Embeds(h, Cleaned, tasks, due, Len(tasks))
  BY CleanedType
<1>3. /\ DOMAIN Cleaned = 1..Len(Cleaned) /\ Len(Cleaned) \in Nat
      /\ DOMAIN tasks = 1..Len(tasks) /\ Len(tasks) \in Nat
  BY <1>1
<1>4. /\ \A i \in DOMAIN Cleaned : h[i] \in DOMAIN tasks /\ i <= h[i]
                                   /\ Cleaned[i] = tasks[h[i]]
      /\ \A i, j \in DOMAIN Cleaned : i < j => h[i] < h[j]
  BY <1>2, <1>3 DEF Embeds
<1>5. listing.cursor \in Nat
  BY DEF TypeOK
<1>6. \A i \in DOMAIN Cleaned : Cleaned[i] \in ToSet(listing.seen) => i <= listing.cursor
  BY <1>3, <1>4, <1>5 DEF InOrder
<1>7. \A i, j \in DOMAIN Cleaned :
        i < j /\ Cleaned[j] \in listing.first => Cleaned[i] \in listing.first
  BY <1>4 DEF InOrder
<1>8. ASSUME listing.first \subseteq ToSet(Cleaned), NEW i \in DOMAIN Cleaned,
             Cleaned[i] \in listing.first, i <= listing.cursor
      PROVE  Cleaned[i] \in ToSet(listing.seen)
  <2> DEFINE n == h[i]
  <2>1. n \in DOMAIN tasks /\ tasks[n] \in listing.first /\ n \in 0..Len(tasks)
    BY <1>3, <1>4, <1>8
  <2>2. \A k \in 1..n : tasks[k] \in listing.first
    BY <1>3, <2>1 DEF InOrder
  <2>3. \A k \in 1..n : tasks[k] \notin due
    BY <1>1, <1>8, <2>2
  <2>4. n \in 1..Len(Cleaned) /\ h[n] = n
    <3> HIDE DEF n
    <3>1. \A k \in 1..n : k \in 1..Len(Cleaned) /\ h[k] = k
      BY <1>1, <1>2, <2>1, <2>3, EmbedsPrefix
    <3> QED
      BY <1>3, <2>1, <3>1
  <2>5. i = n
    BY <1>3, <1>4, <2>4
  <2>6. listing.first \subseteq ToSet(tasks)
    BY <1>1, <1>8
  <2> QED
    BY <1>4, <1>8, <2>1, <2>5, <2>6 DEF InOrder
<1> QED
  BY <1>6, <1>7, <1>8 DEF InOrder

LEMMA ConcatSet ==
  ASSUME NEW S, NEW s \in Seq(S), NEW q \in Seq(S)
  PROVE  /\ s \o q \in Seq(S)
         /\ ToSet(s \o q) = ToSet(s) \cup ToSet(q)
         /\ IsInjective(s) /\ IsInjective(q) /\ ToSet(s) \cap ToSet(q) = {}
              => IsInjective(s \o q)
<1>1. /\ s \o q \in Seq(S) /\ Len(s \o q) = Len(s) + Len(q)
      /\ \A i \in 1..Len(s) : (s \o q)[i] = s[i]
      /\ \A i \in 1..Len(q) : (s \o q)[Len(s) + i] = q[i]
      /\ Len(s) \in Nat /\ Len(q) \in Nat
      /\ DOMAIN s = 1..Len(s) /\ DOMAIN q = 1..Len(q)
      /\ DOMAIN (s \o q) = 1..(Len(s) + Len(q))
  OBVIOUS
<1>2. \A i \in DOMAIN (s \o q) :
        \/ i \in DOMAIN s /\ (s \o q)[i] = s[i]
        \/ i - Len(s) \in DOMAIN q /\ (s \o q)[i] = q[i - Len(s)]
  <2> TAKE i \in DOMAIN (s \o q)
  <2>1. CASE i <= Len(s)
    BY <1>1, <2>1
  <2>2. CASE i > Len(s)
    <3>1. i - Len(s) \in 1..Len(q) /\ Len(s) + (i - Len(s)) = i
      BY <1>1, <2>2
    <3>2. (s \o q)[Len(s) + (i - Len(s))] = q[i - Len(s)]
      BY <1>1, <3>1
    <3> QED
      BY <1>1, <3>1, <3>2
  <2> QED
    BY <1>1, <2>1, <2>2
<1>3. ToSet(s \o q) \subseteq ToSet(s) \cup ToSet(q)
  BY <1>2 DEF ToSet
<1>4. ToSet(s) \subseteq ToSet(s \o q)
  <2>1. \A i \in DOMAIN s : i \in DOMAIN (s \o q) /\ (s \o q)[i] = s[i]
    BY <1>1
  <2> QED
    BY <2>1 DEF ToSet
<1>5. ToSet(q) \subseteq ToSet(s \o q)
  <2>1. \A i \in DOMAIN q : Len(s) + i \in DOMAIN (s \o q) /\ (s \o q)[Len(s) + i] = q[i]
    BY <1>1
  <2> QED
    BY <2>1 DEF ToSet
<1>6. ASSUME IsInjective(s), IsInjective(q), ToSet(s) \cap ToSet(q) = {},
             NEW i \in DOMAIN (s \o q), NEW j \in DOMAIN (s \o q), (s \o q)[i] = (s \o q)[j]
      PROVE  i = j
  <2>1. \A k \in DOMAIN s, l \in DOMAIN q : s[k] # q[l]
    BY <1>6 DEF ToSet
  <2>2. CASE i \in DOMAIN s /\ (s \o q)[i] = s[i]
    BY <1>2, <1>6, <2>1, <2>2 DEF IsInjective
  <2>3. CASE i - Len(s) \in DOMAIN q /\ (s \o q)[i] = q[i - Len(s)]
    <3>1. j - Len(s) \in DOMAIN q /\ (s \o q)[j] = q[j - Len(s)]
      BY <1>2, <1>6, <2>1, <2>3
    <3>2. i - Len(s) = j - Len(s)
      BY <1>6, <2>3, <3>1 DEF IsInjective
    <3> QED
      BY <1>1, <3>2
  <2> QED
    BY <1>2, <2>2, <2>3
<1> QED
  BY <1>1, <1>3, <1>4, <1>5, <1>6 DEF IsInjective

\* One more page: what it shows was behind the cursor.
LEMMA PageInOrder ==
  ASSUME TypeOK, PagingInv, PagingSkipsOnlyRemoved, InOrder(Cleaned, listing), ListPage,
         listing.cursor <= Len(Cleaned)
  PROVE  /\ listing'.first \subseteq Known /\ ToSet(listing'.seen) \subseteq Known
         /\ listing'.at \in {"paging", "finished"}
         /\ InOrder(Cleaned, listing')
         /\ IsInjective(listing'.seen)
         /\ listing'.at = "finished" /\ listing'.first \subseteq ToSet(Cleaned)
              => listing'.first \subseteq ToSet(listing'.seen)
<1> DEFINE c == listing.cursor
           p == Page(c)
           seen == listing.seen
           next == listing'
<1>1. /\ Cleaned \in Seq(Known) /\ IsInjective(Cleaned) /\ Len(Cleaned) \in Nat
      /\ DOMAIN Cleaned = 1..Len(Cleaned)
      /\ c \in 0..Len(Cleaned) /\ seen \in Seq(Tasks) /\ Known \subseteq Tasks
  BY CleanedType DEF TypeOK, Known
<1>2. /\ p \in Seq(Known) /\ Len(p) \in Nat /\ DOMAIN p = 1..Len(p)
      /\ c + Len(p) <= Len(Cleaned) /\ Len(p) <= PageSize /\ PageSize \in Nat
      /\ c + Len(p) = c + PageSize \/ c + Len(p) = Len(Cleaned)
      /\ \A i \in 1..Len(p) : p[i] = Cleaned[c + i]
  <2>1. PageSize \in Nat
    BY TasksAssumption
  <2>2. /\ p \in Seq(Known)
        /\ Len(p) <= PageSize /\ c + Len(p) <= Len(Cleaned)
        /\ c + Len(p) = c + PageSize \/ c + Len(p) = Len(Cleaned)
        /\ \A i \in 1..Len(p) : p[i] = Cleaned[c + i]
    BY <1>1, PageIs
  <2> HIDE DEF p
  <2>3. Len(p) \in Nat /\ DOMAIN p = 1..Len(p)
    BY <2>2
  <2> QED
    BY <2>1, <2>2, <2>3
<1>3. next = [at |-> IF NextCursor(c) < Len(Cleaned) THEN "paging" ELSE "finished",
              cursor |-> NextCursor(c),
              first |-> IF listing.at = "idle" THEN ToSet(Cleaned) ELSE listing.first,
              seen |-> seen \o p]
  BY <1>1 DEF ListPage
<1> HIDE DEF p, next
<1>4. /\ next.cursor = c + PageSize /\ next.seen = seen \o p
      /\ next.at \in {"paging", "finished"}
      /\ next.at = "finished" => c + PageSize >= Len(Cleaned)
      /\ next.first = IF listing.at = "idle" THEN ToSet(Cleaned) ELSE listing.first
  BY <1>1, <1>2, <1>3 DEF NextCursor
<1>5. p \in Seq(Tasks) /\ ToSet(p) \subseteq Known /\ ToSet(Cleaned) \subseteq Known
  BY <1>1, <1>2 DEF ToSet
<1>6. IsInjective(p)
  <2> SUFFICES ASSUME NEW i \in 1..Len(p), NEW k \in 1..Len(p), p[i] = p[k] PROVE i = k
    BY <1>2 DEF IsInjective
  <2>1. c + i \in DOMAIN Cleaned /\ c + k \in DOMAIN Cleaned
    BY <1>1, <1>2, SMTT(60)
  <2>2. Cleaned[c + i] = Cleaned[c + k]
    BY <1>2
  <2>3. c + i = c + k
    BY <1>1, <2>1, <2>2 DEF IsInjective
  <2> QED
    BY <1>1, <2>3
<1>7. ToSet(seen) \cap ToSet(p) = {}
  <2> SUFFICES ASSUME NEW k \in 1..Len(p), p[k] \in ToSet(seen) PROVE FALSE
    BY <1>2 DEF ToSet
  <2>1. c + k \in DOMAIN Cleaned /\ Cleaned[c + k] \in ToSet(seen)
    BY <1>1, <1>2
  <2> QED
    BY <1>1, <2>1 DEF InOrder
<1>8. ToSet(next.seen) = ToSet(seen) \cup ToSet(p) /\ IsInjective(next.seen)
  BY <1>1, <1>4, <1>5, <1>6, <1>7, ConcatSet DEF PagingSkipsOnlyRemoved
<1>9. ASSUME NEW i \in DOMAIN Cleaned, Cleaned[i] \in ToSet(next.seen)
      PROVE  i <= next.cursor
  <2>1. CASE Cleaned[i] \in ToSet(seen)
    BY <1>1, <1>2, <1>4, <2>1 DEF InOrder
  <2>2. CASE Cleaned[i] \in ToSet(p)
    <3>1. PICK k \in 1..Len(p) : Cleaned[i] = Cleaned[c + k]
      BY <1>2, <2>2 DEF ToSet
    <3>2. i = c + k
      BY <1>1, <1>2, <3>1 DEF IsInjective
    <3> QED
      BY <1>1, <1>2, <1>4, <3>2
  <2> QED
    BY <1>8, <1>9, <2>1, <2>2
<1>10. \A i, j \in DOMAIN Cleaned :
         i < j /\ Cleaned[j] \in next.first => Cleaned[i] \in next.first
  BY <1>4 DEF InOrder, ToSet
<1>11. ASSUME next.first \subseteq ToSet(Cleaned), NEW i \in DOMAIN Cleaned,
              Cleaned[i] \in next.first, i <= c + PageSize
       PROVE  Cleaned[i] \in ToSet(next.seen)
  <2>1. CASE i <= c
    <3>1. listing.at # "idle"
      BY <1>1, <2>1 DEF PagingInv
    <3> QED
      BY <1>4, <1>8, <1>11, <2>1, <3>1 DEF InOrder
  <2>2. CASE i > c
    <3>1. i - c \in 1..Len(p) /\ c + (i - c) = i
      BY <1>1, <1>2, <1>11, <2>2
    <3>2. p[i - c] = Cleaned[i]
      BY <1>2, <3>1
    <3> QED
      BY <1>2, <1>8, <3>1, <3>2 DEF ToSet
  <2> QED
    BY <1>1, <2>1, <2>2
<1>12. next.at = "finished" /\ next.first \subseteq ToSet(Cleaned)
         => next.first \subseteq ToSet(next.seen)
  <2> SUFFICES ASSUME next.at = "finished", next.first \subseteq ToSet(Cleaned),
                      NEW x \in next.first
               PROVE  x \in ToSet(next.seen)
    OBVIOUS
  <2>1. PICK i \in DOMAIN Cleaned : Cleaned[i] = x
    BY DEF ToSet
  <2>2. i <= c + PageSize
    BY <1>1, <1>2, <1>4, <2>1
  <2> QED
    BY <1>11, <2>1, <2>2
<1>13. next.first \subseteq Known /\ ToSet(next.seen) \subseteq Known
  BY <1>4, <1>5, <1>8 DEF PagingInv
<1>14. InOrder(Cleaned, next)
  BY <1>4, <1>9, <1>10, <1>11 DEF InOrder
<1> QED
  BY <1>4, <1>8, <1>12, <1>13, <1>14 DEF next

\* Every other step keeps the map in order, whether it cleans it, starts a task or
\* leaves it alone: what is new comes last.
LEMMA MapSteps ==
  ASSUME TypeOK, StatusInv, PagingInv, Next
  PROVE  /\ Known \subseteq Known'
         /\ tasks' \in {tasks, Cleaned} \/ (UNCHANGED listing /\ \E t \in Tasks \ Known :
                                            tasks' = Append(tasks, t))
         /\ ListPage \/ UNCHANGED listing
<1>1. ASSUME NEW t \in Tasks, Start(t)
      PROVE  /\ Known \subseteq Known' /\ UNCHANGED listing
             /\ t \notin Known /\ tasks' = Append(tasks, t)
  BY <1>1 DEF TypeOK, StatusInv, Known, Start
<1>2. ASSUME NEW t \in Tasks, Fork(t) \/ InterruptStart(t) \/ Report(t) \/ Expire(t)
      PROVE  UNCHANGED <<status, tasks, listing>>
  BY <1>2 DEF Fork, InterruptStart, Report, Expire
<1>3. ASSUME NEW t \in Tasks, NEW outcome \in {"completed", "failed"}, Work(t, outcome)
      PROVE  /\ Known \subseteq Known' /\ tasks' \in {tasks, Cleaned} /\ UNCHANGED listing
  BY <1>3 DEF TypeOK, Known, Work, Move
<1>4. ASSUME NEW t \in Tasks, NEW to \in TaskStatus, Transition(t, to)
      PROVE  /\ Known \subseteq Known' /\ tasks' \in {tasks, Cleaned} /\ UNCHANGED listing
  BY <1>4 DEF TypeOK, Known, Transition, Move, TaskStatus, Terminal
<1>5. ASSUME NEW c \in Cancels, Cancel(c)
      PROVE  /\ Known \subseteq Known' /\ tasks' \in {tasks, Cleaned} /\ UNCHANGED listing
  BY <1>5 DEF TypeOK, Known, Cancel, Move
<1>6. ASSUME NEW c \in Cancels, Notified(c) \/ Joined(c) \/ InterruptCancel(c)
      PROVE  UNCHANGED <<status, tasks, listing>>
  BY <1>6 DEF Notified, Joined, InterruptCancel
<1>7. ASSUME NEW w \in Waits, Await(w) \/ Answer(w)
      PROVE  UNCHANGED <<status, listing>> /\ tasks' \in {tasks, Cleaned}
  BY <1>7 DEF Await, Answer
<1>8. ASSUME Get \/ ListPage
      PROVE  UNCHANGED status /\ tasks' \in {tasks, Cleaned} /\ (ListPage \/ UNCHANGED listing)
  BY <1>8 DEF Get, ListPage
<1>9. UNCHANGED status => Known \subseteq Known'
  BY DEF Known
<1>10. CASE \E t \in Tasks : \/ Start(t) \/ Fork(t) \/ InterruptStart(t) \/ Report(t)
                             \/ Expire(t)
  <2>1. PICK t \in Tasks : \/ Start(t)
                           \/ Fork(t) \/ InterruptStart(t) \/ Report(t) \/ Expire(t)
    BY <1>10
  <2>2. CASE Start(t)
    BY <1>1, <2>2
  <2>3. CASE Fork(t) \/ InterruptStart(t) \/ Report(t) \/ Expire(t)
    BY <1>2, <1>9, <2>3
  <2> QED
    BY <2>1, <2>2, <2>3
<1>11. CASE \E t \in Tasks, outcome \in {"completed", "failed"} : Work(t, outcome)
  BY <1>3, <1>11
<1>12. CASE \E t \in Tasks, to \in TaskStatus : Transition(t, to)
  BY <1>4, <1>12
<1>13. CASE \E c \in Cancels : Cancel(c)
  BY <1>5, <1>13
<1>14. CASE \E c \in Cancels : Notified(c) \/ Joined(c) \/ InterruptCancel(c)
  <2>1. UNCHANGED <<status, tasks, listing>>
    BY <1>6, <1>14
  <2> QED
    BY <1>9, <2>1
<1>15. CASE \E w \in Waits : Await(w) \/ Answer(w)
  BY <1>7, <1>9, <1>15
<1>16. CASE Get \/ ListPage
  BY <1>8, <1>9, <1>16
<1> QED
  BY <1>10, <1>11, <1>12, <1>13, <1>14, <1>15, <1>16 DEF Next

LEMMA PagingStep ==
  TypeOK /\ StatusInv /\ PagingInv /\ PagingSkipsOnlyRemoved /\ [Next]_vars
    => PagingInv' /\ PagingSkipsOnlyRemoved'
<1>1. CASE UNCHANGED vars
  BY <1>1 DEF PagingInv, PagingSkipsOnlyRemoved, InOrder, Known, vars
<1> SUFFICES ASSUME TypeOK, StatusInv, PagingInv, PagingSkipsOnlyRemoved, Next
             PROVE  PagingInv' /\ PagingSkipsOnlyRemoved'
  BY <1>1
<1>2. /\ InOrder(tasks, listing) /\ InOrder(Cleaned, listing)
      /\ Known \subseteq Known'
      /\ listing.first \subseteq Known /\ ToSet(listing.seen) \subseteq Known
  BY CleanedInOrder, MapSteps DEF PagingInv
<1>3. CASE tasks' \in {tasks, Cleaned} /\ UNCHANGED listing
  <2>1. InOrder(tasks', listing)
    BY <1>2, <1>3
  <2>2. ToSet(tasks') \subseteq ToSet(tasks)
    BY <1>3, CleanedType
  <2> QED
    BY <1>2, <1>3, <2>1, <2>2 DEF PagingInv, PagingSkipsOnlyRemoved
<1>4. CASE UNCHANGED listing /\ \E t \in Tasks \ Known : tasks' = Append(tasks, t)
  <2>1. PICK t \in Tasks \ Known : tasks' = Append(tasks, t)
    BY <1>4
  <2>2. /\ tasks \in Seq(Known)
        /\ t \notin listing.first /\ t \notin ToSet(listing.seen)
    BY <1>2 DEF TypeOK
  <2>3. /\ DOMAIN tasks' = 1..(Len(tasks) + 1) /\ Len(tasks) \in Nat
        /\ DOMAIN tasks = 1..Len(tasks)
        /\ tasks'[Len(tasks) + 1] = t
        /\ \A i \in DOMAIN tasks : tasks'[i] = tasks[i]
    <3>1. /\ Len(tasks) \in Nat /\ DOMAIN tasks = 1..Len(tasks)
      BY <2>2
    <3>2. /\ DOMAIN Append(tasks, t) = 1..(Len(tasks) + 1)
          /\ Append(tasks, t)[Len(tasks) + 1] = t
          /\ \A i \in 1..Len(tasks) : Append(tasks, t)[i] = tasks[i]
      BY <2>2
    <3> QED
      BY <2>1, <3>1, <3>2
  <2>4. \A i \in DOMAIN tasks' : \/ i \in DOMAIN tasks /\ tasks'[i] = tasks[i]
                                 \/ i = Len(tasks) + 1 /\ tasks'[i] = t
    BY <2>3
  <2>5. listing.first \subseteq ToSet(tasks') => listing.first \subseteq ToSet(tasks)
    BY <2>2, <2>4 DEF ToSet
  <2>6. InOrder(tasks', listing)
    <3>1. \A i \in DOMAIN tasks' : tasks'[i] \in ToSet(listing.seen) => i <= listing.cursor
      BY <1>2, <2>2, <2>4 DEF InOrder
    <3>2. \A i, j \in DOMAIN tasks' :
            i < j /\ tasks'[j] \in listing.first => tasks'[i] \in listing.first
      <4> SUFFICES ASSUME NEW i \in DOMAIN tasks', NEW j \in DOMAIN tasks', i < j,
                          tasks'[j] \in listing.first
                   PROVE  tasks'[i] \in listing.first
        OBVIOUS
      <4>1. j \in DOMAIN tasks /\ tasks'[j] = tasks[j]
        BY <2>2, <2>4
      <4>2. i \in DOMAIN tasks /\ tasks'[i] = tasks[i]
        BY <2>3, <4>1
      <4> QED
        BY <1>2, <4>1, <4>2 DEF InOrder
    <3>3. listing.first \subseteq ToSet(tasks') =>
            \A i \in DOMAIN tasks' : tasks'[i] \in listing.first /\ i <= listing.cursor
                                      => tasks'[i] \in ToSet(listing.seen)
      BY <1>2, <2>2, <2>4, <2>5 DEF InOrder
    <3> QED
      BY <3>1, <3>2, <3>3 DEF InOrder
  <2> QED
    BY <1>2, <1>4, <2>5, <2>6 DEF PagingInv, PagingSkipsOnlyRemoved
<1>5. CASE ListPage /\ listing.cursor <= Len(Cleaned)
  <2>1. tasks' = Cleaned
    BY <1>5 DEF ListPage
  <2>2. /\ listing'.first \subseteq Known' /\ ToSet(listing'.seen) \subseteq Known'
        /\ listing'.at \in {"paging", "finished"}
        /\ InOrder(tasks', listing')
        /\ IsInjective(listing'.seen)
        /\ listing'.at = "finished" /\ listing'.first \subseteq ToSet(tasks')
             => listing'.first \subseteq ToSet(listing'.seen)
    BY <1>2, <1>5, <2>1, PageInOrder
  <2> QED
    BY <2>2 DEF PagingInv, PagingSkipsOnlyRemoved
<1>6. CASE ListPage /\ ~(listing.cursor <= Len(Cleaned))
  <2>1. tasks' = Cleaned /\ listing' = [listing EXCEPT !.at = "refused"]
    <3>1. listing.cursor > Len(Cleaned)
      BY <1>6, CleanedType DEF TypeOK
    <3> QED
      BY <1>6, <3>1 DEF ListPage
  <2>2. /\ listing'.at = "refused" /\ listing'.first = listing.first
        /\ listing'.seen = listing.seen /\ listing'.cursor = listing.cursor
    BY <2>1 DEF TypeOK
  <2>3. InOrder(tasks', listing')
    BY <1>2, <2>1, <2>2 DEF InOrder
  <2> QED
    BY <1>2, <2>2, <2>3 DEF PagingInv, PagingSkipsOnlyRemoved
<1> QED
  BY <1>3, <1>4, <1>5, <1>6, MapSteps

-----------------------------------------------------------------------------
(* The theorems.                                                           *)

LEMMA InvInit == Init => Inv
<1> SUFFICES ASSUME Init PROVE Inv
  OBVIOUS
<1>1. \A c \in Cancels : cancel[c].at = "idle"
  BY DEF Init
<1>2. listing = [at |-> "idle", cursor |-> 0, first |-> {}, seen |-> <<>>]
  BY DEF Init
<1>3. /\ ToSet(tasks) = {} /\ ToSet(listing.seen) = {} /\ DOMAIN tasks = {}
      /\ DOMAIN listing.seen = {}
  BY <1>2 DEF Init, ToSet
<1>4. StatusInv /\ ResultMatchesStatus
  BY DEF Init, StatusInv, ResultMatchesStatus
<1>5. CancelInv /\ CancelIsFinal
  BY <1>1 DEF CancelInv, CancelIsFinal
<1>6. PagingInv /\ PagingSkipsOnlyRemoved
  BY <1>2, <1>3 DEF PagingInv, InOrder, PagingSkipsOnlyRemoved, IsInjective
<1> QED
  BY <1>4, <1>5, <1>6, TypeOKInit DEF Inv

\* The invariant of the task runtime holds in every reachable state.
THEOREM Invariance == Spec => []Inv
<1>1. Inv /\ [Next]_vars => Inv'
  BY TypeOKStep, StatusInvStep, ResultStep, CancelStep, PagingStep DEF Inv
<1> QED
  BY <1>1, InvInit, PTL DEF Spec

\* Type correctness: among it, the map holds every known task at most once.
THEOREM TypeCorrect == Spec => []TypeOK
<1>1. Inv => TypeOK
  BY DEF Inv
<1> QED
  BY <1>1, Invariance, PTL

\* The answer of result agrees with the status that get and list show, whichever of
\* the fiber, a cancel and the application comes first.
THEOREM ResultsMatch == Spec => []ResultMatchesStatus
<1>1. Inv => ResultMatchesStatus
  BY DEF Inv
<1> QED
  BY <1>1, Invariance, PTL

\* A cancel that returned is final: the task is cancelled, its result too, and no fiber
\* is left that will report anything else.
THEOREM CancelStands == Spec => []CancelIsFinal
<1>1. Inv => CancelIsFinal
  BY DEF Inv
<1> QED
  BY <1>1, Invariance, PTL

\* Paging repeats nothing and skips only when a listed task was removed.
THEOREM PagingSkips == Spec => []PagingSkipsOnlyRemoved
<1>1. Inv => PagingSkipsOnlyRemoved
  BY DEF Inv
<1> QED
  BY <1>1, Invariance, PTL

\* A task ends once: canTransition lets nothing out of a terminal status, and no step
\* that writes a status does so on what it read before it was suspended.
THEOREM TerminalIsFinal ==
  Spec => [][\A t \in Tasks : status[t] \in Terminal => status'[t] = status[t]]_vars
<1>1. Inv /\ [Next]_vars
        => [\A t \in Tasks : status[t] \in Terminal => status'[t] = status[t]]_vars
  <2> SUFFICES ASSUME Inv, Next, NEW t \in Tasks, status[t] \in Terminal
               PROVE  status'[t] = status[t]
    OBVIOUS
  <2> QED
    BY TaskSteps DEF Inv, Terminal
<1> QED
  BY <1>1, Invariance, PTL DEF Spec

\* The first settlement of a result stands: nobody who was answered is ever
\* contradicted.
THEOREM ResultIsFinal ==
  Spec => [][\A t \in Tasks : result[t] # "pending" => result'[t] = result[t]]_vars
<1>1. Inv /\ [Next]_vars
        => [\A t \in Tasks : result[t] # "pending" => result'[t] = result[t]]_vars
  <2> SUFFICES ASSUME Inv, Next, NEW t \in Tasks, result[t] # "pending"
               PROVE  result'[t] = result[t]
    OBVIOUS
  <2> QED
    BY TaskSteps DEF Inv
<1> QED
  BY <1>1, Invariance, PTL DEF Spec

-----------------------------------------------------------------------------
(* Somebody who will settle the result of a task is never missing.         *)

\* A fiber that is over has ended its task or found it gone.  Who ended a task and has not
\* settled its result yet is still on the way to it, unless it was interrupted; and a
\* cancel joins only a fiber that was forked.
SettlerInv ==
  /\ \A t \in Tasks :
       /\ worker[t] = "over" /\ t \in ToSet(tasks) => status[t] \in Terminal
       /\ ender[t] = "nobody" => status[t] \notin Terminal
       /\ ender[t] = "worker" /\ result[t] = "pending" => worker[t] \in {"completed", "failed"}
       /\ ender[t] = "cancel" /\ result[t] = "pending" =>
            \E c \in Cancels :
              cancel[c].task = t /\ cancel[c].at \in {"notifying", "joining", "interrupted"}
  /\ \A c \in Cancels : cancel[c].at = "joining" => worker[cancel[c].task] # "none"
  /\ \A w \in Waits : wait[w].at = "waiting" => status[wait[w].task] # "none"

\* A step that brings the result of task t nearer is enabled: of the start call, of the
\* fiber, or of a cancel; or the result is there to be read.
ResultGoesOn(t) ==
  \/ result[t] # "pending"
  \/ starter[t] = "notifying"
  \/ worker[t] \in {"running", "completed", "failed"}
  \/ \E c \in Cancels :
       /\ cancel[c].task = t
       /\ cancel[c].at = "notifying" \/ (cancel[c].at = "joining" /\ worker[t] = "over")

WaitersGoOn ==
  \A w \in Waits :
    wait[w].at = "waiting" => ResultGoesOn(wait[w].task) \/ Forgotten(wait[w].task)

LEMMA SettlerInvInit == Init => SettlerInv
  BY DEF Init, SettlerInv, Terminal, ToSet

\* What any step does to one call of cancel, and to one call of result.
LEMMA CallersStep ==
  ASSUME Inv, Next
  PROVE  /\ \A c \in Cancels :
              /\ cancel'[c].at = "refused" => cancel[c].at \in {"idle", "refused"}
              /\ cancel'[c].at = "joining" =>
                   cancel[c].at = "joining" \/ worker[cancel[c].task] # "none"
         /\ \A w \in Waits :
              /\ wait'[w].task = wait[w].task /\ wait[w].task \in Tasks
              /\ wait'[w].at = "waiting" =>
                   wait[w].at = "waiting" \/ status[wait[w].task] # "none"
<1>1. TypeOK
  BY DEF Inv
<1>2. ASSUME NEW d \in Cancels, Cancel(d) \/ Notified(d) \/ Joined(d) \/ InterruptCancel(d),
             NEW c \in Cancels
      PROVE  /\ cancel'[c].at = "refused" => cancel[c].at \in {"idle", "refused"}
             /\ cancel'[c].at = "joining" =>
                  cancel[c].at = "joining" \/ worker[cancel[c].task] # "none"
             /\ UNCHANGED wait
  <2>1. cancel \in [Cancels -> [at : {"idle", "notifying", "joining", "done", "refused",
                                      "interrupted"}, task : Tasks]]
    BY <1>1 DEF TypeOK
  <2>2. CASE Cancel(d)
    BY <2>1, <2>2 DEF Cancel
  <2>3. CASE Notified(d)
    BY <2>1, <2>3 DEF Notified
  <2>4. CASE Joined(d) \/ InterruptCancel(d)
    BY <2>1, <2>4 DEF Joined, InterruptCancel
  <2> QED
    BY <1>2, <2>2, <2>3, <2>4
<1>3. ASSUME NEW v \in Waits, Await(v) \/ Answer(v), NEW w \in Waits
      PROVE  /\ wait'[w].task = wait[w].task
             /\ wait'[w].at = "waiting" =>
                  wait[w].at = "waiting" \/ status[wait[w].task] # "none"
             /\ UNCHANGED cancel
  BY <1>1, <1>3 DEF TypeOK, Await, Answer, Known
<1>5. \/ UNCHANGED <<cancel, wait>>
      \/ \E d \in Cancels : Cancel(d) \/ Notified(d) \/ Joined(d) \/ InterruptCancel(d)
      \/ \E v \in Waits : Await(v) \/ Answer(v)
  BY DEF Next, Start, Fork, InterruptStart, Work, Report, Expire, Transition, Get, ListPage
<1>6. \A w \in Waits : wait[w].task \in Tasks
  BY <1>1 DEF TypeOK
<1> QED
  BY <1>2, <1>3, <1>5, <1>6

\* What any step does to who ended a task, and to the fiber's way to its report.
LEMMA EndersStep ==
  ASSUME Inv, Next, NEW t \in Tasks
  PROVE  /\ \/ ender'[t] = ender[t] /\ (status'[t] \in Terminal => status[t] \in Terminal)
            \/ ender'[t] = "worker" /\ worker'[t] \in {"completed", "failed"}
            \/ ender'[t] = "application"
            \/ /\ ender'[t] = "cancel"
               /\ \E c \in Cancels : cancel'[c].task = t /\ cancel'[c].at = "notifying"
         /\ worker'[t] = "over" /\ t \in ToSet(tasks') =>
              worker[t] = "over" \/ status[t] \in Terminal
         /\ worker[t] \in {"completed", "failed"} =>
              worker'[t] = worker[t] \/ result'[t] # "pending"
<1>1. TypeOK /\ StatusInv
  BY DEF Inv
<1>2. ASSUME NEW u \in Tasks, Start(u)
      PROVE  /\ ender' = ender /\ worker' = worker
             /\ status'[t] \in Terminal => status[t] \in Terminal
  BY <1>1, <1>2 DEF TypeOK, Start, Terminal
<1>3. ASSUME NEW u \in Tasks, Fork(u) \/ InterruptStart(u) \/ Expire(u)
      PROVE  /\ ender' = ender /\ status' = status
             /\ worker'[t] = worker[t] \/ (worker[t] = "none" /\ worker'[t] = "running")
  <2>1. CASE Fork(u)
    <3>1. worker[u] = "none"
      BY <1>1, <2>1 DEF TypeOK, StatusInv, Fork
    <3> QED
      BY <1>1, <2>1, <3>1 DEF TypeOK, Fork
  <2> QED
    BY <1>3, <2>1 DEF InterruptStart, Expire
<1>4. ASSUME NEW u \in Tasks, NEW o \in {"completed", "failed"}, Work(u, o)
      PROVE  \/ /\ ender'[t] = ender[t] /\ status'[t] = status[t] /\ worker'[t] = worker[t]
             \/ /\ worker[t] = "running" /\ worker'[t] = o /\ ender'[t] = "worker"
             \/ /\ worker[t] = "running" /\ ender'[t] = ender[t] /\ status'[t] = status[t]
                /\ t \in ToSet(tasks') => status[t] \in Terminal
  <2>0. Cleaned \in Seq(Known) /\ worker[u] = "running"
    BY <1>1, <1>4, CleanedType DEF Work
  <2>1. CASE Reports(u) /\ Present(u)
    <3>1. /\ status' = [status EXCEPT ![u] = o] /\ worker' = [worker EXCEPT ![u] = o]
          /\ ender' = [ender EXCEPT ![u] = "worker"]
      BY <1>4, <2>1 DEF Work, Move, Terminal
    <3> QED
      BY <1>1, <2>0, <3>1 DEF TypeOK
  <2>2. CASE ~(Reports(u) /\ Present(u))
    <3>1. /\ worker' = [worker EXCEPT ![u] = "over"] /\ UNCHANGED <<status, ender>>
          /\ tasks' = IF Reports(u) THEN Cleaned ELSE tasks
      BY <1>4, <2>2 DEF Work
    <3>2. u \in ToSet(tasks') => status[u] \in Terminal
      BY <2>2, <3>1 DEF Reports, Present
    <3> QED
      BY <1>1, <2>0, <3>1, <3>2 DEF TypeOK
  <2> QED
    BY <2>1, <2>2
<1>5. ASSUME NEW u \in Tasks, Report(u)
      PROVE  /\ ender' = ender /\ status' = status
             /\ \/ worker'[t] = worker[t]
                \/ status[t] \in Terminal /\ result'[t] # "pending"
  <2>1. worker[u] \in {"completed", "failed"} /\ status[u] = worker[u]
    BY <1>1, <1>5 DEF StatusInv, Report
  <2> QED
    BY <1>1, <1>5, <2>1 DEF TypeOK, Report, Settle, Terminal
<1>6. ASSUME NEW u \in Tasks, NEW to \in TaskStatus, Transition(u, to)
      PROVE  /\ worker' = worker
             /\ \/ ender'[t] = ender[t] /\ (status'[t] \in Terminal => status[t] \in Terminal)
                \/ ender'[t] = "application"
  BY <1>1, <1>6 DEF TypeOK, Transition, Move
<1>7. ASSUME NEW d \in Cancels, Cancel(d)
      PROVE  /\ worker' = worker
             /\ \/ ender'[t] = ender[t] /\ status'[t] = status[t]
                \/ /\ ender'[t] = "cancel"
                   /\ \E c \in Cancels : cancel'[c].task = t /\ cancel'[c].at = "notifying"
  <2>1. cancel[d].task \in Tasks
    BY <1>1 DEF TypeOK
  <2>2. CASE Cancellable(cancel[d].task)
    <3>1. /\ status' = [status EXCEPT ![cancel[d].task] = "cancelled"] /\ worker' = worker
          /\ ender' = [ender EXCEPT ![cancel[d].task] = "cancel"]
          /\ cancel' = [cancel EXCEPT ![d].at = "notifying"]
      BY <1>7, <2>2 DEF Cancel, Move, Terminal
    <3>2. cancel'[d].at = "notifying" /\ cancel'[d].task = cancel[d].task
      BY <1>1, <3>1 DEF TypeOK
    <3> QED
      BY <1>1, <2>1, <3>1, <3>2 DEF TypeOK
  <2>3. CASE ~Cancellable(cancel[d].task)
    BY <1>7, <2>3 DEF Cancel
  <2> QED
    BY <2>2, <2>3
<1>8. ASSUME \/ \E c \in Cancels : Notified(c) \/ Joined(c) \/ InterruptCancel(c)
             \/ \E w \in Waits : Await(w) \/ Answer(w)
             \/ Get \/ ListPage
      PROVE  ender' = ender /\ status' = status /\ worker' = worker
  BY <1>8 DEF Notified, Joined, InterruptCancel, Await, Answer, Get, ListPage
<1> DEFINE Enders ==
             \/ ender'[t] = ender[t] /\ (status'[t] \in Terminal => status[t] \in Terminal)
             \/ ender'[t] = "worker" /\ worker'[t] \in {"completed", "failed"}
             \/ ender'[t] = "application"
             \/ /\ ender'[t] = "cancel"
                /\ \E c \in Cancels : cancel'[c].task = t /\ cancel'[c].at = "notifying"
           Fibers ==
             /\ worker'[t] = "over" /\ t \in ToSet(tasks') =>
                  worker[t] = "over" \/ status[t] \in Terminal
             /\ worker[t] \in {"completed", "failed"} =>
                  worker'[t] = worker[t] \/ result'[t] # "pending"
<1>9. ASSUME NEW u \in Tasks, \/ Start(u) \/ Fork(u) \/ InterruptStart(u) \/ Expire(u)
                              \/ Report(u)
                              \/ \E o \in {"completed", "failed"} : Work(u, o)
                              \/ \E to \in TaskStatus : Transition(u, to)
      PROVE  Enders /\ Fibers
  <2>1. CASE Start(u)
    BY <1>2, <2>1
  <2>2. CASE Fork(u) \/ InterruptStart(u) \/ Expire(u)
    BY <1>3, <2>2
  <2>3. CASE Report(u)
    BY <1>5, <2>3
  <2>4. CASE \E o \in {"completed", "failed"} : Work(u, o)
    BY <1>4, <2>4
  <2>5. CASE \E to \in TaskStatus : Transition(u, to)
    BY <1>6, <2>5
  <2> QED
    BY <1>9, <2>1, <2>2, <2>3, <2>4, <2>5, Zenon
<1>10. ASSUME \E d \in Cancels : Cancel(d) PROVE Enders /\ Fibers
  <2>1. Enders
    BY <1>7, <1>10
  <2>2. Fibers
    BY <1>7, <1>10
  <2> QED
    BY <2>1, <2>2
<1>11. ASSUME \/ \E c \in Cancels : Notified(c) \/ Joined(c) \/ InterruptCancel(c)
              \/ \E w \in Waits : Await(w) \/ Answer(w)
              \/ Get \/ ListPage
       PROVE  Enders /\ Fibers
  <2>1. ender' = ender /\ status' = status /\ worker' = worker
    BY <1>8, <1>11
  <2> QED
    BY <2>1
<1> HIDE DEF Enders, Fibers
<1>12. Enders /\ Fibers
  <2>1. \/ \E u \in Tasks : \/ Start(u) \/ Fork(u) \/ InterruptStart(u) \/ Expire(u)
                            \/ Report(u)
                            \/ \E o \in {"completed", "failed"} : Work(u, o)
                            \/ \E to \in TaskStatus : Transition(u, to)
        \/ \E d \in Cancels : Cancel(d)
        \/ \E c \in Cancels : Notified(c) \/ Joined(c) \/ InterruptCancel(c)
        \/ \E w \in Waits : Await(w) \/ Answer(w)
        \/ Get \/ ListPage
    BY DEF Next
  <2>2. CASE \E u \in Tasks : \/ Start(u) \/ Fork(u) \/ InterruptStart(u) \/ Expire(u)
                              \/ Report(u)
                              \/ \E o \in {"completed", "failed"} : Work(u, o)
                              \/ \E to \in TaskStatus : Transition(u, to)
    BY <1>9, <2>2, Zenon
  <2>3. CASE \E d \in Cancels : Cancel(d)
    BY <1>10, <2>3
  <2>4. CASE \/ \E c \in Cancels : Notified(c) \/ Joined(c) \/ InterruptCancel(c)
             \/ \E w \in Waits : Await(w) \/ Answer(w)
             \/ Get \/ ListPage
    BY <1>11, <2>4
  <2> QED
    BY <2>1, <2>2, <2>3, <2>4
<1> QED
  BY <1>12 DEF Enders, Fibers

LEMMA SettlerInvStep == Inv /\ SettlerInv /\ [Next]_vars => SettlerInv'
<1>1. CASE UNCHANGED vars
  BY <1>1 DEF SettlerInv, vars
<1>2. ASSUME Inv, SettlerInv, Next PROVE SettlerInv'
  <2>0. TypeOK /\ StatusInv /\ CancelInv /\ PagingInv
    BY <1>2 DEF Inv
  <2>1. ASSUME NEW t \in Tasks PROVE status[t] # "none" => status'[t] # "none"
    BY <1>2, <2>0, TaskSteps DEF TaskStatus, Terminal
  <2>2. ASSUME NEW t \in Tasks PROVE worker[t] # "none" => worker'[t] # "none"
    <3>1. worker[t] # "none" => status[t] # "none"
      BY <2>0 DEF StatusInv
    <3> QED
      BY <1>2, <2>0, <2>1, <3>1, TaskSteps
  <2>3. ASSUME NEW t \in Tasks, status[t] \in Terminal PROVE status'[t] = status[t]
    BY <1>2, <2>0, <2>3, TaskSteps DEF Terminal
  <2>4. ASSUME NEW t \in Tasks, worker'[t] = "over", t \in ToSet(tasks')
        PROVE  status'[t] \in Terminal
    <3>1. worker[t] = "over" \/ status[t] \in Terminal
      BY <1>2, <2>4, EndersStep
    <3>2. CASE worker[t] = "over"
      <4>1. t \in Known
        BY <2>0, <3>2 DEF StatusInv, Known
      <4>2. t \in ToSet(tasks)
        <5>1. CASE tasks' \in {tasks, Cleaned}
          BY <2>0, <2>4, <5>1, CleanedType
        <5>2. CASE \E u \in Tasks \ Known : tasks' = Append(tasks, u)
          <6>1. PICK u \in Tasks \ Known : tasks' = Append(tasks, u)
            BY <5>2
          <6>2. tasks \in Seq(Known)
            BY <2>0 DEF TypeOK
          <6>3. \A i \in DOMAIN tasks' : (i \in DOMAIN tasks /\ tasks'[i] = tasks[i]) \/ tasks'[i] = u
            BY <6>1, <6>2
          <6> QED
            BY <2>4, <4>1, <6>1, <6>3 DEF ToSet
        <5> QED
          BY <1>2, <2>0, <5>1, <5>2, MapSteps
      <4> QED
        BY <1>2, <2>3, <3>2, <4>2 DEF SettlerInv
    <3> QED
      BY <2>3, <3>1, <3>2
  <2>5. ASSUME NEW t \in Tasks
        PROVE  /\ ender'[t] = "nobody" => status'[t] \notin Terminal
               /\ ender'[t] = "worker" /\ result'[t] = "pending" =>
                    worker'[t] \in {"completed", "failed"}
    <3>1. result'[t] = "pending" => result[t] = "pending"
      BY <1>2, <2>0, TaskSteps
    <3> QED
      BY <1>2, <3>1, EndersStep DEF SettlerInv
  <2>6. ASSUME NEW t \in Tasks, ender'[t] = "cancel", result'[t] = "pending"
        PROVE  \E c \in Cancels : /\ cancel'[c].task = t
                                  /\ cancel'[c].at \in {"notifying", "joining", "interrupted"}
    <3>1. result[t] = "pending"
      BY <1>2, <2>0, <2>6, TaskSteps
    <3>2. CASE ender[t] = "cancel"
      <4>1. PICK c \in Cancels : /\ cancel[c].task = t
                                 /\ cancel[c].at \in {"notifying", "joining", "interrupted"}
        BY <1>2, <3>1, <3>2 DEF SettlerInv
      <4>2. ~Settle(t, "cancelled")
        BY <2>0, <2>6 DEF Settle, TypeOK
      <4>3. cancel'[c].task = t
            /\ cancel'[c].at \in {"notifying", "joining", "interrupted", "refused"}
        BY <1>2, <2>0, <4>1, <4>2, CancelSteps
      <4>4. cancel'[c].at # "refused"
        BY <1>2, <4>1, CallersStep
      <4> QED
        BY <4>3, <4>4
    <3>3. CASE ender[t] # "cancel"
      <4>1. \E c \in Cancels : cancel'[c].task = t /\ cancel'[c].at = "notifying"
        BY <1>2, <2>6, <3>3, EndersStep
      <4> QED
        BY <4>1
    <3> QED
      BY <3>2, <3>3
  <2>7. ASSUME NEW c \in Cancels, cancel'[c].at = "joining"
        PROVE  worker'[cancel'[c].task] # "none"
    <3>1. cancel'[c].task = cancel[c].task /\ cancel[c].task \in Tasks
      BY <1>2, <2>0, CancelSteps
    <3>2. worker[cancel[c].task] # "none"
      BY <1>2, <2>7, CallersStep DEF SettlerInv
    <3> QED
      BY <2>2, <3>1, <3>2
  <2>8. ASSUME NEW w \in Waits, wait'[w].at = "waiting"
        PROVE  status'[wait'[w].task] # "none"
    <3>1. wait'[w].task = wait[w].task /\ wait[w].task \in Tasks
      BY <1>2, CallersStep
    <3>2. status[wait[w].task] # "none"
      BY <1>2, <2>8, CallersStep DEF SettlerInv
    <3> QED
      BY <2>1, <3>1, <3>2
  <2>9. \A t \in Tasks :
          /\ worker'[t] = "over" /\ t \in ToSet(tasks') => status'[t] \in Terminal
          /\ ender'[t] = "nobody" => status'[t] \notin Terminal
          /\ ender'[t] = "worker" /\ result'[t] = "pending" =>
               worker'[t] \in {"completed", "failed"}
    BY <2>4, <2>5, Zenon
  <2>10. /\ \A c \in Cancels : cancel'[c].at = "joining" => worker'[cancel'[c].task] # "none"
         /\ \A w \in Waits : wait'[w].at = "waiting" => status'[wait'[w].task] # "none"
    BY <2>7, <2>8, Zenon
  <2> QED
    BY <2>6, <2>9, <2>10 DEF SettlerInv
<1> QED
  BY <1>1, <1>2

\* The safety half of WaitersAreAnswered, for any tasks, cancels and waiters: while a call
\* of result waits, a step that brings the result nearer is enabled (the start call's, the
\* detached fiber's, a cancel's), or the task was forgotten in one of the ways named there.
THEOREM WaitersAreNotStuck == Spec => []WaitersGoOn
<1>1. Inv /\ SettlerInv => WaitersGoOn
  <2> SUFFICES ASSUME Inv, SettlerInv, NEW w \in Waits, wait[w].at = "waiting",
                      result[wait[w].task] = "pending", ~Forgotten(wait[w].task)
               PROVE  ResultGoesOn(wait[w].task)
    BY DEF WaitersGoOn, ResultGoesOn
  <2> DEFINE t == wait[w].task
  <2>1. TypeOK /\ StatusInv /\ t \in Tasks
    BY DEF Inv, TypeOK
  <2> HIDE DEF t
  <2>2. /\ t \in ToSet(tasks) /\ starter[t] # "interrupted" /\ ender[t] # "application"
        /\ \A c \in Cancels : ~(cancel[c].at = "interrupted" /\ cancel[c].task = t)
    BY DEF Forgotten, t
  <2>3. status[t] # "none" /\ result[t] = "pending"
    BY DEF SettlerInv, t
  <2>4. starter[t] \in {"notifying", "started"}
    BY <2>1, <2>2, <2>3 DEF TypeOK, StatusInv
  <2>5. starter[t] = "started" => worker[t] \in {"running", "completed", "failed", "over"}
    BY <2>1 DEF TypeOK, StatusInv
  <2>6. CASE worker[t] = "over"
    <3>1. status[t] \in Terminal
      BY <2>1, <2>2, <2>6 DEF SettlerInv
    <3>2. ender[t] = "cancel"
      BY <2>1, <2>2, <2>3, <2>6, <3>1 DEF SettlerInv, TypeOK
    <3>3. PICK c \in Cancels : /\ cancel[c].task = t
                               /\ cancel[c].at \in {"notifying", "joining", "interrupted"}
      BY <2>1, <2>3, <3>2 DEF SettlerInv
    <3> QED
      BY <2>2, <2>6, <3>3 DEF ResultGoesOn, t
  <2> QED
    BY <2>4, <2>5, <2>6 DEF ResultGoesOn, t
<1>2. Inv /\ SettlerInv /\ [Next]_vars => SettlerInv'
  BY SettlerInvStep
<1> QED
  BY <1>1, <1>2, SettlerInvInit, Invariance, PTL DEF Spec

-----------------------------------------------------------------------------
(* The subscriptions of the stdio server.                                  *)

\* A frame of the subscription has reached the wire.
Said(s, frame) == \E j \in DOMAIN wire[s] : wire[s][j] = frame

\* A request in the loop's hands was served by a run in good order; it has not been
\* acknowledged nor, before it is opened, been in the registry, and as long as the scope
\* is open no sink belongs to its id.
ListenInv ==
  loop # LoopIdle =>
    /\ run = "running"
    /\ loop.sub \in served /\ ~Said(loop.sub, "ack")
    /\ loop.at = "registering" =>
         /\ loop.sub \notin Elements(registry)
         /\ scope = "open" =>
              /\ holder[idOf[loop.sub]] = "listening"
              /\ \A s \in Elements(registry) : idOf[s] # idOf[loop.sub]

\* As long as the run goes on, a subscription in the registry has been acknowledged,
\* or is the one the loop is about to acknowledge.
AckedInv ==
  /\ \A s \in Subs : Said(s, "ack") => s \in served
  /\ \A s \in Elements(registry) : s \in served
  /\ run = "running" =>
       \A s \in Elements(registry) :
         Said(s, "ack") \/ (loop.at = "acknowledging" /\ loop.sub = s)

\* Only the end of the input completes subscriptions, and those it still has to
\* complete are acknowledged and have not been completed.
CompletedInv ==
  /\ \A s \in Subs : Said(s, "complete") => run \in {"closing", "ended"}
  /\ \A s \in completing :
       run = "closing" /\ Said(s, "ack") /\ ~Said(s, "complete")

StdioInv == StdioTypeOK /\ ListenInv /\ AckedInv /\ CompletedInv /\ SinksAreOwned
            /\ AcknowledgedThenCompleted

LEMMA RegistryKept ==
  ASSUME StdioTypeOK, NEW gone
  PROVE  /\ Kept(registry, gone) \in Seq(Subs)
         /\ \A j, k \in DOMAIN Kept(registry, gone) :
              Kept(registry, gone)[j] = Kept(registry, gone)[k] => j = k
         /\ Elements(Kept(registry, gone)) = Elements(registry) \ gone
<1> DEFINE q == Kept(registry, gone)
<1>1. q = Kept(registry, gone)
  OBVIOUS
<1>2. registry \in Seq(Subs) /\ IsInjective(registry)
  BY DEF StdioTypeOK, IsInjective
<1> HIDE DEF q
<1>3. q \in Seq(Subs) /\ IsInjective(q) /\ ToSet(q) = ToSet(registry) \ gone
  BY <1>1, <1>2, KeptMap, Zenon
<1>4. \A j, k \in DOMAIN q : q[j] = q[k] => j = k
  BY <1>3 DEF IsInjective
<1>5. Elements(q) = Elements(registry) \ gone
  BY <1>3, Zenon DEF ToSet, Elements
<1> QED
  BY <1>3, <1>4, <1>5, Zenon DEF q

LEMMA RegistryShrinks ==
  ASSUME StdioTypeOK, NEW gone, registry' = Kept(registry, gone)
  PROVE  /\ registry' \in Seq(Subs)
         /\ \A j, k \in DOMAIN registry' : registry'[j] = registry'[k] => j = k
         /\ Elements(registry)' = Elements(registry) \ gone
<1>1. Elements(registry)' = Elements(Kept(registry, gone))
  BY DEF Elements
<1> QED
  BY <1>1, RegistryKept

\* What writing a frame adds to the wire.
LEMMA PutAdds ==
  ASSUME StdioTypeOK, NEW s \in Subs, NEW f \in Frames, Put(s, f)
  PROVE  /\ wire' \in [Subs -> Seq(Frames)]
         /\ \A t \in Subs : t # s => wire'[t] = wire[t]
         /\ DOMAIN wire[s] = 1..Len(wire[s]) /\ Len(wire[s]) \in Nat
         /\ DOMAIN wire'[s] = 1..(Len(wire[s]) + 1)
         /\ \A j \in DOMAIN wire[s] : wire'[s][j] = wire[s][j]
         /\ wire'[s][Len(wire[s]) + 1] = f
<1>1. wire[s] \in Seq(Frames) /\ wire' = [wire EXCEPT ![s] = Append(wire[s], f)]
  BY DEF StdioTypeOK, Put
<1>2. Append(wire[s], f) \in Seq(Frames)
  BY <1>1
<1>3. wire' \in [Subs -> Seq(Frames)] /\ wire'[s] = Append(wire[s], f)
      /\ \A t \in Subs : t # s => wire'[t] = wire[t]
  BY <1>1, <1>2 DEF StdioTypeOK
<1> QED
  BY <1>1, <1>3

LEMMA PutSays ==
  ASSUME StdioTypeOK, NEW s \in Subs, NEW f \in Frames, Put(s, f)
  PROVE  \A t \in Subs : \A g \in Frames : Said(t, g)' <=> Said(t, g) \/ (t = s /\ g = f)
<1> SUFFICES ASSUME NEW t \in Subs, NEW g \in Frames
             PROVE  Said(t, g)' <=> Said(t, g) \/ (t = s /\ g = f)
  OBVIOUS
<1>1. CASE t # s
  BY <1>1, PutAdds DEF Said
<1>2. CASE t = s
  <2> DEFINE n == Len(wire[s])
  <2>1. /\ DOMAIN wire[s] = 1..n /\ n \in Nat /\ DOMAIN wire'[s] = 1..(n + 1)
        /\ \A j \in 1..n : wire'[s][j] = wire[s][j]
        /\ wire'[s][n + 1] = f
    BY PutAdds
  <2> HIDE DEF n
  <2>2. \A j \in 1..(n + 1) : j \in 1..n \/ j = n + 1
    BY <2>1
  <2>3. 1..n \subseteq 1..(n + 1) /\ n + 1 \in 1..(n + 1)
    BY <2>1
  <2>4. Said(s, g)' <=> Said(s, g) \/ g = f
    BY <2>1, <2>2, <2>3, Zenon DEF Said
  <2> QED
    BY <1>2, <2>4, Zenon
<1> QED
  BY <1>1, <1>2

\* Writing keeps the order of acknowledgement and completion, if each comes when it may.
LEMMA PutInOrder ==
  ASSUME StdioTypeOK, AcknowledgedThenCompleted, NEW s \in Subs, NEW f \in Frames,
     Put(s, f),
         run' = run,
         f = "ack" => ~Said(s, "ack") /\ ~Said(s, "complete"),
         f = "complete" => Said(s, "ack") /\ ~Said(s, "complete")
                           /\ run \in {"closing", "ended"}
  PROVE  AcknowledgedThenCompleted'
<1> DEFINE n == Len(wire[s])
           w == wire[s]
           v == wire'[s]
<1>1. /\ DOMAIN w = 1..n /\ n \in Nat /\ DOMAIN v = 1..(n + 1)
      /\ \A j \in 1..n : v[j] = w[j]
      /\ v[n + 1] = f /\ \A t \in Subs : t # s => wire'[t] = wire[t]
  BY PutAdds
<1>2. \A j, k \in 1..n :
        /\ w[j] = w[k] /\ w[j] # "note" => j = k
        /\ w[k] = "complete" => \E i \in 1..k : w[i] = "ack"
        /\ w[j] = "ack" /\ w[k] = "complete" => j < k
        /\ w[k] = "complete" => run \in {"closing", "ended"}
  BY <1>1 DEF AcknowledgedThenCompleted
<1>3. /\ f = "ack" => \A j \in 1..n : w[j] # "ack" /\ w[j] # "complete"
      /\ f = "complete" => /\ \E i \in 1..n : w[i] = "ack"
                           /\ \A j \in 1..n : w[j] # "complete"
  BY <1>1 DEF Said
<1>4. f \in {"note", "ack", "complete"}
  BY DEF Frames
<1> HIDE DEF w, v, n
<1>5. \A j \in 1..(n + 1) : (j \in 1..n /\ j < n + 1) \/ j = n + 1
  BY <1>1
<1>6. ASSUME NEW j \in 1..(n + 1), NEW k \in 1..(n + 1)
      PROVE  /\ v[j] = v[k] /\ v[j] # "note" => j = k
             /\ v[k] = "complete" => \E i \in 1..k : v[i] = "ack"
             /\ v[j] = "ack" /\ v[k] = "complete" => j < k
             /\ v[k] = "complete" => run \in {"closing", "ended"}
  <2>1. CASE k \in 1..n
    <3>1. v[k] = w[k] /\ \A i \in 1..k : i \in 1..n
      BY <1>1, <2>1
    <3>2. v[k] = "complete" => \E i \in 1..k : v[i] = "ack"
      BY <1>1, <1>2, <2>1, <3>1
    <3>3. v[k] = "complete" => run \in {"closing", "ended"}
      BY <1>2, <2>1, <3>1
    <3>4. CASE j \in 1..n
      BY <1>1, <1>2, <2>1, <3>1, <3>2, <3>3, <3>4
    <3>5. CASE j = n + 1
      BY <1>1, <1>2, <1>3, <1>4, <2>1, <3>1, <3>2, <3>3, <3>5
    <3> QED
      BY <1>5, <3>4, <3>5
  <2>2. CASE k = n + 1
    <3>1. v[k] = f
      BY <1>1, <2>2
    <3>2. v[k] = "complete" => \E i \in 1..k : v[i] = "ack"
      <4> SUFFICES ASSUME f = "complete" PROVE \E i \in 1..k : v[i] = "ack"
        BY <3>1
      <4>1. PICK i \in 1..n : w[i] = "ack"
        BY <1>3
      <4>2. i \in 1..k /\ v[i] = "ack"
        BY <1>1, <2>2, <4>1
      <4> QED
        BY <4>2
    <3>3. v[k] = "complete" => run \in {"closing", "ended"}
      BY <3>1
    <3>4. CASE j \in 1..n
      BY <1>1, <1>3, <1>4, <1>5, <2>2, <3>1, <3>2, <3>3, <3>4
    <3>5. CASE j = n + 1
      BY <2>2, <3>1, <3>2, <3>3, <3>5
    <3> QED
      BY <1>5, <3>4, <3>5
  <2> QED
    BY <1>5, <2>1, <2>2
<1>7. ASSUME NEW t \in Subs, NEW j \in DOMAIN wire'[t], NEW k \in DOMAIN wire'[t]
      PROVE  /\ wire'[t][j] = wire'[t][k] /\ wire'[t][j] # "note" => j = k
             /\ wire'[t][k] = "complete" => \E i \in 1..k : wire'[t][i] = "ack"
             /\ wire'[t][j] = "ack" /\ wire'[t][k] = "complete" => j < k
             /\ wire'[t][k] = "complete" => run' \in {"closing", "ended"}
  <2>1. CASE t = s
    <3>1. wire'[t] = v /\ j \in 1..(n + 1) /\ k \in 1..(n + 1)
      BY <1>1, <1>7, <2>1, Zenon DEF v
    <3>2. /\ v[j] = v[k] /\ v[j] # "note" => j = k
          /\ v[k] = "complete" => \E i \in 1..k : v[i] = "ack"
          /\ v[j] = "ack" /\ v[k] = "complete" => j < k
          /\ v[k] = "complete" => run \in {"closing", "ended"}
      <4> HIDE DEF v, n
      <4> QED
        BY <1>6, <3>1
    <3> QED
      BY <3>1, <3>2
  <2>2. CASE t # s
    <3>1. wire'[t] = wire[t]
      BY <1>1, <2>2
    <3>2. j \in DOMAIN wire[t] /\ k \in DOMAIN wire[t]
      BY <1>7, <3>1
    <3>3. /\ wire[t][j] = wire[t][k] /\ wire[t][j] # "note" => j = k
          /\ wire[t][k] = "complete" => \E i \in 1..k : wire[t][i] = "ack"
          /\ wire[t][j] = "ack" /\ wire[t][k] = "complete" => j < k
          /\ wire[t][k] = "complete" => run \in {"closing", "ended"}
      <4>1. \A l, m \in DOMAIN wire[t] :
              /\ wire[t][l] = wire[t][m] /\ wire[t][l] # "note" => l = m
              /\ wire[t][m] = "complete" => \E i \in 1..m : wire[t][i] = "ack"
              /\ wire[t][l] = "ack" /\ wire[t][m] = "complete" => l < m
              /\ wire[t][m] = "complete" => run \in {"closing", "ended"}
        BY ZenonT(30) DEF AcknowledgedThenCompleted
      <4> QED
        BY <3>2, <4>1, ZenonT(30)
    <3>4. wire'[t][k] = "complete" => \E i \in 1..k : wire'[t][i] = "ack"
      BY <3>1, <3>3, Zenon
    <3>5. wire'[t][k] = "complete" => run' \in {"closing", "ended"}
      BY <3>1, <3>3, Zenon
    <3>6. wire'[t][j] = wire'[t][k] /\ wire'[t][j] # "note" => j = k
      BY <3>1, <3>3, Zenon
    <3>7. wire'[t][j] = "ack" /\ wire'[t][k] = "complete" => j < k
      BY <3>1, <3>3, Zenon
    <3> QED
      BY <3>4, <3>5, <3>6, <3>7, Zenon
  <2> QED
    BY <2>1, <2>2
<1> QED
  BY <1>7, Zenon DEF AcknowledgedThenCompleted

\* A step that writes nothing keeps what has been written in order.
LEMMA SilentOrder ==
  ASSUME AcknowledgedThenCompleted, wire' = wire, CompletedInv'
  PROVE  AcknowledgedThenCompleted'
<1> SUFFICES ASSUME NEW s \in Subs, NEW k \in DOMAIN wire[s], wire[s][k] = "complete"
             PROVE  run' \in {"closing", "ended"}
  BY DEF AcknowledgedThenCompleted
<1>1. Said(s, "complete")'
  BY Zenon DEF Said
<1> QED
  BY <1>1 DEF CompletedInv

\* The registry and the wire stay as they are, and so does how the run stands.
Quiet == /\ wire' = wire /\ run' = run /\ scope' = scope /\ completing' = completing
         /\ idOf' = idOf /\ registry' = registry /\ late' = late

LEMMA QuietStep ==
  ASSUME StdioInv, Quiet, served \subseteq served'
  PROVE  /\ \A s \in Subs : \A f : Said(s, f)' <=> Said(s, f)
         /\ CompletedInv' /\ AcknowledgedThenCompleted'
         /\ Elements(registry)' = Elements(registry)
         /\ \A s \in Subs : Said(s, "ack") => s \in served'
<1>1. \A s \in Subs : \A f : Said(s, f)' <=> Said(s, f)
  BY DEF Quiet, Said
<1>2. CompletedInv'
  BY <1>1 DEF Quiet, CompletedInv, StdioInv, StdioTypeOK
<1>3. AcknowledgedThenCompleted'
  BY <1>2, SilentOrder DEF Quiet, StdioInv
<1>4. \A s \in Subs : Said(s, "ack") => s \in served'
  BY DEF StdioInv, AckedInv
<1> QED
  BY <1>1, <1>2, <1>3, <1>4 DEF Quiet, Elements

LEMMA SinksInSubs ==
  ASSUME StdioTypeOK
  PROVE  Elements(registry) \subseteq Subs
BY DEF StdioTypeOK, Elements

\* What the loop, the registry and the ids know is as true as before when none of them
\* changes and the subscriptions have been acknowledged as before.
LEMMA StillTrue ==
  ASSUME StdioInv, loop' = loop, closers' = closers, served' = served, holder' = holder,
         idOf' = idOf, run' = run, scope' = scope, late' = late,
         \A r \in Subs : Said(r, "ack")' <=> Said(r, "ack"),
         Elements(registry)' = Elements(registry)
  PROVE  ListenInv' /\ AckedInv' /\ SinksAreOwned'
<1>1. ListenInv'
  BY DEF StdioInv, ListenInv, StdioTypeOK, LoopIdle
<1>2. AckedInv'
  BY SinksInSubs DEF StdioInv, AckedInv
<1>3. SinksAreOwned'
  BY DEF StdioInv, SinksAreOwned
<1> QED
  BY <1>1, <1>2, <1>3

LEMMA AcceptListenStep ==
  ASSUME StdioInv, NEW s \in Subs, AcceptListen(s)
  PROVE  StdioInv'
<1>1. StdioTypeOK'
  BY DEF StdioInv, StdioTypeOK, AcceptListen, publishVars, endVars
<1>2. Quiet /\ served' = served \cup {s} /\ closers' = closers
  BY DEF AcceptListen, Quiet, publishVars, endVars
<1>3. /\ \A r \in Subs : \A f : Said(r, f)' <=> Said(r, f)
      /\ CompletedInv' /\ AcknowledgedThenCompleted'
      /\ Elements(registry)' = Elements(registry)
      /\ \A r \in Subs : Said(r, "ack") => r \in served'
  BY <1>2, QuietStep, Zenon
<1>4. /\ loop = LoopIdle /\ run = "running"
      /\ loop'.at = "registering" /\ loop'.sub = s
      /\ s \notin served /\ holder[idOf[s]] = "free"
      /\ scope = "open" => holder' = [holder EXCEPT ![idOf[s]] = "listening"]
  BY DEF AcceptListen, LoopReady, AcceptsId
<1>5. /\ idOf[s] \in Ids /\ \A r \in Subs : idOf[r] \in Ids
      /\ scope = "open" => /\ holder'[idOf[s]] = "listening"
                           /\ \A i \in Ids : i # idOf[s] => holder'[i] = holder[i]
  BY <1>4 DEF StdioInv, StdioTypeOK
<1>6. \A r \in Elements(registry) :
        r \in Subs /\ r # s /\ (scope = "open" => idOf[r] # idOf[s])
  BY <1>4, SinksInSubs DEF StdioInv, SinksAreOwned, AckedInv
<1>7. ListenInv'
  BY <1>2, <1>3, <1>4, <1>5, <1>6 DEF ListenInv, Quiet, StdioInv, AckedInv
<1>8. AckedInv'
  <2>1. \A r \in Elements(registry) : Said(r, "ack")
    BY <1>4 DEF StdioInv, AckedInv, LoopIdle
  <2> QED
    BY <1>2, <1>3, <1>6, <2>1 DEF AckedInv, StdioInv
<1>9. SinksAreOwned'
  <2> SUFFICES ASSUME NEW r \in Elements(registry)
               PROVE  /\ closers[idOf[r]] = r \/ \E x \in late : idOf[x] = idOf[r]
                      /\ scope = "open" => /\ closers[idOf[r]] = r
                                           /\ holder'[idOf[r]] = "listening"
                      /\ scope \notin {"open", "closing"} =>
                           \E x \in late : idOf[x] = idOf[r]
    BY <1>2, <1>3 DEF SinksAreOwned, Quiet
  <2>1. scope = "open" => holder'[idOf[r]] = holder[idOf[r]]
    BY <1>5, <1>6
  <2> QED
    BY <2>1 DEF StdioInv, SinksAreOwned
<1> QED
  BY <1>1, <1>3, <1>7, <1>8, <1>9 DEF StdioInv

LEMMA RefuseListenStep ==
  ASSUME StdioInv, NEW s \in Subs, RefuseListen(s)
  PROVE  StdioInv'
<1>1. StdioTypeOK'
  BY DEF StdioInv, StdioTypeOK, RefuseListen, publishVars, endVars
<1>2. /\ Quiet /\ served' = served \cup {s} /\ closers' = closers /\ holder' = holder
      /\ loop' = loop /\ loop = LoopIdle
  BY DEF RefuseListen, Quiet, publishVars, endVars, LoopReady
<1>3. /\ \A r \in Subs : \A f : Said(r, f)' <=> Said(r, f)
      /\ CompletedInv' /\ AcknowledgedThenCompleted'
      /\ Elements(registry)' = Elements(registry)
      /\ \A r \in Subs : Said(r, "ack") => r \in served'
  BY <1>2, QuietStep, Zenon
<1>4. ListenInv'
  BY <1>2 DEF ListenInv, LoopIdle
<1>5. AckedInv'
  BY <1>2, <1>3, SinksInSubs DEF StdioInv, AckedInv, Quiet
<1>6. SinksAreOwned'
  BY <1>2, <1>3 DEF StdioInv, SinksAreOwned, Quiet
<1> QED
  BY <1>1, <1>3, <1>4, <1>5, <1>6 DEF StdioInv

LEMMA OpenStep ==
  ASSUME StdioInv, OpenSubscription
  PROVE  StdioInv'
<1> DEFINE s == loop.sub
<1>1. /\ loop # LoopIdle /\ loop.at = "registering" /\ s \in Subs /\ s \in served
      /\ run = "running" /\ (scope = "open" => holder[idOf[s]] = "listening")
      /\ \A r \in Elements(registry) :
           r \in Subs /\ r # s /\ (scope = "open" => idOf[r] # idOf[s])
  BY SinksInSubs DEF OpenSubscription, StdioInv, StdioTypeOK, ListenInv, LoopIdle
<1>2. /\ registry' = Append(registry, s)
      /\ closers' = [closers EXCEPT ![idOf[s]] = s]
      /\ loop' = [at |-> "acknowledging", sub |-> s]
      /\ idOf' = idOf /\ served' = served /\ holder' = holder /\ wire' = wire
      /\ todo' = todo /\ published' = published
      /\ completing' = completing /\ failing' = failing /\ run' = run /\ scope' = scope
      /\ late' = IF scope = "open" THEN late ELSE late \cup {s}
  BY <1>1 DEF OpenSubscription, publishVars, endVars, StdioInv, StdioTypeOK, LoopIdle
<1>3. registry' \in Seq(Subs) /\ Elements(registry)' = Elements(registry) \cup {s}
  <2>1. registry \in Seq(Subs)
    BY DEF StdioInv, StdioTypeOK
  <2>2. /\ registry' \in Seq(Subs) /\ DOMAIN registry' = 1..(Len(registry) + 1)
        /\ DOMAIN registry = 1..Len(registry) /\ Len(registry) \in Nat
        /\ \A j \in 1..Len(registry) : registry'[j] = registry[j]
        /\ registry'[Len(registry) + 1] = s
    BY <1>1, <1>2, <2>1
  <2> QED
    BY <2>2 DEF Elements
<1>4. \A j, k \in DOMAIN registry' : registry'[j] = registry'[k] => j = k
  <2>1. registry \in Seq(Subs) /\ \A j,
          k \in DOMAIN registry : registry[j] = registry[k] => j = k
    BY DEF StdioInv, StdioTypeOK
  <2>2. \A j \in DOMAIN registry : registry[j] # s
    BY <1>1 DEF Elements
  <2> QED
    BY <1>1, <1>2, <2>1, <2>2
<1>5. StdioTypeOK'
  <2>1. closers' \in [Ids -> Subs \cup {NoSub}]
    BY <1>1, <1>2 DEF StdioInv, StdioTypeOK
  <2>2. loop' \in [at : {"registering", "acknowledging"}, sub : Subs]
    BY <1>1, <1>2
  <2> QED
    BY <1>2, <1>3, <1>4, <2>1, <2>2 DEF StdioInv, StdioTypeOK
<1>6. \A r \in Subs : \A f : Said(r, f)' <=> Said(r, f)
  BY <1>2 DEF Said
<1>7. CompletedInv'
  BY <1>2, <1>6 DEF StdioInv, CompletedInv, StdioTypeOK
<1>8. AcknowledgedThenCompleted'
  BY <1>2, <1>7, SilentOrder DEF StdioInv
<1>9. ListenInv'
  BY <1>1, <1>2, <1>6 DEF StdioInv, ListenInv
<1>10. AckedInv'
  BY <1>1, <1>2, <1>3, <1>6 DEF StdioInv, AckedInv
<1>11. SinksAreOwned'
  <2>1. /\ closers'[idOf[s]] = s
        /\ \A r \in Elements(registry) :
             idOf[r] # idOf[s] => closers'[idOf[r]] = closers[idOf[r]]
    BY <1>1, <1>2 DEF StdioInv, StdioTypeOK
  <2>2. late \subseteq late' /\ (scope # "open" => s \in late')
    BY <1>2
  <2> SUFFICES ASSUME NEW r \in Elements(registry) \cup {s}
               PROVE  /\ closers'[idOf[r]] = r \/ \E x \in late' : idOf[x] = idOf[r]
                      /\ scope = "open" => /\ closers'[idOf[r]] = r
                                           /\ holder[idOf[r]] = "listening"
                      /\ scope \notin {"open", "closing"} =>
                           \E x \in late' : idOf[x] = idOf[r]
    BY <1>2, <1>3 DEF SinksAreOwned
  <2>3. CASE r = s
    BY <1>1, <2>1, <2>2, <2>3
  <2>4. CASE r # s /\ idOf[r] = idOf[s]
    BY <1>1, <2>2, <2>4
  <2>5. CASE idOf[r] # idOf[s]
    <3>1. r \in Elements(registry) /\ closers'[idOf[r]] = closers[idOf[r]]
      BY <2>1, <2>5
    <3> QED
      BY <2>2, <3>1 DEF StdioInv, SinksAreOwned
  <2> QED
    BY <2>3, <2>4, <2>5
<1> QED
  BY <1>5, <1>7, <1>8, <1>9, <1>10, <1>11 DEF StdioInv

\* A loop with a request in its hands runs before anything has been completed.
LEMMA NoneCompleted ==
  ASSUME StdioInv, run = "running"
  PROVE  completing = {} /\ \A s \in Subs : ~Said(s, "complete")
BY DEF StdioInv, CompletedInv

LEMMA AcknowledgeStep ==
  ASSUME StdioInv, Acknowledge
  PROVE  StdioInv'
<1> DEFINE s == loop.sub
<1>1. /\ loop # LoopIdle /\ s \in Subs /\ s \in served /\ ~Said(s, "ack")
      /\ run = "running"
  BY DEF Acknowledge, StdioInv, StdioTypeOK, ListenInv, LoopIdle
<1>2. /\ Put(s, "ack") /\ loop' = LoopIdle /\ registry' = registry /\ closers' = closers
      /\ idOf' = idOf /\ served' = served /\ holder' = holder
      /\ todo' = todo /\ published' = published
      /\ completing' = completing /\ failing' = failing /\ run' = run /\ scope' = scope
      /\ late' = late
  BY DEF Acknowledge, publishVars, endVars
<1>3. "ack" \in Frames /\ "complete" \in Frames
  BY DEF Frames
<1>4. wire' \in [Subs -> Seq(Frames)]
  BY <1>1, <1>2, <1>3, PutAdds DEF StdioInv
<1>5. /\ \A t \in Subs : Said(t, "ack")' <=> Said(t, "ack") \/ t = s
      /\ \A t \in Subs : Said(t, "complete")' <=> Said(t, "complete")
  BY <1>1, <1>2, <1>3, PutSays DEF StdioInv
<1>6. StdioTypeOK'
  BY <1>2, <1>4 DEF StdioInv, StdioTypeOK
<1>7. CompletedInv'
  BY <1>1, <1>2, <1>5, NoneCompleted DEF CompletedInv
<1>8. AcknowledgedThenCompleted'
  BY <1>1, <1>2, <1>3, NoneCompleted, PutInOrder DEF StdioInv
<1>9. ListenInv'
  BY <1>2 DEF ListenInv
<1>10. Elements(registry)' = Elements(registry)
  BY <1>2 DEF Elements
<1>11. AckedInv'
  <2>1. \A r \in Subs : Said(r, "ack")' => r \in served'
    BY <1>1, <1>2, <1>5 DEF StdioInv, AckedInv
  <2>2. \A r \in Elements(registry) : Said(r, "ack")'
    BY <1>1, <1>5, SinksInSubs DEF StdioInv, AckedInv
  <2> QED
    BY <1>2, <1>10, <2>1, <2>2 DEF AckedInv, StdioInv
<1>12. SinksAreOwned'
  BY <1>2, <1>10 DEF StdioInv, SinksAreOwned
<1> QED
  BY <1>6, <1>7, <1>8, <1>9, <1>11, <1>12 DEF StdioInv

LEMMA CancelListenStep ==
  ASSUME StdioInv, NEW i \in Ids, CancelListen(i)
  PROVE  StdioInv'
<1>1. /\ loop = LoopIdle /\ loop' = loop /\ run = "running"
      /\ registry' = Kept(registry, {closers[i]})
      /\ closers' = [closers EXCEPT ![i] = NoSub]
      /\ holder' =
           [holder EXCEPT ![i] =
              IF holder[i] = "listening" THEN "releasing" ELSE holder[i]]
      /\ idOf' = idOf /\ served' = served /\ wire' = wire
      /\ todo' = todo /\ published' = published
      /\ completing' = completing /\ failing' = failing /\ run' = run /\ scope' = scope
      /\ late' = late
  BY DEF CancelListen, LoopReady, publishVars, endVars
<1>2. /\ registry' \in Seq(Subs)
      /\ \A j, k \in DOMAIN registry' : registry'[j] = registry'[k] => j = k
      /\ Elements(registry)' = Elements(registry) \ {closers[i]}
  BY <1>1, RegistryShrinks DEF StdioInv
<1>3. closers' \in [Ids -> Subs \cup {NoSub}]
  BY <1>1 DEF StdioInv, StdioTypeOK
<1>4. holder' \in [Ids -> {"free", "listening", "releasing", "orphaned"}]
  BY <1>1 DEF StdioInv, StdioTypeOK
<1>5. StdioTypeOK'
  BY <1>1, <1>2, <1>3, <1>4 DEF StdioInv, StdioTypeOK
<1>6. \A r \in Subs : \A f : Said(r, f)' <=> Said(r, f)
  BY <1>1 DEF Said
<1>7. CompletedInv'
  BY <1>1, <1>6 DEF StdioInv, CompletedInv, StdioTypeOK
<1>8. AcknowledgedThenCompleted'
  BY <1>1, <1>7, SilentOrder DEF StdioInv
<1>9. ListenInv'
  BY <1>1 DEF ListenInv, LoopIdle
<1>10. AckedInv'
  BY <1>1, <1>2, <1>6, SinksInSubs DEF StdioInv, AckedInv
<1>11. ASSUME NEW r \in Elements(registry), r # closers[i]
       PROVE  /\ closers'[idOf[r]] = r \/ \E x \in late : idOf[x] = idOf[r]
              /\ scope = "open" => closers'[idOf[r]] = r /\ holder'[idOf[r]] = "listening"
              /\ scope \notin {"open", "closing"} => \E x \in late : idOf[x] = idOf[r]
  <2>1. r \in Subs /\ idOf[r] \in Ids
    BY SinksInSubs DEF StdioInv, StdioTypeOK
  <2>2. /\ closers[idOf[r]] = r \/ \E x \in late : idOf[x] = idOf[r]
        /\ scope = "open" => closers[idOf[r]] = r /\ holder[idOf[r]] = "listening"
        /\ scope \notin {"open", "closing"} => \E x \in late : idOf[x] = idOf[r]
    BY DEF StdioInv, SinksAreOwned
  <2>3. CASE idOf[r] = i
    BY <1>11, <2>2, <2>3
  <2>4. CASE idOf[r] # i
    <3>1. closers'[idOf[r]] = closers[idOf[r]] /\ holder'[idOf[r]] = holder[idOf[r]]
      BY <1>1, <2>1, <2>4 DEF StdioInv, StdioTypeOK
    <3> QED
      BY <2>2, <3>1
  <2> QED
    BY <2>3, <2>4
<1>12. /\ idOf' = idOf /\ late' = late /\ scope' = scope
       /\ Elements(registry)' = Elements(registry) \ {closers[i]}
  BY <1>1, <1>2
<1>13. SinksAreOwned'
  BY <1>11, <1>12 DEF SinksAreOwned
<1> QED
  BY <1>5, <1>7, <1>8, <1>9, <1>10, <1>13 DEF StdioInv

LEMMA ReleaseIdStep ==
  ASSUME StdioInv, NEW i \in Ids, ReleaseId(i)
  PROVE  StdioInv'
<1>1. /\ Quiet /\ loop' = loop /\ closers' = closers /\ served' = served
      /\ holder[i] = "releasing" \/ scope = "closing"
      /\ holder' = [holder EXCEPT ![i] = "free"]
  BY DEF ReleaseId, Quiet, publishVars, endVars
<1>2. StdioTypeOK'
  BY DEF StdioInv, StdioTypeOK, ReleaseId, publishVars, endVars
<1>3. /\ \A r \in Subs : \A f : Said(r, f)' <=> Said(r, f)
      /\ CompletedInv' /\ AcknowledgedThenCompleted'
      /\ Elements(registry)' = Elements(registry)
  BY <1>1, QuietStep, Zenon
<1>4. scope = "open" => \A k \in Ids : holder[k] = "listening" => holder'[k] = "listening"
  BY <1>1 DEF StdioInv, StdioTypeOK
<1>5. ListenInv'
  BY <1>1, <1>3, <1>4 DEF StdioInv, ListenInv, Quiet, StdioTypeOK, LoopIdle
<1>6. AckedInv'
  BY <1>1, <1>3, SinksInSubs DEF StdioInv, AckedInv, Quiet
<1>7. SinksAreOwned'
  BY <1>1, <1>3, <1>4, SinksInSubs DEF StdioInv, SinksAreOwned, Quiet, StdioTypeOK
<1> QED
  BY <1>2, <1>3, <1>5, <1>6, <1>7 DEF StdioInv

LEMMA BeginPublishStep ==
  ASSUME StdioInv, NEW p \in Publishers, BeginPublish(p)
  PROVE  StdioInv'
<1>1. /\ Quiet /\ loop' = loop /\ closers' = closers /\ served' = served
         /\ holder' = holder
  BY DEF BeginPublish, Quiet, endVars
<1>2. StdioTypeOK'
  BY DEF StdioInv, StdioTypeOK, BeginPublish, endVars
<1>3. /\ \A r \in Subs : \A f : Said(r, f)' <=> Said(r, f)
      /\ CompletedInv' /\ AcknowledgedThenCompleted'
      /\ Elements(registry)' = Elements(registry)
  BY <1>1, QuietStep, Zenon
<1>4. ListenInv' /\ AckedInv' /\ SinksAreOwned'
  BY <1>1, <1>3, StillTrue DEF StdioInv, Quiet
<1> QED
  BY <1>2, <1>3, <1>4 DEF StdioInv

LEMMA NoteFailsStep ==
  ASSUME StdioInv, NEW p \in Publishers, NoteFails(p)
  PROVE  StdioInv'
<1>1. /\ Quiet /\ loop' = loop /\ closers' = closers /\ served' = served
         /\ holder' = holder
      /\ failing' = TRUE /\ todo' = [todo EXCEPT ![p] = Tail(todo[p])] /\ todo[p] # <<>>
      /\ published' = published
  BY DEF NoteFails, Quiet
<1>2. StdioTypeOK'
  <2>1. Tail(todo[p]) \in Seq(Subs)
    BY <1>1 DEF StdioInv, StdioTypeOK
  <2>2. todo' \in [Publishers -> Seq(Subs)]
    BY <1>1, <2>1 DEF StdioInv, StdioTypeOK
  <2> QED
    BY <1>1, <2>2 DEF StdioInv, StdioTypeOK, Quiet
<1>3. /\ \A r \in Subs : \A f : Said(r, f)' <=> Said(r, f)
      /\ CompletedInv' /\ AcknowledgedThenCompleted'
      /\ Elements(registry)' = Elements(registry)
  BY <1>1, QuietStep, Zenon
<1>4. ListenInv' /\ AckedInv' /\ SinksAreOwned'
  BY <1>1, <1>3, StillTrue DEF StdioInv, Quiet
<1> QED
  BY <1>2, <1>3, <1>4 DEF StdioInv

LEMMA SendNoteStep ==
  ASSUME StdioInv, NEW p \in Publishers, SendNote(p)
  PROVE  StdioInv'
<1> DEFINE s == Head(todo[p])
<1>1. /\ todo[p] # <<>> /\ Put(s, "note") /\ todo' = [todo EXCEPT ![p] = Tail(todo[p])]
      /\ idOf' = idOf /\ loop' = loop /\ served' = served /\ holder' = holder
      /\ closers' = closers /\ registry' = registry /\ published' = published
      /\ completing' = completing /\ failing' = failing /\ run' = run /\ scope' = scope
      /\ late' = late
  BY DEF SendNote, endVars
<1>2. s \in Subs /\ Tail(todo[p]) \in Seq(Subs)
  BY <1>1 DEF StdioInv, StdioTypeOK
<1> HIDE DEF s
<1>3. "note" \in Frames /\ "ack" \in Frames /\ "complete" \in Frames
  BY DEF Frames
<1>4. wire' \in [Subs -> Seq(Frames)]
  BY <1>1, <1>2, <1>3, PutAdds DEF StdioInv
<1>5. /\ \A t \in Subs : Said(t, "ack")' <=> Said(t, "ack")
      /\ \A t \in Subs : Said(t, "complete")' <=> Said(t, "complete")
  BY <1>1, <1>2, <1>3, PutSays DEF StdioInv
<1>6. StdioTypeOK'
  <2>1. todo' \in [Publishers -> Seq(Subs)]
    BY <1>1, <1>2 DEF StdioInv, StdioTypeOK
  <2> QED
    BY <1>1, <1>4, <2>1 DEF StdioInv, StdioTypeOK
<1>7. AcknowledgedThenCompleted'
  BY <1>1, <1>2, <1>3, PutInOrder DEF StdioInv
<1>8. CompletedInv'
  BY <1>1, <1>5 DEF StdioInv, CompletedInv, StdioTypeOK
<1>9. Elements(registry)' = Elements(registry)
  BY <1>1 DEF Elements
<1>10. ListenInv' /\ AckedInv' /\ SinksAreOwned'
  BY <1>1, <1>5, <1>9, StillTrue DEF StdioInv
<1> QED
  BY <1>6, <1>7, <1>8, <1>10 DEF StdioInv

\* The input ends between two messages: all that is registered has been acknowledged.
LEMMA EndOfInputStep ==
  ASSUME StdioInv, EndOfInput
  PROVE  StdioInv'
<1>1. /\ loop = LoopIdle /\ run = "running" /\ run' = "closing" /\ late' = late
      /\ completing' = Elements(registry) /\ registry' = <<>>
      /\ idOf' = idOf /\ loop' = loop /\ served' = served /\ holder' = holder
      /\ closers' = closers /\ todo' = todo /\ published' = published
      /\ failing' = failing /\ scope' = scope /\ wire' = wire
  BY DEF EndOfInput, LoopReady, publishVars
<1>2. Elements(registry) \subseteq Subs /\ Elements(registry)' = {}
  BY <1>1, SinksInSubs DEF StdioInv, Elements
<1>3. StdioTypeOK'
  BY <1>1, <1>2 DEF StdioInv, StdioTypeOK
<1>4. \A r \in Subs : \A f : Said(r, f)' <=> Said(r, f)
  BY <1>1 DEF Said
<1>5. \A r \in Elements(registry) : Said(r, "ack")
  BY <1>1 DEF StdioInv, AckedInv, LoopIdle
<1>6. CompletedInv'
  BY <1>1, <1>2, <1>4, <1>5, NoneCompleted DEF CompletedInv
<1>7. AcknowledgedThenCompleted'
  BY <1>1, <1>6, SilentOrder DEF StdioInv
<1>8. ListenInv'
  BY <1>1 DEF ListenInv, LoopIdle
<1>9. AckedInv' /\ SinksAreOwned'
  BY <1>1, <1>2, <1>4 DEF StdioInv, AckedInv, SinksAreOwned
<1> QED
  BY <1>3, <1>6, <1>7, <1>8, <1>9 DEF StdioInv

LEMMA CompleteStep ==
  ASSUME StdioInv, NEW s \in Subs, CompleteSubscription(s)
  PROVE  StdioInv'
<1>1. /\ s \in completing /\ Put(s, "complete")
      /\ completing' = completing \ {s} /\ late' = late
      /\ idOf' = idOf /\ loop' = loop /\ served' = served /\ holder' = holder
      /\ closers' = closers /\ registry' = registry /\ todo' = todo
      /\ published' = published /\ failing' = failing /\ run' = run /\ scope' = scope
  BY DEF CompleteSubscription, publishVars
<1>2. run = "closing" /\ Said(s, "ack") /\ ~Said(s, "complete")
  BY <1>1 DEF StdioInv, CompletedInv
<1>3. "ack" \in Frames /\ "complete" \in Frames
  BY DEF Frames
<1>4. wire' \in [Subs -> Seq(Frames)]
  BY <1>1, <1>3, PutAdds DEF StdioInv
<1>5. /\ \A t \in Subs : Said(t, "ack")' <=> Said(t, "ack")
      /\ \A t \in Subs : Said(t, "complete")' <=> Said(t, "complete") \/ t = s
  BY <1>1, <1>3, PutSays DEF StdioInv
<1>6. StdioTypeOK'
  BY <1>1, <1>4 DEF StdioInv, StdioTypeOK
<1>7. AcknowledgedThenCompleted'
  BY <1>1, <1>2, <1>3, PutInOrder DEF StdioInv
<1>8. CompletedInv'
  BY <1>1, <1>2, <1>5 DEF StdioInv, CompletedInv, StdioTypeOK
<1>9. Elements(registry)' = Elements(registry)
  BY <1>1 DEF Elements
<1>10. ListenInv' /\ AckedInv' /\ SinksAreOwned'
  BY <1>1, <1>5, <1>9, StillTrue DEF StdioInv
<1> QED
  BY <1>6, <1>7, <1>8, <1>10 DEF StdioInv

LEMMA EndStep ==
  ASSUME StdioInv, (\E s \in Subs : GiveUpCompleting(s)) \/ EndRun \/ FailRun
  PROVE  StdioInv'
<1>1. /\ completing' \subseteq completing
      /\ run' = run \/ (run = "closing" /\ completing = {} /\ run' = "ended")
                    \/ (run = "running" /\ run' = "failed")
      /\ loop' \in {loop, LoopIdle} /\ (run' # "failed" => loop' = loop)
      /\ (run' = "failed" => loop' = LoopIdle \/ run = "failed") /\ late' = late
      /\ idOf' = idOf /\ served' = served /\ holder' = holder
      /\ closers' = closers /\ registry' = registry /\ todo' = todo
      /\ published' = published /\ failing' = failing /\ scope' = scope /\ wire' = wire
  BY DEF GiveUpCompleting, EndRun, FailRun, publishVars
<1>2. StdioTypeOK'
  BY <1>1 DEF StdioInv, StdioTypeOK
<1>3. \A r \in Subs : \A f : Said(r, f)' <=> Said(r, f)
  BY <1>1 DEF Said
<1>4. CompletedInv'
  BY <1>1, <1>3, NoneCompleted DEF StdioInv, CompletedInv, StdioTypeOK
<1>5. AcknowledgedThenCompleted'
  BY <1>1, <1>4, SilentOrder DEF StdioInv
<1>6. Elements(registry)' = Elements(registry)
  BY <1>1 DEF Elements
<1>7. ListenInv'
  BY <1>1, <1>3, <1>6 DEF StdioInv, ListenInv, StdioTypeOK, LoopIdle
<1>8. AckedInv'
  <2>1. CASE run' = "running"
    <3>1. run = "running" /\ loop' = loop
      BY <1>1, <2>1
    <3> QED
      BY <1>1, <1>3, <1>6, <3>1, SinksInSubs DEF StdioInv, AckedInv
  <2>2. CASE run' # "running"
    BY <1>1, <1>3, <2>2 DEF StdioInv, AckedInv
  <2> QED
    BY <2>1, <2>2
<1>9. SinksAreOwned'
  BY <1>1, <1>6 DEF StdioInv, SinksAreOwned
<1> QED
  BY <1>2, <1>4, <1>5, <1>7, <1>8, <1>9 DEF StdioInv

\* A finalizer that leaves the loop, the registry and the wire alone.
LEMMA FinalizerStep ==
  ASSUME StdioInv, BeginClose \/ CloseDispatcher \/ CloseWriter
  PROVE  StdioInv'
<1>1. /\ loop' = loop /\ closers' = closers /\ registry' = registry /\ idOf' = idOf
      /\ served' = served /\ todo' = todo /\ published' = published
      /\ completing' = completing /\ failing' = failing /\ run' = run
      /\ late' = late /\ wire' = wire
  BY DEF BeginClose, CloseDispatcher, CloseWriter, publishVars
<1>2. /\ scope' \in Stages /\ scope' # "open"
      /\ scope' = "closing" \/ scope \notin {"open", "closing"}
      /\ holder' \in {holder, [i \in Ids |-> "free"]}
  BY DEF BeginClose, CloseDispatcher, CloseWriter, Stages
<1>3. StdioTypeOK'
  BY <1>1, <1>2 DEF StdioInv, StdioTypeOK
<1>4. (\A r \in Subs : \A f : Said(r, f)' <=> Said(r, f))
      /\ Elements(registry)' = Elements(registry)
  BY <1>1 DEF Said, Elements
<1>5. CompletedInv'
  BY <1>1, <1>4 DEF StdioInv, CompletedInv, StdioTypeOK
<1>6. AcknowledgedThenCompleted'
  BY <1>1, <1>5, SilentOrder DEF StdioInv
<1>7. ListenInv'
  BY <1>1, <1>2, <1>4 DEF StdioInv, ListenInv, StdioTypeOK, LoopIdle
<1>8. AckedInv'
  BY <1>1, <1>4, SinksInSubs DEF StdioInv, AckedInv
<1>9. SinksAreOwned'
  BY <1>1, <1>2, <1>4 DEF StdioInv, SinksAreOwned
<1> QED
  BY <1>3, <1>5, <1>6, <1>7, <1>8, <1>9 DEF StdioInv

\* The closers: a sink that none of them removes has lost its id to a late one.
LEMMA CloseSinksStep ==
  ASSUME StdioInv, CloseSinks
  PROVE  StdioInv'
<1>1. /\ scope' = "unsubscribed" /\ registry' = Kept(registry, {closers[i] : i \in Ids})
      /\ closers' = [i \in Ids |-> NoSub] /\ holder' = holder
      /\ completing' = completing /\ loop' = loop /\ run' = run
      /\ idOf' = idOf /\ served' = served /\ todo' = todo /\ published' = published
      /\ failing' = failing /\ late' = late /\ wire' = wire
  BY DEF CloseSinks, publishVars
<1>2. /\ registry' \in Seq(Subs)
      /\ \A j, k \in DOMAIN registry' : registry'[j] = registry'[k] => j = k
      /\ Elements(registry)' = Elements(registry) \ {closers[i] : i \in Ids}
  BY <1>1, RegistryShrinks DEF StdioInv
<1>3. \A r \in Elements(registry)' : \E x \in late : idOf[x] = idOf[r]
  <2> SUFFICES ASSUME NEW r \in Elements(registry), r \notin {closers[i] : i \in Ids}
               PROVE  \E x \in late : idOf[x] = idOf[r]
    BY <1>2
  <2>1. idOf[r] \in Ids
    BY SinksInSubs DEF StdioInv, StdioTypeOK
  <2> QED
    BY <2>1 DEF StdioInv, SinksAreOwned
<1>4. StdioTypeOK'
  BY <1>1, <1>2 DEF StdioInv, StdioTypeOK, Stages
<1>5. \A r \in Subs : \A f : Said(r, f)' <=> Said(r, f)
  BY <1>1 DEF Said
<1>6. CompletedInv'
  BY <1>1, <1>5 DEF StdioInv, CompletedInv, StdioTypeOK
<1>7. AcknowledgedThenCompleted'
  BY <1>1, <1>6, SilentOrder DEF StdioInv
<1>8. ListenInv'
  BY <1>1, <1>2, <1>5 DEF StdioInv, ListenInv, StdioTypeOK, LoopIdle
<1>9. AckedInv'
  BY <1>1, <1>2, <1>5, SinksInSubs DEF StdioInv, AckedInv
<1>10. SinksAreOwned'
  BY <1>1, <1>3 DEF SinksAreOwned
<1> QED
  BY <1>4, <1>6, <1>7, <1>8, <1>9, <1>10 DEF StdioInv

\* A run that is interrupted was not completing anything.
LEMMA StopRunStep ==
  ASSUME StdioInv, StopRun
  PROVE  StdioInv'
<1>1. /\ scope = "muted" /\ scope' = "closed" /\ run # "closing" /\ loop' = LoopIdle
      /\ run' = IF run = "ended" THEN "ended" ELSE "failed"
      /\ closers' = closers /\ registry' = registry /\ idOf' = idOf /\ holder' = holder
      /\ served' = served /\ todo' = todo /\ published' = published
      /\ completing' = completing /\ failing' = failing /\ late' = late /\ wire' = wire
  BY DEF StopRun, publishVars
<1>2. StdioTypeOK'
  BY <1>1 DEF StdioInv, StdioTypeOK, Stages
<1>3. (\A r \in Subs : \A f : Said(r, f)' <=> Said(r, f))
      /\ Elements(registry)' = Elements(registry)
  BY <1>1 DEF Said, Elements
<1>4. CompletedInv'
  BY <1>1, <1>3 DEF StdioInv, CompletedInv, StdioTypeOK
<1>5. AcknowledgedThenCompleted'
  BY <1>1, <1>4, SilentOrder DEF StdioInv
<1>6. ListenInv'
  BY <1>1 DEF ListenInv
<1>7. AckedInv'
  BY <1>1, <1>3 DEF StdioInv, AckedInv
<1>8. SinksAreOwned'
  BY <1>1, <1>3 DEF StdioInv, SinksAreOwned
<1> QED
  BY <1>2, <1>4, <1>5, <1>6, <1>7, <1>8 DEF StdioInv

LEMMA StdioInvInit == StdioInit => StdioInv
<1> SUFFICES ASSUME StdioInit PROVE StdioInv
  OBVIOUS
<1>1. StdioTypeOK
  <2>1. <<>> \in Seq(Subs) /\ <<>> \in Seq(Frames)
    OBVIOUS
  <2>2. /\ holder \in [Ids -> {"free", "listening", "releasing", "orphaned"}]
        /\ closers \in [Ids -> Subs \cup {NoSub}]
        /\ todo \in [Publishers -> Seq(Subs)] /\ wire \in [Subs -> Seq(Frames)]
    BY <2>1 DEF StdioInit
  <2>3. \A j, k \in DOMAIN registry : registry[j] = registry[k] => j = k
    BY DEF StdioInit
  <2> QED
    BY <2>1, <2>2, <2>3 DEF StdioInit, StdioTypeOK, Stages
<1>2. Elements(registry) = {} /\ \A s \in Subs : \A f : ~Said(s, f)
  BY DEF StdioInit, Elements, Said
<1>3. ListenInv /\ AckedInv /\ CompletedInv /\ SinksAreOwned
  BY <1>2 DEF StdioInit, ListenInv, AckedInv, CompletedInv, SinksAreOwned
<1>4. AcknowledgedThenCompleted
  BY DEF StdioInit, AcknowledgedThenCompleted
<1> QED
  BY <1>1, <1>3, <1>4 DEF StdioInv

LEMMA StdioInvStep == StdioInv /\ [StdioNext]_stdioVars => StdioInv'
<1> SUFFICES ASSUME StdioInv, [StdioNext]_stdioVars PROVE StdioInv'
  OBVIOUS
<1>1. ASSUME NEW s \in Subs,
             AcceptListen(s) \/ RefuseListen(s) \/ CompleteSubscription(s)
             \/ GiveUpCompleting(s)
      PROVE  StdioInv'
  BY <1>1, AcceptListenStep, RefuseListenStep, CompleteStep, EndStep
<1>2. ASSUME LoopStep PROVE StdioInv'
  BY <1>2, OpenStep, AcknowledgeStep DEF LoopStep
<1>3. ASSUME NEW i \in Ids, CancelListen(i) \/ ReleaseId(i) PROVE StdioInv'
  BY <1>3, CancelListenStep, ReleaseIdStep
<1>4. ASSUME NEW p \in Publishers, BeginPublish(p) \/ SendNote(p) \/ NoteFails(p)
      PROVE  StdioInv'
  BY <1>4, BeginPublishStep, SendNoteStep, NoteFailsStep
<1>5. ASSUME EndOfInput \/ EndRun \/ FailRun \/ FailureEndsRun PROVE StdioInv'
  BY <1>5, EndOfInputStep, EndStep DEF FailureEndsRun
<1>7. ASSUME BeginClose \/ CloseSinks \/ CloseDispatcher \/ CloseWriter \/ StopRun
      PROVE  StdioInv'
  BY <1>7, FinalizerStep, CloseSinksStep, StopRunStep
<1>6. ASSUME UNCHANGED stdioVars PROVE StdioInv'
  <2>1. /\ Quiet /\ loop' = loop /\ closers' = closers /\ served' = served
        /\ holder' = holder /\ todo' = todo /\ published' = published
           /\ failing' = failing
    BY <1>6 DEF stdioVars, Quiet, publishVars, endVars
  <2>2. StdioTypeOK'
    BY <2>1 DEF StdioInv, StdioTypeOK, Quiet
  <2>3. /\ \A r \in Subs : \A f : Said(r, f)' <=> Said(r, f)
        /\ CompletedInv' /\ AcknowledgedThenCompleted'
        /\ Elements(registry)' = Elements(registry)
    BY <2>1, QuietStep, Zenon
  <2>4. ListenInv' /\ AckedInv' /\ SinksAreOwned'
    BY <2>1, <2>3, StillTrue DEF StdioInv, Quiet
  <2> QED
    BY <2>2, <2>3, <2>4 DEF StdioInv
<1> QED
  BY <1>1, <1>2, <1>3, <1>4, <1>5, <1>6, <1>7 DEF StdioNext

\* The invariant of the stdio server's subscriptions holds in every reachable state.
THEOREM StdioInvariance == StdioSpec => []StdioInv
<1>1. StdioInv /\ [StdioNext]_stdioVars => StdioInv'
  BY StdioInvStep
<1> QED
  BY StdioInvInit, <1>1, PTL DEF StdioSpec

\* The stdio server's subscriptions, its registry and its wire keep their types; the
\* registry never holds a subscription twice.
THEOREM StdioTypeCorrect == StdioSpec => []StdioTypeOK
<1>1. StdioInv => StdioTypeOK
  BY DEF StdioInv
<1> QED
  BY <1>1, StdioInvariance, PTL

\* While the scope is open every sink in the registry is the one its id's closer removes,
\* and its id is held, as CancelListen relies on; and a sink that CloseSinks leaves
\* behind, or that comes after it, is one whose id a listen request served while the
\* scope closed has taken.
THEOREM SinksOwned == StdioSpec => []SinksAreOwned
<1>1. StdioInv => SinksAreOwned
  BY DEF StdioInv
<1> QED
  BY <1>1, StdioInvariance, PTL

\* On the wire a subscription is acknowledged once and then completed at most once,
\* and completed only by a run that did not fail.
THEOREM AcknowledgedCompleted == StdioSpec => []AcknowledgedThenCompleted
<1>1. StdioInv => AcknowledgedThenCompleted
  BY DEF StdioInv
<1> QED
  BY <1>1, StdioInvariance, PTL

-----------------------------------------------------------------------------
(* The client's cache.                                                     *)

\* What each change and each notification speaks of has happened, and the revision is
\* ahead of the collection by the changes between their bump and their mutation.
Bumped == {c \in Changes : change[c].at = "bumped"}

ServerInv ==
  /\ IsFiniteSet(Bumped) /\ revision = data + Cardinality(Bumped)
  /\ \A c \in Changes : change[c].data <= data
  /\ \A j \in DOMAIN channel : channel[j] <= data
  /\ handler.data <= data
  /\ handler.at = "idle" => handler.data <= told

\* Where a call's entry is its own, where it is settled for good, and where it may be
\* in the cache.
Own == {"paging", "answered", "storing", "rechecking", "purging", "fetched"}
Settled == {"answered", "storing", "rechecking", "purging"} \cup Over
Stored == {"rechecking", "purging", "fetched", "interrupted"}

\* An entry that was stored is the one in the hands of the call that stored it.
Wrote(e) == e = req[e.by].entry /\ req[e.by].at \in Stored

\* The entry a call has in hand.
HandInv(r) ==
  /\ req[r].entry.reading.data <= data
  /\ req[r].entry.reading.data <= req[r].entry.reading.revision
  /\ req[r].at \in Own => req[r].entry.by = r
  /\ req[r].at \in {"got", "hit"} => Wrote(req[r].entry)
  /\ req[r].at \in Own \cup {"got", "hit"} => req[r].entry.key = req[r].key

\* A page continues one that is settled, and was read after it.
After(e) == e.key # First =>
  /\ req[e.key].at \in Settled
  /\ req[e.key].entry.reading.data <= e.reading.data

\* A page agrees with the one it continues, or that one was read amid a change.
Agrees(e) == e.key # First =>
  LET first == req[e.key].entry.reading
  IN  /\ e.reading.view = first.view
      /\ e.reading.data = first.data \/ first.revision > first.data

PageInv(r) ==
  /\ req[r].key # First => req[req[r].key].at \in Settled
  /\ req[r].at \in Own \cup {"got", "hit"} => After(req[r].entry)
  /\ req[r].at \in (Own \ {"paging"}) \cup {"got", "hit"} => Agrees(req[r].entry)

\* Epochs only grow: a call that was late once stays so, and one that began since the
\* last bump, while the list was not yet invalidated, knows.
EpochInv(r) ==
  /\ req[r].epoch <= epoch
  /\ req[r].late => req[r].at \in Stored
  /\ req[r].late /\ req[r].at = "rechecking" => EpochMoved(r)
  /\ req[r].at # "idle" /\ ~EpochMoved(r) /\ handler.at = "bumped" => req[r].amid

\* As new as all that has been announced, or is about to be.
Fresh(e) == told <= e.reading.data /\ handler.data <= e.reading.data

FreshInv(r) ==
  /\ req[r].at \in {"paging", "answered", "storing"} /\ ~EpochMoved(r) =>
       Fresh(req[r].entry)
  /\ req[r].at = "got" /\ ~EpochMoved(r) =>
       req[r].amid \/ req[req[r].entry.by].late \/ Fresh(req[r].entry)

CallInv(r) == HandInv(r) /\ PageInv(r) /\ EpochInv(r) /\ FreshInv(r)

CursorsInv ==
  \A t \in DOMAIN cursors : cursors[t] = req[t].entry.reading /\ req[t].at \in Settled

\* What is in the cache is as new as what the application knows and, the invalidation
\* done, as what it is about to learn, unless a late writer put it there.
CachedInv(e) ==
  /\ Wrote(e) /\ After(e) /\ Agrees(e)
  /\ \/ LateWriter(e.by)
     \/ told <= e.reading.data /\ (handler.at # "bumped" => Fresh(e))

CacheInv ==
  /\ CacheTypeOK /\ ServerInv /\ CursorsInv
  /\ \A r \in Requests : CallInv(r)
  /\ \A e \in ToSet(cache) : CachedInv(e)

-----------------------------------------------------------------------------
(* The memory cache.                                                       *)

Places == {"idle"} \cup InFlight \cup Over
Calls == [at : Places, key : Keys, epoch : Nat, entry : Entries, late : BOOLEAN,
          amid : BOOLEAN]

CacheType(q) ==
  /\ q \in Seq(Entries) /\ Len(q) <= Capacity
  /\ \A j, k \in DOMAIN q : q[j].key = q[k].key => j = k

\* A map of entries has one for each key.
LEMMA OneForEachKey ==
  ASSUME NEW q \in Seq(Entries)
  PROVE  (\A j, k \in DOMAIN q : q[j].key = q[k].key => j = k)
           <=> /\ IsInjective(q)
               /\ \A e, f \in ToSet(q) : e.key = f.key => e = f
<1>1. (\A j, k \in DOMAIN q : q[j].key = q[k].key => j = k) =>
         /\ IsInjective(q)
         /\ \A e, f \in ToSet(q) : e.key = f.key => e = f
  BY DEF IsInjective, ToSet
<1>2. ASSUME IsInjective(q), \A e, f \in ToSet(q) : e.key = f.key => e = f
      PROVE  \A j, k \in DOMAIN q : q[j].key = q[k].key => j = k
  BY <1>2 DEF IsInjective, ToSet
<1> QED
  BY <1>1, <1>2

\* Deleting a key leaves the entries of the other ones, and makes room if it was there.
LEMMA CacheWithout ==
  ASSUME CacheInv, NEW k
  PROVE  /\ Without(k) \in Seq(Entries)
         /\ Len(Without(k)) \in Nat /\ Len(Without(k)) <= Capacity
         /\ Found(k) # {} => Len(Without(k)) + 1 <= Capacity
         /\ ToSet(Without(k)) = ToSet(cache) \ Found(k)
         /\ IsInjective(Without(k))
<1> DEFINE q == Without(k)
           g == Found(k)
<1>1. q = Kept(cache, g)
  BY DEF Without
<1>2. /\ cache \in Seq(Entries) /\ Len(cache) <= Capacity /\ Capacity \in Nat
      /\ \A i, j \in DOMAIN cache : cache[i].key = cache[j].key => i = j
  BY TokensAssumption, CapacityAssumption DEF CacheInv, CacheTypeOK
<1>3. IsInjective(cache)
  BY <1>2, OneForEachKey
<1>5. g # {} => ToSet(cache) \cap g # {}
  BY DEF Found
<1> HIDE DEF q, g
<1>6. /\ q \in Seq(Entries) /\ Len(q) <= Len(cache)
      /\ ToSet(q) = ToSet(cache) \ g /\ IsInjective(q)
      /\ ToSet(cache) \cap g # {} => Len(q) < Len(cache)
  BY <1>1, <1>2, <1>3, KeptMap
<1>7. Len(q) \in Nat /\ Len(cache) \in Nat
  BY <1>2, <1>6
<1>8. Len(q) <= Capacity /\ (g # {} => Len(q) + 1 <= Capacity)
  BY <1>2, <1>5, <1>6, <1>7
<1> QED
  BY <1>6, <1>7, <1>8 DEF q, g

\* An entry put at the end of what deleting its key has left.
LEMMA AppendEntry ==
  ASSUME CacheInv, NEW e \in Entries
  PROVE  LET q == Append(Without(e.key), e)
         IN  /\ q \in Seq(Entries)
             /\ Len(q) = Len(Without(e.key)) + 1
             /\ \A j, k \in DOMAIN q : q[j].key = q[k].key => j = k
             /\ ToSet(q) = (ToSet(cache) \ Found(e.key)) \cup {e}
<1> DEFINE w == Without(e.key)
           q == Append(w, e)
<1>1. /\ w \in Seq(Entries) /\ Len(w) \in Nat
      /\ ToSet(w) = ToSet(cache) \ Found(e.key) /\ IsInjective(w)
  BY CacheWithout
<1>2. ToSet(w) \subseteq ToSet(cache) /\ \A f \in ToSet(w) : f.key # e.key
  BY <1>1 DEF Found, ToSet
<1>3. \A f, g \in ToSet(cache) : f.key = g.key => f = g
  BY OneForEachKey DEF CacheInv, CacheTypeOK
<1> HIDE DEF w
<1>4. /\ q \in Seq(Entries) /\ Len(q) = Len(w) + 1
      /\ DOMAIN q = 1..(Len(w) + 1) /\ DOMAIN w = 1..Len(w)
      /\ \A j \in DOMAIN w : q[j] = w[j]
      /\ q[Len(w) + 1] = e
  BY <1>1
<1>5. \A j \in DOMAIN q : j \in DOMAIN w \/ j = Len(w) + 1
  BY <1>1, <1>4
<1>6. DOMAIN w \subseteq DOMAIN q /\ Len(w) + 1 \in DOMAIN q
  BY <1>1, <1>4
<1>7. \A j \in DOMAIN w : w[j] \in ToSet(w)
  BY DEF ToSet
<1>8. ASSUME NEW j \in DOMAIN q, NEW k \in DOMAIN q, q[j].key = q[k].key
      PROVE  j = k
  <2>1. CASE j \in DOMAIN w /\ k \in DOMAIN w
    <3>1. w[j] \in ToSet(w) /\ w[k] \in ToSet(w) /\ w[j].key = w[k].key
      BY <1>4, <1>7, <1>8, <2>1
    <3>2. w[j] = w[k]
      BY <1>2, <1>3, <3>1
    <3> QED
      BY <1>1, <2>1, <3>2 DEF IsInjective
  <2>2. CASE j \in DOMAIN w /\ k = Len(w) + 1
    BY <1>2, <1>4, <1>7, <1>8, <2>2
  <2>3. CASE k \in DOMAIN w /\ j = Len(w) + 1
    BY <1>2, <1>4, <1>7, <1>8, <2>3
  <2> QED
    BY <1>5, <2>1, <2>2, <2>3
<1> HIDE DEF q
<1>9. ToSet(q) = ToSet(w) \cup {e}
  BY <1>4, <1>5, <1>6 DEF ToSet
<1> QED
  BY <1>1, <1>4, <1>8, <1>9 DEF q, w

\* A get changes only the order of the entries.
LEMMA Touched ==
  ASSUME CacheInv, NEW e \in ToSet(cache), Touch(e)
  PROVE  CacheType(cache') /\ ToSet(cache') \subseteq ToSet(cache)
<1>1. e \in Entries
  BY DEF CacheInv, CacheTypeOK, ToSet
<1>2. e \in Found(e.key)
  BY DEF Found, ToSet
<1>3. Len(Without(e.key)) \in Nat /\ Len(Without(e.key)) + 1 <= Capacity
  BY <1>2, CacheWithout
<1>4. cache' = Append(Without(e.key), e)
  BY DEF Touch
<1>5. /\ cache' \in Seq(Entries) /\ Len(cache') = Len(Without(e.key)) + 1
      /\ \A j, k \in DOMAIN cache' : cache'[j].key = cache'[k].key => j = k
      /\ ToSet(cache') = (ToSet(cache) \ Found(e.key)) \cup {e}
  BY <1>1, <1>4, AppendEntry
<1> QED
  BY <1>3, <1>5 DEF CacheType

\* A set adds no entry but its own, and keeps the capacity.
LEMMA SetAdds ==
  ASSUME CacheInv, NEW e \in Entries, Set(e)
  PROVE  CacheType(cache') /\ ToSet(cache') \subseteq ToSet(cache) \cup {e}
<1> DEFINE q == Append(Without(e.key), e)
<1>1. Len(Without(e.key)) \in Nat /\ Len(Without(e.key)) <= Capacity /\ Capacity \in Nat
  BY CacheWithout, TokensAssumption, CapacityAssumption DEF CacheInv
<1>2. /\ q \in Seq(Entries) /\ Len(q) = Len(Without(e.key)) + 1
      /\ \A j, k \in DOMAIN q : q[j].key = q[k].key => j = k
      /\ ToSet(q) = (ToSet(cache) \ Found(e.key)) \cup {e}
  BY AppendEntry
<1>3. cache' = IF Len(q) > Capacity THEN Tail(q) ELSE q
  BY DEF Set, Trimmed
<1> HIDE DEF q
<1>4. CASE Len(q) > Capacity
  <2>1. cache' = Tail(q) /\ Len(q) \in Nat /\ Len(q) # 0 /\ q # <<>>
    BY <1>1, <1>2, <1>3, <1>4
  <2>2. /\ cache' \in Seq(Entries) /\ Len(cache') = Len(q) - 1
        /\ \A j \in 1..(Len(q) - 1) : cache'[j] = q[j + 1]
        /\ DOMAIN cache' = 1..(Len(q) - 1) /\ DOMAIN q = 1..Len(q)
    BY <1>2, <2>1
  <2>3. \A j \in DOMAIN cache' : j + 1 \in DOMAIN q /\ j \in Nat
    BY <2>1, <2>2
  <2>4. \A j, k \in DOMAIN cache' : cache'[j].key = cache'[k].key => j + 1 = k + 1
    BY <1>2, <2>2, <2>3
  <2>5. \A j, k \in DOMAIN cache' : cache'[j].key = cache'[k].key => j = k
    BY <2>3, <2>4
  <2>6. ToSet(cache') \subseteq ToSet(q)
    BY <2>2, <2>3 DEF ToSet
  <2>7. Len(cache') <= Capacity
    BY <1>1, <1>2, <2>1, <2>2
  <2> QED
    BY <1>2, <2>2, <2>5, <2>6, <2>7 DEF CacheType
<1>5. CASE ~(Len(q) > Capacity)
  <2>1. cache' = q /\ Len(q) \in Nat
    BY <1>1, <1>2, <1>3, <1>5
  <2>2. Len(q) <= Capacity
    BY <1>1, <1>5, <2>1
  <2> QED
    BY <1>2, <2>1, <2>2 DEF CacheType
<1> QED
  BY <1>4, <1>5

LEMMA Invalidated ==
  ASSUME CacheInv, InvalidateList
  PROVE  CacheType(cache') /\ ToSet(cache') = {}
  BY TokensAssumption, CapacityAssumption DEF CacheInv, InvalidateList, CacheType, ToSet

-----------------------------------------------------------------------------
(* The calls.                                                              *)

\* A step of one call leaves the others alone.
Others(r) == \A q \in Requests : q # r => req'[q] = req[q]

\* What a step may not take from a call: what it stored, and that it was late.
Lasts(r) ==
  /\ req[r].at \in Settled => req'[r].at \in Settled /\ req'[r].entry = req[r].entry
  /\ req[r].at \in Stored => req'[r].at \in Stored
  /\ req[r].late => req'[r].late

LEMMA CallType ==
  ASSUME CacheInv, NEW r \in Requests
  PROVE  /\ req \in [Requests -> Calls] /\ req[r] \in Calls
         /\ req[r].at \in Places /\ req[r].key \in Keys /\ req[r].epoch \in Nat
         /\ req[r].entry \in Entries /\ req[r].late \in BOOLEAN /\ req[r].amid \in BOOLEAN
<1>1. req \in [Requests -> Calls]
  BY DEF CacheInv, CacheTypeOK, Calls, Places
<1> QED
  BY <1>1 DEF Calls

LEMMA EntryType ==
  ASSUME NEW e \in Entries
  PROVE  /\ e.key \in Keys /\ e.by \in Requests /\ e.reading \in Readings
         /\ e.reading.data \in Nat /\ e.reading.view \in Nat /\ e.reading.revision \in Nat
         /\ e.key # First => e.key \in Requests
  BY DEF Entries, Readings, Keys

LEMMA WentTo ==
  ASSUME CacheInv, NEW r \in Requests, NEW p \in Places, Goto(r, p)
  PROVE  /\ req' \in [Requests -> Calls] /\ Others(r)
         /\ req'[r].at = p /\ req'[r].key = req[r].key
         /\ req'[r].epoch = req[r].epoch /\ req'[r].entry = req[r].entry
         /\ req'[r].late = req[r].late /\ req'[r].amid = req[r].amid
<1>1. req \in [Requests -> Calls] /\ req[r] \in Calls
  BY CallType
<1>2. req' = [req EXCEPT ![r].at = p]
  BY DEF Goto
<1>3. /\ req' \in [Requests -> Calls] /\ Others(r)
      /\ req'[r] = [req[r] EXCEPT !.at = p]
  BY <1>1, <1>2 DEF Calls, Others
<1> QED
  BY <1>1, <1>3 DEF Calls

LEMMA Took ==
  ASSUME CacheInv, NEW r \in Requests, NEW p \in Places, NEW e \in Entries, Take(r, p, e)
  PROVE  /\ req' \in [Requests -> Calls] /\ Others(r)
         /\ req'[r].at = p /\ req'[r].key = req[r].key
         /\ req'[r].epoch = req[r].epoch /\ req'[r].entry = e
         /\ req'[r].late = req[r].late /\ req'[r].amid = req[r].amid
<1>1. req \in [Requests -> Calls] /\ req[r] \in Calls
  BY CallType
<1>2. req' = [req EXCEPT ![r].at = p, ![r].entry = e]
  BY DEF Take
<1>3. /\ req' \in [Requests -> Calls] /\ Others(r)
      /\ req'[r] = [req[r] EXCEPT !.at = p, !.entry = e]
  BY <1>1, <1>2 DEF Calls, Others
<1> QED
  BY <1>1, <1>3 DEF Calls

\* The version of the collection is not beyond its revision.
LEMMA DataBehind ==
  ASSUME CacheInv
  PROVE  data \in Nat /\ revision \in Nat /\ data <= revision /\ Reading \in Readings
<1>1. Cardinality(Bumped) \in Nat
  BY FS_CardinalityType DEF CacheInv, ServerInv
<1> QED
  BY <1>1 DEF CacheInv, CacheTypeOK, RegistryTypeOK, ServerInv, Reading, Readings

\* What a call's step leaves alone on the server and in the handler.
Aside == /\ data' = data /\ view' = view /\ revision' = revision
         /\ change' = change /\ channel' = channel
         /\ handler' = handler /\ told' = told /\ epoch' = epoch

\* What a step that lasts keeps of an entry.
LEMMA EntryLasts ==
  ASSUME CacheInv, NEW r \in Requests, Others(r), Lasts(r), NEW e \in Entries
  PROVE  /\ Wrote(e) => Wrote(e)'
         /\ After(e) => After(e)'
         /\ After(e) /\ Agrees(e) => Agrees(e)'
         /\ req[e.by].late => req'[e.by].late
<1>1. e.by \in Requests /\ (e.key # First => e.key \in Requests)
  BY EntryType
<1>2. \A q \in Requests :
        /\ req[q].at \in Settled => req'[q].at \in Settled /\ req'[q].entry = req[q].entry
        /\ req[q].at \in Stored => req'[q].at \in Stored
  BY DEF Others, Lasts
<1>3. req[e.by].late => req'[e.by].late
  BY <1>1 DEF Others, Lasts
<1>4. \A p : p \in Stored => p \in Settled
  BY DEF Stored, Settled, Over
<1>5. Wrote(e) => Wrote(e)'
  BY <1>1, <1>2, <1>4 DEF Wrote
<1>6. After(e) => After(e)'
  BY <1>1, <1>2 DEF After
<1>7. After(e) /\ Agrees(e) => Agrees(e)'
  BY <1>1, <1>2 DEF After, Agrees
<1> QED
  BY <1>3, <1>5, <1>6, <1>7

\* The calls that do not move keep what holds of them.
LEMMA OthersStand ==
  ASSUME CacheInv, NEW r \in Requests, Others(r), Lasts(r), Aside,
         NEW q \in Requests, q # r
  PROVE  CallInv(q)'
<1>1. req'[q] = req[q]
  BY DEF Others
<1>2. PICK e \in Entries : e = req[q].entry
  BY CallType
<1>3. /\ Wrote(e) => Wrote(e)'
      /\ After(e) => After(e)'
      /\ After(e) /\ Agrees(e) => Agrees(e)'
      /\ req[e.by].late => req'[e.by].late
  BY <1>2, EntryLasts
<1>4. CallInv(q)
  BY DEF CacheInv
<1>5. req'[q].entry = e /\ req[q].entry = e
  BY <1>1, <1>2
<1>6. HandInv(q)'
  BY <1>1, <1>3, <1>4, <1>5 DEF CallInv, HandInv, Aside, Wrote
<1>7. PageInv(q)'
  <2>1. req[q].key # First => req[q].key \in Requests
    BY CallType DEF Keys
  <2>2. req[q].key # First => req'[req[q].key].at \in Settled
    BY <1>4, <2>1 DEF CallInv, PageInv, Others, Lasts
  <2>3. /\ req[q].at \in Own \cup {"got", "hit"} => After(e)'
        /\ req[q].at \in (Own \ {"paging"}) \cup {"got", "hit"} => Agrees(e)'
    BY <1>3, <1>4, <1>5 DEF CallInv, PageInv
  <2>4. (After(req[q].entry) <=> After(e))' /\ (Agrees(req[q].entry) <=> Agrees(e))'
    BY <1>5 DEF After, Agrees
  <2> QED
    BY <1>1, <2>2, <2>3, <2>4 DEF PageInv
<1>8. EpochInv(q)'
  BY <1>1, <1>4 DEF CallInv, EpochInv, Aside, EpochMoved
<1>9. FreshInv(q)'
  BY <1>1, <1>3, <1>4, <1>5 DEF CallInv, FreshInv, Aside, EpochMoved, Fresh
<1> QED
  BY <1>6, <1>7, <1>8, <1>9 DEF CallInv

\* A late writer stays one until it empties the cache.
LateLasts(r) == LateWriter(r) => LateWriter(r)'

LEMMA CachedStand ==
  ASSUME CacheInv, NEW r \in Requests, Others(r), Lasts(r), Aside, LateLasts(r),
         NEW e \in ToSet(cache)
  PROVE  CachedInv(e)'
<1>1. e \in Entries /\ e.by \in Requests
  BY EntryType DEF CacheInv, CacheTypeOK, ToSet
<1>2. CachedInv(e)
  BY DEF CacheInv
<1>3. Wrote(e)' /\ After(e)' /\ Agrees(e)'
  BY <1>1, <1>2, EntryLasts DEF CachedInv
<1>4. LateWriter(e.by) => LateWriter(e.by)'
  <2>1. CASE e.by = r
    BY <2>1 DEF LateLasts
  <2>2. CASE e.by # r
    BY <1>1, <2>2 DEF Others, LateWriter
  <2> QED
    BY <2>1, <2>2
<1> QED
  BY <1>2, <1>3, <1>4 DEF CachedInv, Aside, Fresh

\* What is left to show for a step of one call: that it lasts, its own part of the
\* invariant, the cursors, and what it adds to the cache.
LEMMA CallStep ==
  ASSUME CacheInv, NEW r \in Requests, Others(r), Lasts(r), Aside,
         req' \in [Requests -> Calls], CallInv(r)',
         CacheType(cache'),
         \A e \in ToSet(cache') : \/ e \in ToSet(cache) /\ LateLasts(r)
                                  \/ CachedInv(e)',
         /\ DOMAIN cursors' \subseteq Requests
         /\ \A t \in DOMAIN cursors' :
              \/ t \in DOMAIN cursors /\ cursors'[t] = cursors[t]
              \/ cursors'[t] = req'[t].entry.reading /\ req'[t].at \in Settled
  PROVE  CacheInv'
<1>1. \A t \in DOMAIN cursors' :
        cursors'[t] = req'[t].entry.reading /\ req'[t].at \in Settled
  <2>1. ASSUME NEW t \in DOMAIN cursors', t \in DOMAIN cursors, cursors'[t] = cursors[t]
        PROVE  cursors'[t] = req'[t].entry.reading /\ req'[t].at \in Settled
    <3>1. cursors[t] = req[t].entry.reading /\ req[t].at \in Settled /\ t \in Requests
      BY <2>1 DEF CacheInv, CursorsInv
    <3> QED
      BY <2>1, <3>1 DEF Others, Lasts
  <2> QED
    BY <2>1
<1>2. \A t \in DOMAIN cursors' : cursors'[t] \in Readings
  <2>1. ASSUME NEW t \in DOMAIN cursors' PROVE cursors'[t] \in Readings
    <3>1. cursors'[t] = req'[t].entry.reading /\ req'[t] \in Calls
      BY <1>1, <2>1
    <3> QED
      BY <3>1 DEF Calls, Entries
  <2> QED
    BY <2>1
<1>3. CacheTypeOK'
  <2>1. CacheTypeOK
    BY DEF CacheInv
  <2>2. RegistryTypeOK'
    BY <1>2, <2>1, TokensAssumption, CapacityAssumption DEF CacheTypeOK, RegistryTypeOK,
       Aside
  <2> QED
    BY <2>1, <2>2 DEF CacheTypeOK, Aside, CacheType, Calls, Places
<1>4. ServerInv'
  BY DEF CacheInv, ServerInv, Aside, Bumped
<1>5. ASSUME NEW q \in Requests PROVE CallInv(q)'
  <2>1. CASE q = r
    BY <2>1
  <2>2. CASE q # r
    BY <2>2, OthersStand
  <2> QED
    BY <2>1, <2>2
<1>6. ASSUME NEW e \in ToSet(cache)' PROVE CachedInv(e)'
  <2>1. e \in ToSet(cache')
    BY DEF ToSet
  <2>2. CASE CachedInv(e)'
    BY <2>2
  <2>3. CASE e \in ToSet(cache) /\ LateLasts(r)
    BY <2>3, CachedStand
  <2> QED
    BY <2>1, <2>2, <2>3
<1>7. CursorsInv'
  BY <1>1 DEF CursorsInv
<1> QED
  BY <1>3, <1>4, <1>5, <1>6, <1>7 DEF CacheInv

-----------------------------------------------------------------------------
(* The steps of a call.                                                    *)

\* Where a call may go with the entry it has in hand.
Ways == {<<"start", "asking">>, <<"got", "asking">>, <<"got", "hit">>,
         <<"paging", "answered">>, <<"answered", "fetched">>, <<"answered", "storing">>,
         <<"rechecking", "purging">>, <<"rechecking", "fetched">>,
         <<"purging", "fetched">>} \cup (InFlight \X {"interrupted"})

LEMMA WaysAre ==
  ASSUME NEW a, NEW p, <<a, p>> \in Ways
  PROVE  /\ a # "idle" /\ a \in Places
         /\ p \in Places \ {"idle", "start", "got", "paging", "rechecking"}
         /\ a \in Settled => p \in Settled
         /\ a \in Stored => p \in Stored
         /\ p \in Own => a \in Own
         /\ p = "hit" => a = "got"
         /\ p \in Own /\ a # "paging" => a \in Own \ {"paging"}
         /\ p \in {"answered", "storing"} => a \in {"paging", "answered"}
  BY DEF Ways, Places, InFlight, Over, Settled, Stored, Own

\* A call that moves on keeps its part of the invariant.
LEMMA MovedCall ==
  ASSUME CacheInv, NEW r \in Requests, NEW p, <<req[r].at, p>> \in Ways, Goto(r, p),
         Aside,
         req[r].at = "paging" /\ p = "answered" => Agrees(req[r].entry)
  PROVE  /\ req' \in [Requests -> Calls] /\ Others(r) /\ Lasts(r)
         /\ CallInv(r)'
<1> DEFINE a == req[r].at
<1>1. /\ a # "idle" /\ a \in Places
      /\ p \in Places \ {"idle", "start", "got", "paging", "rechecking"}
      /\ a \in Settled => p \in Settled
      /\ a \in Stored => p \in Stored
      /\ p \in Own => a \in Own
      /\ p = "hit" => a = "got"
      /\ p \in Own /\ a # "paging" => a \in Own \ {"paging"}
      /\ p \in {"answered", "storing"} => a \in {"paging", "answered"}
  BY WaysAre
<1>2. /\ req' \in [Requests -> Calls] /\ Others(r)
      /\ req'[r].at = p /\ req'[r].key = req[r].key
      /\ req'[r].epoch = req[r].epoch /\ req'[r].entry = req[r].entry
      /\ req'[r].late = req[r].late /\ req'[r].amid = req[r].amid
  BY <1>1, WentTo
<1>3. Lasts(r)
  BY <1>1, <1>2 DEF Lasts
<1>4. CallInv(r)
  BY DEF CacheInv
<1>5. PICK e \in Entries : e = req[r].entry
  BY CallType
<1>6. /\ Wrote(e) => Wrote(e)'
      /\ After(e) => After(e)'
      /\ After(e) /\ Agrees(e) => Agrees(e)'
  BY <1>2, <1>3, EntryLasts
<1>7. req'[r].entry = e /\ req[r].entry = e
  BY <1>2, <1>5
<1>8. HandInv(r)'
  <2>1. p \in {"got", "hit"} => Wrote(e)'
    BY <1>1, <1>4, <1>6, <1>7 DEF CallInv, HandInv
  <2>2. (Wrote(req[r].entry) <=> Wrote(e))'
    BY <1>7
  <2> QED
    BY <1>1, <1>2, <1>4, <1>7, <2>1, <2>2 DEF CallInv, HandInv, Aside
<1>9. PageInv(r)'
  <2>1. req[r].key # First => req'[req[r].key].at \in Settled
    <3>1. ASSUME req[r].key # First PROVE req'[req[r].key].at \in Settled
      <4>1. req[r].key \in Requests /\ req[req[r].key].at \in Settled
        BY <1>4, <3>1, CallType DEF Keys, CallInv, PageInv
      <4> QED
        BY <1>2, <1>3, <4>1 DEF Others, Lasts
    <3> QED
      BY <3>1
  <2>2. p \in Own \cup {"got", "hit"} => After(e)'
    BY <1>1, <1>4, <1>6, <1>7 DEF CallInv, PageInv
  <2>3. p \in (Own \ {"paging"}) \cup {"got", "hit"} => After(e) /\ Agrees(e)
    <3>1. p \in Own /\ a = "paging" => p = "answered"
      BY <1>1 DEF Ways, Own, InFlight
    <3> QED
      BY <1>1, <1>4, <1>7, <3>1 DEF CallInv, PageInv
  <2>4. (After(req[r].entry) <=> After(e))' /\ (Agrees(req[r].entry) <=> Agrees(e))'
    BY <1>7
  <2> QED
    BY <1>2, <1>6, <2>1, <2>2, <2>3, <2>4 DEF PageInv
<1>10. EpochInv(r)'
  BY <1>1, <1>2, <1>4 DEF CallInv, EpochInv, EpochMoved, Aside
<1>11. FreshInv(r)'
  <2>1. p \in {"paging", "answered", "storing"} /\ ~EpochMoved(r) => Fresh(e)
    BY <1>1, <1>4, <1>7 DEF CallInv, FreshInv
  <2> QED
    BY <1>1, <1>2, <1>7, <2>1 DEF FreshInv, EpochMoved, Fresh, Aside
<1> QED
  BY <1>2, <1>3, <1>8, <1>9, <1>10, <1>11 DEF CallInv

\* A step that moves a call on and touches neither cursors nor cache, or empties the
\* cache.
LEMMA MovedStep ==
  ASSUME CacheInv, NEW r \in Requests, NEW p, <<req[r].at, p>> \in Ways, Goto(r, p),
         Aside, cursors' = cursors,
         req[r].at = "paging" /\ p = "answered" => Agrees(req[r].entry),
         \/ cache' = cache /\ (LateWriter(r) => p \in {"purging", "interrupted"})
         \/ InvalidateList
  PROVE  CacheInv'
<1>1. /\ req' \in [Requests -> Calls] /\ Others(r) /\ Lasts(r)
      /\ CallInv(r)'
  BY MovedCall
<1>2. req'[r].at = p /\ req'[r].late = req[r].late
  BY WentTo, WaysAre
<1>3. DOMAIN cursors \subseteq Requests
  BY TokensAssumption, CapacityAssumption DEF CacheInv, CacheTypeOK, RegistryTypeOK
<1>4. CASE InvalidateList
  BY <1>1, <1>3, <1>4, Invalidated, CallStep
<1>5. CASE cache' = cache /\ (LateWriter(r) => p \in {"purging", "interrupted"})
  <2>1. CacheType(cache') /\ cache' = cache
    BY <1>5 DEF CacheInv, CacheTypeOK, CacheType
  <2>2. LateLasts(r)
    BY <1>2, <1>5 DEF LateLasts, LateWriter
  <2> QED
    BY <1>1, <1>3, <2>1, <2>2, CallStep
<1> QED
  BY <1>4, <1>5

-----------------------------------------------------------------------------
(* The actions of a call.                                                  *)

LEMMA RefreshKeeps ==
  ASSUME CacheInv, NEW r \in Requests, Refresh(r)
  PROVE  CacheInv'
<1>1. <<req[r].at, "asking">> \in Ways /\ Goto(r, "asking") /\ req[r].at = "start"
  BY DEF Refresh, Ways
<1>2. Aside /\ cursors' = cursors /\ cache' = cache
  BY DEF Refresh, Aside, registryVars, notified
<1> QED
  BY <1>1, <1>2, MovedStep DEF LateWriter

LEMMA CorruptKeeps ==
  ASSUME CacheInv, NEW r \in Requests, Corrupt(r)
  PROVE  CacheInv'
<1>1. <<req[r].at, "asking">> \in Ways /\ Goto(r, "asking") /\ req[r].at = "got"
  BY DEF Corrupt, Ways
<1>2. Aside /\ cursors' = cursors /\ InvalidateList
  BY DEF Corrupt, Aside, registryVars, notified
<1> QED
  BY <1>1, <1>2, MovedStep

LEMMA CheckHitKeeps ==
  ASSUME CacheInv, NEW r \in Requests, CheckHit(r)
  PROVE  CacheInv'
<1>1. PICK p \in {"asking", "hit"} : Goto(r, p) /\ req[r].at = "got"
  BY DEF CheckHit
<1>2. <<req[r].at, p>> \in Ways
  BY <1>1 DEF Ways
<1>3. Aside /\ cursors' = cursors /\ cache' = cache
  BY DEF CheckHit, Aside, registryVars, notified
<1> QED
  BY <1>1, <1>2, <1>3, MovedStep DEF LateWriter

LEMMA ReceiveKeeps ==
  ASSUME CacheInv, NEW r \in Requests, Receive(r)
  PROVE  CacheInv'
<1>1. PICK p \in {"fetched", "storing"} : Goto(r, p) /\ req[r].at = "answered"
  BY DEF Receive
<1>2. <<req[r].at, p>> \in Ways
  BY <1>1 DEF Ways
<1>3. Aside /\ cursors' = cursors /\ cache' = cache
  BY DEF Receive, Aside, registryVars, notified
<1> QED
  BY <1>1, <1>2, <1>3, MovedStep DEF LateWriter

\* A late writer finds its epoch moved, and goes to take its entry back.
LEMMA RecheckKeeps ==
  ASSUME CacheInv, NEW r \in Requests, Recheck(r)
  PROVE  CacheInv'
<1>1. req[r].at = "rechecking"
  BY DEF Recheck
<1>2. PICK p \in {"purging", "fetched"} : Goto(r, p) /\ (EpochMoved(r) => p = "purging")
  BY DEF Recheck
<1>3. <<req[r].at, p>> \in Ways
  BY <1>1, <1>2 DEF Ways
<1>4. req[r].late => EpochMoved(r)
  BY <1>1 DEF CacheInv, CallInv, EpochInv
<1>5. Aside /\ cursors' = cursors /\ cache' = cache
  BY DEF Recheck, Aside, registryVars, notified
<1>6. LateWriter(r) => p \in {"purging", "interrupted"}
  BY <1>2, <1>4 DEF LateWriter
<1> QED
  BY <1>1, <1>2, <1>3, <1>5, <1>6, MovedStep

LEMMA PurgeKeeps ==
  ASSUME CacheInv, NEW r \in Requests, Purge(r)
  PROVE  CacheInv'
<1>1. <<req[r].at, "fetched">> \in Ways /\ Goto(r, "fetched") /\ req[r].at = "purging"
  BY DEF Purge, Ways
<1>2. Aside /\ cursors' = cursors /\ InvalidateList
  BY DEF Purge, Aside, registryVars, notified
<1> QED
  BY <1>1, <1>2, MovedStep

LEMMA InterruptKeeps ==
  ASSUME CacheInv, NEW r \in Requests, Interrupt(r)
  PROVE  CacheInv'
<1>1. <<req[r].at, "interrupted">> \in Ways /\ Goto(r, "interrupted")
  BY DEF Interrupt, Ways
<1>2. Aside /\ cursors' = cursors /\ cache' = cache
  BY DEF Interrupt, Aside, registryVars, notified
<1> QED
  BY <1>1, <1>2, MovedStep

\* The cursor of a first page is issued for what the page was cut from.
LEMMA IssueCursorKeeps ==
  ASSUME CacheInv, NEW r \in Requests, IssueCursor(r)
  PROVE  CacheInv'
<1>1. /\ <<req[r].at, "answered">> \in Ways /\ Goto(r, "answered")
      /\ req[r].at = "paging" /\ req[r].key = First
  BY DEF IssueCursor, Ways
<1>2. Aside /\ cache' = cache
  BY DEF IssueCursor, Aside, collection, notified
<1>3. Agrees(req[r].entry)
  BY <1>1 DEF CacheInv, CallInv, HandInv, Own, Agrees
<1>4. /\ req' \in [Requests -> Calls] /\ Others(r) /\ Lasts(r)
      /\ CallInv(r)'
  BY <1>1, <1>2, <1>3, MovedCall
<1>5. req'[r].at = "answered" /\ req'[r].entry = req[r].entry
  BY <1>1, WentTo DEF Places, InFlight
<1>6. DOMAIN cursors \subseteq Requests
  BY TokensAssumption, CapacityAssumption DEF CacheInv, CacheTypeOK, RegistryTypeOK
<1>7. PICK ts \in SUBSET (DOMAIN cursors \ {r}) :
        cursors' = [t \in ts \cup {r} |->
                      IF t = r THEN req[r].entry.reading ELSE cursors[t]]
  BY DEF IssueCursor, Issue
<1>8. /\ DOMAIN cursors' \subseteq Requests
      /\ \A t \in DOMAIN cursors' :
           \/ t \in DOMAIN cursors /\ cursors'[t] = cursors[t]
           \/ cursors'[t] = req'[t].entry.reading /\ req'[t].at \in Settled
  BY <1>5, <1>6, <1>7 DEF Settled
<1>9. CacheType(cache') /\ LateLasts(r)
  BY <1>1, <1>2 DEF CacheInv, CacheTypeOK, CacheType, LateLasts, LateWriter
<1> QED
  BY <1>2, <1>4, <1>8, <1>9, CallStep

\* A cursor that is accepted was issued for the revision and the names the page was cut
\* from: the first page is of the same version, or was read amid a change.
LEMMA ResolveCursorKeeps ==
  ASSUME CacheInv, NEW r \in Requests, ResolveCursor(r)
  PROVE  CacheInv'
<1>1. PICK p \in {"answered", "interrupted"} :
        /\ Goto(r, p)
        /\ p = "answered" => Accepts(req[r].key, req[r].entry.reading)
  BY DEF ResolveCursor
<1>2. req[r].at = "paging" /\ req[r].key # First /\ <<req[r].at, p>> \in Ways
  BY <1>1 DEF ResolveCursor, Ways, InFlight
<1>3. Aside /\ cache' = cache
  BY DEF ResolveCursor, Aside, collection, notified
<1>4. PICK ts \in SUBSET DOMAIN cursors : cursors' = [t \in ts |-> cursors[t]]
  BY DEF ResolveCursor, Prune, Keep
<1>5. p = "answered" => Agrees(req[r].entry)
  <2>1. ASSUME p = "answered" PROVE Agrees(req[r].entry)
    <3> DEFINE k == req[r].key
               first == req[k].entry.reading
               second == req[r].entry.reading
    <3>1. /\ k \in DOMAIN cursors /\ cursors[k].revision = second.revision
          /\ cursors[k].view = second.view
      BY <1>1, <1>4, <2>1 DEF Accepts
    <3>2. cursors[k] = first /\ k \in Requests
      BY <3>1, <1>2, CallType DEF CacheInv, CursorsInv, Keys
    <3>3. req[r].entry.key = k /\ After(req[r].entry)
      BY <1>2 DEF CacheInv, CallInv, HandInv, PageInv, Own
    <3>4. first.data <= second.data
      BY <1>2, <3>3 DEF After
    <3>5. second.data <= second.revision
      BY DEF CacheInv, CallInv, HandInv
    <3>6. /\ first.data \in Nat /\ second.data \in Nat
          /\ first.revision \in Nat /\ second.revision \in Nat
      BY <3>2, CallType, EntryType
    <3>7. first.revision = second.revision /\ first.view = second.view
      BY <3>1, <3>2
    <3>8. second.data = first.data \/ first.revision > first.data
      <4> HIDE DEF first, second
      <4> QED
        BY <3>4, <3>5, <3>6, <3>7
    <3> QED
      BY <3>3, <3>7, <3>8 DEF Agrees
  <2> QED
    BY <2>1
<1>6. /\ req' \in [Requests -> Calls] /\ Others(r) /\ Lasts(r)
      /\ CallInv(r)'
  BY <1>1, <1>2, <1>3, <1>5, MovedCall
<1>7. /\ DOMAIN cursors' \subseteq Requests
      /\ \A t \in DOMAIN cursors' : t \in DOMAIN cursors /\ cursors'[t] = cursors[t]
  BY <1>4, TokensAssumption, CapacityAssumption DEF CacheInv, CacheTypeOK, RegistryTypeOK
<1>8. CacheType(cache') /\ LateLasts(r)
  BY <1>2, <1>3 DEF CacheInv, CacheTypeOK, CacheType, LateLasts, LateWriter
<1> QED
  BY <1>3, <1>6, <1>7, <1>8, CallStep

\* A cursor that the application holds is that of a settled page.
LEMMA KnownSettled ==
  ASSUME CacheInv, NEW k \in KnownCursors
  PROVE  k \in Requests /\ req[k].at \in Settled
<1>1. PICK q \in Requests : req[q].at \in {"hit", "fetched"} /\ k = req[q].entry.by
  BY DEF KnownCursors
<1>2. k \in Requests
  BY <1>1, CallType, EntryType
<1>3. HandInv(q)
  BY DEF CacheInv, CallInv
<1>4. CASE req[q].at = "fetched"
  BY <1>1, <1>2, <1>3, <1>4 DEF HandInv, Own, Settled, Over
<1>5. CASE req[q].at = "hit"
  BY <1>1, <1>2, <1>3, <1>5 DEF HandInv, Wrote, Stored, Settled, Over
<1> QED
  BY <1>1, <1>4, <1>5

LEMMA StartRequestKeeps ==
  ASSUME CacheInv, NEW r \in Requests, StartRequest(r)
  PROVE  CacheInv'
<1>1. req[r].at = "idle"
  BY DEF StartRequest
<1>2. PICK k \in {First} \cup KnownCursors :
        req' = [req EXCEPT ![r].at = "start", ![r].key = k, ![r].epoch = epoch,
                           ![r].amid = (handler.at = "bumped")]
  BY DEF StartRequest
<1>3. Aside /\ cursors' = cursors /\ cache' = cache
  BY DEF StartRequest, Aside, registryVars, notified
<1>4. k \in Keys /\ (k # First => k \in Requests /\ req[k].at \in Settled)
  BY KnownSettled DEF Keys
<1>5. epoch \in Nat /\ (handler.at = "bumped") \in BOOLEAN
  BY DEF CacheInv, CacheTypeOK
<1>6. req \in [Requests -> Calls] /\ req[r] \in Calls
  BY CallType
<1>7. /\ req' \in [Requests -> Calls] /\ Others(r)
      /\ req'[r] = [req[r] EXCEPT !.at = "start", !.key = k, !.epoch = epoch,
                                  !.amid = (handler.at = "bumped")]
  BY <1>2, <1>4, <1>5, <1>6 DEF Calls, Places, InFlight, Others
<1>8. /\ req'[r].at = "start" /\ req'[r].key = k /\ req'[r].epoch = epoch
      /\ req'[r].amid = (handler.at = "bumped")
      /\ req'[r].entry = req[r].entry /\ req'[r].late = req[r].late
  BY <1>6, <1>7 DEF Calls
<1>9. CallInv(r)
  BY DEF CacheInv
<1>10. req[r].at \notin Settled /\ req[r].at \notin Stored /\ ~req[r].late
  BY <1>1, <1>9 DEF CallInv, EpochInv, Settled, Over, Stored
<1>11. Lasts(r) /\ LateLasts(r)
  BY <1>10 DEF Lasts, LateLasts, LateWriter
<1>12. HandInv(r)'
  BY <1>3, <1>8, <1>9 DEF CallInv, HandInv, Aside, Own
<1>13. PageInv(r)'
  <2>1. k # First => req'[k].at \in Settled
    BY <1>4, <1>7, <1>11 DEF Others, Lasts
  <2> QED
    BY <1>8, <2>1 DEF PageInv, Own
<1>14. EpochInv(r)'
  <2>1. ~req'[r].late
    BY <1>8, <1>10, Zenon
  <2>2. handler'.at = "bumped" => req'[r].amid
    BY <1>3, <1>8, Zenon DEF Aside
  <2>3. req'[r].epoch <= epoch'
    BY <1>3, <1>5, <1>8 DEF Aside
  <2> QED
    BY <2>1, <2>2, <2>3 DEF EpochInv
<1>15. FreshInv(r)'
  BY <1>8 DEF FreshInv
<1>16. CacheType(cache') /\ DOMAIN cursors \subseteq Requests
  BY <1>3, TokensAssumption, CapacityAssumption DEF CacheInv, CacheTypeOK,
     RegistryTypeOK, CacheType
<1> QED
  BY <1>3, <1>7, <1>11, <1>12, <1>13, <1>14, <1>15, <1>16, CallStep DEF CallInv

LEMMA MissKeeps ==
  ASSUME CacheInv, NEW r \in Requests, LookUp(r), cache' = cache, Goto(r, "asking")
  PROVE  CacheInv'
<1>1. <<req[r].at, "asking">> \in Ways /\ req[r].at = "start"
  BY DEF LookUp, Ways
<1>2. Aside /\ cursors' = cursors
  BY DEF LookUp, Aside, registryVars, notified
<1> QED
  BY <1>1, <1>2, MovedStep DEF LateWriter

\* What a call gets from the cache is what its writer has stored, and as new as the
\* cache is.
LEMMA FoundKeeps ==
  ASSUME CacheInv, NEW r \in Requests, LookUp(r), NEW e \in Found(req[r].key),
         Touch(e), Take(r, "got", e)
  PROVE  CacheInv'
<1>1. req[r].at = "start" /\ Aside /\ cursors' = cursors
  BY DEF LookUp, Aside, registryVars, notified
<1>2. e \in ToSet(cache) /\ e.key = req[r].key
  BY DEF Found, ToSet
<1>3. e \in Entries
  BY <1>2 DEF CacheInv, CacheTypeOK, ToSet
<1>4. CachedInv(e) /\ CallInv(r)
  BY <1>2 DEF CacheInv
<1>5. /\ req' \in [Requests -> Calls] /\ Others(r)
      /\ req'[r].at = "got" /\ req'[r].key = req[r].key
      /\ req'[r].epoch = req[r].epoch /\ req'[r].entry = e
      /\ req'[r].late = req[r].late /\ req'[r].amid = req[r].amid
  BY <1>3, Took DEF Places, InFlight
<1>6. req[r].at \notin Settled /\ req[r].at \notin Stored /\ ~req[r].late
  BY <1>1, <1>4 DEF CallInv, EpochInv, Settled, Over, Stored
<1>7. Lasts(r) /\ LateLasts(r)
  BY <1>6 DEF Lasts, LateLasts, LateWriter
<1>8. Wrote(e)' /\ After(e)' /\ Agrees(e)' /\ (req[e.by].late => req'[e.by].late)
  BY <1>3, <1>4, <1>5, <1>7, EntryLasts DEF CachedInv
<1>9. e.reading.data <= data /\ e.reading.data <= e.reading.revision
  <2>1. e.by \in Requests /\ e = req[e.by].entry
    BY <1>3, <1>4, EntryType DEF CachedInv, Wrote
  <2>2. HandInv(e.by)
    BY <2>1 DEF CacheInv, CallInv
  <2> QED
    BY <2>1, <2>2 DEF HandInv
<1>10. /\ (Wrote(req[r].entry) <=> Wrote(e))'
       /\ (After(req[r].entry) <=> After(e))' /\ (Agrees(req[r].entry) <=> Agrees(e))'
  BY <1>5
<1>11. HandInv(r)'
  BY <1>1, <1>2, <1>5, <1>8, <1>9, <1>10 DEF HandInv, Aside, Own
<1>12. PageInv(r)'
  <2>1. req[r].key # First => req'[req[r].key].at \in Settled
    <3>1. ASSUME req[r].key # First PROVE req'[req[r].key].at \in Settled
      <4>1. req[r].key \in Requests /\ req[req[r].key].at \in Settled
        BY <1>4, <3>1, CallType DEF Keys, CallInv, PageInv
      <4> QED
        BY <1>5, <1>7, <4>1 DEF Others, Lasts
    <3> QED
      BY <3>1
  <2> QED
    BY <1>5, <1>8, <1>10, <2>1 DEF PageInv
<1>13. EpochInv(r)'
  BY <1>1, <1>4, <1>5, <1>6 DEF CallInv, EpochInv, EpochMoved, Aside
<1>14. FreshInv(r)'
  <2>1. ~EpochMoved(r) => req[r].amid \/ req[e.by].late \/ Fresh(e)
    BY <1>1, <1>4 DEF CachedInv, CallInv, EpochInv, LateWriter
  <2> QED
    BY <1>1, <1>5, <1>8, <2>1 DEF FreshInv, EpochMoved, Fresh, Aside
<1>15. CacheType(cache') /\ ToSet(cache') \subseteq ToSet(cache)
  BY <1>2, Touched
<1>16. DOMAIN cursors \subseteq Requests
  BY TokensAssumption, CapacityAssumption DEF CacheInv, CacheTypeOK, RegistryTypeOK
<1>17. CallInv(r)'
  BY <1>11, <1>12, <1>13, <1>14 DEF CallInv
<1> QED
  BY <1>1, <1>5, <1>7, <1>15, <1>16, <1>17, CallStep

LEMMA LookUpKeeps ==
  ASSUME CacheInv, NEW r \in Requests, LookUp(r)
  PROVE  CacheInv'
<1>1. \/ cache' = cache /\ Goto(r, "asking")
      \/ \E e \in Found(req[r].key) : Touch(e) /\ Take(r, "got", e)
  BY DEF LookUp
<1> QED
  BY <1>1, MissKeeps, FoundKeeps

\* A page is cut from the collection as it is: no older than what has been announced,
\* or than the page it continues.
LEMMA ReadKeeps ==
  ASSUME CacheInv, NEW r \in Requests, Read(r)
  PROVE  CacheInv'
<1>1. PICK e : e = [key |-> req[r].key, reading |-> Reading, by |-> r]
  OBVIOUS
<1>2. /\ req[r].at = "asking" /\ Take(r, "paging", e)
      /\ Aside /\ cursors' = cursors /\ cache' = cache
  BY <1>1 DEF Read, Aside, registryVars, notified
<1>3. req[r].key \in Keys /\ Reading \in Readings
  BY CallType, DataBehind
<1>4. /\ e \in Entries /\ e.key = req[r].key /\ e.by = r
      /\ e.reading.data = data /\ e.reading.revision = revision
  BY <1>1, <1>3 DEF Entries, Reading
<1>5. /\ req' \in [Requests -> Calls] /\ Others(r)
      /\ req'[r].at = "paging" /\ req'[r].key = req[r].key
      /\ req'[r].epoch = req[r].epoch /\ req'[r].entry = e
      /\ req'[r].late = req[r].late /\ req'[r].amid = req[r].amid
  BY <1>2, <1>4, Took DEF Places, InFlight
<1>6. CallInv(r)
  BY DEF CacheInv
<1>7. req[r].at \notin Settled /\ req[r].at \notin Stored /\ ~req[r].late
  BY <1>2, <1>6 DEF CallInv, EpochInv, Settled, Over, Stored
<1>8. Lasts(r) /\ LateLasts(r)
  BY <1>7 DEF Lasts, LateLasts, LateWriter
<1>9. data \in Nat /\ data <= revision
  BY DataBehind
<1>10. HandInv(r)'
  BY <1>2, <1>4, <1>5, <1>9 DEF HandInv, Aside
<1>11. PageInv(r)'
  <2>1. req[r].key # First => /\ req'[req[r].key].at \in Settled
                              /\ req'[req[r].key].entry.reading.data <= data
    <3>1. ASSUME req[r].key # First
          PROVE  /\ req'[req[r].key].at \in Settled
                 /\ req'[req[r].key].entry.reading.data <= data
      <4>1. req[r].key \in Requests /\ req[req[r].key].at \in Settled
        BY <1>6, <3>1, CallType DEF Keys, CallInv, PageInv
      <4>2. req[req[r].key].entry.reading.data <= data
        BY <4>1 DEF CacheInv, CallInv, HandInv
      <4> QED
        BY <1>5, <1>8, <4>1, <4>2 DEF Others, Lasts
    <3> QED
      BY <3>1
  <2>2. After(e)'
    BY <1>4, <2>1 DEF After
  <2>3. (After(req[r].entry) <=> After(e))'
    BY <1>5
  <2> QED
    BY <1>5, <2>1, <2>2, <2>3 DEF PageInv
<1>12. EpochInv(r)'
  BY <1>2, <1>5, <1>6, <1>7 DEF CallInv, EpochInv, EpochMoved, Aside
<1>13. FreshInv(r)'
  <2>1. told <= data /\ handler.data <= data
    BY DEF CacheInv, CacheTypeOK, ServerInv
  <2> QED
    BY <1>2, <1>4, <1>5, <2>1 DEF FreshInv, Fresh, Aside
<1>14. CacheType(cache') /\ DOMAIN cursors \subseteq Requests
  BY <1>2, TokensAssumption, CapacityAssumption DEF CacheInv, CacheTypeOK,
     RegistryTypeOK, CacheType
<1>15. CallInv(r)'
  BY <1>10, <1>11, <1>12, <1>13 DEF CallInv
<1> QED
  BY <1>2, <1>5, <1>8, <1>14, <1>15, CallStep

\* A write whose epoch has moved is a late one; another is as new as the cache is.
LEMMA StoreKeeps ==
  ASSUME CacheInv, NEW r \in Requests, Store(r)
  PROVE  CacheInv'
<1>1. PICK e \in Entries : e = req[r].entry
  BY CallType
<1>2. /\ req[r].at = "storing" /\ Set(e)
      /\ req' = [req EXCEPT ![r].at = "rechecking", ![r].late = EpochMoved(r)]
      /\ Aside /\ cursors' = cursors
  BY <1>1 DEF Store, Aside, registryVars, notified
<1>3. req \in [Requests -> Calls] /\ req[r] \in Calls /\ EpochMoved(r) \in BOOLEAN
  BY CallType DEF EpochMoved
<1>4. /\ req' \in [Requests -> Calls] /\ Others(r)
      /\ req'[r] = [req[r] EXCEPT !.at = "rechecking", !.late = EpochMoved(r)]
  BY <1>2, <1>3 DEF Calls, Places, InFlight, Others
<1>5. /\ req'[r].at = "rechecking" /\ req'[r].key = req[r].key
      /\ req'[r].epoch = req[r].epoch /\ req'[r].entry = e
      /\ req'[r].late = EpochMoved(r) /\ req'[r].amid = req[r].amid
  BY <1>1, <1>3, <1>4 DEF Calls
<1>6. CallInv(r)
  BY DEF CacheInv
<1>7. ~req[r].late
  BY <1>2, <1>6 DEF CallInv, EpochInv, Stored
<1>8. Lasts(r) /\ LateLasts(r)
  BY <1>1, <1>2, <1>5, <1>7 DEF Lasts, LateLasts, LateWriter, Settled, Stored
<1>9. /\ After(e) /\ Agrees(e) /\ e.by = r /\ e.key = req[r].key
      /\ ~EpochMoved(r) => Fresh(e)
  BY <1>1, <1>2, <1>6 DEF CallInv, PageInv, HandInv, FreshInv, Own
<1>10. After(e)' /\ Agrees(e)'
  BY <1>4, <1>8, <1>9, EntryLasts
<1>11. /\ (After(req[r].entry) <=> After(e))' /\ (Agrees(req[r].entry) <=> Agrees(e))'
  BY <1>5
<1>12. HandInv(r)'
  BY <1>1, <1>2, <1>5, <1>6, <1>9 DEF CallInv, HandInv, Aside
<1>13. PageInv(r)'
  <2>1. req[r].key # First => req'[req[r].key].at \in Settled
    <3>1. ASSUME req[r].key # First PROVE req'[req[r].key].at \in Settled
      <4>1. req[r].key \in Requests /\ req[req[r].key].at \in Settled
        BY <1>6, <3>1, CallType DEF Keys, CallInv, PageInv
      <4> QED
        BY <1>4, <1>8, <4>1 DEF Others, Lasts
    <3> QED
      BY <3>1
  <2> QED
    BY <1>5, <1>10, <1>11, <2>1 DEF PageInv
<1>14. EpochInv(r)'
  BY <1>2, <1>5, <1>6 DEF CallInv, EpochInv, EpochMoved, Aside, Stored
<1>15. FreshInv(r)'
  BY <1>5 DEF FreshInv
<1>16. CallInv(r)'
  BY <1>12, <1>13, <1>14, <1>15 DEF CallInv
<1>17. CachedInv(e)'
  <2>1. Wrote(e)'
    BY <1>5, <1>9 DEF Wrote, Stored
  <2>2. LateWriter(e.by)' \/ Fresh(e)
    BY <1>5, <1>9 DEF LateWriter
  <2>3. Fresh(e) => told' <= e.reading.data /\ Fresh(e)'
    BY <1>2 DEF Fresh, Aside
  <2> QED
    BY <1>10, <2>1, <2>2, <2>3 DEF CachedInv
<1>18. CacheType(cache') /\ ToSet(cache') \subseteq ToSet(cache) \cup {e}
  BY <1>2, SetAdds
<1>19. \A f \in ToSet(cache') : (f \in ToSet(cache) /\ LateLasts(r)) \/ CachedInv(f)'
  BY <1>8, <1>17, <1>18
<1>20. DOMAIN cursors \subseteq Requests
  BY TokensAssumption, CapacityAssumption DEF CacheInv, CacheTypeOK, RegistryTypeOK
<1> QED
  BY <1>2, <1>4, <1>8, <1>16, <1>18, <1>19, <1>20, CallStep

-----------------------------------------------------------------------------
(* The steps of the server and of the handler.                             *)

\* A step that leaves the calls and the cache alone, and the handler or the server: the
\* collection grows, cursors are only dropped.
LEMMA CallsAside ==
  ASSUME CacheInv, req' = req, cache' = cache, data' \in Nat, data <= data',
         DOMAIN cursors' \subseteq DOMAIN cursors,
         \A t \in DOMAIN cursors' : cursors'[t] = cursors[t]
  PROVE  /\ CursorsInv'
         /\ \A r \in Requests : HandInv(r)' /\ PageInv(r)'
         /\ \A e : /\ Wrote(e)' <=> Wrote(e)
                   /\ After(e)' <=> After(e)
                   /\ Agrees(e)' <=> Agrees(e)
                   /\ LateWriter(e.by)' <=> LateWriter(e.by)
<1>1. \A e : /\ Wrote(e)' <=> Wrote(e)
             /\ After(e)' <=> After(e)
             /\ Agrees(e)' <=> Agrees(e)
             /\ LateWriter(e.by)' <=> LateWriter(e.by)
  BY DEF Wrote, After, Agrees, LateWriter
<1>2. ASSUME NEW r \in Requests PROVE HandInv(r)' /\ PageInv(r)'
  <2>1. CallInv(r)
    BY DEF CacheInv
  <2>2. req[r].entry.reading.data \in Nat /\ data \in Nat
    BY CallType, EntryType DEF CacheInv, CacheTypeOK, RegistryTypeOK
  <2>3. req[r].entry.reading.data <= data'
    BY <2>1, <2>2 DEF CallInv, HandInv
  <2>4. HandInv(r)'
    BY <2>1, <2>3 DEF CallInv, HandInv, Wrote
  <2>5. PageInv(r)'
    BY <2>1 DEF CallInv, PageInv, After, Agrees
  <2> QED
    BY <2>4, <2>5
<1>3. CursorsInv'
  BY TokensAssumption, CapacityAssumption DEF CacheInv, CursorsInv
<1> QED
  BY <1>1, <1>2, <1>3

LEMMA ServerKeeps ==
  ASSUME CacheInv, req' = req, cache' = cache, handler' = handler, told' = told,
         epoch' = epoch, RegistryTypeOK', ServerInv', data <= data',
         DOMAIN cursors' \subseteq DOMAIN cursors,
         \A t \in DOMAIN cursors' : cursors'[t] = cursors[t]
  PROVE  CacheInv'
<1>1. data' \in Nat
  BY DEF RegistryTypeOK
<1>2. /\ CursorsInv'
      /\ \A r \in Requests : HandInv(r)' /\ PageInv(r)'
      /\ \A e : /\ Wrote(e)' <=> Wrote(e)
                /\ After(e)' <=> After(e)
                /\ Agrees(e)' <=> Agrees(e)
                /\ LateWriter(e.by)' <=> LateWriter(e.by)
  BY <1>1, CallsAside
<1>3. CacheTypeOK'
  <2>1. data \in Nat /\ CacheTypeOK
    BY DEF CacheInv, CacheTypeOK, RegistryTypeOK
  <2>2. told \in Nat /\ told <= data'
    BY <1>1, <2>1 DEF CacheTypeOK
  <2> QED
    BY <2>1, <2>2 DEF CacheTypeOK
<1>4. ASSUME NEW r \in Requests PROVE CallInv(r)'
  <2>1. CallInv(r)
    BY DEF CacheInv
  <2>2. EpochInv(r)' /\ FreshInv(r)'
    BY <2>1 DEF CallInv, EpochInv, FreshInv, EpochMoved, Fresh
  <2> QED
    BY <1>2, <2>2 DEF CallInv
<1>5. ASSUME NEW e \in ToSet(cache)' PROVE CachedInv(e)'
  <2>1. CachedInv(e)
    BY DEF CacheInv, ToSet
  <2> QED
    BY <1>2, <2>1 DEF CachedInv, Fresh
<1> QED
  BY <1>2, <1>3, <1>4, <1>5 DEF CacheInv

LEMMA InvalidateCursorsKeeps ==
  ASSUME CacheInv, NEW c \in Changes, InvalidateCursors(c),
         UNCHANGED <<notified, cache, req>>
  PROVE  CacheInv'
<1>1. /\ change[c].at = "idle"
      /\ change' = [change EXCEPT ![c].at = "invalidated"]
      /\ data' = data /\ view' = view /\ revision' = revision /\ channel' = channel
      /\ handler' = handler /\ told' = told /\ epoch' = epoch /\ cache' = cache
      /\ req' = req
      /\ cursors' = [t \in {} |-> cursors[t]]
  BY DEF InvalidateCursors, collection, notified, Keep
<1>2. RegistryTypeOK /\ ServerInv
  BY DEF CacheInv, CacheTypeOK
<1>3. RegistryTypeOK'
  BY <1>1, <1>2 DEF RegistryTypeOK
<1>4. Bumped' = Bumped
  BY <1>1, <1>2 DEF Bumped, RegistryTypeOK
<1>5. ServerInv'
  BY <1>1, <1>2, <1>4 DEF ServerInv, RegistryTypeOK
<1>6. data <= data'
  BY <1>1, <1>2 DEF RegistryTypeOK
<1> QED
  BY <1>1, <1>3, <1>5, <1>6, ServerKeeps

LEMMA BumpRevisionKeeps ==
  ASSUME CacheInv, NEW c \in Changes, BumpRevision(c), UNCHANGED <<notified, cache, req>>
  PROVE  CacheInv'
<1>1. /\ change[c].at = "invalidated"
      /\ change' = [change EXCEPT ![c].at = "bumped"]
      /\ data' = data /\ view' = view /\ revision' = revision + 1 /\ channel' = channel
      /\ handler' = handler /\ told' = told /\ epoch' = epoch /\ cache' = cache
      /\ req' = req /\ cursors' = cursors
  BY DEF BumpRevision, notified
<1>2. RegistryTypeOK /\ ServerInv
  BY DEF CacheInv, CacheTypeOK
<1>3. RegistryTypeOK'
  BY <1>1, <1>2 DEF RegistryTypeOK
<1>4. Bumped' = Bumped \cup {c} /\ c \notin Bumped
  BY <1>1, <1>2 DEF Bumped, RegistryTypeOK
<1>5. IsFiniteSet(Bumped') /\ Cardinality(Bumped') = Cardinality(Bumped) + 1
      /\ Cardinality(Bumped) \in Nat
  BY <1>2, <1>4, FS_AddElement, FS_CardinalityType DEF ServerInv
<1>6. ServerInv'
  <2>1. revision' = data + Cardinality(Bumped')
    BY <1>1, <1>2, <1>5 DEF ServerInv, RegistryTypeOK
  <2>2. \A d \in Changes : change'[d].data = change[d].data
    BY <1>1, <1>2 DEF RegistryTypeOK
  <2>3. (IsFiniteSet(Bumped) /\ revision = data + Cardinality(Bumped))'
    BY <1>1, <1>5, <2>1
  <2> QED
    BY <1>1, <1>2, <2>2, <2>3 DEF ServerInv
<1>7. data <= data'
  BY <1>1, <1>2 DEF RegistryTypeOK
<1> QED
  BY <1>1, <1>3, <1>6, <1>7, ServerKeeps

LEMMA MutateKeeps ==
  ASSUME CacheInv, NEW c \in Changes, Mutate(c), UNCHANGED <<notified, cache, req>>
  PROVE  CacheInv'
<1>1. /\ change[c].at = "bumped"
      /\ change' = [change EXCEPT ![c] = [at |-> "mutated", data |-> data + 1]]
      /\ data' = data + 1 /\ view' \in {view, view + 1} /\ revision' = revision
      /\ channel' = channel
      /\ handler' = handler /\ told' = told /\ epoch' = epoch /\ cache' = cache
      /\ req' = req /\ cursors' = cursors
  BY DEF Mutate, notified
<1>2. RegistryTypeOK /\ ServerInv /\ data \in Nat /\ view \in 0..data
  BY DEF CacheInv, CacheTypeOK, RegistryTypeOK
<1>3. RegistryTypeOK'
  <2>1. data' \in Nat /\ view' \in 0..data'
    BY <1>1, <1>2
  <2> QED
    BY <1>1, <1>2, <2>1 DEF RegistryTypeOK
<1>4. Bumped' = Bumped \ {c} /\ c \in Bumped
  BY <1>1, <1>2 DEF Bumped, RegistryTypeOK
<1>5. IsFiniteSet(Bumped') /\ Cardinality(Bumped') = Cardinality(Bumped) - 1
      /\ Cardinality(Bumped) \in Nat
  BY <1>2, <1>4, FS_RemoveElement, FS_CardinalityType DEF ServerInv
<1>6. ServerInv'
  <2>1. revision' = data' + Cardinality(Bumped')
    BY <1>1, <1>2, <1>5 DEF ServerInv, RegistryTypeOK
  <2>2. \A d \in Changes : change'[d].data <= data'
    BY <1>1, <1>2 DEF ServerInv, RegistryTypeOK
  <2>3. (IsFiniteSet(Bumped) /\ revision = data + Cardinality(Bumped))'
    BY <1>1, <1>5, <2>1
  <2>4. \A j \in DOMAIN channel : channel[j] <= data'
    BY <1>1, <1>2 DEF ServerInv, RegistryTypeOK
  <2>5. handler.data \in Nat /\ handler.data <= data'
    BY <1>1, <1>2 DEF CacheInv, CacheTypeOK, ServerInv
  <2>6. handler.at = "idle" => handler.data <= told
    BY <1>2 DEF ServerInv
  <2> QED
    BY <1>1, <2>2, <2>3, <2>4, <2>5, <2>6 DEF ServerInv
<1>7. data <= data'
  BY <1>1, <1>2
<1> QED
  BY <1>1, <1>3, <1>6, <1>7, ServerKeeps

LEMMA ExposeKeeps ==
  ASSUME CacheInv, NEW c \in Changes, Expose(c), UNCHANGED <<notified, cache, req>>
  PROVE  CacheInv'
<1>1. /\ change[c].at = "mutated"
      /\ change' = [change EXCEPT ![c].at = "exposed"]
      /\ channel' = Append(channel, change[c].data)
      /\ data' = data /\ view' = view /\ revision' = revision
      /\ handler' = handler /\ told' = told /\ epoch' = epoch /\ cache' = cache
      /\ req' = req /\ cursors' = cursors
  BY DEF Expose, collection, notified
<1>2. RegistryTypeOK /\ ServerInv
  BY DEF CacheInv, CacheTypeOK
<1>3. change[c].data \in Nat /\ change[c].data <= data /\ channel \in Seq(Nat)
  BY <1>2 DEF RegistryTypeOK, ServerInv
<1>4. channel' \in Seq(Nat) /\ \A j \in DOMAIN channel' : channel'[j] <= data
  BY <1>1, <1>2, <1>3 DEF ServerInv
<1>5. RegistryTypeOK'
  BY <1>1, <1>2, <1>4 DEF RegistryTypeOK
<1>6. Bumped' = Bumped
  BY <1>1, <1>2 DEF Bumped, RegistryTypeOK
<1>7. ServerInv'
  BY <1>1, <1>2, <1>4, <1>6 DEF ServerInv, RegistryTypeOK
<1>8. data <= data'
  BY <1>1, <1>2 DEF RegistryTypeOK
<1> QED
  BY <1>1, <1>5, <1>7, <1>8, ServerKeeps

\* The bump: no call that has begun is current any more.
LEMMA UpdateEpochsKeeps ==
  ASSUME CacheInv, UpdateEpochs
  PROVE  CacheInv'
<1>1. /\ handler.at = "idle" /\ channel # <<>>
      /\ handler' = [at |-> "bumped", data |-> Head(channel)]
      /\ channel' = Tail(channel) /\ epoch' = epoch + 1
      /\ data' = data /\ view' = view /\ revision' = revision /\ change' = change
      /\ cursors' = cursors /\ told' = told /\ cache' = cache /\ req' = req
  BY DEF UpdateEpochs, collection
<1>2. CacheTypeOK /\ RegistryTypeOK /\ ServerInv /\ epoch \in Nat /\ data \in Nat
  BY DEF CacheInv, CacheTypeOK, RegistryTypeOK
<1>3. channel \in Seq(Nat) /\ 1 \in DOMAIN channel /\ Head(channel) = channel[1]
  BY <1>1, <1>2 DEF RegistryTypeOK
<1>4. Head(channel) \in Nat /\ Head(channel) <= data
  BY <1>2, <1>3 DEF ServerInv
<1>5. channel' \in Seq(Nat) /\ \A j \in DOMAIN channel' : channel'[j] <= data
  <2>1. /\ channel' \in Seq(Nat) /\ DOMAIN channel' = 1..(Len(channel) - 1)
        /\ Len(channel) \in Nat
        /\ \A j \in 1..(Len(channel) - 1) : channel'[j] = channel[j + 1]
    BY <1>1, <1>3
  <2>2. \A j \in DOMAIN channel' : j + 1 \in DOMAIN channel
    BY <1>3, <2>1
  <2> QED
    BY <1>2, <2>1, <2>2 DEF ServerInv
<1>6. RegistryTypeOK'
  BY <1>1, <1>2, <1>5 DEF RegistryTypeOK
<1>7. CacheTypeOK'
  BY <1>1, <1>2, <1>4, <1>6 DEF CacheTypeOK
<1>8. Bumped' = Bumped
  BY <1>1 DEF Bumped
<1>9. ServerInv'
  BY <1>1, <1>2, <1>4, <1>5, <1>8 DEF ServerInv
<1>10. /\ CursorsInv'
       /\ \A r \in Requests : HandInv(r)' /\ PageInv(r)'
       /\ \A e : /\ Wrote(e)' <=> Wrote(e)
                 /\ After(e)' <=> After(e)
                 /\ Agrees(e)' <=> Agrees(e)
                 /\ LateWriter(e.by)' <=> LateWriter(e.by)
  BY <1>1, <1>2, CallsAside
<1>11. ASSUME NEW r \in Requests PROVE CallInv(r)'
  <2>1. EpochInv(r) /\ req[r].epoch \in Nat
    BY CallType DEF CacheInv, CallInv
  <2>2. EpochMoved(r)' /\ req'[r].epoch <= epoch'
    BY <1>1, <1>2, <2>1 DEF EpochInv, EpochMoved
  <2>3. req'[r].late => req'[r].at \in Stored
    BY <1>1, <2>1 DEF EpochInv
  <2> QED
    BY <1>10, <2>2, <2>3 DEF CallInv, EpochInv, FreshInv
<1>12. ASSUME NEW e \in ToSet(cache)' PROVE CachedInv(e)'
  <2>1. CachedInv(e)
    BY <1>1 DEF CacheInv, ToSet
  <2> QED
    BY <1>1, <1>10, <2>1 DEF CachedInv
<1> QED
  BY <1>7, <1>9, <1>10, <1>11, <1>12 DEF CacheInv

LEMMA InvalidateCacheKeeps ==
  ASSUME CacheInv, InvalidateCache
  PROVE  CacheInv'
<1>1. /\ handler.at = "bumped" /\ handler' = [handler EXCEPT !.at = "purged"]
      /\ InvalidateList
      /\ data' = data /\ view' = view /\ revision' = revision /\ change' = change
      /\ channel' = channel
      /\ cursors' = cursors /\ told' = told /\ epoch' = epoch /\ req' = req
  BY DEF InvalidateCache, registryVars
<1>2. CacheTypeOK /\ RegistryTypeOK /\ ServerInv /\ data \in Nat
  BY DEF CacheInv, CacheTypeOK, RegistryTypeOK
<1>3. /\ handler' \in [at : {"idle", "bumped", "purged"}, data : Nat]
      /\ handler'.at = "purged" /\ handler'.data = handler.data
  BY <1>1, <1>2 DEF CacheTypeOK
<1>4. CacheType(cache') /\ ToSet(cache') = {}
  BY <1>1, Invalidated
<1>5. RegistryTypeOK'
  BY <1>1, <1>2 DEF RegistryTypeOK
<1>6. CacheTypeOK'
  BY <1>1, <1>2, <1>3, <1>4, <1>5 DEF CacheTypeOK, CacheType
<1>7. Bumped' = Bumped
  BY <1>1 DEF Bumped
<1>8. ServerInv'
  BY <1>1, <1>2, <1>3, <1>7 DEF ServerInv
<1>9. CursorsInv'
  BY <1>1, TokensAssumption, CapacityAssumption DEF CacheInv, CursorsInv
<1>10. ASSUME NEW r \in Requests PROVE CallInv(r)'
  <2>1. CallInv(r)
    BY DEF CacheInv
  <2>2. HandInv(r)' /\ PageInv(r)'
    BY <1>1, <2>1 DEF CallInv, HandInv, PageInv, Wrote, After, Agrees
  <2>3. EpochInv(r)' /\ FreshInv(r)'
    BY <1>1, <1>3, <2>1 DEF CallInv, EpochInv, FreshInv, EpochMoved, Fresh
  <2> QED
    BY <2>2, <2>3 DEF CallInv
<1>11. ToSet(cache)' = {}
  BY <1>4 DEF ToSet
<1> QED
  BY <1>6, <1>8, <1>9, <1>10, <1>11 DEF CacheInv

\* The cache is as new as what the application is told.
LEMMA DispatchKeeps ==
  ASSUME CacheInv, Dispatch
  PROVE  CacheInv'
<1>1. /\ handler.at = "purged" /\ handler' = [handler EXCEPT !.at = "idle"]
      /\ told' = IF handler.data > told THEN handler.data ELSE told
      /\ data' = data /\ view' = view /\ revision' = revision /\ change' = change
      /\ channel' = channel
      /\ cursors' = cursors /\ cache' = cache /\ epoch' = epoch /\ req' = req
  BY DEF Dispatch, registryVars
<1>2. CacheTypeOK /\ RegistryTypeOK /\ ServerInv /\ data \in Nat
  BY DEF CacheInv, CacheTypeOK, RegistryTypeOK
<1>3. /\ handler' \in [at : {"idle", "bumped", "purged"}, data : Nat]
      /\ handler'.at = "idle" /\ handler'.data = handler.data
  BY <1>1, <1>2 DEF CacheTypeOK
<1>4. handler.data \in Nat /\ told \in Nat /\ told <= data /\ handler.data <= data
  BY <1>2 DEF CacheTypeOK, ServerInv
<1>5. told' \in Nat /\ told' <= data /\ handler.data <= told'
  BY <1>1, <1>4
<1>6. RegistryTypeOK'
  BY <1>1, <1>2 DEF RegistryTypeOK
<1>7. CacheTypeOK'
  BY <1>1, <1>2, <1>3, <1>5, <1>6 DEF CacheTypeOK
<1>8. Bumped' = Bumped
  BY <1>1 DEF Bumped
<1>9. ServerInv'
  BY <1>1, <1>2, <1>3, <1>5, <1>8 DEF ServerInv
<1>10. /\ CursorsInv'
       /\ \A r \in Requests : HandInv(r)' /\ PageInv(r)'
       /\ \A e : /\ Wrote(e)' <=> Wrote(e)
                 /\ After(e)' <=> After(e)
                 /\ Agrees(e)' <=> Agrees(e)
                 /\ LateWriter(e.by)' <=> LateWriter(e.by)
  BY <1>1, <1>2, CallsAside
<1>11. ASSUME NEW e, Fresh(e) PROVE told' <= e.reading.data /\ Fresh(e)'
  <2>1. told' <= e.reading.data
    BY <1>1, <1>11 DEF Fresh
  <2> QED
    BY <1>3, <1>11, <2>1 DEF Fresh
<1>12. ASSUME NEW r \in Requests PROVE CallInv(r)'
  <2>1. CallInv(r)
    BY DEF CacheInv
  <2>2. EpochInv(r)'
    BY <1>1, <1>3, <2>1 DEF CallInv, EpochInv, EpochMoved
  <2>3. PICK e : e = req[r].entry
    OBVIOUS
  <2>4. Fresh(e) => Fresh(e)'
    BY <1>11
  <2>5. FreshInv(r)'
    BY <1>1, <2>1, <2>3, <2>4 DEF CallInv, FreshInv, EpochMoved, Fresh
  <2> QED
    BY <1>10, <2>2, <2>5 DEF CallInv
<1>13. ASSUME NEW e \in ToSet(cache)' PROVE CachedInv(e)'
  <2>1. CachedInv(e)
    BY <1>1 DEF CacheInv, ToSet
  <2>2. LateWriter(e.by) \/ Fresh(e)
    BY <1>1, <2>1 DEF CachedInv
  <2>3. Fresh(e) => told' <= e.reading.data /\ Fresh(e)'
    BY <1>11
  <2> QED
    BY <1>10, <2>1, <2>2, <2>3 DEF CachedInv
<1> QED
  BY <1>7, <1>9, <1>10, <1>12, <1>13 DEF CacheInv

-----------------------------------------------------------------------------
(* The client's cache, for any calls, changes and capacity.                *)

LEMMA CacheInvInit == CacheInit => CacheInv
<1> SUFFICES ASSUME CacheInit PROVE CacheInv
  OBVIOUS
<1>1. /\ data = 0 /\ view = 0 /\ revision = 0 /\ channel = <<>>
      /\ change = [c \in Changes |-> [at |-> "idle", data |-> 0]]
      /\ cursors = [t \in {} |-> Reading]
      /\ handler = [at |-> "idle", data |-> 0] /\ told = 0 /\ epoch = 0
      /\ cache = <<>>
  BY DEF CacheInit, RegistryInit
<1>2. Reading = [data |-> 0, view |-> 0, revision |-> 0] /\ Reading \in Readings
  BY <1>1 DEF Reading, Readings
<1>3. /\ req \in [Requests -> Calls]
      /\ \A r \in Requests :
           /\ req[r].at = "idle" /\ req[r].key = First /\ req[r].epoch = 0
           /\ ~req[r].late /\ req[r].entry.reading = Reading
  BY <1>2 DEF CacheInit, Calls, Places, Keys, Entries
<1>4. RegistryTypeOK
  BY <1>1, <1>2 DEF RegistryTypeOK
<1>5. CacheTypeOK
  <2>1. cache \in Seq(Entries) /\ Len(cache) = 0 /\ DOMAIN cache = {}
    BY <1>1
  <2> QED
    BY <1>1, <1>3, <1>4, <2>1, TokensAssumption, CapacityAssumption DEF CacheTypeOK,
       Calls, Places
<1>6. ServerInv
  <2>1. Bumped = {}
    BY <1>1 DEF Bumped
  <2>2. IsFiniteSet(Bumped) /\ Cardinality(Bumped) = 0
    BY <2>1, FS_EmptySet
  <2> QED
    BY <1>1, <2>2 DEF ServerInv
<1>7. CursorsInv /\ ToSet(cache) = {}
  BY <1>1 DEF CursorsInv, ToSet
<1>8. ASSUME NEW r \in Requests PROVE CallInv(r)
  <2>1. /\ req[r].at = "idle" /\ req[r].key = First /\ req[r].epoch = 0
        /\ req[r].entry.reading.data = 0 /\ req[r].entry.reading.revision = 0
    <3>1. req[r].at = "idle" /\ req[r].key = First /\ req[r].epoch = 0
          /\ req[r].entry.reading = Reading
      BY <1>3, Zenon
    <3>2. Reading.data = 0 /\ Reading.revision = 0
      BY <1>2
    <3> QED
      BY <3>1, <3>2
  <2>2. ~req[r].late
    BY <1>3, Zenon
  <2>3. HandInv(r)
    BY <1>1, <2>1 DEF HandInv, Own
  <2>4. PageInv(r)
    BY <2>1 DEF PageInv, Own
  <2>5. EpochInv(r)
    BY <1>1, <2>1, <2>2 DEF EpochInv
  <2>6. FreshInv(r)
    BY <2>1 DEF FreshInv
  <2> QED
    BY <2>3, <2>4, <2>5, <2>6 DEF CallInv
<1> QED
  BY <1>5, <1>6, <1>7, <1>8 DEF CacheInv

LEMMA CacheInvStep == CacheInv /\ [CacheNext]_cacheVars => CacheInv'
<1> SUFFICES ASSUME CacheInv, [CacheNext]_cacheVars PROVE CacheInv'
  OBVIOUS
<1>1. ASSUME NEW c \in Changes, CommitRegistryChange(c), UNCHANGED <<notified, cache,
        req>>
      PROVE  CacheInv'
  BY <1>1, InvalidateCursorsKeeps, BumpRevisionKeeps, MutateKeeps, ExposeKeeps
     DEF CommitRegistryChange
<1>2. ASSUME UpdateEpochs \/ InvalidateCache \/ Dispatch PROVE CacheInv'
  BY <1>2, UpdateEpochsKeeps, InvalidateCacheKeeps, DispatchKeeps
<1>3. ASSUME NEW r \in Requests,
             \/ StartRequest(r) \/ Refresh(r) \/ LookUp(r) \/ Corrupt(r) \/ CheckHit(r)
             \/ Read(r) \/ IssueCursor(r) \/ ResolveCursor(r)
             \/ Receive(r) \/ Store(r) \/ Recheck(r) \/ Purge(r)
             \/ Interrupt(r)
      PROVE  CacheInv'
  BY <1>3, StartRequestKeeps, RefreshKeeps, LookUpKeeps, CorruptKeeps, CheckHitKeeps,
     ReadKeeps,
     IssueCursorKeeps, ResolveCursorKeeps, ReceiveKeeps, StoreKeeps, RecheckKeeps,
     PurgeKeeps, InterruptKeeps
<1>4. ASSUME UNCHANGED cacheVars PROVE CacheInv'
  <2>1. /\ data' = data /\ view' = view /\ revision' = revision /\ change' = change
        /\ channel' = channel /\ cursors' = cursors /\ handler' = handler
        /\ told' = told /\ epoch' = epoch /\ cache' = cache /\ req' = req
    BY <1>4 DEF cacheVars, registryVars
  <2>2. CacheTypeOK /\ ServerInv
    BY DEF CacheInv
  <2>3. RegistryTypeOK' /\ data <= data'
    BY <2>1, <2>2 DEF CacheTypeOK, RegistryTypeOK
  <2>4. Bumped' = Bumped
    BY <2>1 DEF Bumped
  <2>5. ServerInv'
    BY <2>1, <2>2, <2>4 DEF ServerInv
  <2> QED
    BY <2>1, <2>3, <2>5, ServerKeeps
<1> QED
  BY <1>1, <1>2, <1>3, <1>4 DEF CacheNext

\* The invariant of the client's cache holds in every reachable state.
THEOREM CacheInvariance == CacheSpec => []CacheInv
<1>1. CacheInit => CacheInv
  BY CacheInvInit
<1>2. CacheInv /\ [CacheNext]_cacheVars => CacheInv'
  BY CacheInvStep
<1> QED
  BY <1>1, <1>2, PTL DEF CacheSpec

\* The cache, the calls and the server's registry keep their types; the memory cache
\* keeps to its capacity and has one entry for a key.
THEOREM CacheTypeCorrect == CacheSpec => []CacheTypeOK
<1>1. CacheInv => CacheTypeOK
  BY DEF CacheInv
<1> QED
  BY <1>1, CacheInvariance, PTL

\* No page older than what the application was told stays in the cache, but for that of
\* a late writer: the epochs that sendRequest checks suffice.
THEOREM StaleExplained == CacheSpec => []StaleIsExplained
<1>1. ASSUME CacheInv PROVE StaleIsExplained
  <2>1. ASSUME NEW e \in ToSet(cache), e.reading.data < told PROVE LateWriter(e.by)
    <3>1. CachedInv(e) /\ e \in Entries /\ told \in Nat
      BY <1>1, <2>1 DEF CacheInv, CacheTypeOK, ToSet
    <3>2. ~(told <= e.reading.data)
      BY <2>1, <3>1, EntryType
    <3> QED
      BY <3>1, <3>2 DEF CachedInv
  <2> QED
    BY <2>1 DEF StaleIsExplained
<1>2. CacheInv => StaleIsExplained
  BY <1>1
<1> QED
  BY <1>2, CacheInvariance, PTL

\* The pages of a traversal agree, but for a first page read between the bump of a
\* revision and its mutation: what paginate's cursors promise, with the cache between.
THEOREM TraversalAgrees == CacheSpec => []PagesAgree
<1>1. ASSUME CacheInv PROVE PagesAgree
  <2>1. ASSUME NEW r \in Requests, req[r].key # First, req[r].at \in {"hit", "fetched"}
        PROVE  Agrees(req[r].entry) /\ req[r].entry.key = req[r].key
    <3>1. CallInv(r)
      BY <1>1 DEF CacheInv
    <3> QED
      BY <2>1, <3>1 DEF CallInv, HandInv, PageInv, Own
  <2> QED
    BY <2>1 DEF PagesAgree, Agrees
<1>2. CacheInv => PagesAgree
  BY <1>1
<1> QED
  BY <1>2, CacheInvariance, PTL

\* Only CheckHit answers from the cache.
LEMMA HitComes ==
  ASSUME CacheInv, [CacheNext]_cacheVars, NEW r \in Requests, req[r].at # "hit",
     req'[r].at = "hit"
  PROVE  req[r].at = "got" /\ ~EpochMoved(r)
<1>1. req \in [Requests -> Calls]
  BY CallType
<1>2. req' # req
  OBVIOUS
<1>3. PICK q \in Requests :
        \/ StartRequest(q) \/ Refresh(q) \/ LookUp(q) \/ Corrupt(q) \/ CheckHit(q)
        \/ Read(q) \/ IssueCursor(q) \/ ResolveCursor(q)
        \/ Receive(q) \/ Store(q) \/ Recheck(q) \/ Purge(q)
        \/ Interrupt(q)
  BY <1>2 DEF CacheNext, cacheVars, UpdateEpochs, InvalidateCache, Dispatch
<1>4. CASE \/ Refresh(q) \/ Corrupt(q) \/ CheckHit(q)
           \/ IssueCursor(q) \/ ResolveCursor(q)
           \/ Receive(q) \/ Recheck(q) \/ Purge(q) \/ Interrupt(q)
  <2>1. PICK p \in Places : Goto(q, p) /\ (p = "hit" => CheckHit(q) /\ ~EpochMoved(q))
    BY <1>4 DEF Refresh, Corrupt, CheckHit, IssueCursor, ResolveCursor, Receive, Recheck,
       Purge, Interrupt, Places, InFlight, Over
  <2>2. Others(q) /\ req'[q].at = p
    BY <2>1, WentTo
  <2>3. q = r /\ p = "hit"
    BY <2>2 DEF Others
  <2> QED
    BY <2>1, <2>3 DEF CheckHit
<1>5. CASE StartRequest(q) \/ LookUp(q) \/ Read(q) \/ Store(q)
  <2>1. \A s \in Requests : req'[s].at = req[s].at \/ req'[s].at # "hit"
    <3>1. CASE StartRequest(q)
      BY <1>1, <3>1 DEF StartRequest, Calls
    <3>2. CASE LookUp(q)
      BY <1>1, <3>2 DEF LookUp, Goto, Take, Calls
    <3>3. CASE Read(q)
      BY <1>1, <3>3 DEF Read, Take, Calls
    <3>4. CASE Store(q)
      BY <1>1, <3>4 DEF Store, Calls
    <3> QED
      BY <1>5, <3>1, <3>2, <3>3, <3>4
  <2> QED
    BY <2>1
<1> QED
  BY <1>3, <1>4, <1>5

\* What CheckHit answers from the cache is as new as what the application knows, but for
\* a late writer's entry or a call that began between the bump and the invalidation.
THEOREM HitsCurrent == CacheSpec => HitsAreCurrent
<1>1. ASSUME CacheInv, [CacheNext]_cacheVars, NEW r \in Requests,
             req[r].at # "hit", req'[r].at = "hit"
      PROVE  \/ req[r].entry.reading.data >= told
             \/ req[req[r].entry.by].late
             \/ req[r].amid
  <2>1. req[r].at = "got" /\ ~EpochMoved(r)
    BY <1>1, HitComes
  <2>2. FreshInv(r)
    BY <1>1 DEF CacheInv, CallInv
  <2>3. told \in Nat /\ req[r].entry.reading.data \in Nat
    BY <1>1, CallType, EntryType DEF CacheInv, CacheTypeOK
  <2>4. told <= req[r].entry.reading.data => req[r].entry.reading.data >= told
    BY <2>3
  <2>5. req[r].amid \/ req[req[r].entry.by].late \/ told <= req[r].entry.reading.data
    BY <2>1, <2>2 DEF FreshInv, Fresh
  <2> QED
    BY <2>4, <2>5, Zenon
<1>2. CacheInv /\ [CacheNext]_cacheVars =>
        [\A r \in Requests :
           req[r].at # "hit" /\ req'[r].at = "hit" =>
             \/ req[r].entry.reading.data >= told
             \/ req[req[r].entry.by].late
             \/ req[r].amid]_cacheVars
  BY <1>1
<1> QED
  BY <1>2, CacheInvariance, PTL DEF CacheSpec, HitsAreCurrent
=============================================================================
