-------------------------- MODULE OAuthClientProofs --------------------------
(***************************************************************************)
(* Proofs about OAuthClient, for any number of calls: the store loses no   *)
(* grant that works but those the code removes without knowing, a spent    *)
(* grant is on its way out, and the remembered handle dangles only until   *)
(* it is forgotten or because it came late.                                *)
(***************************************************************************)
EXTENDS OAuthClient, SequenceTheorems, TLAPS

\* TypeOK's type of a call.
Ats == {"idle", "over"} \cup Working \cup Removing
JobKinds == {"request", "acquire"}
Statuses == {0, 401, 403}
Thens == {"", "miss", "adopt", "authorize", "discard", "fail"}
CallType ==
  [at : Ats, job : JobKinds, want : Levels, need : Levels, client : Nat, hand : Nat,
   read : Nat, fresh : Nat, prior : Nat, searched : BOOLEAN, retried : BOOLEAN,
   status : Statuses, victim : Nat, then : Thens]

\* A grant that does not work any more, and one the call k has found wanting: it does
\* not work, or another took its place after k had read it.
Bad(g, h) == g[h].expired \/ g[h].revoked
Judged(k, g, h) == k.read <= g[h].saves /\ (Bad(g, h) \/ k.read < g[h].saves)

\* The handles a call holds name grants that were saved.
CallCore(k, g) ==
  /\ k.hand \in 0..Len(g) /\ k.fresh \in 0..Len(g)
  /\ k.prior \in 0..Len(g) /\ k.victim \in 0..Len(g)

\* What a call that stands at a step has in its hands: only a grant found wanting is
\* refreshed, and what goes was found wanting, or was saved by the call itself.
AtInv(at, k, g) ==
  /\ at \in {"read", "use", "refresh", "present", "save", "verify"} => k.hand # None
  /\ at = "use" => k.read <= g[k.hand].saves
  /\ at \in {"refresh", "present", "save", "verify"} => Judged(k, g, k.hand)
  /\ at \in {"verify", "confirm", "adopt"} => k.fresh # None
  /\ at = "validated" => k.prior # None
  /\ (at \in {"challenged", "validated"} /\ k.status = 401 /\ k.prior # None) =>
       Judged(k, g, k.prior)
  /\ at \in Removing => k.victim # None /\ k.then # ""
  /\ (at \in Removing /\ k.then = "adopt") => k.fresh # None
  /\ (at \in Removing /\ k.then \in {"adopt", "discard"}) =>
       k.hand # None /\ Judged(k, g, k.hand)
  /\ at = "remove" =>
       \/ Judged(k, g, k.victim)
       \/ k.victim = k.fresh /\ k.then \in {"discard", "fail"}

CallInv(k, g) == CallCore(k, g) /\ AtInv(k.at, k, g)

\* A spent grant is taken out by a call that stands at one of these steps.
Leaving(c, h) ==
  /\ call[c].hand = h
  /\ \/ call[c].at \in {"present", "save"}
     \/ call[c].at = "verify" /\ call[c].fresh # h
     \/ call[c].at = "remove" /\ call[c].victim = h
     \/ call[c].at \in Removing /\ call[c].then = "discard"

SpentInv ==
  \A h \in stored : grants[h].spent => grants[h].left \/ \E c \in Calls : Leaving(c, h)

\* The inductive invariant.
Inv ==
  /\ TypeOK
  /\ \A c \in Calls : CallInv(call[c], grants)
  /\ SpentInv
  /\ DanglingIsLate

-----------------------------------------------------------------------------
(* What the store may do in a step.                                        *)

LEMMA MoreHandles ==
  ASSUME NEW n \in Nat, NEW m \in Nat, n <= m, NEW h \in 1..n
  PROVE  h \in Nat /\ h # None /\ h \in 0..m /\ h \in 1..m
BY DEF None

LEMMA OneMoreHandle ==
  ASSUME NEW n \in Nat, NEW s \in SUBSET (1..n), NEW t, t = s \cup {n + 1},
         NEW m \in Nat, m = n + 1
  PROVE  t \subseteq 1..m
OBVIOUS

LEMMA SavesAreNats ==
  ASSUME NEW g \in Seq(Grant)
  PROVE  \A h \in 1..Len(g) : g[h] \in Grant /\ g[h].saves \in Nat
<1>1. \A h \in 1..Len(g) : g[h] \in Grant
  OBVIOUS
<1> QED
  BY <1>1 DEF Grant

\* Grants are never forgotten by the history, and what happened to one stays, unless
\* the store puts another in its place.
Later(g, n) ==
  /\ Len(g) <= Len(n)
  /\ \A h \in 1..Len(g) : /\ g[h].saves <= n[h].saves
                          /\ Bad(g, h) => Bad(n, h) \/ g[h].saves < n[h].saves

LEMMA JudgedKept ==
  ASSUME NEW g \in Seq(Grant), NEW n \in Seq(Grant), Later(g, n),
         NEW k \in CallType, NEW h \in 1..Len(g)
  PROVE  /\ k.read <= g[h].saves => k.read <= n[h].saves
         /\ Judged(k, g, h) => Judged(k, n, h)
<1>1. Len(g) \in Nat /\ Len(n) \in Nat /\ Len(g) <= Len(n)
  BY LenProperties DEF Later
<1>2. h \in 1..Len(n)
  BY <1>1
<1>3. g[h].saves \in Nat /\ n[h].saves \in Nat /\ k.read \in Nat
  BY <1>2, SavesAreNats DEF CallType
<1>4. g[h].saves <= n[h].saves /\ (Bad(g, h) => Bad(n, h) \/ g[h].saves < n[h].saves)
  BY DEF Later
<1>5. k.read <= g[h].saves => k.read <= n[h].saves
  BY <1>3, <1>4
<1>6. k.read < g[h].saves => k.read < n[h].saves
  BY <1>3, <1>4
<1>7. k.read <= g[h].saves /\ g[h].saves < n[h].saves => k.read < n[h].saves
  BY <1>3
<1> QED
  BY <1>4, <1>5, <1>6, <1>7 DEF Judged

LEMMA CallInvKept ==
  ASSUME NEW g \in Seq(Grant), NEW n \in Seq(Grant), Later(g, n),
         NEW k \in CallType, CallInv(k, g)
  PROVE  CallInv(k, n)
<1>1. /\ k.hand \in Nat /\ k.fresh \in Nat /\ k.prior \in Nat /\ k.victim \in Nat
      /\ Len(g) \in Nat /\ Len(n) \in Nat
  <2>1. k.hand \in Nat /\ k.fresh \in Nat /\ k.prior \in Nat /\ k.victim \in Nat
    BY DEF CallType
  <2> QED
    BY <2>1, LenProperties
<1>2. CallCore(k, n)
  BY <1>1 DEF CallInv, CallCore, Later
<1>3. /\ k.hand # None => k.hand \in 1..Len(g)
      /\ k.prior # None => k.prior \in 1..Len(g)
      /\ k.victim # None => k.victim \in 1..Len(g)
  BY <1>1 DEF CallInv, CallCore, None
<1>4. /\ k.hand # None /\ k.read <= g[k.hand].saves => k.read <= n[k.hand].saves
      /\ k.hand # None /\ Judged(k, g, k.hand) => Judged(k, n, k.hand)
      /\ k.prior # None /\ Judged(k, g, k.prior) => Judged(k, n, k.prior)
      /\ k.victim # None /\ Judged(k, g, k.victim) => Judged(k, n, k.victim)
  BY <1>3, JudgedKept
<1>5. AtInv(k.at, k, n)
  <2>1. k.at \in {"read", "use", "refresh", "present", "save", "verify"} => k.hand # None
    BY DEF CallInv, AtInv
  <2>2. k.at = "remove" => k.victim # None
    BY DEF CallInv, AtInv, Removing
  <2>3. AtInv(k.at, k, g)
    BY DEF CallInv
  <2>4. k.at = "use" => k.read <= n[k.hand].saves
    BY <1>4, <2>1, <2>3, Zenon DEF AtInv
  <2>5. k.at \in {"refresh", "present", "save", "verify"} => Judged(k, n, k.hand)
    <3>1. k.at \in {"refresh", "present", "save", "verify"} =>
            k.at \in {"read", "use", "refresh", "present", "save", "verify"}
      OBVIOUS
    <3> QED
      BY <1>4, <2>1, <2>3, <3>1, Zenon DEF AtInv
  <2>6. (k.at \in {"challenged", "validated"} /\ k.status = 401 /\ k.prior # None) =>
          Judged(k, n, k.prior)
    BY <1>4, <2>3, Zenon DEF AtInv
  <2>7. (k.at \in Removing /\ k.then \in {"adopt", "discard"}) =>
          k.hand # None /\ Judged(k, n, k.hand)
    BY <1>4, <2>3, Zenon DEF AtInv
  <2>8. k.at = "remove" =>
          Judged(k, n, k.victim) \/ (k.victim = k.fresh /\ k.then \in {"discard", "fail"})
    BY <1>4, <2>2, <2>3, Zenon DEF AtInv
  <2> QED
    BY <2>3, <2>4, <2>5, <2>6, <2>7, <2>8, Zenon DEF AtInv
<1> QED
  BY <1>2, <1>5 DEF CallInv

LEMMA GrantIsSet ==
  ASSUME NEW g \in Seq(Grant), NEW h \in 1..Len(g), NEW r \in Grant,
         NEW n, n = [g EXCEPT ![h] = r]
  PROVE  /\ n \in Seq(Grant) /\ Len(n) = Len(g) /\ n[h] = r
         /\ \A i \in 1..Len(g) : i # h => n[i] = g[i]
  OBVIOUS

LEMMA GrantIsAdded ==
  ASSUME NEW g \in Seq(Grant), NEW r \in Grant, NEW n, n = Append(g, r)
  PROVE  /\ n \in Seq(Grant) /\ Len(n) = Len(g) + 1 /\ n[Len(g) + 1] = r
         /\ \A i \in 1..Len(g) : n[i] = g[i]
  OBVIOUS

-----------------------------------------------------------------------------
(* What a call becomes in a step.                                          *)

Becomes(c, m) == call' = [call EXCEPT ![c] = m]

\* Steps at which nothing is asked of the handles in hand.
Free == {"idle", "over", "lookup", "recall", "find", "send", "authorize",
         "register", "interact", "callback", "exchange"}

\* m is k at such a step, with at most some of the handles dropped.
Eased(k, m) ==
  /\ m \in CallType /\ m.at \in Free
  /\ m.hand \in {k.hand, None} /\ m.fresh \in {k.fresh, None}
  /\ m.prior \in {k.prior, None} /\ m.victim \in {k.victim, None}

LEMMA FreeAsksNothing ==
  ASSUME NEW at \in Free, NEW k, NEW g
  PROVE  AtInv(at, k, g)
<1>1. /\ at \notin {"read", "use", "refresh", "present", "save", "verify"}
      /\ at # "use" /\ at \notin {"refresh", "present", "save", "verify"}
      /\ at \notin {"verify", "confirm", "adopt"} /\ at # "validated"
      /\ at \notin {"challenged", "validated"} /\ at \notin Removing /\ at # "remove"
  BY DEF Free, Removing
<1> QED
  BY <1>1, Zenon DEF AtInv

LEMMA EasedIsGood ==
  ASSUME NEW g \in Seq(Grant), NEW k, NEW m, CallCore(k, g), Eased(k, m)
  PROVE  CallInv(m, g)
<1>1. AtInv(m.at, m, g)
  BY FreeAsksNothing DEF Eased
<1>2. Len(g) \in Nat
  BY LenProperties
<1>3. CallCore(m, g)
  BY <1>2 DEF CallCore, Eased, None
<1> QED
  BY <1>1, <1>3 DEF CallInv

LEMMA FreeAts == Free \subseteq Ats
BY DEF Free, Ats, Working

\* A call that is sent to such a step with the handle in hand, or with none.
LEMMA EasedAt ==
  ASSUME NEW k \in CallType, NEW there \in Free, NEW h \in {k.hand, None},
         NEW b \in BOOLEAN
  PROVE  /\ Eased(k, [k EXCEPT !.at = there])
         /\ Eased(k, [k EXCEPT !.hand = h, !.at = there])
         /\ Eased(k, [k EXCEPT !.hand = h, !.searched = b, !.at = there])
<1>1. there \in Ats /\ h \in Nat
  BY FreeAts DEF CallType, None
<1> QED
  BY <1>1 DEF Eased, CallType

\* A call that asks for nothing, or is over.
LEMMA IdleType ==
  ASSUME NEW job \in JobKinds, NEW want \in Levels, NEW need \in Levels,
         NEW k, k = Idle(job, want, need)
  PROVE  /\ k \in CallType /\ k.at = "idle" /\ k.hand = 0 /\ k.fresh = 0
         /\ k.prior = 0 /\ k.victim = 0 /\ k.status = 0
<1>1. "idle" \in Ats /\ 0 \in Statuses /\ "" \in Thens
  BY DEF Ats, Statuses, Thens
<1> QED
  BY <1>1 DEF Idle, CallType, None

LEMMA EndedEases ==
  ASSUME NEW k \in CallType
  PROVE  Ended(k) \in CallType /\ Ended(k).at = "over" /\ Eased(k, Ended(k))
<1> DEFINE i == Idle(k.job, k.want, k.need)
           m == [i EXCEPT !.at = "over"]
<1>1. k.job \in JobKinds /\ k.want \in Levels /\ k.need \in Levels
  BY DEF CallType
<1>2. /\ i \in CallType /\ i.hand = 0 /\ i.fresh = 0 /\ i.prior = 0 /\ i.victim = 0
  BY <1>1, IdleType
<1>3. "over" \in Ats /\ "over" \in Free
  BY DEF Ats, Free
<1> HIDE DEF i
<1>4. /\ m \in CallType /\ m.at = "over" /\ m.hand = 0 /\ m.fresh = 0 /\ m.prior = 0
      /\ m.victim = 0
  BY <1>2, <1>3 DEF CallType
<1>5. Ended(k) = m
  BY DEF Ended, i
<1> HIDE DEF m
<1> QED
  BY <1>3, <1>4, <1>5 DEF Eased, None

LEMMA ReadyEases ==
  ASSUME NEW k \in CallType
  PROVE  Eased(k, Ready(k))
<1>1. Ready(k) = Ended(k) \/ \E there \in Free : Ready(k) = [k EXCEPT !.at = there]
  <2>1. {"send", "authorize"} \subseteq Free
    BY DEF Free
  <2> QED
    BY <2>1 DEF Ready
<1> QED
  BY <1>1, EasedAt, EndedEases

LEMMA MissEases ==
  ASSUME NEW k \in CallType
  PROVE  Eased(k, Miss(k))
<1> DEFINE n == [k EXCEPT !.hand = None]
<1>1. n \in CallType /\ n.hand = None /\ n.fresh = k.fresh /\ n.prior = k.prior
      /\ n.victim = k.victim
  BY DEF CallType, None
<1>2. Miss(k) = Ready(n) \/ Miss(k) = [k EXCEPT !.hand = None, !.at = "find"]
  BY Zenon DEF Miss
<1> HIDE DEF n
<1>3. Eased(k, Ready(n))
  BY <1>1, ReadyEases DEF Eased
<1>4. Eased(k, [k EXCEPT !.hand = None, !.at = "find"])
  <2>1. "find" \in Free /\ None \in {k.hand, None} /\ TRUE \in BOOLEAN
    BY DEF Free
  <2> QED
    BY <2>1, EasedAt, Zenon
<1> QED
  BY <1>2, <1>3, <1>4

LEMMA CoveredEases ==
  ASSUME NEW k \in CallType
  PROVE  Eased(k, Covered(k))
BY ReadyEases, MissEases DEF Covered

LEMMA HoldingType ==
  ASSUME NEW k \in CallType, NEW h \in Nat
  PROVE  /\ Holding(k, h) \in CallType /\ Holding(k, h).hand = h
         /\ Holding(k, h).fresh = None /\ Holding(k, h).prior = None
         /\ Holding(k, h).victim = None
<1>1. 0 \in Statuses /\ "" \in Thens /\ 0 \in Nat
  BY DEF Statuses, Thens
<1> QED
  BY <1>1 DEF Holding, CallType, None

LEMMA CallTypes ==
  ASSUME TypeOK
  PROVE  /\ call \in [Calls -> CallType] /\ grants \in Seq(Grant) /\ Len(grants) \in Nat
         /\ clients \in Nat /\ stored \subseteq 1..Len(grants)
         /\ late \subseteq 1..Len(grants) /\ remembered \in 0..Len(grants)
<1>1. call \in [Calls -> CallType]
  BY Zenon DEF TypeOK, CallType, Ats, JobKinds, Statuses, Thens
<1>2. grants \in Seq(Grant) /\ Len(grants) \in Nat
  BY LenProperties DEF TypeOK
<1>3. /\ clients \in Nat /\ stored \subseteq 1..Len(grants)
      /\ late \subseteq 1..Len(grants) /\ remembered \in 0..Len(grants)
  <2>1. /\ clients \in Nat /\ stored \subseteq Handles
        /\ late \subseteq Handles /\ remembered \in Handles \cup {None}
    BY DEF TypeOK
  <2> QED
    BY <1>2, <2>1 DEF Handles, None
<1> QED
  BY <1>1, <1>2, <1>3

LEMMA BecomesSets ==
  ASSUME call \in [Calls -> CallType], NEW c \in Calls, NEW m \in CallType, Becomes(c, m)
  PROVE  /\ call' \in [Calls -> CallType] /\ call'[c] = m
         /\ \A d \in Calls : d # c => call'[d] = call[d]
BY DEF Becomes

\* m holds what k holds.
Holds(k, m) ==
  /\ m.hand = k.hand /\ m.read = k.read /\ m.fresh = k.fresh /\ m.prior = k.prior
  /\ m.victim = k.victim /\ m.status = k.status /\ m.then = k.then

\* The three ways most steps end.
LEMMA GotoBecomes ==
  ASSUME call \in [Calls -> CallType], NEW c \in Calls,
         NEW there \in Ats, Goto(c, there)
  PROVE  \E m \in CallType : Becomes(c, m) /\ m.at = there /\ Holds(call[c], m)
<1> DEFINE m == [call[c] EXCEPT !.at = there]
<1>1. m \in CallType /\ m.at = there /\ Holds(call[c], m)
  BY DEF CallType, Holds
<1>2. Becomes(c, m)
  BY DEF Goto, Becomes
<1> QED
  BY <1>1, <1>2

LEMMA EndBecomes ==
  ASSUME call \in [Calls -> CallType], NEW c \in Calls, End(c)
  PROVE  \E m \in CallType : Becomes(c, m) /\ Eased(call[c], m) /\ m.at = "over"
<1>1. Ended(call[c]) \in CallType /\ Ended(call[c]).at = "over"
      /\ Eased(call[c], Ended(call[c]))
  BY EndedEases
<1>2. Becomes(c, Ended(call[c]))
  BY DEF End, Becomes
<1> QED
  BY <1>1, <1>2

LEMMA RemovalBecomes ==
  ASSUME call \in [Calls -> CallType], NEW c \in Calls, NEW h \in Nat,
         NEW next \in Thens, Removal(c, h, next), NEW m, m = Removed(call[c], h, next)
  PROVE  /\ m \in CallType /\ Becomes(c, m) /\ m.at = "remove" /\ m.victim = h
         /\ m.then = next /\ m.hand = call[c].hand /\ m.read = call[c].read
         /\ m.fresh = call[c].fresh /\ m.prior = call[c].prior
<1>1. "remove" \in Ats
  BY DEF Ats, Removing
<1>2. /\ m \in CallType /\ m.at = "remove" /\ m.victim = h
      /\ m.then = next /\ m.hand = call[c].hand /\ m.read = call[c].read
      /\ m.fresh = call[c].fresh /\ m.prior = call[c].prior
  BY <1>1, ZenonT(60) DEF Removed, CallType
<1>3. Becomes(c, m)
  BY DEF Removed, Removal, Becomes, CallType
<1> QED
  BY <1>2, <1>3

\* The scopes an authorization asks for are a level.
LEMMA RequestedIsLevel ==
  ASSUME NEW k \in CallType, k.prior # None => grants[k.prior].level \in Levels
  PROVE  Requested(k) \in Levels
<1> DEFINE S == {k.want} \cup (IF k.prior = None THEN {} ELSE {grants[k.prior].level})
               \cup (IF k.status = 403 THEN {k.need} ELSE {})
<1>1. S \subseteq {1, 2} /\ k.want \in S
  BY DEF CallType, Levels
<1> HIDE DEF S
<1>2. \E x \in S : \A y \in S : x >= y
  <2>1. CASE 2 \in S
    BY <1>1, <2>1
  <2>2. CASE 2 \notin S
    <3>1. \A y \in S : y = 1
      BY <1>1, <2>2
    <3>2. 1 \in S
      BY <1>1, <3>1
    <3> QED
      BY <3>1, <3>2
  <2> QED
    BY <2>1, <2>2
<1>3. Max(S) \in S
  BY <1>2 DEF Max
<1> QED
  BY <1>1, <1>3 DEF Requested, Levels, S

-----------------------------------------------------------------------------
(* What the store becomes in a step.                                       *)

\* The store after a step: a grant that is spent was stored and spent before, or is one
\* of `now`, and if it had been left it still is.
StoreLater(now) ==
  /\ grants' \in Seq(Grant) /\ Len(grants') \in Nat
  /\ stored' \subseteq 1..Len(grants')
  /\ Later(grants, grants')
  /\ \A h \in stored' : grants'[h].spent =>
       /\ h \in stored /\ (grants[h].spent \/ h \in now)
       /\ grants[h].left => grants'[h].left

LEMMA SameStore ==
  ASSUME TypeOK, UNCHANGED grants, stored' \subseteq stored
  PROVE  StoreLater({})
<1>1. grants \in Seq(Grant) /\ Len(grants) \in Nat /\ stored \subseteq 1..Len(grants)
  BY CallTypes
<1>2. \A h \in 1..Len(grants) : grants[h].saves \in Nat
  BY <1>1, SavesAreNats
<1>3. Later(grants, grants')
  BY <1>1, <1>2 DEF Later, Bad
<1>4. \A h \in stored' : h \in stored /\ grants'[h] = grants[h]
  OBVIOUS
<1> QED
  BY <1>1, <1>3, <1>4 DEF StoreLater

LEMMA MarkedStore ==
  ASSUME TypeOK, NEW h \in 1..Len(grants), NEW r \in Grant, stored' \subseteq stored,
         grants' = [grants EXCEPT ![h] = r],
         grants[h].expired => r.expired, grants[h].revoked => r.revoked,
         grants[h].left => r.left, r.saves = grants[h].saves
  PROVE  StoreLater(IF r.spent /\ ~grants[h].spent THEN {h} ELSE {})
<1>1. grants \in Seq(Grant) /\ Len(grants) \in Nat /\ stored \subseteq 1..Len(grants)
      /\ \A i \in 1..Len(grants) : grants[i].saves \in Nat
  BY CallTypes, SavesAreNats
<1>2. /\ grants' \in Seq(Grant) /\ Len(grants') = Len(grants) /\ grants'[h] = r
      /\ \A i \in 1..Len(grants) : i # h => grants'[i] = grants[i]
  BY <1>1, GrantIsSet
<1>3. Later(grants, grants')
  BY <1>1, <1>2 DEF Later, Bad
<1>4. \A i \in stored' : grants'[i].spent =>
        /\ grants[i].spent \/ (i = h /\ r.spent /\ ~grants[h].spent)
        /\ grants[i].left => grants'[i].left
  BY <1>1, <1>2
<1>5. stored' \subseteq 1..Len(grants')
  BY <1>1, <1>2
<1> QED
  BY <1>1, <1>2, <1>3, <1>4, <1>5 DEF StoreLater

LEMMA NewGrantType ==
  ASSUME NEW level \in Levels, NEW client \in Nat, NEW refreshable \in BOOLEAN
  PROVE  NewGrant(level, client, refreshable) \in Grant
         /\ ~NewGrant(level, client, refreshable).spent
BY DEF NewGrant, Grant

\* saveGrant returns the handle of a grant nobody has spent yet.
LEMMA SavedStore ==
  ASSUME TypeOK, NEW c \in Calls, NEW r \in Grant, ~r.spent, NEW next, Save(c, r, next)
  PROVE  /\ StoreLater({})
         /\ \E f \in 1..Len(grants') :
              /\ call' = [call EXCEPT ![c].at = next, ![c].fresh = f]
              /\ ~grants'[f].spent
<1>1. grants \in Seq(Grant) /\ Len(grants) \in Nat /\ stored \subseteq 1..Len(grants)
      /\ \A i \in 1..Len(grants) : grants[i].saves \in Nat
  BY CallTypes, SavesAreNats
<1>2. CASE /\ grants' = Append(grants, r)
           /\ stored' = stored \cup {Len(grants) + 1}
           /\ call' = [call EXCEPT ![c].at = next, ![c].fresh = Len(grants) + 1]
  <2>1. /\ grants' \in Seq(Grant) /\ Len(grants') = Len(grants) + 1
        /\ grants'[Len(grants) + 1] = r
        /\ \A i \in 1..Len(grants) : grants'[i] = grants[i]
    BY <1>1, <1>2, GrantIsAdded
  <2>2. Len(grants') \in Nat /\ Len(grants) + 1 \in 1..Len(grants')
    BY <1>1, <2>1
  <2>3. Later(grants, grants')
    BY <1>1, <2>1 DEF Later, Bad
  <2>4. \A i \in stored' : grants'[i].spent =>
          i \in stored /\ grants[i].spent /\ (grants[i].left => grants'[i].left)
    BY <1>1, <1>2, <2>1
  <2>5. stored' \subseteq 1..Len(grants')
    BY <1>1, <1>2, <2>1, <2>2, OneMoreHandle
  <2> QED
    BY <1>2, <2>1, <2>2, <2>3, <2>4, <2>5 DEF StoreLater
<1>3. ASSUME NEW h \in Handles,
             grants' = [grants EXCEPT ![h] = [r EXCEPT !.saves = grants[h].saves + 1]],
             stored' = stored \cup {h},
             call' = [call EXCEPT ![c].at = next, ![c].fresh = h]
      PROVE  /\ StoreLater({})
             /\ \E f \in 1..Len(grants') :
                  /\ call' = [call EXCEPT ![c].at = next, ![c].fresh = f]
                  /\ ~grants'[f].spent
  <2> DEFINE n == [r EXCEPT !.saves = grants[h].saves + 1]
  <2>1. h \in 1..Len(grants) /\ grants[h].saves \in Nat
    BY <1>1 DEF Handles
  <2>2. n \in Grant /\ ~n.spent /\ n.saves = grants[h].saves + 1
    BY <2>1 DEF Grant
  <2>3. grants' = [grants EXCEPT ![h] = n]
    BY <1>3
  <2> HIDE DEF n
  <2>4. /\ grants' \in Seq(Grant) /\ Len(grants') = Len(grants) /\ grants'[h] = n
        /\ \A i \in 1..Len(grants) : i # h => grants'[i] = grants[i]
    BY <1>1, <2>1, <2>2, <2>3, GrantIsSet
  <2>5. Later(grants, grants')
    <3>1. grants[h].saves < grants'[h].saves
      BY <2>1, <2>2, <2>4
    <3>2. ASSUME NEW i \in 1..Len(grants), i # h
          PROVE  /\ grants[i].saves <= grants'[i].saves
                 /\ Bad(grants, i) => Bad(grants', i)
      <4>1. grants'[i] = grants[i] /\ grants[i].saves \in Nat
        BY <1>1, <2>4, <3>2
      <4> QED
        BY <4>1 DEF Bad
    <3>3. grants[h].saves <= grants'[h].saves
      BY <2>1, <2>2, <2>4
    <3>4. Len(grants) <= Len(grants')
      BY <1>1, <2>4
    <3> QED
      BY <3>1, <3>2, <3>3, <3>4 DEF Later
  <2>6. \A i \in stored' : grants'[i].spent =>
          i \in stored /\ grants[i].spent /\ (grants[i].left => grants'[i].left)
    BY <1>1, <1>3, <2>1, <2>2, <2>4
  <2>7. stored' \subseteq 1..Len(grants')
    BY <1>1, <1>3, <2>1, <2>4
  <2>8. ~grants'[h].spent
    BY <2>2, <2>4
  <2> QED
    BY <1>1, <1>3, <2>1, <2>4, <2>5, <2>6, <2>7, <2>8 DEF StoreLater
<1> QED
  BY <1>2, <1>3 DEF Save

\* Giving up the grant in hand marks it, if it is spent.
LEMMA LeftStore ==
  ASSUME TypeOK, NEW c \in Calls, Leave(c), stored' \subseteq stored
  PROVE  /\ StoreLater({})
         /\ \A h \in stored : h = call[c].hand /\ grants[h].spent => grants'[h].left
<1> DEFINE h == call[c].hand
           r == [grants[h] EXCEPT !.left = @ \/ grants[h].spent]
<1>1. CASE h \notin stored
  <2>1. grants' = grants
    BY <1>1 DEF Leave
  <2>2. StoreLater({})
    BY <2>1, SameStore
  <2> QED
    BY <1>1, <2>2
<1>2. CASE h \in stored
  <2>1. h \in 1..Len(grants) /\ grants[h] \in Grant /\ grants \in Seq(Grant)
    BY <1>2, CallTypes
  <2>2. grants' = [grants EXCEPT ![h] = r]
    BY <1>2 DEF Leave
  <2>3. r \in Grant /\ r.expired = grants[h].expired /\ r.revoked = grants[h].revoked
        /\ (grants[h].left => r.left) /\ r.spent = grants[h].spent
        /\ r.saves = grants[h].saves /\ (grants[h].spent => r.left)
    BY <2>1 DEF Grant
  <2> HIDE DEF r
  <2>4. grants'[h] = r
    BY <2>1, <2>2, <2>3, GrantIsSet
  <2>5. StoreLater(IF r.spent /\ ~grants[h].spent THEN {h} ELSE {})
    BY <2>1, <2>2, <2>3, MarkedStore
  <2> QED
    BY <2>3, <2>4, <2>5
<1> QED
  BY <1>1, <1>2

\* The grant in hand at the steps of a refresh.
LEMMA HandIsGrant ==
  ASSUME Inv, NEW c \in Calls,
         call[c].at \in {"read", "use", "refresh", "present", "save", "verify"}
  PROVE  /\ call[c].hand \in 1..Len(grants) /\ grants[call[c].hand] \in Grant
         /\ grants[call[c].hand].level \in Levels /\ grants[call[c].hand].client \in Nat
         /\ grants[call[c].hand].saves \in Nat
<1>1. call[c] \in CallType /\ CallInv(call[c], grants) /\ grants \in Seq(Grant)
      /\ Len(grants) \in Nat
  BY CallTypes DEF Inv
<1>2. call[c].hand \in 1..Len(grants)
  <2>1. call[c].hand \in 0..Len(grants) /\ call[c].hand # None
    BY <1>1 DEF CallInv, CallCore, AtInv
  <2> QED
    BY <1>1, <2>1 DEF None
<1>3. grants[call[c].hand] \in Grant
  BY <1>1, <1>2
<1> QED
  BY <1>2, <1>3 DEF Grant

\* What ExchangeCode saves.
LEMMA RequestedGrant ==
  ASSUME Inv, NEW c \in Calls, NEW refreshable \in BOOLEAN,
         NEW r, r = NewGrant(Requested(call[c]), call[c].client, refreshable)
  PROVE  r \in Grant /\ ~r.spent
<1>1. call[c] \in CallType /\ CallCore(call[c], grants) /\ grants \in Seq(Grant)
      /\ Len(grants) \in Nat
  BY CallTypes DEF Inv, CallInv
<1>2. call[c].prior # None => grants[call[c].prior] \in Grant
  BY <1>1 DEF CallCore, None
<1>3. call[c].prior # None => grants[call[c].prior].level \in Levels
  BY <1>2 DEF Grant
<1>4. Requested(call[c]) \in Levels /\ call[c].client \in Nat
  BY <1>1, <1>3, RequestedIsLevel DEF CallType
<1> QED
  BY <1>4, NewGrantType

\* Only grants whose refresh token is taken in a step are newly spent.
Takes(c) == Refresh(c) /\ Goto(c, "present")
StoreMoves ==
  \E now : StoreLater(now) /\ \A h \in now : \E c \in Calls : Takes(c) /\ h = call[c].hand

\* Every step leaves the store later than it was.
LEMMA StoreStep ==
  ASSUME Inv, Next
  PROVE  StoreMoves
<1> USE DEF store, StoreMoves
<1>1. TypeOK
  BY DEF Inv
<1>2. ASSUME UNCHANGED grants, stored' \subseteq stored
      PROVE  StoreMoves
  BY <1>1, <1>2, SameStore
<1>3. ASSUME NEW c \in Calls, Start(c) \/ FindCredential(c) \/ Recall(c) \/ ReadGrant(c)
               \/ UseGrant(c) \/ FindGrant(c) \/ Present(c) \/ VerifyRefreshed(c) \/ Forget(c)
      PROVE  UNCHANGED grants /\ stored' \subseteq stored
  BY <1>3 DEF Start, FindCredential, Recall, ReadGrant, UseGrant, FindGrant, Present,
              VerifyRefreshed, Forget
<1>4. ASSUME NEW c \in Calls, Send(c) \/ Challenged(c) \/ ValidatePrior(c)
               \/ ResolveContext(c) \/ Register(c) \/ Interact(c) \/ CompleteCallback(c)
               \/ Confirm(c) \/ Adopt(c) \/ Refuse(c) \/ Remove(c)
      PROVE  UNCHANGED grants /\ stored' \subseteq stored
  BY <1>4 DEF Send, Challenged, ValidatePrior, ResolveContext, Register, Interact,
              CompleteCallback, Confirm, Adopt, Refuse, Remove
<1>5. ASSUME NEW c \in Calls, Refresh(c)
      PROVE  StoreMoves
  <2> DEFINE h == call[c].hand
             r == [grants[h] EXCEPT !.spent = TRUE]
  <2>1. h \in 1..Len(grants) /\ grants[h] \in Grant
    BY <1>5, HandIsGrant DEF Refresh, At
  <2>2. CASE Goto(c, "present") /\ grants' = [grants EXCEPT ![h] = r]
    <3>1. UNCHANGED stored
      BY <1>5 DEF Refresh
    <3>2. r \in Grant /\ r.expired = grants[h].expired /\ r.revoked = grants[h].revoked
          /\ r.left = grants[h].left /\ r.saves = grants[h].saves
      BY <2>1 DEF Grant
    <3> HIDE DEF h, r
    <3>3. StoreLater(IF r.spent /\ ~grants[h].spent THEN {h} ELSE {})
      BY <1>1, <2>1, <2>2, <3>1, <3>2, MarkedStore
    <3> QED
      BY <1>5, <2>2, <3>3 DEF h, Takes
  <2>3. CASE UNCHANGED grants
    BY <1>2, <1>5, <2>3 DEF Refresh
  <2> QED
    BY <1>5, <2>2, <2>3 DEF Refresh
<1>6. ASSUME NEW c \in Calls, SaveRefreshed(c) PROVE StoreLater({})
  <2> DEFINE r == NewGrant(grants[call[c].hand].level, grants[call[c].hand].client, TRUE)
  <2>1. r \in Grant /\ ~r.spent
    BY <1>6, HandIsGrant, NewGrantType DEF SaveRefreshed, At
  <2>2. Save(c, r, "verify") \/ UNCHANGED store
    BY <1>6 DEF SaveRefreshed
  <2> HIDE DEF r
  <2> QED
    BY <1>1, <2>1, <2>2, SavedStore, SameStore
<1>7. ASSUME NEW c \in Calls, ExchangeCode(c) PROVE StoreLater({})
  <2>1. PICK refreshable \in BOOLEAN :
          Save(c, NewGrant(Requested(call[c]), call[c].client, refreshable), "confirm")
    BY <1>7 DEF ExchangeCode
  <2> DEFINE r == NewGrant(Requested(call[c]), call[c].client, refreshable)
  <2>2. r \in Grant /\ ~r.spent
    BY RequestedGrant
  <2> HIDE DEF r
  <2>3. Save(c, r, "confirm")
    BY <2>1 DEF r
  <2> QED
    BY <1>1, <2>2, <2>3, SavedStore
<1>8. ASSUME NEW c \in Calls, Interrupt(c) \/ RemoveFails(c) PROVE StoreLater({})
  <2>1. stored' \subseteq stored /\ (Leave(c) \/ UNCHANGED grants)
    BY <1>8 DEF Interrupt, RemoveFails
  <2> QED
    BY <1>1, <2>1, LeftStore, SameStore
<1>9. ASSUME NEW h \in Handles, Expire(h) \/ Revoke(h) PROVE StoreLater({})
  <2>1. PICK r \in {[grants[h] EXCEPT !.expired = TRUE], [grants[h] EXCEPT !.revoked = TRUE]} :
          grants' = [grants EXCEPT ![h] = r] /\ UNCHANGED stored
    BY <1>9 DEF Expire, Revoke
  <2>2. h \in 1..Len(grants) /\ grants[h] \in Grant
    BY <1>1, CallTypes DEF Handles
  <2>3. r \in Grant /\ (grants[h].expired => r.expired)
        /\ (grants[h].revoked => r.revoked) /\ r.left = grants[h].left
        /\ r.spent = grants[h].spent /\ r.saves = grants[h].saves
    BY <2>1, <2>2 DEF Grant
  <2> QED
    BY <1>1, <2>1, <2>2, <2>3, MarkedStore
<1> QED
  BY <1>2, <1>3, <1>4, <1>5, <1>6, <1>7, <1>8, <1>9 DEF Next, Step

\* What every call had in its hands before a step, it has after it.
LEMMA CallsKept ==
  ASSUME Inv, Next
  PROVE  /\ grants' \in Seq(Grant) /\ Len(grants') \in Nat /\ Len(grants) <= Len(grants')
         /\ stored' \subseteq 1..Len(grants') /\ Later(grants, grants')
         /\ \A c \in Calls : CallInv(call[c], grants')
<1>1. PICK now : StoreLater(now)
  BY StoreStep DEF StoreMoves
<1>2. /\ grants' \in Seq(Grant) /\ Len(grants') \in Nat
      /\ stored' \subseteq 1..Len(grants') /\ Later(grants, grants')
  BY <1>1 DEF StoreLater
<1>3. Len(grants) <= Len(grants')
  BY <1>2 DEF Later
<1>4. ASSUME NEW c \in Calls PROVE CallInv(call[c], grants')
  <2>1. call[c] \in CallType /\ CallInv(call[c], grants) /\ grants \in Seq(Grant)
    BY CallTypes DEF Inv
  <2> QED
    BY <1>2, <2>1, CallInvKept
<1> QED
  BY <1>2, <1>3, <1>4

\* What a call has found wanting stays so.
LEMMA JudgedStays ==
  ASSUME Inv, Next, NEW c \in Calls, NEW h \in 1..Len(grants), Judged(call[c], grants, h)
  PROVE  Judged(call[c], grants', h)
<1>1. call[c] \in CallType /\ grants \in Seq(Grant)
  BY CallTypes DEF Inv
<1>2. grants' \in Seq(Grant) /\ Later(grants, grants')
  BY CallsKept
<1> QED
  BY <1>1, <1>2, JudgedKept

-----------------------------------------------------------------------------
(* Every step of a call leaves the call with what its next step needs.     *)

\* The call c becomes one that has what it needs.
CallMoves(c) == \E m \in CallType : Becomes(c, m) /\ CallInv(m, grants')

LEMMA EasedMoves ==
  ASSUME Inv, Next, NEW c \in Calls, NEW m, Becomes(c, m), Eased(call[c], m)
  PROVE  CallMoves(c)
<1>1. CallCore(call[c], grants') /\ grants' \in Seq(Grant)
  BY CallsKept DEF CallInv
<1>2. CallInv(m, grants')
  BY <1>1, EasedIsGood
<1> QED
  BY <1>2 DEF CallMoves, Eased

LEMMA HoldsAsks ==
  ASSUME NEW k \in CallType, NEW m \in CallType, NEW at, NEW g, Holds(k, m), AtInv(at, k, g)
  PROVE  AtInv(at, m, g)
<1>1. /\ m.hand = k.hand /\ m.read = k.read /\ m.fresh = k.fresh /\ m.prior = k.prior
      /\ m.victim = k.victim /\ m.status = k.status /\ m.then = k.then
  BY DEF Holds
<1>2. \A h : Judged(k, g, h) => Judged(m, g, h)
  BY <1>1 DEF Judged
<1>3. /\ at \in {"read", "use", "refresh", "present", "save", "verify"} => m.hand # None
      /\ at = "use" => m.read <= g[m.hand].saves
      /\ at \in {"refresh", "present", "save", "verify"} => Judged(m, g, m.hand)
      /\ at \in {"verify", "confirm", "adopt"} => m.fresh # None
      /\ at = "validated" => m.prior # None
  BY <1>1, <1>2 DEF AtInv
<1>4. /\ at \in Removing => m.victim # None /\ m.then # ""
      /\ (at \in Removing /\ m.then = "adopt") => m.fresh # None
  BY <1>1 DEF AtInv
<1>7. (at \in {"challenged", "validated"} /\ m.status = 401 /\ m.prior # None) =>
        Judged(m, g, m.prior)
  <2>1. (at \in {"challenged", "validated"} /\ k.status = 401 /\ k.prior # None) =>
          Judged(k, g, k.prior)
    BY Zenon DEF AtInv
  <2>2. m.status = 401 <=> k.status = 401
    BY <1>1 DEF CallType, Statuses
  <2>3. (Judged(k, g, k.prior) => Judged(m, g, m.prior)) /\ (m.prior # None <=> k.prior # None)
    BY <1>1, <1>2
  <2> QED
    BY <2>1, <2>2, <2>3, Zenon
<1>5. (at \in Removing /\ m.then \in {"adopt", "discard"}) =>
        m.hand # None /\ Judged(m, g, m.hand)
  <2>1. (at \in Removing /\ k.then \in {"adopt", "discard"}) =>
          k.hand # None /\ Judged(k, g, k.hand)
    BY Zenon DEF AtInv
  <2> QED
    BY <1>1, <1>2, <2>1
<1>6. at = "remove" =>
        \/ Judged(m, g, m.victim)
        \/ m.victim = m.fresh /\ m.then \in {"discard", "fail"}
  <2>1. at = "remove" =>
          \/ Judged(k, g, k.victim)
          \/ k.victim = k.fresh /\ k.then \in {"discard", "fail"}
    BY Zenon DEF AtInv
  <2> QED
    BY <1>1, <1>2, <2>1
<1> QED
  BY <1>3, <1>4, <1>5, <1>6, <1>7, Zenon DEF AtInv

LEMMA GotoMoves ==
  ASSUME Inv, Next, NEW c \in Calls, NEW there \in Ats, Goto(c, there),
         AtInv(there, call[c], grants')
  PROVE  CallMoves(c)
<1>1. PICK m \in CallType : Becomes(c, m) /\ m.at = there /\ Holds(call[c], m)
  BY CallTypes, GotoBecomes DEF Inv
<1>2. CallCore(call[c], grants')
  BY CallsKept DEF CallInv
<1>3. CallCore(m, grants')
  BY <1>1, <1>2 DEF CallCore, Holds
<1>4. AtInv(there, m, grants')
  BY <1>1, CallTypes, HoldsAsks DEF Inv
<1> QED
  BY <1>1, <1>3, <1>4 DEF CallMoves, CallInv

LEMMA FreeGotoMoves ==
  ASSUME Inv, Next, NEW c \in Calls, NEW there \in Free, Goto(c, there)
  PROVE  CallMoves(c)
BY GotoMoves, FreeAts, FreeAsksNothing

LEMMA EndMoves ==
  ASSUME Inv, Next, NEW c \in Calls, End(c)
  PROVE  CallMoves(c)
BY EndBecomes, EasedMoves, CallTypes DEF Inv

\* A call that removes a grant it found wanting or saved itself, on behalf of `next`.
MovesOn(c, h, next) ==
  /\ next \in Thens /\ next # ""
  /\ next = "adopt" => call[c].fresh # None
  /\ next \in {"adopt", "discard"} =>
       call[c].hand # None /\ Judged(call[c], grants', call[c].hand)
  /\ \/ Judged(call[c], grants', h)
     \/ h = call[c].fresh /\ next \in {"discard", "fail"}

LEMMA RemovalMoves ==
  ASSUME Inv, Next, NEW c \in Calls, NEW h \in 1..Len(grants'), NEW next,
         MovesOn(c, h, next), Removal(c, h, next)
  PROVE  CallMoves(c)
<1>1. /\ call \in [Calls -> CallType] /\ h \in Nat
      /\ h \in 0..Len(grants') /\ h # None
  <2>1. Len(grants') \in Nat /\ Len(grants') <= Len(grants')
    BY CallsKept
  <2>2. call \in [Calls -> CallType]
    BY CallTypes DEF Inv
  <2>3. h \in Nat /\ h \in 0..Len(grants') /\ h # None
    BY <2>1, MoreHandles, Zenon
  <2> QED
    BY <2>2, <2>3
<1> DEFINE m == Removed(call[c], h, next)
<1>0. next \in Thens
  BY DEF MovesOn
<1>2. /\ m \in CallType /\ Becomes(c, m) /\ m.at = "remove" /\ m.victim = h
      /\ m.then = next /\ m.hand = call[c].hand /\ m.read = call[c].read
      /\ m.fresh = call[c].fresh /\ m.prior = call[c].prior
  BY <1>0, <1>1, RemovalBecomes
<1> HIDE DEF m
<1>3. CallCore(call[c], grants')
  BY CallsKept DEF CallInv
<1>4. CallCore(m, grants')
  BY <1>1, <1>2, <1>3 DEF CallCore
<1>5. AtInv("remove", m, grants')
  <2>1. "remove" \notin {"read", "use", "refresh", "present", "save", "verify"}
        /\ "remove" # "use" /\ "remove" \notin {"refresh", "present", "save", "verify"}
        /\ "remove" \notin {"verify", "confirm", "adopt"} /\ "remove" # "validated"
        /\ "remove" \notin {"challenged", "validated"}
    OBVIOUS
  <2>2. next = "adopt" => m.fresh # None
    BY <1>2, Zenon DEF MovesOn
  <2>3. next \in {"adopt", "discard"} => m.hand # None /\ Judged(m, grants', m.hand)
    BY <1>2, Zenon DEF MovesOn, Judged
  <2>4. Judged(m, grants', h) \/ (h = m.fresh /\ next \in {"discard", "fail"})
    BY <1>2, Zenon DEF MovesOn, Judged
  <2>5. m.victim # None /\ next # ""
    BY <1>1, <1>2 DEF MovesOn
  <2> QED
    BY <1>2, <2>1, <2>2, <2>3, <2>4, <2>5, Zenon DEF AtInv
<1> QED
  BY <1>2, <1>4, <1>5 DEF CallMoves, CallInv

\* A call that gets a handle in hand, or loses it, goes on to a step that allows it.
LEMMA HandMoves ==
  ASSUME Inv, Next, NEW c \in Calls, NEW m \in CallType, Becomes(c, m),
         CallCore(m, grants'), m.at \in Free \/ (m.at = "read" /\ m.hand # None)
  PROVE  CallMoves(c)
<1>1. AtInv(m.at, m, grants')
  <2>1. CASE m.at \in Free
    BY <2>1, FreeAsksNothing
  <2>2. CASE m.at = "read" /\ m.hand # None
    BY <2>2 DEF AtInv, Removing
  <2> QED
    BY <2>1, <2>2
<1> QED
  BY <1>1 DEF CallMoves, CallInv

\* A call that has the grant it saved in hand.
LEMMA HoldingMoves ==
  ASSUME Inv, Next, NEW c \in Calls,
         call' = [call EXCEPT ![c] = Covered(Holding(call[c], call[c].fresh))]
  PROVE  CallMoves(c)
<1> DEFINE n == Holding(call[c], call[c].fresh)
<1>1. call[c] \in CallType /\ CallCore(call[c], grants') /\ grants' \in Seq(Grant)
      /\ Len(grants') \in Nat
  BY CallTypes, CallsKept DEF Inv, CallInv
<1>2. call[c].fresh \in Nat
  BY <1>1 DEF CallType
<1>3. /\ n \in CallType /\ n.hand = call[c].fresh /\ n.fresh = None /\ n.prior = None
      /\ n.victim = None
  BY <1>1, <1>2, HoldingType
<1> HIDE DEF n
<1>4. CallCore(n, grants')
  BY <1>1, <1>3 DEF CallCore, None
<1>5. Eased(n, Covered(n))
  BY <1>3, CoveredEases
<1>6. CallInv(Covered(n), grants') /\ Covered(n) \in CallType
  BY <1>1, <1>4, <1>5, EasedIsGood DEF Eased
<1>7. Becomes(c, Covered(n))
  BY DEF Becomes, n
<1> QED
  BY <1>6, <1>7 DEF CallMoves

\* currentGrant.
LEMMA CurrentGrantMoves ==
  ASSUME Inv, Next, NEW c \in Calls,
         Start(c) \/ FindCredential(c) \/ Recall(c) \/ ReadGrant(c) \/ UseGrant(c)
           \/ FindGrant(c)
  PROVE  CallMoves(c)
<1> USE DEF store
<1> DEFINE k == call[c]
<1>1. /\ call \in [Calls -> CallType] /\ k \in CallType /\ clients \in Nat
      /\ CallInv(k, grants) /\ CallInv(k, grants')
      /\ CallCore(k, grants) /\ CallCore(k, grants')
      /\ Len(grants) \in Nat /\ Len(grants') \in Nat /\ Len(grants) <= Len(grants')
  BY CallTypes, CallsKept DEF Inv, CallInv
<1>2. CASE Start(c)
  <2>1. CASE Goto(c, "lookup")
    BY <2>1, FreeGotoMoves DEF Free
  <2>2. CASE End(c)
    BY <2>2, EndMoves
  <2>3. CASE call' = [call EXCEPT ![c] = Ready(call[c])]
    BY <1>1, <2>3, ReadyEases, EasedMoves DEF Becomes
  <2> QED
    BY <1>2, <2>1, <2>2, <2>3 DEF Start
<1>3. CASE FindCredential(c)
  <2>1. CASE call' = [call EXCEPT ![c] = Ready(call[c])]
    BY <1>1, <2>1, ReadyEases, EasedMoves DEF Becomes
  <2>2. CASE call' = [call EXCEPT ![c] = [call[c] EXCEPT !.at = "recall", !.client = clients]]
    <3> DEFINE m == [k EXCEPT !.at = "recall", !.client = clients]
    <3>1. "recall" \in Free /\ "recall" \in Ats
      BY FreeAts DEF Free
    <3>2. Eased(k, m)
      BY <1>1, <3>1 DEF Eased, CallType
    <3> QED
      BY <2>2, <3>2, EasedMoves DEF Becomes
  <2> QED
    BY <1>3, <2>1, <2>2 DEF FindCredential
<1>4. CASE Recall(c)
  <2> DEFINE at == IF remembered = None THEN "find" ELSE "read"
             m == [k EXCEPT !.hand = remembered, !.at = at]
  <2>1. at \in Ats /\ (at \in Free \/ (at = "read" /\ remembered # None))
    BY DEF Ats, Working, Free
  <2> HIDE DEF at
  <2>2. remembered \in Nat /\ remembered \in 0..Len(grants')
    <3>1. remembered \in 0..Len(grants)
      BY CallTypes DEF Inv
    <3> QED
      BY <1>1, <3>1
  <2>3. /\ m \in CallType /\ m.hand = remembered /\ m.at = at /\ m.fresh = k.fresh
        /\ m.prior = k.prior /\ m.victim = k.victim
    BY <1>1, <2>1, <2>2 DEF CallType
  <2>4. Becomes(c, m)
    BY <1>4 DEF Recall, Becomes, at
  <2> HIDE DEF m, k
  <2>5. CallCore(m, grants')
    BY <1>1, <2>2, <2>3 DEF CallCore
  <2> QED
    BY <2>1, <2>3, <2>4, <2>5, HandMoves
<1>5. CASE ReadGrant(c)
  <2> DEFINE n == grants[k.hand].saves
             m == [k EXCEPT !.at = "use", !.read = n]
  <2>1. CASE call' = [call EXCEPT ![c].at = "use", ![c].read = n]
    <3>1. k.hand \in 1..Len(grants) /\ k.hand # None /\ n \in Nat /\ UNCHANGED grants
      BY <1>1, <1>5, HandIsGrant DEF ReadGrant, At, None
    <3>2. "use" \in Ats
      BY DEF Ats, Working
    <3>3. Becomes(c, m)
      BY <1>1, <2>1 DEF Becomes
    <3>4. n <= grants'[k.hand].saves
      BY <3>1
    <3> HIDE DEF n, k
    <3>5. /\ m \in CallType /\ m.at = "use" /\ m.hand = k.hand /\ m.read = n
          /\ m.fresh = k.fresh /\ m.prior = k.prior /\ m.victim = k.victim
      BY <1>1, <3>1, <3>2 DEF CallType
    <3> HIDE DEF m
    <3>6. CallCore(m, grants')
      BY <1>1, <3>5 DEF CallCore
    <3>7. AtInv("use", m, grants')
      BY <3>1, <3>4, <3>5 DEF AtInv, Removing
    <3> QED
      BY <3>3, <3>5, <3>6, <3>7 DEF CallMoves, CallInv
  <2>2. CASE End(c)
    BY <2>2, EndMoves
  <2> QED
    BY <1>5, <2>1, <2>2 DEF ReadGrant
<1>6. CASE UseGrant(c)
  <2>1. /\ k.hand \in 1..Len(grants) /\ k.hand # None /\ UNCHANGED grants
        /\ k.read <= grants[k.hand].saves /\ k.read \in Nat
        /\ grants[k.hand].saves \in Nat
    BY <1>1, <1>6, HandIsGrant DEF UseGrant, At, CallInv, AtInv, CallType
  <2>2. CASE End(c)
    BY <2>2, EndMoves
  <2>3. CASE call' = [call EXCEPT ![c] = Covered(call[c])]
    BY <1>1, <2>3, CoveredEases, EasedMoves DEF Becomes
  <2>4. ASSUME \E g \in Seen(c) : g.expired
        PROVE  Judged(k, grants', k.hand)
    <3>1. CASE grants[k.hand].saves = k.read
      BY <2>1, <2>4, <3>1 DEF Seen, Judged, Bad
    <3>2. CASE grants[k.hand].saves # k.read
      BY <2>1, <3>2 DEF Judged
    <3> QED
      BY <3>1, <3>2
  <2>5. CASE (\E g \in Seen(c) : g.expired) /\ Goto(c, "refresh")
    <3>1. AtInv("refresh", k, grants')
      BY <2>1, <2>4, <2>5 DEF AtInv, Removing
    <3> QED
      BY <2>5, <3>1, GotoMoves DEF Ats, Working
  <2>6. CASE (\E g \in Seen(c) : g.expired) /\ Removal(c, k.hand, "miss")
    <3>1. MovesOn(c, k.hand, "miss")
      BY <2>4, <2>6 DEF MovesOn, Thens
    <3>2. k.hand \in 1..Len(grants')
      BY <2>1
    <3> HIDE DEF k
    <3> QED
      BY <2>6, <3>1, <3>2, RemovalMoves
  <2> QED
    BY <1>6, <2>2, <2>3, <2>5, <2>6, Zenon DEF UseGrant
<1>7. CASE FindGrant(c)
  <2> DEFINE n == [k EXCEPT !.searched = TRUE]
  <2>1. /\ n \in CallType /\ n.hand = k.hand /\ n.fresh = k.fresh /\ n.prior = k.prior
        /\ n.victim = k.victim
    BY <1>1 DEF CallType
  <2>2. CASE call' = [call EXCEPT ![c] = Miss(n)]
    <3> HIDE DEF n
    <3>1. Eased(k, Miss(n))
      BY <2>1, MissEases DEF Eased
    <3> QED
      BY <2>2, <3>1, EasedMoves DEF Becomes
  <2>3. ASSUME NEW h \in Findable(c),
               call' = [call EXCEPT ![c] = [n EXCEPT !.at = "read", !.hand = h]]
        PROVE  CallMoves(c)
    <3> DEFINE m == [n EXCEPT !.at = "read", !.hand = h]
    <3>1. h \in 1..Len(grants)
      BY <2>3, CallTypes DEF Findable, Inv
    <3>2. h \in Nat /\ h # None /\ h \in 0..Len(grants')
      BY <1>1, <3>1, MoreHandles, Zenon
    <3>3. "read" \in Ats
      BY DEF Ats, Working
    <3>4. Becomes(c, m)
      BY <2>3 DEF Becomes
    <3> HIDE DEF n, k
    <3>5. /\ m \in CallType /\ m.at = "read" /\ m.hand = h /\ m.fresh = k.fresh
          /\ m.prior = k.prior /\ m.victim = k.victim
      BY <2>1, <3>2, <3>3 DEF CallType
    <3> HIDE DEF m
    <3>6. CallCore(m, grants')
      BY <1>1, <3>2, <3>5 DEF CallCore
    <3> QED
      BY <3>2, <3>4, <3>5, <3>6, HandMoves
  <2> QED
    BY <1>7, <2>2, <2>3 DEF FindGrant
<1> QED
  BY <1>2, <1>3, <1>4, <1>5, <1>6, <1>7

\* The call stands at a handle saveGrant returned.
Saved(c, there, f) == call' = [call EXCEPT ![c].at = there, ![c].fresh = f]

LEMMA SavedMoves ==
  ASSUME Inv, Next, NEW c \in Calls, NEW there \in {"verify", "confirm"},
         NEW f \in 1..Len(grants'), Saved(c, there, f),
         there = "verify" => /\ call[c].hand # None
                             /\ Judged(call[c], grants', call[c].hand)
  PROVE  CallMoves(c)
<1> DEFINE k == call[c]
           m == [k EXCEPT !.at = there, !.fresh = f]
<1>1. /\ call \in [Calls -> CallType] /\ k \in CallType
      /\ CallCore(k, grants') /\ Len(grants') \in Nat /\ Len(grants') <= Len(grants')
  BY CallTypes, CallsKept DEF Inv, CallInv
<1>2. f \in Nat /\ f # None /\ f \in 0..Len(grants')
  BY <1>1, MoreHandles, Zenon
<1>3. there \in Ats
  BY DEF Ats, Working
<1>4. Becomes(c, m)
  BY <1>1 DEF Saved, Becomes, CallType
<1>5. there = "verify" => k.hand # None /\ Judged(k, grants', k.hand)
  OBVIOUS
<1> HIDE DEF k
<1>6. /\ m \in CallType /\ m.at = there /\ m.hand = k.hand /\ m.read = k.read
      /\ m.fresh = f /\ m.prior = k.prior /\ m.victim = k.victim
  BY <1>1, <1>2, <1>3 DEF CallType
<1> HIDE DEF m
<1>7. CallCore(m, grants')
  BY <1>1, <1>2, <1>6 DEF CallCore
<1>8. AtInv(there, m, grants')
  <2>1. there = "verify" => m.hand # None /\ Judged(m, grants', m.hand)
    BY <1>5, <1>6, Zenon DEF Judged
  <2> QED
    BY <1>2, <1>6, <2>1 DEF AtInv, Removing
<1> QED
  BY <1>4, <1>6, <1>7, <1>8 DEF CallMoves, CallInv

\* Refreshing.
LEMMA RefreshMoves ==
  ASSUME Inv, Next, NEW c \in Calls,
         Refresh(c) \/ Present(c) \/ SaveRefreshed(c) \/ VerifyRefreshed(c)
  PROVE  CallMoves(c)
<1> USE DEF store
<1> DEFINE k == call[c]
<1>1. /\ call \in [Calls -> CallType] /\ k \in CallType
      /\ CallInv(k, grants) /\ CallInv(k, grants') /\ CallCore(k, grants')
      /\ Len(grants) \in Nat /\ Len(grants') \in Nat /\ Len(grants) <= Len(grants')
  BY CallTypes, CallsKept DEF Inv, CallInv
<1>2. k.at \in {"refresh", "present", "save", "verify"}
  BY DEF Refresh, Present, SaveRefreshed, VerifyRefreshed, At
<1>3. k.hand \in 1..Len(grants') /\ k.hand # None /\ Judged(k, grants', k.hand)
  <2>1. k.hand # None /\ Judged(k, grants', k.hand)
    BY <1>1, <1>2 DEF CallInv, AtInv
  <2> QED
    BY <1>1, <1>2, <2>1, HandIsGrant
<1>4. ASSUME Removal(c, k.hand, "fail") PROVE CallMoves(c)
  <2>1. MovesOn(c, k.hand, "fail")
    BY <1>3 DEF MovesOn, Thens
  <2> HIDE DEF k
  <2> QED
    BY <1>3, <1>4, <2>1, RemovalMoves
<1>5. CASE Refresh(c)
  <2>1. CASE Goto(c, "present")
    <3>1. AtInv("present", k, grants')
      BY <1>3 DEF AtInv, Removing
    <3> QED
      BY <2>1, <3>1, GotoMoves DEF Ats, Working
  <2> QED
    BY <1>4, <1>5, <2>1 DEF Refresh
<1>6. CASE Present(c)
  <2>1. CASE Goto(c, "save")
    <3>1. AtInv("save", k, grants')
      BY <1>3 DEF AtInv, Removing
    <3> QED
      BY <2>1, <3>1, GotoMoves DEF Ats, Working
  <2> QED
    BY <1>4, <1>6, <2>1 DEF Present
<1>7. CASE SaveRefreshed(c)
  <2> DEFINE r == NewGrant(grants[k.hand].level, grants[k.hand].client, TRUE)
  <2>1. r \in Grant /\ ~r.spent
    BY <1>2, HandIsGrant, NewGrantType
  <2>2. Save(c, r, "verify") \/ Removal(c, k.hand, "fail")
    BY <1>7 DEF SaveRefreshed
  <2> HIDE DEF r, k
  <2>3. CASE Save(c, r, "verify")
    <3>1. PICK f \in 1..Len(grants') : Saved(c, "verify", f)
      BY <2>1, <2>3, SavedStore DEF Inv, Saved
    <3> QED
      BY <1>3, <3>1, SavedMoves DEF k
  <2> QED
    BY <1>4, <2>2, <2>3
<1>8. CASE VerifyRefreshed(c)
  <2>1. k.fresh # None /\ k.fresh \in 1..Len(grants')
    <3>1. k.fresh # None /\ k.fresh \in 0..Len(grants')
      BY <1>1, <1>8 DEF VerifyRefreshed, At, CallInv, CallCore, AtInv
    <3> QED
      BY <1>1, <3>1 DEF None
  <2>2. CASE Removal(c, k.hand, "adopt")
    <3>1. MovesOn(c, k.hand, "adopt")
      BY <1>3, <2>1 DEF MovesOn, Thens
    <3> HIDE DEF k
    <3> QED
      BY <1>3, <2>2, <3>1, RemovalMoves
  <2>3. CASE Goto(c, "adopt")
    <3>1. AtInv("adopt", k, grants')
      BY <2>1 DEF AtInv, Removing
    <3> QED
      BY <2>3, <3>1, GotoMoves DEF Ats, Working
  <2>4. CASE Removal(c, k.fresh, "discard")
    <3>1. MovesOn(c, k.fresh, "discard")
      BY <1>3 DEF MovesOn, Thens
    <3> HIDE DEF k
    <3> QED
      BY <2>1, <2>4, <3>1, RemovalMoves
  <2> QED
    BY <1>4, <1>8, <2>2, <2>3, <2>4 DEF VerifyRefreshed
<1> QED
  BY <1>5, <1>6, <1>7, <1>8

\* removeGrant.
LEMMA RemoveMoves ==
  ASSUME Inv, Next, NEW c \in Calls, Remove(c) \/ RemoveFails(c) \/ Forget(c)
  PROVE  CallMoves(c)
<1> USE DEF store
<1> DEFINE k == call[c]
<1>1. /\ call \in [Calls -> CallType] /\ k \in CallType
      /\ CallInv(k, grants) /\ CallInv(k, grants') /\ CallCore(k, grants')
      /\ Len(grants) \in Nat /\ Len(grants') \in Nat /\ Len(grants) <= Len(grants')
  BY CallTypes, CallsKept DEF Inv, CallInv
<1>2. k.at \in Removing
  BY DEF Remove, RemoveFails, Forget, At, Removing
<1>3. ASSUME k.then \in {"adopt", "discard"}
      PROVE  /\ k.hand \in 1..Len(grants') /\ MovesOn(c, k.hand, "fail")
  <2>1. k.hand # None /\ Judged(k, grants', k.hand)
    BY <1>1, <1>2, <1>3 DEF CallInv, AtInv
  <2>2. k.hand \in 0..Len(grants')
    BY <1>1 DEF CallCore
  <2>3. k.hand \in 1..Len(grants')
    BY <1>1, <2>1, <2>2 DEF None
  <2> QED
    BY <2>1, <2>3 DEF MovesOn, Thens
<1>4. ASSUME k.then \in {"adopt", "discard"}, Removal(c, k.hand, "fail")
      PROVE  CallMoves(c)
  <2> HIDE DEF k
  <2> QED
    BY <1>3, <1>4, RemovalMoves
<1>5. CASE Remove(c)
  <2>1. AtInv("forget", k, grants')
    BY <1>1, <1>2 DEF CallInv, AtInv, Removing
  <2> QED
    BY <1>5, <2>1, GotoMoves DEF Remove, Ats, Removing
<1>6. CASE RemoveFails(c)
  <2>1. CASE End(c)
    BY <2>1, EndMoves
  <2> QED
    BY <1>4, <1>6, <2>1 DEF RemoveFails
<1>7. CASE Forget(c)
  <2>1. call' = [call EXCEPT ![c] =
          CASE k.then = "adopt" -> Covered(Holding(k, k.fresh))
            [] k.then = "miss" -> Miss(k)
            [] k.then = "authorize" -> [k EXCEPT !.at = "authorize"]
            [] k.then = "discard" -> Removed(k, k.hand, "fail")
            [] k.then = "fail" -> Ended(k)]
    BY <1>7 DEF Forget
  <2>2. k.then \in {"miss", "adopt", "authorize", "discard", "fail"}
    <3>1. k.then \in Thens /\ k.then # ""
      BY <1>1, <1>2 DEF CallInv, AtInv, CallType
    <3> QED
      BY <3>1 DEF Thens
  <2>3. CASE k.then = "adopt"
    <3>1. call' = [call EXCEPT ![c] = Covered(Holding(k, k.fresh))]
      BY <2>1, <2>3
    <3> QED
      BY <3>1, HoldingMoves
  <2>4. CASE k.then = "miss"
    <3>1. call' = [call EXCEPT ![c] = Miss(k)]
      BY <2>1, <2>4
    <3> QED
      BY <1>1, <3>1, MissEases, EasedMoves DEF Becomes
  <2>5. CASE k.then = "authorize"
    <3>1. Goto(c, "authorize")
      BY <2>1, <2>5 DEF Goto
    <3>2. "authorize" \in Free
      BY DEF Free
    <3> QED
      BY <3>1, <3>2, FreeGotoMoves
  <2>6. CASE k.then = "discard"
    <3>1. Removal(c, k.hand, "fail")
      BY <2>1, <2>6 DEF Removal
    <3> QED
      BY <1>4, <2>6, <3>1
  <2>7. CASE k.then = "fail"
    <3>1. End(c)
      BY <2>1, <2>7 DEF End
    <3> QED
      BY <3>1, EndMoves
  <2> QED
    BY <2>2, <2>3, <2>4, <2>5, <2>6, <2>7
<1> QED
  BY <1>5, <1>6, <1>7


\* An answer 401 or 403 that is looked into: what the call knows of the prior grant is
\* the handle, and what it read of it.
Answered(k, status, h, read) ==
  [Idle(k.job, k.want, k.need) EXCEPT
     !.at = "challenged", !.retried = TRUE, !.status = status, !.prior = h, !.read = read]

LEMMA AnsweredType ==
  ASSUME NEW k \in CallType, NEW status \in Statuses, NEW h \in Nat, NEW read \in Nat,
         NEW m, m = Answered(k, status, h, read)
  PROVE  /\ m \in CallType /\ m.at = "challenged" /\ m.hand = 0 /\ m.fresh = 0
         /\ m.victim = 0 /\ m.prior = h /\ m.read = read /\ m.status = status
<1> DEFINE i == Idle(k.job, k.want, k.need)
<1>1. k.job \in JobKinds /\ k.want \in Levels /\ k.need \in Levels
  BY DEF CallType
<1>2. /\ i \in CallType /\ i.hand = 0 /\ i.fresh = 0 /\ i.victim = 0
  BY <1>1, IdleType
<1>3. "challenged" \in Ats
  BY DEF Ats, Working
<1> DEFINE j == [i EXCEPT !.at = "challenged", !.retried = TRUE, !.status = status]
<1>4. m = [j EXCEPT !.prior = h, !.read = read]
  BY <1>2 DEF Answered, CallType
<1> HIDE DEF i
<1>5. /\ j \in CallType /\ j.at = "challenged" /\ j.hand = 0 /\ j.fresh = 0
      /\ j.victim = 0 /\ j.status = status
  BY <1>2, <1>3 DEF CallType
<1> HIDE DEF j
<1> QED
  BY <1>4, <1>5 DEF CallType

LEMMA AnsweredMoves ==
  ASSUME Inv, Next, NEW c \in Calls, NEW status \in {401, 403}, UNCHANGED grants,
         NEW h \in 0..Len(grants), NEW read \in Nat,
         h # None => read = grants[h].saves,
         status = 401 /\ h # None => Bad(grants, h),
         Becomes(c, Answered(call[c], status, h, read))
  PROVE  CallMoves(c)
<1> DEFINE m == Answered(call[c], status, h, read)
<1>1. call[c] \in CallType /\ Len(grants) \in Nat /\ h \in Nat /\ grants \in Seq(Grant)
  BY CallTypes DEF Inv
<1>2. status \in Statuses
  BY DEF Statuses
<1>3. /\ m \in CallType /\ m.at = "challenged" /\ m.hand = 0 /\ m.fresh = 0
      /\ m.victim = 0 /\ m.prior = h /\ m.read = read /\ m.status = status
  BY <1>1, <1>2, AnsweredType
<1> HIDE DEF m
<1>4. CallCore(m, grants')
  BY <1>1, <1>3 DEF CallCore
<1>5. status = 401 /\ h # None => Judged(m, grants', h)
  <2>1. h # None => h \in 1..Len(grants)
    BY <1>1 DEF None
  <2>2. h # None => grants[h].saves \in Nat
    BY <1>1, <2>1, SavesAreNats
  <2>3. h # None => m.read <= grants[h].saves
    BY <1>3, <2>2
  <2> QED
    BY <2>3 DEF Judged, Bad
<1>6. AtInv("challenged", m, grants')
  BY <1>3, <1>5 DEF AtInv, Removing
<1> QED
  BY <1>3, <1>4, <1>6 DEF CallMoves, CallInv, m

\* The transport's post, and respondToChallenge.
LEMMA ChallengeMoves ==
  ASSUME Inv, Next, NEW c \in Calls, Send(c) \/ Challenged(c) \/ ValidatePrior(c)
  PROVE  CallMoves(c)
<1> USE DEF store
<1> DEFINE k == call[c]
<1>1. /\ call \in [Calls -> CallType] /\ k \in CallType /\ stored \subseteq 1..Len(grants)
      /\ CallInv(k, grants') /\ CallCore(k, grants) /\ CallCore(k, grants')
      /\ Len(grants) \in Nat /\ Len(grants') \in Nat /\ Len(grants) <= Len(grants')
      /\ grants \in Seq(Grant)
  BY CallTypes, CallsKept DEF Inv, CallInv
<1>2. End(c) => CallMoves(c)
  BY EndMoves
<1>3. Goto(c, "authorize") => CallMoves(c)
  BY FreeGotoMoves DEF Free
<1>4. CASE Send(c)
  <2> DEFINE h == k.hand
             read == IF h = None THEN 0 ELSE grants[h].saves
  <2>1. UNCHANGED grants /\ h \in 0..Len(grants)
    BY <1>1, <1>4 DEF Send, CallCore
  <2>2. read \in Nat /\ (h # None => read = grants[h].saves)
    <3>1. h # None => h \in 1..Len(grants)
      BY <1>1, <2>1 DEF None
    <3>2. h # None => grants[h].saves \in Nat
      BY <1>1, <3>1, SavesAreNats
    <3> QED
      BY <3>2
  <2>3. ASSUME NEW status \in {401, 403}, status = 401 /\ h # None => Bad(grants, h),
               call' = [call EXCEPT ![c] =
                 [Idle(@.job, @.want, @.need) EXCEPT
                    !.at = "challenged", !.retried = TRUE, !.status = status, !.prior = h,
                    !.read = IF h = None THEN 0 ELSE grants[h].saves]]
        PROVE  CallMoves(c)
    <3>1. Becomes(c, Answered(call[c], status, h, read))
      BY <1>1, <2>3 DEF Becomes, Answered
    <3> HIDE DEF read, k
    <3> QED
      BY <2>1, <2>2, <2>3, <3>1, AnsweredMoves
  <2> DEFINE Challenge(status) ==
        call' = [call EXCEPT ![c] =
          [Idle(@.job, @.want, @.need) EXCEPT
             !.at = "challenged", !.retried = TRUE, !.status = status, !.prior = h,
             !.read = IF h = None THEN 0 ELSE grants[h].saves]]
  <2>4. \/ End(c)
        \/ (h = None \/ Bad(grants, h)) /\ Challenge(401)
        \/ Challenge(403)
    BY <1>4, Zenon DEF Send, Accepted, Bad
  <2>5. (h = None \/ Bad(grants, h)) /\ Challenge(401) => CallMoves(c)
    BY <2>3
  <2>6. Challenge(403) => CallMoves(c)
    BY <2>3
  <2> QED
    BY <1>2, <2>4, <2>5, <2>6
<1>5. CASE Challenged(c)
  <2>1. CASE k.prior \in stored /\ Goto(c, "validated")
    <3>1. k.prior # None
      BY <1>1, <2>1 DEF None
    <3>2. k.status = 401 => Judged(k, grants', k.prior)
      BY <1>1, <1>5, <3>1 DEF Challenged, At, CallInv, AtInv
    <3>3. AtInv("validated", k, grants')
      BY <3>1, <3>2 DEF AtInv, Removing
    <3> QED
      BY <2>1, <3>3, GotoMoves DEF Ats, Working
  <2> QED
    BY <1>2, <1>3, <1>5, <2>1 DEF Challenged
<1>6. CASE ValidatePrior(c)
  <2>1. CASE Rejects(c) /\ Removal(c, k.prior, "authorize")
    <3>1. k.prior # None /\ Judged(k, grants', k.prior)
      BY <1>1, <1>6, <2>1 DEF ValidatePrior, At, Rejects, CallInv, AtInv
    <3>2. k.prior \in 1..Len(grants')
      BY <1>1, <3>1 DEF CallCore, None
    <3>3. MovesOn(c, k.prior, "authorize")
      BY <3>1 DEF MovesOn, Thens
    <3> HIDE DEF k
    <3> QED
      BY <2>1, <3>2, <3>3, RemovalMoves
  <2> QED
    BY <1>2, <1>3, <1>6, <2>1 DEF ValidatePrior
<1> QED
  BY <1>4, <1>5, <1>6

\* The user is to be sent to the server for a client.
Interacts(c, client) == call' = [call EXCEPT ![c].at = "interact", ![c].client = client]

\* authorize, and what ends a call early.
LEMMA AuthorizeMoves ==
  ASSUME Inv, Next, NEW c \in Calls,
         ResolveContext(c) \/ Register(c) \/ Interact(c) \/ CompleteCallback(c)
           \/ ExchangeCode(c) \/ Confirm(c) \/ Adopt(c) \/ Refuse(c) \/ Interrupt(c)
  PROVE  CallMoves(c)
<1> USE DEF store
<1> DEFINE k == call[c]
<1>1. /\ call \in [Calls -> CallType] /\ k \in CallType /\ clients \in Nat
      /\ CallInv(k, grants) /\ CallCore(k, grants)
      /\ CallInv(k, grants') /\ CallCore(k, grants') /\ grants' \in Seq(Grant)
      /\ Len(grants) \in Nat /\ Len(grants') \in Nat /\ Len(grants) <= Len(grants')
  BY CallTypes, CallsKept DEF Inv, CallInv
<1>2. End(c) => CallMoves(c)
  BY EndMoves
<1>3. \A there \in Free : Goto(c, there) => CallMoves(c)
  BY FreeGotoMoves
<1>4. ASSUME NEW client \in Nat, Interacts(c, client) PROVE CallMoves(c)
  <2> DEFINE m == [k EXCEPT !.at = "interact", !.client = client]
  <2>1. "interact" \in Free /\ "interact" \in Ats
    BY FreeAts DEF Free
  <2>2. Becomes(c, m)
    BY <1>4 DEF Becomes, Interacts
  <2>3. Eased(k, m)
    BY <1>1, <2>1 DEF Eased, CallType
  <2> QED
    BY <2>2, <2>3, EasedMoves
<1>5. CASE ResolveContext(c)
  <2>1. CASE Goto(c, "register")
    BY <1>3, <2>1 DEF Free
  <2>2. CASE Interacts(c, clients)
    BY <1>1, <1>4, <2>2
  <2> QED
    BY <1>2, <1>5, <2>1, <2>2, Zenon DEF ResolveContext, Interacts
<1>6. CASE Register(c)
  <2>1. Interacts(c, clients + 1)
    BY <1>6, Zenon DEF Register, Interacts
  <2> QED
    BY <1>1, <1>4, <2>1
<1>7. CASE Interact(c) \/ CompleteCallback(c)
  BY <1>3, <1>7 DEF Interact, CompleteCallback, Free
<1>8. CASE ExchangeCode(c)
  <2>1. PICK refreshable \in BOOLEAN :
          Save(c, NewGrant(Requested(call[c]), call[c].client, refreshable), "confirm")
    BY <1>8 DEF ExchangeCode
  <2> DEFINE r == NewGrant(Requested(call[c]), call[c].client, refreshable)
  <2>2. r \in Grant /\ ~r.spent
    BY RequestedGrant
  <2> HIDE DEF r
  <2>3. Save(c, r, "confirm")
    BY <2>1 DEF r
  <2>4. PICK f \in 1..Len(grants') : Saved(c, "confirm", f)
    BY <2>2, <2>3, SavedStore DEF Inv, Saved
  <2> QED
    BY <2>4, SavedMoves
<1>9. CASE Confirm(c)
  <2>1. k.fresh # None /\ k.fresh \in 1..Len(grants')
    <3>1. k.fresh # None /\ k.fresh \in 0..Len(grants')
      BY <1>1, <1>9 DEF Confirm, At, CallInv, CallCore, AtInv
    <3> QED
      BY <1>1, <3>1 DEF None
  <2>2. CASE Goto(c, "adopt")
    <3>1. AtInv("adopt", k, grants')
      BY <2>1 DEF AtInv, Removing
    <3> QED
      BY <2>2, <3>1, GotoMoves DEF Ats, Working
  <2>3. CASE Removal(c, k.fresh, "fail")
    <3>1. MovesOn(c, k.fresh, "fail")
      BY DEF MovesOn, Thens
    <3> HIDE DEF k
    <3> QED
      BY <2>1, <2>3, <3>1, RemovalMoves
  <2> QED
    BY <1>9, <2>2, <2>3 DEF Confirm
<1>10. CASE Adopt(c)
  <2>1. call' = [call EXCEPT ![c] = Covered(Holding(call[c], call[c].fresh))]
    BY <1>10 DEF Adopt
  <2> QED
    BY <2>1, HoldingMoves
<1>11. CASE Refuse(c) \/ Interrupt(c)
  BY <1>2, <1>11 DEF Refuse, Interrupt
<1> QED
  BY <1>5, <1>6, <1>7, <1>8, <1>9, <1>10, <1>11

Acts(c) == Step(c) \/ Refuse(c) \/ Interrupt(c)

LEMMA CallStep ==
  ASSUME Inv, Next, NEW c \in Calls, Acts(c)
  PROVE  CallMoves(c)
BY CurrentGrantMoves, RefreshMoves, RemoveMoves, ChallengeMoves, AuthorizeMoves
  DEF Acts, Step

\* The other calls stay as they were.
LEMMA OthersStay ==
  ASSUME Inv, Next, NEW c \in Calls, Acts(c)
  PROVE  /\ call' \in [Calls -> CallType] /\ CallInv(call'[c], grants')
         /\ \A d \in Calls : d # c => call'[d] = call[d]
<1>1. PICK m \in CallType : Becomes(c, m) /\ CallInv(m, grants')
  BY CallStep DEF CallMoves
<1> QED
  BY <1>1, CallTypes, BecomesSets DEF Inv

LEMMA CallsStep ==
  ASSUME Inv, Next
  PROVE  /\ call' \in [Calls -> CallType]
         /\ \A c \in Calls : CallInv(call'[c], grants')
<1>1. call \in [Calls -> CallType] /\ \A c \in Calls : CallInv(call[c], grants')
  BY CallTypes, CallsKept DEF Inv
<1>2. CASE \E h \in Handles : Expire(h) \/ Revoke(h)
  BY <1>1, <1>2 DEF Expire, Revoke
<1>3. CASE \E c \in Calls : Acts(c)
  BY <1>1, <1>3, OthersStay
<1> QED
  BY <1>2, <1>3 DEF Next, Acts

-----------------------------------------------------------------------------
(* A spent grant, and the remembered handle.                               *)

\* Who takes a step from where.
LEMMA ActsFrom ==
  ASSUME NEW c \in Calls, Acts(c)
  PROVE  /\ call[c].at = "present" => Present(c) \/ Interrupt(c)
         /\ call[c].at = "save" => SaveRefreshed(c) \/ Interrupt(c)
         /\ call[c].at = "verify" => VerifyRefreshed(c) \/ Interrupt(c)
         /\ call[c].at = "remove" => Remove(c) \/ RemoveFails(c) \/ Interrupt(c)
         /\ call[c].at = "forget" => Forget(c) \/ Interrupt(c)
<1>1. CASE Start(c) \/ FindCredential(c) \/ Recall(c) \/ ReadGrant(c) \/ UseGrant(c)
             \/ FindGrant(c) \/ Refresh(c) \/ Send(c)
  BY <1>1 DEF At, Start, FindCredential, Recall, ReadGrant, UseGrant, FindGrant, Refresh,
              Send
<1>2. CASE Challenged(c) \/ ValidatePrior(c) \/ ResolveContext(c) \/ Register(c)
             \/ Interact(c) \/ CompleteCallback(c) \/ ExchangeCode(c) \/ Confirm(c)
             \/ Adopt(c) \/ Refuse(c)
  BY <1>2 DEF At, Challenged, ValidatePrior, ResolveContext, Register, Interact,
              CompleteCallback, ExchangeCode, Confirm, Adopt, Refuse
<1>3. CASE Present(c) \/ SaveRefreshed(c) \/ VerifyRefreshed(c) \/ Remove(c)
             \/ RemoveFails(c) \/ Forget(c)
  BY <1>3 DEF At, Present, SaveRefreshed, VerifyRefreshed, Remove, RemoveFails, Forget
<1> QED
  BY <1>1, <1>2, <1>3 DEF Acts, Step

\* A call that gives up the grant in hand is still to remove it.
LEMMA RemovalLeaves ==
  ASSUME Inv, NEW c \in Calls, NEW h \in Nat, NEW next \in Thens, Removal(c, h, next),
         NEW g, g = call[c].hand, h = g \/ next = "discard"
  PROVE  Leaving(c, g)'
<1> DEFINE m == Removed(call[c], h, next)
<1>1. call \in [Calls -> CallType]
  BY CallTypes DEF Inv
<1>2. /\ m \in CallType /\ Becomes(c, m) /\ m.at = "remove" /\ m.victim = h
      /\ m.then = next /\ m.hand = call[c].hand
  BY <1>1, RemovalBecomes
<1> HIDE DEF m
<1>3. call'[c] = m
  BY <1>1, <1>2, BecomesSets
<1>4. m.at \in Removing
  BY <1>2 DEF Removing
<1> QED
  BY <1>2, <1>3, <1>4 DEF Leaving

\* A spent grant stays on its way out until it is gone, another is in its place, the call
\* is interrupted or the store refuses the removal.
LEMMA LeavingKept ==
  ASSUME Inv, Next, NEW c \in Calls, NEW h \in stored, Leaving(c, h), grants[h].spent,
         h \in stored', grants'[h].spent
  PROVE  grants'[h].left \/ Leaving(c, h)'
<1> USE DEF store
<1>1. /\ call \in [Calls -> CallType] /\ call' \in [Calls -> CallType] /\ TypeOK
      /\ call[c] \in CallType /\ h \in Nat /\ h = call[c].hand
  BY CallTypes, CallsStep DEF Inv, Leaving
<1>2. CASE ~Acts(c)
  <2>1. call'[c] = call[c]
    <3>1. CASE \E g \in Handles : Expire(g) \/ Revoke(g)
      BY <3>1 DEF Expire, Revoke
    <3>2. CASE \E d \in Calls : Acts(d)
      BY <1>2, <3>2, OthersStay
    <3> QED
      BY <3>1, <3>2 DEF Next, Acts
  <2> QED
    BY <2>1 DEF Leaving
<1>3. ASSUME Leave(c), stored' \subseteq stored PROVE grants'[h].left
  BY <1>1, <1>3, LeftStore
<1>4. ASSUME Removal(c, h, "fail") \/ Removal(c, h, "adopt") PROVE Leaving(c, h)'
  BY <1>1, <1>4, RemovalLeaves DEF Thens
<1>5. CASE Interrupt(c) /\ call[c].at \in {"present", "save", "verify"} \cup Removing
  BY <1>3, <1>5 DEF Interrupt
<1>6. CASE Present(c)
  <2>1. CASE Goto(c, "save")
    <3>1. call'[c].at = "save" /\ call'[c].hand = h
      BY <1>1, <2>1 DEF Goto, CallType
    <3> QED
      BY <3>1 DEF Leaving
  <2> QED
    BY <1>1, <1>4, <1>6, <2>1 DEF Present
<1>7. CASE SaveRefreshed(c)
  <2> DEFINE r == NewGrant(grants[h].level, grants[h].client, TRUE)
  <2>1. r \in Grant /\ ~r.spent
    BY <1>1, <1>7, HandIsGrant, NewGrantType DEF SaveRefreshed, At
  <2>2. Save(c, r, "verify") \/ Removal(c, h, "fail")
    BY <1>1, <1>7 DEF SaveRefreshed
  <2> HIDE DEF r
  <2>3. CASE Save(c, r, "verify")
    <3>1. PICK f \in 1..Len(grants') :
            /\ call' = [call EXCEPT ![c].at = "verify", ![c].fresh = f]
            /\ ~grants'[f].spent
      BY <1>1, <2>1, <2>3, SavedStore
    <3>2. f # h
      BY <3>1
    <3>3. call'[c].at = "verify" /\ call'[c].hand = h /\ call'[c].fresh = f
      BY <1>1, <3>1 DEF CallType
    <3> QED
      BY <3>2, <3>3 DEF Leaving
  <2> QED
    BY <1>4, <2>2, <2>3
<1>8. CASE VerifyRefreshed(c)
  <2>1. call[c].fresh # h /\ call[c].fresh \in Nat
    BY <1>1, <1>8 DEF VerifyRefreshed, At, Leaving, Removing, CallType
  <2>2. CASE Removal(c, call[c].fresh, "discard")
    BY <1>1, <2>1, <2>2, RemovalLeaves DEF Thens
  <2> QED
    BY <1>1, <1>4, <1>8, <2>1, <2>2 DEF VerifyRefreshed
<1>9. CASE Remove(c)
  <2>1. call[c].at = "remove" /\ call[c].victim # h
    BY <1>9 DEF Remove, At
  <2>2. call[c].then = "discard"
    BY <2>1 DEF Leaving
  <2>3. /\ call'[c].at = "forget" /\ call'[c].hand = h /\ call'[c].then = "discard"
    BY <1>1, <1>9, <2>2 DEF Remove, Goto, CallType
  <2> QED
    BY <2>3 DEF Leaving, Removing
<1>10. CASE RemoveFails(c)
  <2>1. stored' \subseteq stored
    BY <1>10 DEF RemoveFails
  <2> QED
    BY <1>1, <1>3, <1>4, <1>10, <2>1 DEF RemoveFails
<1>11. CASE Forget(c)
  <2>1. call[c].then = "discard"
    BY <1>11 DEF Forget, At, Leaving
  <2>2. Removal(c, h, "fail")
    BY <1>1, <1>11, <2>1 DEF Forget, Removal
  <2> QED
    BY <1>4, <2>2
<1>12. call[c].at \in {"present", "save", "verify", "remove", "forget"}
  BY DEF Leaving, Removing
<1>13. CASE Acts(c)
  <2>1. call[c].at \in {"present", "save", "verify"} \cup Removing
    BY <1>12 DEF Removing
  <2> QED
    BY <1>5, <1>6, <1>7, <1>8, <1>9, <1>10, <1>11, <1>12, <1>13, <2>1, ActsFrom
<1> QED
  BY <1>2, <1>13

LEMMA SpentInvStep ==
  ASSUME Inv, Next
  PROVE  SpentInv'
<1> SUFFICES ASSUME NEW h \in stored', grants'[h].spent
             PROVE  grants'[h].left \/ \E c \in Calls : Leaving(c, h)'
  BY DEF SpentInv, Leaving
<1>1. PICK now : /\ StoreLater(now)
                 /\ \A g \in now : \E c \in Calls : Takes(c) /\ g = call[c].hand
  BY StoreStep DEF StoreMoves
<1>2. /\ h \in stored /\ h \in 1..Len(grants) /\ (grants[h].spent \/ h \in now)
      /\ grants[h].left => grants'[h].left
  BY <1>1, CallTypes DEF StoreLater, Inv
<1>3. CASE grants[h].spent
  <2>1. CASE \E c \in Calls : Leaving(c, h)
    BY <1>2, <1>3, <2>1, LeavingKept
  <2> QED
    BY <1>2, <1>3, <2>1 DEF Inv, SpentInv
<1>4. CASE h \in now
  <2>1. PICK c \in Calls : Takes(c) /\ h = call[c].hand
    BY <1>1, <1>4
  <2>2. call \in [Calls -> CallType]
    BY CallTypes DEF Inv
  <2>3. call'[c].at = "present" /\ call'[c].hand = h
    BY <2>1, <2>2 DEF Takes, Goto, CallType
  <2> QED
    BY <2>3 DEF Leaving
<1> QED
  BY <1>2, <1>3, <1>4

\* What a step does to the remembered handle.
RemembersOne == UNCHANGED stored /\ \E h \in 1..Len(grants) : Remember(h)
ForgetsOne(c) ==
  /\ Acts(c) /\ call[c].at \in Removing /\ ForgetGrant(call[c].victim)
  /\ stored' \subseteq stored
  /\ \A h \in stored \ stored' : call[c].at = "remove" /\ h = call[c].victim
RemovesOne(c) == UNCHANGED <<remembered, late>> /\ Remove(c)
KeepsMemory == UNCHANGED <<remembered, late>> /\ stored \subseteq stored'
               /\ \A c \in Calls : call[c].at = "forget" => call'[c] = call[c]

LEMMA MemoryStep ==
  ASSUME Inv, Next
  PROVE  /\ clients' \in Nat /\ uri' \in BOOLEAN
         /\ RemembersOne \/ KeepsMemory \/ \E c \in Calls : ForgetsOne(c) \/ RemovesOne(c)
<1> USE DEF store, memory
<1> DEFINE M == RemembersOne \/ KeepsMemory \/ \E c \in Calls : ForgetsOne(c) \/ RemovesOne(c)
<1>1. /\ clients \in Nat /\ uri \in BOOLEAN /\ Len(grants) \in Nat
      /\ call \in [Calls -> CallType] /\ \A c \in Calls : CallInv(call[c], grants)
  BY CallTypes DEF Inv, TypeOK
<1>2. ASSUME NEW h \in Handles, Expire(h) \/ Revoke(h)
      PROVE  clients' \in Nat /\ uri' \in BOOLEAN /\ KeepsMemory
  BY <1>1, <1>2 DEF Expire, Revoke, KeepsMemory
<1>3. ASSUME NEW c \in Calls, Acts(c), call[c].at # "forget",
             UNCHANGED <<remembered, late>>, stored \subseteq stored'
      PROVE  KeepsMemory
  BY <1>3, OthersStay DEF KeepsMemory
<1>4. ASSUME NEW c \in Calls, Start(c) \/ FindCredential(c) \/ Recall(c) \/ ReadGrant(c)
               \/ FindGrant(c) \/ Refresh(c) \/ Present(c) \/ SaveRefreshed(c)
               \/ VerifyRefreshed(c)
      PROVE  clients' \in Nat /\ uri' \in BOOLEAN /\ KeepsMemory
  <2>1. /\ clients' \in Nat /\ uri' \in BOOLEAN /\ UNCHANGED <<remembered, late>>
        /\ stored \subseteq stored' /\ call[c].at # "forget"
    BY <1>1, <1>4 DEF Start, FindCredential, Recall, ReadGrant, FindGrant, Refresh,
                      Present, SaveRefreshed, VerifyRefreshed, Save, At
  <2> QED
    BY <1>3, <1>4, <2>1 DEF Acts, Step
<1>5. ASSUME NEW c \in Calls, Send(c) \/ Challenged(c) \/ ValidatePrior(c)
               \/ ResolveContext(c) \/ Register(c) \/ Interact(c) \/ CompleteCallback(c)
               \/ ExchangeCode(c) \/ Confirm(c) \/ Refuse(c)
      PROVE  clients' \in Nat /\ uri' \in BOOLEAN /\ KeepsMemory
  <2>1. /\ clients' \in Nat /\ uri' \in BOOLEAN /\ UNCHANGED <<remembered, late>>
        /\ stored \subseteq stored' /\ call[c].at # "forget"
    <3>1. CASE Send(c) \/ Challenged(c) \/ ValidatePrior(c) \/ ResolveContext(c)
                 \/ Interact(c) \/ CompleteCallback(c) \/ Confirm(c) \/ Refuse(c)
      BY <1>1, <3>1 DEF Send, Challenged, ValidatePrior, ResolveContext, Interact,
                        CompleteCallback, Confirm, Refuse, At
    <3>2. CASE Register(c) \/ ExchangeCode(c)
      BY <1>1, <3>2 DEF Register, ExchangeCode, Save, At
    <3> QED
      BY <1>5, <3>1, <3>2
  <2> QED
    BY <1>3, <1>5, <2>1 DEF Acts, Step
<1>6. ASSUME NEW c \in Calls, UseGrant(c)
      PROVE  clients' \in Nat /\ uri' \in BOOLEAN /\ M
  <2>1. call[c].hand \in 1..Len(grants)
    BY <1>6, HandIsGrant DEF UseGrant, At
  <2>2. /\ clients' \in Nat /\ uri' \in BOOLEAN /\ UNCHANGED stored
        /\ Remember(call[c].hand) \/ UNCHANGED <<remembered, late>>
    BY <1>1, <1>6 DEF UseGrant
  <2>3. call[c].at # "forget" /\ Acts(c)
    BY <1>6 DEF Acts, Step, UseGrant, At
  <2> QED
    BY <1>3, <2>1, <2>2, <2>3 DEF RemembersOne
<1>7. ASSUME NEW c \in Calls, Forget(c) \/ Adopt(c)
      PROVE  clients' \in Nat /\ uri' \in BOOLEAN /\ M
  <2>1. clients' \in Nat /\ uri' \in BOOLEAN /\ UNCHANGED stored
    BY <1>1, <1>7 DEF Forget, Adopt
  <2>2. ASSUME call[c].fresh # None, Remember(call[c].fresh) PROVE M
    <3>1. call[c].fresh \in 0..Len(grants)
      BY <1>1 DEF CallInv, CallCore
    <3>2. call[c].fresh \in 1..Len(grants)
      BY <1>1, <2>2, <3>1 DEF None
    <3> QED
      BY <2>1, <2>2, <3>2 DEF RemembersOne
  <2>3. CASE Adopt(c)
    BY <1>1, <2>2, <2>3 DEF Adopt, At, CallInv, AtInv
  <2>4. CASE Forget(c) /\ call[c].then = "adopt"
    BY <1>1, <2>2, <2>4 DEF Forget, At, CallInv, AtInv, Removing
  <2>5. CASE Forget(c) /\ call[c].then # "adopt"
    BY <2>1, <2>5 DEF Forget, ForgetsOne, Acts, Step, At, Removing
  <2> QED
    BY <1>7, <2>1, <2>3, <2>4, <2>5
<1>8. ASSUME NEW c \in Calls, Remove(c) \/ RemoveFails(c)
      PROVE  clients' \in Nat /\ uri' \in BOOLEAN /\ M
  <2>1. UNCHANGED <<clients, uri>>
    BY <1>8 DEF Remove, RemoveFails
  <2>2. CASE Remove(c)
    BY <1>1, <2>1, <2>2 DEF Remove, RemovesOne
  <2>3. CASE RemoveFails(c)
    <3>1. /\ call[c].at = "remove" /\ ForgetGrant(call[c].victim)
          /\ stored' \subseteq stored
          /\ \A h \in stored \ stored' : h = call[c].victim
      BY <2>3 DEF RemoveFails, At
    <3>2. Acts(c) /\ call[c].at \in Removing
      BY <2>3, <3>1 DEF Acts, Step, Removing
    <3> QED
      BY <1>1, <2>1, <3>1, <3>2 DEF ForgetsOne
  <2> QED
    BY <1>8, <2>2, <2>3
<1>9. ASSUME NEW c \in Calls, Interrupt(c)
      PROVE  clients' \in Nat /\ uri' \in BOOLEAN /\ M
  <2>1. UNCHANGED <<clients, stored, uri>> /\ Acts(c)
    BY <1>9 DEF Interrupt, Acts
  <2>2. CASE call[c].at \in Removing
    BY <1>1, <1>9, <2>1, <2>2 DEF Interrupt, ForgetsOne
  <2>3. CASE call[c].at \notin Removing
    <3>1. UNCHANGED <<remembered, late>> /\ call[c].at # "forget"
      BY <1>9, <2>3 DEF Interrupt, Removing
    <3> QED
      BY <1>1, <1>3, <2>1, <3>1
  <2> QED
    BY <2>2, <2>3
<1> QED
  BY <1>2, <1>4, <1>5, <1>6, <1>7, <1>8, <1>9 DEF Next, Step

LEMMA TypeOKStep ==
  ASSUME Inv, Next
  PROVE  TypeOK'
<1>1. /\ remembered \in 0..Len(grants) /\ late \subseteq 1..Len(grants)
      /\ stored \subseteq 1..Len(grants) /\ Len(grants) \in Nat /\ Len(grants') \in Nat
      /\ Len(grants) <= Len(grants') /\ stored' \subseteq 1..Len(grants')
      /\ grants' \in Seq(Grant) /\ clients' \in Nat /\ uri' \in BOOLEAN
  BY CallTypes, CallsKept, MemoryStep DEF Inv
<1>2. remembered' \in 0..Len(grants) /\ late' \subseteq 1..Len(grants)
  <2>1. CASE RemembersOne
    BY <1>1, <2>1 DEF RemembersOne, Remember
  <2>2. CASE KeepsMemory \/ \E c \in Calls : RemovesOne(c)
    BY <1>1, <2>2 DEF KeepsMemory, RemovesOne
  <2>3. CASE \E c \in Calls : ForgetsOne(c)
    BY <1>1, <2>3 DEF ForgetsOne, ForgetGrant, None
  <2> QED
    BY <2>1, <2>2, <2>3, MemoryStep
<1>3. /\ remembered' \in Handles' \cup {None}
      /\ late' \subseteq Handles' /\ stored' \subseteq Handles'
  BY <1>1, <1>2 DEF Handles, None
<1>4. call' \in [Calls -> CallType]
  BY CallsStep
<1> QED
  BY <1>1, <1>3, <1>4, Zenon
    DEF TypeOK, CallType, Ats, JobKinds, Statuses, Thens

LEMMA DanglingStep ==
  ASSUME Inv, Next
  PROVE  DanglingIsLate'
<1> SUFFICES ASSUME remembered' \notin stored', remembered' # None
             PROVE  \/ remembered' \in late'
                    \/ \E c \in Calls : call'[c].at = "forget" /\ call'[c].victim = remembered'
  BY DEF DanglingIsLate, At
<1>1. call \in [Calls -> CallType] /\ call' \in [Calls -> CallType]
  BY CallTypes, CallsStep DEF Inv
<1>2. remembered \notin stored /\ remembered # None =>
        \/ remembered \in late
        \/ \E c \in Calls : call[c].at = "forget" /\ call[c].victim = remembered
  BY DEF Inv, DanglingIsLate, At
<1>3. CASE RemembersOne
  BY <1>3 DEF RemembersOne, Remember
<1>4. CASE KeepsMemory
  BY <1>2, <1>4 DEF KeepsMemory
<1>5. ASSUME NEW c \in Calls, ForgetsOne(c)
      PROVE  \/ remembered' \in late'
             \/ \E d \in Calls : call'[d].at = "forget" /\ call'[d].victim = remembered'
  <2>1. /\ UNCHANGED late /\ remembered' = remembered /\ remembered # call[c].victim
        /\ remembered \notin stored
    BY <1>5 DEF ForgetsOne, ForgetGrant
  <2>2. \A d \in Calls : d # c => call'[d] = call[d]
    BY <1>5, OthersStay DEF ForgetsOne
  <2> QED
    BY <1>2, <2>1, <2>2
<1>6. ASSUME NEW c \in Calls, RemovesOne(c)
      PROVE  \/ remembered' \in late'
             \/ \E d \in Calls : call'[d].at = "forget" /\ call'[d].victim = remembered'
  <2>1. /\ UNCHANGED <<remembered, late>> /\ stored' = stored \ {call[c].victim}
        /\ Goto(c, "forget") /\ call[c].at = "remove"
    BY <1>6 DEF RemovesOne, Remove, At
  <2>2. \A d \in Calls : d # c => call'[d] = call[d]
    BY <1>6, OthersStay DEF RemovesOne, Acts, Step
  <2>3. call'[c].at = "forget" /\ call'[c].victim = call[c].victim
    BY <1>1, <2>1 DEF Goto, CallType
  <2>4. CASE remembered \in stored
    BY <2>1, <2>3, <2>4
  <2>5. CASE remembered \notin stored
    BY <1>2, <2>1, <2>2, <2>5
  <2> QED
    BY <2>4, <2>5
<1> QED
  BY <1>3, <1>4, <1>5, <1>6, MemoryStep

-----------------------------------------------------------------------------
(* The theorems.                                                           *)

LEMMA InvInit == Init => Inv
<1> SUFFICES ASSUME Init PROVE Inv
  OBVIOUS
<1>1. \E r \in BOOLEAN : grants \in {<<>>, <<NewGrant(1, 1, r)>>}
  BY DEF Init
<1>2. /\ grants \in Seq(Grant) /\ Len(grants) \in {0, 1}
      /\ \A h \in 1..Len(grants) : ~grants[h].spent
  <2>1. \A r \in BOOLEAN : NewGrant(1, 1, r) \in Grant /\ ~NewGrant(1, 1, r).spent
    BY DEF NewGrant, Grant, Levels
  <2>2. \A g \in Grant : <<g>> \in Seq(Grant) /\ Len(<<g>>) = 1 /\ <<g>>[1] = g
    OBVIOUS
  <2>3. CASE grants = <<>>
    BY <2>3
  <2>4. ASSUME NEW g \in Grant, ~g.spent, grants = <<g>>
        PROVE  /\ grants \in Seq(Grant) /\ Len(grants) = 1
               /\ \A h \in 1..Len(grants) : ~grants[h].spent
    BY <2>2, <2>4
  <2> QED
    BY <1>1, <2>1, <2>3, <2>4
<1>3. \A k \in Jobs :
        /\ k \in CallType /\ k.at = "idle" /\ k.hand = 0 /\ k.fresh = 0
        /\ k.prior = 0 /\ k.victim = 0
  <2>1. "request" \in JobKinds /\ "acquire" \in JobKinds /\ 1 \in Levels /\ 2 \in Levels
    BY DEF JobKinds, Levels
  <2> TAKE k \in Jobs
  <2>2. \E job \in JobKinds, want \in Levels, need \in Levels : k = Idle(job, want, need)
    BY <2>1, Zenon DEF Jobs
  <2> QED
    BY <2>2, IdleType
<1>4. call \in [Calls -> CallType] /\ \A c \in Calls : call[c] \in Jobs
  BY <1>3 DEF Init
<1>5. \A c \in Calls : CallInv(call[c], grants)
  <2> TAKE c \in Calls
  <2>1. "idle" \in Free
    BY DEF Free
  <2>2. CallCore(call[c], grants)
    BY <1>2, <1>3, <1>4 DEF CallCore
  <2> QED
    BY <1>3, <1>4, <2>1, <2>2, FreeAsksNothing DEF CallInv
<1>6. /\ clients \in Nat /\ stored = 1..Len(grants) /\ late = {} /\ uri = FALSE
      /\ remembered = Len(grants)
  BY DEF Init, Handles
<1>7. remembered \in stored \cup {None}
  BY <1>2, <1>6 DEF None
<1>8. TypeOK
  BY <1>2, <1>4, <1>6, <1>7, Zenon
    DEF TypeOK, Handles, CallType, Ats, JobKinds, Statuses, Thens
<1> QED
  BY <1>2, <1>5, <1>6, <1>7, <1>8 DEF Inv, SpentInv, DanglingIsLate

LEMMA InvStep == Inv /\ [Next]_vars => Inv'
<1> SUFFICES ASSUME Inv, [Next]_vars PROVE Inv'
  OBVIOUS
<1>1. CASE Next
  BY <1>1, TypeOKStep, CallsStep, SpentInvStep, DanglingStep DEF Inv
<1>2. CASE UNCHANGED vars
  <2>1. TypeOK'
    BY <1>2, Zenon DEF vars, Inv, TypeOK, Handles
  <2>2. DanglingIsLate'
    BY <1>2 DEF vars, Inv, DanglingIsLate, At
  <2>3. \A c \in Calls : CallInv(call[c], grants)'
    <3>1. call' = call /\ grants' = grants
      BY <1>2 DEF vars
    <3>2. \A c \in Calls : CallInv(call'[c], grants')
      BY <3>1, Zenon DEF Inv
    <3> QED
      BY <3>2
  <2>4. SpentInv'
    BY <1>2 DEF vars, Inv, SpentInv, Leaving
  <2> QED
    BY <2>1, <2>2, <2>3, <2>4 DEF Inv
<1> QED
  BY <1>1, <1>2

\* The inductive invariant: the types, what each call has in its hands at the step where
\* it stands, that a spent grant is leaving and that a dangling handle came late.
THEOREM Invariance == Spec => []Inv
<1> QED
  BY InvInit, InvStep, PTL DEF Spec

\* Every handle that is stored, remembered or in the hands of a call names a grant that
\* saveGrant saved (src/src/auth/client/runtime.ts).
THEOREM TypeCorrect == Spec => []TypeOK
<1>1. Inv => TypeOK
  BY DEF Inv
<1> QED
  BY <1>1, Invariance, PTL

\* Why the call c may remove h.
Condemned(c, h) ==
  \/ grants[h].expired \/ grants[h].revoked
  \/ /\ At(c, "remove") /\ call[c].victim = h
     /\ Superseded(c, h) \/ Unconfirmed(c, h)

\* However many calls overlap, and whatever the store answers, it loses no grant that
\* still works, but for one that took the place of a grant a call had found wanting, and
\* one that the call that saved it could not read back.
THEOREM WorkingGrantsStay == Spec => WorkingGrantsAreKept
<1>1. Inv /\ Next =>
        \A h \in stored \ stored' :
          \/ grants[h].expired \/ grants[h].revoked
          \/ \E c \in Calls : /\ At(c, "remove") /\ call[c].victim = h
                              /\ Superseded(c, h) \/ Unconfirmed(c, h)
  <2> SUFFICES ASSUME Inv, Next, NEW h \in stored, h \notin stored'
               PROVE  \E c \in Calls : Condemned(c, h)
    BY DEF Condemned
  <2>1. \E c \in Calls : call[c].at = "remove" /\ h = call[c].victim
    BY MemoryStep DEF RemembersOne, KeepsMemory, ForgetsOne, RemovesOne, Remove, At
  <2>2. PICK c \in Calls : call[c].at = "remove" /\ h = call[c].victim
    BY <2>1
  <2>4. h \in 1..Len(grants) /\ grants \in Seq(Grant) /\ call[c] \in CallType
    BY CallTypes DEF Inv
  <2>5. grants[h].saves \in Nat /\ call[c].read \in Nat
    BY <2>4, SavesAreNats DEF CallType
  <2>3. \/ Judged(call[c], grants, h)
        \/ h = call[c].fresh /\ call[c].then \in {"discard", "fail"}
    BY <2>2 DEF Inv, CallInv, AtInv
  <2> QED
    BY <2>2, <2>3, <2>5 DEF Condemned, Judged, Bad, Superseded, Unconfirmed, At
<1>2. Inv /\ [Next]_vars =>
        [\A h \in stored \ stored' :
          \/ grants[h].expired \/ grants[h].revoked
          \/ \E c \in Calls : /\ At(c, "remove") /\ call[c].victim = h
                              /\ Superseded(c, h) \/ Unconfirmed(c, h)]_vars
  BY <1>1
<1> QED
  BY <1>2, Invariance, PTL DEF Spec, WorkingGrantsAreKept

\* A stored grant whose refresh token was taken is on its way out, by a call that holds
\* it, or its call was interrupted, or the store refused to remove it.
THEOREM SpentGrantsLeave == Spec => []SpentGrantIsLeaving
<1>1. Inv => SpentGrantIsLeaving
  BY DEF Inv, SpentInv, Leaving, SpentGrantIsLeaving, Removing
<1> QED
  BY <1>1, Invariance, PTL

\* The remembered handle names a stored grant, unless the call that removed it has still
\* to forget it, or a call that had read it remembered it late.
THEOREM DanglingHandlesAreLate == Spec => []DanglingIsLate
<1>1. Inv => DanglingIsLate
  BY DEF Inv
<1> QED
  BY <1>1, Invariance, PTL

=============================================================================
