------------------------ MODULE InputRequiredProofs ------------------------
(***************************************************************************)
(* Proofs about InputRequired, for any number of calls and tokens and any  *)
(* clock: a token is opened once unless it lapsed, a refusal is true, a    *)
(* replay means that another call sent the token, and a call that goes on  *)
(* runs out of rounds.                                                     *)
(***************************************************************************)
EXTENDS InputRequired, FiniteSetTheorems, SequenceTheorems, TLAPS

\* TypeOK's types of a token and of a call.
Ats == {"over", "sent", "opening", "deciding", "answered", "asking"}
Kinds == {"none", "final", "ask"}
Begun == 0 .. MaxBegins
TokenOrNone == Tokens \cup {NoToken}
TokenType == [iat : Nat, principal : Principals]
CallType ==
  [at : Ats, begins : Begun, principal : Principals, round : Nat, token : TokenOrNone,
   now : Nat, verdict : Verdicts, answer : Kinds, asked : Nat, from : TokenOrNone,
   running : Nat, done : Nat]

Sealed == DOMAIN tokens

\* The call with this number of a place for calls has sent a token that was not opened
\* or refused yet.
Pending(c, b, t) ==
  call[c].begins = b /\ call[c].at \in {"sent", "opening"} /\ call[c].token = t

\* What is sent, held or answered was sealed before, and what is sent has no verdict.
SealedInv ==
  /\ Len(tokens) <= MaxTokens
  /\ entries \subseteq Sealed /\ lapsed \subseteq Sealed
  /\ \A t \in Tokens \ Sealed : carried[t] = {} /\ opened[t] = 0
  /\ \A c \in Calls : /\ call[c].token \in Sealed \cup {NoToken}
                      /\ call[c].from \in Sealed \cup {NoToken}
                      /\ call[c].at = "opening" => call[c].token # NoToken
                      /\ call[c].at \in {"sent", "opening"} => call[c].verdict = "none"

\* A token that was opened is in the store, or it lapsed.
StoreInv ==
  /\ \A t \in entries : opened[t] > 0
  /\ \A t \in Tokens : opened[t] > 0 => t \in entries \cup lapsed
  /\ OpenedOnce

\* A call has sent its token, but not yet the one it was given, and no call has sent
\* anything under a number it has not reached.
CarriedInv ==
  /\ \A t \in Tokens : IsFiniteSet(carried[t])
  /\ \A t \in Tokens : \A p \in carried[t] : p[2] <= call[p[1]].begins
  /\ \A c \in Calls :
       LET k == call[c] IN
       /\ k.at # "over" /\ k.token # NoToken => <<c, k.begins>> \in carried[k.token]
       /\ k.from # NoToken => <<c, k.begins>> \notin carried[k.from]

\* A token was opened for a call that does not wait to have it opened.
OpenerInv ==
  \A t \in Tokens : opened[t] > 0 => \E p \in carried[t] : ~Pending(p[1], p[2], t)

\* Two calls sent the token of a replay.
ReplayInv ==
  \A c \in Calls : call[c].verdict = "Replay" =>
    call[c].token # NoToken /\ \E p, q \in carried[call[c].token] : p # q

\* The inductive invariant.
Inv ==
  /\ TypeOK /\ SealedInv /\ StoreInv /\ CarriedInv /\ OpenerInv /\ ReplayInv
  /\ RefusalsAreTrue

-----------------------------------------------------------------------------
(* Types.                                                                  *)

LEMMA Types ==
  ASSUME TypeOK
  PROVE  /\ call \in [Calls -> CallType] /\ tokens \in Seq(TokenType)
         /\ Len(tokens) \in Nat /\ Sealed = 1..Len(tokens)
         /\ opened \in [Tokens -> Nat] /\ carried \in [Tokens -> SUBSET (Calls \X Nat)]
         /\ capacity \in Nat /\ clock \in Nat /\ TimeToLive \in Nat /\ MaxTokens \in Nat
<1>1. call \in [Calls -> CallType]
  BY Zenon DEF TypeOK, CallType, Ats, Kinds, Begun, TokenOrNone
<1>2. tokens \in Seq(TokenType)
  BY DEF TypeOK, TokenType
<1>3. Len(tokens) \in Nat /\ Sealed = 1..Len(tokens)
  BY <1>2 DEF Sealed
<1>4. capacity \in Nat /\ clock \in Nat
  BY OptionsAssumption DEF TypeOK
<1> QED
  BY <1>1, <1>2, <1>3, <1>4, OptionsAssumption DEF TypeOK

LEMMA TypesBack ==
  ASSUME mode' \in {"automatic", "manual"}, capacity' \in Capacities,
         clock' \in 0 .. MaxTime, tokens' \in Seq(TokenType),
         entries' \subseteq Tokens, lapsed' \subseteq Tokens,
         opened' \in [Tokens -> Nat], carried' \in [Tokens -> SUBSET (Calls \X Nat)],
         call' \in [Calls -> CallType]
  PROVE  TypeOK'
BY Zenon DEF TypeOK, TokenType, CallType, Ats, Kinds, Begun, TokenOrNone

LEMMA StepSets ==
  ASSUME call \in [Calls -> CallType], NEW c \in Calls, NEW m \in CallType, Step(c, m)
  PROVE  /\ call' \in [Calls -> CallType] /\ call'[c] = m
         /\ \A d \in Calls : d # c => call'[d] = call[d]
BY DEF Step

\* The tokens that count against the store at a time.
Spent(sealed, times, now) ==
  {t \in DOMAIN sealed : times[t] > 0 /\ sealed[t].iat + TimeToLive > now}

LEMMA SpentIsFinite ==
  ASSUME NEW sealed \in Seq(TokenType), NEW times, NEW now,
         NEW S \in SUBSET Spent(sealed, times, now)
  PROVE  /\ IsFiniteSet(S) /\ Cardinality(S) \in Nat
         /\ Cardinality(Spent(sealed, times, now)) \in Nat
         /\ Cardinality(S) <= Cardinality(Spent(sealed, times, now))
<1>1. IsFiniteSet(1..Len(sealed))
  BY LenProperties, FS_Interval
<1>2. Spent(sealed, times, now) \subseteq 1..Len(sealed)
  BY DEF Spent
<1>3. IsFiniteSet(Spent(sealed, times, now))
  BY <1>1, <1>2, FS_Subset
<1> QED
  BY <1>3, FS_Subset, FS_CardinalityType

\* The refusal of one call.
Told(k, sealed, times) ==
  /\ k.verdict = "Replay" => times[k.token] > 0
  /\ k.verdict = "ReplayStoreFull" =>
       Cardinality(Spent(sealed, times, k.now)) >= capacity

LEMMA RefusalsAre ==
  /\ RefusalsAreTrue <=> \A c \in Calls : Told(call[c], tokens, opened)
  /\ RefusalsAreTrue' <=> \A c \in Calls : Told(call[c], tokens, opened)'
BY DEF RefusalsAreTrue, Told, Spent, Expiry

-----------------------------------------------------------------------------
(* What carries over when nothing is consumed.                             *)

\* Tokens keep their dates, and openings are not taken back.
Later(sealed, times) ==
  /\ sealed \in Seq(TokenType) /\ times \in [Tokens -> Nat]
  /\ DOMAIN tokens \subseteq DOMAIN sealed
  /\ \A t \in DOMAIN tokens : sealed[t] = tokens[t]
  /\ \A t \in Tokens : opened[t] > 0 => times[t] > 0

LEMMA ToldStays ==
  ASSUME Inv, NEW sealed, NEW times, Later(sealed, times), NEW c \in Calls
  PROVE  Told(call[c], sealed, times)
<1>1. /\ call[c] \in CallType /\ Told(call[c], tokens, opened) /\ capacity \in Nat
      /\ tokens \in Seq(TokenType) /\ \A t \in DOMAIN tokens : t \in Tokens
  <2>1. \A t \in 1..Len(tokens) : t \in Tokens
    BY Types DEF Inv, SealedInv, Tokens
  <2> QED
    BY <2>1, Types, RefusalsAre DEF Inv, Sealed
<1>2. ASSUME call[c].verdict = "Replay" PROVE times[call[c].token] > 0
  <2>1. call[c].token \in Tokens
    BY <1>1, <1>2 DEF Inv, ReplayInv, CallType, TokenOrNone
  <2> QED
    BY <1>1, <1>2, <2>1 DEF Told, Later
<1>3. ASSUME call[c].verdict = "ReplayStoreFull"
      PROVE  Cardinality(Spent(sealed, times, call[c].now)) >= capacity
  <2> DEFINE now == call[c].now
  <2>1. Spent(tokens, opened, now) \subseteq Spent(sealed, times, now)
    BY <1>1 DEF Later, Spent
  <2>2. /\ Cardinality(Spent(tokens, opened, now)) >= capacity
        /\ Cardinality(Spent(tokens, opened, now)) \in Nat
    BY <1>1, <1>3, SpentIsFinite DEF Told
  <2>3. /\ Cardinality(Spent(sealed, times, now)) \in Nat
        /\ Cardinality(Spent(tokens, opened, now)) <= Cardinality(Spent(sealed, times, now))
    BY <2>1, SpentIsFinite DEF Later
  <2> HIDE DEF now
  <2> QED
    BY <1>1, <2>2, <2>3 DEF now
<1> QED
  BY <1>2, <1>3 DEF Told

\* The refusals after a step that leaves the store as it is, or later, when the verdict
\* of the call that steps is told.
LEMMA RefusalsStep ==
  ASSUME Inv, Later(tokens', opened'), UNCHANGED capacity, NEW c \in Calls,
         \A d \in Calls : d # c => call'[d] = call[d],
         Told(call'[c], tokens', opened')
  PROVE  RefusalsAreTrue'
<1>1. ASSUME NEW d \in Calls PROVE Told(call'[d], tokens', opened')
  BY ToldStays
<1>2. \A d \in Calls : Told(call[d], tokens, opened)'
  BY <1>1 DEF Told
<1> QED
  BY <1>2, RefusalsAre

\* The call goes on, and neither sends a token nor has one opened.
Quietly(k, m) ==
  /\ m \in CallType /\ m.begins = k.begins
  /\ m.at \in {"sent", "opening"} =>
       k.at \in {"sent", "opening"} /\ m.token = k.token /\ m.verdict = k.verdict
  /\ m.at = "opening" => m.token # NoToken
  /\ m.at # "over" => k.at # "over" /\ m.token = k.token
  /\ m.token \in {k.token, NoToken} /\ m.from \in {k.from, NoToken}
  /\ m.verdict \in {"Replay", "ReplayStoreFull"} =>
       m.verdict = k.verdict /\ m.token = k.token /\ m.now = k.now

LEMMA QuietStep ==
  ASSUME Inv, NEW c \in Calls, NEW m, Quietly(call[c], m), Step(c, m),
         UNCHANGED <<options, clock, tokens, store, carried>>
  PROVE  Inv'
<1> USE DEF options, store
<1>1. /\ call \in [Calls -> CallType] /\ m \in CallType
      /\ call' \in [Calls -> CallType] /\ call'[c] = m
      /\ \A d \in Calls : d # c => call'[d] = call[d]
  BY Types, StepSets DEF Inv, Quietly
<1>2. TypeOK'
  BY <1>1, Types, TypesBack DEF Inv, TypeOK
<1>3. SealedInv'
  BY <1>1 DEF Inv, SealedInv, Sealed, Quietly
<1>4. StoreInv'
  BY DEF Inv, StoreInv, OpenedOnce
<1>5. CarriedInv'
  <2>1. \A t \in Tokens : IsFiniteSet(carried'[t])
    BY DEF Inv, CarriedInv
  <2>2. \A d \in Calls : call'[d].begins = call[d].begins
    BY <1>1 DEF Quietly
  <2>3. \A t \in Tokens : \A p \in carried'[t] : p[2] <= call'[p[1]].begins
    BY <2>2, Types DEF Inv, CarriedInv
  <2>4. ASSUME NEW d \in Calls
        PROVE  /\ call'[d].at # "over" /\ call'[d].token # NoToken =>
                    <<d, call'[d].begins>> \in carried'[call'[d].token]
               /\ call'[d].from # NoToken =>
                    <<d, call'[d].begins>> \notin carried'[call'[d].from]
    BY <1>1, <2>2 DEF Inv, CarriedInv, Quietly
  <2> QED
    BY <2>1, <2>3, <2>4 DEF CarriedInv
<1>6. OpenerInv'
  <2>1. ASSUME NEW d \in Calls, NEW b, NEW t, ~Pending(d, b, t) PROVE ~Pending(d, b, t)'
    BY <1>1, <2>1 DEF Pending, Quietly
  <2>2. \A t \in Tokens : \A p \in carried[t] : p[1] \in Calls
    BY Types DEF Inv
  <2> QED
    BY <2>1, <2>2 DEF Inv, OpenerInv
<1>7. ReplayInv'
  BY <1>1 DEF Inv, ReplayInv, Quietly
<1>8. RefusalsAreTrue'
  <2>1. Later(tokens, opened)
    BY Types DEF Later, Inv
  <2>2. Told(call[c], tokens, opened)
    BY RefusalsAre DEF Inv
  <2>3. Told(m, tokens', opened')
    BY <2>2 DEF Told, Quietly
  <2> QED
    BY <1>1, <2>1, <2>3, RefusalsStep
<1> QED
  BY <1>2, <1>3, <1>4, <1>5, <1>6, <1>7, <1>8 DEF Inv

\* Jump.
LEMMA ClockStep ==
  ASSUME Inv, Jump
  PROVE  Inv'
<1> USE DEF options, store, Jump
<1>1. TypeOK'
  BY Types, TypesBack DEF Inv, TypeOK
<1>2. SealedInv' /\ StoreInv' /\ CarriedInv' /\ OpenerInv' /\ ReplayInv'
  BY DEF Inv, SealedInv, Sealed, StoreInv, OpenedOnce, CarriedInv, OpenerInv, Pending,
         ReplayInv
<1>3. RefusalsAreTrue'
  BY RefusalsAre DEF Inv, Told
<1> QED
  BY <1>1, <1>2, <1>3 DEF Inv

-----------------------------------------------------------------------------
(* The steps that send, open and seal.                                     *)

\* k leaves with a token: with a new number, or with a token it has not sent.
LEMMA SendStep ==
  ASSUME Inv, NEW c \in Calls, NEW k \in CallType, NEW token \in Sealed \cup {NoToken},
         Send(c, k, token), UNCHANGED <<options, clock, tokens, store>>,
         call[c].begins <= k.begins,
         k.begins = call[c].begins /\ token # NoToken =>
           <<c, k.begins>> \notin carried[token]
  PROVE  Inv'
<1> USE DEF options, store
<1> DEFINE m == [k EXCEPT !.at = "sent", !.token = token, !.now = 0, !.verdict = "none",
                          !.answer = "none", !.asked = 0, !.from = NoToken, !.done = 0]
           p == <<c, k.begins>>
<1>1. /\ token \in TokenOrNone /\ (token # NoToken => token \in Tokens)
      /\ NoToken \notin Tokens /\ k.begins \in Nat /\ call[c].begins \in Nat
  <2>1. \A t \in 1..Len(tokens) : t \in Tokens
    BY Types DEF Inv, SealedInv, Tokens
  <2>2. Sealed = 1..Len(tokens)
    BY Types DEF Inv
  <2>3. NoToken \notin Tokens
    BY OptionsAssumption DEF Tokens, NoToken
  <2>4. \A b \in Begun : b \in Nat
    BY OptionsAssumption DEF Begun
  <2>5. k.begins \in Begun /\ call[c].begins \in Begun
    BY Types DEF CallType, Inv
  <2> QED
    BY <2>1, <2>2, <2>3, <2>4, <2>5 DEF TokenOrNone
<1>2. /\ m \in CallType /\ m.at = "sent" /\ m.token = token /\ m.verdict = "none"
      /\ m.from = NoToken /\ m.begins = k.begins
  <2>1. "sent" \in Ats /\ "none" \in Verdicts /\ "none" \in Kinds /\ NoToken \in TokenOrNone
    BY DEF Ats, Verdicts, Kinds, TokenOrNone
  <2> QED
    BY <1>1, <2>1 DEF CallType
<1>3. /\ call \in [Calls -> CallType] /\ call' \in [Calls -> CallType] /\ call'[c] = m
      /\ \A d \in Calls : d # c => call'[d] = call[d]
  BY <1>2, Types, StepSets DEF Inv, Send
<1>4. /\ carried \in [Tokens -> SUBSET (Calls \X Nat)]
      /\ carried' \in [Tokens -> SUBSET (Calls \X Nat)]
      /\ \A t \in Tokens :
           carried'[t] = IF t = token THEN carried[t] \cup {p} ELSE carried[t]
  BY <1>1, Types DEF Inv, Send
<1> HIDE DEF m
<1>5. TypeOK'
  BY <1>3, <1>4, Types, TypesBack DEF Inv, TypeOK
<1>6. SealedInv'
  BY <1>1, <1>2, <1>3, <1>4 DEF Inv, SealedInv, Sealed
<1>7. StoreInv'
  BY DEF Inv, StoreInv, OpenedOnce
<1>8. CarriedInv'
  <2>1. \A t \in Tokens : IsFiniteSet(carried'[t])
    BY <1>4, FS_AddElement DEF Inv, CarriedInv
  <2>2. ASSUME NEW t \in Tokens, NEW q \in carried'[t] PROVE q[2] <= call'[q[1]].begins
    <3>1. CASE q = p
      BY <1>1, <1>2, <1>3, <3>1
    <3>2. CASE q \in carried[t]
      <4>1. q[1] \in Calls /\ q[2] \in Nat /\ q[2] <= call[q[1]].begins
        BY <1>4, <3>2 DEF Inv, CarriedInv
      <4> QED
        BY <1>1, <1>2, <1>3, <4>1
    <3> QED
      BY <1>4, <3>1, <3>2
  <2>3. ASSUME NEW d \in Calls
        PROVE  /\ call'[d].at # "over" /\ call'[d].token # NoToken =>
                    <<d, call'[d].begins>> \in carried'[call'[d].token]
               /\ call'[d].from # NoToken =>
                    <<d, call'[d].begins>> \notin carried'[call'[d].from]
    <3>1. CASE d = c
      BY <1>1, <1>2, <1>3, <1>4, <3>1
    <3>2. CASE d # c
      <4>1. call[d].token \in TokenOrNone /\ call[d].from \in TokenOrNone
        BY <1>3 DEF CallType
      <4>2. <<d, call[d].begins>> # p
        BY <3>2
      <4> QED
        BY <1>3, <1>4, <3>2, <4>1, <4>2 DEF Inv, CarriedInv, TokenOrNone
    <3> QED
      BY <3>1, <3>2
  <2> QED
    BY <2>1, <2>2, <2>3 DEF CarriedInv
<1>9. OpenerInv'
  <2> SUFFICES ASSUME NEW t \in Tokens, opened[t] > 0
               PROVE  \E q \in carried'[t] : ~Pending(q[1], q[2], t)'
    BY DEF OpenerInv
  <2>1. PICK q \in carried[t] : ~Pending(q[1], q[2], t)
    BY DEF Inv, OpenerInv
  <2>2. q \in carried'[t] /\ q[1] \in Calls /\ q[2] \in Nat /\ q = <<q[1], q[2]>>
        /\ q[2] <= call[q[1]].begins
    BY <1>4 DEF Inv, CarriedInv
  <2>3. CASE q[1] # c
    BY <1>3, <2>1, <2>2, <2>3 DEF Pending
  <2>4. CASE q[1] = c
    <3>1. ~(q[2] = k.begins /\ token = t)
      BY <1>1, <2>2, <2>4
    <3> QED
      BY <1>2, <1>3, <2>2, <2>4, <3>1 DEF Pending
  <2> QED
    BY <2>3, <2>4
<1>10. ReplayInv'
  <2> SUFFICES ASSUME NEW d \in Calls, call'[d].verdict = "Replay"
               PROVE  call'[d].token # NoToken
                      /\ \E q, r \in carried'[call'[d].token] : q # r
    BY DEF ReplayInv
  <2>1. d # c
    BY <1>2, <1>3
  <2>2. call[d].token # NoToken /\ \E q, r \in carried[call[d].token] : q # r
    BY <1>3, <2>1 DEF Inv, ReplayInv
  <2>3. call[d].token \in Tokens
    BY <1>3, <2>2 DEF CallType, TokenOrNone
  <2> QED
    BY <1>3, <1>4, <2>1, <2>2, <2>3
<1>11. RefusalsAreTrue'
  <2>1. Later(tokens', opened')
    BY Types DEF Later, Inv
  <2>2. Told(m, tokens', opened')
    BY <1>2 DEF Told
  <2> QED
    BY <1>3, <2>1, <2>2, RefusalsStep
<1> QED
  BY <1>5, <1>6, <1>7, <1>8, <1>9, <1>10, <1>11 DEF Inv

\* What Consume drops lapsed, and what it refuses is refused rightly.
LEMMA ConsumeStep ==
  ASSUME Inv, NEW c \in Calls, Consume(c)
  PROVE  Inv'
<1> USE DEF options, store
<1> DEFINE k == call[c]
           t == k.token
           live == Live(k.now)
           spent == t \in live
           full == Cardinality(live) >= capacity
           m == CASE spent -> Refuse(k, "Replay")
                  [] ~spent /\ full -> Refuse(k, "ReplayStoreFull")
                  [] OTHER -> [k EXCEPT !.at = "deciding", !.now = 0]
<1>1. /\ call \in [Calls -> CallType] /\ k \in CallType /\ k.at = "opening" /\ k.now \in Nat
      /\ tokens \in Seq(TokenType) /\ Sealed = 1..Len(tokens) /\ Sealed \subseteq Tokens
      /\ t \in Sealed /\ t \in Tokens /\ t # NoToken /\ capacity \in Nat
      /\ opened \in [Tokens -> Nat] /\ entries \subseteq Sealed
  <2>1. \A u \in 1..Len(tokens) : u \in Tokens
    BY Types DEF Inv, SealedInv, Tokens
  <2>2. call \in [Calls -> CallType] /\ k \in CallType /\ k.at = "opening"
    BY Types DEF Inv, Consume, At
  <2>3. t \in Sealed /\ t # NoToken /\ entries \subseteq Sealed
    BY <2>2 DEF Inv, SealedInv
  <2>4. Sealed = 1..Len(tokens)
    BY Types DEF Inv
  <2> QED
    BY <2>1, <2>2, <2>3, <2>4, Types DEF Inv, CallType
<1>2. \A u \in Sealed : Expiry(u) \in Nat
  <2>1. \A u \in Sealed : tokens[u] \in TokenType
    BY <1>1
  <2>2. \A u \in Sealed : tokens[u].iat \in Nat
    BY <2>1 DEF TokenType
  <2> QED
    BY <2>2, OptionsAssumption DEF Expiry
<1>3. /\ live \subseteq entries
      /\ \A u \in entries : u \notin live => Expiry(u) <= k.now
      /\ \A u \in live : Expiry(u) > k.now
  BY <1>1, <1>2 DEF Live
<1>4. /\ entries' = IF spent \/ full THEN live ELSE live \cup {t}
      /\ lapsed' = lapsed \cup {u \in Sealed : Expiry(u) <= k.now}
      /\ opened' = IF spent \/ full THEN opened ELSE [opened EXCEPT ![t] = @ + 1]
      /\ UNCHANGED <<options, clock, tokens, carried>>
  BY DEF Consume, Sealed
<1>5. k.verdict = "none"
  BY <1>1 DEF Inv, SealedInv
<1>6. /\ m \in CallType /\ m.begins = k.begins /\ m.at \in {"answered", "deciding"}
      /\ m.token = t /\ m.from = k.from /\ Step(c, m)
      /\ m.verdict = IF spent THEN "Replay" ELSE IF full THEN "ReplayStoreFull" ELSE "none"
      /\ ~spent /\ full => m.now = k.now
  <2>1. /\ {"answered", "deciding"} \subseteq Ats /\ {"Replay", "ReplayStoreFull"} \subseteq Verdicts
        /\ "final" \in Kinds
    BY DEF Ats, Verdicts, Kinds
  <2>2. Step(c, m)
    BY DEF Consume
  <2>3. CASE spent
    BY <1>1, <2>1, <2>2, <2>3 DEF Refuse, CallType
  <2>4. CASE ~spent /\ full
    BY <1>1, <2>1, <2>2, <2>4 DEF Refuse, CallType
  <2>5. CASE ~spent /\ ~full
    BY <1>1, <1>5, <2>1, <2>2, <2>5 DEF CallType
  <2> QED
    BY <2>3, <2>4, <2>5
<1> HIDE DEF m
<1>7. /\ call' \in [Calls -> CallType] /\ call'[c] = m
      /\ \A d \in Calls : d # c => call'[d] = call[d]
  BY <1>1, <1>6, StepSets
<1>8. opened' \in [Tokens -> Nat] /\ \A u \in Tokens : opened[u] <= opened'[u]
  BY <1>1, <1>4
<1> HIDE DEF spent, full, live
<1>9. /\ spent <=> t \in live
      /\ full <=> Cardinality(live) >= capacity
  BY DEF spent, full
<1>10. entries' \subseteq Sealed /\ lapsed' \subseteq Sealed
  BY <1>1, <1>3, <1>4 DEF Inv, SealedInv
<1>11. TypeOK'
  BY <1>1, <1>4, <1>7, <1>8, <1>10, Types, TypesBack DEF Inv, TypeOK
<1>12. SealedInv'
  <2>1. \A u \in Tokens \ Sealed : carried'[u] = {} /\ opened'[u] = 0
    BY <1>1, <1>4 DEF Inv, SealedInv
  <2>2. ASSUME NEW d \in Calls
        PROVE  /\ call'[d].token \in Sealed \cup {NoToken}
               /\ call'[d].from \in Sealed \cup {NoToken}
               /\ call'[d].at = "opening" => call'[d].token # NoToken
               /\ call'[d].at \in {"sent", "opening"} => call'[d].verdict = "none"
    BY <1>6, <1>7 DEF Inv, SealedInv
  <2>3. UNCHANGED tokens
    BY <1>4
  <2>4. Len(tokens') <= MaxTokens /\ Sealed' = Sealed
    BY <2>3 DEF Inv, SealedInv, Sealed
  <2> QED
    BY <1>10, <2>1, <2>2, <2>4 DEF SealedInv
<1>13. StoreInv'
  <2>1. \A u \in entries' : opened'[u] > 0
    <3>1. \A u \in entries : u \in Tokens /\ opened[u] \in Nat /\ opened[u] > 0
      BY <1>1 DEF Inv, StoreInv
    <3>2. \A u \in live : opened'[u] > 0
      BY <1>1, <1>3, <1>4, <3>1
    <3>3. ~spent /\ ~full => opened'[t] > 0
      BY <1>1, <1>4
    <3> QED
      BY <1>4, <3>2, <3>3
  <2>2. \A u \in entries : u \in live \/ u \in lapsed'
    BY <1>1, <1>3, <1>4
  <2>3. ASSUME NEW u \in Tokens, opened'[u] > 0 PROVE u \in entries' \cup lapsed'
    <3>1. CASE opened[u] > 0
      BY <1>4, <2>2, <3>1 DEF Inv, StoreInv
    <3>2. CASE opened[u] = 0
      BY <1>1, <1>4, <2>3, <3>2
    <3> QED
      BY <1>1, <3>1, <3>2
  <2>4. ASSUME NEW u \in Tokens, opened'[u] > 1 PROVE u \in lapsed'
    <3>1. CASE opened[u] > 1
      BY <1>4, <3>1 DEF Inv, StoreInv, OpenedOnce
    <3>2. CASE ~(opened[u] > 1)
      <4>1. u = t /\ ~spent /\ opened[t] > 0
        BY <1>1, <1>4, <2>4, <3>2
      <4>2. t \in entries \cup lapsed
        BY <1>1, <4>1 DEF Inv, StoreInv
      <4> QED
        BY <1>4, <1>9, <2>2, <4>1, <4>2
    <3> QED
      BY <3>1, <3>2
  <2> QED
    BY <2>1, <2>3, <2>4 DEF StoreInv, OpenedOnce
<1>14. CarriedInv'
  <2>1. \A u \in Tokens : IsFiniteSet(carried'[u])
    BY <1>4 DEF Inv, CarriedInv
  <2>2. \A d \in Calls : call'[d].begins = call[d].begins
    BY <1>6, <1>7
  <2>3. \A u \in Tokens : \A p \in carried'[u] : p[2] <= call'[p[1]].begins
    BY <1>4, <2>2, Types DEF Inv, CarriedInv
  <2>4. ASSUME NEW d \in Calls
        PROVE  /\ call'[d].at # "over" /\ call'[d].token # NoToken =>
                    <<d, call'[d].begins>> \in carried'[call'[d].token]
               /\ call'[d].from # NoToken =>
                    <<d, call'[d].begins>> \notin carried'[call'[d].from]
    BY <1>1, <1>4, <1>6, <1>7 DEF Inv, CarriedInv
  <2> QED
    BY <2>1, <2>3, <2>4 DEF CarriedInv
<1>15. <<c, k.begins>> \in carried[t]
  BY <1>1 DEF Inv, CarriedInv
<1>16. OpenerInv'
  <2> SUFFICES ASSUME NEW u \in Tokens, opened'[u] > 0
               PROVE  \E p \in carried'[u] : ~Pending(p[1], p[2], u)'
    BY DEF OpenerInv
  <2>1. \A b : ~Pending(c, b, u)'
    BY <1>6, <1>7 DEF Pending
  <2>2. CASE opened[u] > 0
    <3>1. PICK p \in carried[u] : ~Pending(p[1], p[2], u)
      BY <2>2 DEF Inv, OpenerInv
    <3>2. p[1] \in Calls /\ p \in carried'[u]
      BY <1>4, Types DEF Inv
    <3> QED
      BY <1>7, <2>1, <3>1, <3>2 DEF Pending
  <2>3. CASE opened[u] = 0
    <3>1. u = t
      BY <1>1, <1>4, <2>3
    <3> QED
      BY <1>4, <1>15, <2>1, <3>1
  <2> QED
    BY <1>1, <2>2, <2>3
<1>17. ReplayInv'
  <2> SUFFICES ASSUME NEW d \in Calls, call'[d].verdict = "Replay"
               PROVE  call'[d].token # NoToken
                      /\ \E q, r \in carried'[call'[d].token] : q # r
    BY DEF ReplayInv
  <2>1. CASE d # c
    BY <1>4, <1>7, <2>1 DEF Inv, ReplayInv
  <2>2. CASE d = c
    <3>1. spent
      BY <1>6, <1>7, <2>2
    <3>2. opened[t] > 0
      BY <1>3, <1>9, <3>1 DEF Inv, StoreInv
    <3>3. PICK p \in carried[t] : ~Pending(p[1], p[2], t)
      BY <1>1, <3>2 DEF Inv, OpenerInv
    <3>4. Pending(c, k.begins, t)
      BY <1>1 DEF Pending
    <3>5. p # <<c, k.begins>>
      BY <3>3, <3>4
    <3> QED
      BY <1>1, <1>4, <1>6, <1>7, <1>15, <2>2, <3>5
  <2> QED
    BY <2>1, <2>2
<1>18. RefusalsAreTrue'
  <2>1. Later(tokens', opened')
    BY <1>1, <1>4, <1>8 DEF Later
  <2>2. Told(m, tokens', opened')
    <3>1. ASSUME m.verdict = "Replay" PROVE opened'[m.token] > 0
      <4>1. spent
        BY <1>6, <3>1
      <4>2. opened[t] > 0
        BY <1>3, <1>9, <4>1 DEF Inv, StoreInv
      <4> QED
        BY <1>4, <1>6, <4>1, <4>2
    <3>2. ASSUME m.verdict = "ReplayStoreFull"
          PROVE  Cardinality(Spent(tokens', opened', m.now)) >= capacity
      <4>1. full /\ ~spent /\ m.now = k.now
        BY <1>6, <3>2
      <4>2. \A u \in live : u \in Sealed /\ opened'[u] > 0 /\ tokens[u].iat + TimeToLive > k.now
        BY <1>1, <1>3, <1>4, <4>1 DEF Inv, StoreInv, Expiry
      <4>3. tokens' = tokens
        BY <1>4
      <4>4. live \subseteq Spent(tokens', opened', m.now)
        BY <4>1, <4>2, <4>3 DEF Spent, Sealed
      <4>5. /\ Cardinality(live) \in Nat
            /\ Cardinality(Spent(tokens', opened', m.now)) \in Nat
            /\ Cardinality(live) <= Cardinality(Spent(tokens', opened', m.now))
        BY <1>1, <4>3, <4>4, SpentIsFinite
      <4> QED
        BY <1>1, <1>9, <4>1, <4>5
    <3> QED
      BY <3>1, <3>2 DEF Told
  <2> QED
    BY <1>4, <1>7, <2>1, <2>2, RefusalsStep
<1> QED
  BY <1>11, <1>12, <1>13, <1>14, <1>16, <1>17, <1>18 DEF Inv

\* A question that comes with state sealed for it.
LEMMA SealStep ==
  ASSUME Inv, NEW c \in Calls, NEW n \in Nat, Decides(c), Len(tokens) < MaxTokens,
         tokens' = Append(tokens, [iat |-> clock, principal |-> call[c].principal]),
         Step(c, [call[c] EXCEPT !.at = "answered", !.answer = "ask", !.asked = n,
                                 !.from = Len(tokens) + 1]),
         UNCHANGED <<options, clock, store, carried>>
  PROVE  Inv'
<1> USE DEF options, store
<1> DEFINE k == call[c]
           f == Len(tokens) + 1
           r == [iat |-> clock, principal |-> k.principal]
           m == [k EXCEPT !.at = "answered", !.answer = "ask", !.asked = n, !.from = f]
<1>1. /\ call \in [Calls -> CallType] /\ k \in CallType /\ tokens \in Seq(TokenType)
      /\ Sealed = 1..Len(tokens) /\ Len(tokens) \in Nat /\ MaxTokens \in Nat
      /\ k.at \in {"deciding", "sent"}
  BY Types DEF Inv, Decides, At
<1>2. f \in Tokens /\ f \notin Sealed /\ f # NoToken /\ Sealed \subseteq Tokens
  BY <1>1 DEF Tokens, NoToken
<1>3. r \in TokenType
  BY <1>1, Types DEF Inv, TokenType, CallType
<1>4. /\ tokens' \in Seq(TokenType) /\ Len(tokens') = f
      /\ \A u \in 1..Len(tokens) : tokens'[u] = tokens[u]
  <2> HIDE DEF r
  <2>1. tokens' = Append(tokens, r)
    BY DEF r
  <2> QED
    BY <1>1, <1>3, <2>1
<1>5. Sealed' = 1..f /\ Sealed \subseteq Sealed'
  <2>1. Sealed' = 1..f
    BY <1>4 DEF Sealed
  <2> QED
    BY <1>1, <2>1
<1>6. /\ m \in CallType /\ m.begins = k.begins /\ m.at = "answered" /\ m.token = k.token
      /\ m.from = f /\ m.verdict = k.verdict /\ m.now = k.now
  <2>1. "answered" \in Ats /\ "ask" \in Kinds /\ f \in TokenOrNone
    BY <1>2 DEF Ats, Kinds, TokenOrNone
  <2> HIDE DEF f
  <2> QED
    BY <1>1, <2>1 DEF CallType
<1>7. Step(c, m)
  OBVIOUS
<1> HIDE DEF m, f, r
<1>8. /\ call' \in [Calls -> CallType] /\ call'[c] = m
      /\ \A d \in Calls : d # c => call'[d] = call[d]
  BY <1>1, <1>6, <1>7, StepSets
<1>9. TypeOK'
  BY <1>4, <1>8, Types, TypesBack DEF Inv, TypeOK
<1>10. SealedInv'
  <2>1. ASSUME NEW d \in Calls
        PROVE  /\ call'[d].token \in Sealed' \cup {NoToken}
               /\ call'[d].from \in Sealed' \cup {NoToken}
               /\ call'[d].at = "opening" => call'[d].token # NoToken
               /\ call'[d].at \in {"sent", "opening"} => call'[d].verdict = "none"
    <3>1. f \in Sealed'
      BY <1>1, <1>5 DEF f
    <3> QED
      BY <1>5, <1>6, <1>8, <3>1 DEF Inv, SealedInv
  <2>2. Len(tokens') <= MaxTokens
    BY <1>1, <1>4 DEF f
  <2>3. /\ entries' \subseteq Sealed' /\ lapsed' \subseteq Sealed'
        /\ \A u \in Tokens \ Sealed' : carried'[u] = {} /\ opened'[u] = 0
    BY <1>5 DEF Inv, SealedInv
  <2> QED
    BY <2>1, <2>2, <2>3 DEF SealedInv
<1>11. StoreInv'
  BY DEF Inv, StoreInv, OpenedOnce
<1>12. CarriedInv'
  <2>1. \A u \in Tokens : IsFiniteSet(carried'[u])
    BY DEF Inv, CarriedInv
  <2>2. \A d \in Calls : call'[d].begins = call[d].begins
    BY <1>6, <1>8
  <2>3. \A u \in Tokens : \A p \in carried'[u] : p[2] <= call'[p[1]].begins
    BY <2>2, Types DEF Inv, CarriedInv
  <2>4. carried[f] = {}
    BY <1>2 DEF Inv, SealedInv
  <2>5. ASSUME NEW d \in Calls
        PROVE  /\ call'[d].at # "over" /\ call'[d].token # NoToken =>
                    <<d, call'[d].begins>> \in carried'[call'[d].token]
               /\ call'[d].from # NoToken =>
                    <<d, call'[d].begins>> \notin carried'[call'[d].from]
    BY <1>1, <1>6, <1>8, <2>4, SMTT(60) DEF Inv, CarriedInv
  <2> QED
    BY <2>1, <2>3, <2>5 DEF CarriedInv
<1>13. OpenerInv'
  <2>1. \A b, u : ~Pending(c, b, u)'
    BY <1>6, <1>8 DEF Pending
  <2>2. ASSUME NEW d \in Calls, NEW b, NEW u, ~Pending(d, b, u) PROVE ~Pending(d, b, u)'
    BY <1>8, <2>1, <2>2 DEF Pending
  <2>3. \A u \in Tokens : \A p \in carried[u] : p[1] \in Calls
    BY Types DEF Inv
  <2> QED
    BY <2>2, <2>3 DEF Inv, OpenerInv
<1>14. ReplayInv'
  BY <1>6, <1>8, SMTT(60) DEF Inv, ReplayInv
<1>15. RefusalsAreTrue'
  <2>1. Later(tokens', opened')
    BY <1>1, <1>4, <1>5, Types DEF Later, Inv, Sealed
  <2>2. Told(k, tokens', opened')
    BY <2>1, ToldStays
  <2>3. Told(m, tokens', opened')
    BY <1>6, <2>2 DEF Told
  <2> QED
    BY <1>8, <2>1, <2>3, RefusalsStep
<1> QED
  BY <1>9, <1>10, <1>11, <1>12, <1>13, <1>14, <1>15 DEF Inv

-----------------------------------------------------------------------------
(* Every step.                                                             *)

\* A call that is over has let go of its tokens.
LEMMA LeaveIsQuiet ==
  ASSUME NEW k \in CallType
  PROVE  Quietly(k, Leave(k))
<1> DEFINE m == Leave(k)
<1>1. /\ "over" \in Ats /\ NoToken \in TokenOrNone /\ "none" \in Verdicts /\ "none" \in Kinds
      /\ k.begins \in Begun
  BY DEF Ats, TokenOrNone, Verdicts, Kinds, CallType
<1>2. /\ m \in CallType /\ m.begins = k.begins /\ m.at = "over" /\ m.token = NoToken
      /\ m.from = NoToken /\ m.verdict = "none"
  BY <1>1 DEF Leave, Free, CallType
<1> HIDE DEF m
<1>3. Quietly(k, m)
  BY <1>2 DEF Quietly
<1> QED
  BY <1>3 DEF m

LEMMA RefuseIsQuiet ==
  ASSUME NEW k \in CallType, k.at = "sent",
         NEW verdict \in {"AuthenticationFailed", "FutureIssued", "Expired"}
  PROVE  Quietly(k, Refuse(k, verdict))
<1> DEFINE m == Refuse(k, verdict)
<1>1. "answered" \in Ats /\ verdict \in Verdicts /\ "final" \in Kinds
  BY DEF Ats, Verdicts, Kinds
<1>2. /\ m \in CallType /\ m.begins = k.begins /\ m.at = "answered" /\ m.token = k.token
      /\ m.from = k.from /\ m.verdict = verdict
  BY <1>1 DEF Refuse, CallType
<1> HIDE DEF m
<1>3. Quietly(k, m)
  BY <1>2 DEF Quietly
<1> QED
  BY <1>3 DEF m

LEMMA AuthenticateStep ==
  ASSUME Inv, NEW c \in Calls, Authenticate(c)
  PROVE  Inv'
<1> DEFINE k == call[c]
           m == [k EXCEPT !.at = "opening", !.now = clock]
<1>1. k \in CallType /\ k.at = "sent" /\ k.token # NoToken /\ clock \in Nat
      /\ k.verdict = "none"
  BY Types DEF Inv, Authenticate, At, SealedInv
<1>2. UNCHANGED <<options, clock, tokens, store, carried>>
  BY DEF Authenticate
<1>3. Quietly(k, m)
  <2>1. /\ m \in CallType /\ m.begins = k.begins /\ m.at = "opening" /\ m.token = k.token
        /\ m.from = k.from /\ m.verdict = k.verdict
    <3>1. "opening" \in Ats
      BY DEF Ats
    <3> QED
      BY <1>1, <3>1 DEF CallType
  <2> HIDE DEF m, k
  <2> QED
    BY <1>1, <2>1 DEF Quietly
<1>4. \/ Step(c, m)
      \/ \E verdict \in {"AuthenticationFailed", "FutureIssued", "Expired"} :
           Step(c, Refuse(k, verdict))
  BY DEF Authenticate
<1> HIDE DEF m
<1> QED
  BY <1>1, <1>2, <1>3, <1>4, QuietStep, RefuseIsQuiet

LEMMA QuietActions ==
  ASSUME Inv, NEW c \in Calls,
         Finish(c) \/ Lose(c) \/ Settle(c) \/ Resolve(c) \/ StartHandler(c)
           \/ FinishHandler(c) \/ FailHandler(c)
  PROVE  Inv'
<1> DEFINE k == call[c]
<1>1. k \in CallType /\ k.running \in Nat /\ k.done \in Nat
  BY Types DEF Inv, CallType
<1>2. UNCHANGED <<options, clock, tokens, store, carried>>
  BY DEF Finish, Lose, Settle, Resolve, StartHandler, FinishHandler, FailHandler
<1>3. CASE Finish(c)
  <2> DEFINE m == [k EXCEPT !.at = "answered", !.answer = "final"]
  <2>1. "answered" \in Ats /\ "final" \in Kinds
    BY DEF Ats, Kinds
  <2>2. /\ m \in CallType /\ m.begins = k.begins /\ m.at = "answered" /\ m.token = k.token
        /\ m.from = k.from /\ m.verdict = k.verdict /\ m.now = k.now
    BY <1>1, <2>1 DEF CallType
  <2>3. Step(c, m) /\ k.at # "over"
    BY <1>3 DEF Finish, Decides, At
  <2> HIDE DEF m, k
  <2>4. Quietly(k, m)
    BY <2>2, <2>3 DEF Quietly
  <2> QED
    BY <1>2, <2>3, <2>4, QuietStep DEF k
<1>4. CASE Resolve(c)
  <2> DEFINE m == [k EXCEPT !.at = "asking"]
  <2>1. "asking" \in Ats
    BY DEF Ats
  <2>2. /\ m \in CallType /\ m.begins = k.begins /\ m.at = "asking" /\ m.token = k.token
        /\ m.from = k.from /\ m.verdict = k.verdict /\ m.now = k.now
    BY <1>1, <2>1 DEF CallType
  <2>3. Step(c, m) /\ k.at # "over"
    BY <1>4 DEF Resolve, At
  <2> HIDE DEF m, k
  <2>4. Quietly(k, m)
    BY <2>2, <2>3 DEF Quietly
  <2> QED
    BY <1>2, <2>3, <2>4, QuietStep DEF k
<1>5. ASSUME NEW running \in Nat, NEW done \in Nat, k.at = "asking",
             Step(c, [k EXCEPT !.running = running, !.done = done])
      PROVE  Inv'
  <2> DEFINE m == [k EXCEPT !.running = running, !.done = done]
  <2>1. /\ m \in CallType /\ m.begins = k.begins /\ m.at = "asking" /\ m.token = k.token
        /\ m.from = k.from /\ m.verdict = k.verdict /\ m.now = k.now
    BY <1>1, <1>5 DEF CallType
  <2>2. Step(c, m) /\ k.at # "over"
    BY <1>5
  <2> HIDE DEF m, k
  <2>3. Quietly(k, m)
    BY <2>1, <2>2 DEF Quietly
  <2> QED
    BY <1>2, <2>2, <2>3, QuietStep DEF k
<1>6. CASE StartHandler(c)
  <2>1. Step(c, [k EXCEPT !.running = @ + 1]) /\ k.at = "asking"
    BY <1>6 DEF StartHandler, At
  <2>2. [k EXCEPT !.running = @ + 1] = [k EXCEPT !.running = k.running + 1, !.done = k.done]
    BY <1>1 DEF CallType
  <2>3. Step(c, [k EXCEPT !.running = k.running + 1, !.done = k.done])
    BY <2>1, <2>2, Zenon DEF Step
  <2>4. k.running + 1 \in Nat
    BY <1>1
  <2> QED
    BY <1>1, <1>5, <2>1, <2>3, <2>4
<1>7. CASE FinishHandler(c)
  <2>1. /\ Step(c, [k EXCEPT !.running = k.running - 1, !.done = k.done + 1])
        /\ k.at = "asking" /\ k.running > 0
    BY <1>7 DEF FinishHandler, At
  <2>2. k.running - 1 \in Nat /\ k.done + 1 \in Nat
    BY <1>1, <2>1
  <2> QED
    BY <1>5, <2>1, <2>2
<1>8. CASE Lose(c) \/ Settle(c) \/ FailHandler(c)
  <2>1. Step(c, Leave(k))
    BY <1>8 DEF Lose, Settle, FailHandler
  <2> QED
    BY <1>1, <1>2, <2>1, LeaveIsQuiet, QuietStep
<1> QED
  BY <1>3, <1>4, <1>6, <1>7, <1>8

LEMMA AskStep ==
  ASSUME Inv, NEW c \in Calls, Ask(c)
  PROVE  Inv'
<1> DEFINE k == call[c]
           M(n, f) == [k EXCEPT !.at = "answered", !.answer = "ask", !.asked = n, !.from = f]
<1>1. PICK n \in 0 .. MaxAsked, sealed \in BOOLEAN :
        /\ sealed => Len(tokens) < MaxTokens
        /\ tokens' = IF sealed THEN Append(tokens, [iat |-> clock, principal |-> k.principal])
                     ELSE tokens
        /\ Step(c, M(n, IF sealed THEN Len(tokens) + 1 ELSE NoToken))
  BY DEF Ask
<1>2. Decides(c) /\ UNCHANGED <<options, clock, store, carried>> /\ n \in Nat
  BY OptionsAssumption DEF Ask
<1>3. CASE sealed
  BY <1>1, <1>2, <1>3, SealStep
<1>4. CASE ~sealed
  <2> DEFINE m == M(n, NoToken)
  <2>1. Step(c, m) /\ UNCHANGED tokens
    BY <1>1, <1>4
  <2>2. k \in CallType /\ k.at # "over"
    BY <1>2, Types DEF Inv, Decides, At
  <2>3. "answered" \in Ats /\ "ask" \in Kinds /\ NoToken \in TokenOrNone
    BY DEF Ats, Kinds, TokenOrNone
  <2>4. /\ m \in CallType /\ m.begins = k.begins /\ m.at = "answered" /\ m.token = k.token
        /\ m.from = NoToken /\ m.verdict = k.verdict /\ m.now = k.now
    BY <1>2, <2>2, <2>3 DEF CallType
  <2> HIDE DEF m, k
  <2>5. Quietly(k, m)
    BY <2>2, <2>4 DEF Quietly
  <2> QED
    BY <1>2, <2>1, <2>5, QuietStep DEF k
<1> QED
  BY <1>3, <1>4

LEMMA SendActions ==
  ASSUME Inv, NEW c \in Calls, Begin(c) \/ Continue(c)
  PROVE  Inv'
<1> DEFINE k == call[c]
<1>1. k \in CallType /\ MaxBegins \in Nat
  BY Types, OptionsAssumption DEF Inv
<1>2. k.begins \in Nat
  BY <1>1 DEF CallType, Begun
<1>3. UNCHANGED <<options, clock, tokens, store>>
  BY DEF Begin, Continue
<1>4. CASE Begin(c)
  <2> DEFINE b == k.begins + 1
             n == [k EXCEPT !.begins = b]
  <2>1. b \in Begun /\ k.begins <= b /\ b # k.begins
    BY <1>1, <1>2, <1>4 DEF Begin, Begun
  <2>2. PICK t \in {NoToken} \cup DOMAIN tokens : Send(c, n, t)
    BY <1>4 DEF Begin
  <2> HIDE DEF b
  <2>3. n \in CallType /\ n.begins = b
    BY <1>1, <2>1 DEF CallType
  <2> HIDE DEF n
  <2> QED
    BY <1>3, <2>1, <2>2, <2>3, SendStep DEF Sealed
<1>5. CASE Continue(c)
  <2> DEFINE n == [k EXCEPT !.round = NextRound(k)]
  <2>1. n \in CallType /\ n.begins = k.begins
    <3>1. NextRound(k) \in Nat
      BY <1>1 DEF NextRound, CallType
    <3> QED
      BY <1>1, <3>1 DEF CallType
  <2>2. k.from \in Sealed \cup {NoToken}
        /\ (k.from # NoToken => <<c, k.begins>> \notin carried[k.from])
    BY DEF Inv, SealedInv, CarriedInv
  <2>3. Send(c, n, k.from)
    BY <1>5 DEF Continue, Continuation
  <2> HIDE DEF n
  <2> QED
    BY <1>2, <1>3, <2>1, <2>2, <2>3, SendStep
<1> QED
  BY <1>4, <1>5

LEMMA InvStep == Inv /\ [Next]_vars => Inv'
<1> SUFFICES ASSUME Inv, [Next]_vars PROVE Inv'
  OBVIOUS
<1>1. CASE Next
  BY <1>1, ClockStep, SendActions, AuthenticateStep, ConsumeStep, AskStep, QuietActions
    DEF Next, Advance
<1>2. CASE UNCHANGED vars
  <2> USE <1>2 DEF vars
  <2>1. TypeOK'
    BY Types, TypesBack DEF Inv, TypeOK
  <2>2. SealedInv' /\ StoreInv' /\ CarriedInv' /\ OpenerInv' /\ ReplayInv'
    BY DEF Inv, SealedInv, Sealed, StoreInv, OpenedOnce, CarriedInv, OpenerInv, Pending,
           ReplayInv
  <2>3. RefusalsAreTrue'
    BY RefusalsAre DEF Inv, Told
  <2> QED
    BY <2>1, <2>2, <2>3 DEF Inv
<1> QED
  BY <1>1, <1>2

LEMMA InvInit == Init => Inv
<1> SUFFICES ASSUME Init PROVE Inv
  OBVIOUS
<1>1. /\ tokens = <<>> /\ Len(tokens) = 0 /\ Sealed = {} /\ entries = {} /\ lapsed = {}
      /\ opened = [t \in Tokens |-> 0] /\ carried = [t \in Tokens |-> {}]
  BY DEF Init, Sealed
<1>2. ASSUME NEW p \in Principals
      PROVE  /\ Free(p, 0) \in CallType /\ Free(p, 0).at = "over"
             /\ Free(p, 0).token = NoToken /\ Free(p, 0).from = NoToken
             /\ Free(p, 0).verdict = "none"
  <2>1. /\ "over" \in Ats /\ NoToken \in TokenOrNone /\ "none" \in Verdicts /\ "none" \in Kinds
        /\ 0 \in Begun
    BY OptionsAssumption DEF Ats, TokenOrNone, Verdicts, Kinds, Begun
  <2> QED
    BY <2>1 DEF Free, CallType
<1>3. \A c \in Calls : call[c] \in {Free(p, 0) : p \in Principals}
  BY DEF Init
<1>4. /\ call \in [Calls -> CallType]
      /\ \A c \in Calls : /\ call[c].at = "over" /\ call[c].token = NoToken
                          /\ call[c].from = NoToken /\ call[c].verdict = "none"
  BY <1>2, <1>3 DEF Init
<1>5. TypeOK
  <2>1. tokens \in Seq(TokenType)
    BY <1>1
  <2>2. opened \in [Tokens -> Nat] /\ carried \in [Tokens -> SUBSET (Calls \X Nat)]
    BY <1>1
  <2>3. mode \in {"automatic", "manual"} /\ capacity \in Capacities /\ clock \in 0 .. MaxTime
    BY OptionsAssumption DEF Init
  <2>4. entries \subseteq Tokens /\ lapsed \subseteq Tokens
    BY <1>1
  <2> QED
    BY <1>4, <2>1, <2>2, <2>3, <2>4, Zenon
      DEF TypeOK, TokenType, CallType, Ats, Kinds, Begun, TokenOrNone
<1>6. SealedInv
  BY <1>1, <1>4, OptionsAssumption DEF SealedInv
<1>7. StoreInv /\ OpenerInv
  BY <1>1 DEF StoreInv, OpenedOnce, OpenerInv
<1>8. CarriedInv
  BY <1>1, <1>4, FS_EmptySet DEF CarriedInv
<1>9. ReplayInv /\ RefusalsAreTrue
  BY <1>4 DEF ReplayInv, RefusalsAreTrue
<1> QED
  BY <1>5, <1>6, <1>7, <1>8, <1>9 DEF Inv

-----------------------------------------------------------------------------
(* The theorems.                                                           *)

\* The inductive invariant: the types, what the replay store and the calls know of each
\* token, and that a token was opened for a call that has it behind itself.
THEOREM Invariance == Spec => []Inv
<1> QED
  BY InvInit, InvStep, PTL DEF Spec

\* Every token that the store, a call or an answer names was sealed before, within the
\* bounds of the model (src/src/RequestState.ts).
THEOREM TypeCorrect == Spec => []TypeOK
<1>1. Inv => TypeOK
  BY DEF Inv
<1> QED
  BY <1>1, Invariance, PTL

\* For any number of requests that carry it and any clock, SecureRequestState.open opens a
\* token once, unless the store was asked at a time past the expiry of the token.
THEOREM TokenOpensOnce == Spec => []OpenedOnce
<1>1. Inv => OpenedOnce
  BY DEF Inv, StoreInv
<1> QED
  BY <1>1, Invariance, PTL

\* A replay that the store reports was opened before, and a store that reports itself full
\* holds as many opened tokens that had not expired as it has places.
THEOREM RefusalsHold == Spec => []RefusalsAreTrue
<1>1. Inv => RefusalsAreTrue
  BY DEF Inv
<1> QED
  BY <1>1, Invariance, PTL

\* The rounds of sendWithMrtr never replay the state of their own call: a replay means that
\* another call sent the token too.
THEOREM ReplaysAreAnothers == Spec => []ReplayIsAnothers
<1>1. ASSUME Inv PROVE ReplayIsAnothers
  <2> SUFFICES ASSUME NEW c \in Calls, call[c].verdict = "Replay"
               PROVE  Cardinality(carried[call[c].token]) > 1
    BY DEF ReplayIsAnothers
  <2> DEFINE S == carried[call[c].token]
  <2>1. PICK p, q \in S : p # q
    BY <1>1 DEF Inv, ReplayInv
  <2>2. call[c].token \in Tokens
    BY <1>1, Types DEF Inv, ReplayInv, CallType, TokenOrNone
  <2>3. IsFiniteSet(S)
    BY <1>1, <2>2 DEF Inv, CarriedInv
  <2> HIDE DEF S
  <2>4. Cardinality({p, q}) = 2
    <3>1. IsFiniteSet({p}) /\ Cardinality({p}) = 1
      BY FS_Singleton
    <3>2. Cardinality({p} \cup {q}) = IF q \in {p} THEN Cardinality({p}) ELSE Cardinality({p}) + 1
      BY <3>1, FS_AddElement, Zenon
    <3>3. q \notin {p} /\ {p} \cup {q} = {p, q}
      BY <2>1
    <3>4. Cardinality({p, q}) = 1 + 1
      BY <3>1, <3>2, <3>3, Zenon
    <3> QED
      BY <3>4
  <2>5. Cardinality({p, q}) <= Cardinality(S) /\ Cardinality(S) \in Nat
    BY <2>1, <2>3, FS_Subset, FS_CardinalityType
  <2> QED
    BY <2>4, <2>5 DEF S
<1>2. Inv => ReplayIsAnothers
  BY <1>1
<1> QED
  BY <1>2, Invariance, PTL

-----------------------------------------------------------------------------
(* A call comes to its end.                                                *)

\* The rounds and handlers of a call keep to the policy: only what asks runs handlers,
\* as many as it was asked for, and only with a round left.
LoopOk(k) ==
  /\ k.round <= MaxRounds /\ k.asked <= MaxAsked
  /\ k.at # "asking" => k.running = 0 /\ k.done = 0
  /\ k.at = "asking" => /\ k.round < MaxRounds
                        /\ k.running <= MaxConcurrency /\ k.running + k.done <= k.asked

LoopInv == \A c \in Calls : LoopOk(call[c])

\* What a round has left to do; each handler is started and finished.
Place(at) ==
  CASE at = "answered" -> 2
    [] at = "deciding" -> 3
    [] at = "opening" -> 4
    [] at = "sent" -> 5
Left(k) ==
  IF k.at = "over" THEN 0
  ELSE IF k.at = "asking" THEN 1 + (k.asked - k.done) + (k.asked - k.done - k.running)
  ELSE MaxAsked + MaxAsked + Place(k.at)

SameLoop(k, m) == m.round = k.round /\ m.running = k.running /\ m.done = k.done

\* What a step of a call does to its rounds and handlers.
Continues(k, m) ==
  /\ k.at = "asking" /\ k.done = k.asked
  /\ m.at = "sent" /\ m.round = k.round + 1 /\ m.asked = 0 /\ m.running = k.running
  /\ m.done = 0
Proceeds(k, m) ==
  /\ \/ k.at = "sent" /\ m.at \in {"opening", "answered"}
     \/ k.at = "opening" /\ m.at \in {"deciding", "answered"}
     \/ k.at = "deciding" /\ m.at = "answered"
  /\ SameLoop(k, m) /\ (m.asked = k.asked \/ m.asked \in 0 .. MaxAsked)
Resolves(k, m) ==
  /\ k.at = "answered" /\ m.at = "asking" /\ k.round < MaxRounds
  /\ SameLoop(k, m) /\ m.asked = k.asked
Starts(k, m) ==
  /\ k.at = "asking" /\ m.at = "asking" /\ m.round = k.round /\ m.asked = k.asked
  /\ k.running < MaxConcurrency /\ k.running + k.done < k.asked
  /\ m.running = k.running + 1 /\ m.done = k.done
Finishes(k, m) ==
  /\ k.at = "asking" /\ m.at = "asking" /\ m.round = k.round /\ m.asked = k.asked
  /\ k.running > 0 /\ m.running = k.running - 1 /\ m.done = k.done + 1
Ends(k, m) ==
  m.at = "over" /\ m.round = 0 /\ m.asked = 0 /\ m.running = 0 /\ m.done = 0
Begins(k, m) ==
  /\ k.at = "over" /\ m.at = "sent"
  /\ m.round = k.round /\ m.running = k.running /\ m.done = 0 /\ m.asked = 0

Advances(k, m) ==
  \/ Continues(k, m) \/ Proceeds(k, m) \/ Resolves(k, m) \/ Starts(k, m)
  \/ Finishes(k, m) \/ (k.at # "over" /\ Ends(k, m))

\* Every step of a call is one of these, and leaves the others alone.
LEMMA SendsCall ==
  ASSUME call \in [Calls -> CallType], NEW c \in Calls, NEW k \in CallType,
         NEW t \in TokenOrNone, Send(c, k, t)
  PROVE  /\ call'[c].at = "sent" /\ call'[c].asked = 0 /\ call'[c].done = 0
         /\ call'[c].round = k.round /\ call'[c].running = k.running
         /\ call'[c] \in CallType /\ \A d \in Calls : d # c => call'[d] = call[d]
<1> DEFINE m == [k EXCEPT !.at = "sent", !.token = t, !.now = 0, !.verdict = "none",
                          !.answer = "none", !.asked = 0, !.from = NoToken, !.done = 0]
<1>1. "sent" \in Ats /\ "none" \in Verdicts /\ "none" \in Kinds /\ NoToken \in TokenOrNone
  BY DEF Ats, Verdicts, Kinds, TokenOrNone
<1>2. /\ m \in CallType /\ m.at = "sent" /\ m.asked = 0 /\ m.done = 0
      /\ m.round = k.round /\ m.running = k.running
  BY <1>1 DEF CallType
<1>3. Step(c, m)
  BY DEF Send
<1> HIDE DEF m
<1> QED
  BY <1>2, <1>3, StepSets

LEMMA FewerFields ==
  ASSUME NEW k \in CallType
  PROVE  /\ k.round \in Nat /\ k.asked \in Nat /\ k.running \in Nat /\ k.done \in Nat
         /\ k.begins \in Nat /\ k.at \in Ats
BY OptionsAssumption DEF CallType, Begun

LEMMA LeaveEnds ==
  ASSUME NEW k \in CallType
  PROVE  Leave(k) \in CallType /\ Ends(k, Leave(k))
<1>1. Leave(k) \in CallType
  BY LeaveIsQuiet DEF Quietly
<1> QED
  BY <1>1 DEF Leave, Free, Ends

LEMMA RefuseIs ==
  ASSUME NEW k \in CallType, NEW v \in Verdicts
  PROVE  /\ Refuse(k, v) \in CallType /\ Refuse(k, v).at = "answered"
         /\ Refuse(k, v).asked = k.asked /\ SameLoop(k, Refuse(k, v))
<1> DEFINE m == Refuse(k, v)
<1>1. "answered" \in Ats /\ "final" \in Kinds
  BY DEF Ats, Kinds
<1>2. /\ m \in CallType /\ m.at = "answered" /\ m.asked = k.asked
      /\ m.round = k.round /\ m.running = k.running /\ m.done = k.done
  BY <1>1 DEF Refuse, CallType
<1> HIDE DEF m
<1>3. SameLoop(k, m)
  BY <1>2 DEF SameLoop
<1> QED
  BY <1>2, <1>3 DEF m

\* The server opens the token, refuses it, or answers.
LEMMA ServerIs ==
  ASSUME Inv, NEW c \in Calls, Authenticate(c) \/ Consume(c) \/ Finish(c) \/ Ask(c)
  PROVE  /\ Proceeds(call[c], call'[c])
         /\ \A d \in Calls : d # c => call'[d] = call[d]
<1> DEFINE k == call[c]
           Others == \A d \in Calls : d # c => call'[d] = call[d]
<1>1. /\ call \in [Calls -> CallType] /\ k \in CallType /\ MaxAsked \in Nat
      /\ "opening" \in Ats /\ "deciding" \in Ats /\ "answered" \in Ats
      /\ "final" \in Kinds /\ "ask" \in Kinds /\ clock \in Nat
  BY Types, OptionsAssumption DEF Inv, Ats, Kinds
<1>2. ASSUME NEW m \in CallType, Step(c, m), SameLoop(k, m),
             \/ k.at = "sent" /\ m.at \in {"opening", "answered"}
             \/ k.at = "opening" /\ m.at \in {"deciding", "answered"}
             \/ k.at = "deciding" /\ m.at = "answered",
             m.asked = k.asked \/ m.asked \in 0 .. MaxAsked
      PROVE  Proceeds(k, call'[c]) /\ Others
  <2>1. call'[c] = m /\ Others
    BY <1>1, <1>2, StepSets
  <2>2. Proceeds(k, m)
    BY <1>2 DEF Proceeds
  <2> QED
    BY <2>1, <2>2
<1>3. CASE Authenticate(c)
  <2> DEFINE m == [k EXCEPT !.at = "opening", !.now = clock]
  <2>1. k.at = "sent"
    BY <1>3 DEF Authenticate, At
  <2>2. \/ Step(c, m)
        \/ \E v \in {"AuthenticationFailed", "FutureIssued", "Expired"} :
             Step(c, Refuse(k, v))
    BY <1>3 DEF Authenticate
  <2>3. /\ m \in CallType /\ m.at = "opening" /\ m.asked = k.asked
        /\ m.round = k.round /\ m.running = k.running /\ m.done = k.done
    BY <1>1 DEF CallType
  <2> HIDE DEF m
  <2>4. SameLoop(k, m)
    BY <2>3 DEF SameLoop
  <2>5. CASE Step(c, m)
    BY <1>2, <2>1, <2>3, <2>4, <2>5
  <2>6. ASSUME NEW v \in {"AuthenticationFailed", "FutureIssued", "Expired"},
               Step(c, Refuse(k, v))
        PROVE  Proceeds(k, call'[c]) /\ Others
    <3>1. v \in Verdicts
      BY DEF Verdicts
    <3> QED
      BY <1>1, <1>2, <2>1, <2>6, <3>1, RefuseIs
  <2> QED
    BY <2>2, <2>5, <2>6
<1>4. CASE Consume(c)
  <2> DEFINE m == [k EXCEPT !.at = "deciding", !.now = 0]
  <2>1. k.at = "opening"
    BY <1>4 DEF Consume, At
  <2>2. Step(c, m) \/ \E v \in {"Replay", "ReplayStoreFull"} : Step(c, Refuse(k, v))
    BY <1>4 DEF Consume
  <2>3. /\ m \in CallType /\ m.at = "deciding" /\ m.asked = k.asked
        /\ m.round = k.round /\ m.running = k.running /\ m.done = k.done
    BY <1>1 DEF CallType
  <2> HIDE DEF m
  <2>4. SameLoop(k, m)
    BY <2>3 DEF SameLoop
  <2>5. CASE Step(c, m)
    BY <1>2, <2>1, <2>3, <2>4, <2>5
  <2>6. ASSUME NEW v \in {"Replay", "ReplayStoreFull"}, Step(c, Refuse(k, v))
        PROVE  Proceeds(k, call'[c]) /\ Others
    <3>1. v \in Verdicts
      BY DEF Verdicts
    <3> QED
      BY <1>1, <1>2, <2>1, <2>6, <3>1, RefuseIs
  <2> QED
    BY <2>2, <2>5, <2>6
<1>5. CASE Finish(c)
  <2> DEFINE m == [k EXCEPT !.at = "answered", !.answer = "final"]
  <2>1. k.at \in {"sent", "deciding"} /\ Step(c, m)
    BY <1>5 DEF Finish, Decides, At
  <2>2. /\ m \in CallType /\ m.at = "answered" /\ m.asked = k.asked
        /\ m.round = k.round /\ m.running = k.running /\ m.done = k.done
    BY <1>1 DEF CallType
  <2> HIDE DEF m
  <2>3. SameLoop(k, m)
    BY <2>2 DEF SameLoop
  <2> QED
    BY <1>2, <2>1, <2>2, <2>3
<1>6. CASE Ask(c)
  <2> DEFINE M(n, f) == [k EXCEPT !.at = "answered", !.answer = "ask", !.asked = n, !.from = f]
  <2>1. PICK n \in 0 .. MaxAsked, sealed \in BOOLEAN :
          /\ sealed => Len(tokens) < MaxTokens
          /\ tokens' = IF sealed
                       THEN Append(tokens, [iat |-> clock, principal |-> k.principal])
                       ELSE tokens
          /\ Step(c, M(n, IF sealed THEN Len(tokens) + 1 ELSE NoToken))
    BY <1>6 DEF Ask
  <2> DEFINE f == IF sealed THEN Len(tokens) + 1 ELSE NoToken
             m == M(n, f)
  <2>2. f \in TokenOrNone
    <3>1. Len(tokens) \in Nat /\ MaxTokens \in Nat
      BY Types DEF Inv
    <3> QED
      BY <2>1, <3>1 DEF TokenOrNone, Tokens
  <2>3. Step(c, m)
    BY <2>1
  <2>7. k.at \in {"sent", "deciding"}
    BY <1>6 DEF Ask, Decides, At
  <2> HIDE DEF f
  <2>4. n \in Nat
    BY <1>1
  <2>5. /\ m \in CallType /\ m.at = "answered" /\ m.asked = n
        /\ m.round = k.round /\ m.running = k.running /\ m.done = k.done
    BY <1>1, <2>2, <2>4 DEF CallType
  <2> HIDE DEF m
  <2>6. SameLoop(k, m)
    BY <2>5 DEF SameLoop
  <2> QED
    BY <1>2, <2>3, <2>5, <2>6, <2>7
<1> QED
  BY <1>3, <1>4, <1>5, <1>6

LEMMA AdvanceIs ==
  ASSUME Inv, NEW c \in Calls, Advance(c)
  PROVE  /\ Advances(call[c], call'[c])
         /\ \A d \in Calls : d # c => call'[d] = call[d]
<1> DEFINE k == call[c]
           Others == \A d \in Calls : d # c => call'[d] = call[d]
<1>1. /\ call \in [Calls -> CallType] /\ k \in CallType /\ MaxAsked \in Nat
      /\ "over" \in Ats /\ "opening" \in Ats /\ "deciding" \in Ats /\ "answered" \in Ats
      /\ "asking" \in Ats
  BY Types, OptionsAssumption DEF Inv, Ats, Kinds
<1>2. /\ k.round \in Nat /\ k.asked \in Nat /\ k.running \in Nat /\ k.done \in Nat
      /\ k.from \in TokenOrNone
  BY <1>1 DEF CallType
<1>3. CASE Continue(c)
  <2> DEFINE n == [k EXCEPT !.round = NextRound(k)]
  <2>1. n \in CallType /\ n.round = k.round + 1 /\ n.running = k.running
    BY <1>1, <1>2 DEF NextRound, CallType
  <2>2. Send(c, n, k.from) /\ k.at = "asking" /\ k.done = k.asked
    BY <1>3 DEF Continue, Continuation, At
  <2> HIDE DEF n
  <2>3. /\ call'[c].at = "sent" /\ call'[c].asked = 0 /\ call'[c].done = 0
        /\ call'[c].round = n.round /\ call'[c].running = n.running /\ Others
    BY <1>1, <1>2, <2>1, <2>2, SendsCall
  <2> QED
    BY <2>1, <2>2, <2>3 DEF Advances, Continues
<1>4. CASE Authenticate(c) \/ Consume(c) \/ Finish(c) \/ Ask(c)
  <2>1. Proceeds(k, call'[c]) /\ Others
    BY <1>4, ServerIs
  <2> QED
    BY <2>1 DEF Advances
<1>5. CASE Resolve(c)
  <2> DEFINE m == [k EXCEPT !.at = "asking"]
  <2>1. k.at = "answered" /\ k.round < MaxRounds /\ Step(c, m)
    BY <1>5 DEF Resolve, At, RoundsLeft
  <2>2. m \in CallType /\ m.at = "asking" /\ m.asked = k.asked /\ SameLoop(k, m)
    BY <1>1 DEF CallType, SameLoop
  <2> HIDE DEF m
  <2>3. call'[c] = m /\ Others
    BY <1>1, <2>1, <2>2, StepSets
  <2> QED
    BY <2>1, <2>2, <2>3 DEF Advances, Resolves
<1>6. CASE StartHandler(c)
  <2> DEFINE m == [k EXCEPT !.running = k.running + 1]
  <2>1. /\ k.at = "asking" /\ k.running < MaxConcurrency /\ k.running + k.done < k.asked
        /\ Step(c, m)
    BY <1>6 DEF StartHandler, At
  <2>2. /\ m \in CallType /\ m.at = k.at /\ m.asked = k.asked /\ m.round = k.round
        /\ m.running = k.running + 1 /\ m.done = k.done
    BY <1>1, <1>2 DEF CallType
  <2> HIDE DEF m
  <2>3. call'[c] = m /\ Others
    BY <1>1, <2>1, <2>2, StepSets
  <2> QED
    BY <2>1, <2>2, <2>3 DEF Advances, Starts
<1>7. CASE FinishHandler(c)
  <2> DEFINE m == [k EXCEPT !.running = k.running - 1, !.done = k.done + 1]
  <2>1. k.at = "asking" /\ k.running > 0 /\ Step(c, m)
    BY <1>7 DEF FinishHandler, At
  <2>2. k.running - 1 \in Nat /\ k.done + 1 \in Nat
    BY <1>2, <2>1
  <2>3. /\ m \in CallType /\ m.at = k.at /\ m.asked = k.asked /\ m.round = k.round
        /\ m.running = k.running - 1 /\ m.done = k.done + 1
    BY <1>1, <2>2 DEF CallType
  <2> HIDE DEF m
  <2>4. call'[c] = m /\ Others
    BY <1>1, <2>1, <2>3, StepSets
  <2> QED
    BY <2>1, <2>3, <2>4 DEF Advances, Finishes
<1>8. CASE Settle(c) \/ FailHandler(c)
  <2>1. k.at # "over" /\ Step(c, Leave(k))
    BY <1>8 DEF Settle, FailHandler, At
  <2>2. Leave(k) \in CallType /\ Ends(k, Leave(k))
    BY <1>1, LeaveEnds
  <2>3. call'[c] = Leave(k) /\ Others
    BY <1>1, <2>1, <2>2, StepSets
  <2> QED
    BY <2>1, <2>2, <2>3 DEF Advances
<1> QED
  BY <1>3, <1>4, <1>5, <1>6, <1>7, <1>8 DEF Advance

\* A step lowers what a call has left to do in its round, or begins one of the rounds left.
LEMMA AdvanceLowers ==
  ASSUME NEW k \in CallType, NEW m \in CallType, LoopOk(k), Advances(k, m)
  PROVE  /\ LoopOk(m) /\ Left(k) \in Nat /\ Left(m) \in Nat
         /\ \/ m.round = k.round + 1
            \/ (m.round = k.round \/ m.at = "over") /\ Left(m) < Left(k)
<1>1. /\ k.round \in Nat /\ k.asked \in Nat /\ k.running \in Nat /\ k.done \in Nat
      /\ m.round \in Nat /\ m.asked \in Nat /\ m.running \in Nat /\ m.done \in Nat
      /\ k.at \in Ats /\ m.at \in Ats
      /\ MaxAsked \in Nat /\ MaxRounds \in Nat /\ MaxConcurrency \in Nat
  BY FewerFields, OptionsAssumption
<1>2. LoopOk(m)
  <2>1. CASE Continues(k, m)
    BY <1>1, <2>1 DEF LoopOk, Continues
  <2>2. CASE Proceeds(k, m)
    BY <1>1, <2>2 DEF LoopOk, Proceeds, SameLoop
  <2>3. CASE Resolves(k, m)
    BY <1>1, <2>3 DEF LoopOk, Resolves, SameLoop
  <2>4. CASE Starts(k, m)
    BY <1>1, <2>4 DEF LoopOk, Starts
  <2>5. CASE Finishes(k, m)
    BY <1>1, <2>5 DEF LoopOk, Finishes
  <2>6. CASE Ends(k, m)
    BY <1>1, <2>6 DEF LoopOk, Ends
  <2> QED
    BY <2>1, <2>2, <2>3, <2>4, <2>5, <2>6 DEF Advances
<1>3. ASSUME NEW n \in CallType, LoopOk(n)
      PROVE  /\ Left(n) \in Nat
             /\ n.at = "over" => Left(n) = 0
             /\ n.at = "asking" =>
                  Left(n) = 1 + (n.asked - n.done) + (n.asked - n.done - n.running)
             /\ n.at = "asking" => Left(n) > 0 /\ Left(n) <= 1 + MaxAsked + MaxAsked
             /\ n.at = "answered" => Left(n) = MaxAsked + MaxAsked + 2
             /\ n.at = "deciding" => Left(n) = MaxAsked + MaxAsked + 3
             /\ n.at = "opening" => Left(n) = MaxAsked + MaxAsked + 4
             /\ n.at = "sent" => Left(n) = MaxAsked + MaxAsked + 5
  <2>1. /\ n.asked \in Nat /\ n.running \in Nat /\ n.done \in Nat /\ n.at \in Ats
    BY <1>3, FewerFields
  <2>2. CASE n.at = "asking"
    <3>1. n.running + n.done <= n.asked /\ n.asked <= MaxAsked
      BY <1>3, <2>2 DEF LoopOk
    <3>2. Left(n) = 1 + (n.asked - n.done) + (n.asked - n.done - n.running)
      BY <2>2 DEF Left
    <3> QED
      BY <1>1, <2>1, <2>2, <3>1, <3>2
  <2>3. CASE n.at # "asking"
    BY <1>1, <2>1, <2>3 DEF Left, Place, Ats
  <2> QED
    BY <2>2, <2>3
<1>4. /\ Left(k) \in Nat /\ Left(m) \in Nat
  BY <1>2, <1>3
<1>5. \/ m.round = k.round + 1
      \/ (m.round = k.round \/ m.at = "over") /\ Left(m) < Left(k)
  <2>1. CASE Continues(k, m)
    BY <2>1 DEF Continues
  <2>2. CASE Proceeds(k, m)
    BY <1>1, <1>2, <1>3, <2>2 DEF Proceeds, SameLoop
  <2>3. CASE Resolves(k, m)
    <3>1. Left(k) = MaxAsked + MaxAsked + 2 /\ Left(m) <= 1 + MaxAsked + MaxAsked
      BY <1>2, <1>3, <2>3 DEF Resolves
    <3> QED
      BY <1>1, <1>4, <2>3, <3>1 DEF Resolves, SameLoop
  <2>4. CASE Starts(k, m) \/ Finishes(k, m)
    <3>1. /\ k.at = "asking" /\ m.at = "asking" /\ m.asked = k.asked /\ m.round = k.round
          /\ \/ m.running = k.running + 1 /\ m.done = k.done
             \/ m.running = k.running - 1 /\ m.done = k.done + 1
      BY <2>4 DEF Starts, Finishes
    <3>2. /\ Left(k) = 1 + (k.asked - k.done) + (k.asked - k.done - k.running)
          /\ Left(m) = 1 + (m.asked - m.done) + (m.asked - m.done - m.running)
      BY <1>2, <1>3, <3>1
    <3> QED
      BY <1>1, <3>1, <3>2
  <2>5. CASE k.at # "over" /\ Ends(k, m)
    <3>1. Left(m) = 0 /\ m.at = "over"
      BY <1>2, <1>3, <2>5 DEF Ends
    <3>2. Left(k) > 0
      BY <1>1, <1>3, <2>5 DEF Ats
    <3> QED
      BY <3>1, <3>2
  <2> QED
    BY <2>1, <2>2, <2>3, <2>4, <2>5 DEF Advances
<1> QED
  BY <1>2, <1>4, <1>5

LEMMA LoopInvStep == Inv /\ Inv' /\ LoopInv /\ [Next]_vars => LoopInv'
<1>1. CASE UNCHANGED vars
  BY <1>1 DEF LoopInv, vars
<1>2. ASSUME Inv, Inv', LoopInv, Next PROVE LoopInv'
  <2>0. /\ call \in [Calls -> CallType] /\ call' \in [Calls -> CallType]
        /\ \A c \in Calls : LoopOk(call[c])
    BY <1>2, Types DEF Inv, LoopInv, TypeOK, CallType, Ats, Kinds, Begun, TokenOrNone
  <2>1. ASSUME NEW c \in Calls, Advance(c) PROVE LoopInv'
    <3>1. LoopOk(call'[c])
      BY <1>2, <2>0, <2>1, AdvanceIs, AdvanceLowers
    <3>2. \A d \in Calls : d # c => call'[d] = call[d]
      BY <1>2, <2>1, AdvanceIs
    <3> QED
      BY <2>0, <3>1, <3>2 DEF LoopInv
  <2>2. ASSUME NEW c \in Calls, Begin(c) PROVE LoopInv'
    <3> DEFINE k == call[c]
               n == [k EXCEPT !.begins = k.begins + 1]
    <3>1. k \in CallType /\ k.at = "over" /\ k.begins < MaxBegins
      BY <2>0, <2>2 DEF Begin, At
    <3>2. n \in CallType /\ n.round = k.round /\ n.running = k.running
      BY <3>1, OptionsAssumption DEF CallType, Begun
    <3>3. PICK t \in TokenOrNone : Send(c, n, t)
      <4>1. \E t \in {NoToken} \cup DOMAIN tokens : Send(c, n, t)
        BY <2>2 DEF Begin
      <4>2. {NoToken} \cup DOMAIN tokens \subseteq TokenOrNone
        BY <1>2, Types, OptionsAssumption DEF Inv, SealedInv, Sealed, TokenOrNone, Tokens
      <4> QED
        BY <4>1, <4>2
    <3> HIDE DEF n
    <3>4. /\ call'[c].at = "sent" /\ call'[c].asked = 0 /\ call'[c].done = 0
          /\ call'[c].round = k.round /\ call'[c].running = k.running
          /\ \A d \in Calls : d # c => call'[d] = call[d]
      BY <2>0, <3>2, <3>3, SendsCall
    <3>5. LoopOk(call'[c])
      BY <2>0, <3>1, <3>4, OptionsAssumption DEF LoopOk
    <3> QED
      BY <2>0, <3>4, <3>5 DEF LoopInv
  <2>3. ASSUME NEW c \in Calls, Lose(c) PROVE LoopInv'
    <3>1. Step(c, Leave(call[c])) /\ call[c] \in CallType
      BY <2>0, <2>3 DEF Lose
    <3>2. Leave(call[c]) \in CallType /\ Ends(call[c], Leave(call[c]))
      BY <3>1, LeaveEnds
    <3>3. call'[c] = Leave(call[c]) /\ \A d \in Calls : d # c => call'[d] = call[d]
      BY <2>0, <3>1, <3>2, StepSets
    <3>4. LoopOk(call'[c])
      BY <3>2, <3>3, OptionsAssumption DEF LoopOk, Ends
    <3> QED
      BY <2>0, <3>3, <3>4 DEF LoopInv
  <2>4. CASE Jump
    BY <2>0, <2>4 DEF Jump, LoopInv
  <2> QED
    BY <1>2, <2>1, <2>2, <2>3, <2>4 DEF Next
<1> QED
  BY <1>1, <1>2

LEMMA LoopInvInit == Init => LoopInv
<1> SUFFICES ASSUME Init, NEW c \in Calls PROVE LoopOk(call[c])
  BY DEF LoopInv
<1>1. PICK p \in Principals : call[c] = Free(p, 0)
  BY DEF Init
<1> QED
  BY <1>1, OptionsAssumption DEF LoopOk, Free

LEMMA LoopInvariance == Spec => []LoopInv
<1>1. LoopInv /\ Inv /\ Inv' /\ [Next]_vars => LoopInv'
  BY LoopInvStep
<1> QED
  BY <1>1, LoopInvInit, Invariance, PTL DEF Spec

\* The safety half of CallsEnd: of the handlers a call was asked for, one is to be started
\* or one is running, as far as forEach's concurrency goes, or all are done; and nothing
\* is asked of an application without a round left to answer it.
THEOREM HandlersGoOn ==
  Spec => [](\A c \in Calls : LET k == call[c] IN
               k.at = "asking" =>
                 /\ \/ k.done = k.asked
                    \/ k.running > 0
                    \/ k.running < MaxConcurrency /\ k.running + k.done < k.asked
                 /\ k.round < MaxRounds)
<1>1. ASSUME Inv, LoopInv, NEW c \in Calls, call[c].at = "asking"
      PROVE  LET k == call[c]
             IN  /\ \/ k.done = k.asked
                    \/ k.running > 0
                    \/ k.running < MaxConcurrency /\ k.running + k.done < k.asked
                 /\ k.round < MaxRounds
  <2>1. call[c] \in CallType
    BY <1>1, Types DEF Inv
  <2>2. LoopOk(call[c])
    BY <1>1 DEF LoopInv
  <2> QED
    BY <1>1, <2>1, <2>2, FewerFields, OptionsAssumption DEF LoopOk
<1>2. Inv /\ LoopInv => \A c \in Calls : LET k == call[c] IN
                           k.at = "asking" =>
                             /\ \/ k.done = k.asked
                                \/ k.running > 0
                                \/ k.running < MaxConcurrency /\ k.running + k.done < k.asked
                             /\ k.round < MaxRounds
  BY <1>1
<1> QED
  BY <1>2, LoopInvariance, Invariance, PTL

\* A call that goes on comes to its end, whatever the server asks for: every step of its
\* own lowers what its round has left to do, a natural number, or begins one of the
\* MaxRounds rounds, and leaves the other calls alone.
THEOREM CallsRunOut ==
  Spec => [][\A c \in Calls : Advance(c) =>
               LET k == call[c]
                   m == call'[c]
               IN  /\ \/ m.round = k.round + 1 /\ m.round <= MaxRounds
                      \/ /\ m.round = k.round \/ m.at = "over"
                         /\ Left(m) < Left(k) /\ Left(m) \in Nat
                   /\ \A d \in Calls : d # c => call'[d] = call[d]]_vars
<1>1. ASSUME Inv, Inv', LoopInv, NEW c \in Calls, Advance(c)
      PROVE  LET k == call[c]
                 m == call'[c]
             IN  /\ \/ m.round = k.round + 1 /\ m.round <= MaxRounds
                    \/ /\ m.round = k.round \/ m.at = "over"
                       /\ Left(m) < Left(k) /\ Left(m) \in Nat
                 /\ \A d \in Calls : d # c => call'[d] = call[d]
  <2>1. call[c] \in CallType /\ call'[c] \in CallType /\ LoopOk(call[c])
    BY <1>1, Types DEF Inv, LoopInv, TypeOK, CallType, Ats, Kinds, Begun, TokenOrNone
  <2>2. Advances(call[c], call'[c]) /\ \A d \in Calls : d # c => call'[d] = call[d]
    BY <1>1, AdvanceIs
  <2>3. LoopOk(call'[c])
        /\ \/ call'[c].round = call[c].round + 1
           \/ /\ call'[c].round = call[c].round \/ call'[c].at = "over"
              /\ Left(call'[c]) < Left(call[c]) /\ Left(call'[c]) \in Nat
    BY <2>1, <2>2, AdvanceLowers
  <2> QED
    BY <2>2, <2>3 DEF LoopOk
<1>2. Inv /\ LoopInv /\ [Next]_vars
        => [\A c \in Calls : Advance(c) =>
               LET k == call[c]
                   m == call'[c]
               IN  /\ \/ m.round = k.round + 1 /\ m.round <= MaxRounds
                      \/ /\ m.round = k.round \/ m.at = "over"
                         /\ Left(m) < Left(k) /\ Left(m) \in Nat
                   /\ \A d \in Calls : d # c => call'[d] = call[d]]_vars
  BY <1>1, InvStep
<1> QED
  BY <1>2, LoopInvariance, Invariance, PTL DEF Spec
=============================================================================
