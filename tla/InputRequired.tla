--------------------------- MODULE InputRequired ---------------------------
(***************************************************************************)
(* Calls that the server answers with input_required: the client's loop    *)
(* (sendWithMrtr, src/src/McpClient.ts) answers the questions and sends    *)
(* the call again with the sealed state it was given, and the server's     *)
(* handler opens that state (src/src/RequestState.ts) before it goes on.   *)
(* An opened token is spent: the memory replay store keeps it until it     *)
(* expires.  Tokens are numbered as they are sealed; 0 is no token.        *)
(*                                                                         *)
(* An application may pass a continuation of its own, so that any token    *)
(* may come more than once, and from anyone.  The host's clock may jump.   *)
(***************************************************************************)
EXTENDS Naturals, Sequences, FiniteSets

CONSTANTS
  Calls,           \* places for calls: as many are in flight
  Principals,      \* what a token is bound to: principal and purpose
  MaxRounds, MaxPerRound, MaxConcurrency,  \* the client's policy
  TimeToLive, Capacities,                  \* options of the server's state
  MaxTime, MaxTokens, MaxBegins, MaxAsked  \* bounds

ASSUME OptionsAssumption ==
  /\ MaxRounds \in Nat /\ MaxPerRound \in Nat
  /\ MaxConcurrency \in Nat \ {0} /\ TimeToLive \in Nat \ {0} /\ Capacities \subseteq Nat \ {0}
  /\ MaxTime \in Nat /\ MaxTokens \in Nat /\ MaxBegins \in Nat /\ MaxAsked \in Nat

VARIABLES
  mode,      \* the client's policy: "automatic" or "manual"
  capacity,  \* of the replay store
  clock,     \* of the server's host
  tokens,    \* the tokens sealed so far
  entries,   \* the replay store
  lapsed,    \* tokens that some opening found expired in the store's terms
  opened,    \* how often a token was opened
  carried,   \* which calls have sent a token
  call

options == <<mode, capacity>>
vars == <<mode, capacity, clock, tokens, entries, lapsed, opened, carried, call>>
store == <<entries, lapsed, opened>>

NoToken == 0
Tokens == 1 .. MaxTokens
Verdicts == {"none", "AuthenticationFailed", "FutureIssued", "Expired", "Replay",
             "ReplayStoreFull"}

TypeOK ==
  /\ mode \in {"automatic", "manual"}
  /\ capacity \in Capacities
  /\ clock \in 0 .. MaxTime
  /\ tokens \in Seq([iat : Nat, principal : Principals])
  /\ entries \subseteq Tokens /\ lapsed \subseteq Tokens
  /\ opened \in [Tokens -> Nat]
  /\ carried \in [Tokens -> SUBSET (Calls \X Nat)]
  /\ call \in [Calls ->
       [at : {"over", "sent", "opening", "deciding", "answered", "asking"},
        begins : 0 .. MaxBegins, principal : Principals, round : Nat,
        token : Tokens \cup {NoToken}, now : Nat, verdict : Verdicts,
        answer : {"none", "final", "ask"}, asked : Nat,
        from : Tokens \cup {NoToken}, running : Nat, done : Nat]]

\* A place for calls that has begun some, and has none in flight.
Free(principal, begins) ==
  [at |-> "over", begins |-> begins, principal |-> principal, round |-> 0,
   token |-> NoToken, now |-> 0, verdict |-> "none", answer |-> "none",
   asked |-> 0, from |-> NoToken, running |-> 0, done |-> 0]

Init ==
  /\ mode \in {"automatic", "manual"}
  /\ clock = 0
  /\ tokens = <<>>
  /\ entries = {} /\ lapsed = {}
  /\ opened = [t \in Tokens |-> 0]
  /\ carried = [t \in Tokens |-> {}]
  /\ capacity \in Capacities
  /\ call \in [Calls -> {Free(p, 0) : p \in Principals}]

At(c, here) == call[c].at = here
Step(c, k) == call' = [call EXCEPT ![c] = k]

-----------------------------------------------------------------------------
(* The client sends.                                                       *)

\* The request leaves with a token, or none.
Send(c, k, token) ==
  /\ Step(c, [k EXCEPT !.at = "sent", !.token = token, !.now = 0, !.verdict = "none",
                       !.answer = "none", !.asked = 0, !.from = NoToken, !.done = 0])
  /\ carried' = [t \in Tokens |->
       IF t = token THEN carried[t] \cup {<<c, k.begins>>} ELSE carried[t]]

\* The application calls, perhaps with a continuation it has kept.
Begin(c) ==
  LET k == call[c] IN
  /\ At(c, "over") /\ k.begins < MaxBegins
  /\ \E t \in {NoToken} \cup DOMAIN tokens :
       Send(c, [k EXCEPT !.begins = @ + 1], t)
  /\ UNCHANGED <<options, clock, tokens, store>>

KeepsOld(k) == IF k.from = NoToken THEN k.token ELSE k.from             \* mutant
\* withoutContinuation, then the state of the last answer, if it has one.
Continuation(k) == k.from

SameRound(k) == k.round                                                \* mutant
NextRound(k) == k.round + 1

Continue(c) ==
  LET k == call[c] IN
  /\ At(c, "asking") /\ k.done = k.asked
  /\ Send(c, [k EXCEPT !.round = NextRound(k)], Continuation(k))
  /\ UNCHANGED <<options, clock, tokens, store>>

-----------------------------------------------------------------------------
(* SecureRequestState.open.                                                *)

Expiry(t) == tokens[t].iat + TimeToLive

Refuse(k, verdict) == [k EXCEPT !.at = "answered", !.answer = "final", !.verdict = verdict]

\* Decryption, and then the clock.
Authenticate(c) ==
  LET k == call[c]
      t == k.token IN
  /\ At(c, "sent") /\ t # NoToken
  /\ Step(c, CASE tokens[t].principal # k.principal -> Refuse(k, "AuthenticationFailed")
               [] tokens[t].principal = k.principal /\ tokens[t].iat > clock ->
                    Refuse(k, "FutureIssued")
               [] tokens[t].principal = k.principal /\ clock >= Expiry(t) ->
                    Refuse(k, "Expired")
               [] OTHER -> [k EXCEPT !.at = "opening", !.now = clock])
  /\ UNCHANGED <<options, clock, tokens, store, carried>>

LiveAll(now) == entries                                                \* mutant
LiveEarly(now) == {t \in entries : Expiry(t) > now + 1}                \* mutant
Live(now) == {t \in entries : Expiry(t) > now}

\* The store's consume, with the time that open has read.
Consume(c) ==
  LET k == call[c]
      t == k.token
      live == Live(k.now)
      spent == t \in live
      full == Cardinality(live) >= capacity IN
  /\ At(c, "opening")
  /\ entries' = IF spent \/ full THEN live ELSE live \cup {t}
  /\ lapsed' = lapsed \cup {u \in DOMAIN tokens : Expiry(u) <= k.now}
  /\ opened' = IF spent \/ full THEN opened ELSE [opened EXCEPT ![t] = @ + 1]
  /\ Step(c, CASE spent -> Refuse(k, "Replay")
               [] ~spent /\ full -> Refuse(k, "ReplayStoreFull")
               [] OTHER -> [k EXCEPT !.at = "deciding", !.now = 0])
  /\ UNCHANGED <<options, clock, tokens, carried>>

-----------------------------------------------------------------------------
(* The server's handler.                                                   *)

Decides(c) == At(c, "deciding") \/ (At(c, "sent") /\ call[c].token = NoToken)

\* A result or an error of its own.
Finish(c) ==
  /\ Decides(c)
  /\ Step(c, [call[c] EXCEPT !.at = "answered", !.answer = "final"])
  /\ UNCHANGED <<options, clock, tokens, store, carried>>

\* requestInput, with state that seal has bound and dated, or without.
Ask(c) ==
  LET k == call[c] IN
  /\ Decides(c)
  /\ \E n \in 0 .. MaxAsked, sealed \in BOOLEAN :
       /\ sealed => Len(tokens) < MaxTokens
       /\ tokens' = IF sealed THEN Append(tokens, [iat |-> clock, principal |-> k.principal])
                    ELSE tokens
       /\ Step(c, [k EXCEPT !.at = "answered", !.answer = "ask", !.asked = n,
                            !.from = IF sealed THEN Len(tokens) + 1 ELSE NoToken])
  /\ UNCHANGED <<options, clock, store, carried>>

-----------------------------------------------------------------------------
(* The client's loop.                                                      *)

Leave(k) == Free(k.principal, k.begins)

\* The answer is lost, or the caller is interrupted: at any time.
Lose(c) ==
  /\ At(c, "answered") \/ At(c, "asking")
  /\ Step(c, Leave(call[c]))
  /\ UNCHANGED <<options, clock, tokens, store, carried>>

RoundsLeft(k) == k.round < MaxRounds

\* An answer that ends the call, or an input_required that may not go on.
Settle(c) ==
  LET k == call[c] IN
  /\ At(c, "answered")
  /\ k.answer = "ask" => mode = "manual" \/ ~RoundsLeft(k) \/ k.asked > MaxPerRound
  /\ Step(c, Leave(k))
  /\ UNCHANGED <<options, clock, tokens, store, carried>>

Resolve(c) ==
  LET k == call[c] IN
  /\ At(c, "answered") /\ k.answer = "ask" /\ mode = "automatic"
  /\ RoundsLeft(k) /\ k.asked <= MaxPerRound
  /\ Step(c, [k EXCEPT !.at = "asking"])
  /\ UNCHANGED <<options, clock, tokens, store, carried>>

StartHandler(c) ==
  LET k == call[c] IN
  /\ At(c, "asking") /\ k.running < MaxConcurrency /\ k.running + k.done < k.asked
  /\ Step(c, [k EXCEPT !.running = @ + 1])
  /\ UNCHANGED <<options, clock, tokens, store, carried>>

FinishHandler(c) ==
  LET k == call[c] IN
  /\ At(c, "asking") /\ k.running > 0
  /\ Step(c, [k EXCEPT !.running = @ - 1, !.done = @ + 1])
  /\ UNCHANGED <<options, clock, tokens, store, carried>>

\* A handler is missing or fails: forEach interrupts the others.
FailHandler(c) ==
  /\ At(c, "asking") /\ call[c].running > 0
  /\ Step(c, Leave(call[c]))
  /\ UNCHANGED <<options, clock, tokens, store, carried>>

-----------------------------------------------------------------------------

Jump ==
  /\ clock' \in 0 .. MaxTime \ {clock}
  /\ UNCHANGED <<options, tokens, store, carried, call>>

Advance(c) ==
  \/ Continue(c)
  \/ Authenticate(c) \/ Consume(c) \/ Finish(c) \/ Ask(c)
  \/ Settle(c) \/ Resolve(c) \/ StartHandler(c) \/ FinishHandler(c) \/ FailHandler(c)

Next ==
  \/ \E c \in Calls : Begin(c) \/ Lose(c) \/ Advance(c)
  \/ Jump

Spec == Init /\ [][Next]_vars
FairSpec == Spec /\ \A c \in Calls : WF_vars(Advance(c))

-----------------------------------------------------------------------------
(* Properties.                                                             *)

\* However many requests carry a token, its state is opened once, as long as
\* the store was not asked at a time past the token's expiry.  (An opening that
\* read the clock before that time may then consume the token again.)
OpenedOnce == \A t \in Tokens : opened[t] > 1 => t \in lapsed

\* A refusal is true: a replay was opened before, and a full store is full of
\* opened tokens that had not expired.
RefusalsAreTrue ==
  \A c \in Calls :
    /\ call[c].verdict = "Replay" => opened[call[c].token] > 0
    /\ call[c].verdict = "ReplayStoreFull" =>
         Cardinality({t \in DOMAIN tokens : opened[t] > 0 /\ Expiry(t) > call[c].now}) >= capacity

\* The rounds of one call never replay each other's state: a replay means that
\* the application sent the token in another call.
ReplayIsAnothers ==
  \A c \in Calls :
    call[c].verdict = "Replay" => Cardinality(carried[call[c].token]) > 1

\* A server that asks for ever does not hold a call for ever.
CallsEnd == \A c \in Calls : ~At(c, "over") ~> At(c, "over")
=============================================================================
