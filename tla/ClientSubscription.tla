------------------------- MODULE ClientSubscription -------------------------
(***************************************************************************)
(* One `subscriptionsListen` of the client (openSubscription in            *)
(* src/src/McpClient.ts): the owner fiber that pulls the transport's       *)
(* frames, the machine Opening -> Open -> TerminalPending -> Closed behind *)
(* a one-permit gate, the bounded output queue with its reserved slot for  *)
(* the terminal, and the closers (the caller's close, the interrupted      *)
(* opening, the scope's finalizer) that settle and then join the owner.    *)
(*                                                                         *)
(* A section under the gate is one step: the gate excludes every other     *)
(* section, and the reads made outside it (processFrame, finishFailure,    *)
(* finishSuccess) are steps of their own, so they can be stale.            *)
(***************************************************************************)
EXTENDS Naturals, Sequences

CONSTANTS
  Closers,     \* fibers that run callerClose
  Limit,       \* notifications the output queue may hold (16 in the code)
  MaxFrames    \* bound: frames the transport delivers

ASSUME LimitAssumption == Limit \in Nat \ {0}
ASSUME FramesAssumption == MaxFrames \in Nat

VARIABLES
  state,        \* the tag of `state`
  closure,      \* the settled closure: of `state` and of the `closed` deferred
  opening,      \* the `opening` deferred
  opener,       \* the fiber that called subscriptionsListen
  output,       \* the bounded output queue
  stream,       \* what the consumer of `notifications` has taken
  dispatched,   \* notifications handleNotification has processed, in order
  owner,        \* progress of the owner fiber, and what it has read
  interrupted,  \* a closer has interrupted the owner
  closer,       \* progress of each closer
  frames        \* frames delivered so far

vars == <<state, closure, opening, opener, output, stream, dispatched, owner,
          interrupted, closer, frames>>

settled == <<state, closure, opening, output>>
outside == <<opener, stream, interrupted, closer>>

Clean == {"CallerClosed", "Graceful"}
Protocol == {"Acknowledgement", "Frame", "Terminal"}
Abrupt == {"Overflow", "Dispatch", "UnexpectedEnd", "Transport"}
Closures == Clean \cup Protocol \cup Abrupt

\* What a frame is to processFrame: a valid acknowledgement or not, a selected
\* notification or not, an error response, a valid terminal result or not.
Frames == {"ack", "badAck", "note", "badNote", "error", "terminal", "badTerminal"}

\* How the transport's stream can end: done, failed, failed with InvalidRequest.
Ends == {"done", "failed", "invalid"}

Note(n) == [is |-> "note", n |-> n]
CloseTake(c) == [is |-> IF c \in Clean THEN "end" ELSE "error", n |-> 0]
IsNote(e) == e.is = "note"
Items == [is : {"note", "end", "error"}, n : Nat]

Idle == [at |-> "pulling", of |-> "none"]
At(p) == owner.at = p

TypeOK ==
  /\ state \in {"Opening", "Open", "TerminalPending", "Closed"}
  /\ closure \in {"none"} \cup Closures
  /\ opening \in {"pending", "acknowledged", "failed"}
  /\ opener \in {"awaiting", "opened", "failed", "interrupted"}
  /\ output \in Seq(Items)
  /\ Len(output) <= IF closure = "none" THEN Limit ELSE Limit + 1
  /\ stream \in Seq(Items)
  /\ dispatched \in Seq(Items)
  /\ \/ owner \in [at : {"pulling", "acknowledging", "dispatching", "offering",
                         "terminating", "ended"}, of : {"none"}]
     \/ owner \in [at : {"claiming", "settling"}, of : Closures]
     \/ owner \in [at : {"leaving", "finishing"}, of : Ends \cup {"owned"}]
  /\ interrupted \in BOOLEAN
  /\ closer \in [Closers -> {"idle", "settled", "joining", "done"}]
  /\ frames \in Nat

Init ==
  /\ state = "Opening"
  /\ closure = "none"
  /\ opening = "pending"
  /\ opener = "awaiting"
  /\ output = <<>>
  /\ stream = <<>>
  /\ dispatched = <<>>
  /\ owner = Idle
  /\ interrupted = FALSE
  /\ closer = [c \in Closers |-> "idle"]
  /\ frames = 0

-----------------------------------------------------------------------------
(* Sections under the gate.                                                *)

\* Queue.offerUnsafe on a queue of Limit + 1: a full queue drops the item.
OfferUnsafe(e) ==
  output' = IF Len(output) <= Limit THEN Append(output, e) ELSE output

SettleAgain(c) ==                                                      \* mutant
  /\ state' = "Closed"
  /\ closure' = c
  /\ OfferUnsafe(CloseTake(c))
  /\ opening' = IF opening = "pending" THEN "failed" ELSE opening
\* settleUnlocked: the first closure wins; it ends the stream and fails an
\* opening that still waits.
Settle(c) ==
  \/ state = "Closed" /\ UNCHANGED settled
  \/ /\ state # "Closed"
     /\ state' = "Closed"
     /\ closure' = c
     /\ OfferUnsafe(CloseTake(c))
     /\ opening' = IF state = "Opening" THEN "failed" ELSE opening

\* The notification limit leaves the last slot to the terminal.
HasRoom == Len(output) < Limit

-----------------------------------------------------------------------------
(* The owner fiber: one frame after the other.                             *)

Goto(p, x) == owner' = [at |-> p, of |-> x]

\* The fault processFrame sees in a frame, from the state it has read.
Fault(f) ==
  CASE state = "TerminalPending" -> "Frame"
    [] state = "Opening" /\ f # "ack" -> "Acknowledgement"
    [] state = "Open" /\ f \in {"ack", "badAck"} -> "Acknowledgement"
    [] state = "Open" /\ f = "badNote" -> "Frame"
    [] state = "Open" /\ f \in {"error", "badTerminal"} -> "Terminal"
    [] OTHER -> "none"

\* A frame without a fault goes to the step that handles its kind.
Accepted(f) ==
  CASE f = "ack" -> "acknowledging"
    [] f = "note" -> "dispatching"
    [] f = "terminal" -> "terminating"

\* processFrame reads the state, without the gate, and decides.
ReceiveFrame(f) ==
  /\ At("pulling")
  /\ frames < MaxFrames
  /\ frames' = frames + 1
  /\ \/ state = "Closed" /\ UNCHANGED owner
     \/ state # "Closed" /\ Fault(f) # "none" /\ Goto("claiming", Fault(f))
     \/ state # "Closed" /\ Fault(f) = "none" /\ Goto(Accepted(f), "none")
  /\ UNCHANGED <<settled, outside, dispatched>>

\* acknowledge: only an opening subscription opens.
Acknowledge ==
  /\ At("acknowledging")
  /\ \/ state # "Opening" /\ UNCHANGED <<state, opening>>
     \/ state = "Opening" /\ state' = "Open" /\ opening' = "acknowledged"
  /\ owner' = Idle
  /\ UNCHANGED <<closure, output, outside, dispatched, frames>>

\* handleNotification: cache epochs, invalidation and the user's handler.
Dispatch ==
  /\ At("dispatching")
  /\ dispatched' = Append(dispatched, Note(frames))
  /\ Goto("offering", "none")
  /\ UNCHANGED <<settled, outside, frames>>

DispatchFails ==
  /\ At("dispatching")
  /\ Goto("claiming", "Dispatch")
  /\ UNCHANGED <<settled, outside, dispatched, frames>>

OfferDropping ==                                                       \* mutant
  /\ At("offering")
  /\ \/ state = "Open" /\ HasRoom /\ OfferUnsafe(Note(frames))
     \/ ~(state = "Open" /\ HasRoom) /\ UNCHANGED output
  /\ owner' = Idle
  /\ UNCHANGED <<state, closure, opening, outside, dispatched, frames>>
\* offerNotification: the state is read again, now under the gate.
Offer ==
  /\ At("offering")
  /\ \/ /\ state = "Open" /\ HasRoom
        /\ OfferUnsafe(Note(frames))
        /\ owner' = Idle
        /\ UNCHANGED <<state, closure, opening>>
     \/ /\ state # "Open"
        /\ Settle("Frame")
        /\ Goto("claiming", "Frame")
     \/ /\ state = "Open" /\ ~HasRoom
        /\ Settle("Overflow")
        /\ Goto("claiming", "Overflow")
  /\ UNCHANGED <<outside, dispatched, frames>>

\* setTerminal: the terminal answer is kept until the stream ends.
AcceptTerminal ==
  /\ At("terminating")
  /\ \/ state # "Open" /\ UNCHANGED state
     \/ state = "Open" /\ state' = "TerminalPending"
  /\ owner' = Idle
  /\ UNCHANGED <<closure, opening, output, outside, dispatched, frames>>

\* claimOwnerFailure settles before the stream's finalizers run.
Claim ==
  /\ At("claiming")
  /\ Settle(owner.of)
  /\ Goto("leaving", "owned")
  /\ UNCHANGED <<outside, dispatched, frames>>

\* The transport's stream ends or fails.
StreamEnds(e) ==
  /\ At("pulling")
  /\ Goto("leaving", e)
  /\ UNCHANGED <<settled, outside, dispatched, frames>>

\* Effect.scoped has released the transport's stream.
Leave ==
  /\ At("leaving")
  /\ Goto("finishing", owner.of)
  /\ UNCHANGED <<settled, outside, dispatched, frames>>

VerdictByEnd(e) == IF e = "done" THEN "UnexpectedEnd" ELSE "Transport" \* mutant
\* What finishSuccess and finishFailure make of the end, from the state read.
Verdict(e) ==
  IF state = "TerminalPending" THEN "Graceful"
  ELSE IF e = "failed" THEN "Transport"
  ELSE IF state = "Opening" THEN "Acknowledgement"
  ELSE IF e = "done" THEN "UnexpectedEnd" ELSE "Frame"

FinishQuietly ==                                                       \* mutant
  /\ At("finishing")
  /\ \/ (state = "Closed" \/ owner.of = "done") /\ Goto("ended", "none")
     \/ state # "Closed" /\ owner.of # "done" /\ Goto("settling", Verdict(owner.of))
  /\ UNCHANGED <<settled, outside, dispatched, frames>>
\* finishSuccess and finishFailure read the state without the gate; after an
\* owned failure they find it closed.
Finish ==
  /\ At("finishing")
  /\ \/ state = "Closed" /\ Goto("ended", "none")
     \/ state # "Closed" /\ Goto("settling", Verdict(owner.of))
  /\ UNCHANGED <<settled, outside, dispatched, frames>>

SettleEnd ==
  /\ At("settling")
  /\ Settle(owner.of)
  /\ Goto("ended", "none")
  /\ UNCHANGED <<outside, dispatched, frames>>

\* An interrupted owner stops wherever it is; its finalizers run, its
\* finish handlers do not.
OwnerInterrupted ==
  /\ interrupted
  /\ ~At("ended")
  /\ Goto("ended", "none")
  /\ UNCHANGED <<settled, outside, dispatched, frames>>

OwnerStep ==
  \/ Acknowledge \/ Dispatch \/ DispatchFails \/ Offer \/ AcceptTerminal
  \/ Claim \/ Leave \/ Finish \/ SettleEnd \/ OwnerInterrupted

-----------------------------------------------------------------------------
(* Closers, opener and consumer.                                           *)

\* callerClose, its section under the gate.
Close(c) ==
  /\ closer[c] = "idle"
  /\ closer' = [closer EXCEPT ![c] = "settled"]
  /\ Settle(IF state = "TerminalPending" THEN "Graceful" ELSE "CallerClosed")
  /\ UNCHANGED <<opener, stream, dispatched, owner, interrupted, frames>>

SkipInterrupt(c) ==                                                    \* mutant
  /\ closer[c] = "settled"
  /\ closer' = [closer EXCEPT ![c] = "joining"]
  /\ UNCHANGED <<settled, opener, stream, dispatched, owner, interrupted, frames>>
\* Fiber.interrupt(owner), after the gate is released ...
InterruptOwner(c) ==
  /\ closer[c] = "settled"
  /\ closer' = [closer EXCEPT ![c] = "joining"]
  /\ interrupted' = TRUE
  /\ UNCHANGED <<settled, opener, stream, dispatched, owner, frames>>

\* ... returns when the owner has ended.
JoinOwner(c) ==
  /\ closer[c] = "joining"
  /\ At("ended")
  /\ closer' = [closer EXCEPT ![c] = "done"]
  /\ UNCHANGED <<settled, opener, stream, dispatched, owner, interrupted, frames>>

\* The call returns a subscription or fails ...
OpeningReturns ==
  /\ opener = "awaiting"
  /\ \/ opening = "acknowledged" /\ opener' = "opened"
     \/ opening = "failed" /\ opener' = "failed"
  /\ UNCHANGED <<settled, stream, dispatched, owner, interrupted, closer, frames>>

\* ... or is interrupted: onInterrupt runs callerClose in closer c.
OpeningInterrupted(c) ==
  /\ opener = "awaiting"
  /\ opener' = "interrupted"
  /\ closer[c] = "idle"
  /\ closer' = [closer EXCEPT ![c] = "settled"]
  /\ Settle(IF state = "TerminalPending" THEN "Graceful" ELSE "CallerClosed")
  /\ UNCHANGED <<stream, dispatched, owner, interrupted, frames>>

Consume ==
  /\ output # <<>>
  /\ stream' = Append(stream, Head(output))
  /\ output' = Tail(output)
  /\ UNCHANGED <<state, closure, opening, opener, dispatched, owner,
                 interrupted, closer, frames>>

Next ==
  \/ OwnerStep
  \/ \E f \in Frames : ReceiveFrame(f)
  \/ \E e \in Ends : StreamEnds(e)
  \/ \E c \in Closers :
       Close(c) \/ InterruptOwner(c) \/ JoinOwner(c) \/ OpeningInterrupted(c)
  \/ OpeningReturns
  \/ Consume

Spec == Init /\ [][Next]_vars

\* Fibers are scheduled; the transport may stay silent for ever, nobody has to
\* close or to read: Consume is not fair.
FairSpec ==
  /\ Spec
  /\ WF_vars(OwnerStep)
  /\ \A c \in Closers : WF_vars(InterruptOwner(c) \/ JoinOwner(c))
  /\ WF_vars(OpeningReturns)

-----------------------------------------------------------------------------
(* What the caller was given, taken or still in the queue.                 *)

Delivered == stream \o output
Ended == closure # "none"
Notes == IF Ended THEN SubSeq(Delivered, 1, Len(Delivered) - 1) ELSE Delivered

-----------------------------------------------------------------------------
(* Safety.                                                                 *)

\* The subscription ends for its consumer exactly as it ended for `closed`:
\* one terminal item, the last one, clean or failed like the closure, and none
\* before the closure. The queue's reserved slot, the single settlement and the
\* order of settlement and offers all have to work for that.
EndsAsItClosed ==
  LET last == Len(Delivered)
  IN  /\ \A k \in 1..last : ~IsNote(Delivered[k]) => k = last
      /\ Ended <=> last > 0 /\ ~IsNote(Delivered[last])
      /\ Ended => Delivered[last] = CloseTake(closure)

\* Notifications reach the consumer in the order in which cache and handlers
\* have seen them, none is skipped, and only the newest can be missing: while it
\* is between dispatch and offer, or for ever if the subscription closed then.
\* A graceful end means that all of them were delivered.
NothingSkipped ==
  /\ Notes = SubSeq(dispatched, 1, Len(Notes))
  /\ Len(dispatched) - Len(Notes) \in {0, 1}
  /\ Notes # dispatched => At("offering") \/ Ended
  /\ closure = "Graceful" => Notes = dispatched

\* The opening is settled by the closure if nothing else did: no caller waits in
\* subscriptionsListen for a subscription that is over, no failed opening is
\* still alive, and notifications, graceful ends and the failures of an open
\* subscription need an acknowledgement first.
OpeningSettled ==
  /\ Ended => opening # "pending"
  /\ opening = "failed" => Ended
  /\ (dispatched # <<>>
       \/ closure \in (Closures \ {"CallerClosed", "Acknowledgement", "Transport"}))
     => opening = "acknowledged"

\* A terminal answer of the server is not lost to a racing close or to a
\* transport that fails while it shuts down: only a frame after the terminal can
\* turn it into a failure.
TerminalIsKept ==
  [][state = "TerminalPending" /\ state' = "Closed"
       => closure' \in {"Graceful", "Frame"}]_vars

\* The first closure wins: no later event overwrites it, and nothing is enqueued
\* for the consumer after it, also not by an owner that had read the state before.
FirstClosureWins ==
  [][Ended => closure' = closure /\ Delivered' = Delivered]_vars

-----------------------------------------------------------------------------
(* Liveness.                                                               *)

\* A close returns, also when nobody reads the notifications and the transport
\* is silent.
CloseReturns == \A c \in Closers : closer[c] # "idle" ~> closer[c] = "done"

\* An end of the transport's stream reaches the opener and the consumer, if he
\* reads on.
EndReaches ==
  WF_vars(Consume) =>
    /\ At("leaving") ~> Ended /\ output = <<>>
    /\ Ended ~> opener # "awaiting"
=============================================================================
