---------------------- MODULE ClientSubscriptionProofs ----------------------
(***************************************************************************)
(* Proofs about ClientSubscription, for any number of closers, any limit   *)
(* of the output queue and any number of frames: the safety properties     *)
(* checked by its run.                                                     *)
(***************************************************************************)
EXTENDS ClientSubscription, TLAPS

\* The closures that take an open subscription: `opening` was acknowledged.
NeedsOpen == Closures \ {"CallerClosed", "Acknowledgement", "Transport"}

\* The tag of `state` and the two deferreds agree.
StateInv ==
  /\ Ended <=> state = "Closed"
  /\ state = "Opening" <=> opening = "pending"
  /\ opening = "failed" => Ended

\* What the owner has read of the state and still acts on: a frame it handles was
\* accepted by an open subscription, a failure it is about to claim was judged so,
\* and nothing but the owner itself can have made the terminal pending since.
OwnerInv ==
  /\ owner.at \in {"dispatching", "offering", "terminating"} => opening = "acknowledged"
  /\ owner.at \in {"claiming", "settling"} /\ owner.of \in NeedsOpen
       => opening = "acknowledged"
  /\ state = "TerminalPending" =>
       owner.at \notin {"acknowledging", "dispatching", "offering", "terminating"}
  /\ state = "TerminalPending" /\ owner.at = "claiming" => owner.of = "Frame"
  /\ state = "TerminalPending" /\ owner.at = "settling" => owner.of = "Graceful"
  /\ owner.at = "claiming" => owner.of # "Graceful"
  /\ owner.at = "settling" /\ owner.of = "Graceful" =>
       state \in {"TerminalPending", "Closed"}
  /\ closure = "Graceful" => owner.at \notin {"dispatching", "offering"}

\* What has been delivered is what has been dispatched, but for the notification
\* in the owner's hands, and the closing item behind it.
QueueInv ==
  /\ Notes \in Seq(Items)
  /\ \A k \in 1..Len(dispatched) : IsNote(dispatched[k])
  /\ Ended => Delivered = Append(Notes, CloseTake(closure))
  /\ Notes = dispatched \/ \E x \in Items : dispatched = Append(Notes, x)
  /\ ~At("offering") /\ ~Ended => Notes = dispatched
  /\ At("offering") /\ ~Ended => dispatched = Append(Notes, Note(frames))
  /\ At("dispatching") \/ closure = "Graceful" => Notes = dispatched

\* A closer interrupts the owner only after it has settled the subscription.
CloserInv ==
  /\ interrupted => Ended
  /\ \A c \in Closers : closer[c] # "idle" => Ended

Control == StateInv /\ OpeningSettled /\ OwnerInv
Inv == Control /\ CloserInv /\ QueueInv

-----------------------------------------------------------------------------
(* Type correctness.                                                       *)

LEMMA ItemTypes ==
  /\ \A n \in Nat : Note(n) \in Items
  /\ \A c : CloseTake(c) \in Items
BY DEF Note, CloseTake, Items

LEMMA VerdictType == \A e : Verdict(e) \in Closures
BY DEF Verdict, Closures, Clean, Protocol, Abrupt

\* The end is graceful exactly for a pending terminal, and an opening that still
\* waits is never told of a closure that takes an open subscription.
LEMMA VerdictOf ==
  ASSUME NEW e
  PROVE  /\ state = "TerminalPending" <=> Verdict(e) = "Graceful"
         /\ Verdict(e) \in NeedsOpen => state # "Opening"
BY DEF Verdict, NeedsOpen

LEMMA FaultType == \A f : Fault(f) # "none" => Fault(f) \in Closures
BY DEF Fault, Closures, Clean, Protocol, Abrupt

LEMMA AcceptedType ==
  \A f \in Frames : TypeOK /\ state # "Closed" /\ Fault(f) = "none" =>
    Accepted(f) \in {"acknowledging", "dispatching", "terminating"}
BY DEF TypeOK, Fault, Accepted, Frames

\* A settlement keeps the types: the closing item has its slot.
LEMMA SettleType ==
  ASSUME TypeOK, StateInv, NEW c \in Closures, Settle(c)
  PROVE  /\ state' \in {"Opening", "Open", "TerminalPending", "Closed"}
         /\ closure' \in {"none"} \cup Closures
         /\ opening' \in {"pending", "acknowledged", "failed"}
         /\ output' \in Seq(Items)
         /\ Len(output') <= IF closure' = "none" THEN Limit ELSE Limit + 1
<1>1. CASE state = "Closed"
  <2>1. UNCHANGED settled
    BY <1>1 DEF Settle
  <2> QED
    BY <2>1 DEF TypeOK, settled
<1>2. CASE state # "Closed"
  <2>1. closure = "none" /\ Len(output) <= Limit /\ output \in Seq(Items)
    BY <1>2 DEF TypeOK, StateInv, Ended
  <2>2. /\ state' = "Closed" /\ closure' = c
        /\ output' = Append(output, CloseTake(c))
        /\ opening' = IF state = "Opening" THEN "failed" ELSE opening
    BY <1>2, <2>1 DEF Settle, OfferUnsafe
  <2>3. c # "none"
    BY DEF Closures, Clean, Protocol, Abrupt
  <2>4. output' \in Seq(Items) /\ Len(output') <= Limit + 1
    BY <2>1, <2>2, ItemTypes, LimitAssumption
  <2> QED
    BY <2>2, <2>3, <2>4 DEF TypeOK
<1> QED
  BY <1>1, <1>2

LEMMA TypeOKInit == Init => TypeOK
<1> SUFFICES ASSUME Init PROVE TypeOK
  OBVIOUS
<1>1. output \in Seq(Items) /\ Len(output) = 0 /\ stream \in Seq(Items)
      /\ dispatched \in Seq(Items) /\ closure = "none"
  BY DEF Init
<1>2. Len(output) <= IF closure = "none" THEN Limit ELSE Limit + 1
  BY <1>1, LimitAssumption
<1> QED
  BY <1>1, <1>2 DEF Init, TypeOK, Idle

LEMMA TypeOKStep == TypeOK /\ StateInv /\ [Next]_vars => TypeOK'
<1> SUFFICES ASSUME TypeOK, StateInv, Next PROVE TypeOK'
  BY DEF TypeOK, vars
<1> USE DEF outside, settled, At, Goto
<1>1. ASSUME NEW f \in Frames, ReceiveFrame(f) PROVE TypeOK'
  BY <1>1, FaultType, AcceptedType DEF TypeOK, ReceiveFrame
<1>2. ASSUME Acknowledge PROVE TypeOK'
  BY <1>2 DEF TypeOK, Acknowledge, Idle
<1>3. ASSUME Dispatch PROVE TypeOK'
  BY <1>3, ItemTypes DEF TypeOK, Dispatch
<1>4. ASSUME DispatchFails PROVE TypeOK'
  BY <1>4 DEF TypeOK, DispatchFails, Closures, Abrupt
<1>5. ASSUME Offer PROVE TypeOK'
  <2>1. CASE state = "Open" /\ HasRoom
    <3>1. closure = "none"
      BY <2>1 DEF StateInv, Ended
    <3>2. output' = Append(output, Note(frames)) /\ Len(output) < Limit
      BY <1>5, <2>1, LimitAssumption DEF Offer, OfferUnsafe, HasRoom, TypeOK
    <3>3. output' \in Seq(Items) /\ Len(output') <= Limit
      BY <3>2, ItemTypes, LimitAssumption DEF TypeOK
    <3>4. closure' = "none" /\ owner' = Idle
      BY <1>5, <2>1, <3>1 DEF Offer
    <3> QED
      BY <1>5, <2>1, <3>3, <3>4 DEF TypeOK, Offer, Idle
  <2>2. CASE ~(state = "Open" /\ HasRoom)
    <3>1. PICK c \in {"Frame", "Overflow"} : Settle(c) /\ owner' = [at |-> "claiming", of |-> c]
      BY <1>5, <2>2 DEF Offer
    <3>2. c \in Closures
      BY DEF Closures, Protocol, Abrupt
    <3> QED
      BY <1>5, <3>1, <3>2, SettleType DEF TypeOK, Offer
  <2> QED
    BY <2>1, <2>2
<1>6. ASSUME AcceptTerminal PROVE TypeOK'
  BY <1>6 DEF TypeOK, AcceptTerminal, Idle
<1>7. ASSUME Claim PROVE TypeOK'
  <2>1. owner.of \in Closures
    BY <1>7 DEF TypeOK, Claim, Closures, Clean, Protocol, Abrupt
  <2> QED
    BY <1>7, <2>1, SettleType DEF TypeOK, Claim
<1>8. ASSUME NEW e \in Ends, StreamEnds(e) PROVE TypeOK'
  BY <1>8 DEF TypeOK, StreamEnds
<1>9. ASSUME Leave PROVE TypeOK'
  BY <1>9 DEF TypeOK, Leave
<1>10. ASSUME Finish PROVE TypeOK'
  BY <1>10, VerdictType DEF TypeOK, Finish
<1>11. ASSUME SettleEnd PROVE TypeOK'
  <2>1. owner.of \in Closures
    BY <1>11 DEF TypeOK, SettleEnd, Closures, Clean, Protocol, Abrupt
  <2> QED
    BY <1>11, <2>1, SettleType DEF TypeOK, SettleEnd
<1>12. ASSUME OwnerInterrupted PROVE TypeOK'
  BY <1>12 DEF TypeOK, OwnerInterrupted
<1>13. ASSUME NEW c \in Closers, Close(c) \/ OpeningInterrupted(c) PROVE TypeOK'
  <2>1. PICK d \in Clean : Settle(d)
    BY <1>13 DEF Close, OpeningInterrupted, Clean
  <2>2. d \in Closures
    BY DEF Closures
  <2> QED
    BY <1>13, <2>1, <2>2, SettleType DEF TypeOK, Close, OpeningInterrupted
<1>14. ASSUME NEW c \in Closers, InterruptOwner(c) \/ JoinOwner(c) PROVE TypeOK'
  BY <1>14 DEF TypeOK, InterruptOwner, JoinOwner
<1>15. ASSUME OpeningReturns PROVE TypeOK'
  BY <1>15 DEF TypeOK, OpeningReturns
<1>16. ASSUME Consume PROVE TypeOK'
  <2>1. Head(output) \in Items /\ Tail(output) \in Seq(Items)
        /\ Len(Tail(output)) <= Len(output)
    BY <1>16 DEF TypeOK, Consume
  <2>2. output' = Tail(output) /\ stream' = Append(stream, Head(output))
        /\ closure' = closure
    BY <1>16 DEF Consume
  <2>3. Len(output') <= IF closure' = "none" THEN Limit ELSE Limit + 1
    BY <2>1, <2>2, LimitAssumption DEF TypeOK
  <2> QED
    BY <1>16, <2>1, <2>2, <2>3 DEF TypeOK, Consume
<1> QED
  BY <1>1, <1>2, <1>3, <1>4, <1>5, <1>6, <1>7, <1>8, <1>9, <1>10, <1>11, <1>12,
     <1>13, <1>14, <1>15, <1>16 DEF Next, OwnerStep

-----------------------------------------------------------------------------
(* Control: the tag, the deferreds and what the owner has read.            *)

LEMMA ControlInit == Init => Control
BY DEF Init, Control, StateInv, OpeningSettled, OwnerInv, Ended, Idle, Closures, Clean,
       Protocol, Abrupt

\* A settlement finds the subscription closed and does nothing, or closes it.
LEMMA SettleEffect ==
  ASSUME TypeOK, StateInv, NEW c \in Closures, Settle(c)
  PROVE  \/ /\ state = "Closed" /\ UNCHANGED <<state, closure, opening, output>>
         \/ /\ state # "Closed" /\ closure = "none" /\ c # "none"
            /\ state' = "Closed" /\ closure' = c
            /\ opening' = IF state = "Opening" THEN "failed" ELSE opening
            /\ output' = Append(output, CloseTake(c))
<1>1. CASE state = "Closed"
  BY <1>1 DEF Settle, settled
<1>2. CASE state # "Closed"
  <2>1. closure = "none" /\ Len(output) <= Limit
    BY <1>2 DEF TypeOK, StateInv, Ended
  <2>2. c # "none"
    BY DEF Closures, Clean, Protocol, Abrupt
  <2> QED
    BY <1>2, <2>1, <2>2 DEF Settle, OfferUnsafe
<1> QED
  BY <1>1, <1>2

\* A settlement keeps the control part, when its closure fits the opening.
LEMMA SettleControl ==
  ASSUME TypeOK, Control, NEW c \in Closures, Settle(c), dispatched' = dispatched,
         c \in NeedsOpen => opening = "acknowledged"
  PROVE  /\ StateInv' /\ OpeningSettled'
         /\ state' = "Closed"
         /\ opening = "acknowledged" => opening' = "acknowledged"
         /\ closure' = closure \/ (state # "Closed" /\ closure' = c)
<1>1. CASE state = "Closed" /\ UNCHANGED <<state, closure, opening, output>>
  BY <1>1 DEF Control, StateInv, OpeningSettled, Ended
<1>2. CASE /\ state # "Closed" /\ closure = "none" /\ c # "none"
           /\ state' = "Closed" /\ closure' = c
           /\ opening' = IF state = "Opening" THEN "failed" ELSE opening
  <2>1. StateInv'
    BY <1>2 DEF TypeOK, Control, StateInv, Ended
  <2>2. opening = "acknowledged" => opening' = "acknowledged"
    BY <1>2 DEF Control, StateInv
  <2>3. OpeningSettled'
    BY <1>2, <2>2 DEF TypeOK, Control, StateInv, OpeningSettled, Ended, NeedsOpen
  <2> QED
    BY <1>2, <2>1, <2>2, <2>3
<1> QED
  BY <1>1, <1>2, SettleEffect DEF Control

LEMMA ControlStep == TypeOK /\ Control /\ [Next]_vars => Control'
<1> SUFFICES ASSUME TypeOK, Control, Next PROVE Control'
  BY DEF Control, StateInv, OpeningSettled, OwnerInv, Ended, vars
<1> USE DEF outside, settled, At, Goto, Control
<1>1. ASSUME NEW f \in Frames, ReceiveFrame(f) PROVE Control'
  <2>1. StateInv' /\ OpeningSettled'
    BY <1>1 DEF ReceiveFrame, StateInv, OpeningSettled, Ended
  <2>2. CASE state = "Closed" /\ UNCHANGED owner
    <3>1. UNCHANGED <<state, opening, closure>>
      BY <1>1 DEF ReceiveFrame
    <3> QED
      BY <2>1, <2>2, <3>1 DEF OwnerInv
  <2>3. CASE state # "Closed" /\ Fault(f) # "none"
    <3>1. owner' = [at |-> "claiming", of |-> Fault(f)]
      BY <1>1, <2>3 DEF ReceiveFrame
    <3>2. /\ Fault(f) # "Graceful"
          /\ state = "TerminalPending" => Fault(f) = "Frame"
          /\ Fault(f) \in NeedsOpen => opening = "acknowledged"
      BY <2>3 DEF Fault, NeedsOpen, TypeOK, StateInv, Ended, Closures, Clean, Protocol,
                  Abrupt
    <3>3. closure = "none" /\ UNCHANGED <<state, opening, closure>>
      BY <1>1, <2>3 DEF ReceiveFrame, TypeOK, StateInv, Ended
    <3> QED
      BY <2>1, <3>1, <3>2, <3>3 DEF OwnerInv
  <2>4. CASE state # "Closed" /\ Fault(f) = "none"
    <3>1. owner' = [at |-> Accepted(f), of |-> "none"]
      BY <1>1, <2>4 DEF ReceiveFrame
    <3>2. /\ state # "TerminalPending"
          /\ \/ Accepted(f) = "acknowledging"
             \/ Accepted(f) \in {"dispatching", "terminating"} /\ opening = "acknowledged"
      BY <2>4, AcceptedType DEF Fault, Accepted, Frames, TypeOK, StateInv, Ended
    <3>3. closure = "none" /\ UNCHANGED <<state, opening, closure>>
      BY <1>1, <2>4 DEF ReceiveFrame, TypeOK, StateInv, Ended
    <3> QED
      BY <2>1, <3>1, <3>2, <3>3 DEF OwnerInv
  <2> QED
    BY <1>1, <2>2, <2>3, <2>4 DEF ReceiveFrame
<1>2. ASSUME Acknowledge PROVE Control'
  BY <1>2 DEF Acknowledge, Idle, StateInv, OpeningSettled, OwnerInv, Ended, TypeOK
<1>3. ASSUME Dispatch PROVE Control'
  BY <1>3 DEF Dispatch, StateInv, OpeningSettled, OwnerInv, Ended
<1>4. ASSUME DispatchFails PROVE Control'
  BY <1>4 DEF DispatchFails, StateInv, OpeningSettled, OwnerInv, Ended
<1>5. ASSUME Offer PROVE Control'
  <2>1. CASE state = "Open" /\ HasRoom
    BY <1>5, <2>1 DEF Offer, Idle, StateInv, OpeningSettled, OwnerInv, Ended
  <2>2. CASE ~(state = "Open" /\ HasRoom)
    <3>1. PICK c \in {"Frame", "Overflow"} : Settle(c) /\ owner' = [at |-> "claiming", of |-> c]
      BY <1>5, <2>2 DEF Offer
    <3>2. c \in Closures /\ opening = "acknowledged" /\ dispatched' = dispatched
      BY <1>5 DEF Offer, OwnerInv, Closures, Protocol, Abrupt
    <3>3. /\ StateInv' /\ OpeningSettled' /\ state' = "Closed"
          /\ opening' = "acknowledged"
          /\ closure' = closure \/ closure' = c
      BY <3>1, <3>2, SettleControl
    <3>4. c # "Graceful"
      OBVIOUS
    <3> QED
      BY <1>5, <3>1, <3>3, <3>4 DEF OwnerInv, Offer
  <2> QED
    BY <2>1, <2>2
<1>6. ASSUME AcceptTerminal PROVE Control'
  BY <1>6 DEF AcceptTerminal, Idle, StateInv, OpeningSettled, OwnerInv, Ended
<1>7. ASSUME Claim PROVE Control'
  <2>1. owner.of \in Closures /\ owner.of # "Graceful" /\ dispatched' = dispatched
        /\ (owner.of \in NeedsOpen => opening = "acknowledged")
    BY <1>7 DEF TypeOK, Claim, OwnerInv, Closures, Clean, Protocol, Abrupt
  <2>2. StateInv' /\ OpeningSettled' /\ state' = "Closed"
    BY <1>7, <2>1, SettleControl DEF Claim
  <2> QED
    BY <1>7, <2>2 DEF Claim, OwnerInv
<1>8. ASSUME NEW e \in Ends, StreamEnds(e) PROVE Control'
  BY <1>8 DEF StreamEnds, StateInv, OpeningSettled, OwnerInv, Ended
<1>9. ASSUME Leave PROVE Control'
  BY <1>9 DEF Leave, StateInv, OpeningSettled, OwnerInv, Ended
<1>10. ASSUME Finish PROVE Control'
  <2>1. StateInv' /\ OpeningSettled' /\ UNCHANGED <<state, opening, closure>>
    BY <1>10 DEF Finish, StateInv, OpeningSettled, Ended
  <2>2. CASE state = "Closed"
    BY <1>10, <2>1, <2>2 DEF Finish, OwnerInv
  <2>3. CASE state # "Closed"
    <3>1. owner' = [at |-> "settling", of |-> Verdict(owner.of)]
      BY <1>10, <2>3 DEF Finish
    <3>2. /\ state = "TerminalPending" <=> Verdict(owner.of) = "Graceful"
          /\ Verdict(owner.of) \in NeedsOpen => state # "Opening"
      BY VerdictOf
    <3>5. Verdict(owner.of) \in NeedsOpen => opening = "acknowledged"
      BY <2>3, <3>2 DEF TypeOK, StateInv, Ended
    <3>3. closure # "Graceful"
      BY <2>3 DEF TypeOK, StateInv, Ended
    <3> QED
      BY <2>1, <3>1, <3>2, <3>3, <3>5 DEF OwnerInv
  <2> QED
    BY <2>2, <2>3
<1>11. ASSUME SettleEnd PROVE Control'
  <2>1. owner.of \in Closures /\ dispatched' = dispatched
        /\ (owner.of \in NeedsOpen => opening = "acknowledged")
    BY <1>11 DEF TypeOK, SettleEnd, OwnerInv, Closures, Clean, Protocol, Abrupt
  <2>2. StateInv' /\ OpeningSettled' /\ state' = "Closed"
    BY <1>11, <2>1, SettleControl DEF SettleEnd
  <2> QED
    BY <1>11, <2>2 DEF SettleEnd, OwnerInv
<1>12. ASSUME OwnerInterrupted PROVE Control'
  BY <1>12 DEF OwnerInterrupted, StateInv, OpeningSettled, OwnerInv, Ended
<1>13. ASSUME NEW c \in Closers, Close(c) \/ OpeningInterrupted(c) PROVE Control'
  <2>1. PICK d \in Clean : Settle(d) /\ d = IF state = "TerminalPending" THEN "Graceful" ELSE "CallerClosed"
    BY <1>13 DEF Close, OpeningInterrupted, Clean
  <2>2. d \in Closures /\ dispatched' = dispatched /\ UNCHANGED owner
    BY <1>13 DEF Close, OpeningInterrupted, Closures
  <2>3. d \in NeedsOpen => state = "TerminalPending"
    BY <2>1 DEF NeedsOpen
  <2>4. state = "TerminalPending" => opening = "acknowledged"
    BY DEF TypeOK, StateInv, Ended
  <2>5. /\ StateInv' /\ OpeningSettled' /\ state' = "Closed"
        /\ (opening = "acknowledged" => opening' = "acknowledged")
        /\ closure' = closure \/ (state # "Closed" /\ closure' = d)
    BY <2>1, <2>2, <2>3, <2>4, SettleControl
  <2> QED
    BY <2>1, <2>2, <2>5 DEF OwnerInv
<1>14. ASSUME NEW c \in Closers, InterruptOwner(c) \/ JoinOwner(c) PROVE Control'
  BY <1>14 DEF InterruptOwner, JoinOwner, StateInv, OpeningSettled, OwnerInv, Ended
<1>15. ASSUME OpeningReturns PROVE Control'
  BY <1>15 DEF OpeningReturns, StateInv, OpeningSettled, OwnerInv, Ended
<1>16. ASSUME Consume PROVE Control'
  BY <1>16 DEF Consume, StateInv, OpeningSettled, OwnerInv, Ended
<1> QED
  BY <1>1, <1>2, <1>3, <1>4, <1>5, <1>6, <1>7, <1>8, <1>9, <1>10, <1>11, <1>12,
     <1>13, <1>14, <1>15, <1>16 DEF Next, OwnerStep

-----------------------------------------------------------------------------
(* The queue.                                                              *)

LEMMA ConcatAppend ==
  ASSUME NEW S, NEW s \in Seq(S), NEW t \in Seq(S), NEW x \in S
  PROVE  s \o Append(t, x) = Append(s \o t, x)
OBVIOUS

LEMMA ConcatTake ==
  ASSUME NEW S, NEW s \in Seq(S), NEW t \in Seq(S), t # <<>>
  PROVE  Append(s, Head(t)) \o Tail(t) = s \o t
OBVIOUS

LEMMA AppendFront ==
  ASSUME NEW S, NEW s \in Seq(S), NEW x \in S
  PROVE  SubSeq(Append(s, x), 1, Len(Append(s, x)) - 1) = s
OBVIOUS

\* A settlement leaves the notifications alone, ends an open stream with the
\* closing item and changes nothing in a closed one.
LEMMA SettleQueue ==
  ASSUME TypeOK, StateInv, NEW c \in Closures, Settle(c), stream' = stream
  PROVE  /\ Notes' = Notes
         /\ Ended'
         /\ Ended => closure' = closure /\ Delivered' = Delivered
         /\ ~Ended => closure' = c /\ Delivered' = Append(Notes, CloseTake(c))
<1>1. CASE state = "Closed" /\ UNCHANGED <<state, closure, opening, output>>
  BY <1>1 DEF Notes, Delivered, Ended, StateInv
<1>2. CASE /\ state # "Closed" /\ closure = "none" /\ c # "none"
           /\ closure' = c /\ output' = Append(output, CloseTake(c))
  <2>1. output \in Seq(Items) /\ stream \in Seq(Items) /\ CloseTake(c) \in Items
    BY ItemTypes DEF TypeOK
  <2>2. Delivered' = Append(Delivered, CloseTake(c)) /\ Delivered \in Seq(Items)
    BY <1>2, <2>1, ConcatAppend DEF Delivered
  <2>3. ~Ended /\ Ended' /\ Notes = Delivered
    BY <1>2 DEF Ended, Notes
  <2>4. Notes' = SubSeq(Delivered', 1, Len(Delivered') - 1)
    BY <2>3 DEF Notes
  <2>5. Notes' = Delivered
    BY <2>1, <2>2, <2>4, AppendFront
  <2> QED
    BY <1>2, <2>2, <2>3, <2>5
<1> QED
  BY <1>1, <1>2, SettleEffect

\* Every section that settles does it for some closure and leaves the rest alone.
LEMMA Settlers ==
  ASSUME TypeOK, Control,
         \/ Offer /\ ~(state = "Open" /\ HasRoom)
         \/ Claim \/ SettleEnd
         \/ \E c \in Closers : Close(c) \/ OpeningInterrupted(c)
  PROVE  /\ \E c \in Closures : Settle(c) /\ (c = "Graceful" => state \in {"TerminalPending", "Closed"})
         /\ UNCHANGED <<stream, dispatched, frames, interrupted>>
<1> USE DEF outside, At, Goto
<1>1. CASE Offer /\ ~(state = "Open" /\ HasRoom)
  <2>1. PICK c \in {"Frame", "Overflow"} : Settle(c)
    BY <1>1 DEF Offer
  <2>2. c \in Closures /\ c # "Graceful"
    BY DEF Closures, Protocol, Abrupt
  <2> QED
    BY <1>1, <2>1, <2>2 DEF Offer
<1>2. CASE Claim
  <2>1. owner.of \in Closures /\ owner.of # "Graceful"
    BY <1>2 DEF TypeOK, Claim, Control, OwnerInv, Closures, Clean, Protocol, Abrupt
  <2> QED
    BY <1>2, <2>1 DEF Claim
<1>3. CASE SettleEnd
  <2>1. owner.of \in Closures /\ (owner.of = "Graceful" => state \in {"TerminalPending", "Closed"})
    BY <1>3 DEF TypeOK, SettleEnd, Control, OwnerInv, Closures, Clean, Protocol, Abrupt
  <2> QED
    BY <1>3, <2>1 DEF SettleEnd
<1>4. ASSUME NEW c \in Closers, Close(c) \/ OpeningInterrupted(c)
      PROVE  /\ \E d \in Closures : Settle(d) /\ (d = "Graceful" => state \in {"TerminalPending", "Closed"})
             /\ UNCHANGED <<stream, dispatched, frames, interrupted>>
  <2>1. PICK d \in Clean : Settle(d) /\ (d = "Graceful" => state = "TerminalPending")
    BY <1>4 DEF Close, OpeningInterrupted, Clean
  <2>2. d \in Closures
    BY DEF Closures
  <2> QED
    BY <1>4, <2>1, <2>2 DEF Close, OpeningInterrupted
<1> QED
  BY <1>1, <1>2, <1>3, <1>4

\* A pending terminal is closed gracefully, or by the owner for a frame after it.
LEMMA TerminalStep ==
  ASSUME TypeOK, Control, [Next]_vars, state = "TerminalPending", state' = "Closed"
  PROVE  closure' \in {"Graceful", "Frame"}
<1> USE DEF outside, settled, At, Goto
<1>1. CASE Claim
  <2>1. Settle("Frame") /\ "Frame" \in Closures
    BY <1>1 DEF Claim, Control, OwnerInv, Closures, Protocol
  <2> QED
    BY <2>1, SettleEffect DEF Control
<1>2. CASE SettleEnd
  <2>1. Settle("Graceful") /\ "Graceful" \in Closures
    BY <1>2 DEF SettleEnd, Control, OwnerInv, Closures, Clean
  <2> QED
    BY <2>1, SettleEffect DEF Control
<1>3. CASE \E c \in Closers : Close(c) \/ OpeningInterrupted(c)
  <2>1. Settle("Graceful") /\ "Graceful" \in Closures
    BY <1>3 DEF Close, OpeningInterrupted, Closures, Clean
  <2> QED
    BY <2>1, SettleEffect DEF Control
<1>4. ~Offer
  BY DEF Offer, Control, OwnerInv
<1> QED
  BY <1>1, <1>2, <1>3, <1>4 DEF Next, OwnerStep, vars, Acknowledge, Dispatch,
     DispatchFails, AcceptTerminal, Leave, Finish, OwnerInterrupted, OpeningReturns,
     ReceiveFrame, StreamEnds, InterruptOwner, JoinOwner, Consume

\* Nothing that has ended for the caller changes any more.
LEMMA EndedStays ==
  ASSUME TypeOK, Control, [Next]_vars, Ended
  PROVE  closure' = closure /\ Delivered' = Delivered
<1> SUFFICES ASSUME Next PROVE closure' = closure /\ Delivered' = Delivered
  BY DEF vars, Delivered
<1> USE DEF outside, settled
<1>0. state = "Closed"
  BY DEF Control, StateInv
<1>1. CASE \/ Acknowledge \/ Dispatch \/ DispatchFails \/ AcceptTerminal \/ Leave \/ Finish
           \/ OwnerInterrupted \/ OpeningReturns
           \/ \E f \in Frames : ReceiveFrame(f)
           \/ \E e \in Ends : StreamEnds(e)
           \/ \E c \in Closers : InterruptOwner(c) \/ JoinOwner(c)
  BY <1>1 DEF Acknowledge, Dispatch, DispatchFails, AcceptTerminal, Leave, Finish,
              OwnerInterrupted, OpeningReturns, ReceiveFrame, StreamEnds, InterruptOwner,
              JoinOwner, Delivered
<1>2. CASE Consume
  BY <1>2, ConcatTake DEF Consume, Delivered, TypeOK
<1>3. CASE \/ Offer /\ ~(state = "Open" /\ HasRoom)
           \/ Claim \/ SettleEnd
           \/ \E c \in Closers : Close(c) \/ OpeningInterrupted(c)
  BY <1>3, Settlers, SettleQueue DEF Control
<1> QED
  BY <1>0, <1>1, <1>2, <1>3 DEF Next, OwnerStep

LEMMA CloserStep == TypeOK /\ Control /\ CloserInv /\ [Next]_vars /\ Control' => CloserInv'
<1> SUFFICES ASSUME TypeOK, Control, CloserInv, Next, Control' PROVE CloserInv'
  BY DEF CloserInv, Ended, vars
<1> USE DEF outside, settled
<1>1. Ended => Ended'
  BY EndedStays DEF Ended
<1>2. CASE UNCHANGED <<interrupted, closer>>
  BY <1>1, <1>2 DEF CloserInv
<1>3. ASSUME NEW c \in Closers, InterruptOwner(c) \/ JoinOwner(c) PROVE CloserInv'
  <2>1. Ended
    BY <1>3 DEF InterruptOwner, JoinOwner, CloserInv
  <2> QED
    BY <1>1, <2>1 DEF CloserInv
<1>4. ASSUME NEW c \in Closers, Close(c) \/ OpeningInterrupted(c) PROVE CloserInv'
  <2>1. PICK d \in Clean : Settle(d) /\ UNCHANGED stream
    BY <1>4 DEF Close, OpeningInterrupted, Clean
  <2>2. Ended'
    BY <2>1, SettleQueue DEF Control, Closures
  <2> QED
    BY <2>2 DEF CloserInv
<1> QED
  BY <1>2, <1>3, <1>4 DEF Next, OwnerStep, Acknowledge, Dispatch, DispatchFails,
     AcceptTerminal, Leave, Finish, OwnerInterrupted, OpeningReturns, ReceiveFrame,
     StreamEnds, Offer, Claim, SettleEnd, Consume

LEMMA QueueInit == Init => QueueInv
<1> SUFFICES ASSUME Init PROVE QueueInv
  OBVIOUS
<1>1. ~Ended /\ Delivered = <<>> /\ Notes = <<>> /\ dispatched = <<>>
  BY DEF Init, Ended, Delivered, Notes
<1> QED
  BY <1>1 DEF Init, QueueInv, At, Idle, Ended

LEMMA QueueStep == TypeOK /\ Inv /\ [Next]_vars => QueueInv'
<1> SUFFICES ASSUME TypeOK, Inv, [Next]_vars PROVE QueueInv'
  OBVIOUS
<1> USE DEF Inv
<1>0. CASE UNCHANGED vars
  BY <1>0 DEF QueueInv, Notes, Delivered, Ended, At, vars
\* Steps of the owner that move no notification, and of the closers.
<1>1. ASSUME UNCHANGED <<closure, dispatched>>, Delivered' = Delivered,
             At("offering") => Ended \/ (At("offering")' /\ frames' = frames),
             At("offering")' => At("offering"),
             At("dispatching")' => At("dispatching") \/ (~Ended /\ ~At("offering"))
      PROVE  QueueInv'
  <2>1. Notes' = Notes /\ Ended' = Ended
    BY <1>1 DEF Notes, Ended
  <2> QED
    BY <1>1, <2>1 DEF QueueInv, Note
<1>2. CASE Dispatch
  <2>1. /\ dispatched' = Append(dispatched, Note(frames)) /\ Note(frames) \in Items
        /\ UNCHANGED <<settled, outside, frames>> /\ At("dispatching") /\ At("offering")'
        /\ ~At("dispatching")'
    BY <1>2, ItemTypes DEF Dispatch, At, Goto, TypeOK
  <2>2. Notes' = Notes /\ Delivered' = Delivered /\ Ended' = Ended /\ closure' = closure
    BY <2>1 DEF Notes, Delivered, Ended, settled, outside
  <2>3. Notes = dispatched /\ closure # "Graceful"
    BY <2>1 DEF QueueInv, Control, OwnerInv, At
  <2>4. \A k \in 1..Len(dispatched') : IsNote(dispatched'[k])
    <3>1. dispatched \in Seq(Items) /\ IsNote(Note(frames))
      BY DEF TypeOK, IsNote, Note
    <3>2. \A k \in 1..Len(dispatched) : IsNote(dispatched[k])
      BY DEF QueueInv
    <3> QED
      BY <2>1, <3>1, <3>2
  <2>5. dispatched' = Append(Notes', Note(frames)')
    BY <2>1, <2>2, <2>3 DEF Note
  <2> QED
    BY <2>1, <2>2, <2>3, <2>4, <2>5 DEF QueueInv
<1>3. CASE Offer /\ state = "Open" /\ HasRoom
  <2>1. ~Ended /\ ~Ended' /\ closure' = closure
    BY <1>3 DEF Offer, Control, StateInv, Ended
  <2>2. /\ output' = Append(output, Note(frames)) /\ stream' = stream
        /\ dispatched' = dispatched /\ At("offering") /\ owner' = Idle
    BY <1>3, LimitAssumption DEF Offer, OfferUnsafe, HasRoom, TypeOK, outside
  <2>3. Delivered' = Append(Delivered, Note(frames))
    BY <2>2, ConcatAppend, ItemTypes DEF Delivered, TypeOK
  <2>4. Notes' = Delivered' /\ Notes = Delivered
    BY <2>1 DEF Notes
  <2>5. dispatched = Append(Notes, Note(frames))
    BY <2>1, <2>2 DEF QueueInv
  <2>6. Notes' = dispatched'
    BY <2>2, <2>3, <2>4, <2>5
  <2>7. dispatched' \in Seq(Items)
    BY <2>2 DEF TypeOK
  <2>8. ~At("offering")' /\ ~At("dispatching")'
    BY <2>2 DEF At, Idle
  <2> QED
    BY <2>1, <2>2, <2>6, <2>7, <2>8 DEF QueueInv
<1>4. CASE \/ Offer /\ ~(state = "Open" /\ HasRoom)
           \/ Claim \/ SettleEnd
           \/ \E c \in Closers : Close(c) \/ OpeningInterrupted(c)
  <2>1. PICK c \in Closures : Settle(c) /\ (c = "Graceful" => state \in {"TerminalPending", "Closed"})
    BY <1>4, Settlers
  <2>2. UNCHANGED <<stream, dispatched>>
    BY <1>4, Settlers
  <2>3. /\ Notes' = Notes /\ Ended'
        /\ Ended => closure' = closure /\ Delivered' = Delivered
        /\ ~Ended => closure' = c /\ Delivered' = Append(Notes, CloseTake(c))
    BY <2>1, <2>2, SettleQueue DEF Control
  <2>4. At("dispatching")' => At("dispatching")
    BY <1>4 DEF At, Goto, Offer, Claim, SettleEnd, Close, OpeningInterrupted
  <2>5. Delivered' = Append(Notes', CloseTake(closure)')
    BY <2>3 DEF QueueInv, CloseTake
  <2>6. closure' = "Graceful" => Notes' = dispatched'
    <3>1. CASE Ended
      BY <2>2, <2>3, <3>1 DEF QueueInv
    <3>2. CASE ~Ended /\ c = "Graceful"
      <4>1. state = "TerminalPending"
        BY <2>1, <3>2 DEF Control, StateInv
      <4> QED
        BY <2>2, <2>3, <3>2, <4>1 DEF QueueInv, Control, OwnerInv, At
    <3> QED
      BY <2>3, <3>1, <3>2
  <2> QED
    BY <2>2, <2>3, <2>4, <2>5, <2>6 DEF QueueInv
<1>5. CASE OwnerInterrupted
  BY <1>1, <1>5 DEF OwnerInterrupted, CloserInv, At, Goto, settled, outside, Delivered
<1>6. CASE \E f \in Frames : ReceiveFrame(f)
  <2>1. At("pulling") /\ UNCHANGED <<settled, outside, dispatched>>
    BY <1>6 DEF ReceiveFrame
  <2>2. UNCHANGED owner \/ (state # "Closed" /\ owner'.at # "offering")
    BY <1>6, AcceptedType DEF ReceiveFrame, Goto
  <2> QED
    BY <1>1, <2>1, <2>2 DEF At, settled, outside, Delivered, Control, StateInv
<1>7. CASE Consume
  <2>1. Delivered' = Delivered
    BY <1>7, ConcatTake DEF Consume, Delivered, TypeOK
  <2> QED
    BY <1>1, <1>7, <2>1 DEF Consume, At
<1>8. CASE \/ Acknowledge \/ DispatchFails \/ AcceptTerminal \/ Leave \/ Finish
           \/ OpeningReturns \/ \E e \in Ends : StreamEnds(e)
           \/ \E c \in Closers : InterruptOwner(c) \/ JoinOwner(c)
  <2>1. UNCHANGED <<closure, dispatched, output, stream>> /\ (owner' = owner \/ ~At("offering"))
        /\ frames' = frames
    BY <1>8 DEF Acknowledge, DispatchFails, AcceptTerminal, Leave, Finish, StreamEnds, At,
       OpeningReturns, InterruptOwner, JoinOwner, settled, outside
  <2>2. owner' = owner \/ owner'.at \notin {"dispatching", "offering"}
    BY <1>8 DEF Acknowledge, DispatchFails, AcceptTerminal, Leave, Finish, StreamEnds,
       OpeningReturns, InterruptOwner, JoinOwner, Goto, Idle
  <2> QED
    BY <1>1, <2>1, <2>2 DEF At, Delivered
<1> QED
  BY <1>0, <1>2, <1>3, <1>4, <1>5, <1>6, <1>7, <1>8 DEF Next, OwnerStep

-----------------------------------------------------------------------------
(* The theorems.                                                           *)

LEMMA InvInit == Init => Inv
BY ControlInit, QueueInit DEF Inv, CloserInv, Init

LEMMA InvStep == TypeOK /\ Inv /\ [Next]_vars => (TypeOK /\ Inv)'
BY TypeOKStep, ControlStep, CloserStep, QueueStep DEF Inv, Control

\* What the queue's invariant says of the items the consumer is given.
LEMMA Prefix ==
  ASSUME NEW S, NEW s \in Seq(S), NEW x \in S, NEW t,
         t = s \/ t = Append(s, x)
  PROVE  s = SubSeq(t, 1, Len(s)) /\ Len(t) - Len(s) \in {0, 1}
         /\ \A k \in 1..Len(s) : s[k] = t[k] /\ k \in 1..Len(t)
OBVIOUS

LEMMA NotesArePrefix ==
  ASSUME TypeOK, Inv
  PROVE  /\ Notes = SubSeq(dispatched, 1, Len(Notes))
         /\ Len(dispatched) - Len(Notes) \in {0, 1}
         /\ \A k \in 1..Len(Notes) : IsNote(Notes[k])
<1>1. PICK x \in Items : dispatched = Notes \/ dispatched = Append(Notes, x)
  <2>1. Note(0) \in Items
    BY ItemTypes
  <2> QED
    BY <2>1 DEF Inv, QueueInv
<1>2. /\ Notes = SubSeq(dispatched, 1, Len(Notes))
      /\ Len(dispatched) - Len(Notes) \in {0, 1}
      /\ \A k \in 1..Len(Notes) : Notes[k] = dispatched[k] /\ k \in 1..Len(dispatched)
  <2>1. Notes \in Seq(Items)
    BY DEF Inv, QueueInv
  <2> QED
    BY <1>1, <2>1, Prefix
<1> QED
  BY <1>2 DEF Inv, QueueInv

LEMMA EndsAsItClosedFollows == TypeOK /\ Inv => EndsAsItClosed
<1> SUFFICES ASSUME TypeOK, Inv PROVE EndsAsItClosed
  OBVIOUS
<1>1. Notes \in Seq(Items) /\ \A k \in 1..Len(Notes) : IsNote(Notes[k])
  BY NotesArePrefix DEF Inv, QueueInv
<1>2. CASE Ended
  <2>1. /\ Delivered = Append(Notes, CloseTake(closure)) /\ ~IsNote(CloseTake(closure))
        /\ CloseTake(closure) \in Items
    BY <1>2, ItemTypes DEF Inv, QueueInv, IsNote, CloseTake
  <2>2. /\ Len(Delivered) = Len(Notes) + 1 /\ Len(Notes) \in Nat
        /\ Delivered[Len(Delivered)] = CloseTake(closure)
        /\ \A k \in 1..Len(Notes) : Delivered[k] = Notes[k]
    BY <1>1, <2>1
  <2> QED
    BY <1>1, <1>2, <2>1, <2>2 DEF EndsAsItClosed
<1>3. CASE ~Ended
  <2>1. Delivered = Notes
    BY <1>3 DEF Notes
  <2>2. Len(Notes) \in Nat
    BY <1>1
  <2> QED
    BY <1>1, <1>3, <2>1, <2>2 DEF EndsAsItClosed
<1> QED
  BY <1>2, <1>3

LEMMA NothingSkippedFollows == TypeOK /\ Inv => NothingSkipped
BY NotesArePrefix DEF NothingSkipped, Inv, QueueInv

\* The inductive invariant holds in every reachable state.
THEOREM Invariance == Spec => [](TypeOK /\ Inv)
<1>1. Init => TypeOK /\ Inv
  BY TypeOKInit, InvInit
<1>2. TypeOK /\ Inv /\ [Next]_vars => (TypeOK /\ Inv)'
  BY InvStep
<1> QED
  BY <1>1, <1>2, PTL DEF Spec

\* Every value the queue, the streams and the fibers hold has its type; the queue
\* holds at most Limit notifications and, once closed, the closing item.
THEOREM TypeCorrect == Spec => []TypeOK
BY Invariance, PTL

\* The consumer's stream ends with exactly one closing item, of the closure's kind,
\* and with none while the subscription lives.
THEOREM StreamEndsAsItClosed == Spec => []EndsAsItClosed
BY Invariance, EndsAsItClosedFollows, PTL

\* The consumer is given the dispatched notifications in order, without a gap.
THEOREM NoNotificationSkipped == Spec => []NothingSkipped
BY Invariance, NothingSkippedFollows, PTL

\* The opening is settled by an acknowledgement or by the closure.
THEOREM OpeningIsSettled == Spec => []OpeningSettled
<1>1. Inv => OpeningSettled
  BY DEF Inv, Control
<1> QED
  BY <1>1, Invariance, PTL

\* Nothing changes the closure or what is delivered once the subscription has ended.
THEOREM FirstClosureStands == Spec => FirstClosureWins
<1>1. TypeOK /\ Inv /\ [Next]_vars
        => [Ended => closure' = closure /\ Delivered' = Delivered]_vars
  BY EndedStays DEF Inv
<1> QED
  BY <1>1, Invariance, PTL DEF Spec, FirstClosureWins

\* A terminal answer is lost neither to a close nor to a failing transport.
THEOREM TerminalStands == Spec => TerminalIsKept
<1>1. TypeOK /\ Inv /\ [Next]_vars
        => [state = "TerminalPending" /\ state' = "Closed"
              => closure' \in {"Graceful", "Frame"}]_vars
  BY TerminalStep DEF Inv
<1> QED
  BY <1>1, Invariance, PTL DEF Spec, TerminalIsKept

-----------------------------------------------------------------------------
(* Nobody is stuck.  ENABLED and fairness are out of the prover's reach;   *)
(* the steps FairSpec is fair to are described by their guards.            *)

\* Some step of the owner, of a closer or of the opener can be taken.
CanGoOn ==
  \/ ~At("pulling") /\ ~At("ended")
  \/ interrupted /\ ~At("ended")
  \/ \E c \in Closers : closer[c] = "settled" \/ (closer[c] = "joining" /\ At("ended"))
  \/ opener = "awaiting" /\ opening # "pending"

\* An owner does not end before it or a closer has settled the subscription, and who
\* joins it has interrupted it.
JoinInv ==
  /\ At("ended") => Ended
  /\ \A c \in Closers : closer[c] \in {"joining", "done"} => interrupted

LEMMA JoinStep ==
  ASSUME TypeOK, Inv, JoinInv, [Next]_vars, TypeOK', Inv'
  PROVE  JoinInv'
<1> USE DEF At, Goto, outside, settled
<1>1. Ended => Ended'
  <2>1. Ended => closure' = closure
    BY EndedStays DEF Inv
  <2> QED
    BY <2>1 DEF Ended
<1>2. At("ended")' => Ended'
  <2>1. CASE At("ended")
    BY <1>1, <2>1 DEF JoinInv
  <2>2. CASE ~At("ended")
    <3>1. ASSUME At("ended")' PROVE Finish \/ SettleEnd \/ OwnerInterrupted
      <4>1. \A f \in Frames : ~ReceiveFrame(f)
        BY <2>2, <3>1, AcceptedType DEF ReceiveFrame
      <4>2. ~(Acknowledge \/ Dispatch \/ DispatchFails \/ Offer \/ AcceptTerminal \/ Claim
              \/ Leave)
        BY <3>1 DEF Acknowledge, Dispatch, DispatchFails, Offer, AcceptTerminal, Claim, Leave,
           Idle
      <4>3. \A e \in Ends : ~StreamEnds(e)
        BY <3>1 DEF StreamEnds
      <4>4. owner' # owner
        BY <2>2, <3>1
      <4> QED
        BY <4>1, <4>2, <4>3, <4>4 DEF Next, OwnerStep, Close, InterruptOwner, JoinOwner,
           OpeningInterrupted, OpeningReturns, Consume, vars
    <3>2. CASE Finish
      <4>1. At("ended")' => Ended
        BY <3>2 DEF Finish, Inv, Control, StateInv
      <4> QED
        BY <1>1, <4>1
    <3>3. CASE SettleEnd
      <4>1. state' = "Closed"
        BY <3>3 DEF SettleEnd, Settle
      <4> QED
        BY <4>1 DEF Inv, Control, StateInv
    <3>4. CASE OwnerInterrupted
      BY <1>1, <3>4 DEF OwnerInterrupted, Inv, CloserInv
    <3> QED
      BY <3>1, <3>2, <3>3, <3>4
  <2> QED
    BY <2>1, <2>2
<1>3. ASSUME NEW c \in Closers, closer'[c] \in {"joining", "done"}
      PROVE  interrupted'
  <2>1. interrupted => interrupted'
    BY DEF Next, OwnerStep, Acknowledge, Dispatch, DispatchFails, Offer, AcceptTerminal,
       Claim, Leave, Finish, SettleEnd, OwnerInterrupted, ReceiveFrame, StreamEnds, Close,
       InterruptOwner, JoinOwner, OpeningInterrupted, OpeningReturns, Consume, vars
  <2>2. CASE \E d \in Closers : InterruptOwner(d)
    BY <2>2 DEF InterruptOwner
  <2>3. CASE ~\E d \in Closers : InterruptOwner(d)
    <3>1. closer[c] \in {"joining", "done"}
      BY <1>3, <2>3 DEF TypeOK, Next, OwnerStep, Acknowledge, Dispatch, DispatchFails, Offer,
         AcceptTerminal, Claim, Leave, Finish, SettleEnd, OwnerInterrupted, ReceiveFrame,
         StreamEnds, Close, JoinOwner, OpeningInterrupted, OpeningReturns, Consume, vars
    <3> QED
      BY <2>1, <3>1 DEF JoinInv
  <2> QED
    BY <2>2, <2>3
<1> QED
  BY <1>2, <1>3 DEF JoinInv

\* The safety half of CloseReturns and EndReaches: when nothing can go on by itself, no
\* close is under way, the owner waits for the transport or has ended, the subscription
\* with it, and no call still waits for the opening of a subscription that is over.
THEOREM NobodyStuck ==
  Spec => [](CanGoOn \/ /\ \A c \in Closers : closer[c] \in {"idle", "done"}
                        /\ At("pulling") \/ (At("ended") /\ Ended)
                        /\ Ended => opener # "awaiting")
<1>1. Init => JoinInv
  BY DEF Init, JoinInv, At, Idle
<1>2. Spec => []JoinInv
  <2>1. TypeOK /\ Inv /\ JoinInv /\ [Next]_vars /\ (TypeOK /\ Inv)' => JoinInv'
    BY JoinStep
  <2> QED
    BY <1>1, <2>1, Invariance, PTL DEF Spec
<1>3. ASSUME TypeOK, Inv, JoinInv, ~CanGoOn
      PROVE  /\ \A c \in Closers : closer[c] \in {"idle", "done"}
             /\ At("pulling") \/ (At("ended") /\ Ended)
             /\ Ended => opener # "awaiting"
  <2>1. \A c \in Closers : closer[c] \in {"idle", "done"}
    <3>1. \A c \in Closers : closer[c] \in {"idle", "settled", "joining", "done"}
      BY <1>3 DEF TypeOK
    <3>2. \A c \in Closers : closer[c] # "joining"
      <4> SUFFICES ASSUME NEW c \in Closers, closer[c] = "joining"
                   PROVE  FALSE
        OBVIOUS
      <4>1. interrupted
        BY <1>3 DEF JoinInv
      <4>2. At("ended")
        BY <1>3, <4>1, Zenon DEF CanGoOn
      <4> QED
        BY <1>3, <4>2 DEF CanGoOn
    <3>3. \A c \in Closers : closer[c] # "settled"
      BY <1>3, Zenon DEF CanGoOn
    <3> QED
      BY <3>1, <3>2, <3>3
  <2>2. At("pulling") \/ (At("ended") /\ Ended)
    BY <1>3 DEF CanGoOn, JoinInv
  <2>3. Ended => opener # "awaiting"
    BY <1>3 DEF CanGoOn, Inv, Control, OpeningSettled
  <2> QED
    BY <2>1, <2>2, <2>3
<1>4. TypeOK /\ Inv /\ JoinInv =>
        (CanGoOn \/ /\ \A c \in Closers : closer[c] \in {"idle", "done"}
                    /\ At("pulling") \/ (At("ended") /\ Ended)
                    /\ Ended => opener # "awaiting")
  BY <1>3
<1> QED
  BY <1>2, <1>4, Invariance, PTL

\* What the owner has left to do before it waits for the transport again.
OwnerWork ==
  CASE owner.at = "dispatching" -> 6
    [] owner.at = "offering" -> 5
    [] owner.at \in {"claiming", "acknowledging", "terminating"} -> 4
    [] owner.at = "leaving" -> 3
    [] owner.at = "finishing" -> 2
    [] owner.at \in {"settling", "pulling"} -> 1
    [] OTHER -> 0

CloserWork(c) == CASE closer[c] = "settled" -> 2 [] closer[c] = "joining" -> 1 [] OTHER -> 0

\* What goes on by itself comes to an end: a step of the owner lowers its own work and
\* leaves the closers alone, one of a closer lowers the work of this closer and leaves
\* all others, and the opener returns once.
THEOREM WorkEnds ==
  Spec => [][/\ OwnerStep => OwnerWork' < OwnerWork /\ UNCHANGED <<closer, opener>>
             /\ \A c \in Closers : InterruptOwner(c) \/ JoinOwner(c) =>
                  /\ CloserWork(c)' < CloserWork(c) /\ UNCHANGED <<owner, opener>>
                  /\ \A d \in Closers \ {c} : closer'[d] = closer[d]
             /\ OpeningReturns => opener = "awaiting" /\ opener' # "awaiting"
                                  /\ UNCHANGED <<owner, closer>>]_vars
<1> USE DEF At, Goto, outside, settled
<1>1. ASSUME TypeOK, OwnerStep
      PROVE  OwnerWork' < OwnerWork /\ UNCHANGED <<closer, opener>>
  <2>1. UNCHANGED <<closer, opener>>
    BY <1>1 DEF OwnerStep, Acknowledge, Dispatch, DispatchFails, Offer, AcceptTerminal,
       Claim, Leave, Finish, SettleEnd, OwnerInterrupted
  <2>2. \/ owner.at = "dispatching" /\ owner'.at \in {"offering", "claiming"}
        \/ owner.at = "offering" /\ owner'.at \in {"pulling", "claiming"}
        \/ owner.at \in {"acknowledging", "terminating"} /\ owner'.at = "pulling"
        \/ owner.at = "claiming" /\ owner'.at = "leaving"
        \/ owner.at = "leaving" /\ owner'.at = "finishing"
        \/ owner.at = "finishing" /\ owner'.at \in {"ended", "settling"}
        \/ owner.at # "ended" /\ owner'.at = "ended"
    BY <1>1 DEF OwnerStep, Acknowledge, Dispatch, DispatchFails, Offer, AcceptTerminal,
       Claim, Leave, Finish, SettleEnd, OwnerInterrupted, Idle
  <2>3. owner.at \in {"pulling", "acknowledging", "dispatching", "offering", "terminating",
                      "ended", "claiming", "settling", "leaving", "finishing"}
    BY <1>1 DEF TypeOK
  <2> QED
    BY <2>1, <2>2, <2>3 DEF OwnerWork
<1>2. TypeOK => \A c \in Closers : InterruptOwner(c) \/ JoinOwner(c) =>
                  /\ CloserWork(c)' < CloserWork(c) /\ UNCHANGED <<owner, opener>>
                  /\ \A d \in Closers \ {c} : closer'[d] = closer[d]
  BY DEF TypeOK, InterruptOwner, JoinOwner, CloserWork
<1>3. OpeningReturns => opener = "awaiting" /\ opener' # "awaiting"
                        /\ UNCHANGED <<owner, closer>>
  BY DEF OpeningReturns
<1> QED
  BY <1>1, <1>2, <1>3, TypeCorrect, PTL DEF Spec
=============================================================================
