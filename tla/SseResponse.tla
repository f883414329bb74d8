---------------------------- MODULE SseResponse ----------------------------
(***************************************************************************)
(* One server-sent-events response of the HTTP server                      *)
(* (dispatchSseRequest in src/src/transport/StreamableHttpServerTransport  *)
(* .ts): the fibers that send on it under a one-permit lock, the frame     *)
(* slots and the bounded output queue with one place more than slots, the  *)
(* reader of the response body, and the scope whose closing ends it all.   *)
(*                                                                         *)
(* The response answers an ordinary request (notifications of its handler, *)
(* then one terminal) or a subscriptions/listen (acknowledgement, changes  *)
(* the registry publishes, and a completion that waits for its delivery).  *)
(***************************************************************************)
EXTENDS Naturals, Sequences, FiniteSets

CONSTANTS
  Notifiers,    \* fibers that send one notification each
  Answer,       \* the fiber that sends the terminal
  Opener,       \* the fiber that runs dispatchSseRequest
  Nobody,       \* stands for "the lock is free"
  MaxPending    \* maxPendingFrames

ASSUME SendersAssumption ==
  /\ Answer \notin Notifiers /\ Opener \notin Notifiers \cup {Answer}
  /\ Nobody \notin Notifiers \cup {Answer, Opener}
ASSUME PendingAssumption == MaxPending \in Nat \ {0}

Senders == Notifiers \cup {Answer, Opener}

VARIABLES
  listens,     \* the request is a subscriptions/listen (never changes)
  registered,  \* the subscription in the server's registry
  state,       \* ResponseSendState
  lock,        \* holder of the lock
  slots,       \* free frame slots
  queue,       \* the output queue
  sender,      \* progress of each sending fiber
  scope,       \* progress of the response scope's closing
  reader,      \* progress of the response body, and the item in its hands
  wire,        \* what the reader has been given
  delivered    \* the terminal's delivery acknowledgement has been given

vars == <<listens, registered, state, lock, slots, queue, sender, scope,
          reader, wire, delivered>>

sending == <<registered, state, lock, slots, queue, sender>>
reading == <<reader, wire, delivered>>

FrameItems == {"ack", "note", "terminal"}
ControlItems == {"end", "fail"}
Items == FrameItems \cup ControlItems

IsFrame(i) == i \in FrameItems
FramesIn(q) == Cardinality({k \in 1..Len(q) : IsFrame(q[k])})
FramesQueued == FramesIn(queue)

\* The frame a sender sends.
FrameOf(s) == IF s = Answer THEN "terminal" ELSE IF s = Opener THEN "ack" ELSE "note"

Over == {"done", "failed", "interrupted"}
Locked == {"encoding", "failing", "slot", "offer", "ending", "breaking"}

TypeOK ==
  /\ listens \in BOOLEAN
  /\ registered \in {"no", "yes", "removed"}
  /\ state \in {"Open", "Terminal", "Closed"}
  /\ lock \in Senders \cup {Nobody}
  /\ slots \in 0..MaxPending
  /\ queue \in Seq(Items)
  /\ sender \in [Senders -> {"idle", "waiting", "awaiting"} \cup Locked \cup Over]
  /\ \A s \in Senders : lock = s <=> sender[s] \in Locked
  /\ scope \in {"open", "closing", "released", "shut"}
  /\ reader \in [at : {"none", "pulling", "ended"}, item : {"none"}]
                \cup [at : {"delivering"}, item : Items]
  /\ wire \in Seq(Items)
  /\ delivered \in BOOLEAN

Init ==
  /\ listens \in BOOLEAN
  /\ registered = "no"
  /\ state = "Open"
  /\ lock = Nobody
  /\ slots = MaxPending
  /\ queue = <<>>
  /\ sender = [s \in Senders |-> "idle"]
  /\ scope = "open"
  /\ reader = [at |-> "none", item |-> "none"]
  /\ wire = <<>>
  /\ delivered = FALSE

-----------------------------------------------------------------------------
(* Helpers.                                                                *)

\* One place is reserved for a control item, which takes no frame slot.
QueueCapacity == MaxPending + 1

Step(s, p) == sender' = [sender EXCEPT ![s] = p]
Leave(s, p) == Step(s, p) /\ lock' = Nobody

\* Queue.offer suspends on a full queue; a queue that is shut down takes nothing.
Put(i) ==
  \/ /\ scope # "shut"
     /\ Len(queue) < QueueCapacity
     /\ queue' = Append(queue, i)
  \/ scope = "shut" /\ UNCHANGED queue

\* Sends start: the opener at once if the request listens; a handler's sends
\* once the request is accepted; a change if a snapshot of the registry held the
\* subscription; the completion takes it out of the registry.
MayStart(s) ==
  \/ s = Opener /\ listens /\ reader.at = "none"
  \/ s \in Notifiers \cup {Answer} /\ ~listens /\ scope = "open"
  \/ s \in Notifiers /\ listens /\ registered # "no"
  \/ s = Answer /\ listens /\ registered = "yes"

\* The fibers of an ordinary request belong to the response scope; publishers
\* can be interrupted by whoever runs them, the opener by the HTTP request's
\* signal; closeSubscriptions gives up after a second, so only on a stuck fiber.
Stuck(s) ==
  \/ sender[s] = "waiting" /\ lock # Nobody
  \/ sender[s] = "slot" /\ slots = 0
  \/ sender[s] = "awaiting" /\ ~delivered
MayInterrupt(s) ==
  \/ ~listens /\ s # Opener /\ scope # "open"
  \/ listens /\ s \in Notifiers \cup {Opener}
  \/ listens /\ s = Answer /\ Stuck(s)

-----------------------------------------------------------------------------
(* send, offerUnlocked, offerFrame, offerControl, failStreamUnlocked.      *)

StartSend(s) ==
  /\ sender[s] = "idle"
  /\ MayStart(s)
  /\ Step(s, "waiting")
  /\ registered' = IF s = Answer /\ listens THEN "removed" ELSE registered
  /\ UNCHANGED <<listens, state, lock, slots, queue, scope, reading>>

LockUnchecked(s) ==                                                    \* mutant
  /\ sender[s] = "waiting"
  /\ lock = Nobody
  /\ lock' = s
  /\ Step(s, "encoding")
  /\ registered' = IF s = Opener THEN "yes" ELSE registered
  /\ UNCHANGED <<listens, state, slots, queue, scope, reading>>
\* Under the lock a response that is not open refuses the frame. The opener
\* registers the subscription before it offers the acknowledgement.
Lock(s) ==
  /\ sender[s] = "waiting"
  /\ lock = Nobody
  /\ \/ state # "Open" /\ Step(s, "failed") /\ UNCHANGED <<lock, registered>>
     \/ /\ state = "Open"
        /\ lock' = s
        /\ Step(s, "encoding")
        /\ registered' = IF s = Opener THEN "yes" ELSE registered
  /\ UNCHANGED <<listens, state, slots, queue, scope, reading>>

\* A terminal leaves the Open state before it is offered.
Encode(s) ==
  /\ sender[s] = "encoding"
  /\ Step(s, "slot")
  /\ state' = IF s = Answer THEN "Terminal" ELSE state
  /\ UNCHANGED <<listens, registered, lock, slots, queue, scope, reading>>

EncodeFails(s) ==
  /\ sender[s] = "encoding"
  /\ Step(s, "failing")
  /\ UNCHANGED <<listens, registered, state, lock, slots, queue, scope, reading>>

\* failStreamUnlocked: the first failure closes the response.
FailStream(s) ==
  /\ sender[s] = "failing"
  /\ \/ state # "Open" /\ Leave(s, "failed") /\ UNCHANGED <<registered, state>>
     \/ /\ state = "Open"
        /\ registered' = IF registered = "yes" THEN "removed" ELSE registered
        /\ state' = "Closed"
        /\ Step(s, "breaking")
        /\ UNCHANGED lock
  /\ UNCHANGED <<listens, slots, queue, scope, reading>>

TakeSlot(s) ==
  /\ sender[s] = "slot"
  /\ slots > 0
  /\ slots' = slots - 1
  /\ Step(s, "offer")
  /\ UNCHANGED <<listens, registered, state, lock, queue, scope, reading>>

OfferFrameOnly(s) ==                                                   \* mutant
  /\ sender[s] = "offer"
  /\ Put(FrameOf(s))
  /\ Leave(s, "done")
  /\ UNCHANGED <<listens, registered, state, slots, scope, reading>>
\* A terminal is followed by the end of the stream under the same lock.
OfferFrame(s) ==
  /\ sender[s] = "offer"
  /\ Put(FrameOf(s))
  /\ IF s = Answer THEN Step(s, "ending") /\ UNCHANGED lock ELSE Leave(s, "done")
  /\ UNCHANGED <<listens, registered, state, slots, scope, reading>>

OfferEnd(s) ==
  /\ sender[s] = "ending"
  /\ Put("end")
  /\ Leave(s, IF listens THEN "awaiting" ELSE "done")
  /\ UNCHANGED <<listens, registered, state, slots, scope, reading>>

OfferFailure(s) ==
  /\ sender[s] = "breaking"
  /\ Put("fail")
  /\ Leave(s, "failed")
  /\ UNCHANGED <<listens, registered, state, slots, scope, reading>>

\* sendTerminalAndAwaitDelivery returns.
Delivery(s) ==
  /\ sender[s] = "awaiting"
  /\ delivered
  /\ Step(s, "done")
  /\ UNCHANGED <<listens, registered, state, lock, slots, queue, scope, reading>>

InterruptKeepsSlot(s) ==                                               \* mutant
  /\ MayInterrupt(s)
  /\ sender[s] \in {"waiting", "awaiting"} \cup Locked
  /\ Step(s, "interrupted")
  /\ lock' = IF lock = s THEN Nobody ELSE lock
  /\ UNCHANGED <<listens, registered, state, slots, queue, scope, reading>>
\* An interruption can strike between any two effects. offerFrame gives its slot
\* back; a control item is offered uninterruptibly, once its offer has begun.
Interrupt(s) ==
  /\ MayInterrupt(s)
  /\ sender[s] \in {"waiting", "awaiting"} \cup Locked
  /\ Step(s, "interrupted")
  /\ lock' = IF lock = s THEN Nobody ELSE lock
  /\ slots' = IF sender[s] = "offer" /\ slots < MaxPending THEN slots + 1 ELSE slots
  /\ UNCHANGED <<listens, registered, state, queue, scope, reading>>

SendStep(s) ==
  \/ Lock(s) \/ Encode(s) \/ EncodeFails(s) \/ FailStream(s) \/ TakeSlot(s)
  \/ OfferFrame(s) \/ OfferEnd(s) \/ OfferFailure(s) \/ Delivery(s)

-----------------------------------------------------------------------------
(* The response and its reader.                                            *)

ToReader(p, i) == reader' = [at |-> p, item |-> i]

\* dispatchSseRequest returns the response, after the acknowledgement if the
\* request listens ...
Respond ==
  /\ reader.at = "none"
  /\ listens => sender[Opener] = "done"
  /\ ToReader("pulling", "none")
  /\ UNCHANGED <<listens, sending, scope, wire, delivered>>

\* ... or fails, or is interrupted by the request's signal: it closes the scope
\* and answers with an error, or not at all.
RespondError ==
  /\ reader.at = "none"
  /\ sender[Opener] \notin {"waiting"} \cup Locked
  /\ ToReader("ended", "none")
  /\ scope' = IF scope = "open" THEN "closing" ELSE scope
  /\ UNCHANGED <<listens, sending, wire, delivered>>

DequeueDelivers ==                                                     \* mutant
  /\ reader.at = "pulling"
  /\ queue # <<>>
  /\ queue' = Tail(queue)
  /\ slots' = IF IsFrame(Head(queue)) /\ slots < MaxPending THEN slots + 1 ELSE slots
  /\ ToReader("delivering", Head(queue))
  /\ delivered' = (delivered \/ Head(queue) = "terminal")
  /\ UNCHANGED <<listens, registered, state, lock, sender, scope, wire>>
\* The body's stream takes an item; a frame frees its slot.
Dequeue ==
  /\ reader.at = "pulling"
  /\ queue # <<>>
  /\ queue' = Tail(queue)
  /\ slots' = IF IsFrame(Head(queue)) /\ slots < MaxPending THEN slots + 1 ELSE slots
  /\ ToReader("delivering", Head(queue))
  /\ UNCHANGED <<listens, registered, state, lock, sender, scope, wire, delivered>>

\* The chunk is enqueued in the response body, then its delivery acknowledged.
DeliverFrame ==
  /\ reader.at = "delivering" /\ IsFrame(reader.item)
  /\ wire' = Append(wire, reader.item)
  /\ delivered' = (delivered \/ reader.item = "terminal")
  /\ ToReader("pulling", "none")
  /\ UNCHANGED <<listens, sending, scope>>

\* The end or the failure of the stream closes the scope.
DeliverEnd ==
  /\ reader.at = "delivering" /\ ~IsFrame(reader.item)
  /\ wire' = Append(wire, reader.item)
  /\ ToReader("ended", "none")
  /\ scope' = IF scope = "open" THEN "closing" ELSE scope
  /\ UNCHANGED <<listens, sending, delivered>>

Deliver == DeliverFrame \/ DeliverEnd

\* The reader cancels the body.
Cancel ==
  /\ reader.at \in {"pulling", "delivering"}
  /\ ToReader("ended", "none")
  /\ scope' = IF scope = "open" THEN "closing" ELSE scope
  /\ UNCHANGED <<listens, sending, wire, delivered>>

\* The queue is shut down under the reader.
ReadShut ==
  /\ reader.at = "pulling"
  /\ scope = "shut"
  /\ ToReader("ended", "none")
  /\ UNCHANGED <<listens, sending, scope, wire, delivered>>

ReaderStep == Dequeue \/ Deliver \/ ReadShut

-----------------------------------------------------------------------------
(* Closing the response scope; finalizers run in reverse order.            *)

\* The parent scope closes: the handler is disposed.
Dispose ==
  /\ scope = "open"
  /\ scope' = "closing"
  /\ UNCHANGED <<listens, sending, reading>>

KeepSlots ==                                                           \* mutant
  /\ scope = "closing"
  /\ ~listens => \A s \in Senders : sender[s] \in Over \cup {"idle"}
  /\ registered' = IF registered = "yes" THEN "removed" ELSE registered
  /\ state' = "Closed"
  /\ scope' = "released"
  /\ UNCHANGED <<listens, lock, slots, queue, sender, reading>>
\* closeSubscription; the dispatcher's finalizer interrupts and joins the
\* request's fibers; the response is closed and every frame slot released ...
Release ==
  /\ scope = "closing"
  /\ ~listens => \A s \in Senders : sender[s] \in Over \cup {"idle"}
  /\ registered' = IF registered = "yes" THEN "removed" ELSE registered
  /\ state' = "Closed"
  /\ slots' = MaxPending
  /\ scope' = "released"
  /\ UNCHANGED <<listens, lock, queue, sender, reading>>

\* ... and the queue shut down.
Shut ==
  /\ scope = "released"
  /\ queue' = <<>>
  /\ scope' = "shut"
  /\ UNCHANGED <<listens, registered, state, lock, slots, sender, reading>>

Next ==
  \/ \E s \in Senders : StartSend(s) \/ SendStep(s) \/ Interrupt(s)
  \/ Respond \/ RespondError
  \/ ReaderStep \/ Cancel
  \/ Dispose \/ Release \/ Shut

Spec == Init /\ [][Next]_vars

\* Fibers are scheduled, a closing scope interrupts its fibers, a completion
\* gives up after its second, and a read that is under way comes to its end.
\* Nobody has to read: Dequeue is not fair.
FairSpec ==
  /\ Spec
  /\ \A s \in Senders : WF_vars(SendStep(s))
  /\ WF_vars(StartSend(Opener))
  /\ \A s \in Senders : WF_vars((s = Answer \/ ~listens) /\ Interrupt(s))
  /\ WF_vars(Respond \/ RespondError) /\ WF_vars(Deliver \/ ReadShut)
  /\ WF_vars(Release \/ Shut)

-----------------------------------------------------------------------------
(* Safety.                                                                 *)

\* Every item in the order of the wire: given, in the reader's hands, queued.
Held(r) == IF r.at = "delivering" THEN <<r.item>> ELSE <<>>
Emitted == wire \o Held(reader) \o queue

\* A frame slot is free, in the queue or between take and offer: none leaks when
\* a sender is interrupted, and none is freed twice.  So whoever has a slot, and
\* whoever offers the end or a failure behind a full queue, finds room: these offers
\* are uninterruptible and must not wait.
SlotsAddUp ==
  scope \in {"open", "closing"} =>
    /\ slots + FramesQueued + Cardinality({s \in Senders : sender[s] = "offer"})
         = MaxPending
    /\ (\E s \in Senders : sender[s] \in {"offer", "ending", "breaking"})
         => Len(queue) < QueueCapacity

\* The stream is well formed: the reader of a subscription is given the
\* acknowledgement first, there is at most one terminal, with only the end of the
\* stream behind it, and nothing behind an end or a failure.  Of what a reader is
\* given ImplementsStream says the same; this holds of what he never sees, too.
WellFormed ==
  /\ listens /\ wire # <<>> => wire[1] = "ack"
  /\ \A k \in 1..Len(Emitted) :
    /\ Emitted[k] = "terminal" =>
         \A j \in (k + 1)..Len(Emitted) : Emitted[j] = "end"
    /\ Emitted[k] \in ControlItems => k = Len(Emitted)

\* closeSubscriptions reports a completion only after the reader has been given
\* the terminal, and with it everything published before.
CompletionIsDelivered ==
  listens /\ sender[Answer] = "done" =>
    \E k \in 1..Len(wire) : wire[k] = "terminal"

-----------------------------------------------------------------------------
(* What all this machinery promises the client: ResponseStream.            *)

\* Sent and not yet given: what nobody is going to read is lost.
Flight == IF reader.at = "ended" THEN <<>> ELSE Held(reader) \o queue
CutOff == reader.at = "ended" \/ scope = "shut"
Confirmed == listens /\ sender[Answer] = "done"

Stream == INSTANCE ResponseStream WITH
  flight <- Flight, cut <- CutOff, confirmed <- Confirmed

\* dispatchSseRequest implements that stream: whatever senders, interruptions, failures,
\* the reader and the closing scope do, the client is given the items in the order they
\* were sent, without a gap, up to the end, a failure or a cut.
ImplementsStream == Stream!Spec

-----------------------------------------------------------------------------
(* Liveness.                                                               *)

\* Closing the scope finishes and leaves nobody behind: not a sender waiting for
\* a slot with the lock in his hands, nor the others waiting for that lock, nor
\* the reader.
CloseUnblocks ==
  scope # "open" ~>
    /\ scope = "shut"
    /\ reader.at \in {"none", "ended"}
    /\ \A s \in Senders : sender[s] \in Over \cup {"idle"}

\* An ordinary request that answers ends the response of a reader that reads on,
\* whatever was in its way: a full queue, a failed encoding, the closing scope.
AnswerEndsStream ==
  WF_vars(Dequeue) => (~listens /\ sender[Answer] # "idle" ~> reader.at = "ended")
=============================================================================
