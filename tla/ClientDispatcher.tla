-------------------------- MODULE ClientDispatcher --------------------------
(***************************************************************************)
(* The client side of the request dispatcher (makeClientDispatcher in      *)
(* src/src/McpDispatcher.ts): the table of requests awaiting an answer,    *)
(* the bounded queue between the transport's inbound loop and each         *)
(* request's stream, and the four ways a request leaves the table: an      *)
(* inbound frame, the end of its stream, a local cancel, the close.        *)
(*                                                                         *)
(* An "owner" is one call of `request`: the ClientOwner object it makes.   *)
(* Frames are routed one at a time, as the stdio transport does; callers,  *)
(* cancel, close and the forked offers run beside the inbound loop.  The   *)
(* offers and the loop are fibers of the dispatcher's scope, which a caller *)
(* may outlive: what it interrupts, or what is forked into it once it      *)
(* closes, is never offered.                                               *)
(***************************************************************************)
EXTENDS Naturals, Sequences

CONSTANTS
  Ids,          \* JSON-RPC request ids
  Owners,       \* calls of request
  NoOwner,      \* stands for "no entry in the table"
  Capacity,     \* CLIENT_OWNER_BUFFER_CAPACITY
  MaxFrames     \* bound: inbound frames that find an owner

ASSUME OwnersAssumption == NoOwner \notin Owners
ASSUME CapacityAssumption == Capacity \in Nat \ {0}
ASSUME FramesAssumption == MaxFrames \in Nat

VARIABLES
  idOf,        \* the id the call uses (never changes)
  subscribes,  \* the call is a subscriptions/listen (never changes)
  active,      \* state.active: HashMap<JsonRpcId, ClientOwner>
  closed,      \* state.closed # undefined
  caller,      \* progress of the fiber that runs the call and its stream
  written,     \* the transport has put the request on the wire
  sent,        \* owner.sent
  acked,       \* owner.subscription.acknowledgedFilter # undefined
  queue,       \* owner.queue, bounded
  pending,     \* final events whose forked Queue.offer has not gone through
  stream,      \* what the caller's stream has emitted
  outcome,     \* how the owner left the table
  abandons,    \* times onRequestAbandoned was forked for the owner
  inbound,     \* progress of the inbound loop's accept call
  frames,      \* inbound frames so far
  lost,        \* owners one of whose notifications found the queue full
  scope        \* the scope of the dispatcher, its forked fibers and the inbound loop

vars == <<idOf, subscribes, active, closed, caller, written, sent, acked, queue,
          pending, stream, outcome, abandons, inbound, frames, lost, scope>>

callVars == <<idOf, subscribes, scope, caller, written, sent, stream>>
tableVars == <<active, outcome, closed>>
loopVars == <<acked, inbound, frames, lost>>

\* The events that end a stream, named after the outcome that sends them.
Finals == {"terminal", "failed", "cancelled", "closed"}
Events == {"ack", "note"} \cup Finals

\* What an inbound frame can be to the request it is routed to: a valid
\* notification, an exact acknowledgement, one that does not decode or is not
\* selected, notifications/cancelled, a response, and one that is not a valid
\* subscription terminal.
Frames == {"note", "ack", "bad", "cancelled", "response", "badResponse"}

Idle == [at |-> "idle", owner |-> NoOwner, frame |-> "none"]
Holds(o) == active[idOf[o]] = o

TypeOK ==
  /\ idOf \in [Owners -> Ids]
  /\ subscribes \in [Owners -> BOOLEAN]
  /\ active \in [Ids -> Owners \cup {NoOwner}]
  /\ closed \in BOOLEAN
  /\ caller \in [Owners -> {"idle", "sending", "streaming", "leaving", "done"}]
  /\ written \in [Owners -> BOOLEAN]
  /\ sent \in [Owners -> BOOLEAN]
  /\ acked \in [Owners -> BOOLEAN]
  /\ queue \in [Owners -> Seq(Events)]
  /\ \A o \in Owners : Len(queue[o]) <= Capacity
  /\ pending \in [Owners -> SUBSET Finals]
  /\ stream \in [Owners -> Seq(Events)]
  /\ outcome \in [Owners -> {"none", "refused", "left"} \cup Finals]
  /\ abandons \in [Owners -> Nat]
  /\ inbound \in {Idle} \cup
       [at : {"offering", "failing", "cancelling", "ending", "abandoning"},
        owner : Owners, frame : {"note", "ack", "none"}]
  /\ frames \in Nat
  /\ lost \in SUBSET Owners
  /\ scope \in {"open", "closing", "stopped"}

Init ==
  /\ idOf \in [Owners -> Ids]
  /\ subscribes \in [Owners -> BOOLEAN]
  /\ active = [i \in Ids |-> NoOwner]
  /\ closed = FALSE
  /\ caller = [o \in Owners |-> "idle"]
  /\ written = [o \in Owners |-> FALSE]
  /\ sent = [o \in Owners |-> FALSE]
  /\ acked = [o \in Owners |-> FALSE]
  /\ queue = [o \in Owners |-> <<>>]
  /\ pending = [o \in Owners |-> {}]
  /\ stream = [o \in Owners |-> <<>>]
  /\ outcome = [o \in Owners |-> "none"]
  /\ abandons = [o \in Owners |-> 0]
  /\ inbound = Idle
  /\ frames = 0
  /\ lost = {}
  /\ scope = "open"

-----------------------------------------------------------------------------
(* Helpers.                                                                *)

RemoveAny(o) == active[idOf[o]] # NoOwner                              \* mutant
\* removeOwner finds this very owner under its id.
Removable(o) == Holds(o)

\* The owner leaves the table with outcome w.
Remove(o, w) ==
  /\ active' = [active EXCEPT ![idOf[o]] = NoOwner]
  /\ outcome' = [outcome EXCEPT ![o] = w]
  /\ UNCHANGED closed

\* The queue takes offers until it is shut down.
HasRoom(o) == caller[o] # "done" /\ Len(queue[o]) < Capacity

\* enqueueFinal forks the offer: the caller goes on even if the queue is full.  A
\* fiber forked into a scope that is closing is interrupted before it starts.
EnqueueFinal(o, e) ==
  /\ pending' = [pending EXCEPT ![o] = IF scope = "open" THEN @ \cup {e} ELSE @]
  /\ UNCHANGED queue

\* abandonOwner: onRequestAbandoned, forked as well, runs only once the send has
\* returned.
Abandonment(o) == IF sent[o] /\ scope = "open" THEN 1 ELSE 0

-----------------------------------------------------------------------------
(* The caller: request, its stream and its finalizer.                      *)

Request(o) ==
  /\ caller[o] = "idle"
  /\ ~closed
  /\ active[idOf[o]] = NoOwner
  /\ active' = [active EXCEPT ![idOf[o]] = o]
  /\ caller' = [caller EXCEPT ![o] = "sending"]
  /\ UNCHANGED <<idOf, subscribes, scope, written, sent, stream, outcome, closed, queue,
                 pending, abandons, loopVars>>

\* Closed, or the id is taken: the call fails, and its finalizer runs.
RefuseRequest(o) ==
  /\ caller[o] = "idle"
  /\ closed \/ active[idOf[o]] # NoOwner
  /\ caller' = [caller EXCEPT ![o] = "leaving"]
  /\ outcome' = [outcome EXCEPT ![o] = "refused"]
  /\ UNCHANGED <<idOf, subscribes, scope, written, sent, stream, active, closed, queue,
                 pending, abandons, loopVars>>

\* The peer can read the request before the send effect has returned.
WriteRequest(o) ==
  /\ caller[o] = "sending" /\ ~written[o]
  /\ written' = [written EXCEPT ![o] = TRUE]
  /\ UNCHANGED <<idOf, subscribes, scope, caller, sent, stream, tableVars, queue, pending,
                 abandons, loopVars>>

\* Ref.set(sent, true) follows the send uninterruptibly.
SendReturns(o) ==
  /\ caller[o] = "sending" /\ written[o]
  /\ sent' = [sent EXCEPT ![o] = TRUE]
  /\ caller' = [caller EXCEPT ![o] = "streaming"]
  /\ UNCHANGED <<idOf, subscribes, scope, written, stream, tableVars, queue, pending,
                 abandons, loopVars>>

\* The send failed, or the caller was interrupted in it or in its stream.
StopCaller(o) ==
  /\ caller[o] \in {"sending", "streaming"}
  /\ caller' = [caller EXCEPT ![o] = "leaving"]
  /\ UNCHANGED <<idOf, subscribes, scope, written, sent, stream, tableVars, queue, pending,
                 abandons, loopVars>>

\* takeUntil: the first event that is no notification is the last one emitted.
TakeEvent(o) ==
  /\ caller[o] = "streaming"
  /\ queue[o] # <<>>
  /\ stream' = [stream EXCEPT ![o] = Append(@, Head(queue[o]))]
  /\ queue' = [queue EXCEPT ![o] = Tail(@)]
  /\ caller' = [caller EXCEPT ![o] =
                  IF Head(queue[o]) \in Finals THEN "leaving" ELSE @]
  /\ UNCHANGED <<idOf, subscribes, scope, written, sent, tableVars, pending, abandons,
                 loopVars>>

\* The finalizer: an owner still in the table is removed and abandoned, and the
\* queue is shut down with whatever it and its suspended offers hold.
Leave(o) ==
  /\ caller[o] = "leaving"
  /\ caller' = [caller EXCEPT ![o] = "done"]
  /\ \/ /\ Removable(o)
        /\ Remove(o, "left")
        /\ abandons' = [abandons EXCEPT ![o] = @ + Abandonment(o)]
     \/ /\ ~Removable(o)
        /\ UNCHANGED <<tableVars, abandons>>
  /\ queue' = [queue EXCEPT ![o] = <<>>]
  /\ pending' = [pending EXCEPT ![o] = {}]
  /\ UNCHANGED <<idOf, subscribes, scope, written, sent, stream, loopVars>>

OfferOrDropFinal(o) ==                                                 \* mutant
  /\ \E e \in pending[o] :
       /\ pending' = [pending EXCEPT ![o] = @ \ {e}]
       /\ queue' = [queue EXCEPT ![o] = IF HasRoom(o) THEN Append(@, e) ELSE @]
  /\ UNCHANGED <<callVars, tableVars, abandons, loopVars>>

\* A forked Queue.offer goes through once there is room.
OfferFinal(o) ==
  /\ HasRoom(o)
  /\ \E e \in pending[o] :
       /\ pending' = [pending EXCEPT ![o] = @ \ {e}]
       /\ queue' = [queue EXCEPT ![o] = Append(@, e)]
  /\ UNCHANGED <<callVars, tableVars, abandons, loopVars>>

-----------------------------------------------------------------------------
(* accept: route a frame to the owner of its id.  Looking the owner up and *)
(* deciding are one step, as only this loop changes what is decided on.  A *)
(* frame nobody owns, and a notifications/cancelled for an ordinary        *)
(* request, change nothing; a frame accept rejects ends in a close.        *)

\* routeNotification passes the frame on to the stream.
Deliverable(o, f) ==
  IF subscribes[o] THEN f = (IF acked[o] THEN "note" ELSE "ack")
                   ELSE f \in {"note", "ack"}

EndsRequest(o, f) ==
  IF subscribes[o] THEN acked[o] /\ f = "response"
                   ELSE f \in {"response", "badResponse"}

\* The loop takes the frame on; it keeps what it offers to the stream.
Route(o, f, at) ==
  /\ scope # "stopped" /\ inbound = Idle /\ frames < MaxFrames
  /\ Holds(o)
  /\ inbound' = [at |-> at, owner |-> o, frame |-> f]
  /\ frames' = frames + 1
  /\ UNCHANGED <<callVars, tableVars, queue, pending, abandons, lost>>

RouteNotification(o, f) ==
  /\ Deliverable(o, f)
  /\ Route(o, f, "offering")
  /\ acked' = [acked EXCEPT ![o] = subscribes[o]]

RouteCancellation(o) ==
  /\ subscribes[o]
  /\ Route(o, "none", "cancelling")
  /\ UNCHANGED acked

RouteResponse(o, f) ==
  /\ EndsRequest(o, f)
  /\ Route(o, "none", "ending")
  /\ UNCHANGED acked

RouteInvalid(o, f) ==
  /\ ~Deliverable(o, f) /\ f # "cancelled" /\ ~EndsRequest(o, f)
  /\ Route(o, "none", "failing")
  /\ UNCHANGED acked

DropNotification ==                                                    \* mutant
  /\ inbound.at = "offering" /\ ~HasRoom(inbound.owner)
  /\ inbound' = Idle
  /\ lost' = lost \cup {inbound.owner}
  /\ UNCHANGED <<callVars, tableVars, queue, pending, abandons, acked, frames>>

\* offerNotification: offerUnsafe takes the notification if there is room.
OfferNotification ==
  /\ inbound.at = "offering" /\ HasRoom(inbound.owner)
  /\ queue' = [queue EXCEPT ![inbound.owner] = Append(@, inbound.frame)]
  /\ inbound' = Idle
  /\ UNCHANGED <<callVars, tableVars, pending, abandons, acked, frames, lost>>

\* offerNotification: the queue is full or shut down, and the owner fails.
OverflowNotification ==
  /\ inbound.at = "offering" /\ ~HasRoom(inbound.owner)
  /\ inbound' = [inbound EXCEPT !.at = "failing", !.frame = "none"]
  /\ lost' = lost \cup {inbound.owner}
  /\ UNCHANGED <<callVars, tableVars, queue, pending, abandons, acked, frames>>

\* removeOwner and enqueueFinal, for a response, a cancellation and failOwner.
SettleOwner(at, w, next) ==
  /\ inbound.at = at
  /\ \/ /\ Removable(inbound.owner)
        /\ Remove(inbound.owner, w)
        /\ EnqueueFinal(inbound.owner, w)
        /\ inbound' = next
     \/ /\ ~Removable(inbound.owner)
        /\ inbound' = Idle
        /\ UNCHANGED <<tableVars, queue, pending>>
  /\ UNCHANGED <<callVars, abandons, acked, frames, lost>>

EndOwner == SettleOwner("ending", "terminal", Idle)
CancelOwner == SettleOwner("cancelling", "cancelled", Idle)
FailOwner == SettleOwner("failing", "failed", [inbound EXCEPT !.at = "abandoning"])

\* abandonOwner after failOwner, reading `sent` only now.
AbandonFailed ==
  /\ inbound.at = "abandoning"
  /\ abandons' = [abandons EXCEPT ![inbound.owner] = @ + Abandonment(inbound.owner)]
  /\ inbound' = Idle
  /\ UNCHANGED <<callVars, tableVars, queue, pending, acked, frames, lost>>

-----------------------------------------------------------------------------
(* cancel and close.                                                       *)

Cancel(o) ==
  /\ Holds(o)
  /\ Remove(o, "cancelled")
  /\ EnqueueFinal(o, "cancelled")
  /\ UNCHANGED <<callVars, abandons, loopVars>>

\* Every owner is taken out at once; a second close changes nothing.  The scope's last
\* finalizer is a close too, whose final events are not offered.
Close ==
  /\ ~closed
  /\ closed' = TRUE
  /\ active' = [i \in Ids |-> NoOwner]
  /\ outcome' = [o \in Owners |-> IF Holds(o) THEN "closed" ELSE outcome[o]]
  /\ pending' = [o \in Owners |-> IF Holds(o) /\ scope = "open"
                                   THEN pending[o] \cup {"closed"} ELSE pending[o]]
  /\ UNCHANGED <<callVars, queue, abandons, loopVars>>

-----------------------------------------------------------------------------
(* The scope closes, and interrupts what was forked into it, the latest    *)
(* first.                                                                  *)

CloseScope ==
  /\ scope = "open"
  /\ scope' = "closing"
  /\ UNCHANGED <<idOf, subscribes, caller, written, sent, stream, tableVars, queue,
                 pending, abandons, loopVars>>

\* A forked offer that waits for room is interrupted.
InterruptOffer(o) ==
  /\ scope = "closing"
  /\ \E e \in pending[o] : pending' = [pending EXCEPT ![o] = @ \ {e}]
  /\ UNCHANGED <<callVars, tableVars, queue, abandons, loopVars>>

\* The inbound loop, forked before any offer, is interrupted wherever it is.
StopLoop ==
  /\ scope = "closing" /\ \A o \in Owners : pending[o] = {}
  /\ scope' = "stopped"
  /\ inbound' = Idle
  /\ UNCHANGED <<idOf, subscribes, caller, written, sent, stream, tableVars, queue,
                 pending, abandons, acked, frames, lost>>

-----------------------------------------------------------------------------
CallStep(o) ==
  \/ Request(o) \/ RefuseRequest(o) \/ WriteRequest(o) \/ SendReturns(o)
  \/ StopCaller(o) \/ TakeEvent(o) \/ Leave(o) \/ OfferFinal(o)

RouteStep(o) ==
  \/ \E f \in Frames : \/ RouteNotification(o, f) \/ RouteResponse(o, f)
                       \/ RouteInvalid(o, f)
  \/ RouteCancellation(o)

LoopStep ==
  \/ OfferNotification \/ OverflowNotification
  \/ EndOwner \/ CancelOwner \/ FailOwner \/ AbandonFailed

Next ==
  \/ \E o \in Owners : CallStep(o) \/ RouteStep(o) \/ Cancel(o) \/ InterruptOffer(o)
  \/ LoopStep
  \/ Close \/ CloseScope \/ StopLoop

Spec == Init /\ [][Next]_vars

-----------------------------------------------------------------------------
(* Properties                                                              *)

HasFinal(q) == \E j \in DOMAIN q : q[j] \in Finals

\* While its caller is there, an owner is in the table with no end in sight, or out
\* of it with exactly one final event, the one of its outcome, queued or about to
\* be offered; and a stream emits nothing after a final event.  Only a closing scope
\* loses a final event.  The peer is told that a request is abandoned once at most, and
\* only if it failed here or was given up: never after a response, a cancellation or a
\* close that won the race.
EndsExactlyOnce ==
  \A o \in Owners :
    /\ caller[o] \in {"sending", "streaming"} =>
         IF Holds(o)
           THEN pending[o] = {} /\ ~HasFinal(queue[o])
           ELSE \/ pending[o] = {outcome[o]} /\ ~HasFinal(queue[o])
                \/ /\ pending[o] = {}
                   /\ \E j \in DOMAIN queue[o] :
                        /\ queue[o][j] = outcome[o]
                        /\ \A k \in DOMAIN queue[o] : queue[o][k] \in Finals <=> k = j
                \/ scope # "open" /\ pending[o] = {} /\ ~HasFinal(queue[o])
    /\ \A j \in DOMAIN stream[o] : stream[o][j] \in Finals => j = Len(stream[o])
    /\ abandons[o] > 0 => abandons[o] = 1 /\ outcome[o] \in {"failed", "left"}

\* What a stream tells its reader is all there was to tell: one that ends in a
\* response has emitted every notification routed to it, as one that found the
\* queue full turns the request into a failure; and a subscription's begins with
\* its acknowledgement, has no second one, and reaches a response only after it.
StreamIsWhole ==
  /\ \A o \in lost : outcome[o] # "terminal"
  /\ \A o \in Owners : subscribes[o] =>
       \A j \in DOMAIN stream[o] :
         /\ stream[o][j] = "ack" <=> j = 1 /\ stream[o][j] \notin Finals
         /\ stream[o][j] = "terminal" => j > 1

\* What goes on by itself: the inbound loop, the forked offers, a stream that is
\* read, the finalizer of one that ended.
Running ==
  LoopStep \/ \E o \in Owners : OfferFinal(o) \/ TakeEvent(o) \/ Leave(o)

\* Nobody waits for anybody: once nothing goes on by itself, the inbound loop is
\* back for the next frame, though a queue was full or its caller stuck in the send,
\* and whoever left the table has come to his end, but for a send under way and for
\* a stream that outlives the scope that was to tell it its end.  No step of Running
\* can be taken for ever, so both happen whenever it is fair.
NobodyIsStuck ==
  ENABLED Running \/
    /\ inbound = Idle
    /\ \A o \in Owners : outcome[o] # "none" =>
         \/ caller[o] \in {"sending", "done"}
         \/ caller[o] = "streaming" /\ queue[o] = <<>> /\ scope # "open"

=============================================================================
