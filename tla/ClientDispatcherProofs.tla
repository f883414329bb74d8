----------------------- MODULE ClientDispatcherProofs -----------------------
(***************************************************************************)
(* Proofs about ClientDispatcher, for any sets of ids and calls, any       *)
(* capacity of a queue and any number of frames: every request ends        *)
(* exactly once, what its stream tells is whole, and nobody is stuck.      *)
(* Then about its user, StdioClient, for any requests: its close and its   *)
(* scope never wait for what does not come.                                *)
(***************************************************************************)
EXTENDS ClientDispatcher, FiniteSetTheorems, TLAPS

USE DEF callVars, tableVars, loopVars

\* The caller's stream is still to be read to its end.
Live(o) == caller[o] \in {"sending", "streaming"}

\* An owner is in the table from the moment its call registers it until it gets its
\* outcome; before that nothing has happened to it.
TableInv ==
  \A o \in Owners :
    /\ Holds(o) <=> outcome[o] = "none" /\ caller[o] # "idle"
    /\ caller[o] = "idle" => /\ outcome[o] = "none" /\ abandons[o] = 0
                             /\ queue[o] = <<>> /\ pending[o] = {} /\ stream[o] = <<>>
    /\ caller[o] = "done" => outcome[o] # "none"

\* What the inbound loop still knows of the owner of the frame in its hands: only
\* the loop ends a request with a response or as failed, and an acknowledgement
\* stays made.
LoopInv ==
  inbound # Idle =>
    LET o == inbound.owner
    IN  /\ scope # "stopped"
        /\ caller[o] # "idle"
        /\ IF inbound.at = "abandoning" THEN outcome[o] = "failed" /\ abandons[o] = 0
                                        ELSE outcome[o] \notin {"terminal", "failed"}
        /\ inbound.at = "offering" => inbound.frame \in {"note", "ack"}
        /\ inbound.at \in {"offering", "ending"} /\ subscribes[o] => acked[o]

\* The call that lost a notification has ended otherwise than by a response, or
\* is the one the loop is about to fail, or was when it was interrupted.
LostInv ==
  \A o \in lost : \/ outcome[o] \notin {"none", "terminal"}
                  \/ /\ outcome[o] = "none"
                     /\ \/ inbound.at = "failing" /\ inbound.owner = o
                        \/ scope = "stopped"

\* The loop is about to offer f to the queue of o.
Hand(o, f) == inbound.at = "offering" /\ inbound.owner = o /\ inbound.frame = f

\* The first event of o is in its queue or has been emitted.
Told(o) == stream[o] # <<>> \/ queue[o] # <<>>

\* Emitted, queued and in the loop's hands, the events of a subscription are its
\* acknowledgement and then notifications, up to the first final event, which
\* is no response unless the acknowledgement is before it.  An interrupted loop may
\* have had the acknowledgement in its hands.
AckInv(o) ==
  /\ \A j \in DOMAIN stream[o] : stream[o][j] = IF j = 1 THEN "ack" ELSE "note"
  /\ \A j \in DOMAIN queue[o] :
       /\ queue[o][j] = "ack" => \/ j = 1 /\ stream[o] = <<>>
                                 \/ \E k \in 1..(j - 1) : queue[o][k] \in Finals
       /\ queue[o][j] \in {"note", "terminal"} => j > 1 \/ stream[o] # <<>>
  /\ "terminal" \in pending[o] => Told(o)
  /\ Hand(o, "note") => Told(o)
  /\ Hand(o, "ack") => /\ stream[o] = <<>>
                       /\ \A j \in DOMAIN queue[o] : queue[o][j] \in Finals
  /\ Holds(o) /\ scope # "stopped" => (Told(o) <=> acked[o] /\ ~Hand(o, "ack"))

HandInv ==
  \A o \in Owners :
    /\ caller[o] = "idle" => ~acked[o]
    /\ subscribes[o] /\ Live(o) => AckInv(o)

\* Nothing final is emitted before the caller leaves.
StreamInv == \A o \in Owners : caller[o] \notin {"leaving", "done"} => ~HasFinal(stream[o])

Inv ==
  /\ TypeOK
  /\ TableInv /\ LoopInv /\ LostInv
  /\ StreamInv /\ EndsExactlyOnce
  /\ HandInv /\ StreamIsWhole

-----------------------------------------------------------------------------
(* Type correctness.                                                       *)

LEMMA RemoveType ==
  ASSUME TypeOK, NEW o \in Owners, NEW w \in {"left"} \cup Finals, Remove(o, w)
  PROVE  /\ active' \in [Ids -> Owners \cup {NoOwner}]
         /\ outcome' \in [Owners -> {"none", "refused", "left"} \cup Finals]
         /\ closed' \in BOOLEAN
BY DEF TypeOK, Remove

\* An event that finds room keeps the queue within its capacity.
LEMMA AppendType ==
  ASSUME TypeOK, NEW o \in Owners, NEW e \in Events, HasRoom(o),
         queue' = [queue EXCEPT ![o] = Append(@, e)]
  PROVE  /\ queue' \in [Owners -> Seq(Events)]
         /\ \A p \in Owners : Len(queue'[p]) <= Capacity
<1>1. queue[o] \in Seq(Events) /\ Len(queue[o]) < Capacity
  BY DEF TypeOK, HasRoom
<1>2. Append(queue[o], e) \in Seq(Events) /\ Len(Append(queue[o], e)) <= Capacity
  BY <1>1, CapacityAssumption
<1> QED
  BY <1>2 DEF TypeOK

LEMMA TypeOKInit == Init => TypeOK
<1> SUFFICES ASSUME Init PROVE TypeOK
  OBVIOUS
<1>1. \A o \in Owners : queue[o] \in Seq(Events) /\ Len(queue[o]) <= Capacity
                        /\ stream[o] \in Seq(Events)
  BY CapacityAssumption DEF Init
<1> QED
  BY <1>1 DEF Init, TypeOK, Idle

\* What routing a frame does: the loop takes it on, and an offering one acknowledges.
LEMMA RouteSteps ==
  ASSUME TypeOK, NEW o \in Owners, RouteStep(o)
  PROVE  \E f \in {"note", "ack", "none"},
            at \in {"offering", "failing", "cancelling", "ending"} :
           /\ Route(o, f, at)
           /\ at = "offering" => f \in {"note", "ack"}
           /\ (at \in {"offering", "ending"} /\ subscribes[o]) => acked'[o]
           /\ acked' = acked \/ acked' = [acked EXCEPT ![o] = subscribes[o]]
<1>1. ASSUME NEW f \in Frames, RouteNotification(o, f)
      PROVE  /\ f \in {"note", "ack"}
             /\ Route(o, f, "offering")
             /\ acked' = [acked EXCEPT ![o] = subscribes[o]]
             /\ subscribes[o] => acked'[o]
  <2>1. /\ f \in {"note", "ack"} /\ Route(o, f, "offering")
        /\ acked' = [acked EXCEPT ![o] = subscribes[o]]
    BY <1>1 DEF RouteNotification, Deliverable
  <2> QED
    BY <2>1 DEF TypeOK
<1>2. ASSUME NEW f \in Frames, RouteResponse(o, f)
      PROVE  /\ Route(o, "none", "ending") /\ acked' = acked
             /\ subscribes[o] => acked'[o]
  BY <1>2 DEF RouteResponse, EndsRequest
<1>3. ASSUME NEW f \in Frames, RouteInvalid(o, f)
      PROVE  Route(o, "none", "failing") /\ acked' = acked
  BY <1>3 DEF RouteInvalid
<1>4. ASSUME RouteCancellation(o) PROVE Route(o, "none", "cancelling") /\ acked' = acked
  BY <1>4 DEF RouteCancellation
<1>5. CASE \E f \in Frames : RouteNotification(o, f)
  BY <1>1, <1>5
<1>6. CASE \E f \in Frames : RouteResponse(o, f)
  BY <1>2, <1>6
<1>7. CASE \E f \in Frames : RouteInvalid(o, f)
  BY <1>3, <1>7
<1>8. CASE RouteCancellation(o)
  BY <1>4, <1>8
<1> QED
  BY <1>5, <1>6, <1>7, <1>8 DEF RouteStep

\* What only some steps change.
LEMMA StepFrames ==
  ASSUME Next
  PROVE  /\ subscribes' = subscribes
         /\ scope' = scope \/ CloseScope \/ StopLoop
         /\ lost' = lost \/ OverflowNotification
         /\ \/ abandons' = abandons \/ AbandonFailed
            \/ \E o \in Owners : Leave(o) /\ Removable(o)
<1>1. ASSUME NEW o \in Owners, CallStep(o)
      PROVE  /\ UNCHANGED <<subscribes, scope, lost>>
             /\ abandons' = abandons \/ (Leave(o) /\ Removable(o))
  <2>1. CASE Request(o) \/ RefuseRequest(o) \/ WriteRequest(o) \/ SendReturns(o)
    BY <2>1 DEF Request, RefuseRequest, WriteRequest, SendReturns, loopVars
  <2>2. CASE StopCaller(o) \/ TakeEvent(o) \/ OfferFinal(o)
    BY <2>2 DEF StopCaller, TakeEvent, OfferFinal, callVars, loopVars
  <2>3. CASE Leave(o)
    BY <2>3 DEF Leave, loopVars
  <2> QED
    BY <1>1, <2>1, <2>2, <2>3 DEF CallStep
<1>2. ASSUME NEW o \in Owners, RouteStep(o)
      PROVE  UNCHANGED <<subscribes, scope, lost, abandons>>
  <2>1. \E f, at : Route(o, f, at)
    BY <1>2 DEF RouteStep, RouteNotification, RouteResponse, RouteInvalid,
                RouteCancellation
  <2> QED
    BY <2>1 DEF Route, callVars
<1>3. CASE EndOwner \/ CancelOwner \/ FailOwner
  <2>1. \E at, w, next : SettleOwner(at, w, next)
    BY <1>3 DEF EndOwner, CancelOwner, FailOwner
  <2> QED
    BY <2>1 DEF SettleOwner, callVars
<1>4. CASE OfferNotification \/ OverflowNotification \/ AbandonFailed
  BY <1>4 DEF OfferNotification, OverflowNotification, AbandonFailed, callVars
<1>5. ASSUME NEW o \in Owners, Cancel(o) \/ InterruptOffer(o)
      PROVE  UNCHANGED <<subscribes, scope, lost, abandons>>
  BY <1>5 DEF Cancel, InterruptOffer, callVars, loopVars
<1>6. CASE Close \/ CloseScope \/ StopLoop
  BY <1>6 DEF Close, CloseScope, StopLoop, callVars, loopVars
<1> QED
  BY <1>1, <1>2, <1>3, <1>4, <1>5, <1>6 DEF Next, LoopStep

LEMMA TypeOKStep == TypeOK /\ LoopInv /\ [Next]_vars => TypeOK'
<1> SUFFICES ASSUME TypeOK, LoopInv, Next PROVE TypeOK'
  BY DEF TypeOK, vars, Idle
<1>1. ASSUME NEW o \in Owners, Request(o) \/ RefuseRequest(o) \/ WriteRequest(o)
                                \/ SendReturns(o) \/ StopCaller(o)
      PROVE  TypeOK'
  <2>1. CASE Request(o)
    BY <2>1 DEF TypeOK, Request
  <2>2. CASE RefuseRequest(o)
    BY <2>2 DEF TypeOK, RefuseRequest
  <2>3. CASE WriteRequest(o) \/ SendReturns(o) \/ StopCaller(o)
    BY <2>3 DEF TypeOK, WriteRequest, SendReturns, StopCaller
  <2> QED
    BY <1>1, <2>1, <2>2, <2>3
<1>2. ASSUME NEW o \in Owners, TakeEvent(o) PROVE TypeOK'
  <2>1. /\ Head(queue[o]) \in Events /\ Tail(queue[o]) \in Seq(Events)
        /\ Len(Tail(queue[o])) <= Capacity
    BY <1>2, CapacityAssumption DEF TypeOK, TakeEvent
  <2>2. Append(stream[o], Head(queue[o])) \in Seq(Events)
    BY <2>1 DEF TypeOK
  <2> QED
    BY <1>2, <2>1, <2>2 DEF TypeOK, TakeEvent
<1>3. ASSUME NEW o \in Owners, Leave(o) PROVE TypeOK'
  <2>1. <<>> \in Seq(Events) /\ Len(<<>>) <= Capacity
    BY CapacityAssumption
  <2>2. abandons' \in [Owners -> Nat]
    BY <1>3 DEF TypeOK, Leave, Abandonment
  <2>3. /\ active' \in [Ids -> Owners \cup {NoOwner}]
        /\ outcome' \in [Owners -> {"none", "refused", "left"} \cup Finals]
        /\ closed' \in BOOLEAN
    BY <1>3, RemoveType DEF TypeOK, Leave
  <2> QED
    BY <1>3, <2>1, <2>2, <2>3 DEF TypeOK, Leave
<1>4. ASSUME NEW o \in Owners, OfferFinal(o) PROVE TypeOK'
  <2>1. PICK e \in pending[o] : /\ pending' = [pending EXCEPT ![o] = @ \ {e}]
                                /\ queue' = [queue EXCEPT ![o] = Append(@, e)]
    BY <1>4 DEF OfferFinal
  <2>2. e \in Events /\ HasRoom(o)
    BY <1>4 DEF TypeOK, Events, OfferFinal
  <2> QED
    BY <1>4, <2>1, <2>2, AppendType DEF TypeOK, OfferFinal
<1>5. ASSUME NEW o \in Owners, RouteStep(o) PROVE TypeOK'
  <2>1. PICK f \in {"note", "ack", "none"},
             at \in {"offering", "failing", "cancelling", "ending"} :
          /\ Route(o, f, at)
          /\ acked' = acked \/ acked' = [acked EXCEPT ![o] = subscribes[o]]
    BY <1>5, RouteSteps
  <2>2. /\ inbound' \in [at : {"offering", "failing", "cancelling", "ending"},
                          owner : Owners, frame : {"note", "ack", "none"}]
        /\ frames' \in Nat
    BY <2>1 DEF TypeOK, Route
  <2>3. acked' \in [Owners -> BOOLEAN]
    BY <2>1 DEF TypeOK
  <2> QED
    BY <2>1, <2>2, <2>3 DEF TypeOK, Route
<1>6. ASSUME OfferNotification PROVE TypeOK'
  <2>1. inbound.owner \in Owners /\ inbound.frame \in {"note", "ack"}
    BY <1>6 DEF TypeOK, LoopInv, OfferNotification, Idle
  <2>2. inbound.frame \in Events
    BY <2>1 DEF Events
  <2> QED
    BY <1>6, <2>1, <2>2, AppendType DEF TypeOK, OfferNotification
<1>7. ASSUME OverflowNotification PROVE TypeOK'
  <2>1. inbound.owner \in Owners /\ inbound # Idle
    BY <1>7 DEF TypeOK, OverflowNotification, Idle
  <2>2. inbound' = [at |-> "failing", owner |-> inbound.owner, frame |-> "none"]
    BY <1>7, <2>1 DEF TypeOK, OverflowNotification
  <2> QED
    BY <1>7, <2>1, <2>2 DEF TypeOK, OverflowNotification
<1>8. ASSUME EndOwner \/ CancelOwner \/ FailOwner PROVE TypeOK'
  <2>1. PICK at \in {"ending", "cancelling", "failing"}, w \in Finals,
             next \in {Idle, [inbound EXCEPT !.at = "abandoning"]} :
               SettleOwner(at, w, next)
    BY <1>8 DEF EndOwner, CancelOwner, FailOwner, Finals
  <2>2. inbound # Idle /\ inbound.owner \in Owners
    BY <2>1 DEF TypeOK, SettleOwner, Idle
  <2>3. inbound' \in {Idle} \cup [at : {"abandoning"}, owner : Owners, frame : {"note", "ack", "none"}]
    <3>1. inbound \in [at : {"offering", "failing", "cancelling", "ending", "abandoning"},
                       owner : Owners, frame : {"note", "ack", "none"}]
      BY <2>2 DEF TypeOK
    <3>2. [inbound EXCEPT !.at = "abandoning"]
            \in [at : {"abandoning"}, owner : Owners, frame : {"note", "ack", "none"}]
      BY <3>1
    <3> QED
      BY <2>1, <3>2 DEF SettleOwner
  <2>4. CASE Remove(inbound.owner, w) /\ EnqueueFinal(inbound.owner, w)
    BY <2>1, <2>2, <2>3, <2>4, RemoveType DEF TypeOK, SettleOwner, EnqueueFinal
  <2>5. CASE UNCHANGED <<tableVars, queue, pending>>
    BY <2>1, <2>3, <2>5 DEF TypeOK, SettleOwner
  <2> QED
    BY <2>1, <2>4, <2>5 DEF SettleOwner
<1>9. ASSUME AbandonFailed PROVE TypeOK'
  BY <1>9 DEF TypeOK, AbandonFailed, Abandonment, Idle
<1>10. ASSUME NEW o \in Owners, Cancel(o) PROVE TypeOK'
  BY <1>10, RemoveType DEF TypeOK, Cancel, EnqueueFinal, Finals
<1>11. ASSUME Close PROVE TypeOK'
  BY <1>11 DEF TypeOK, Close, Finals
<1>12. ASSUME CloseScope \/ StopLoop PROVE TypeOK'
  BY <1>12 DEF TypeOK, CloseScope, StopLoop
<1>13. ASSUME NEW o \in Owners, InterruptOffer(o) PROVE TypeOK'
  BY <1>13 DEF TypeOK, InterruptOffer
<1> QED
  BY <1>1, <1>2, <1>3, <1>4, <1>5, <1>6, <1>7, <1>8, <1>9, <1>10, <1>11, <1>12, <1>13
     DEF Next, CallStep, LoopStep

-----------------------------------------------------------------------------
(* The table, and what the loop knows.                                     *)

\* Taking an owner out of the table takes out nobody else.
LEMMA RemoveEffect ==
  ASSUME TypeOK, NEW o \in Owners, NEW w, Holds(o), Remove(o, w), UNCHANGED idOf
  PROVE  \A p \in Owners : /\ Holds(p)' <=> Holds(p) /\ p # o
                           /\ outcome'[p] = IF p = o THEN w ELSE outcome[p]
BY OwnersAssumption DEF TypeOK, Holds, Remove

\* What any step may do to the table and the outcomes: register a call that has
\* just begun, refuse one, or take one or all out with an outcome.
LEMMA TableSteps ==
  ASSUME TypeOK, TableInv, Next, NEW p \in Owners
  PROVE  \/ (Holds(p)' <=> Holds(p)) /\ outcome'[p] = outcome[p]
         \/ Request(p) /\ Holds(p)' /\ outcome'[p] = outcome[p]
         \/ RefuseRequest(p) /\ ~Holds(p)' /\ outcome'[p] = "refused"
         \/ /\ Holds(p) /\ ~Holds(p)'
            /\ \/ Leave(p) /\ outcome'[p] = "left"
               \/ Cancel(p) /\ outcome'[p] = "cancelled"
               \/ Close /\ outcome'[p] = "closed"
               \/ EndOwner /\ inbound.owner = p /\ outcome'[p] = "terminal"
               \/ CancelOwner /\ inbound.owner = p /\ outcome'[p] = "cancelled"
               \/ FailOwner /\ inbound.owner = p /\ outcome'[p] = "failed"
<1>1. ASSUME NEW o \in Owners, Request(o)
      PROVE  \/ (Holds(p)' <=> Holds(p)) /\ outcome'[p] = outcome[p]
             \/ Request(p) /\ Holds(p)' /\ outcome'[p] = outcome[p]
  BY <1>1, OwnersAssumption DEF TypeOK, Request, Holds
<1>2. ASSUME NEW o \in Owners, RefuseRequest(o)
      PROVE  \/ (Holds(p)' <=> Holds(p)) /\ outcome'[p] = outcome[p]
             \/ RefuseRequest(p) /\ ~Holds(p)' /\ outcome'[p] = "refused"
  <2>1. (Holds(p)' <=> Holds(p))
    BY <1>2 DEF RefuseRequest, Holds
  <2>2. CASE p = o
    BY <1>2, <2>1, <2>2 DEF TypeOK, TableInv, RefuseRequest
  <2>3. CASE p # o
    BY <1>2, <2>1, <2>3 DEF TypeOK, RefuseRequest
  <2> QED
    BY <2>2, <2>3
<1>3. ASSUME UNCHANGED <<idOf, active, outcome>>
      PROVE  (Holds(p)' <=> Holds(p)) /\ outcome'[p] = outcome[p]
  BY <1>3 DEF Holds
<1>4. ASSUME NEW o \in Owners, NEW w, Holds(o), Remove(o, w), UNCHANGED idOf
      PROVE  \/ (Holds(p)' <=> Holds(p)) /\ outcome'[p] = outcome[p]
             \/ p = o /\ Holds(p) /\ ~Holds(p)' /\ outcome'[p] = w
  BY <1>4, RemoveEffect
<1>5. ASSUME Close
      PROVE  \/ (Holds(p)' <=> Holds(p)) /\ outcome'[p] = outcome[p]
             \/ Holds(p) /\ ~Holds(p)' /\ outcome'[p] = "closed"
  BY <1>5, OwnersAssumption DEF TypeOK, Close, Holds
<1>6. ASSUME NEW o \in Owners, Leave(o), ~UNCHANGED <<active, outcome>>
      PROVE  Holds(o) /\ Remove(o, "left") /\ UNCHANGED idOf
  BY <1>6 DEF Leave, Removable
<1>7. ASSUME NEW at \in {"ending", "cancelling", "failing"}, NEW w, NEW next,
             SettleOwner(at, w, next), ~UNCHANGED <<active, outcome>>
      PROVE  Holds(inbound.owner) /\ Remove(inbound.owner, w) /\ inbound.owner \in Owners
  <2>1. inbound.at = at /\ Removable(inbound.owner) /\ Remove(inbound.owner, w)
    BY <1>7 DEF SettleOwner
  <2>2. inbound.owner \in Owners
    BY <2>1 DEF TypeOK, Idle
  <2> QED
    BY <2>1, <2>2 DEF Removable
<1>8. ASSUME NEW o \in Owners, Leave(o)
      PROVE  \/ (Holds(p)' <=> Holds(p)) /\ outcome'[p] = outcome[p]
             \/ Holds(p) /\ ~Holds(p)' /\ Leave(p) /\ outcome'[p] = "left"
  BY <1>3, <1>4, <1>6, <1>8 DEF Leave
<1>9. ASSUME NEW o \in Owners, Cancel(o)
      PROVE  \/ (Holds(p)' <=> Holds(p)) /\ outcome'[p] = outcome[p]
             \/ Holds(p) /\ ~Holds(p)' /\ Cancel(p) /\ outcome'[p] = "cancelled"
  BY <1>4, <1>9 DEF Cancel
<1>10. ASSUME NEW at \in {"ending", "cancelling", "failing"}, NEW w, NEW next,
              SettleOwner(at, w, next)
      PROVE  \/ (Holds(p)' <=> Holds(p)) /\ outcome'[p] = outcome[p]
             \/ Holds(p) /\ ~Holds(p)' /\ inbound.owner = p /\ outcome'[p] = w
  BY <1>3, <1>4, <1>7, <1>10 DEF SettleOwner
<1>11. ASSUME NEW o \in Owners, RouteStep(o) PROVE UNCHANGED <<idOf, active, outcome>>
  BY <1>11 DEF RouteStep, RouteNotification, RouteResponse, RouteInvalid,
               RouteCancellation, Route
<1>12. CASE EndOwner \/ CancelOwner \/ FailOwner
  BY <1>10, <1>12 DEF EndOwner, CancelOwner, FailOwner
<1>13. CASE OfferNotification \/ OverflowNotification \/ AbandonFailed
  BY <1>3, <1>13 DEF OfferNotification, OverflowNotification, AbandonFailed
<1>14. ASSUME NEW o \in Owners, CallStep(o)
       PROVE  \/ UNCHANGED <<idOf, active, outcome>>
              \/ Request(o) \/ RefuseRequest(o) \/ Leave(o)
  BY <1>14 DEF CallStep, WriteRequest, SendReturns, StopCaller, TakeEvent, OfferFinal
<1>15. CASE CloseScope \/ StopLoop \/ \E o \in Owners : InterruptOffer(o)
  BY <1>3, <1>15 DEF CloseScope, StopLoop, InterruptOffer
<1> QED
  BY <1>1, <1>2, <1>3, <1>5, <1>8, <1>9, <1>11, <1>12, <1>13, <1>14, <1>15
     DEF Next, LoopStep

-----------------------------------------------------------------------------
(* What any step may do to the events of one call, by who takes it.        *)

Still(p) == /\ queue'[p] = queue[p] /\ pending'[p] = pending[p]
            /\ stream'[p] = stream[p]
Settled(p) == (Holds(p)' <=> Holds(p)) /\ outcome'[p] = outcome[p]
Begins(p) == /\ Still(p) /\ caller[p] = "idle"
             /\ \/ caller'[p] = "sending" /\ outcome'[p] = outcome[p] /\ Holds(p)'
                \/ caller'[p] = "leaving" /\ outcome'[p] = "refused" /\ ~Holds(p)'
GoesOn(p) == Still(p) /\ Settled(p) /\ Live(p) /\ caller'[p] \in {"streaming", "leaving"}
Emits(p) == /\ Settled(p) /\ caller[p] = "streaming" /\ queue[p] # <<>>
            /\ stream'[p] = Append(stream[p], Head(queue[p]))
            /\ queue'[p] = Tail(queue[p])
            /\ pending'[p] = pending[p]
            /\ caller'[p] = IF Head(queue[p]) \in Finals THEN "leaving" ELSE "streaming"
Finishes(p) == /\ caller[p] = "leaving" /\ caller'[p] = "done"
               /\ ~Holds(p)'
               /\ outcome'[p] = IF Holds(p) THEN "left" ELSE outcome[p]
               /\ queue'[p] = <<>> /\ pending'[p] = {} /\ stream'[p] = stream[p]
GetsFinal(p) == /\ Settled(p) /\ caller'[p] = caller[p] /\ caller[p] # "done"
                /\ stream'[p] = stream[p]
                /\ \E e \in pending[p] : /\ pending'[p] = pending[p] \ {e}
                                         /\ queue'[p] = Append(queue[p], e)
GetsNotified(p) == /\ Settled(p) /\ caller'[p] = caller[p]
                   /\ OfferNotification /\ inbound.owner = p
                   /\ stream'[p] = stream[p] /\ pending'[p] = pending[p]
                   /\ queue'[p] = Append(queue[p], inbound.frame)
Ends(p) == /\ Holds(p) /\ ~Holds(p)' /\ caller'[p] = caller[p]
           /\ outcome'[p] \in Finals
           /\ outcome'[p] \in {"terminal", "failed"} => inbound.owner = p
           /\ outcome'[p] = "terminal" => EndOwner
           /\ outcome'[p] = "failed" => FailOwner
           /\ queue'[p] = queue[p] /\ stream'[p] = stream[p]
           /\ pending'[p] = IF scope = "open" THEN pending[p] \cup {outcome'[p]}
                                             ELSE pending[p]
Loses(p) == /\ Settled(p) /\ caller'[p] = caller[p] /\ scope # "open"
            /\ queue'[p] = queue[p] /\ stream'[p] = stream[p]
            /\ \E e \in pending[p] : pending'[p] = pending[p] \ {e}
Waits(p) == Still(p) /\ Settled(p) /\ caller'[p] = caller[p]

LEMMA CallSteps ==
  ASSUME TypeOK, TableInv, NEW o \in Owners, CallStep(o), NEW p \in Owners
  PROVE  \/ Waits(p) \/ Begins(p) \/ GoesOn(p) \/ Emits(p) \/ Finishes(p) \/ GetsFinal(p)
<1> USE DEF Still, Settled
<1>1. CASE p # o
  <2>1. Holds(p)' <=> Holds(p)
    <3>1. CASE Request(o)
      BY <1>1, <3>1, OwnersAssumption DEF TypeOK, Request, Holds
    <3>2. CASE Leave(o) /\ Removable(o)
      BY <1>1, <3>2, RemoveEffect DEF Leave, Removable
    <3>3. CASE UNCHANGED <<idOf, active>>
      BY <3>3 DEF Holds
    <3> QED
      BY <3>1, <3>2, <3>3 DEF CallStep, RefuseRequest, WriteRequest, SendReturns,
           StopCaller, TakeEvent, OfferFinal, Leave
  <2>2. /\ caller'[p] = caller[p] /\ queue'[p] = queue[p] /\ pending'[p] = pending[p]
        /\ stream'[p] = stream[p] /\ outcome'[p] = outcome[p]
    BY <1>1 DEF TypeOK, CallStep, Request, RefuseRequest, WriteRequest, SendReturns,
         StopCaller, TakeEvent, Leave, Remove, OfferFinal
  <2> QED
    BY <2>1, <2>2 DEF Waits
<1>2. CASE p = o
  <2>1. CASE Request(o)
    BY <1>2, <2>1, OwnersAssumption DEF TypeOK, Request, Begins, Holds
  <2>2. CASE RefuseRequest(o)
    BY <1>2, <2>2 DEF TypeOK, TableInv, RefuseRequest, Begins, Holds
  <2>3. CASE WriteRequest(o)
    BY <1>2, <2>3 DEF WriteRequest, Waits, Holds
  <2>4. CASE SendReturns(o) \/ StopCaller(o)
    BY <1>2, <2>4 DEF TypeOK, SendReturns, StopCaller, GoesOn, Live, Holds
  <2>5. CASE TakeEvent(o)
    BY <1>2, <2>5 DEF TypeOK, TakeEvent, Emits, Holds
  <2>6. CASE Leave(o) /\ Removable(o)
    BY <1>2, <2>6, RemoveEffect DEF TypeOK, Leave, Removable, Finishes
  <2>7. CASE Leave(o) /\ ~Removable(o)
    BY <1>2, <2>7 DEF TypeOK, Leave, Removable, Finishes, Holds
  <2>8. CASE OfferFinal(o)
    BY <1>2, <2>8 DEF TypeOK, OfferFinal, HasRoom, GetsFinal, Holds
  <2> QED
    BY <2>1, <2>2, <2>3, <2>4, <2>5, <2>6, <2>7, <2>8 DEF CallStep
<1> QED
  BY <1>1, <1>2

LEMMA EventSteps ==
  ASSUME TypeOK, TableInv, Next, NEW p \in Owners
  PROVE  \/ Waits(p) \/ Begins(p) \/ GoesOn(p) \/ Emits(p) \/ Finishes(p)
         \/ GetsFinal(p) \/ GetsNotified(p) \/ Ends(p) \/ Loses(p)
<1> USE DEF Still, Settled
<1>1. ASSUME NEW o \in Owners, RouteStep(o) PROVE Waits(p)
  BY <1>1 DEF RouteStep, RouteNotification, RouteResponse, RouteInvalid,
              RouteCancellation, Route, Waits, Holds
<1>2. CASE OfferNotification
  BY <1>2 DEF TypeOK, OfferNotification, GetsNotified, Waits, Holds
<1>3. CASE OverflowNotification \/ AbandonFailed
  BY <1>3 DEF OverflowNotification, AbandonFailed, Waits, Holds
<1>4. ASSUME NEW o \in Owners, NEW w \in Finals, Holds(o), Remove(o, w),
             EnqueueFinal(o, w), UNCHANGED <<idOf, caller, stream>>
      PROVE  \/ Waits(p)
             \/ /\ p = o /\ Holds(p) /\ ~Holds(p)' /\ outcome'[p] = w
                /\ pending'[p] = IF scope = "open" THEN pending[p] \cup {w} ELSE pending[p]
                /\ caller'[p] = caller[p] /\ queue'[p] = queue[p]
                /\ stream'[p] = stream[p]
  <2>1. (Holds(p)' <=> Holds(p) /\ p # o) /\ outcome'[p] = IF p = o THEN w ELSE outcome[p]
    BY <1>4, RemoveEffect
  <2>2. /\ caller'[p] = caller[p] /\ queue'[p] = queue[p] /\ stream'[p] = stream[p]
        /\ pending'[p] = IF p = o /\ scope = "open" THEN pending[p] \cup {w} ELSE pending[p]
    BY <1>4 DEF TypeOK, EnqueueFinal
  <2> QED
    BY <1>4, <2>1, <2>2 DEF Waits
<1>5. ASSUME NEW at \in {"ending", "cancelling", "failing"}, NEW w \in Finals, NEW next,
             SettleOwner(at, w, next)
      PROVE  \/ Waits(p)
             \/ /\ p = inbound.owner /\ Holds(p) /\ ~Holds(p)' /\ outcome'[p] = w
                /\ pending'[p] = IF scope = "open" THEN pending[p] \cup {w} ELSE pending[p]
                /\ caller'[p] = caller[p] /\ queue'[p] = queue[p]
                /\ stream'[p] = stream[p]
  <2>1. CASE UNCHANGED <<active, outcome, queue, pending>>
    BY <1>5, <2>1 DEF SettleOwner, Waits, Holds
  <2>2. CASE /\ Removable(inbound.owner) /\ Remove(inbound.owner, w)
             /\ EnqueueFinal(inbound.owner, w)
    <3>1. inbound.owner \in Owners
      BY <1>5 DEF TypeOK, Idle, SettleOwner
    <3> QED
      BY <1>4, <1>5, <2>2, <3>1 DEF SettleOwner, Removable
  <2> QED
    BY <1>5, <2>1, <2>2 DEF SettleOwner
<1>6. CASE EndOwner \/ CancelOwner \/ FailOwner
  BY <1>5, <1>6 DEF EndOwner, CancelOwner, FailOwner, Finals, Ends
<1>7. ASSUME NEW o \in Owners, Cancel(o) PROVE Waits(p) \/ Ends(p)
  BY <1>4, <1>7 DEF Cancel, Ends, Finals
<1>8. CASE Close
  BY <1>8, OwnersAssumption DEF TypeOK, Close, Holds, Ends, Waits, Finals
<1>9. CASE CloseScope \/ StopLoop
  BY <1>9 DEF CloseScope, StopLoop, Waits, Holds
<1>10. ASSUME NEW o \in Owners, InterruptOffer(o) PROVE Waits(p) \/ Loses(p)
  BY <1>10 DEF TypeOK, InterruptOffer, Waits, Loses, Holds
<1> QED
  BY <1>1, <1>2, <1>3, <1>6, <1>7, <1>8, <1>9, <1>10, CallSteps DEF Next, LoopStep

\* A scope that closes never opens again, and only its close stops the loop.
LEMMA ScopeSteps ==
  ASSUME TypeOK, Next
  PROVE  /\ scope # "open" => scope' # "open"
         /\ scope = "stopped" => scope' = "stopped"
         /\ scope' = "stopped" => scope = "stopped" \/ StopLoop
BY StepFrames DEF CloseScope, StopLoop

-----------------------------------------------------------------------------
(* Every request ends exactly once.                                        *)

\* Only the finalizer and the loop, after it has failed the owner, abandon.
LEMMA AbandonSteps ==
  ASSUME TypeOK, Next, NEW p \in Owners
  PROVE  \/ abandons'[p] = abandons[p]
         \/ Leave(p) /\ Holds(p) /\ abandons'[p] \in {abandons[p], abandons[p] + 1}
         \/ /\ AbandonFailed /\ inbound.at = "abandoning" /\ inbound.owner = p
            /\ abandons'[p] \in {abandons[p], abandons[p] + 1}
<1>1. CASE UNCHANGED abandons
  BY <1>1
<1>2. ASSUME NEW o \in Owners, Leave(o), Removable(o)
      PROVE  abandons' = [abandons EXCEPT ![o] = @ + Abandonment(o)]
  BY <1>2 DEF Leave
<1>3. CASE AbandonFailed
  BY <1>3 DEF TypeOK, AbandonFailed, Abandonment
<1>4. ASSUME NEW o \in Owners, Leave(o), Removable(o)
      PROVE  \/ abandons'[p] = abandons[p]
             \/ Leave(p) /\ Holds(p) /\ abandons'[p] \in {abandons[p], abandons[p] + 1}
  BY <1>2, <1>4 DEF TypeOK, Removable, Abandonment
<1> QED
  BY <1>1, <1>3, <1>4, StepFrames

LEMMA TableInvStep == TypeOK /\ TableInv /\ LoopInv /\ [Next]_vars => TableInv'
<1> SUFFICES ASSUME TypeOK, TableInv, LoopInv, Next PROVE TableInv'
  BY DEF TableInv, Holds, vars
<1> SUFFICES ASSUME NEW p \in Owners
             PROVE  /\ Holds(p)' <=> outcome'[p] = "none" /\ caller'[p] # "idle"
                    /\ caller'[p] = "idle" =>
                         /\ outcome'[p] = "none" /\ abandons'[p] = 0
                         /\ queue'[p] = <<>> /\ pending'[p] = {} /\ stream'[p] = <<>>
                    /\ caller'[p] = "done" => outcome'[p] # "none"
  BY DEF TableInv
<1> USE DEF TableInv, Still, Settled
<1>1. caller[p] = "idle" => abandons'[p] = 0
  <2>1. inbound.at = "abandoning" /\ inbound.owner = p => caller[p] # "idle"
    BY DEF LoopInv, Idle
  <2> QED
    BY <2>1, AbandonSteps DEF Leave
<1>2. CASE Waits(p) \/ Begins(p) \/ GoesOn(p)
  BY <1>1, <1>2 DEF Waits, Begins, GoesOn, Live
<1>3. CASE Emits(p) \/ Finishes(p) \/ Ends(p)
  BY <1>3 DEF Emits, Finishes, Ends, Finals
<1>4. CASE GetsFinal(p) \/ Loses(p)
  BY <1>4 DEF GetsFinal, Loses
<1>5. CASE GetsNotified(p)
  <2>1. caller[p] # "idle"
    BY <1>5 DEF GetsNotified, OfferNotification, LoopInv, Idle
  <2> QED
    BY <1>5, <2>1 DEF GetsNotified
<1> QED
  BY <1>2, <1>3, <1>4, <1>5, EventSteps

\* A request with a response or as failed is ended by a move of the loop.
LEMMA SettleMoves ==
  ASSUME TypeOK, inbound # Idle
  PROVE  /\ EndOwner => inbound' = Idle
         /\ FailOwner => \/ inbound' = Idle
                         \/ /\ inbound' = [at |-> "abandoning", owner |-> inbound.owner,
                                           frame |-> inbound.frame]
                            /\ Holds(inbound.owner) /\ Remove(inbound.owner, "failed")
                            /\ UNCHANGED <<caller, abandons>>
BY DEF TypeOK, EndOwner, FailOwner, SettleOwner, Removable

\* A step of the loop or of anybody else keeps what the loop knows.
LEMMA LoopInvStep ==
  TypeOK /\ TableInv /\ LoopInv /\ EndsExactlyOnce /\ [Next]_vars => LoopInv'
<1> SUFFICES ASSUME TypeOK, TableInv, LoopInv, EndsExactlyOnce, Next, inbound' # Idle
             PROVE  LoopInv'
  BY DEF LoopInv, vars
<1>1. ASSUME inbound' = inbound, UNCHANGED <<acked, subscribes, scope>> PROVE LoopInv'
  <2> DEFINE o == inbound.owner
  <2>1. o \in Owners /\ inbound # Idle
    BY <1>1 DEF TypeOK
  <2>2. caller'[o] # "idle"
    BY <1>1, <2>1, EventSteps
       DEF LoopInv, Live, Waits, Begins, GoesOn, Emits, Finishes, GetsFinal, GetsNotified,
           Ends, Loses
  <2>3. outcome[o] = "failed" => outcome'[o] = "failed"
    BY <2>1, TableSteps DEF TableInv, RefuseRequest
  <2>4. outcome[o] = "failed" => abandons'[o] = abandons[o]
    <3>1. ~AbandonFailed
      BY <1>1, <2>1 DEF AbandonFailed
    <3>2. outcome[o] = "failed" => ~Holds(o)
      BY <2>1 DEF TableInv
    <3> QED
      BY <2>1, <3>1, <3>2, AbandonSteps
  <2>5. ~(EndOwner \/ FailOwner)
    BY <1>1, <2>1, SettleMoves DEF FailOwner, SettleOwner
  <2>6. outcome[o] \notin {"terminal", "failed"} => outcome'[o] \notin {"terminal", "failed"}
    BY <2>1, <2>5, TableSteps
  <2> QED
    BY <1>1, <2>1, <2>2, <2>3, <2>4, <2>6 DEF LoopInv
<1>2. ASSUME NEW o \in Owners, RouteStep(o) PROVE LoopInv'
  <2>1. PICK f \in {"note", "ack", "none"},
             at \in {"offering", "failing", "cancelling", "ending"} :
          /\ Route(o, f, at)
          /\ at = "offering" => f \in {"note", "ack"}
          /\ (at \in {"offering", "ending"} /\ subscribes[o]) => acked'[o]
    BY <1>2, RouteSteps
  <2>2. caller[o] # "idle" /\ outcome[o] = "none"
    BY <2>1 DEF TableInv, Route
  <2> QED
    BY <2>1, <2>2 DEF Route, LoopInv
<1>3. CASE OverflowNotification
  <2>1. inbound # Idle
    BY <1>3 DEF OverflowNotification, Idle
  <2>2. inbound' = [at |-> "failing", owner |-> inbound.owner, frame |-> "none"]
    BY <1>3, <2>1 DEF TypeOK, OverflowNotification
  <2> QED
    BY <1>3, <2>1, <2>2 DEF OverflowNotification, LoopInv
<1>4. CASE EndOwner \/ CancelOwner \/ FailOwner
  <2>1. inbound # Idle /\ ~CancelOwner
    BY <1>4 DEF EndOwner, CancelOwner, FailOwner, SettleOwner, Idle
  <2>2. /\ inbound' = [at |-> "abandoning", owner |-> inbound.owner,
                       frame |-> inbound.frame]
        /\ Holds(inbound.owner) /\ Remove(inbound.owner, "failed")
        /\ UNCHANGED <<caller, abandons>>
    BY <1>4, <2>1, SettleMoves
  <2>3. inbound.owner \in Owners
    BY <2>1 DEF TypeOK
  <2>4. outcome'[inbound.owner] = "failed"
    BY <2>2, <2>3 DEF TypeOK, Remove
  <2>5. outcome[inbound.owner] = "none" /\ caller[inbound.owner] # "idle"
    BY <2>2, <2>3 DEF TableInv
  <2>6. abandons[inbound.owner] > 0 => outcome[inbound.owner] \in {"failed", "left"}
    BY <2>3 DEF EndsExactlyOnce
  <2>7. abandons[inbound.owner] = 0
    BY <2>3, <2>5, <2>6 DEF TypeOK
  <2>8. scope' # "stopped"
    BY <1>4, <2>1 DEF LoopInv, EndOwner, CancelOwner, FailOwner, SettleOwner
  <2> QED
    BY <2>2, <2>4, <2>5, <2>7, <2>8 DEF LoopInv
<1>5. CASE OfferNotification \/ AbandonFailed
  BY <1>5 DEF OfferNotification, AbandonFailed
<1>6. ASSUME NEW o \in Owners, CallStep(o) \/ Cancel(o) \/ InterruptOffer(o)
      PROVE  LoopInv'
  BY <1>1, <1>6 DEF CallStep, Request, RefuseRequest, WriteRequest, SendReturns,
                    StopCaller, TakeEvent, Leave, OfferFinal, Cancel, InterruptOffer
<1>7. CASE Close
  BY <1>1, <1>7 DEF Close
<1>8. CASE CloseScope
  <2>1. /\ UNCHANGED <<inbound, acked, subscribes, caller, outcome, abandons>>
        /\ scope' = "closing"
    BY <1>8 DEF CloseScope
  <2> QED
    BY <2>1 DEF LoopInv
<1>9. CASE StopLoop
  BY <1>9 DEF StopLoop
<1> QED
  BY <1>8, <1>9, <1>2, <1>3, <1>4, <1>5, <1>6, <1>7 DEF Next, LoopStep

LEMMA StreamInvStep == TypeOK /\ TableInv /\ StreamInv /\ [Next]_vars => StreamInv'
<1> SUFFICES ASSUME TypeOK, TableInv, StreamInv, Next, NEW p \in Owners,
                    caller'[p] \notin {"leaving", "done"}
             PROVE  ~HasFinal(stream'[p])
  BY DEF StreamInv, HasFinal, vars
<1>1. CASE Emits(p)
  <2>1. Head(queue[p]) \notin Finals /\ stream'[p] = Append(stream[p], Head(queue[p]))
    BY <1>1 DEF Emits
  <2>2. stream[p] \in Seq(Events) /\ ~HasFinal(stream[p])
    BY <1>1 DEF Emits, TypeOK, StreamInv
  <2> QED
    BY <2>1, <2>2 DEF HasFinal
<1>2. CASE stream'[p] = stream[p] /\ caller[p] \notin {"leaving", "done"}
  BY <1>2 DEF StreamInv
<1> QED
  BY <1>1, <1>2, EventSteps
     DEF Still, Live, Waits, Begins, GoesOn, Finishes, GetsFinal, GetsNotified, Ends,
          Loses

\* The queue and the forked offer of a call whose stream is still read.
EndInSight(o) ==
  IF Holds(o)
    THEN pending[o] = {} /\ ~HasFinal(queue[o])
    ELSE \/ pending[o] = {outcome[o]} /\ ~HasFinal(queue[o])
         \/ /\ pending[o] = {}
            /\ \E j \in DOMAIN queue[o] :
                 /\ queue[o][j] = outcome[o]
                 /\ \A k \in DOMAIN queue[o] : queue[o][k] \in Finals <=> k = j
         \/ scope # "open" /\ pending[o] = {} /\ ~HasFinal(queue[o])

\* What is no final event leaves the end where it is, and a final event that goes
\* into a queue without one becomes its end.
LEMMA AppendEvent ==
  ASSUME NEW q \in Seq(Events), NEW e \in Events
  PROVE  /\ Append(q, e) \in Seq(Events)
         /\ DOMAIN Append(q, e) = DOMAIN q \cup {Len(q) + 1}
         /\ Len(q) + 1 \notin DOMAIN q
         /\ Append(q, e)[Len(q) + 1] = e
         /\ \A j \in DOMAIN q : Append(q, e)[j] = q[j]
OBVIOUS

LEMMA EndInSightStep ==
  ASSUME TypeOK, TableInv, LoopInv, Next, NEW p \in Owners,
         Live(p) => EndInSight(p), caller'[p] \in {"sending", "streaming"}
  PROVE  EndInSight(p)'
<1> USE DEF Still, Settled, Live
<1>0. queue[p] \in Seq(Events) /\ pending[p] \subseteq Finals /\ Finals \subseteq Events
  BY DEF TypeOK, Events
<1>01. scope # "open" => scope' # "open"
  BY ScopeSteps
<1>1. CASE Waits(p) \/ GoesOn(p)
  BY <1>01, <1>1 DEF Waits, GoesOn, EndInSight, HasFinal
<1>2. CASE Begins(p)
  BY <1>2 DEF Begins, TableInv, EndInSight, HasFinal
<1>3. CASE Emits(p)
  <2>1. Head(queue[p]) = queue[p][1] /\ Head(queue[p]) \notin Finals /\ queue[p] # <<>>
    BY <1>0, <1>3 DEF Emits
  <2>2. /\ DOMAIN Tail(queue[p]) = 1..(Len(queue[p]) - 1)
        /\ \A j \in 1..(Len(queue[p]) - 1) : Tail(queue[p])[j] = queue[p][j + 1]
        /\ DOMAIN queue[p] = 1..Len(queue[p]) /\ Len(queue[p]) \in Nat
    BY <1>0, <2>1
  <2>3. ~HasFinal(queue[p]) => ~HasFinal(Tail(queue[p]))
    BY <2>2 DEF HasFinal
  <2>4. ASSUME NEW j \in DOMAIN queue[p], queue[p][j] = outcome[p],
               \A k \in DOMAIN queue[p] : queue[p][k] \in Finals <=> k = j
        PROVE  \E i \in DOMAIN Tail(queue[p]) :
                 /\ Tail(queue[p])[i] = outcome[p]
                 /\ \A k \in DOMAIN Tail(queue[p]) : Tail(queue[p])[k] \in Finals <=> k = i
    <3>1. j # 1
      BY <2>1, <2>4
    <3>2. j - 1 \in DOMAIN Tail(queue[p]) /\ Tail(queue[p])[j - 1] = outcome[p]
      BY <2>2, <2>4, <3>1
    <3>3. \A k \in DOMAIN Tail(queue[p]) : Tail(queue[p])[k] \in Finals <=> k = j - 1
      BY <2>2, <2>4, <3>1, SMTT(60)
    <3> QED
      BY <3>2, <3>3
  <2>5. /\ queue'[p] = Tail(queue[p]) /\ pending'[p] = pending[p]
        /\ (Holds(p)' <=> Holds(p)) /\ outcome'[p] = outcome[p]
        /\ EndInSight(p)
    BY <1>3 DEF Emits
  <2>6. CASE ~HasFinal(queue[p])
    <3>1. ~HasFinal(queue'[p])
      BY <2>3, <2>5, <2>6
    <3>2. IF Holds(p) THEN pending[p] = {}
                      ELSE pending[p] = {outcome[p]} \/ (scope # "open" /\ pending[p] = {})
      <4>1. \A j \in DOMAIN queue[p] : queue[p][j] \notin Finals
        BY <2>6 DEF HasFinal
      <4> QED
        BY <2>5, <4>1 DEF EndInSight
    <3> QED
      BY <1>01, <2>5, <3>1, <3>2 DEF EndInSight
  <2>7. CASE HasFinal(queue[p])
    <3>1. /\ ~Holds(p) /\ pending[p] = {}
          /\ \E j \in DOMAIN queue[p] :
               /\ queue[p][j] = outcome[p]
               /\ \A k \in DOMAIN queue[p] : queue[p][k] \in Finals <=> k = j
      BY <2>5, <2>7 DEF EndInSight
    <3>2. \E i \in DOMAIN Tail(queue[p]) :
            /\ Tail(queue[p])[i] = outcome[p]
            /\ \A k \in DOMAIN Tail(queue[p]) : Tail(queue[p])[k] \in Finals <=> k = i
      BY <2>4, <3>1
    <3> QED
      BY <2>5, <3>1, <3>2 DEF EndInSight
  <2> QED
    BY <2>6, <2>7
<1>4. CASE GetsFinal(p)
  <2>1. PICK e \in pending[p] : /\ pending'[p] = pending[p] \ {e}
                                /\ queue'[p] = Append(queue[p], e)
    BY <1>4 DEF GetsFinal
  <2>2. ~Holds(p) /\ pending[p] = {outcome[p]} /\ e = outcome[p] /\ ~HasFinal(queue[p])
    BY <1>4, <2>1 DEF GetsFinal, EndInSight
  <2>3. pending'[p] = {} /\ ~Holds(p)' /\ outcome'[p] = e
    BY <1>4, <2>1, <2>2 DEF GetsFinal
  <2>4. e \in Finals /\ e \in Events
    BY <1>0, <2>1
  <2>5. \A k \in DOMAIN queue'[p] : queue'[p][k] \in Finals <=> k = Len(queue[p]) + 1
    BY <1>0, <2>1, <2>2, <2>4, AppendEvent DEF HasFinal
  <2>6. /\ Len(queue[p]) + 1 \in DOMAIN queue'[p]
        /\ queue'[p][Len(queue[p]) + 1] = outcome'[p]
    BY <1>0, <2>1, <2>3, <2>4, AppendEvent
  <2> QED
    BY <2>3, <2>5, <2>6 DEF EndInSight
<1>5. CASE GetsNotified(p)
  <2>1. inbound.frame \in {"note", "ack"} /\ queue'[p] = Append(queue[p], inbound.frame)
    BY <1>5 DEF GetsNotified, OfferNotification, LoopInv, Idle
  <2>2. inbound.frame \notin Finals /\ inbound.frame \in Events
    BY <2>1 DEF Finals, Events
  <2>3. HasFinal(queue'[p]) <=> HasFinal(queue[p])
    BY <1>0, <2>1, <2>2, AppendEvent DEF HasFinal
  <2>4. ASSUME NEW j \in DOMAIN queue[p], queue[p][j] = outcome[p],
               \A k \in DOMAIN queue[p] : queue[p][k] \in Finals <=> k = j
        PROVE  /\ j \in DOMAIN queue'[p] /\ queue'[p][j] = outcome[p]
               /\ \A k \in DOMAIN queue'[p] : queue'[p][k] \in Finals <=> k = j
    BY <1>0, <2>1, <2>2, <2>4, AppendEvent
  <2> QED
    BY <1>01, <1>5, <2>3, <2>4 DEF GetsNotified, EndInSight
<1>6. CASE Ends(p)
  BY <1>01, <1>6 DEF Ends, EndInSight, HasFinal, TableInv
<1>7. CASE Loses(p)
  <2>1. ~Holds(p) /\ pending[p] = {outcome[p]} /\ ~HasFinal(queue[p])
    BY <1>7 DEF Loses, EndInSight
  <2>2. pending'[p] = {}
    BY <1>7, <2>1 DEF Loses
  <2> QED
    BY <1>01, <1>7, <2>1, <2>2 DEF Loses, EndInSight, HasFinal
<1> QED
  BY <1>1, <1>2, <1>3, <1>4, <1>5, <1>6, <1>7, EventSteps DEF Finishes

LEMMA EndsStep ==
  TypeOK /\ TableInv /\ LoopInv /\ StreamInv /\ EndsExactlyOnce /\ [Next]_vars
    => EndsExactlyOnce'
<1>1. EndsExactlyOnce <=>
        \A o \in Owners :
          /\ Live(o) => EndInSight(o)
          /\ \A j \in DOMAIN stream[o] : stream[o][j] \in Finals => j = Len(stream[o])
          /\ abandons[o] > 0 => abandons[o] = 1 /\ outcome[o] \in {"failed", "left"}
  BY DEF EndsExactlyOnce, EndInSight, Live
<1>2. CASE UNCHANGED vars
  BY <1>2 DEF EndsExactlyOnce, HasFinal, Holds, vars
<1>3. ASSUME TypeOK, TableInv, LoopInv, StreamInv, EndsExactlyOnce, Next, NEW p \in Owners
      PROVE  /\ Live(p)' => EndInSight(p)'
             /\ \A j \in DOMAIN stream'[p] : stream'[p][j] \in Finals => j = Len(stream'[p])
             /\ abandons'[p] > 0 => abandons'[p] = 1 /\ outcome'[p] \in {"failed", "left"}
  <2>1. Live(p)' => EndInSight(p)'
    BY <1>1, <1>3, EndInSightStep DEF Live
  <2>2. \A j \in DOMAIN stream'[p] : stream'[p][j] \in Finals => j = Len(stream'[p])
    <3>1. CASE Emits(p)
      <4>1. /\ stream'[p] = Append(stream[p], Head(queue[p]))
            /\ ~HasFinal(stream[p]) /\ stream[p] \in Seq(Events)
        BY <1>3, <3>1 DEF Emits, StreamInv, TypeOK
      <4> QED
        BY <4>1 DEF HasFinal
    <3>2. CASE stream'[p] = stream[p]
      BY <1>1, <1>3, <3>2
    <3> QED
      BY <1>3, <3>1, <3>2, EventSteps
         DEF Still, Waits, Begins, GoesOn, Finishes, GetsFinal, GetsNotified, Ends,
          Loses
  <2>3. abandons'[p] > 0 => abandons'[p] = 1 /\ outcome'[p] \in {"failed", "left"}
    <3>1. /\ abandons[p] \in Nat
          /\ abandons[p] > 0 => abandons[p] = 1 /\ outcome[p] \in {"failed", "left"}
      BY <1>1, <1>3 DEF TypeOK
    <3>2. outcome[p] \in {"failed", "left"} => outcome'[p] = outcome[p]
      BY <1>3, TableSteps DEF TableInv, RefuseRequest
    <3>3. CASE abandons'[p] = abandons[p]
      BY <3>1, <3>2, <3>3
    <3>4. CASE Leave(p) /\ Holds(p) /\ abandons'[p] \in {abandons[p], abandons[p] + 1}
      <4>1. outcome[p] = "none"
        BY <1>3, <3>4 DEF TableInv
      <4>2. outcome'[p] = "left"
        BY <1>3, <3>4 DEF TypeOK, Leave, Removable, Remove
      <4> QED
        BY <3>1, <3>4, <4>1, <4>2
    <3>5. CASE /\ AbandonFailed /\ inbound.at = "abandoning" /\ inbound.owner = p
               /\ abandons'[p] \in {abandons[p], abandons[p] + 1}
      <4>1. outcome[p] = "failed" /\ abandons[p] = 0
        BY <1>3, <3>5 DEF LoopInv, Idle
      <4> QED
        BY <3>1, <3>2, <3>5, <4>1
    <3> QED
      BY <1>3, <3>3, <3>4, <3>5, AbandonSteps
  <2> QED
    BY <2>1, <2>2, <2>3
<1>4. EndsExactlyOnce' <=>
        \A o \in Owners :
          /\ Live(o)' => EndInSight(o)'
          /\ \A j \in DOMAIN stream'[o] : stream'[o][j] \in Finals => j = Len(stream'[o])
          /\ abandons'[o] > 0 => abandons'[o] = 1 /\ outcome'[o] \in {"failed", "left"}
  BY DEF EndsExactlyOnce, EndInSight, Live
<1> QED
  BY <1>2, <1>3, <1>4

-----------------------------------------------------------------------------
(* What a stream tells is whole.                                           *)

LEMMA LostInvStep == TypeOK /\ TableInv /\ LoopInv /\ LostInv /\ [Next]_vars => LostInv'
<1> SUFFICES ASSUME TypeOK, TableInv, LoopInv, LostInv, Next, NEW p \in lost'
             PROVE  \/ outcome'[p] \notin {"none", "terminal"}
                    \/ /\ outcome'[p] = "none"
                       /\ \/ inbound'.at = "failing" /\ inbound'.owner = p
                          \/ scope' = "stopped"
  BY DEF LostInv, vars
<1>1. CASE p \in lost /\ outcome[p] \notin {"none", "terminal"}
  <2>1. p \in Owners /\ ~Holds(p)
    BY <1>1 DEF TypeOK, TableInv
  <2> QED
    BY <1>1, <2>1, TableSteps DEF TableInv, RefuseRequest
<1>2. CASE p \in lost /\ outcome[p] = "none" /\ inbound.at = "failing" /\ inbound.owner = p
  <2>1. p \in Owners /\ inbound # Idle
    BY <1>2 DEF TypeOK, Idle
  <2>2. ~EndOwner
    BY <1>2 DEF EndOwner, SettleOwner
  <2>3. CASE outcome'[p] # "none"
    BY <1>2, <2>1, <2>2, <2>3, TableSteps
  <2>4. CASE UNCHANGED inbound
    BY <1>2, <2>1, <2>2, <2>4, TableSteps
  <2>5. CASE FailOwner
    <3>1. Holds(p)
      BY <1>2, <2>1 DEF TableInv, LoopInv
    <3>2. Remove(p, "failed")
      BY <1>2, <2>5, <3>1 DEF FailOwner, SettleOwner, Removable
    <3> QED
      BY <2>1, <3>2 DEF TypeOK, Remove
  <2>6. CASE StopLoop
    BY <1>2, <2>6 DEF StopLoop
  <2>7. ASSUME NEW o \in Owners, CallStep(o) \/ Cancel(o) \/ InterruptOffer(o)
        PROVE  UNCHANGED inbound
    BY <2>7 DEF CallStep, Request, RefuseRequest, WriteRequest, SendReturns, StopCaller,
         TakeEvent, Leave, OfferFinal, Cancel, InterruptOffer, loopVars
  <2>8. \A o \in Owners : ~RouteStep(o)
    BY <2>1, RouteSteps DEF Route
  <2>9. ~(OfferNotification \/ OverflowNotification \/ CancelOwner \/ AbandonFailed)
    BY <1>2 DEF OfferNotification, OverflowNotification, CancelOwner, SettleOwner,
         AbandonFailed
  <2>10. Close \/ CloseScope => UNCHANGED inbound
    BY DEF Close, CloseScope, loopVars
  <2> QED
    BY <1>2, <2>1, <2>2, <2>3, <2>4, <2>5, <2>6, <2>7, <2>8, <2>9, <2>10
       DEF Next, LoopStep
<1>3. CASE p \notin lost
  <2>1. OverflowNotification /\ p = inbound.owner
    <3>1. OverflowNotification
      BY <1>3, StepFrames
    <3> QED
      BY <1>3, <3>1 DEF OverflowNotification
  <2>2. inbound # Idle /\ outcome'[p] = outcome[p] /\ outcome[p] # "terminal"
    BY <2>1 DEF OverflowNotification, LoopInv, Idle
  <2>3. inbound'.at = "failing" /\ inbound'.owner = p
    BY <2>1, <2>2 DEF TypeOK, OverflowNotification
  <2> QED
    BY <2>2, <2>3
<1>4. CASE p \in lost /\ outcome[p] = "none" /\ scope = "stopped"
  <2>1. p \in Owners /\ inbound = Idle /\ scope' = "stopped"
    BY <1>4, ScopeSteps DEF TypeOK, LoopInv
  <2>2. ~EndOwner
    BY <2>1 DEF EndOwner, SettleOwner, Idle
  <2> QED
    BY <1>4, <2>1, <2>2, TableSteps
<1> QED
  BY <1>1, <1>2, <1>3, <1>4 DEF LostInv

\* Only routing and the end of an offer change what is in the loop's hands, and
\* only routing acknowledges.
LEMMA HandSame ==
  ASSUME TypeOK, Next, NEW p \in Owners, ~(\E o \in Owners : RouteStep(o)),
         ~OfferNotification, ~OverflowNotification, ~StopLoop
  PROVE  /\ acked' = acked
         /\ \A f : Hand(p, f)' <=> Hand(p, f)
<1>1. ASSUME NEW at \in {"ending", "cancelling", "failing"}, NEW w,
             NEW next \in {Idle, [inbound EXCEPT !.at = "abandoning"]},
             SettleOwner(at, w, next)
      PROVE  acked' = acked /\ inbound.at # "offering" /\ inbound'.at # "offering"
  <2>1. inbound # Idle
    BY <1>1 DEF SettleOwner, Idle
  <2>2. next.at # "offering"
    BY <2>1 DEF TypeOK, Idle
  <2> QED
    BY <1>1, <2>2 DEF SettleOwner, Idle
<1>2. CASE EndOwner \/ CancelOwner \/ FailOwner
  BY <1>1, <1>2 DEF EndOwner, CancelOwner, FailOwner, Hand
<1>3. CASE AbandonFailed
  BY <1>3 DEF AbandonFailed, Hand, Idle
<1>4. CASE UNCHANGED <<inbound, acked>>
  BY <1>4 DEF Hand
<1> QED
  BY <1>2, <1>3, <1>4
     DEF Next, CallStep, LoopStep, Request, RefuseRequest, WriteRequest, SendReturns,
         StopCaller, TakeEvent, Leave, OfferFinal, Cancel, Close, CloseScope,
         InterruptOffer

LEMMA AckInvRoute ==
  ASSUME TypeOK, LoopInv, NEW o \in Owners, RouteStep(o), NEW p \in Owners, subscribes[p],
         AckInv(p)
  PROVE  AckInv(p)'
<1>1. /\ inbound = Idle /\ scope # "stopped"
      /\ UNCHANGED <<active, idOf, stream, queue, pending, scope>>
  BY DEF RouteStep, RouteNotification, RouteResponse, RouteInvalid, RouteCancellation, Route
<1>2. \A f : ~Hand(p, f)
  BY <1>1 DEF Hand, Idle
<1>3. CASE (\A f : ~Hand(p, f)') /\ acked'[p] = acked[p]
  BY <1>1, <1>2, <1>3 DEF AckInv, Told, Holds
<1>4. CASE o = p /\ \E f \in Frames : RouteNotification(o, f)
  <2>1. PICK f \in Frames : RouteNotification(p, f)
    BY <1>4
  <2>2. /\ f = (IF acked[p] THEN "note" ELSE "ack") /\ Holds(p) /\ acked'[p]
        /\ inbound' = [at |-> "offering", owner |-> p, frame |-> f]
    BY <2>1 DEF TypeOK, RouteNotification, Route, Deliverable
  <2>3. Told(p) <=> acked[p]
    BY <1>1, <1>2, <2>2 DEF AckInv
  <2>4. /\ Hand(p, "note")' <=> acked[p]
        /\ Hand(p, "ack")' <=> ~acked[p]
    BY <2>2 DEF Hand
  <2> QED
    BY <1>1, <2>2, <2>3, <2>4 DEF AckInv, Told, Holds
<1>5. CASE o # p \/ ~\E f \in Frames : RouteNotification(o, f)
  BY <1>5, <1>3
     DEF TypeOK, RouteStep, RouteNotification, RouteResponse, RouteInvalid,
         RouteCancellation, Route, Hand
<1> QED
  BY <1>4, <1>5

LEMMA AckInvOffer ==
  ASSUME TypeOK, TableInv, LoopInv, OfferNotification, NEW p \in Owners, subscribes[p],
         AckInv(p)
  PROVE  AckInv(p)'
<1>1. UNCHANGED <<active, idOf, stream, pending, acked, scope>> /\ inbound' = Idle
  BY DEF OfferNotification
<1>2. \A f : ~Hand(p, f)'
  BY <1>1 DEF Hand, Idle
<1>3. CASE inbound.owner # p
  <2>1. queue'[p] = queue[p] /\ \A f : ~Hand(p, f)
    BY <1>3 DEF TypeOK, OfferNotification, Hand
  <2> QED
    BY <1>1, <1>2, <2>1 DEF AckInv, Told, Holds
<1>4. CASE inbound.owner = p
  <2> DEFINE f == inbound.frame
             q == queue[p]
  <2>1. f \in {"note", "ack"} /\ Hand(p, f) /\ acked[p]
    BY <1>4 DEF OfferNotification, LoopInv, Hand, Idle
  <2>2. q \in Seq(Events) /\ f \in Events /\ queue'[p] = Append(q, f)
    BY <1>4, <2>1 DEF TypeOK, OfferNotification, Events
  <2>3. /\ DOMAIN queue'[p] = DOMAIN q \cup {Len(q) + 1}
        /\ Len(q) + 1 \notin DOMAIN q
        /\ queue'[p][Len(q) + 1] = f
        /\ \A j \in DOMAIN q : queue'[p][j] = q[j]
    BY <2>2, AppendEvent
  <2>4. DOMAIN q = 1..Len(q) /\ Len(q) \in Nat /\ (q = <<>> <=> Len(q) = 0)
    BY <2>2
  <2>5. queue'[p] # <<>>
    BY <2>2
  <2>6. f = "ack" => stream[p] = <<>> /\ \A j \in DOMAIN q : q[j] \in Finals
    BY <2>1 DEF AckInv
  <2>7. f = "note" => stream[p] # <<>> \/ Len(q) > 0
    BY <2>1, <2>4 DEF AckInv, Told
  <2>8. ASSUME NEW j \in DOMAIN queue'[p]
        PROVE  /\ queue'[p][j] = "ack" =>
                    \/ j = 1 /\ stream[p] = <<>>
                    \/ \E k \in 1..(j - 1) : queue'[p][k] \in Finals
               /\ queue'[p][j] \in {"note", "terminal"} => j > 1 \/ stream[p] # <<>>
    <3>1. CASE j \in DOMAIN q
      <4>1. /\ q[j] = "ack" => \/ j = 1 /\ stream[p] = <<>>
                               \/ \E k \in 1..(j - 1) : q[k] \in Finals
            /\ q[j] \in {"note", "terminal"} => j > 1 \/ stream[p] # <<>>
        BY <3>1 DEF AckInv
      <4>2. \A k \in 1..(j - 1) : k \in DOMAIN q
        BY <2>4, <3>1
      <4>3. queue'[p][j] = q[j] /\ \A k \in 1..(j - 1) : queue'[p][k] = q[k]
        BY <2>3, <3>1, <4>2, Zenon
      <4> QED
        BY <4>1, <4>3
    <3>2. CASE j = Len(q) + 1 /\ f = "note"
      <4>1. queue'[p][j] = "note"
        BY <2>3, <3>2, Zenon
      <4>2. j > 1 \/ stream[p] # <<>>
        BY <2>4, <2>7, <3>2
      <4> QED
        BY <4>1, <4>2
    <3>3. CASE j = Len(q) + 1 /\ f = "ack"
      BY <2>3, <2>4, <2>6, <3>3
    <3> QED
      BY <2>1, <2>3, <3>1, <3>2, <3>3
  <2> QED
    BY <1>1, <1>2, <2>1, <2>5, <2>8 DEF AckInv, Told
<1> QED
  BY <1>3, <1>4

\* The first notification of a stream that nothing has ended finds room.
LEMMA AckInvOverflow ==
  ASSUME TypeOK, LoopInv, EndsExactlyOnce, OverflowNotification, NEW p \in Owners,
         subscribes[p], Live(p), AckInv(p)
  PROVE  AckInv(p)'
<1>1. UNCHANGED <<active, idOf, stream, queue, pending, acked, scope>>
  BY DEF OverflowNotification
<1>2. \A f : ~Hand(p, f)'
  BY DEF TypeOK, OverflowNotification, Hand, Idle
<1>3. ~(Holds(p) /\ Hand(p, "ack"))
  <2>1. SUFFICES ASSUME Holds(p), Hand(p, "ack") PROVE FALSE
    OBVIOUS
  <2>2. ~HasFinal(queue[p]) /\ \A j \in DOMAIN queue[p] : queue[p][j] \in Finals
    BY <2>1 DEF EndsExactlyOnce, Live, AckInv
  <2>3. DOMAIN queue[p] = {}
    BY <2>2 DEF HasFinal
  <2>4. Len(queue[p]) = 0
    <3>0. queue[p] \in Seq(Events)
      BY DEF TypeOK
    <3>1. Len(queue[p]) \in Nat /\ DOMAIN queue[p] = 1..Len(queue[p])
      BY <3>0
    <3>2. Len(queue[p]) > 0 => 1 \in DOMAIN queue[p]
      BY <3>1
    <3> QED
      BY <2>3, <3>1, <3>2
  <2> QED
    BY <2>1, <2>4, CapacityAssumption DEF OverflowNotification, HasRoom, Hand, Live
<1> QED
  BY <1>1, <1>2, <1>3 DEF AckInv, Told, Holds

LEMMA AckInvEmits ==
  ASSUME TypeOK, NEW p \in Owners, Emits(p), caller'[p] = "streaming", acked' = acked,
         \A f : Hand(p, f)' <=> Hand(p, f), AckInv(p), scope = "stopped" => scope' = "stopped"
  PROVE  AckInv(p)'
<1> DEFINE q == queue[p]
           h == Head(queue[p])
           s == stream[p]
<1>1. /\ q \in Seq(Events) /\ q # <<>> /\ h = q[1] /\ h \in Events /\ 1 \in DOMAIN q
      /\ s \in Seq(Events) /\ h \notin Finals
      /\ stream'[p] = Append(s, h) /\ queue'[p] = Tail(q) /\ pending'[p] = pending[p]
  BY DEF Emits, TypeOK
<1>2. /\ DOMAIN Tail(q) = 1..(Len(q) - 1) /\ DOMAIN q = 1..Len(q) /\ Len(q) \in Nat
      /\ \A j \in 1..(Len(q) - 1) : Tail(q)[j] = q[j + 1]
  BY <1>1
<1>3. h = IF s = <<>> THEN "ack" ELSE "note"
  <2>1. /\ q[1] = "ack" => s = <<>>
        /\ q[1] \in {"note", "terminal"} => s # <<>>
    BY <1>1, <1>2 DEF AckInv
  <2>2. h \in {"ack", "note"}
    BY <1>1 DEF Events, Finals
  <2> QED
    BY <1>1, <2>1, <2>2
<1>4. \A j \in DOMAIN stream'[p] : stream'[p][j] = IF j = 1 THEN "ack" ELSE "note"
  <2>1. \A j \in DOMAIN s : s[j] = IF j = 1 THEN "ack" ELSE "note"
    BY DEF AckInv
  <2>2. (s = <<>> <=> Len(s) = 0) /\ DOMAIN s = 1..Len(s) /\ Len(s) \in Nat
    BY <1>1
  <2>3. /\ DOMAIN stream'[p] = DOMAIN s \cup {Len(s) + 1}
        /\ stream'[p][Len(s) + 1] = h
        /\ \A j \in DOMAIN s : stream'[p][j] = s[j]
    BY <1>1, AppendEvent
  <2> QED
    BY <1>3, <2>1, <2>2, <2>3
<1>5. stream'[p] # <<>>
  BY <1>1
<1>6. ASSUME NEW j \in DOMAIN queue'[p], queue'[p][j] = "ack"
      PROVE  \E k \in 1..(j - 1) : queue'[p][k] \in Finals
  <2>1. j \in 1..(Len(q) - 1) /\ q[j + 1] = "ack"
    BY <1>1, <1>2, <1>6
  <2>2. j + 1 \in DOMAIN q /\ j + 1 # 1 /\ j \in Nat
    BY <1>2, <2>1
  <2>3. PICK k \in 1..((j + 1) - 1) : q[k] \in Finals
    BY <2>1, <2>2 DEF AckInv
  <2>4. k # 1 /\ k \in 1..j
    BY <1>1, <2>2, <2>3
  <2>5. k - 1 \in 1..(j - 1) /\ k - 1 \in 1..(Len(q) - 1)
    BY <1>2, <2>1, <2>2, <2>4
  <2>6. queue'[p][k - 1] = q[(k - 1) + 1] /\ (k - 1) + 1 = k
    <3>1. Tail(q)[k - 1] = q[(k - 1) + 1]
      BY <1>2, <2>5, Zenon
    <3>2. (k - 1) + 1 = k
      BY <2>4, <2>2
    <3> QED
      BY <1>1, <3>1, <3>2, Zenon
  <2> QED
    BY <2>3, <2>5, <2>6
<1>7. ~Hand(p, "ack")
  BY <1>1 DEF AckInv
<1>8. /\ \A j \in DOMAIN queue'[p] : queue'[p][j] = "ack" =>
               \/ j = 1 /\ stream'[p] = <<>>
               \/ \E k \in 1..(j - 1) : queue'[p][k] \in Finals
      /\ \A j \in DOMAIN queue'[p] :
            queue'[p][j] \in {"note", "terminal"} => j > 1 \/ stream'[p] # <<>>
  BY <1>5, <1>6
<1>9. /\ Told(p)' /\ ~Hand(p, "ack")'
      /\ Told(p) => acked'[p] = acked[p] /\ (Holds(p)' <=> Holds(p))
  BY <1>5, <1>7 DEF Told, Emits, Settled
<1>10. Told(p)
  BY <1>1 DEF Told
<1> QED
  BY <1>1, <1>4, <1>5, <1>7, <1>8, <1>9, <1>10 DEF AckInv, Emits, Settled

LEMMA AckInvFinal ==
  ASSUME TypeOK, EndsExactlyOnce, NEW p \in Owners, GetsFinal(p), Live(p), acked' = acked,
         \A f : Hand(p, f)' <=> Hand(p, f), AckInv(p)
  PROVE  AckInv(p)'
<1> DEFINE q == queue[p]
<1>1. PICK e \in pending[p] : /\ pending'[p] = pending[p] \ {e}
                              /\ queue'[p] = Append(q, e)
  BY DEF GetsFinal
<1>2. ~Holds(p) /\ ~Holds(p)'
  BY <1>1 DEF EndsExactlyOnce, Live, GetsFinal, Settled
<1>3. q \in Seq(Events) /\ e \in Finals /\ e \in Events
  BY DEF TypeOK, Events
<1>4. /\ DOMAIN queue'[p] = DOMAIN q \cup {Len(q) + 1}
      /\ Len(q) + 1 \notin DOMAIN q
      /\ queue'[p][Len(q) + 1] = e
      /\ \A j \in DOMAIN q : queue'[p][j] = q[j]
  BY <1>1, <1>3, AppendEvent
<1>5. DOMAIN q = 1..Len(q) /\ Len(q) \in Nat /\ (q = <<>> <=> Len(q) = 0)
  BY <1>3
<1>6. e = "terminal" => stream[p] # <<>> \/ Len(q) > 0
  BY <1>5 DEF AckInv, Told
<1>7. stream'[p] = stream[p] /\ queue'[p] # <<>>
  BY <1>1, <1>3 DEF GetsFinal
<1>8. ASSUME NEW j \in DOMAIN queue'[p]
      PROVE  /\ queue'[p][j] = "ack" =>
                  \/ j = 1 /\ stream[p] = <<>>
                  \/ \E k \in 1..(j - 1) : queue'[p][k] \in Finals
             /\ queue'[p][j] \in {"note", "terminal"} => j > 1 \/ stream[p] # <<>>
  <2>1. CASE j \in DOMAIN q
    <3>1. /\ q[j] = "ack" => \/ j = 1 /\ stream[p] = <<>>
                             \/ \E k \in 1..(j - 1) : q[k] \in Finals
          /\ q[j] \in {"note", "terminal"} => j > 1 \/ stream[p] # <<>>
      BY <2>1 DEF AckInv
    <3>2. \A k \in 1..(j - 1) : k \in DOMAIN q
      BY <1>5, <2>1
    <3>3. queue'[p][j] = q[j] /\ \A k \in 1..(j - 1) : queue'[p][k] = q[k]
      BY <1>4, <2>1, <3>2, Zenon
    <3> QED
      BY <3>1, <3>3
  <2>2. CASE j = Len(q) + 1
    <3>1. queue'[p][j] = e /\ e \notin {"ack", "note"}
      BY <1>3, <1>4, <2>2 DEF Finals
    <3> QED
      BY <1>5, <1>6, <2>2, <3>1
  <2> QED
    BY <1>4, <2>1, <2>2
<1>9. Hand(p, "ack") => \A j \in DOMAIN queue'[p] : queue'[p][j] \in Finals
  BY <1>3, <1>4 DEF AckInv
<1> QED
  BY <1>1, <1>2, <1>7, <1>8, <1>9 DEF AckInv, Told

LEMMA HandInvStep ==
  TypeOK /\ TableInv /\ LoopInv /\ EndsExactlyOnce /\ HandInv /\ [Next]_vars => HandInv'
<1> SUFFICES ASSUME TypeOK, TableInv, LoopInv, EndsExactlyOnce, HandInv, Next,
                    NEW p \in Owners
             PROVE  /\ caller'[p] = "idle" => ~acked'[p]
                    /\ subscribes'[p] /\ Live(p)' => AckInv(p)'
  BY DEF HandInv, Live, AckInv, Told, Hand, Holds, vars
<1> USE DEF Still, Settled, Live
<1>a. caller[p] = "idle" => ~acked[p]
  BY DEF HandInv
<1>b. subscribes[p] /\ Live(p) => AckInv(p)
  BY DEF HandInv
<1>0. Live(p)' => Live(p) \/ Begins(p)
  BY EventSteps
     DEF Waits, Begins, GoesOn, Emits, Finishes, GetsFinal, GetsNotified, Ends,
          Loses
<1>1. ASSUME NEW o \in Owners, RouteStep(o)
      PROVE  /\ caller'[p] = "idle" => ~acked'[p]
             /\ subscribes'[p] /\ Live(p)' => AckInv(p)'
  <2>1. Holds(o) /\ UNCHANGED <<caller, subscribes>> /\ inbound = Idle
    BY <1>1 DEF RouteStep, RouteNotification, RouteResponse, RouteInvalid,
                RouteCancellation, Route
  <2>2. acked' = acked \/ acked' = [acked EXCEPT ![o] = subscribes[o]]
    BY <1>1, RouteSteps
  <2>3. caller'[p] = "idle" => ~acked'[p]
    <3>1. caller[p] = "idle" => p # o
      BY <2>1 DEF TableInv
    <3>2. p # o => acked'[p] = acked[p]
      BY <2>2 DEF TypeOK
    <3> QED
      BY <1>a, <2>1, <3>1, <3>2
  <2> QED
    BY <1>1, <1>b, <2>1, <2>3, AckInvRoute
<1>2. CASE OfferNotification \/ OverflowNotification
  <2>1. UNCHANGED <<caller, acked, subscribes>>
    BY <1>2 DEF OfferNotification, OverflowNotification
  <2> QED
    BY <1>2, <1>a, <1>b, <2>1, AckInvOffer, AckInvOverflow
<1>4. CASE StopLoop
  <2>1. /\ UNCHANGED <<caller, acked, subscribes, stream, queue, pending>>
        /\ inbound' = Idle /\ scope' = "stopped"
    BY <1>4 DEF StopLoop
  <2>2. \A f : ~Hand(p, f)'
    BY <2>1 DEF Hand, Idle
  <2> QED
    BY <1>a, <1>b, <2>1, <2>2 DEF AckInv, Told
<1>3. ASSUME ~(\E o \in Owners : RouteStep(o)), ~OfferNotification, ~OverflowNotification,
             ~StopLoop
      PROVE  /\ caller'[p] = "idle" => ~acked'[p]
             /\ subscribes'[p] /\ Live(p)' => AckInv(p)'
  <2>1. /\ acked' = acked /\ subscribes' = subscribes
        /\ \A f : Hand(p, f)' <=> Hand(p, f)
        /\ scope = "stopped" => scope' = "stopped"
    BY <1>3, HandSame, StepFrames, ScopeSteps
  <2>2. caller'[p] = "idle" => ~acked'[p]
    <3>1. caller'[p] = "idle" => caller[p] = "idle"
      BY EventSteps
         DEF Waits, Begins, GoesOn, Emits, Finishes, GetsFinal, GetsNotified, Ends,
          Loses
    <3> QED
      BY <1>a, <2>1, <3>1
  <2>3. ASSUME subscribes[p], Live(p)' PROVE AckInv(p)'
    <3>1. CASE Waits(p) \/ GoesOn(p)
      BY <1>0, <2>1, <2>3, <1>b, <3>1 DEF Waits, GoesOn, Begins, AckInv, Told
    <3>2. CASE Begins(p)
      <4>1. \A f : ~Hand(p, f)
        BY <3>2 DEF Begins, LoopInv, Hand, Idle
      <4>2. ~acked[p] /\ stream[p] = <<>> /\ queue[p] = <<>> /\ pending[p] = {}
        BY <1>a, <3>2 DEF Begins, TableInv
      <4> QED
        BY <2>1, <3>2, <4>1, <4>2 DEF Begins, AckInv, Told
    <3>3. CASE Emits(p)
      BY <2>1, <2>3, <3>3, <1>b, AckInvEmits DEF Emits
    <3>4. CASE GetsFinal(p)
      BY <2>1, <2>3, <3>4, <1>b, AckInvFinal DEF GetsFinal
    <3>5. CASE Ends(p)
      <4>1. outcome'[p] = "terminal" => Told(p)
        <5>1. ASSUME outcome'[p] = "terminal" PROVE Told(p)
          <6>1. inbound.at = "ending" /\ inbound.owner = p /\ inbound # Idle /\ Holds(p)
            BY <3>5, <5>1 DEF Ends, EndOwner, SettleOwner, Idle
          <6>2. acked[p] /\ ~Hand(p, "ack") /\ scope # "stopped"
            BY <2>3, <6>1 DEF LoopInv, Hand
          <6> QED
            BY <2>3, <3>5, <6>1, <6>2, <1>b DEF AckInv, Ends
        <5> QED
          BY <5>1
      <4> QED
        BY <2>1, <2>3, <3>5, <4>1, <1>b DEF Ends, AckInv, Told
    <3>6. CASE Loses(p)
      BY <1>0, <2>1, <2>3, <1>b, <3>6 DEF Loses, Begins, AckInv, Told
    <3> QED
      BY <1>3, <2>3, <3>1, <3>2, <3>3, <3>4, <3>5, <3>6, EventSteps DEF Finishes, GetsNotified
  <2> QED
    BY <2>1, <2>2, <2>3
<1> QED
  BY <1>1, <1>2, <1>3, <1>4

LEMMA StreamIsWholeStep ==
  TypeOK /\ TableInv /\ LoopInv /\ LostInv /\ StreamInv /\ HandInv /\ StreamIsWhole
    /\ [Next]_vars => StreamIsWhole'
<1> SUFFICES ASSUME TypeOK, TableInv, LoopInv, LostInv, StreamInv, HandInv, StreamIsWhole,
                    Next
             PROVE  StreamIsWhole'
  BY DEF StreamIsWhole, vars
<1>1. \A o \in lost' : outcome'[o] # "terminal"
  BY LostInvStep DEF LostInv
<1>2. ASSUME NEW p \in Owners, subscribes[p], NEW j \in DOMAIN stream'[p]
      PROVE  /\ stream'[p][j] = "ack" <=> j = 1 /\ stream'[p][j] \notin Finals
             /\ stream'[p][j] = "terminal" => j > 1
  <2>1. CASE Emits(p)
    <3> DEFINE s == stream[p]
               h == Head(queue[p])
    <3>1. /\ s \in Seq(Events) /\ h = queue[p][1] /\ 1 \in DOMAIN queue[p] /\ h \in Events
          /\ stream'[p] = Append(s, h)
      BY <2>1 DEF TypeOK, Emits
    <3>2. AckInv(p)
      BY <1>2, <2>1 DEF HandInv, Live, Emits
    <3>3. /\ h = "ack" => s = <<>>
          /\ h \in {"note", "terminal"} => s # <<>>
      BY <3>1, <3>2 DEF AckInv
    <3>4. CASE j \in DOMAIN s
      <4>1. stream'[p][j] = s[j]
        BY <3>1, <3>4
      <4> QED
        BY <1>2, <3>4, <4>1 DEF StreamIsWhole
    <3>5. CASE j = Len(s) + 1
      <4>1. stream'[p][j] = h /\ (s = <<>> <=> j = 1) /\ j \in Nat \ {0}
        BY <3>1, <3>5
      <4> QED
        BY <3>1, <3>3, <4>1 DEF Events, Finals
    <3> QED
      BY <1>2, <3>1, <3>4, <3>5
  <2>2. CASE stream'[p] = stream[p]
    BY <1>2, <2>2 DEF StreamIsWhole
  <2> QED
    BY <2>1, <2>2, EventSteps
       DEF Still, Waits, Begins, GoesOn, Finishes, GetsFinal, GetsNotified, Ends,
          Loses
<1> QED
  BY <1>1, <1>2, StepFrames DEF StreamIsWhole

-----------------------------------------------------------------------------
(* The theorems.                                                           *)

LEMMA InvInit == Init => Inv
<1> SUFFICES ASSUME Init PROVE Inv
  OBVIOUS
<1>1. TypeOK
  BY TypeOKInit
<1>2. \A o \in Owners : ~Holds(o) /\ caller[o] = "idle" /\ outcome[o] = "none"
                        /\ stream[o] = <<>> /\ abandons[o] = 0 /\ acked[o] = FALSE
                        /\ queue[o] = <<>> /\ pending[o] = {}
  BY OwnersAssumption DEF Init, Holds
<1>3. TableInv
  BY <1>2 DEF TableInv
<1>4. LoopInv /\ LostInv
  BY DEF Init, LoopInv, LostInv
<1>5. StreamInv /\ EndsExactlyOnce /\ StreamIsWhole
  BY <1>2 DEF Init, StreamInv, HasFinal, EndsExactlyOnce, StreamIsWhole
<1>6. HandInv
  BY <1>2 DEF HandInv, Live
<1> QED
  BY <1>1, <1>3, <1>4, <1>5, <1>6 DEF Inv

\* Every reachable state satisfies the inductive invariant.
THEOREM Invariance == Spec => []Inv
<1>1. Inv /\ [Next]_vars => Inv'
  BY TypeOKStep, TableInvStep, LoopInvStep, LostInvStep, StreamInvStep, EndsStep,
     HandInvStep, StreamIsWholeStep DEF Inv
<1> QED
  BY InvInit, <1>1, PTL DEF Spec

\* Every variable of the client's dispatcher keeps its type, and no queue grows
\* beyond its capacity, whatever that is.
THEOREM TypeCorrect == Spec => []TypeOK
<1>1. Inv => TypeOK
  BY DEF Inv
<1> QED
  BY <1>1, Invariance, PTL

\* However an answer, a cancellation, a full queue, a local cancel, a close and the
\* end of the caller race, a request in flight has one end in sight at most, emits
\* nothing after it, and is abandoned once at most.
THEOREM ExactlyOneEnd == Spec => []EndsExactlyOnce
<1>1. Inv => EndsExactlyOnce
  BY DEF Inv
<1> QED
  BY <1>1, Invariance, PTL

\* No response reaches a stream that has lost a notification, and a subscription's
\* stream tells its acknowledgement first, and once.
THEOREM WholeStream == Spec => []StreamIsWhole
<1>1. Inv => StreamIsWhole
  BY DEF Inv
<1> QED
  BY <1>1, Invariance, PTL

\* The outcome of a request, once there, is never replaced by another: the first of
\* the racing ends to take the owner out of the table is the only one.
THEOREM OutcomeIsFinal ==
  Spec => [][\A o \in Owners : outcome[o] # "none" => outcome'[o] = outcome[o]]_vars
<1>1. Inv /\ [Next]_vars =>
        [\A o \in Owners : outcome[o] # "none" => outcome'[o] = outcome[o]]_vars
  <2> SUFFICES ASSUME Inv, Next, NEW o \in Owners, outcome[o] # "none"
               PROVE  outcome'[o] = outcome[o]
    OBVIOUS
  <2>1. TypeOK /\ TableInv /\ ~Holds(o) /\ caller[o] # "idle"
    BY DEF Inv, TableInv
  <2> QED
    BY <2>1, TableSteps DEF Request, RefuseRequest
<1> QED
  BY <1>1, Invariance, PTL DEF Spec

-----------------------------------------------------------------------------
(* Nobody is stuck.  ENABLED is out of the prover's reach, so the steps of *)
(* Running are described by their guards.                                  *)

\* Some step of Running can be taken: every progress of the inbound loop has one.
CanRun ==
  \/ inbound # Idle
  \/ \E o \in Owners : \/ HasRoom(o) /\ pending[o] # {}
                       \/ caller[o] = "streaming" /\ queue[o] # <<>>
                       \/ caller[o] = "leaving"

\* NobodyIsStuck with the guards for ENABLED: when the loop, the forked offers, the
\* streams and the finalizers have nothing left to do, whoever left the table has
\* come to his end, but for a send under way and for a stream that waits for a final
\* event the scope, closing, did not let be offered.
THEOREM NobodyStuck ==
  Spec => [](CanRun \/ (\A o \in Owners : outcome[o] # "none" =>
                          \/ caller[o] \in {"sending", "done"}
                          \/ caller[o] = "streaming" /\ queue[o] = <<>> /\ scope # "open"))
<1>1. ASSUME Inv, ~CanRun, NEW o \in Owners, outcome[o] # "none"
      PROVE  \/ caller[o] \in {"sending", "done"}
             \/ caller[o] = "streaming" /\ queue[o] = <<>> /\ scope # "open"
  <2>1. ~Holds(o) /\ caller[o] \in {"sending", "streaming", "done"}
    BY <1>1 DEF Inv, TypeOK, TableInv, CanRun
  <2>2. ASSUME caller[o] = "streaming" PROVE queue[o] = <<>> /\ scope # "open"
    <3>1. queue[o] = <<>> /\ DOMAIN queue[o] = {}
      BY <1>1, <2>2 DEF CanRun
    <3>2. HasRoom(o)
      BY <2>2, <3>1, CapacityAssumption DEF HasRoom
    <3>3. pending[o] = {}
      BY <1>1, <3>2 DEF CanRun
    <3> QED
      BY <1>1, <2>1, <2>2, <3>1, <3>3 DEF Inv, EndsExactlyOnce
  <2> QED
    BY <2>1, <2>2
<1>2. Inv => CanRun \/ (\A o \in Owners : outcome[o] # "none" =>
                          \/ caller[o] \in {"sending", "done"}
                          \/ caller[o] = "streaming" /\ queue[o] = <<>> /\ scope # "open")
  BY <1>1
<1> QED
  BY <1>2, Invariance, PTL

\* What is left to do for o: its queued events, the final ones on their way there (each
\* to be offered, then taken), the end of its stream, and the frame in the loop's hands.
LoopWeight(o) ==
  IF inbound.owner # o THEN 0
  ELSE CASE inbound.at = "offering" -> 5
         [] inbound.at = "failing" -> 4
         [] inbound.at \in {"ending", "cancelling"} -> 3
         [] OTHER -> 1

CallWeight(o) == CASE caller[o] = "streaming" -> 2
                   [] caller[o] = "leaving" -> 1
                   [] OTHER -> 0

EventWeight(o) == Len(queue[o]) + 2 * Cardinality(pending[o])

Weight(o) == EventWeight(o) + CallWeight(o) + LoopWeight(o)

LEMMA PendingFinite ==
  ASSUME TypeOK, NEW o \in Owners
  PROVE  IsFiniteSet(pending[o]) /\ Cardinality(pending[o]) \in Nat
<1>1. IsFiniteSet(Finals)
  <2>1. IsFiniteSet({} \cup {"terminal"})
    BY FS_EmptySet, FS_AddElement
  <2>2. IsFiniteSet(({} \cup {"terminal"}) \cup {"failed"})
    BY <2>1, FS_AddElement
  <2>3. IsFiniteSet((({} \cup {"terminal"}) \cup {"failed"}) \cup {"cancelled"})
    BY <2>2, FS_AddElement
  <2>4. IsFiniteSet(((({} \cup {"terminal"}) \cup {"failed"}) \cup {"cancelled"})
                      \cup {"closed"})
    BY <2>3, FS_AddElement
  <2>5. Finals = ((({} \cup {"terminal"}) \cup {"failed"}) \cup {"cancelled"})
                   \cup {"closed"}
    BY DEF Finals
  <2> QED
    BY <2>4, <2>5
<1>2. pending[o] \in SUBSET Finals
  BY DEF TypeOK
<1> QED
  BY <1>1, <1>2, FS_Subset, FS_CardinalityType

LEMMA PendingChange ==
  ASSUME TypeOK, NEW o \in Owners, NEW e
  PROVE  /\ Cardinality(pending[o] \cup {e}) \in Nat
         /\ Cardinality(pending[o] \cup {e}) <= Cardinality(pending[o]) + 1
         /\ e \in pending[o] =>
              /\ Cardinality(pending[o] \ {e}) \in Nat
              /\ Cardinality(pending[o]) = Cardinality(pending[o] \ {e}) + 1
<1>1. IsFiniteSet(pending[o]) /\ Cardinality(pending[o]) \in Nat
  BY PendingFinite
<1>2. /\ Cardinality(pending[o] \cup {e}) =
           IF e \in pending[o] THEN Cardinality(pending[o]) ELSE Cardinality(pending[o]) + 1
      /\ IsFiniteSet(pending[o] \ {e})
      /\ Cardinality(pending[o] \ {e}) =
           IF e \in pending[o] THEN Cardinality(pending[o]) - 1 ELSE Cardinality(pending[o])
  BY <1>1, FS_AddElement, FS_RemoveElement
<1>3. Cardinality(pending[o] \ {e}) \in Nat
  BY <1>2, FS_CardinalityType
<1> QED
  BY <1>1, <1>2, <1>3

LEMMA WeightType ==
  ASSUME TypeOK, NEW o \in Owners
  PROVE  /\ Len(queue[o]) \in Nat /\ EventWeight(o) \in Nat
         /\ CallWeight(o) \in Nat /\ LoopWeight(o) \in Nat /\ Weight(o) \in Nat
<1>1. Len(queue[o]) \in Nat /\ Cardinality(pending[o]) \in Nat
  BY PendingFinite DEF TypeOK
<1>2. EventWeight(o) \in Nat
  BY <1>1 DEF EventWeight
<1>3. CallWeight(o) \in Nat
  BY DEF CallWeight
<1>4. LoopWeight(o) \in Nat
  BY DEF LoopWeight
<1> QED
  BY <1>1, <1>2, <1>3, <1>4 DEF Weight

LEMMA WeightTypes == TypeOK => \A p \in Owners : Weight(p) \in Nat
BY WeightType

\* What a step changes of the weights.
Alike(p) == EventWeight(p)' = EventWeight(p) /\ CallWeight(p)' = CallWeight(p)
            /\ LoopWeight(p)' = LoopWeight(p)

Lowers(o) == Weight(o)' < Weight(o) /\ \A p \in Owners \ {o} : Alike(p)

LEMMA OfferLowers ==
  ASSUME TypeOK, NEW o \in Owners, OfferFinal(o)
  PROVE  Lowers(o)
<1>1. PICK e \in pending[o] : /\ pending' = [pending EXCEPT ![o] = @ \ {e}]
                              /\ queue' = [queue EXCEPT ![o] = Append(@, e)]
  BY DEF OfferFinal
<1>2. UNCHANGED <<caller, inbound>>
  BY DEF OfferFinal
<1>3. \A p \in Owners \ {o} : Alike(p)
  BY <1>1, <1>2 DEF TypeOK, Alike, EventWeight, CallWeight, LoopWeight
<1>4. pending'[o] = pending[o] \ {e} /\ Len(queue'[o]) = Len(queue[o]) + 1
  BY <1>1 DEF TypeOK
<1>5. Cardinality(pending[o] \ {e}) \in Nat
      /\ Cardinality(pending[o]) = Cardinality(pending[o] \ {e}) + 1
  BY PendingChange
<1>6. EventWeight(o)' = EventWeight(o) - 1
  <2>1. EventWeight(o)' = Len(queue[o]) + 1 + 2 * Cardinality(pending[o] \ {e})
    BY <1>4 DEF EventWeight
  <2>2. EventWeight(o) = Len(queue[o]) + 2 * Cardinality(pending[o])
    BY DEF EventWeight
  <2>3. Len(queue[o]) \in Nat
    BY DEF TypeOK
  <2> QED
    BY <1>5, <2>1, <2>2, <2>3
<1>7. CallWeight(o)' = CallWeight(o) /\ LoopWeight(o)' = LoopWeight(o)
  BY <1>2 DEF CallWeight, LoopWeight
<1>8. Weight(o)' < Weight(o)
  BY <1>6, <1>7, WeightType DEF Weight
<1> QED
  BY <1>3, <1>8 DEF Lowers

LEMMA TakeLowers ==
  ASSUME TypeOK, NEW o \in Owners, TakeEvent(o)
  PROVE  Lowers(o)
<1>1. /\ queue[o] \in Seq(Events) /\ queue[o] # <<>> /\ UNCHANGED <<pending, inbound>>
      /\ queue' = [queue EXCEPT ![o] = Tail(queue[o])]
      /\ caller' = [caller EXCEPT ![o] =
                      IF Head(queue[o]) \in Finals THEN "leaving" ELSE "streaming"]
      /\ caller[o] = "streaming"
  BY DEF TakeEvent, TypeOK
<1>2. \A p \in Owners \ {o} : Alike(p)
  BY <1>1 DEF TypeOK, Alike, EventWeight, CallWeight, LoopWeight
<1>3. Len(Tail(queue[o])) = Len(queue[o]) - 1
  BY <1>1
<1>4. queue'[o] = Tail(queue[o]) /\ caller'[o] \in {"leaving", "streaming"}
  BY <1>1 DEF TypeOK
<1>5. EventWeight(o)' = EventWeight(o) - 1
  <2>1. EventWeight(o)' = Len(queue[o]) - 1 + 2 * Cardinality(pending[o])
    BY <1>1, <1>3, <1>4 DEF EventWeight
  <2>2. EventWeight(o) = Len(queue[o]) + 2 * Cardinality(pending[o])
    BY DEF EventWeight
  <2>3. Len(queue[o]) \in Nat /\ Cardinality(pending[o]) \in Nat
    BY <1>1, PendingFinite
  <2> QED
    BY <2>1, <2>2, <2>3
<1>6. CallWeight(o) = 2 /\ CallWeight(o)' \in {1, 2}
  BY <1>1, <1>4 DEF CallWeight
<1>7. LoopWeight(o)' = LoopWeight(o)
  BY <1>1 DEF LoopWeight
<1>8. Weight(o)' < Weight(o)
  <2>1. EventWeight(o) \in Nat /\ LoopWeight(o) \in Nat
    BY WeightType
  <2>2. Weight(o)' = EventWeight(o) - 1 + CallWeight(o)' + LoopWeight(o)
    BY <1>5, <1>7 DEF Weight
  <2>3. Weight(o) = EventWeight(o) + 2 + LoopWeight(o)
    BY <1>6 DEF Weight
  <2>4. CallWeight(o)' = 1 \/ CallWeight(o)' = 2
    BY <1>6
  <2> QED
    BY <2>1, <2>2, <2>3, <2>4
<1> QED
  BY <1>2, <1>8 DEF Lowers

LEMMA LeaveLowers ==
  ASSUME TypeOK, NEW o \in Owners, Leave(o)
  PROVE  Lowers(o)
<1>1. /\ queue' = [queue EXCEPT ![o] = <<>>] /\ pending' = [pending EXCEPT ![o] = {}]
      /\ caller' = [caller EXCEPT ![o] = "done"] /\ caller[o] = "leaving"
      /\ UNCHANGED inbound
  BY DEF Leave
<1>2. \A p \in Owners \ {o} : Alike(p)
  BY <1>1 DEF TypeOK, Alike, EventWeight, CallWeight, LoopWeight
<1>3. queue'[o] = <<>> /\ pending'[o] = {} /\ caller'[o] = "done"
  BY <1>1 DEF TypeOK
<1>4. EventWeight(o)' = 0
  BY <1>3, FS_EmptySet DEF EventWeight
<1>5. CallWeight(o) = 1 /\ CallWeight(o)' = 0
  BY <1>1, <1>3 DEF CallWeight
<1>6. LoopWeight(o)' = LoopWeight(o)
  BY <1>1 DEF LoopWeight
<1>7. Weight(o)' < Weight(o)
  BY <1>4, <1>5, <1>6, WeightType DEF Weight
<1> QED
  BY <1>2, <1>7 DEF Lowers

\* A step of the loop gives the owner less to do than it takes off the frame.
LEMMA LoopLowers ==
  ASSUME TypeOK, LoopStep
  PROVE  \E o \in Owners : Lowers(o)
<1>1. inbound # Idle /\ inbound.owner \in Owners /\ UNCHANGED caller
  BY DEF TypeOK, LoopStep, Idle, OfferNotification, OverflowNotification, EndOwner,
     CancelOwner, FailOwner, SettleOwner, AbandonFailed
<1>2. PICK o \in Owners : o = inbound.owner
  BY <1>1
<1>3. \A p \in Owners : CallWeight(p)' = CallWeight(p)
  BY <1>1 DEF CallWeight
<1>4. inbound' = Idle \/ inbound' = [inbound EXCEPT !.at = "failing", !.frame = "none"]
      \/ inbound' = [inbound EXCEPT !.at = "abandoning"]
  BY DEF LoopStep, OfferNotification, OverflowNotification, EndOwner, CancelOwner, FailOwner,
     SettleOwner, AbandonFailed
<1>5. \A p \in Owners \ {o} : LoopWeight(p) = 0 /\ LoopWeight(p)' = 0
  <2>1. inbound'.owner \in {o, NoOwner}
    <3>1. inbound \in [at : {"offering", "failing", "cancelling", "ending", "abandoning"},
                       owner : Owners, frame : {"note", "ack", "none"}]
      BY <1>1 DEF TypeOK
    <3>2. CASE inbound' = Idle
      BY <3>2 DEF Idle
    <3>3. CASE inbound' = [inbound EXCEPT !.at = "failing", !.frame = "none"]
      BY <1>2, <3>1, <3>3
    <3>4. CASE inbound' = [inbound EXCEPT !.at = "abandoning"]
      BY <1>2, <3>1, <3>4
    <3> QED
      BY <1>4, <3>2, <3>3, <3>4
  <2> QED
    BY <1>2, <2>1, OwnersAssumption DEF LoopWeight
<1>6. inbound' = Idle => LoopWeight(o)' = 0
  BY OwnersAssumption DEF LoopWeight, Idle
<1>7. CASE OfferNotification
  <2>1. /\ queue' = [queue EXCEPT ![o] = Append(@, inbound.frame)] /\ UNCHANGED pending
        /\ inbound' = Idle /\ inbound.at = "offering"
    BY <1>2, <1>7 DEF OfferNotification
  <2>2. \A p \in Owners \ {o} : EventWeight(p)' = EventWeight(p)
    BY <2>1 DEF TypeOK, EventWeight
  <2>3. Len(queue'[o]) = Len(queue[o]) + 1
    BY <2>1 DEF TypeOK
  <2>4. EventWeight(o)' = EventWeight(o) + 1
    <3>1. EventWeight(o)' = Len(queue[o]) + 1 + 2 * Cardinality(pending[o])
      BY <2>1, <2>3 DEF EventWeight
    <3>2. EventWeight(o) = Len(queue[o]) + 2 * Cardinality(pending[o])
      BY DEF EventWeight
    <3>3. Len(queue[o]) \in Nat /\ Cardinality(pending[o]) \in Nat
      BY PendingFinite DEF TypeOK
    <3> QED
      BY <3>1, <3>2, <3>3
  <2>5. LoopWeight(o) = 5
    BY <1>2, <2>1 DEF LoopWeight
  <2>6. Weight(o)' < Weight(o)
    BY <1>3, <1>6, <2>1, <2>4, <2>5, WeightType DEF Weight
  <2> QED
    BY <1>3, <1>5, <2>2, <2>6 DEF Alike, Lowers
<1>8. CASE OverflowNotification \/ AbandonFailed
  <2>1. UNCHANGED <<queue, pending>>
    BY <1>8 DEF OverflowNotification, AbandonFailed
  <2>2. \A p \in Owners : EventWeight(p)' = EventWeight(p)
    BY <2>1 DEF EventWeight
  <2>3. LoopWeight(o)' < LoopWeight(o)
    <3>1. CASE OverflowNotification
      BY <1>2, <3>1 DEF TypeOK, OverflowNotification, LoopWeight
    <3>2. CASE AbandonFailed
      BY <1>2, <1>6, <3>2 DEF AbandonFailed, LoopWeight
    <3> QED
      BY <1>8, <3>1, <3>2
  <2>4. LoopWeight(o)' \in Nat
    BY DEF LoopWeight
  <2>5. Weight(o)' < Weight(o)
    BY <1>3, <2>2, <2>3, <2>4, WeightType DEF Weight
  <2> QED
    BY <1>3, <1>5, <2>2, <2>5 DEF Alike, Lowers
<1>9. CASE EndOwner \/ CancelOwner \/ FailOwner
  <2>1. /\ UNCHANGED queue
        /\ \/ UNCHANGED pending /\ inbound' = Idle
           \/ \E e \in Finals : pending' = [pending EXCEPT ![o] = @ \cup {e}]
           \/ UNCHANGED pending
    BY <1>2, <1>9
       DEF TypeOK, EndOwner, CancelOwner, FailOwner, SettleOwner, EnqueueFinal, Finals
  <2>2. \A p \in Owners \ {o} : EventWeight(p)' = EventWeight(p)
    BY <2>1 DEF TypeOK, EventWeight
  <2>3. EventWeight(o)' \in Nat /\ EventWeight(o)' <= EventWeight(o) + 2
    <3>1. CASE UNCHANGED pending
      BY <2>1, <3>1, WeightType DEF EventWeight
    <3>2. CASE \E e \in Finals : pending' = [pending EXCEPT ![o] = @ \cup {e}]
      <4>1. PICK e \in Finals : pending'[o] = pending[o] \cup {e}
        BY <3>2 DEF TypeOK
      <4>2. /\ Cardinality(pending'[o]) \in Nat
            /\ Cardinality(pending'[o]) <= Cardinality(pending[o]) + 1
            /\ Cardinality(pending[o]) \in Nat
        BY <4>1, PendingFinite, PendingChange
      <4>3. EventWeight(o)' = Len(queue[o]) + 2 * Cardinality(pending'[o])
        BY <2>1 DEF EventWeight
      <4>4. EventWeight(o) = Len(queue[o]) + 2 * Cardinality(pending[o])
        BY DEF EventWeight
      <4>5. Len(queue[o]) \in Nat
        BY DEF TypeOK
      <4>6. 2 * Cardinality(pending'[o]) <= 2 * Cardinality(pending[o]) + 2
            /\ 2 * Cardinality(pending'[o]) \in Nat /\ 2 * Cardinality(pending[o]) \in Nat
        BY <4>2
      <4>7. PICK a \in Nat, b \in Nat, n \in Nat :
              a = 2 * Cardinality(pending'[o]) /\ b = 2 * Cardinality(pending[o])
              /\ n = Len(queue[o])
        BY <4>5, <4>6
      <4>8. a <= b + 2 /\ EventWeight(o)' = n + a /\ EventWeight(o) = n + b
        BY <4>3, <4>4, <4>6, <4>7
      <4>9. n + a \in Nat /\ n + a <= n + b + 2
        BY <4>8
      <4> QED
        BY <4>8, <4>9
    <3> QED
      BY <2>1, <3>1, <3>2
  <2>4. LoopWeight(o)' \in Nat /\ LoopWeight(o)' + 3 <= LoopWeight(o)
    <3>1. CASE EndOwner \/ CancelOwner
      <4>1. inbound' = Idle /\ inbound.at \in {"ending", "cancelling"}
        BY <3>1 DEF EndOwner, CancelOwner, SettleOwner
      <4> QED
        BY <1>2, <1>6, <4>1 DEF LoopWeight
    <3>2. CASE FailOwner
      <4>1. inbound.at = "failing" /\ (inbound' = Idle \/ inbound'.at = "abandoning")
        BY <1>1, <3>2 DEF TypeOK, FailOwner, SettleOwner
      <4>2. LoopWeight(o) = 4
        BY <1>2, <4>1 DEF LoopWeight
      <4>3. LoopWeight(o)' \in {0, 1}
        BY <1>6, <4>1 DEF LoopWeight
      <4> QED
        BY <4>2, <4>3
    <3> QED
      BY <1>9, <3>1, <3>2
  <2>5. Weight(o)' < Weight(o)
    <3>1. EventWeight(o) \in Nat /\ CallWeight(o) \in Nat /\ LoopWeight(o) \in Nat
      BY WeightType
    <3>2. Weight(o)' = EventWeight(o)' + CallWeight(o) + LoopWeight(o)'
      BY <1>3 DEF Weight
    <3>3. Weight(o) = EventWeight(o) + CallWeight(o) + LoopWeight(o)
      BY DEF Weight
    <3> QED
      BY <2>3, <2>4, <3>1, <3>2, <3>3
  <2> QED
    BY <1>3, <1>5, <2>2, <2>5 DEF Alike, Lowers
<1> QED
  BY <1>7, <1>8, <1>9 DEF LoopStep

\* What goes on by itself comes to an end: every such step lowers the weight of one
\* call, a natural number, and leaves those of all others, so that only new frames, new
\* calls, a cancel, a close or an interruption can make more of it.
THEOREM RunningEnds ==
  Spec => [][Running => \E o \in Owners :
                          /\ Weight(o) \in Nat /\ Weight(o)' \in Nat
                          /\ Weight(o)' < Weight(o)
                          /\ \A p \in Owners \ {o} : Weight(p)' = Weight(p)]_vars
<1>1. TypeOK' => (\A p \in Owners : Weight(p) \in Nat)'
  BY WeightTypes, PTL
<1>2. ASSUME TypeOK, TypeOK', Running
      PROVE  \E o \in Owners : /\ Weight(o) \in Nat /\ Weight(o)' \in Nat
                               /\ Weight(o)' < Weight(o)
                               /\ \A p \in Owners \ {o} : Weight(p)' = Weight(p)
  <2>1. PICK o \in Owners : Lowers(o)
    BY <1>2, LoopLowers, OfferLowers, TakeLowers, LeaveLowers DEF Running
  <2>2. \A p \in Owners : Weight(p) \in Nat
    BY <1>2, WeightType
  <2>3. Weight(o)' \in Nat
    BY <1>1, <1>2
  <2>4. \A p \in Owners \ {o} : Weight(p)' = Weight(p)
    BY <2>1 DEF Lowers, Alike, Weight
  <2> QED
    BY <2>1, <2>2, <2>3, <2>4 DEF Lowers
<1>3. Inv => TypeOK
  BY DEF Inv
<1>4. TypeOK /\ TypeOK' /\ [Next]_vars =>
        [Running => \E o \in Owners :
                      /\ Weight(o) \in Nat /\ Weight(o)' \in Nat
                      /\ Weight(o)' < Weight(o)
                      /\ \A p \in Owners \ {o} : Weight(p)' = Weight(p)]_vars
  BY <1>2
<1> QED
  BY <1>3, <1>4, Invariance, PTL DEF Spec

-----------------------------------------------------------------------------
(* The dispatcher's user, the stdio client: what closes it, and the scope  *)
(* that ends the child, never wait for something that does not come.       *)

CONSTANT Requests
VARIABLES child, job, ended, stopping, failed, told, writer, closer, stage, interrupted

Stdio == INSTANCE StdioClient WITH closed <- stopping

\* Party p has terminateChild behind it.
Terminated(p) == stage[p] \in {"done", "last", "closed"} \/ (p = "scope" /\ stage[p] = "writer")

\* A party that has stopped waiting for the child left it dead or killed.
StageInv ==
  /\ stage["closer"] \in {"none", "writer", "terminate", "graceful", "forced", "done"}
  /\ stage["release"] \in {"none", "terminate", "graceful", "forced", "done"}
  /\ \A p \in Stdio!Parties :
       /\ stage[p] = "forced" => child.killed
       /\ stage[p] = "graceful" => child.asked
       /\ Terminated(p) => child.killed \/ ~child.alive
  /\ child.killed => child.asked

\* The dispatcher fails only by the closer or behind the end of the child, and a call
\* that publishes the close is the closer and was not interrupted.
CloserInv ==
  /\ closer = Stdio!Nobody <=> stage["closer"] = "none"
  /\ closer # Stdio!Nobody \/ stage["scope"] # "none" \/ failed \/ interrupted => stopping
  /\ failed => closer # Stdio!Nobody \/ Terminated("scope")
  /\ \A j \in Stdio!Jobs : job[j] = "closing" => closer = j /\ ~interrupted

\* As long as the scope is open, whoever had begun a call when the dispatcher closed
\* gets its final event.
ToldInv == failed /\ Stdio!Open =>
             \A r \in Requests : job[Stdio!Call(r)] # "idle" => r \in told

StdioInv == Stdio!TypeOK /\ StageInv /\ CloserInv /\ ToldInv

LEMMA StdioInit == Stdio!Init => StdioInv
<1> SUFFICES ASSUME Stdio!Init PROVE StdioInv
  OBVIOUS
<1>1. Stdio!TypeOK
  BY DEF Stdio!Init, Stdio!TypeOK, Stdio!Parties, Stdio!Nobody
<1>2. StageInv /\ CloserInv /\ ToldInv
  BY DEF Stdio!Init, StageInv, CloserInv, ToldInv, Stdio!Parties, Terminated
<1> QED
  BY <1>1, <1>2 DEF StdioInv

\* A request is neither a cancellation nor the closer that is nobody.
LEMMA JobsApart ==
  /\ \A r \in Requests : Stdio!Call(r) \in Stdio!Jobs /\ Stdio!Cancel(r) \in Stdio!Jobs
  /\ \A r, s \in Requests : Stdio!Call(r) # Stdio!Cancel(s)
  /\ Stdio!Nobody \notin Stdio!Jobs /\ Stdio!Watcher \notin Stdio!Jobs
  /\ Stdio!Watcher # Stdio!Nobody
  /\ \A j \in Stdio!Jobs : \A r \in Requests : j[2] = "cancel" => j # Stdio!Call(r)
  /\ \A j \in Stdio!Jobs : j[2] # "cancel" => \E r \in Requests : j = Stdio!Call(r)
BY DEF Stdio!Jobs, Stdio!Call, Stdio!Cancel, Stdio!Nobody, Stdio!Watcher

LEMMA StdioTypeStep == Stdio!TypeOK /\ [Stdio!Next]_(Stdio!vars) => Stdio!TypeOK'
<1> SUFFICES ASSUME Stdio!TypeOK, Stdio!Next PROVE Stdio!TypeOK'
  BY DEF Stdio!TypeOK, Stdio!vars, Stdio!Jobs, Stdio!Parties, Stdio!Nobody, Stdio!Watcher
<1> USE DEF Stdio!TypeOK, Stdio!requests, Stdio!closing
<1>1. ASSUME NEW r \in Requests, Stdio!Request(r) \/ Stdio!Answer(r) \/ Stdio!EndClosed(r)
      PROVE  Stdio!TypeOK'
  <2>1. CASE Stdio!Request(r)
    BY <2>1, JobsApart DEF Stdio!Request
  <2>2. CASE Stdio!Answer(r)
    BY <2>2 DEF Stdio!Answer
  <2>3. CASE Stdio!EndClosed(r)
    BY <2>3 DEF Stdio!EndClosed
  <2> QED
    BY <1>1, <2>1, <2>2, <2>3
<1>2. ASSUME NEW r \in Requests, Stdio!Interrupt(r) PROVE Stdio!TypeOK'
  <2>1. /\ job' \in [Stdio!Jobs -> {"idle", "queued", "writing", "failed", "closing", "done"}]
        /\ ended' \in [Requests -> {"no", "answered", "writeFailed", "closed", "interrupted"}]
    BY <1>2, JobsApart DEF Stdio!Interrupt
  <2>2. interrupted' \in BOOLEAN
    BY <1>2 DEF Stdio!Interrupt
  <2>3. UNCHANGED <<child, writer, stopping, failed, told, closer, stage>>
    BY <1>2 DEF Stdio!Interrupt
  <2> QED
    BY <2>1, <2>2, <2>3
<1>3. ASSUME NEW j \in Stdio!Jobs,
             Stdio!Write(j) \/ Stdio!WriteFails(j) \/ Stdio!WriteSucceeds(j)
      PROVE  Stdio!TypeOK'
  BY <1>3 DEF Stdio!Write, Stdio!WriteFails, Stdio!WriteSucceeds
<1>4. ASSUME NEW j \in Stdio!Jobs PROVE Stdio!FailedCall(j) \in
        [Requests -> {"no", "answered", "writeFailed", "closed", "interrupted"}]
  BY DEF Stdio!FailedCall, Stdio!Jobs
<1>5. ASSUME NEW by \in Stdio!Jobs \cup {Stdio!Watcher}, Stdio!Publish(by)
      PROVE  /\ stopping' \in BOOLEAN /\ failed' \in BOOLEAN /\ interrupted' \in BOOLEAN
             /\ told' \in SUBSET Requests
             /\ closer' \in Stdio!Jobs \cup {Stdio!Watcher, Stdio!Nobody}
             /\ stage' \in [Stdio!Parties -> {"none", "writer", "terminate", "graceful",
                                              "forced", "done", "last", "closed"}]
  BY <1>5 DEF Stdio!Publish
<1>6. ASSUME NEW j \in Stdio!Jobs, Stdio!Report(j) \/ Stdio!ReportReturns(j)
      PROVE  Stdio!TypeOK'
  <2>1. CASE Stdio!Report(j) /\ Stdio!Publish(j)
    <3>1. UNCHANGED <<child, writer>>
      BY <2>1 DEF Stdio!Report
    <3>2. CASE job' = [job EXCEPT ![j] = "closing"] /\ UNCHANGED ended
      BY <1>5, <2>1, <3>1, <3>2
    <3>3. CASE job' = [job EXCEPT ![j] = "done"] /\ ended' = Stdio!FailedCall(j)
      BY <1>4, <1>5, <2>1, <3>1, <3>3
    <3> QED
      BY <2>1, <3>2, <3>3 DEF Stdio!Report
  <2>2. CASE Stdio!Report(j) /\ ~Stdio!Publish(j)
    BY <1>4, <2>2 DEF Stdio!Report
  <2>3. CASE Stdio!ReportReturns(j)
    BY <1>4, <2>3 DEF Stdio!ReportReturns
  <2> QED
    BY <1>6, <2>1, <2>2, <2>3
<1>7. ASSUME NEW p \in Stdio!Parties, NEW next \in {"none", "writer", "terminate", "graceful",
                                                   "forced", "done", "last", "closed"}
      PROVE  [stage EXCEPT ![p] = next] \in
               [Stdio!Parties -> {"none", "writer", "terminate", "graceful", "forced", "done",
                                  "last", "closed"}]
  OBVIOUS
<1>8. ASSUME NEW p \in Stdio!Parties, Stdio!CloseStep(p) PROVE Stdio!TypeOK'
  <2>1. CASE Stdio!CloseWriter(p)
    BY <1>7, <2>1 DEF Stdio!CloseWriter, Stdio!Goto
  <2>2. CASE Stdio!Terminate(p)
    <3>1. /\ child' \in [alive : BOOLEAN, asked : BOOLEAN, killed : BOOLEAN]
          /\ \E next \in {"graceful", "done"} : stage' = [stage EXCEPT ![p] = next]
      BY <2>2 DEF Stdio!Terminate, Stdio!Goto
    <3> QED
      BY <1>7, <2>2, <3>1 DEF Stdio!Terminate
  <2>3. CASE Stdio!WaitGracefully(p)
    <3>1. /\ child' \in [alive : BOOLEAN, asked : BOOLEAN, killed : BOOLEAN]
          /\ \E next \in {"forced", "done"} : stage' = [stage EXCEPT ![p] = next]
      BY <2>3 DEF Stdio!WaitGracefully, Stdio!Goto, Stdio!Escalated
    <3> QED
      BY <1>7, <2>3, <3>1 DEF Stdio!WaitGracefully
  <2>4. CASE Stdio!WaitForced(p)
    BY <1>7, <2>4 DEF Stdio!WaitForced, Stdio!Goto
  <2> QED
    BY <1>8, <2>1, <2>2, <2>3, <2>4 DEF Stdio!CloseStep
<1>9. CASE Stdio!Die \/ Stdio!Notice
  BY <1>5, <1>9 DEF Stdio!Die, Stdio!Notice
<1>10. CASE Stdio!CloseScope \/ Stdio!StopFibers \/ Stdio!Release
  <2>1. "scope" \in Stdio!Parties /\ "release" \in Stdio!Parties
    BY DEF Stdio!Parties
  <2>2. CASE Stdio!CloseScope
    BY <1>7, <2>1, <2>2 DEF Stdio!CloseScope, Stdio!Goto, Stdio!FirstFinalizer
  <2>3. CASE Stdio!StopFibers
    <3>1. job' \in [Stdio!Jobs -> {"idle", "queued", "writing", "failed", "closing", "done"}]
      BY <2>3 DEF Stdio!StopFibers
    <3>2. interrupted' \in BOOLEAN /\ told' \in SUBSET Requests
      BY <2>3 DEF Stdio!StopFibers
    <3> QED
      BY <1>7, <2>1, <2>3, <3>1, <3>2 DEF Stdio!StopFibers, Stdio!Goto
  <2>4. CASE Stdio!Release
    BY <1>7, <2>1, <2>4 DEF Stdio!Release, Stdio!Goto
  <2> QED
    BY <1>10, <2>2, <2>3, <2>4
<1> QED
  BY <1>1, <1>2, <1>3, <1>6, <1>8, <1>9, <1>10 DEF Stdio!Next

\* What any step does to the child, and to the party p that ends it.
LEMMA PartySteps ==
  ASSUME StdioInv, Stdio!Next, NEW p \in Stdio!Parties
  PROVE  /\ ~child.alive => ~child'.alive
         /\ child.killed => child'.killed
         /\ child.asked => child'.asked
         /\ child'.killed => child.killed \/ child.asked
         /\ \/ stage'[p] = stage[p]
            \/ p = "closer" /\ stage[p] = "none" /\ stage'[p] = "writer"
            \/ p = "release" /\ stage[p] = "none" /\ stage'[p] = "terminate"
            \/ p = "scope" /\ stage[p] = "none" /\ stage'[p] = "terminate"
            \/ p = "closer" /\ stage[p] = "writer" /\ stage'[p] = "terminate"
            \/ p = "scope" /\ stage[p] = "writer" /\ stage'[p] = "last"
            \/ p = "scope" /\ stage[p] = "done" /\ stage'[p] = "writer"
            \/ p = "scope" /\ stage[p] = "last" /\ stage'[p] = "closed"
            \/ stage[p] = "terminate" /\ stage'[p] = "graceful" /\ child'.asked
            \/ stage[p] = "terminate" /\ stage'[p] = "done" /\ ~child.alive
            \/ stage[p] = "graceful" /\ stage'[p] = "done" /\ ~child.alive
            \/ stage[p] = "graceful" /\ stage'[p] = "forced" /\ child'.killed
            \/ stage[p] = "forced" /\ stage'[p] = "done"
<1> DEFINE Moves ==
             \/ stage'[p] = stage[p]
             \/ p = "closer" /\ stage[p] = "none" /\ stage'[p] = "writer"
             \/ p = "release" /\ stage[p] = "none" /\ stage'[p] = "terminate"
             \/ p = "scope" /\ stage[p] = "none" /\ stage'[p] = "terminate"
             \/ p = "closer" /\ stage[p] = "writer" /\ stage'[p] = "terminate"
             \/ p = "scope" /\ stage[p] = "writer" /\ stage'[p] = "last"
             \/ p = "scope" /\ stage[p] = "done" /\ stage'[p] = "writer"
             \/ p = "scope" /\ stage[p] = "last" /\ stage'[p] = "closed"
             \/ stage[p] = "terminate" /\ stage'[p] = "graceful" /\ child'.asked
             \/ stage[p] = "terminate" /\ stage'[p] = "done" /\ ~child.alive
             \/ stage[p] = "graceful" /\ stage'[p] = "done" /\ ~child.alive
             \/ stage[p] = "graceful" /\ stage'[p] = "forced" /\ child'.killed
             \/ stage[p] = "forced" /\ stage'[p] = "done"
           Keeps == /\ ~child.alive => ~child'.alive
                    /\ child.killed => child'.killed
                    /\ child.asked => child'.asked
                    /\ child'.killed => child.killed \/ child.asked
<1>1. /\ child \in [alive : BOOLEAN, asked : BOOLEAN, killed : BOOLEAN]
      /\ stage \in [Stdio!Parties -> {"none", "writer", "terminate", "graceful", "forced",
                                      "done", "last", "closed"}]
      /\ (closer = Stdio!Nobody) <=> (stage["closer"] = "none")
      /\ closer # Stdio!Nobody => stopping
      /\ \A q \in Stdio!Parties : stage[q] = "graceful" => child.asked
      /\ stage["release"] # "writer"
      /\ "closer" \in Stdio!Parties /\ "scope" \in Stdio!Parties /\ "release" \in Stdio!Parties
      /\ p \in {"closer", "scope", "release"}
  BY DEF StdioInv, Stdio!TypeOK, CloserInv, StageInv, Stdio!Parties
<1>2. UNCHANGED stage => Moves
  OBVIOUS
<1>3. UNCHANGED child => Keeps
  OBVIOUS
<1>4. ASSUME NEW by, Stdio!Publish(by) PROVE Moves
  BY <1>1, <1>4 DEF Stdio!Publish
<1>5. ASSUME NEW q \in Stdio!Parties, Stdio!CloseStep(q) PROVE Keeps /\ Moves
  <2>1. CASE Stdio!CloseWriter(q)
    BY <1>1, <2>1 DEF Stdio!CloseWriter, Stdio!Goto
  <2>2. CASE Stdio!Terminate(q)
    BY <1>1, <2>2 DEF Stdio!Terminate, Stdio!Goto
  <2>3. CASE Stdio!WaitGracefully(q)
    BY <1>1, <2>3 DEF Stdio!WaitGracefully, Stdio!Goto, Stdio!Escalated
  <2>4. CASE Stdio!WaitForced(q)
    BY <1>1, <2>4 DEF Stdio!WaitForced, Stdio!Goto
  <2> QED
    BY <1>5, <2>1, <2>2, <2>3, <2>4 DEF Stdio!CloseStep
<1>6. CASE Stdio!Die
  BY <1>1, <1>6 DEF Stdio!Die, Stdio!closing
<1>7. CASE Stdio!Notice
  <2>1. UNCHANGED child /\ Stdio!Publish(Stdio!Watcher)
    BY <1>7 DEF Stdio!Notice
  <2> QED
    BY <1>4, <2>1
<1>8. CASE Stdio!CloseScope \/ Stdio!StopFibers \/ Stdio!Release
  BY <1>1, <1>8
     DEF Stdio!CloseScope, Stdio!Open, Stdio!FirstFinalizer, Stdio!StopFibers, Stdio!Release,
         Stdio!Goto
<1>9. CASE \E r \in Requests : \/ Stdio!Request(r) \/ Stdio!Answer(r) \/ Stdio!EndClosed(r)
                               \/ Stdio!Interrupt(r)
  <2>1. UNCHANGED <<child, stage>>
    BY <1>9 DEF Stdio!Request, Stdio!Answer, Stdio!EndClosed, Stdio!Interrupt, Stdio!closing
  <2> QED
    BY <2>1
<1>10. CASE \E j \in Stdio!Jobs : \/ Stdio!Write(j) \/ Stdio!WriteFails(j)
                                  \/ Stdio!WriteSucceeds(j) \/ Stdio!ReportReturns(j)
  <2>1. UNCHANGED <<child, stage>>
    BY <1>10 DEF Stdio!Write, Stdio!WriteFails, Stdio!WriteSucceeds, Stdio!ReportReturns,
                 Stdio!closing
  <2> QED
    BY <2>1
<1>11. CASE \E j \in Stdio!Jobs : Stdio!Report(j)
  <2>1. UNCHANGED child /\ (UNCHANGED stage \/ \E j \in Stdio!Jobs : Stdio!Publish(j))
    BY <1>11 DEF Stdio!Report, Stdio!closing
  <2> QED
    BY <1>4, <2>1
<1> QED
  BY <1>5, <1>6, <1>7, <1>8, <1>9, <1>10, <1>11 DEF Stdio!Next

LEMMA StageInvStep ==
  ASSUME StdioInv, [Stdio!Next]_(Stdio!vars)
  PROVE  StageInv'
<1>1. CASE UNCHANGED Stdio!vars
  BY <1>1 DEF StdioInv, StageInv, Terminated, Stdio!vars
<1>2. CASE Stdio!Next
  <2>0. StageInv /\ Stdio!Parties = {"closer", "scope", "release"} /\ Stdio!TypeOK
    BY DEF StdioInv, Stdio!Parties
  <2>1. ASSUME NEW p \in Stdio!Parties
        PROVE  /\ stage'[p] = "forced" => child'.killed
               /\ stage'[p] = "graceful" => child'.asked
               /\ Terminated(p)' => child'.killed \/ ~child'.alive
    BY <1>2, <2>0, PartySteps DEF StageInv, Terminated
  <2>2. stage'["closer"] \in {"none", "writer", "terminate", "graceful", "forced", "done"}
    BY <1>2, <2>0, PartySteps DEF StageInv
  <2>3. stage'["release"] \in {"none", "terminate", "graceful", "forced", "done"}
    BY <1>2, <2>0, PartySteps DEF StageInv
  <2>4. child'.killed => child'.asked
    BY <1>2, <2>0, PartySteps DEF StageInv
  <2> QED
    BY <2>1, <2>2, <2>3, <2>4 DEF StageInv
<1> QED
  BY <1>1, <1>2

\* What any step does to the close and to the calls that publish it.
LEMMA CloseSteps ==
  ASSUME StdioInv, Stdio!Next
  PROVE  /\ stopping => stopping'
         /\ \/ UNCHANGED closer /\ (stage'["closer"] = "none" <=> stage["closer"] = "none")
            \/ closer = Stdio!Nobody /\ closer' # Stdio!Nobody /\ stage'["closer"] = "writer"
               /\ stopping' /\ UNCHANGED interrupted /\ ~stopping
         /\ failed' => failed \/ closer' # Stdio!Nobody \/ stage'["scope"] = "writer"
         /\ failed' => failed \/ stopping'
         /\ interrupted' => interrupted \/ stopping
         /\ stage'["scope"] # "none" => stage["scope"] # "none" \/ stopping'
         /\ \A j \in Stdio!Jobs : job'[j] = "closing" =>
              \/ job[j] = "closing" /\ UNCHANGED closer /\ ~interrupted'
              \/ closer' = j /\ ~stopping /\ UNCHANGED interrupted
<1> DEFINE Good ==
         /\ stopping => stopping'
         /\ \/ UNCHANGED closer /\ (stage'["closer"] = "none" <=> stage["closer"] = "none")
            \/ closer = Stdio!Nobody /\ closer' # Stdio!Nobody /\ stage'["closer"] = "writer"
               /\ stopping' /\ UNCHANGED interrupted /\ ~stopping
         /\ failed' => failed \/ closer' # Stdio!Nobody \/ stage'["scope"] = "writer"
         /\ failed' => failed \/ stopping'
         /\ interrupted' => interrupted \/ stopping
         /\ stage'["scope"] # "none" => stage["scope"] # "none" \/ stopping'
         /\ \A j \in Stdio!Jobs : job'[j] = "closing" =>
              \/ job[j] = "closing" /\ UNCHANGED closer /\ ~interrupted'
              \/ closer' = j /\ ~stopping /\ UNCHANGED interrupted
<1>0. /\ job \in [Stdio!Jobs -> {"idle", "queued", "writing", "failed", "closing", "done"}]
      /\ stopping \in BOOLEAN /\ failed \in BOOLEAN /\ interrupted \in BOOLEAN
      /\ stage \in [Stdio!Parties -> {"none", "writer", "terminate", "graceful", "forced",
                                      "done", "last", "closed"}]
      /\ (closer = Stdio!Nobody) <=> (stage["closer"] = "none")
      /\ closer # Stdio!Nobody \/ stage["scope"] # "none" => stopping
      /\ \A j \in Stdio!Jobs : job[j] = "closing" => closer = j /\ ~interrupted
      /\ "closer" \in Stdio!Parties /\ "scope" \in Stdio!Parties
      /\ "closer" # "scope" /\ "release" \in Stdio!Parties
  BY DEF StdioInv, Stdio!TypeOK, CloserInv, Stdio!Parties
<1>1. ASSUME UNCHANGED <<stopping, failed, closer, interrupted>>,
             UNCHANGED stage \/ \E p \in Stdio!Parties : \E next :
               /\ stage' = [stage EXCEPT ![p] = next] /\ next # "none"
               /\ stage[p] # "none" \/ p = "release",
             \A j \in Stdio!Jobs : job'[j] = "closing" => job[j] = "closing"
      PROVE  Good
  BY <1>0, <1>1
<1>2. ASSUME NEW by \in Stdio!Jobs \cup {Stdio!Watcher}, Stdio!Publish(by),
             \A j \in Stdio!Jobs : job'[j] = "closing" => job[j] = "closing" \/ j = by
      PROVE  Good
  <2>1. ~stopping /\ stopping' = TRUE /\ failed' = TRUE /\ closer' = by
        /\ stage' = [stage EXCEPT !["closer"] = "writer"] /\ interrupted' = interrupted
    BY <1>2 DEF Stdio!Publish
  <2>2. by # Stdio!Nobody
    BY JobsApart
  <2>3. closer = Stdio!Nobody /\ Stdio!Nobody \notin Stdio!Jobs
    BY <1>0, <2>1, JobsApart
  <2>4. stage'["closer"] = "writer" /\ stage'["scope"] = stage["scope"]
    BY <1>0, <2>1
  <2>5. \A j \in Stdio!Jobs : job[j] # "closing"
    BY <1>0, <2>3
  <2> QED
    BY <1>2, <2>1, <2>2, <2>3, <2>4, <2>5
<1>3. ASSUME NEW r \in Requests, Stdio!Request(r) \/ Stdio!Answer(r) \/ Stdio!EndClosed(r)
      PROVE  Good
  <2>1. \A j \in Stdio!Jobs : job'[j] = "closing" => job[j] = "closing"
    BY <1>0, <1>3, JobsApart DEF Stdio!Request, Stdio!Answer, Stdio!EndClosed
  <2>2. UNCHANGED <<stopping, failed, closer, interrupted, stage>>
    BY <1>3 DEF Stdio!Request, Stdio!Answer, Stdio!EndClosed, Stdio!closing
  <2> QED
    BY <1>1, <2>1, <2>2
<1>4. ASSUME NEW r \in Requests, Stdio!Interrupt(r) PROVE Good
  <2>0. Stdio!Call(r) \in Stdio!Jobs
    BY JobsApart
  <2>1. UNCHANGED <<stopping, failed, closer, stage>>
    BY <1>4 DEF Stdio!Interrupt
  <2>2. \A j \in Stdio!Jobs :
          job'[j] = "closing" => job[j] = "closing" /\ j # Stdio!Call(r)
    BY <1>0, <1>4, <2>0, JobsApart DEF Stdio!Interrupt
  <2>3. interrupted' => interrupted \/ job[Stdio!Call(r)] = "closing"
    BY <1>4 DEF Stdio!Interrupt
  <2>4. job[Stdio!Call(r)] = "closing" => closer = Stdio!Call(r) /\ stopping
    BY <1>0, <2>0, JobsApart
  <2>5. \A j \in Stdio!Jobs : job'[j] = "closing" => ~interrupted'
    BY <1>0, <2>0, <2>2, <2>3, <2>4
  <2> QED
    BY <2>1, <2>2, <2>3, <2>4, <2>5
<1>5. ASSUME NEW j \in Stdio!Jobs,
             Stdio!Write(j) \/ Stdio!WriteFails(j) \/ Stdio!WriteSucceeds(j)
               \/ Stdio!ReportReturns(j)
      PROVE  Good
  <2>1. \A k \in Stdio!Jobs : job'[k] = "closing" => job[k] = "closing"
    BY <1>0, <1>5
       DEF Stdio!Write, Stdio!WriteFails, Stdio!WriteSucceeds, Stdio!ReportReturns
  <2>2. UNCHANGED <<stopping, failed, closer, interrupted, stage>>
    BY <1>5 DEF Stdio!Write, Stdio!WriteFails, Stdio!WriteSucceeds, Stdio!ReportReturns,
                Stdio!closing
  <2> QED
    BY <1>1, <2>1, <2>2
<1>6. ASSUME NEW j \in Stdio!Jobs, Stdio!Report(j) PROVE Good
  <2>1. CASE Stdio!Publish(j) /\ job' = [job EXCEPT ![j] = "closing"]
    BY <1>0, <1>2, <2>1
  <2>2. CASE UNCHANGED Stdio!closing /\ job' = [job EXCEPT ![j] = "done"]
    <3>1. \A k \in Stdio!Jobs : job'[k] = "closing" => job[k] = "closing"
      BY <1>0, <2>2
    <3>2. UNCHANGED <<stopping, failed, closer, interrupted, stage>>
      BY <2>2 DEF Stdio!closing
    <3> QED
      BY <1>1, <3>1, <3>2
  <2> QED
    BY <1>6, <2>1, <2>2 DEF Stdio!Report
<1>7. ASSUME NEW p \in Stdio!Parties, Stdio!CloseStep(p) PROVE Good
  <2>1. \E next : /\ stage' = [stage EXCEPT ![p] = next] /\ next # "none"
                  /\ stage[p] # "none"
    <3>1. CASE Stdio!CloseWriter(p)
      BY <3>1 DEF Stdio!CloseWriter, Stdio!Goto
    <3>2. CASE Stdio!Terminate(p)
      BY <3>2 DEF Stdio!Terminate, Stdio!Goto
    <3>3. CASE Stdio!WaitGracefully(p)
      BY <3>3 DEF Stdio!WaitGracefully, Stdio!Goto
    <3>4. CASE Stdio!WaitForced(p)
      BY <3>4 DEF Stdio!WaitForced, Stdio!Goto
    <3> QED
      BY <1>7, <3>1, <3>2, <3>3, <3>4 DEF Stdio!CloseStep
  <2>2. UNCHANGED <<stopping, failed, closer, interrupted, job>>
    BY <1>7 DEF Stdio!CloseStep, Stdio!CloseWriter, Stdio!Terminate, Stdio!WaitGracefully,
                Stdio!WaitForced, Stdio!requests
  <2> QED
    BY <1>1, <2>1, <2>2
<1>8. CASE Stdio!Die
  BY <1>1, <1>8 DEF Stdio!Die, Stdio!requests, Stdio!closing
<1>9. CASE Stdio!Notice
  BY <1>2, <1>9 DEF Stdio!Notice, Stdio!requests
<1>10. CASE Stdio!CloseScope
  BY <1>0, <1>10 DEF Stdio!CloseScope, Stdio!requests, Stdio!Goto
<1>11. CASE Stdio!StopFibers
  <2>1. /\ stage["scope"] = "done" /\ stage' = [stage EXCEPT !["scope"] = "writer"]
        /\ UNCHANGED <<stopping, closer>>
        /\ job' = [j \in Stdio!Jobs |-> IF j[2] = "cancel" THEN "done" ELSE job[j]]
    BY <1>11 DEF Stdio!StopFibers, Stdio!Goto
  <2>2. stopping /\ stage'["scope"] = "writer" /\ stage'["closer"] = stage["closer"]
    BY <1>0, <2>1
  <2>3. ASSUME NEW j \in Stdio!Jobs, job'[j] = "closing"
        PROVE  job[j] = "closing" /\ ~interrupted'
    <3>1. job[j] = "closing" /\ j[2] # "cancel"
      BY <2>1, <2>3
    <3>2. PICK r \in Requests : j = Stdio!Call(r)
      BY <3>1, JobsApart
    <3>3. closer = Stdio!Call(r) /\ ~interrupted
      BY <1>0, <3>1, <3>2
    <3> QED
      BY <1>11, <3>1, <3>3 DEF Stdio!StopFibers
  <2> QED
    BY <2>1, <2>2, <2>3
<1>12. CASE Stdio!Release
  <2>1. \E p \in Stdio!Parties : \E next :
          /\ stage' = [stage EXCEPT ![p] = next] /\ next # "none"
          /\ stage[p] # "none" \/ p = "release"
    BY <1>0, <1>12 DEF Stdio!Release, Stdio!Goto
  <2>2. UNCHANGED <<stopping, failed, closer, interrupted, job>>
    BY <1>12 DEF Stdio!Release, Stdio!requests
  <2> QED
    BY <1>1, <2>1, <2>2
<1> QED
  BY <1>3, <1>4, <1>5, <1>6, <1>7, <1>8, <1>9, <1>10, <1>11, <1>12 DEF Stdio!Next

LEMMA CloserInvStep ==
  ASSUME StdioInv, [Stdio!Next]_(Stdio!vars)
  PROVE  CloserInv'
<1>1. CASE UNCHANGED Stdio!vars
  BY <1>1 DEF StdioInv, CloserInv, Terminated, Stdio!vars
<1>2. CASE Stdio!Next
  <2>0. CloserInv /\ "scope" \in Stdio!Parties
    BY DEF StdioInv, Stdio!Parties
  <2>1. /\ Terminated("scope") => Terminated("scope")'
        /\ stage'["scope"] = "writer" => Terminated("scope")'
    BY <1>2, <2>0, PartySteps DEF Terminated
  <2>2. (closer' = Stdio!Nobody) <=> (stage'["closer"] = "none")
    BY <1>2, <2>0, CloseSteps DEF CloserInv
  <2>3. closer' # Stdio!Nobody \/ stage'["scope"] # "none" \/ failed' \/ interrupted'
          => stopping'
    BY <1>2, <2>0, CloseSteps DEF CloserInv
  <2>4. failed' => closer' # Stdio!Nobody \/ Terminated("scope")'
    <3>1. /\ failed' => failed \/ closer' # Stdio!Nobody \/ stage'["scope"] = "writer"
          /\ closer # Stdio!Nobody => closer' # Stdio!Nobody
      BY <1>2, CloseSteps
    <3> QED
      BY <2>0, <2>1, <3>1 DEF CloserInv
  <2>5. ASSUME NEW j \in Stdio!Jobs, job'[j] = "closing" PROVE closer' = j /\ ~interrupted'
    BY <1>2, <2>0, <2>5, CloseSteps DEF CloserInv
  <2> QED
    BY <2>2, <2>3, <2>4, <2>5 DEF CloserInv
<1> QED
  BY <1>1, <1>2

\* A call begins before the dispatcher closes or not at all.
LEMMA ToldInvStep ==
  ASSUME StdioInv, [Stdio!Next]_(Stdio!vars)
  PROVE  ToldInv'
<1>1. CASE UNCHANGED Stdio!vars
  BY <1>1 DEF StdioInv, ToldInv, Stdio!Open, Stdio!vars
<1>2. CASE Stdio!Next
  <2>0. /\ ToldInv
        /\ job \in [Stdio!Jobs -> {"idle", "queued", "writing", "failed", "closing", "done"}]
        /\ "scope" \in Stdio!Parties /\ "closer" \in Stdio!Parties
    BY DEF StdioInv, Stdio!TypeOK, Stdio!Parties
  <2>1. Stdio!Open' => Stdio!Open
    BY <1>2, <2>0, PartySteps DEF Stdio!Open
  <2>2. ASSUME UNCHANGED <<failed, told>>,
               \A r \in Requests :
                 job'[Stdio!Call(r)] # "idle" => failed' = FALSE \/ job[Stdio!Call(r)] # "idle"
        PROVE  ToldInv'
    BY <2>0, <2>1, <2>2 DEF ToldInv
  <2>3. ASSUME NEW by, Stdio!Publish(by),
               \A r \in Requests : job'[Stdio!Call(r)] # "idle" => job[Stdio!Call(r)] # "idle"
        PROVE  ToldInv'
    BY <2>3 DEF Stdio!Publish, ToldInv
  <2>4. ASSUME NEW r \in Requests, \/ Stdio!Request(r) \/ Stdio!Answer(r) \/ Stdio!EndClosed(r)
        PROVE  ToldInv'
    <3>1. UNCHANGED <<failed, told>> /\ (UNCHANGED job \/ ~failed)
      BY <2>4 DEF Stdio!Request, Stdio!Answer, Stdio!EndClosed, Stdio!closing
    <3>2. failed \in BOOLEAN
      BY DEF StdioInv, Stdio!TypeOK
    <3> QED
      BY <2>2, <3>1, <3>2
  <2>5. ASSUME NEW r \in Requests, Stdio!Interrupt(r) PROVE ToldInv'
    <3>1. UNCHANGED <<failed, told>>
      BY <2>5 DEF Stdio!Interrupt
    <3>2. job[Stdio!Call(r)] # "idle"
      BY <2>5 DEF Stdio!Interrupt
    <3>3. ASSUME NEW q \in Requests, job'[Stdio!Call(q)] # "idle"
          PROVE  job[Stdio!Call(q)] # "idle"
      <4>1. /\ Stdio!Call(q) \in Stdio!Jobs /\ Stdio!Call(r) \in Stdio!Jobs
            /\ Stdio!Call(q) # Stdio!Cancel(r)
        BY JobsApart
      <4>2. Stdio!Call(q) # Stdio!Call(r) => job'[Stdio!Call(q)] = job[Stdio!Call(q)]
        BY <2>0, <2>5, <4>1 DEF Stdio!Interrupt
      <4> QED
        BY <3>2, <3>3, <4>2
    <3> QED
      BY <2>2, <3>1, <3>3
  <2>6. ASSUME NEW j \in Stdio!Jobs,
               Stdio!Write(j) \/ Stdio!WriteFails(j) \/ Stdio!WriteSucceeds(j)
                 \/ Stdio!ReportReturns(j)
        PROVE  ToldInv'
    <3>1. /\ UNCHANGED <<failed, told>> /\ job[j] # "idle"
          /\ \E v : job' = [job EXCEPT ![j] = v]
      BY <2>6 DEF Stdio!Write, Stdio!WriteFails, Stdio!WriteSucceeds, Stdio!ReportReturns,
                  Stdio!closing
    <3>2. \A r \in Requests : job'[Stdio!Call(r)] # "idle" => job[Stdio!Call(r)] # "idle"
      BY <2>0, <3>1, JobsApart
    <3> QED
      BY <2>2, <3>1, <3>2
  <2>7. ASSUME NEW j \in Stdio!Jobs, Stdio!Report(j) PROVE ToldInv'
    <3>1. job[j] # "idle" /\ \E v : job' = [job EXCEPT ![j] = v]
      BY <2>7 DEF Stdio!Report
    <3>2. \A r \in Requests : job'[Stdio!Call(r)] # "idle" => job[Stdio!Call(r)] # "idle"
      BY <2>0, <3>1, JobsApart
    <3>3. Stdio!Publish(j) \/ UNCHANGED <<failed, told>>
      BY <2>7 DEF Stdio!Report, Stdio!closing
    <3> QED
      BY <2>2, <2>3, <3>2, <3>3
  <2>8. CASE \E p \in Stdio!Parties : Stdio!CloseStep(p)
    <3>1. UNCHANGED <<failed, told, job>>
      BY <2>8 DEF Stdio!CloseStep, Stdio!CloseWriter, Stdio!Terminate, Stdio!WaitGracefully,
                  Stdio!WaitForced, Stdio!requests
    <3> QED
      BY <2>2, <3>1
  <2>9. CASE Stdio!Die \/ Stdio!CloseScope \/ Stdio!Release
    <3>1. UNCHANGED <<failed, told, job>>
      BY <2>9 DEF Stdio!Die, Stdio!CloseScope, Stdio!Release, Stdio!requests, Stdio!closing
    <3> QED
      BY <2>2, <3>1
  <2>10. CASE Stdio!Notice
    <3>1. Stdio!Publish(Stdio!Watcher) /\ UNCHANGED job
      BY <2>10 DEF Stdio!Notice, Stdio!requests
    <3> QED
      BY <2>3, <3>1
  <2>11. CASE Stdio!StopFibers
    <3>1. ~Stdio!Open
      BY <2>11 DEF Stdio!StopFibers, Stdio!Open
    <3> QED
      BY <2>1, <3>1 DEF ToldInv
  <2> QED
    BY <1>2, <2>4, <2>5, <2>6, <2>7, <2>8, <2>9, <2>10, <2>11 DEF Stdio!Next
<1> QED
  BY <1>1, <1>2

LEMMA StdioInvariance == Stdio!Spec => []StdioInv
<1>1. StdioInv /\ [Stdio!Next]_(Stdio!vars) => StdioInv'
  BY StdioTypeStep, StageInvStep, CloserInvStep, ToldInvStep DEF StdioInv
<1> QED
  BY <1>1, StdioInit, PTL DEF Stdio!Spec

\* A step of terminateChild, or of writer.close before or after it, can be taken.
CloseStepReady(p) ==
  /\ Stdio!Runs(p)
  /\ \/ stage[p] \in {"terminate", "graceful", "forced"}
     \/ stage[p] = "writer" /\ Stdio!PermitIsFree

\* A killed child is about to die, a write to a dead one to fail; a write that a live
\* child does not read keeps the permit.
ChildEnds == child.alive /\ child.killed
WriteEnds == ~child.alive /\ ~Stdio!PermitIsFree
WriteHangs == child.alive /\ ~Stdio!PermitIsFree

\* The safety half of ScopeCloses: a closing scope is closed, with the child dead, or a
\* step of its own, of the child or of a write is enabled.  It never waits for a child
\* that neither reads nor heeds SIGTERM.
THEOREM ScopeNotStuck ==
  Stdio!Spec => [](stage["scope"] # "none" =>
                     \/ CloseStepReady("scope") \/ CloseStepReady("release")
                     \/ stage["scope"] = "done"
                     \/ stage["scope"] = "last" /\ stage["release"] \in {"none", "done"}
                     \/ ChildEnds \/ WriteEnds
                     \/ stage["scope"] = "closed" /\ ~child.alive)
<1>1. ASSUME StdioInv, stage["scope"] # "none"
      PROVE  \/ CloseStepReady("scope") \/ CloseStepReady("release")
             \/ stage["scope"] = "done"
             \/ stage["scope"] = "last" /\ stage["release"] \in {"none", "done"}
             \/ ChildEnds \/ WriteEnds
             \/ stage["scope"] = "closed" /\ ~child.alive
  <2>1. stage["scope"] \in {"writer", "terminate", "graceful", "forced", "done", "last",
                            "closed"}
    BY <1>1 DEF StdioInv, Stdio!TypeOK, Stdio!Parties
  <2>2. Stdio!Runs("scope") /\ Stdio!Runs("release")
    BY DEF Stdio!Runs
  <2>3. stage["scope"] \in {"writer", "last", "closed"} => child.killed \/ ~child.alive
    BY <1>1 DEF StdioInv, StageInv, Terminated, Stdio!Parties
  <2>4. stage["release"] \in {"none", "terminate", "graceful", "forced", "done"}
    BY <1>1 DEF StdioInv, StageInv
  <2> QED
    BY <2>1, <2>2, <2>3, <2>4 DEF CloseStepReady, ChildEnds, WriteEnds
<1> QED
  BY <1>1, StdioInvariance, PTL

\* No write begins any more once the scope has asked the child to end, so that the one
\* write it may wait for is the last.
THEOREM NoWriteBegins ==
  Stdio!Spec =>
    [][stage["scope"] \notin {"none", "terminate"} =>
         \A j \in Stdio!Jobs : job'[j] = "writing" => job[j] = "writing"]_(Stdio!vars)
<1>1. ASSUME StdioInv, Stdio!Next, stage["scope"] \notin {"none", "terminate"},
             NEW j \in Stdio!Jobs, job'[j] = "writing"
      PROVE  job[j] = "writing"
  <2>1. child.asked \/ ~child.alive
    BY <1>1 DEF StdioInv, Stdio!TypeOK, Stdio!Parties, StageInv, Terminated
  <2>2. ~Stdio!Writable
    BY <2>1 DEF Stdio!Writable
  <2>3. job \in [Stdio!Jobs -> {"idle", "queued", "writing", "failed", "closing", "done"}]
    BY <1>1 DEF StdioInv, Stdio!TypeOK
  <2>4. ASSUME NEW r \in Requests, \/ Stdio!Request(r) \/ Stdio!Answer(r) \/ Stdio!EndClosed(r)
                                   \/ Stdio!Interrupt(r)
        PROVE  job[j] = "writing"
    BY <1>1, <2>3, <2>4, JobsApart
       DEF Stdio!Request, Stdio!Answer, Stdio!EndClosed, Stdio!Interrupt
  <2>5. ASSUME NEW k \in Stdio!Jobs, \/ Stdio!Write(k) \/ Stdio!WriteFails(k)
                                     \/ Stdio!WriteSucceeds(k) \/ Stdio!Report(k)
                                     \/ Stdio!ReportReturns(k)
        PROVE  job[j] = "writing"
    BY <1>1, <2>2, <2>3, <2>5
       DEF Stdio!Write, Stdio!WriteFails, Stdio!WriteSucceeds, Stdio!Report,
           Stdio!ReportReturns
  <2>6. CASE \/ \E p \in Stdio!Parties : Stdio!CloseStep(p)
             \/ Stdio!Die \/ Stdio!Notice \/ Stdio!CloseScope \/ Stdio!Release
    BY <1>1, <2>6
       DEF Stdio!CloseStep, Stdio!CloseWriter, Stdio!Terminate, Stdio!WaitGracefully,
           Stdio!WaitForced, Stdio!Die, Stdio!Notice, Stdio!CloseScope, Stdio!Release,
           Stdio!requests
  <2>7. CASE Stdio!StopFibers
    BY <1>1, <2>7 DEF Stdio!StopFibers
  <2> QED
    BY <1>1, <2>4, <2>5, <2>6, <2>7 DEF Stdio!Next
<1>2. StdioInv /\ [Stdio!Next]_(Stdio!vars)
        => [stage["scope"] \notin {"none", "terminate"} =>
              \A j \in Stdio!Jobs : job'[j] = "writing" => job[j] = "writing"]_(Stdio!vars)
  BY <1>1
<1> QED
  BY <1>2, StdioInvariance, PTL DEF Stdio!Spec

\* A request that was made and has not ended can go on by itself.
CallReady(r) ==
  LET here == job[Stdio!Call(r)]
  IN  \/ here = "queued" /\ Stdio!PermitIsFree
      \/ here = "failed"
      \/ here = "done" /\ r \in told
      \/ here = "closing" /\ closer = Stdio!Call(r) /\ stage["closer"] = "done"

\* Its final event was not offered before the scope closed: nobody ends it.
Untold(r) == ~Stdio!Open /\ r \notin told

\* The safety half of ClosesIfWritesReturn: behind the end of the dispatcher a call that
\* still waits can go on, or the closer can, or a write is to fail, or the scope took its
\* final event with it; and the child is dead or somebody is about to end it, unless the
\* closer was interrupted.  Else only a write the child does not read stands in the way.
THEOREM CloseNotStuck ==
  Stdio!Spec => [](failed /\ ~WriteHangs =>
                     /\ \A r \in Requests :
                          job[Stdio!Call(r)] # "idle" /\ ended[r] = "no" =>
                            CallReady(r) \/ CloseStepReady("closer") \/ WriteEnds \/ Untold(r)
                     /\ ~child.alive \/ interrupted \/ CloseStepReady("closer") \/ ChildEnds)
<1>1. ASSUME StdioInv, failed, ~WriteHangs
      PROVE  /\ \A r \in Requests :
                  job[Stdio!Call(r)] # "idle" /\ ended[r] = "no" =>
                    CallReady(r) \/ CloseStepReady("closer") \/ WriteEnds \/ Untold(r)
             /\ ~child.alive \/ interrupted \/ CloseStepReady("closer") \/ ChildEnds
  <2>1. /\ stage["closer"] \in {"none", "writer", "terminate", "graceful", "forced", "done"}
        /\ stage["closer"] = "done" => child.killed \/ ~child.alive
        /\ Terminated("scope") => child.killed \/ ~child.alive
        /\ (closer = Stdio!Nobody) <=> (stage["closer"] = "none")
        /\ closer # Stdio!Nobody \/ Terminated("scope")
    BY <1>1 DEF StdioInv, StageInv, CloserInv, Terminated, Stdio!Parties
  <2>2. ~interrupted => Stdio!Runs("closer")
    BY DEF Stdio!Runs
  <2>3. ~child.alive \/ Stdio!PermitIsFree
    BY <1>1 DEF WriteHangs
  <2>4. ~child.alive \/ interrupted \/ CloseStepReady("closer") \/ ChildEnds
    BY <2>1, <2>2, <2>3 DEF CloseStepReady, ChildEnds
  <2>5. ASSUME NEW r \in Requests, job[Stdio!Call(r)] # "idle", ~WriteEnds
        PROVE  CallReady(r) \/ CloseStepReady("closer") \/ Untold(r)
    <3>1. Stdio!PermitIsFree /\ Stdio!Call(r) \in Stdio!Jobs
      BY <2>3, <2>5, JobsApart DEF WriteEnds
    <3>2. job[Stdio!Call(r)] \in {"queued", "failed", "closing", "done"}
      BY <1>1, <2>5, <3>1 DEF StdioInv, Stdio!TypeOK, Stdio!PermitIsFree
    <3>3. CASE job[Stdio!Call(r)] = "closing"
      <4>1. closer = Stdio!Call(r) /\ ~interrupted /\ closer # Stdio!Nobody
        BY <1>1, <3>1, <3>3, JobsApart DEF StdioInv, CloserInv
      <4> QED
        BY <2>1, <2>2, <3>1, <3>3, <4>1 DEF CallReady, CloseStepReady
    <3>4. CASE job[Stdio!Call(r)] = "done"
      BY <1>1, <2>5, <3>4 DEF StdioInv, ToldInv, CallReady, Untold
    <3> QED
      BY <3>1, <3>2, <3>3, <3>4 DEF CallReady
  <2> QED
    BY <2>4, <2>5
<1> QED
  BY <1>1, StdioInvariance, PTL
=============================================================================
