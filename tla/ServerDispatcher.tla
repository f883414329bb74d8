-------------------------- MODULE ServerDispatcher --------------------------
(***************************************************************************)
(* The server side of the request dispatcher (makeServerDispatcher in      *)
(* src/src/McpDispatcher.ts): the table of active request ids, the fiber   *)
(* that runs each request, the one-permit gate every frame of a request    *)
(* passes, cancellation, supervised terminal-write failures and the scope  *)
(* finalizer.                                                              *)
(*                                                                         *)
(* An "owner" is one incarnation of a request: the ServerOwner object that *)
(* acceptRequest allocates.  Several owners may carry the same id, one     *)
(* after the other, which is what makes the identity checks matter.        *)
(***************************************************************************)
EXTENDS Naturals, Sequences

CONSTANTS
  Ids,                \* JSON-RPC request ids a peer may use
  Owners,             \* request incarnations: one per Request message received
  NoOwner,            \* stands for "no entry in the table"
  FailureCapacity,    \* SERVER_FAILURE_BUFFER_CAPACITY
  MaxNotifications    \* bound: notifications one request may send

ASSUME OwnersAssumption == NoOwner \notin Owners
ASSUME CapacityAssumption == FailureCapacity \in Nat \ {0}
ASSUME NotificationsAssumption == MaxNotifications \in Nat

VARIABLES
  idOf,          \* the id the owner's request carries (never changes)
  active,        \* the Ref<HashMap<JsonRpcId, ServerEntry>>
  accepting,     \* progress of the accept() call that made the owner
  fiber,         \* progress of the owner's runRequest fiber
  interrupted,   \* interruptUnsafe / Fiber.interrupt reached the fiber
  gate,          \* who holds the owner's permit
  notifier,      \* progress of a sendOwnedNotification call of the owner
  canceller,     \* progress of the cancelRequest call that claimed the owner
  cancelled,     \* the owner's `cancelled` Deferred is done
  terminals,     \* terminal responses handed to the transport for the owner
  notes,         \* notifications handed to the transport for the owner
  failures,      \* the bounded queue of ServerDispatchFailure
  supervisor,    \* the transport's reader of that queue, which may be gone
  scope          \* the dispatcher's scope

vars == <<idOf, active, accepting, fiber, interrupted, gate, notifier, canceller,
          cancelled, terminals, notes, failures, supervisor, scope>>

acceptVars == <<idOf, accepting>>
cancelVars == <<interrupted, canceller, cancelled>>
frameVars == <<gate, notifier, terminals, notes>>
failureVars == <<failures, supervisor>>

Phases == {"Running", "TerminalWriting", "CancellationPending", "Cancelling"}
NoEntry == [owner |-> NoOwner, phase |-> "None"]
Entries == [owner : Owners, phase : Phases] \cup {NoEntry}

TypeOK ==
  /\ idOf \in [Owners -> Ids]
  /\ active \in [Ids -> Entries]
  /\ accepting \in [Owners -> {"unused", "refused", "registered", "forked", "accepted"}]
  /\ fiber \in [Owners -> {"none", "started", "handling", "completing", "writing",
                           "reporting", "releasing", "done"}]
  /\ interrupted \in [Owners -> BOOLEAN]
  /\ gate \in [Owners -> {"free", "fiber", "notifier", "canceller"}]
  /\ notifier \in [Owners -> {"absent", "idle", "sending"}]
  /\ canceller \in [Owners -> {"idle", "pending", "holding", "done"}]
  /\ cancelled \in [Owners -> BOOLEAN]
  /\ terminals \in [Owners -> Nat]
  /\ notes \in [Owners -> Nat]
  /\ failures \in Seq(Owners) /\ Len(failures) <= FailureCapacity
  /\ supervisor \in {"taking", "gone"}
  /\ scope \in {"open", "closing", "draining", "closed"}

\* The stdio server runs with a reader of the failures, the HTTP server without.
Init ==
  /\ idOf \in [Owners -> Ids]
  /\ active = [i \in Ids |-> NoEntry]
  /\ accepting = [o \in Owners |-> "unused"]
  /\ fiber = [o \in Owners |-> "none"]
  /\ interrupted = [o \in Owners |-> FALSE]
  /\ gate = [o \in Owners |-> "free"]
  /\ notifier = [o \in Owners |-> "absent"]
  /\ canceller = [o \in Owners |-> "idle"]
  /\ cancelled = [o \in Owners |-> FALSE]
  /\ terminals = [o \in Owners |-> 0]
  /\ notes = [o \in Owners |-> 0]
  /\ failures = <<>>
  /\ supervisor \in {"taking", "gone"}
  /\ scope = "open"

-----------------------------------------------------------------------------
(* The table of active requests.                                           *)

Entry(o) == active[idOf[o]]
Holds(o) == Entry(o).owner = o
IsRunning(o) == Holds(o) /\ Entry(o).phase = "Running"
IdAlwaysFree(o) == TRUE                                                \* mutant
IdFree(o) == Entry(o) = NoEntry

MayAnswer(o) == IsRunning(o)
MayNotify(o) == IsRunning(o)

\* The table with o's entry in phase p.
WithPhase(o, p) == [active EXCEPT ![idOf[o]] = [owner |-> o, phase |-> p]]

ReleaseAnyOwner(o) == active' = [active EXCEPT ![idOf[o]] = NoEntry]   \* mutant

\* Remove the entry under o's id, but only if it is still o's own.
ReleaseOwner(o) ==
  active' = IF Holds(o) THEN [active EXCEPT ![idOf[o]] = NoEntry] ELSE active

-----------------------------------------------------------------------------
(* accept(Request): register, fork, publish the fiber.                     *)

Register(o) ==
  /\ accepting[o] = "unused"
  /\ scope = "open"
  /\ IdFree(o)
  /\ active' = WithPhase(o, "Running")
  /\ accepting' = [accepting EXCEPT ![o] = "registered"]
  /\ UNCHANGED <<idOf, fiber, cancelVars, frameVars, failureVars, scope>>

\* The id is taken: accept fails with InvalidRequest and nothing is forked.
RefuseDuplicate(o) ==
  /\ accepting[o] = "unused"
  /\ scope = "open"
  /\ ~IdFree(o)
  /\ accepting' = [accepting EXCEPT ![o] = "refused"]
  /\ UNCHANGED <<idOf, active, fiber, cancelVars, frameVars, failureVars, scope>>

Fork(o) ==
  /\ accepting[o] = "registered"
  /\ accepting' = [accepting EXCEPT ![o] = "forked"]
  /\ fiber' = [fiber EXCEPT ![o] = "started"]
  /\ UNCHANGED <<idOf, active, cancelVars, frameVars, failureVars, scope>>

\* Deferred.succeed(owner.fiberReady, fiber)
PublishFiber(o) ==
  /\ accepting[o] = "forked"
  /\ accepting' = [accepting EXCEPT ![o] = "accepted"]
  /\ UNCHANGED <<idOf, active, fiber, cancelVars, frameVars, failureVars, scope>>

FiberReady(o) == accepting[o] = "accepted"

-----------------------------------------------------------------------------
(* runRequest.  A fiber that has been interrupted may go on until it next  *)
(* reaches an interruptible point (TakeInterrupt).                         *)

Move(o, from, to) ==
  fiber[o] = from /\ fiber' = [fiber EXCEPT ![o] = to]

\* Unknown method, undecodable params or bad inputResponses: answered with an
\* error without running the handler.
RejectRequest(o) ==
  /\ Move(o, "started", "completing")
  /\ UNCHANGED <<acceptVars, active, cancelVars, frameVars, failureVars, scope>>

\* The handler starts, with a request context that can send notifications.
StartHandler(o) ==
  /\ Move(o, "started", "handling")
  /\ notifier' = [notifier EXCEPT ![o] = "idle"]
  /\ UNCHANGED <<acceptVars, active, cancelVars, gate, terminals, notes,
                 failureVars, scope>>

\* The handler succeeded, failed or died: either way there is a terminal.
HandlerReturns(o) ==
  /\ Move(o, "handling", "completing")
  /\ UNCHANGED <<acceptVars, active, cancelVars, frameVars, failureVars, scope>>

\* The handler's cause holds interrupts only: no terminal at all.
HandlerInterruptsItself(o) ==
  /\ Move(o, "handling", "releasing")
  /\ UNCHANGED <<acceptVars, active, cancelVars, frameVars, failureVars, scope>>

\* An interrupted fiber unwinds: it drops the permit if it held it, and an
\* Effect.exit it was inside of does not get to run its continuation.
TakeInterrupt(o) ==
  /\ interrupted[o]
  /\ fiber[o] \in {"started", "handling", "completing", "writing", "reporting"}
  /\ fiber' = [fiber EXCEPT ![o] = "releasing"]
  /\ gate' = [gate EXCEPT ![o] = IF @ = "fiber" THEN "free" ELSE @]
  /\ UNCHANGED <<acceptVars, active, cancelVars, notifier, terminals, notes,
                 failureVars, scope>>

\* complete: take the permit, and begin the terminal if the entry is still ours
\* and Running.  Taking the permit and the Ref.modify are one step: nothing that
\* happens between them could tell them apart.
BeginTerminal(o) ==
  /\ Move(o, "completing", "writing")
  /\ gate[o] = "free"
  /\ MayAnswer(o)
  /\ gate' = [gate EXCEPT ![o] = "fiber"]
  /\ active' = WithPhase(o, "TerminalWriting")
  /\ terminals' = [terminals EXCEPT ![o] = @ + 1]
  /\ UNCHANGED <<acceptVars, cancelVars, notifier, notes, failureVars, scope>>

\* complete: the entry is gone, another owner's, or claimed by a cancellation.
SkipTerminal(o) ==
  /\ Move(o, "completing", "releasing")
  /\ gate[o] = "free"
  /\ ~MayAnswer(o)
  /\ UNCHANGED <<acceptVars, active, cancelVars, frameVars, failureVars, scope>>

\* The write of the terminal settles; the id is released before anything else.
TerminalWritten(o) ==
  /\ Move(o, "writing", "releasing")
  /\ ReleaseOwner(o)
  /\ gate' = [gate EXCEPT ![o] = "free"]
  /\ UNCHANGED <<acceptVars, cancelVars, notifier, terminals, notes, failureVars,
                 scope>>

TerminalWriteFails(o) ==
  /\ Move(o, "writing", "reporting")
  /\ ReleaseOwner(o)
  /\ UNCHANGED <<acceptVars, cancelVars, frameVars, failureVars, scope>>

QueueHasRoom == Len(failures) < FailureCapacity

DropFailure(o) ==                                                      \* mutant
  /\ Move(o, "reporting", "releasing")
  /\ gate' = [gate EXCEPT ![o] = "free"]
  /\ UNCHANGED <<acceptVars, active, cancelVars, notifier, terminals, notes,
                 failureVars, scope>>

\* Queue.offer suspends, with the permit still held, while the queue is full.
ReportFailure(o) ==
  /\ Move(o, "reporting", "releasing")
  /\ QueueHasRoom
  /\ failures' = Append(failures, o)
  /\ gate' = [gate EXCEPT ![o] = "free"]
  /\ UNCHANGED <<acceptVars, active, cancelVars, notifier, terminals, notes,
                 supervisor, scope>>

EndFiberKeepingId(o) ==                                                \* mutant
  /\ Move(o, "releasing", "done")
  /\ UNCHANGED <<acceptVars, active, cancelVars, frameVars, failureVars, scope>>

\* Effect.ensuring(releaseOwner): also after the terminal already released.
EndFiber(o) ==
  /\ Move(o, "releasing", "done")
  /\ ReleaseOwner(o)
  /\ UNCHANGED <<acceptVars, cancelVars, frameVars, failureVars, scope>>

-----------------------------------------------------------------------------
(* sendOwnedNotification, called by anything that captured the request     *)
(* context: the handler, or a fiber it forked that may outlive it.         *)

\* Take the permit and find the entry ours and Running.  A refused call fails
\* with InvalidRequest and changes nothing.
BeginNotification(o) ==
  /\ notifier[o] = "idle"
  /\ notes[o] < MaxNotifications
  /\ gate[o] = "free"
  /\ MayNotify(o)
  /\ gate' = [gate EXCEPT ![o] = "notifier"]
  /\ notifier' = [notifier EXCEPT ![o] = "sending"]
  /\ UNCHANGED <<acceptVars, active, fiber, cancelVars, terminals, notes,
                 failureVars, scope>>

\* The send takes effect or fails, and either way the permit is returned.
EndNotification(o) ==
  /\ notifier[o] = "sending"
  /\ notes' = [notes EXCEPT ![o] = @ + 1]
  /\ gate' = [gate EXCEPT ![o] = "free"]
  /\ notifier' = [notifier EXCEPT ![o] = "idle"]
  /\ UNCHANGED <<acceptVars, active, fiber, cancelVars, terminals, failureVars,
                 scope>>

-----------------------------------------------------------------------------
(* cancelRequest (uninterruptible).  A cancellation of an id that is not   *)
(* active, or whose owner is past Running, changes nothing.                *)

ClaimCancellation(o) ==
  /\ IsRunning(o)
  /\ active' = WithPhase(o, "CancellationPending")
  /\ canceller' = [canceller EXCEPT ![o] = "pending"]
  /\ UNCHANGED <<acceptVars, fiber, interrupted, frameVars, cancelled,
                 failureVars, scope>>

MayEnterCancelling(o) == gate[o] = "free"

\* Under the permit: the phase moves on only if the entry is still this owner's;
\* the cancelled Deferred completes in any case.
EnterCancelling(o) ==
  /\ canceller[o] = "pending"
  /\ MayEnterCancelling(o)
  /\ gate' = [gate EXCEPT ![o] = "canceller"]
  /\ active' = IF Holds(o) /\ Entry(o).phase = "CancellationPending"
                 THEN WithPhase(o, "Cancelling")
                 ELSE active
  /\ cancelled' = [cancelled EXCEPT ![o] = TRUE]
  /\ canceller' = [canceller EXCEPT ![o] = "holding"]
  /\ UNCHANGED <<acceptVars, fiber, interrupted, notifier, terminals, notes,
                 failureVars, scope>>

\* Await fiberReady, interrupt without joining, return the permit.
InterruptCancelled(o) ==
  /\ canceller[o] = "holding"
  /\ FiberReady(o)
  /\ interrupted' = [interrupted EXCEPT ![o] = TRUE]
  /\ gate' = [gate EXCEPT ![o] = "free"]
  /\ canceller' = [canceller EXCEPT ![o] = "done"]
  /\ UNCHANGED <<acceptVars, active, fiber, notifier, cancelled, terminals, notes,
                 failureVars, scope>>

-----------------------------------------------------------------------------
(* The transport supervising failures, and the scope finalizer.            *)

\* The first failure that is taken fails the run of the transport: nobody takes
\* another, while the dispatcher's scope stays open.
TakeFailure ==
  /\ supervisor = "taking"
  /\ failures # <<>>
  /\ failures' = Tail(failures)
  /\ supervisor' = "gone"
  /\ UNCHANGED <<acceptVars, active, fiber, cancelVars, frameVars, scope>>

\* The run ends first: its input ends, or another write of it fails.
StopSupervisor ==
  /\ supervisor = "taking"
  /\ supervisor' = "gone"
  /\ UNCHANGED <<acceptVars, active, fiber, cancelVars, frameVars, failures, scope>>

CloseScope ==
  /\ scope = "open"
  /\ scope' = "closing"
  /\ UNCHANGED <<acceptVars, active, fiber, cancelVars, frameVars, failureVars>>

InterruptListedAtClose(o) ==                                           \* mutant
  /\ scope \in {"closing", "draining"}
  /\ Holds(o) /\ ~interrupted[o]
  /\ interrupted' = [interrupted EXCEPT ![o] = TRUE]
  /\ UNCHANGED <<acceptVars, active, fiber, frameVars, canceller, cancelled,
                 failureVars, scope>>

\* forkIn(scope) and the dispatcher's own finalizer both interrupt the fibers.
InterruptAtClose(o) ==
  /\ scope \in {"closing", "draining"}
  /\ accepting[o] \in {"forked", "accepted"}
  /\ ~interrupted[o]
  /\ interrupted' = [interrupted EXCEPT ![o] = TRUE]
  /\ UNCHANGED <<acceptVars, active, fiber, frameVars, canceller, cancelled,
                 failureVars, scope>>

\* Ref.getAndSet(active, HashMap.empty())
ClearActive ==
  /\ scope = "closing"
  /\ active' = [i \in Ids |-> NoEntry]
  /\ scope' = "draining"
  /\ UNCHANGED <<acceptVars, fiber, cancelVars, frameVars, failureVars>>

\* Every fiber has been joined; the failure queue is shut down, and its reader with it.
FinishClose ==
  /\ scope = "draining"
  /\ \A o \in Owners : accepting[o] \in {"unused", "refused"} \/ fiber[o] = "done"
  /\ failures' = <<>>
  /\ supervisor' = "gone"
  /\ scope' = "closed"
  /\ UNCHANGED <<acceptVars, active, fiber, cancelVars, frameVars>>

-----------------------------------------------------------------------------
AcceptStep(o) == Register(o) \/ RefuseDuplicate(o) \/ Fork(o) \/ PublishFiber(o)

FiberStep(o) ==
  \/ RejectRequest(o) \/ StartHandler(o)
  \/ HandlerReturns(o) \/ HandlerInterruptsItself(o)
  \/ TakeInterrupt(o)
  \/ BeginTerminal(o) \/ SkipTerminal(o)
  \/ TerminalWritten(o) \/ TerminalWriteFails(o)
  \/ ReportFailure(o) \/ EndFiber(o)

NotifierStep(o) == BeginNotification(o) \/ EndNotification(o)

CancelStep(o) == ClaimCancellation(o) \/ EnterCancelling(o) \/ InterruptCancelled(o)

ScopeStep == CloseScope \/ ClearActive \/ FinishClose

Next ==
  \/ \E o \in Owners : \/ AcceptStep(o) \/ FiberStep(o) \/ NotifierStep(o)
                       \/ CancelStep(o) \/ InterruptAtClose(o)
  \/ TakeFailure \/ StopSupervisor
  \/ ScopeStep

Spec == Init /\ [][Next]_vars

(***************************************************************************)
(* Fairness.  Every fiber of the runtime that can go on eventually does,   *)
(* writes settle and an interrupted fiber unwinds.  Nothing obliges the    *)
(* handler to return (subscriptions/listen never does), the peer to send   *)
(* or cancel anything, the run or the scope to end; a supervisor that is   *)
(* still taking takes a failure it is told of.                             *)
(***************************************************************************)
FiberProgress(o) ==
  \/ RejectRequest(o) \/ StartHandler(o) \/ TakeInterrupt(o)
  \/ BeginTerminal(o) \/ SkipTerminal(o)
  \/ TerminalWritten(o) \/ TerminalWriteFails(o)
  \/ ReportFailure(o) \/ EndFiber(o)

Fairness ==
  /\ \A o \in Owners :
       /\ WF_vars(Fork(o) \/ PublishFiber(o))
       /\ WF_vars(FiberProgress(o))
       /\ WF_vars(EndNotification(o))
       /\ WF_vars(EnterCancelling(o) \/ InterruptCancelled(o))
       /\ WF_vars(InterruptAtClose(o))
  /\ WF_vars(TakeFailure)
  /\ WF_vars(ClearActive \/ FinishClose)

FairSpec == Spec /\ Fairness

-----------------------------------------------------------------------------
(* Properties                                                              *)

\* The owner's fiber still has work whose frames would be confused with those of
\* another request under the same id.
Working(o) ==
  \/ accepting[o] = "registered"
  \/ fiber[o] \in {"started", "handling", "completing", "writing"}

\* Until the terminal write has settled or the interrupted handler has cleaned
\* up, the id stays registered to that very incarnation, so accept refuses a
\* second request under it and no late release of an older incarnation frees it.
\* A fiber that has finished, or that is suspended on the full failure queue,
\* no longer holds the id: a stalled supervisor holds up only itself.
IdHeldWhileWorking ==
  \A o \in Owners :
    /\ Working(o) /\ scope \in {"open", "closing"} => Holds(o)
    /\ fiber[o] \in {"reporting", "done"} => ~Holds(o)

\* A cancellation that claimed a Running request and a terminal exclude each
\* other, whichever of the two fibers gets the permit first; and a request is
\* answered at most once.
CancellationOrTerminal ==
  \A o \in Owners :
    /\ terminals[o] <= 1
    /\ canceller[o] # "idle" => terminals[o] = 0

\* After a terminal response has been handed to the transport, or the `cancelled`
\* signal of the request has been raised, nothing more is written for it, not
\* even by a fiber that outlives the handler.
NothingAfterTheEnd ==
  [][\A o \in Owners :
       /\ terminals[o] > 0 \/ cancelled[o] => notes'[o] = notes[o]
       /\ cancelled[o] => terminals'[o] = terminals[o]]_vars

\* The handler ended its own fiber by interruption.
InterruptedItself(o) ==
  fiber[o] \in {"releasing", "done"} /\ ~interrupted[o] /\ terminals[o] = 0

\* A notification reaches the wire only while its request still holds the id,
\* except for one left in flight by a handler that interrupted itself or by the
\* closing of the dispatcher.
NotificationNeedsId ==
  [][\A o \in Owners : notes'[o] # notes[o] =>
       Holds(o) \/ InterruptedItself(o) \/ scope # "open"]_vars

\* A claimed cancellation makes the id reusable whatever the handler does, and so
\* does a handler that returned, even with the failure queue full and nobody to
\* empty it.
IdEventuallyFreed ==
  \A o \in Owners :
    canceller[o] = "pending" \/ fiber[o] = "completing" ~> ~Holds(o)

\* A failed terminal write fails the run of a transport that supervises them, also
\* when another request's failure was there first, unless the run or the dispatcher
\* ends before.
FailuresAreSupervised ==
  supervisor = "taking" /\ (\E o \in Owners : fiber[o] = "reporting") ~>
    supervisor = "gone" \/ scope # "open"

\* Closing the scope terminates: every request fiber is joined.
CloseFinishes == scope = "closing" ~> scope = "closed"

-----------------------------------------------------------------------------
(* What all this machinery promises the peer: RequestLifecycle.            *)

Holder == [i \in Ids |-> active[i].owner]

StageOf(o) ==
  IF accepting[o] \in {"unused", "refused"} THEN "unused"
  ELSE IF terminals[o] > 0 THEN "answered"
  ELSE IF cancelled[o] THEN "withdrawn"
  ELSE IF IsRunning(o) THEN "open"
  ELSE "winding"

Stage == [o \in Owners |-> StageOf(o)]

Lifecycle == INSTANCE RequestLifecycle
  WITH holder <- Holder, stage <- Stage, spoken <- notes

\* The dispatcher implements the lifecycle: ids are exclusive and given back by
\* their holder only, a request says at most one last thing, and nothing after a
\* cancellation has taken hold.
ImplementsLifecycle == Lifecycle!Spec
=============================================================================
