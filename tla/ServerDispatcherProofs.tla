----------------------- MODULE ServerDispatcherProofs -----------------------
(***************************************************************************)
(* Proofs about ServerDispatcher, for any sets of ids and owners and any   *)
(* bounds: the safety properties checked by its run, and that it           *)
(* implements RequestLifecycle.                                            *)
(***************************************************************************)
EXTENDS ServerDispatcher, TLAPS

USE DEF acceptVars, cancelVars, frameVars, failureVars, Move, IdFree, MayAnswer,
        MayNotify, QueueHasRoom, MayEnterCancelling

\* Who holds the permit, read off the three kinds of process that take it.
GateInv ==
  \A o \in Owners :
    /\ gate[o] = "fiber" <=> fiber[o] \in {"writing", "reporting"}
    /\ gate[o] = "notifier" <=> notifier[o] = "sending"
    /\ gate[o] = "canceller" <=> canceller[o] = "holding"

\* How far accept has got with an owner, and that an owner it has not registered
\* has no entry and no canceller.
AcceptInv ==
  \A o \in Owners :
    /\ accepting[o] \in {"unused", "refused", "registered"} <=> fiber[o] = "none"
    /\ accepting[o] \in {"unused", "refused"} =>
         /\ ~Holds(o)
         /\ canceller[o] = "idle"
    /\ fiber[o] \in {"none", "started"} => notifier[o] = "absent"
    /\ fiber[o] = "none" => terminals[o] = 0

\* Every entry is filed under its owner's id, and the table stays empty once the
\* finalizer has cleared it.
TableInv ==
  /\ \A i \in Ids : active[i] # NoEntry => idOf[active[i].owner] = i
  /\ scope \in {"draining", "closed"} => \A i \in Ids : active[i] = NoEntry

\* What an entry's phase says about its owner.
PhaseInv ==
  \A o \in Owners :
    /\ Holds(o) /\ terminals[o] > 0 => Entry(o).phase = "TerminalWriting"
    /\ Holds(o) /\ Entry(o).phase = "TerminalWriting" => terminals[o] > 0
    /\ Holds(o) /\ canceller[o] # "idle" =>
         Entry(o).phase \in {"CancellationPending", "Cancelling"}
    /\ Holds(o) /\ Entry(o).phase \in {"CancellationPending", "Cancelling"} =>
         canceller[o] # "idle"
    /\ cancelled[o] <=> canceller[o] \in {"holding", "done"}
    /\ fiber[o] \in {"writing", "reporting"} => terminals[o] > 0

\* Why nothing is on its way out after a terminal or a cancellation, and the one
\* way a notification can outlast the entry while the scope is open.
FrameInv ==
  \A o \in Owners :
    /\ notifier[o] = "sending" => ~cancelled[o] /\ terminals[o] = 0
    /\ interrupted[o] /\ scope = "open" => cancelled[o]
    /\ notifier[o] = "sending" /\ scope = "open" => Holds(o) \/ InterruptedItself(o)

Inv ==
  /\ GateInv
  /\ AcceptInv
  /\ TableInv
  /\ PhaseInv
  /\ FrameInv
  /\ IdHeldWhileWorking
  /\ CancellationOrTerminal

-----------------------------------------------------------------------------
(* Type correctness.                                                       *)

LEMMA TypeOKInit == Init => TypeOK
BY CapacityAssumption DEF Init, TypeOK, Entries

LEMMA TypeOKStep == TypeOK /\ [Next]_vars => TypeOK'
<1> SUFFICES ASSUME TypeOK, Next PROVE TypeOK'
  BY DEF TypeOK, vars
<1>1. ASSUME NEW o \in Owners, Register(o) PROVE TypeOK'
  BY <1>1 DEF TypeOK, Register, WithPhase, Entry, NoEntry, Entries, Phases
<1>2. ASSUME NEW o \in Owners, RefuseDuplicate(o) PROVE TypeOK'
  BY <1>2 DEF TypeOK, RefuseDuplicate, Entry, NoEntry
<1>3. ASSUME NEW o \in Owners, Fork(o) PROVE TypeOK'
  BY <1>3 DEF TypeOK, Fork
<1>4. ASSUME NEW o \in Owners, PublishFiber(o) PROVE TypeOK'
  BY <1>4 DEF TypeOK, PublishFiber
<1>5. ASSUME NEW o \in Owners, RejectRequest(o) PROVE TypeOK'
  BY <1>5 DEF TypeOK, RejectRequest
<1>6. ASSUME NEW o \in Owners, StartHandler(o) PROVE TypeOK'
  BY <1>6 DEF TypeOK, StartHandler
<1>7. ASSUME NEW o \in Owners, HandlerReturns(o) PROVE TypeOK'
  BY <1>7 DEF TypeOK, HandlerReturns
<1>8. ASSUME NEW o \in Owners, HandlerInterruptsItself(o) PROVE TypeOK'
  BY <1>8 DEF TypeOK, HandlerInterruptsItself
<1>9. ASSUME NEW o \in Owners, TakeInterrupt(o) PROVE TypeOK'
  BY <1>9 DEF TypeOK, TakeInterrupt
<1>10. ASSUME NEW o \in Owners, BeginTerminal(o) PROVE TypeOK'
  BY <1>10 DEF TypeOK, BeginTerminal, WithPhase, IsRunning, Holds, Entry,
        Entries, Phases, NoEntry
<1>11. ASSUME NEW o \in Owners, SkipTerminal(o) PROVE TypeOK'
  BY <1>11 DEF TypeOK, SkipTerminal, IsRunning, Holds, Entry
<1>12. ASSUME NEW o \in Owners, TerminalWritten(o) PROVE TypeOK'
  BY <1>12 DEF TypeOK, TerminalWritten, ReleaseOwner, Holds, Entry, NoEntry,
        Entries, Phases
<1>13. ASSUME NEW o \in Owners, TerminalWriteFails(o) PROVE TypeOK'
  BY <1>13 DEF TypeOK, TerminalWriteFails, ReleaseOwner, Holds, Entry,
        NoEntry, Entries, Phases
<1>14. ASSUME NEW o \in Owners, ReportFailure(o) PROVE TypeOK'
  <2>1. failures' \in Seq(Owners) /\ Len(failures') = Len(failures) + 1
    BY <1>14 DEF TypeOK, ReportFailure
  <2>2. Len(failures) < FailureCapacity /\ Len(failures) \in Nat
    BY <1>14 DEF TypeOK, ReportFailure
  <2>3. Len(failures') <= FailureCapacity BY <2>1, <2>2, CapacityAssumption
  <2> QED BY <1>14, <2>1, <2>3 DEF TypeOK, ReportFailure
<1>15. ASSUME NEW o \in Owners, EndFiber(o) PROVE TypeOK'
  BY <1>15 DEF TypeOK, EndFiber, ReleaseOwner, Holds, Entry, NoEntry, Entries,
        Phases
<1>16. ASSUME NEW o \in Owners, BeginNotification(o) PROVE TypeOK'
  BY <1>16 DEF TypeOK, BeginNotification, IsRunning, Holds, Entry
<1>17. ASSUME NEW o \in Owners, EndNotification(o) PROVE TypeOK'
  BY <1>17 DEF TypeOK, EndNotification
<1>18. ASSUME NEW o \in Owners, ClaimCancellation(o) PROVE TypeOK'
  BY <1>18 DEF TypeOK, ClaimCancellation, IsRunning, WithPhase, Holds, Entry,
        Entries, Phases, NoEntry
<1>19. ASSUME NEW o \in Owners, EnterCancelling(o) PROVE TypeOK'
  BY <1>19 DEF TypeOK, EnterCancelling, Entry, Holds, WithPhase, Entries,
        Phases, NoEntry
<1>20. ASSUME NEW o \in Owners, InterruptCancelled(o) PROVE TypeOK'
  BY <1>20 DEF TypeOK, InterruptCancelled, FiberReady
<1>21. ASSUME TakeFailure PROVE TypeOK'
  <2>1. /\ failures' \in Seq(Owners)
        /\ Len(failures') = Len(failures) - 1
        /\ Len(failures) \in Nat
    BY <1>21 DEF TypeOK, TakeFailure
  <2>2. Len(failures') <= FailureCapacity
    BY <2>1, CapacityAssumption DEF TypeOK
  <2> QED BY <1>21, <2>1, <2>2 DEF TypeOK, TakeFailure
<1>22. ASSUME CloseScope PROVE TypeOK'
  BY <1>22 DEF TypeOK, CloseScope
<1>23. ASSUME NEW o \in Owners, InterruptAtClose(o) PROVE TypeOK'
  BY <1>23 DEF TypeOK, InterruptAtClose
<1>24. ASSUME ClearActive PROVE TypeOK'
  BY <1>24 DEF TypeOK, ClearActive, NoEntry, Entries, Phases
<1>25. ASSUME FinishClose PROVE TypeOK'
  BY <1>25, CapacityAssumption DEF TypeOK, FinishClose
<1>26. ASSUME StopSupervisor PROVE TypeOK'
  BY <1>26 DEF TypeOK, StopSupervisor
<1> QED
  BY <1>1, <1>2, <1>3, <1>4, <1>5, <1>6, <1>7, <1>8, <1>9, <1>10, <1>11,
        <1>12, <1>13, <1>14, <1>15, <1>16, <1>17, <1>18, <1>19, <1>20, <1>21,
        <1>22, <1>23, <1>24, <1>25, <1>26
  DEF Next, AcceptStep, FiberStep, NotifierStep, CancelStep, ScopeStep

\* Every variable keeps its type: what src/src/McpDispatcher.ts declares for the
\* table, and the progress values of the model.
THEOREM TypeCorrect == Spec => []TypeOK
BY TypeOKInit, TypeOKStep, PTL DEF Spec

-----------------------------------------------------------------------------
(* The invariant, one lemma per action.                                    *)

LEMMA InvInit == Init => Inv
BY OwnersAssumption DEF Init, Inv, GateInv, AcceptInv, TableInv, PhaseInv, FrameInv,
   IdHeldWhileWorking, CancellationOrTerminal, Working, Holds, Entry, NoEntry

LEMMA RegisterStep ==
  ASSUME TypeOK, Inv, NEW o \in Owners, Register(o)
  PROVE  Inv'
<1>1. AcceptInv'
  BY OwnersAssumption DEF TypeOK, Inv, AcceptInv, Holds, Entry, Register,
        WithPhase, NoEntry
<1>2. TableInv'
  BY OwnersAssumption DEF TypeOK, Inv, TableInv, NoEntry, Register, WithPhase,
        Entry, Entries
<1>3. PhaseInv'
  BY OwnersAssumption DEF TypeOK, Inv, PhaseInv, Holds, Entry, Register,
        WithPhase, NoEntry, AcceptInv
<1>4. FrameInv'
  BY OwnersAssumption DEF TypeOK, Inv, FrameInv, Holds, Entry,
        InterruptedItself, Register, WithPhase, NoEntry
<1>5. IdHeldWhileWorking'
  BY OwnersAssumption DEF TypeOK, Inv, IdHeldWhileWorking, Working, Holds,
        Entry, Register, WithPhase, NoEntry, AcceptInv
<1>6. GateInv' /\ CancellationOrTerminal'
  BY DEF Inv, GateInv, CancellationOrTerminal, Register
<1> QED BY <1>1, <1>2, <1>3, <1>4, <1>5, <1>6 DEF Inv

LEMMA RefuseDuplicateStep ==
  ASSUME TypeOK, Inv, NEW o \in Owners, RefuseDuplicate(o)
  PROVE  Inv'
<1>1. AcceptInv'
  BY OwnersAssumption DEF TypeOK, Inv, AcceptInv, Holds, Entry,
        RefuseDuplicate, NoEntry
<1>2. IdHeldWhileWorking'
  BY OwnersAssumption DEF TypeOK, Inv, IdHeldWhileWorking, Working, Holds,
        Entry, RefuseDuplicate, NoEntry
<1>3. /\ GateInv'
      /\ TableInv'
      /\ PhaseInv'
      /\ FrameInv'
      /\ CancellationOrTerminal'
  BY DEF Inv, GateInv, TableInv, PhaseInv, FrameInv, CancellationOrTerminal,
        NoEntry, Holds, Entry, InterruptedItself, RefuseDuplicate
<1> QED BY <1>1, <1>2, <1>3 DEF Inv

LEMMA ForkStep ==
  ASSUME TypeOK, Inv, NEW o \in Owners, Fork(o)
  PROVE  Inv'
<1>1. GateInv'
  BY DEF TypeOK, Inv, GateInv, Fork, AcceptInv
<1>2. AcceptInv'
  BY OwnersAssumption DEF TypeOK, Inv, AcceptInv, Holds, Entry, Fork
<1>3. PhaseInv'
  BY OwnersAssumption DEF TypeOK, Inv, PhaseInv, Holds, Entry, Fork
<1>4. FrameInv'
  BY OwnersAssumption DEF TypeOK, Inv, FrameInv, Holds, Entry,
        InterruptedItself, Fork, AcceptInv
<1>5. IdHeldWhileWorking'
  BY OwnersAssumption DEF TypeOK, Inv, IdHeldWhileWorking, Working, Holds,
        Entry, Fork
<1>6. TableInv' /\ CancellationOrTerminal'
  BY DEF Inv, TableInv, CancellationOrTerminal, NoEntry, Fork
<1> QED BY <1>1, <1>2, <1>3, <1>4, <1>5, <1>6 DEF Inv

LEMMA PublishFiberStep ==
  ASSUME TypeOK, Inv, NEW o \in Owners, PublishFiber(o)
  PROVE  Inv'
<1>1. AcceptInv'
  BY OwnersAssumption DEF TypeOK, Inv, AcceptInv, Holds, Entry, PublishFiber
<1>2. IdHeldWhileWorking'
  BY OwnersAssumption DEF TypeOK, Inv, IdHeldWhileWorking, Working, Holds,
        Entry, PublishFiber
<1>3. /\ GateInv'
      /\ TableInv'
      /\ PhaseInv'
      /\ FrameInv'
      /\ CancellationOrTerminal'
  BY DEF Inv, GateInv, TableInv, PhaseInv, FrameInv, CancellationOrTerminal,
        NoEntry, Holds, Entry, InterruptedItself, PublishFiber
<1> QED BY <1>1, <1>2, <1>3 DEF Inv

LEMMA RejectRequestStep ==
  ASSUME TypeOK, Inv, NEW o \in Owners, RejectRequest(o)
  PROVE  Inv'
<1>1. GateInv'
  BY DEF TypeOK, Inv, GateInv, RejectRequest
<1>2. AcceptInv'
  BY OwnersAssumption DEF TypeOK, Inv, AcceptInv, Holds, Entry, RejectRequest
<1>3. PhaseInv'
  BY OwnersAssumption DEF TypeOK, Inv, PhaseInv, Holds, Entry, RejectRequest
<1>4. FrameInv'
  BY OwnersAssumption DEF TypeOK, Inv, FrameInv, Holds, Entry,
        InterruptedItself, RejectRequest
<1>5. IdHeldWhileWorking'
  BY OwnersAssumption DEF TypeOK, Inv, IdHeldWhileWorking, Working, Holds,
        Entry, RejectRequest
<1>6. TableInv' /\ CancellationOrTerminal'
  BY DEF Inv, TableInv, CancellationOrTerminal, NoEntry, RejectRequest
<1> QED BY <1>1, <1>2, <1>3, <1>4, <1>5, <1>6 DEF Inv

LEMMA StartHandlerStep ==
  ASSUME TypeOK, Inv, NEW o \in Owners, StartHandler(o)
  PROVE  Inv'
<1>1. GateInv'
  BY DEF TypeOK, Inv, GateInv, StartHandler, AcceptInv
<1>2. AcceptInv'
  BY OwnersAssumption DEF TypeOK, Inv, AcceptInv, Holds, Entry, StartHandler
<1>3. PhaseInv'
  BY OwnersAssumption DEF TypeOK, Inv, PhaseInv, Holds, Entry, StartHandler
<1>4. FrameInv'
  BY OwnersAssumption DEF TypeOK, Inv, FrameInv, Holds, Entry,
        InterruptedItself, StartHandler
<1>5. IdHeldWhileWorking'
  BY OwnersAssumption DEF TypeOK, Inv, IdHeldWhileWorking, Working, Holds,
        Entry, StartHandler
<1>6. TableInv' /\ CancellationOrTerminal'
  BY DEF Inv, TableInv, CancellationOrTerminal, NoEntry, StartHandler
<1> QED BY <1>1, <1>2, <1>3, <1>4, <1>5, <1>6 DEF Inv

LEMMA HandlerReturnsStep ==
  ASSUME TypeOK, Inv, NEW o \in Owners, HandlerReturns(o)
  PROVE  Inv'
<1>1. GateInv'
  BY DEF TypeOK, Inv, GateInv, HandlerReturns
<1>2. AcceptInv'
  BY OwnersAssumption DEF TypeOK, Inv, AcceptInv, Holds, Entry, HandlerReturns
<1>3. PhaseInv'
  BY OwnersAssumption DEF TypeOK, Inv, PhaseInv, Holds, Entry, HandlerReturns
<1>4. FrameInv'
  BY OwnersAssumption DEF TypeOK, Inv, FrameInv, Holds, Entry,
        InterruptedItself, HandlerReturns
<1>5. IdHeldWhileWorking'
  BY OwnersAssumption DEF TypeOK, Inv, IdHeldWhileWorking, Working, Holds,
        Entry, HandlerReturns
<1>6. TableInv' /\ CancellationOrTerminal'
  BY DEF Inv, TableInv, CancellationOrTerminal, NoEntry, HandlerReturns
<1> QED BY <1>1, <1>2, <1>3, <1>4, <1>5, <1>6 DEF Inv

LEMMA HandlerInterruptsItselfStep ==
  ASSUME TypeOK, Inv, NEW o \in Owners, HandlerInterruptsItself(o)
  PROVE  Inv'
<1>1. GateInv'
  BY DEF TypeOK, Inv, GateInv, HandlerInterruptsItself
<1>2. AcceptInv'
  BY OwnersAssumption DEF TypeOK, Inv, AcceptInv, Holds, Entry,
        HandlerInterruptsItself
<1>3. PhaseInv'
  BY OwnersAssumption DEF TypeOK, Inv, PhaseInv, Holds, Entry,
        HandlerInterruptsItself
<1>4. FrameInv'
  BY OwnersAssumption DEF TypeOK, Inv, FrameInv, Holds, Entry,
        InterruptedItself, HandlerInterruptsItself
<1>5. IdHeldWhileWorking'
  BY OwnersAssumption DEF TypeOK, Inv, IdHeldWhileWorking, Working, Holds,
        Entry, HandlerInterruptsItself
<1>6. TableInv' /\ CancellationOrTerminal'
  BY DEF Inv, TableInv, CancellationOrTerminal, NoEntry,
        HandlerInterruptsItself
<1> QED BY <1>1, <1>2, <1>3, <1>4, <1>5, <1>6 DEF Inv

LEMMA TakeInterruptStep ==
  ASSUME TypeOK, Inv, NEW o \in Owners, TakeInterrupt(o)
  PROVE  Inv'
<1>1. GateInv'
  BY DEF TypeOK, Inv, GateInv, TakeInterrupt
<1>2. AcceptInv'
  BY OwnersAssumption DEF TypeOK, Inv, AcceptInv, Holds, Entry, TakeInterrupt
<1>3. PhaseInv'
  BY OwnersAssumption DEF TypeOK, Inv, PhaseInv, Holds, Entry, TakeInterrupt
<1>4. FrameInv'
  BY OwnersAssumption DEF TypeOK, Inv, FrameInv, Holds, Entry,
        InterruptedItself, TakeInterrupt
<1>5. IdHeldWhileWorking'
  BY OwnersAssumption DEF TypeOK, Inv, IdHeldWhileWorking, Working, Holds,
        Entry, TakeInterrupt
<1>6. TableInv' /\ CancellationOrTerminal'
  BY DEF Inv, TableInv, CancellationOrTerminal, NoEntry, TakeInterrupt
<1> QED BY <1>1, <1>2, <1>3, <1>4, <1>5, <1>6 DEF Inv

LEMMA BeginTerminalStep ==
  ASSUME TypeOK, Inv, NEW o \in Owners, BeginTerminal(o)
  PROVE  Inv'
<1>1. GateInv'
  BY OwnersAssumption DEF TypeOK, Inv, GateInv, BeginTerminal, WithPhase,
        IsRunning, Holds, Entry
<1>2. AcceptInv'
  BY OwnersAssumption DEF TypeOK, Inv, AcceptInv, Holds, Entry, BeginTerminal,
        WithPhase, IsRunning
<1>3. TableInv'
  BY OwnersAssumption DEF TypeOK, Inv, TableInv, NoEntry, BeginTerminal,
        WithPhase, IsRunning, Holds, Entry, Entries
<1>4. PhaseInv'
  BY OwnersAssumption DEF TypeOK, Inv, PhaseInv, Holds, Entry, BeginTerminal,
        WithPhase, IsRunning
<1>5. FrameInv'
  BY OwnersAssumption DEF TypeOK, Inv, FrameInv, Holds, Entry,
        InterruptedItself, BeginTerminal, WithPhase, IsRunning, GateInv
<1>6. IdHeldWhileWorking'
  BY OwnersAssumption DEF TypeOK, Inv, IdHeldWhileWorking, Working, Holds,
        Entry, BeginTerminal, WithPhase, IsRunning
<1>7. CancellationOrTerminal'
  <2>1. ~(terminals[o] > 0) /\ canceller[o] = "idle"
    BY DEF Inv, PhaseInv, BeginTerminal, IsRunning, Holds, Entry
  <2>2. terminals[o] = 0
    BY <2>1 DEF TypeOK
  <2> QED BY <2>1, <2>2 DEF TypeOK, Inv, CancellationOrTerminal, BeginTerminal
<1> QED BY <1>1, <1>2, <1>3, <1>4, <1>5, <1>6, <1>7 DEF Inv

LEMMA SkipTerminalStep ==
  ASSUME TypeOK, Inv, NEW o \in Owners, SkipTerminal(o)
  PROVE  Inv'
<1>1. GateInv'
  BY OwnersAssumption DEF TypeOK, Inv, GateInv, SkipTerminal, IsRunning,
        Holds, Entry
<1>2. AcceptInv'
  BY OwnersAssumption DEF TypeOK, Inv, AcceptInv, Holds, Entry, SkipTerminal,
        IsRunning
<1>3. PhaseInv'
  BY OwnersAssumption DEF TypeOK, Inv, PhaseInv, Holds, Entry, SkipTerminal,
        IsRunning
<1>4. FrameInv'
  BY OwnersAssumption DEF TypeOK, Inv, FrameInv, Holds, Entry,
        InterruptedItself, SkipTerminal, IsRunning
<1>5. IdHeldWhileWorking'
  BY OwnersAssumption DEF TypeOK, Inv, IdHeldWhileWorking, Working, Holds,
        Entry, SkipTerminal, IsRunning
<1>6. TableInv' /\ CancellationOrTerminal'
  BY DEF Inv, TableInv, CancellationOrTerminal, NoEntry, SkipTerminal
<1> QED BY <1>1, <1>2, <1>3, <1>4, <1>5, <1>6 DEF Inv

LEMMA TerminalWrittenStep ==
  ASSUME TypeOK, Inv, NEW o \in Owners, TerminalWritten(o)
  PROVE  Inv'
<1>1. GateInv'
  BY OwnersAssumption DEF TypeOK, Inv, GateInv, TerminalWritten, ReleaseOwner,
        Holds, Entry, NoEntry
<1>2. AcceptInv'
  BY OwnersAssumption DEF TypeOK, Inv, AcceptInv, Holds, Entry,
        TerminalWritten, ReleaseOwner, NoEntry
<1>3. TableInv'
  BY OwnersAssumption DEF TypeOK, Inv, TableInv, NoEntry, TerminalWritten,
        ReleaseOwner, Holds, Entry, Entries
<1>4. PhaseInv'
  BY OwnersAssumption DEF TypeOK, Inv, PhaseInv, Holds, Entry,
        TerminalWritten, ReleaseOwner, NoEntry
<1>5. FrameInv'
  BY OwnersAssumption DEF TypeOK, Inv, FrameInv, Holds, Entry,
        InterruptedItself, TerminalWritten, ReleaseOwner, NoEntry
<1>6. IdHeldWhileWorking'
  BY OwnersAssumption DEF TypeOK, Inv, IdHeldWhileWorking, Working, Holds,
        Entry, TerminalWritten, ReleaseOwner, NoEntry, AcceptInv
<1>7. CancellationOrTerminal'
  BY DEF Inv, CancellationOrTerminal, TerminalWritten
<1> QED BY <1>1, <1>2, <1>3, <1>4, <1>5, <1>6, <1>7 DEF Inv

LEMMA TerminalWriteFailsStep ==
  ASSUME TypeOK, Inv, NEW o \in Owners, TerminalWriteFails(o)
  PROVE  Inv'
<1>1. GateInv'
  BY OwnersAssumption DEF TypeOK, Inv, GateInv, TerminalWriteFails,
        ReleaseOwner, Holds, Entry, NoEntry
<1>2. AcceptInv'
  BY OwnersAssumption DEF TypeOK, Inv, AcceptInv, Holds, Entry,
        TerminalWriteFails, ReleaseOwner, NoEntry
<1>3. TableInv'
  BY OwnersAssumption DEF TypeOK, Inv, TableInv, NoEntry, TerminalWriteFails,
        ReleaseOwner, Holds, Entry, Entries
<1>4. PhaseInv'
  BY OwnersAssumption DEF TypeOK, Inv, PhaseInv, Holds, Entry,
        TerminalWriteFails, ReleaseOwner, NoEntry
<1>5. FrameInv'
  BY OwnersAssumption DEF TypeOK, Inv, FrameInv, Holds, Entry,
        InterruptedItself, TerminalWriteFails, ReleaseOwner, NoEntry, GateInv
<1>6. IdHeldWhileWorking'
  BY OwnersAssumption DEF TypeOK, Inv, IdHeldWhileWorking, Working, Holds,
        Entry, TerminalWriteFails, ReleaseOwner, NoEntry, AcceptInv
<1>7. CancellationOrTerminal'
  BY DEF Inv, CancellationOrTerminal, TerminalWriteFails
<1> QED BY <1>1, <1>2, <1>3, <1>4, <1>5, <1>6, <1>7 DEF Inv

LEMMA ReportFailureStep ==
  ASSUME TypeOK, Inv, NEW o \in Owners, ReportFailure(o)
  PROVE  Inv'
<1>1. GateInv'
  BY DEF TypeOK, Inv, GateInv, ReportFailure
<1>2. AcceptInv'
  BY OwnersAssumption DEF TypeOK, Inv, AcceptInv, Holds, Entry, ReportFailure
<1>3. PhaseInv'
  BY OwnersAssumption DEF TypeOK, Inv, PhaseInv, Holds, Entry, ReportFailure
<1>4. FrameInv'
  BY OwnersAssumption DEF TypeOK, Inv, FrameInv, Holds, Entry,
        InterruptedItself, ReportFailure
<1>5. IdHeldWhileWorking'
  BY OwnersAssumption DEF TypeOK, Inv, IdHeldWhileWorking, Working, Holds,
        Entry, ReportFailure
<1>6. TableInv' /\ CancellationOrTerminal'
  BY DEF Inv, TableInv, CancellationOrTerminal, NoEntry, ReportFailure
<1> QED BY <1>1, <1>2, <1>3, <1>4, <1>5, <1>6 DEF Inv

LEMMA EndFiberStep ==
  ASSUME TypeOK, Inv, NEW o \in Owners, EndFiber(o)
  PROVE  Inv'
<1>1. GateInv'
  BY OwnersAssumption DEF TypeOK, Inv, GateInv, EndFiber, ReleaseOwner, Holds,
        Entry, NoEntry
<1>2. AcceptInv'
  BY OwnersAssumption DEF TypeOK, Inv, AcceptInv, Holds, Entry, EndFiber,
        ReleaseOwner, NoEntry
<1>3. TableInv'
  BY OwnersAssumption DEF TypeOK, Inv, TableInv, NoEntry, EndFiber,
        ReleaseOwner, Holds, Entry, Entries
<1>4. PhaseInv'
  BY OwnersAssumption DEF TypeOK, Inv, PhaseInv, Holds, Entry, EndFiber,
        ReleaseOwner, NoEntry
<1>5. FrameInv'
  BY OwnersAssumption DEF TypeOK, Inv, FrameInv, Holds, Entry,
        InterruptedItself, EndFiber, ReleaseOwner, NoEntry
<1>6. IdHeldWhileWorking'
  BY OwnersAssumption DEF TypeOK, Inv, IdHeldWhileWorking, Working, Holds,
        Entry, EndFiber, ReleaseOwner, NoEntry, AcceptInv
<1>7. CancellationOrTerminal'
  BY DEF Inv, CancellationOrTerminal, EndFiber
<1> QED BY <1>1, <1>2, <1>3, <1>4, <1>5, <1>6, <1>7 DEF Inv

LEMMA BeginNotificationStep ==
  ASSUME TypeOK, Inv, NEW o \in Owners, BeginNotification(o)
  PROVE  Inv'
<1>1. GateInv'
  BY OwnersAssumption DEF TypeOK, Inv, GateInv, BeginNotification, IsRunning,
        Holds, Entry
<1>2. AcceptInv'
  BY OwnersAssumption DEF TypeOK, Inv, AcceptInv, Holds, Entry,
        BeginNotification, IsRunning
<1>3. FrameInv'
  <2>1. Holds(o) /\ ~(terminals[o] > 0) /\ ~cancelled[o]
    BY DEF Inv, PhaseInv, BeginNotification, IsRunning, Holds, Entry
  <2>2. terminals[o] = 0
    BY <2>1 DEF TypeOK
  <2> QED
    BY <2>1, <2>2 DEF TypeOK, Inv, FrameInv, Holds, Entry, InterruptedItself,
       BeginNotification
<1>4. /\ TableInv'
      /\ PhaseInv'
      /\ IdHeldWhileWorking'
      /\ CancellationOrTerminal'
  BY DEF Inv, TableInv, PhaseInv, IdHeldWhileWorking, CancellationOrTerminal,
        NoEntry, Holds, Entry, Working, BeginNotification
<1> QED BY <1>1, <1>2, <1>3, <1>4 DEF Inv

LEMMA EndNotificationStep ==
  ASSUME TypeOK, Inv, NEW o \in Owners, EndNotification(o)
  PROVE  Inv'
<1>1. GateInv'
  BY DEF TypeOK, Inv, GateInv, EndNotification
<1>2. AcceptInv'
  BY OwnersAssumption DEF TypeOK, Inv, AcceptInv, Holds, Entry,
        EndNotification
<1>3. FrameInv'
  BY OwnersAssumption DEF TypeOK, Inv, FrameInv, Holds, Entry,
        InterruptedItself, EndNotification
<1>4. /\ TableInv'
      /\ PhaseInv'
      /\ IdHeldWhileWorking'
      /\ CancellationOrTerminal'
  BY DEF Inv, TableInv, PhaseInv, IdHeldWhileWorking, CancellationOrTerminal,
        NoEntry, Holds, Entry, Working, EndNotification
<1> QED BY <1>1, <1>2, <1>3, <1>4 DEF Inv

LEMMA ClaimCancellationStep ==
  ASSUME TypeOK, Inv, NEW o \in Owners, ClaimCancellation(o)
  PROVE  Inv'
<1>1. GateInv'
  <2>1. canceller[o] = "idle"
    BY DEF Inv, PhaseInv, ClaimCancellation, IsRunning, Holds, Entry
  <2> QED BY <2>1 DEF TypeOK, Inv, GateInv, ClaimCancellation
<1>2. AcceptInv'
  BY OwnersAssumption DEF TypeOK, Inv, AcceptInv, Holds, Entry,
        ClaimCancellation, IsRunning, WithPhase
<1>3. TableInv'
  BY OwnersAssumption DEF TypeOK, Inv, TableInv, NoEntry, ClaimCancellation,
        IsRunning, WithPhase, Holds, Entry, Entries
<1>4. PhaseInv'
  BY OwnersAssumption DEF TypeOK, Inv, PhaseInv, Holds, Entry,
        ClaimCancellation, IsRunning, WithPhase
<1>5. FrameInv'
  BY OwnersAssumption DEF TypeOK, Inv, FrameInv, Holds, Entry,
        InterruptedItself, ClaimCancellation, IsRunning, WithPhase
<1>6. IdHeldWhileWorking'
  BY OwnersAssumption DEF TypeOK, Inv, IdHeldWhileWorking, Working, Holds,
        Entry, ClaimCancellation, IsRunning, WithPhase
<1>7. CancellationOrTerminal'
  <2>1. ~(terminals[o] > 0)
    BY DEF Inv, PhaseInv, ClaimCancellation, IsRunning, Holds, Entry
  <2>2. terminals[o] = 0
    BY <2>1 DEF TypeOK
  <2> QED BY <2>1, <2>2 DEF TypeOK, Inv, CancellationOrTerminal, ClaimCancellation
<1> QED BY <1>1, <1>2, <1>3, <1>4, <1>5, <1>6, <1>7 DEF Inv

LEMMA EnterCancellingStep ==
  ASSUME TypeOK, Inv, NEW o \in Owners, EnterCancelling(o)
  PROVE  Inv'
<1>1. GateInv'
  BY OwnersAssumption DEF TypeOK, Inv, GateInv, EnterCancelling, Entry, Holds,
        WithPhase
<1>2. AcceptInv'
  BY OwnersAssumption DEF TypeOK, Inv, AcceptInv, Holds, Entry,
        EnterCancelling, WithPhase
<1>3. TableInv'
  BY OwnersAssumption DEF TypeOK, Inv, TableInv, NoEntry, EnterCancelling,
        Entry, Holds, WithPhase, Entries
<1>4. PhaseInv'
  BY OwnersAssumption DEF TypeOK, Inv, PhaseInv, Holds, Entry,
        EnterCancelling, WithPhase
<1>5. FrameInv'
  BY OwnersAssumption DEF TypeOK, Inv, FrameInv, Holds, Entry,
        InterruptedItself, EnterCancelling, WithPhase, GateInv
<1>6. IdHeldWhileWorking'
  BY OwnersAssumption DEF TypeOK, Inv, IdHeldWhileWorking, Working, Holds,
        Entry, EnterCancelling, WithPhase
<1>7. CancellationOrTerminal'
  BY OwnersAssumption DEF TypeOK, Inv, CancellationOrTerminal,
        EnterCancelling, Entry, Holds, WithPhase
<1> QED BY <1>1, <1>2, <1>3, <1>4, <1>5, <1>6, <1>7 DEF Inv

LEMMA InterruptCancelledStep ==
  ASSUME TypeOK, Inv, NEW o \in Owners, InterruptCancelled(o)
  PROVE  Inv'
<1>1. GateInv'
  BY DEF TypeOK, Inv, GateInv, InterruptCancelled, FiberReady
<1>2. AcceptInv'
  BY OwnersAssumption DEF TypeOK, Inv, AcceptInv, Holds, Entry,
        InterruptCancelled, FiberReady
<1>3. PhaseInv'
  BY OwnersAssumption DEF TypeOK, Inv, PhaseInv, Holds, Entry,
        InterruptCancelled, FiberReady
<1>4. FrameInv'
  BY OwnersAssumption DEF TypeOK, Inv, FrameInv, Holds, Entry,
        InterruptedItself, InterruptCancelled, FiberReady, GateInv, PhaseInv
<1>5. CancellationOrTerminal'
  BY DEF TypeOK, Inv, CancellationOrTerminal, InterruptCancelled, FiberReady
<1>6. TableInv' /\ IdHeldWhileWorking'
  BY DEF Inv, TableInv, IdHeldWhileWorking, NoEntry, Working, Holds, Entry,
        InterruptCancelled
<1> QED BY <1>1, <1>2, <1>3, <1>4, <1>5, <1>6 DEF Inv

LEMMA SupervisorStep ==
  ASSUME TypeOK, Inv, TakeFailure \/ StopSupervisor
  PROVE  Inv'
<1>1. /\ GateInv'
      /\ AcceptInv'
      /\ TableInv'
      /\ PhaseInv'
      /\ FrameInv'
      /\ IdHeldWhileWorking'
      /\ CancellationOrTerminal'
  BY DEF Inv, GateInv, AcceptInv, TableInv, PhaseInv, FrameInv,
        IdHeldWhileWorking, CancellationOrTerminal, Holds, Entry, NoEntry,
        InterruptedItself, Working, TakeFailure, StopSupervisor
<1> QED BY <1>1 DEF Inv

LEMMA CloseScopeStep ==
  ASSUME TypeOK, Inv, CloseScope
  PROVE  Inv'
<1>1. TableInv'
  BY OwnersAssumption DEF TypeOK, Inv, TableInv, NoEntry, CloseScope
<1>2. FrameInv'
  BY OwnersAssumption DEF TypeOK, Inv, FrameInv, Holds, Entry,
        InterruptedItself, CloseScope
<1>3. IdHeldWhileWorking'
  BY OwnersAssumption DEF TypeOK, Inv, IdHeldWhileWorking, Working, Holds,
        Entry, CloseScope
<1>4. GateInv' /\ AcceptInv' /\ PhaseInv' /\ CancellationOrTerminal'
  BY DEF Inv, GateInv, AcceptInv, PhaseInv, CancellationOrTerminal, Holds,
        Entry, CloseScope
<1> QED BY <1>1, <1>2, <1>3, <1>4 DEF Inv

LEMMA InterruptAtCloseStep ==
  ASSUME TypeOK, Inv, NEW o \in Owners, InterruptAtClose(o)
  PROVE  Inv'
<1>1. FrameInv'
  BY OwnersAssumption DEF TypeOK, Inv, FrameInv, Holds, Entry,
        InterruptedItself, InterruptAtClose
<1>2. /\ GateInv'
      /\ AcceptInv'
      /\ TableInv'
      /\ PhaseInv'
      /\ IdHeldWhileWorking'
      /\ CancellationOrTerminal'
  BY DEF Inv, GateInv, AcceptInv, TableInv, PhaseInv, IdHeldWhileWorking,
        CancellationOrTerminal, Holds, Entry, NoEntry, Working,
        InterruptAtClose
<1> QED BY <1>1, <1>2 DEF Inv

LEMMA ClearActiveStep ==
  ASSUME TypeOK, Inv, ClearActive
  PROVE  Inv'
<1>1. AcceptInv'
  BY OwnersAssumption DEF TypeOK, Inv, AcceptInv, Holds, Entry, ClearActive,
        NoEntry
<1>2. TableInv'
  BY OwnersAssumption DEF TypeOK, Inv, TableInv, NoEntry, ClearActive, Entries
<1>3. PhaseInv'
  BY OwnersAssumption DEF TypeOK, Inv, PhaseInv, Holds, Entry, ClearActive,
        NoEntry
<1>4. FrameInv'
  BY OwnersAssumption DEF TypeOK, Inv, FrameInv, Holds, Entry,
        InterruptedItself, ClearActive, NoEntry
<1>5. IdHeldWhileWorking'
  BY OwnersAssumption DEF TypeOK, Inv, IdHeldWhileWorking, Working, Holds,
        Entry, ClearActive, NoEntry
<1>6. GateInv' /\ CancellationOrTerminal'
  BY DEF Inv, GateInv, CancellationOrTerminal, ClearActive
<1> QED BY <1>1, <1>2, <1>3, <1>4, <1>5, <1>6 DEF Inv

LEMMA FinishCloseStep ==
  ASSUME TypeOK, Inv, FinishClose
  PROVE  Inv'
<1>1. TableInv'
  BY OwnersAssumption DEF TypeOK, Inv, TableInv, NoEntry, FinishClose
<1>2. FrameInv'
  BY OwnersAssumption DEF TypeOK, Inv, FrameInv, Holds, Entry,
        InterruptedItself, FinishClose
<1>3. IdHeldWhileWorking'
  BY OwnersAssumption DEF TypeOK, Inv, IdHeldWhileWorking, Working, Holds,
        Entry, FinishClose
<1>4. GateInv' /\ AcceptInv' /\ PhaseInv' /\ CancellationOrTerminal'
  BY DEF Inv, GateInv, AcceptInv, PhaseInv, CancellationOrTerminal, Holds,
        Entry, FinishClose
<1> QED BY <1>1, <1>2, <1>3, <1>4 DEF Inv

LEMMA InvStep == TypeOK /\ Inv /\ [Next]_vars => Inv'
<1> SUFFICES ASSUME TypeOK, Inv, [Next]_vars PROVE Inv'
  OBVIOUS
<1>1. CASE Next
  BY <1>1, RegisterStep, RefuseDuplicateStep, ForkStep, PublishFiberStep,
        RejectRequestStep, StartHandlerStep, HandlerReturnsStep,
        HandlerInterruptsItselfStep, TakeInterruptStep, BeginTerminalStep,
        SkipTerminalStep, TerminalWrittenStep, TerminalWriteFailsStep,
        ReportFailureStep, EndFiberStep, BeginNotificationStep,
        EndNotificationStep, ClaimCancellationStep, EnterCancellingStep,
        InterruptCancelledStep, SupervisorStep, CloseScopeStep,
        InterruptAtCloseStep, ClearActiveStep, FinishCloseStep
  DEF Next, AcceptStep, FiberStep, NotifierStep, CancelStep, ScopeStep
<1>2. CASE UNCHANGED vars
  BY <1>2 DEF vars, Inv, GateInv, AcceptInv, TableInv, PhaseInv, FrameInv,
     IdHeldWhileWorking, CancellationOrTerminal, Working, Holds, Entry, NoEntry,
     InterruptedItself
<1> QED BY <1>1, <1>2

THEOREM Invariance == Spec => [](TypeOK /\ Inv)
<1>1. Init => Inv BY InvInit
<1>2. TypeOK /\ Inv /\ [Next]_vars => Inv' BY InvStep
<1> QED BY <1>1, <1>2, TypeCorrect, PTL DEF Spec

-----------------------------------------------------------------------------
(* Safety properties.                                                      *)

\* An id stays registered to the incarnation whose handler runs or whose terminal
\* is being written (registration and releaseOwner in acceptRequest, complete).
THEOREM IdHeld == Spec => []IdHeldWhileWorking
<1>1. Inv => IdHeldWhileWorking BY DEF Inv
<1> QED BY <1>1, Invariance, PTL

\* A request is answered at most once and never after a cancellation claimed it
\* (beginTerminal against cancelRequest).
THEOREM AnsweredOrCancelled == Spec => []CancellationOrTerminal
<1>1. Inv => CancellationOrTerminal BY DEF Inv
<1> QED BY <1>1, Invariance, PTL

\* The only steps that speak for a request, and of whom.
LEMMA SpeakingSteps ==
  ASSUME TypeOK, Next, NEW p \in Owners
  PROVE  /\ notes'[p] # notes[p] => EndNotification(p)
         /\ terminals'[p] # terminals[p] => BeginTerminal(p)
<1>1. ASSUME NEW o \in Owners, AcceptStep(o) PROVE UNCHANGED <<notes, terminals>>
  BY <1>1 DEF AcceptStep, Register, RefuseDuplicate, Fork, PublishFiber
<1>2. ASSUME NEW o \in Owners, FiberStep(o)
      PROVE  BeginTerminal(o) \/ UNCHANGED <<notes, terminals>>
  BY <1>2 DEF FiberStep, RejectRequest, StartHandler, HandlerReturns,
     HandlerInterruptsItself, TakeInterrupt, SkipTerminal, TerminalWritten,
     TerminalWriteFails, ReportFailure, EndFiber
<1>3. ASSUME NEW o \in Owners, NotifierStep(o)
      PROVE  EndNotification(o) \/ UNCHANGED <<notes, terminals>>
  BY <1>3 DEF NotifierStep, BeginNotification
<1>4. ASSUME NEW o \in Owners, CancelStep(o) \/ InterruptAtClose(o)
      PROVE  UNCHANGED <<notes, terminals>>
  BY <1>4 DEF CancelStep, ClaimCancellation, EnterCancelling, InterruptCancelled,
     InterruptAtClose
<1>5. ASSUME TakeFailure \/ StopSupervisor \/ ScopeStep PROVE UNCHANGED <<notes, terminals>>
  BY <1>5 DEF TakeFailure, StopSupervisor, ScopeStep, CloseScope, ClearActive, FinishClose
<1>6. ASSUME NEW o \in Owners, BeginTerminal(o)
      PROVE  notes' = notes /\ (o = p \/ terminals'[p] = terminals[p])
  BY <1>6 DEF BeginTerminal, TypeOK
<1>7. ASSUME NEW o \in Owners, EndNotification(o)
      PROVE  terminals' = terminals /\ (o = p \/ notes'[p] = notes[p])
  BY <1>7 DEF EndNotification, TypeOK
<1> QED BY <1>1, <1>2, <1>3, <1>4, <1>5, <1>6, <1>7 DEF Next

\* The terminal is the last frame of a request, and a raised cancelled signal
\* silences it (sendOwnedNotification and beginTerminal against cancelRequest).
THEOREM Silence == Spec => NothingAfterTheEnd
<1>1. ASSUME TypeOK, Inv, Next, NEW p \in Owners, terminals[p] > 0 \/ cancelled[p]
      PROVE  notes'[p] = notes[p]
  <2>1. terminals[p] # 0 \/ cancelled[p] BY <1>1 DEF TypeOK
  <2>2. ~EndNotification(p) BY <1>1, <2>1 DEF Inv, FrameInv, EndNotification
  <2> QED BY <1>1, <2>2, SpeakingSteps
<1>2. ASSUME TypeOK, Inv, Next, NEW p \in Owners, cancelled[p]
      PROVE  terminals'[p] = terminals[p]
  <2>1. ~BeginTerminal(p)
    BY <1>2 DEF Inv, PhaseInv, BeginTerminal, IsRunning, Holds, Entry
  <2> QED BY <1>2, <2>1, SpeakingSteps
<1>3. TypeOK /\ Inv /\ [Next]_vars =>
        [\A o \in Owners :
           /\ terminals[o] > 0 \/ cancelled[o] => notes'[o] = notes[o]
           /\ cancelled[o] => terminals'[o] = terminals[o]]_vars
  BY <1>1, <1>2
<1> QED BY <1>3, Invariance, PTL DEF Spec, NothingAfterTheEnd

\* A notification goes out under an id its request still holds, but for the two
\* exceptions the property names (sendOwnedNotification).
THEOREM NotifiesUnderItsId == Spec => NotificationNeedsId
<1>1. ASSUME TypeOK, Inv, Next, NEW p \in Owners, notes'[p] # notes[p]
      PROVE  Holds(p) \/ InterruptedItself(p) \/ scope # "open"
  <2>1. EndNotification(p) BY <1>1, SpeakingSteps
  <2> QED BY <1>1, <2>1 DEF Inv, FrameInv, EndNotification
<1>2. TypeOK /\ Inv /\ [Next]_vars =>
        [\A o \in Owners : notes'[o] # notes[o] =>
           Holds(o) \/ InterruptedItself(o) \/ scope # "open"]_vars
  BY <1>1
<1> QED BY <1>2, Invariance, PTL DEF Spec, NotificationNeedsId

-----------------------------------------------------------------------------
(* The dispatcher implements RequestLifecycle.                             *)

\* A step that leaves the table and the right to speak alone is a stutter there.
LEMMA Stutter ==
  ASSUME UNCHANGED <<idOf, active, terminals, cancelled, notes>>,
         \A p \in Owners : accepting'[p] \in {"unused", "refused"} <=>
                             accepting[p] \in {"unused", "refused"}
  PROVE  UNCHANGED Lifecycle!vars
<1>1. \A p \in Owners : StageOf(p)' = StageOf(p)
  BY DEF StageOf, IsRunning, Holds, Entry
<1>2. Stage' = Stage BY <1>1 DEF Stage
<1>3. Holder' = Holder BY DEF Holder
<1> QED BY <1>2, <1>3 DEF Lifecycle!vars

LEMMA RegisterAccepts ==
  ASSUME TypeOK, Inv, NEW o \in Owners, Register(o)
  PROVE  Lifecycle!Accept(o)
<1>1. StageOf(o) = "unused" /\ StageOf(o)' = "open"
  <2>1. ~(terminals[o] > 0) /\ ~cancelled[o]
    BY DEF TypeOK, Inv, AcceptInv, PhaseInv, Register
  <2> QED
    BY <2>1 DEF TypeOK, Register, StageOf, IsRunning, Holds, Entry, WithPhase
<1>2. ASSUME NEW p \in Owners, p # o PROVE StageOf(p)' = StageOf(p)
  BY <1>2, OwnersAssumption
  DEF TypeOK, Register, StageOf, IsRunning, Holds, Entry, WithPhase, NoEntry
<1>3. Stage[o] = "unused" /\ Stage' = [Stage EXCEPT ![o] = "open"]
  BY <1>1, <1>2 DEF Stage
<1>4. Holder[idOf[o]] = NoOwner
  BY DEF TypeOK, Register, Holder, Entry, NoEntry
<1>5. Holder' = [Holder EXCEPT ![idOf[o]] = o]
  BY DEF TypeOK, Register, Holder, WithPhase
<1> QED BY <1>3, <1>4, <1>5 DEF Lifecycle!Accept, Register

LEMMA TerminalAnswers ==
  ASSUME TypeOK, Inv, NEW o \in Owners, BeginTerminal(o)
  PROVE  Lifecycle!Answer(o)
<1>1. ~(terminals[o] > 0) /\ ~cancelled[o] /\ Holds(o)
  BY DEF Inv, PhaseInv, BeginTerminal, IsRunning, Holds, Entry
<1>2. accepting[o] \notin {"unused", "refused"}
  BY DEF Inv, AcceptInv, BeginTerminal
<1>3. StageOf(o) = "open"
  BY <1>1, <1>2 DEF StageOf, BeginTerminal
<1>4. terminals'[o] > 0
  BY DEF TypeOK, BeginTerminal
<1>5. StageOf(o)' = "answered"
  BY <1>2, <1>4 DEF StageOf, BeginTerminal
<1>6. ASSUME NEW p \in Owners, p # o PROVE StageOf(p)' = StageOf(p)
  BY <1>1, <1>6 DEF TypeOK, BeginTerminal, StageOf, IsRunning, Holds, Entry, WithPhase
<1>7. Stage[o] = "open" /\ Stage' = [Stage EXCEPT ![o] = "answered"]
  BY <1>3, <1>5, <1>6 DEF Stage
<1>8. Holder[idOf[o]] = o /\ Holder' = Holder
  BY <1>1 DEF TypeOK, BeginTerminal, Holder, Holds, Entry, WithPhase
<1> QED BY <1>7, <1>8 DEF Lifecycle!Answer, BeginTerminal

\* Giving an id back, for whichever action does it.
LEMMA ReleaseReleases ==
  ASSUME TypeOK, Inv, NEW o \in Owners, ReleaseOwner(o), fiber[o] # "none",
         UNCHANGED <<idOf, accepting, terminals, cancelled, notes>>
  PROVE  Lifecycle!Release(o) \/ UNCHANGED Lifecycle!vars
<1>1. CASE ~Holds(o)
  <2>1. active' = active BY <1>1 DEF ReleaseOwner
  <2> QED BY <2>1, Stutter
<1>2. CASE Holds(o)
  <2>1. active' = [active EXCEPT ![idOf[o]] = NoEntry]
    BY <1>2 DEF ReleaseOwner
  <2>2. accepting[o] \notin {"unused", "refused"} BY DEF Inv, AcceptInv
  <2>3. ~IsRunning(o)'
    BY <2>1, OwnersAssumption DEF TypeOK, IsRunning, Holds, Entry, NoEntry
  <2>4. StageOf(o)' = IF StageOf(o) = "open" THEN "winding" ELSE StageOf(o)
    BY <2>2, <2>3 DEF StageOf
  <2>5. ASSUME NEW p \in Owners, p # o PROVE StageOf(p)' = StageOf(p)
    BY <1>2, <2>1, <2>5, OwnersAssumption
    DEF TypeOK, StageOf, IsRunning, Holds, Entry, NoEntry
  <2>6. Stage' = [Stage EXCEPT ![o] = IF @ = "open" THEN "winding" ELSE @]
    BY <2>4, <2>5 DEF Stage
  <2>7. Holder[idOf[o]] = o /\ Holder' = [Holder EXCEPT ![idOf[o]] = NoOwner]
    BY <1>2, <2>1 DEF TypeOK, Holder, Holds, Entry, NoEntry
  <2> QED BY <2>6, <2>7 DEF Lifecycle!Release
<1> QED BY <1>1, <1>2

LEMMA NotificationNotifies ==
  ASSUME TypeOK, Inv, NEW o \in Owners, EndNotification(o)
  PROVE  Lifecycle!Notify(o)
<1>1. terminals[o] = 0 /\ ~cancelled[o] BY DEF Inv, FrameInv, EndNotification
<1>2. ~(terminals[o] > 0) BY <1>1
<1>3. accepting[o] \notin {"unused", "refused"}
  BY DEF Inv, AcceptInv, EndNotification
<1>4. StageOf(o) \in {"open", "winding"} BY <1>1, <1>2, <1>3 DEF StageOf
<1>5. \A p \in Owners : StageOf(p)' = StageOf(p)
  BY DEF EndNotification, StageOf, IsRunning, Holds, Entry
<1>6. Stage[o] \in {"open", "winding"} /\ Stage' = Stage BY <1>4, <1>5 DEF Stage
<1>7. Holder' = Holder BY DEF EndNotification, Holder
<1> QED BY <1>6, <1>7 DEF Lifecycle!Notify, EndNotification

LEMMA ClaimClaims ==
  ASSUME TypeOK, Inv, NEW o \in Owners, ClaimCancellation(o)
  PROVE  Lifecycle!Claim(o)
<1>1. ~(terminals[o] > 0) /\ ~cancelled[o] /\ Holds(o)
  BY DEF Inv, PhaseInv, ClaimCancellation, IsRunning, Holds, Entry
<1>2. accepting[o] \notin {"unused", "refused"} BY <1>1 DEF Inv, AcceptInv
<1>3. StageOf(o) = "open" BY <1>1, <1>2 DEF StageOf, ClaimCancellation
<1>4. ~IsRunning(o)'
  BY DEF TypeOK, ClaimCancellation, IsRunning, Holds, Entry, WithPhase
<1>5. StageOf(o)' = "winding" BY <1>1, <1>2, <1>4 DEF StageOf, ClaimCancellation
<1>6. ASSUME NEW p \in Owners, p # o PROVE StageOf(p)' = StageOf(p)
  BY <1>1, <1>6
  DEF TypeOK, ClaimCancellation, StageOf, IsRunning, Holds, Entry, WithPhase
<1>7. Stage[o] = "open" /\ Stage' = [Stage EXCEPT ![o] = "winding"]
  BY <1>3, <1>5, <1>6 DEF Stage
<1>8. Holder' = Holder
  BY <1>1 DEF TypeOK, ClaimCancellation, Holder, Holds, Entry, WithPhase
<1> QED BY <1>7, <1>8 DEF Lifecycle!Claim, ClaimCancellation

LEMMA CancellingWithdraws ==
  ASSUME TypeOK, Inv, NEW o \in Owners, EnterCancelling(o)
  PROVE  Lifecycle!Withdraw(o)
<1>1. terminals[o] = 0 /\ ~cancelled[o]
  BY DEF Inv, PhaseInv, CancellationOrTerminal, EnterCancelling
<1>2. ~(terminals[o] > 0) BY <1>1
<1>3. accepting[o] \notin {"unused", "refused"} BY DEF Inv, AcceptInv, EnterCancelling
<1>4. ~IsRunning(o) BY DEF Inv, PhaseInv, EnterCancelling, IsRunning
<1>5. StageOf(o) = "winding" BY <1>1, <1>2, <1>3, <1>4 DEF StageOf
<1>6. StageOf(o)' = "withdrawn"
  BY <1>2, <1>3 DEF TypeOK, StageOf, EnterCancelling
<1>7. ASSUME NEW p \in Owners, p # o PROVE StageOf(p)' = StageOf(p)
  BY <1>7 DEF TypeOK, EnterCancelling, StageOf, IsRunning, Holds, Entry, WithPhase
<1>8. Stage[o] = "winding" /\ Stage' = [Stage EXCEPT ![o] = "withdrawn"]
  BY <1>5, <1>6, <1>7 DEF Stage
<1>9. Holder' = Holder
  BY DEF TypeOK, EnterCancelling, Holder, Holds, Entry, WithPhase
<1> QED BY <1>8, <1>9 DEF Lifecycle!Withdraw, EnterCancelling

LEMMA ClearShutsDown ==
  ASSUME TypeOK, Inv, ClearActive
  PROVE  Lifecycle!Shutdown
<1>1. ASSUME NEW p \in Owners
      PROVE  StageOf(p)' = IF StageOf(p) = "open" THEN "winding" ELSE StageOf(p)
  <2>1. ~IsRunning(p)'
    BY OwnersAssumption DEF TypeOK, ClearActive, IsRunning, Holds, Entry, NoEntry
  <2> QED BY <2>1 DEF ClearActive, StageOf
<1>2. Stage' = [p \in Owners |-> IF Stage[p] = "open" THEN "winding" ELSE Stage[p]]
  BY <1>1 DEF Stage
<1>3. Holder' = [i \in Ids |-> NoOwner] BY DEF ClearActive, Holder, NoEntry
<1> QED BY <1>2, <1>3 DEF Lifecycle!Shutdown, ClearActive

LEMMA LifecycleStep ==
  ASSUME TypeOK, Inv, [Next]_vars
  PROVE  [Lifecycle!Next]_(Lifecycle!vars)
<1>1. ASSUME NEW o \in Owners, AcceptStep(o)
      PROVE  Lifecycle!Accept(o) \/ UNCHANGED Lifecycle!vars
  <2>1. CASE Register(o) BY <2>1, RegisterAccepts
  <2>2. CASE RefuseDuplicate(o) BY <2>2, Stutter DEF TypeOK, RefuseDuplicate
  <2>3. CASE Fork(o) BY <2>3, Stutter DEF TypeOK, Fork
  <2>4. CASE PublishFiber(o) BY <2>4, Stutter DEF TypeOK, PublishFiber
  <2> QED BY <1>1, <2>1, <2>2, <2>3, <2>4 DEF AcceptStep
<1>2. ASSUME NEW o \in Owners, FiberStep(o)
      PROVE  \/ Lifecycle!Answer(o) \/ Lifecycle!Release(o)
             \/ UNCHANGED Lifecycle!vars
  <2>1. CASE BeginTerminal(o) BY <2>1, TerminalAnswers
  <2>2. CASE TerminalWritten(o) \/ TerminalWriteFails(o) \/ EndFiber(o)
    BY <2>2, ReleaseReleases DEF TerminalWritten, TerminalWriteFails, EndFiber
  <2>3. CASE \/ RejectRequest(o) \/ StartHandler(o) \/ HandlerReturns(o)
             \/ HandlerInterruptsItself(o) \/ TakeInterrupt(o)
             \/ SkipTerminal(o) \/ ReportFailure(o)
    BY <2>3, Stutter DEF RejectRequest, StartHandler, HandlerReturns,
       HandlerInterruptsItself, TakeInterrupt, SkipTerminal, ReportFailure
  <2> QED BY <1>2, <2>1, <2>2, <2>3 DEF FiberStep
<1>3. ASSUME NEW o \in Owners, NotifierStep(o)
      PROVE  Lifecycle!Notify(o) \/ UNCHANGED Lifecycle!vars
  <2>1. CASE EndNotification(o) BY <2>1, NotificationNotifies
  <2>2. CASE BeginNotification(o) BY <2>2, Stutter DEF BeginNotification
  <2> QED BY <1>3, <2>1, <2>2 DEF NotifierStep
<1>4. ASSUME NEW o \in Owners, CancelStep(o)
      PROVE  Lifecycle!Claim(o) \/ Lifecycle!Withdraw(o) \/ UNCHANGED Lifecycle!vars
  <2>1. CASE ClaimCancellation(o) BY <2>1, ClaimClaims
  <2>2. CASE EnterCancelling(o) BY <2>2, CancellingWithdraws
  <2>3. CASE InterruptCancelled(o) BY <2>3, Stutter DEF InterruptCancelled
  <2> QED BY <1>4, <2>1, <2>2, <2>3 DEF CancelStep
<1>5. ASSUME NEW o \in Owners, InterruptAtClose(o) PROVE UNCHANGED Lifecycle!vars
  BY <1>5, Stutter DEF InterruptAtClose
<1>6. ASSUME TakeFailure \/ StopSupervisor \/ ScopeStep
      PROVE  Lifecycle!Shutdown \/ UNCHANGED Lifecycle!vars
  <2>1. CASE ClearActive BY <2>1, ClearShutsDown
  <2>2. CASE TakeFailure \/ StopSupervisor \/ CloseScope \/ FinishClose
    BY <2>2, Stutter DEF TakeFailure, StopSupervisor, CloseScope, FinishClose
  <2> QED BY <1>6, <2>1, <2>2 DEF ScopeStep
<1>7. CASE UNCHANGED vars BY <1>7, Stutter DEF vars
<1>8. CASE Next
  BY <1>8, <1>1, <1>2, <1>3, <1>4, <1>5, <1>6 DEF Next, Lifecycle!Next
<1> QED BY <1>7, <1>8

LEMMA LifecycleInit == Init => Lifecycle!Init
<1> SUFFICES ASSUME Init PROVE Lifecycle!Init
  OBVIOUS
<1>1. \A p \in Owners : StageOf(p) = "unused" BY DEF Init, StageOf
<1>2. Stage = [p \in Owners |-> "unused"] BY <1>1 DEF Stage
<1>3. Holder = [i \in Ids |-> NoOwner] BY DEF Init, Holder, NoEntry
<1> QED BY <1>2, <1>3 DEF Init, Lifecycle!Init

\* makeServerDispatcher implements the lifecycle it promises a peer, for every
\* number of requests, ids and queue capacity.
THEOREM Refinement == Spec => ImplementsLifecycle
<1>1. Init => Lifecycle!Init BY LifecycleInit
<1>2. TypeOK /\ Inv /\ [Next]_vars => [Lifecycle!Next]_(Lifecycle!vars)
  BY LifecycleStep
<1> QED BY <1>1, <1>2, Invariance, PTL DEF Spec, ImplementsLifecycle, Lifecycle!Spec

-----------------------------------------------------------------------------
(* Nobody is stuck.  ENABLED and fairness are out of the prover's reach;   *)
(* the steps Fairness names are described by their guards.                 *)

\* Some step of o's accept, fiber, notification or canceller, or the interruption of
\* its fiber by the closing scope, can be taken.
GoesOn(o) ==
  \/ accepting[o] \in {"registered", "forked"}
  \/ fiber[o] \in {"started", "writing", "releasing"}
  \/ fiber[o] = "completing" /\ gate[o] = "free"
  \/ fiber[o] = "reporting" /\ QueueHasRoom
  \/ interrupted[o] /\ fiber[o] \in {"started", "handling", "completing", "writing",
                                     "reporting"}
  \/ notifier[o] = "sending"
  \/ canceller[o] = "pending" /\ MayEnterCancelling(o)
  \/ canceller[o] = "holding" /\ FiberReady(o)
  \/ /\ scope \in {"closing", "draining"} /\ accepting[o] \in {"forked", "accepted"}
     /\ ~interrupted[o]

\* After the close every fiber has been joined.
ClosedInv ==
  scope = "closed" =>
    \A o \in Owners : accepting[o] \in {"unused", "refused"} \/ fiber[o] = "done"

LEMMA ClosedInvStep ==
  ASSUME TypeOK, Inv, ClosedInv, [Next]_vars
  PROVE  ClosedInv'
<1>1. CASE UNCHANGED vars
  BY <1>1 DEF vars, ClosedInv
<1>2. CASE TakeFailure \/ StopSupervisor \/ ScopeStep
  BY <1>2 DEF ClosedInv, TakeFailure, StopSupervisor, ScopeStep, CloseScope, ClearActive,
              FinishClose
<1>3. ASSUME NEW o \in Owners, \/ AcceptStep(o) \/ FiberStep(o) \/ NotifierStep(o)
                                \/ CancelStep(o) \/ InterruptAtClose(o)
      PROVE  ClosedInv'
  <2>1. CASE scope # "closed"
    <3>1. UNCHANGED scope
      BY <1>3 DEF AcceptStep, Register, RefuseDuplicate, Fork, PublishFiber, FiberStep,
         RejectRequest, StartHandler, HandlerReturns, HandlerInterruptsItself,
         TakeInterrupt, BeginTerminal, SkipTerminal, TerminalWritten, TerminalWriteFails,
         ReportFailure, EndFiber, NotifierStep, BeginNotification, EndNotification,
         CancelStep, ClaimCancellation, EnterCancelling, InterruptCancelled,
         InterruptAtClose
    <3> QED
      BY <2>1, <3>1 DEF ClosedInv
  <2>2. CASE scope = "closed"
    <3>1. \A p \in Owners :
            \/ accepting[p] \in {"unused", "refused"} /\ fiber[p] = "none"
            \/ accepting[p] = "accepted" /\ fiber[p] = "done"
            \/ accepting[p] = "forked" /\ fiber[p] = "done"
      BY <2>2 DEF ClosedInv, TypeOK, Inv, AcceptInv
    <3>2. CASE AcceptStep(o)
      BY <2>2, <3>1, <3>2 DEF TypeOK, ClosedInv, AcceptStep, Register, RefuseDuplicate, Fork,
                              PublishFiber
    <3>3. CASE FiberStep(o)
      BY <3>1, <3>3 DEF FiberStep, RejectRequest, StartHandler, HandlerReturns,
         HandlerInterruptsItself, TakeInterrupt, BeginTerminal, SkipTerminal,
         TerminalWritten, TerminalWriteFails, ReportFailure, EndFiber
    <3>4. CASE NotifierStep(o) \/ CancelStep(o) \/ InterruptAtClose(o)
      <4>1. UNCHANGED <<accepting, fiber>>
        BY <3>4 DEF NotifierStep, BeginNotification, EndNotification, CancelStep,
           ClaimCancellation, EnterCancelling, InterruptCancelled, InterruptAtClose
      <4> QED
        BY <3>1, <4>1 DEF ClosedInv
    <3> QED
      BY <1>3, <3>2, <3>3, <3>4
  <2> QED
    BY <2>1, <2>2
<1> QED
  BY <1>1, <1>2, <1>3 DEF Next

\* A fiber that waits for room in the queue of failures of an open dispatcher.
QueueIsFull(o) ==
  fiber[o] = "reporting" /\ ~QueueHasRoom /\ scope = "open"

LEMMA ReportingWaits ==
  ASSUME TypeOK, Inv, ClosedInv, NEW o \in Owners, fiber[o] = "reporting"
  PROVE  GoesOn(o) \/ QueueIsFull(o)
<1>1. accepting[o] \in {"forked", "accepted"}
  BY DEF TypeOK, Inv, AcceptInv
<1>2. scope # "closed"
  BY <1>1 DEF ClosedInv
<1>3. scope \in {"closing", "draining"} => GoesOn(o)
  BY <1>1 DEF GoesOn
<1> QED
  BY <1>2, <1>3 DEF TypeOK, GoesOn, QueueIsFull

\* Whoever holds o's permit can give it back, or waits for room in the queue.
LEMMA PermitComesBack ==
  ASSUME TypeOK, Inv, ClosedInv, NEW o \in Owners, gate[o] # "free"
  PROVE  GoesOn(o) \/ QueueIsFull(o)
<1>1. CASE gate[o] = "fiber"
  <2>1. fiber[o] \in {"writing", "reporting"}
    BY <1>1 DEF Inv, GateInv
  <2> QED
    BY <2>1, ReportingWaits DEF GoesOn
<1>2. CASE gate[o] = "notifier"
  BY <1>2 DEF Inv, GateInv, GoesOn
<1>3. CASE gate[o] = "canceller"
  <2>1. canceller[o] = "holding"
    BY <1>3 DEF Inv, GateInv
  <2>2. accepting[o] \in {"registered", "forked", "accepted"}
    BY <2>1 DEF TypeOK, Inv, AcceptInv
  <2> QED
    BY <2>1, <2>2 DEF GoesOn, FiberReady
<1> QED
  BY <1>1, <1>2, <1>3 DEF TypeOK

\* o is waited for: by a canceller, by its own fiber past the handler, or by the close.
Awaited(o) ==
  \/ canceller[o] \in {"pending", "holding"}
  \/ fiber[o] \notin {"none", "handling", "done"}
  \/ scope = "draining" /\ accepting[o] \notin {"unused", "refused"} /\ fiber[o] # "done"

\* o waits for room in the queue of failures, and for nothing that anybody waits for: it
\* holds no id, no canceller wants its permit, the scope is open, and if the transport
\* still has its reader, there is a failure for it to take.
OnlyReports(o) ==
  /\ QueueIsFull(o)
  /\ ~Holds(o) /\ canceller[o] = "idle"
  /\ supervisor = "taking" => failures # <<>>

LEMMA FullQueueOnlyReports ==
  ASSUME TypeOK, Inv, NEW o \in Owners, QueueIsFull(o)
  PROVE  OnlyReports(o)
<1>1. ~Holds(o)
  BY DEF QueueIsFull, Inv, IdHeldWhileWorking
<1>2. canceller[o] = "idle"
  BY DEF QueueIsFull, Inv, PhaseInv, CancellationOrTerminal, TypeOK
<1>3. failures # <<>>
  BY CapacityAssumption DEF QueueIsFull, TypeOK
<1> QED
  BY <1>1, <1>2, <1>3 DEF OnlyReports

\* The safety half of IdEventuallyFreed, FailuresAreSupervised and CloseFinishes: no
\* canceller, no fiber that has left its handler and no close waits for a permit nobody
\* gives back.  Only a fiber that reports a failed terminal write may wait for ever, for
\* room in a queue whose reader is gone, and then it alone waits.
THEOREM NobodyStuck == Spec => [](\A o \in Owners : Awaited(o) => GoesOn(o) \/ OnlyReports(o))
<1>1. ASSUME TypeOK, Inv, ClosedInv, NEW o \in Owners, Awaited(o)
      PROVE  GoesOn(o) \/ OnlyReports(o)
  <2>1. CASE gate[o] # "free"
    BY <1>1, <2>1, PermitComesBack, FullQueueOnlyReports
  <2>2. CASE gate[o] = "free"
    <3>1. CASE canceller[o] \in {"pending", "holding"}
      BY <1>1, <2>2, <3>1 DEF Inv, GateInv, GoesOn, MayEnterCancelling
    <3>2. CASE fiber[o] \notin {"none", "handling", "done"}
      BY <1>1, <2>2, <3>2 DEF TypeOK, Inv, GateInv, GoesOn
    <3>3. CASE scope = "draining" /\ accepting[o] \notin {"unused", "refused"}
                 /\ fiber[o] # "done"
      <4>1. accepting[o] \in {"registered", "forked", "accepted"}
        BY <1>1, <3>3 DEF TypeOK
      <4>2. CASE accepting[o] = "accepted"
        <5>1. fiber[o] \in {"started", "handling", "completing", "writing", "reporting",
                            "releasing"}
          BY <1>1, <3>3, <4>2 DEF TypeOK, Inv, AcceptInv
        <5>2. CASE interrupted[o]
          BY <5>1, <5>2 DEF GoesOn
        <5>3. CASE ~interrupted[o]
          BY <3>3, <4>2, <5>3 DEF GoesOn
        <5> QED
          BY <5>2, <5>3
      <4> QED
        BY <4>1, <4>2 DEF GoesOn
    <3> QED
      BY <1>1, <3>1, <3>2, <3>3 DEF Awaited
  <2> QED
    BY <2>1, <2>2
<1>2. TypeOK /\ Inv /\ ClosedInv =>
        (\A o \in Owners : Awaited(o) => GoesOn(o) \/ OnlyReports(o))
  BY <1>1
<1>3. Init => ClosedInv
  BY DEF Init, ClosedInv
<1>4. TypeOK /\ Inv /\ ClosedInv /\ [Next]_vars => ClosedInv'
  BY ClosedInvStep
<1> QED
  BY <1>2, <1>3, <1>4, Invariance, PTL DEF Spec
=============================================================================
