------------------------------ MODULE McpTasks ------------------------------
(***************************************************************************)
(* The in-memory task runtime of src/src/McpTasks.ts: tasks are started,   *)
(* worked on by a detached fiber, awaited, listed page by page, moved by   *)
(* the application, cancelled, and forgotten when their time to live ends. *)
(*                                                                         *)
(* Steps are the code's stretches between suspensions.  A task's entry     *)
(* outlives its removal from the map: fibers and waiters still hold it.    *)
(***************************************************************************)
EXTENDS OrderedMaps, SequencesExt

CONSTANTS
  Tasks,      \* task ids, one for each call of start
  Timed,      \* the tasks with a time to live
  Cancels,    \* calls of cancel
  Waits,      \* calls of result
  PageSize    \* tasks in a page of list

ASSUME TasksAssumption == Timed \subseteq Tasks /\ PageSize \in Nat \ {0}

Terminal == {"completed", "failed", "cancelled"}
TaskStatus == {"working", "input_required"} \cup Terminal

VARIABLES
  tasks,      \* the map's keys, in insertion order
  status,     \* status in the entry of each task ("none": not started)
  result,     \* the entry's deferred: "pending", or how it was settled
  starter,    \* progress of each start call
  worker,     \* progress of each detached fiber; the outcome it is reporting
  due,        \* tasks whose time to live has ended
  ender,      \* who made the terminal transition of each task
  cancel,     \* each call of cancel: its progress and its task
  wait,       \* each call of result: its progress and its task
  listing     \* one client paging through list

vars == <<tasks, status, result, starter, worker, due, ender, cancel, wait, listing>>

Known == {t \in Tasks : status[t] # "none"}

TypeOK ==
  /\ tasks \in Seq(Known) /\ IsInjective(tasks)
  /\ status \in [Tasks -> {"none"} \cup TaskStatus]
  /\ result \in [Tasks -> {"pending"} \cup Terminal]
  /\ starter \in [Tasks -> {"idle", "notifying", "started", "interrupted"}]
  /\ worker \in [Tasks -> {"none", "running", "completed", "failed", "over"}]
  /\ due \subseteq Timed
  /\ ender \in [Tasks -> {"nobody", "worker", "cancel", "application"}]
  /\ cancel \in [Cancels -> [at : {"idle", "notifying", "joining", "done",
                                   "refused", "interrupted"}, task : Tasks]]
  /\ wait \in [Waits -> [at : {"idle", "waiting", "answered", "refused"}, task : Tasks]]
  /\ listing \in [at : {"idle", "paging", "finished", "refused"}, cursor : Nat,
                  first : SUBSET Tasks, seen : Seq(Tasks)]

Init ==
  /\ tasks = <<>>
  /\ status = [t \in Tasks |-> "none"]
  /\ result = [t \in Tasks |-> "pending"]
  /\ starter = [t \in Tasks |-> "idle"]
  /\ worker = [t \in Tasks |-> "none"]
  /\ due = {}
  /\ ender = [t \in Tasks |-> "nobody"]
  /\ cancel \in [Cancels -> {[at |-> "idle", task |-> t] : t \in Tasks}]
  /\ wait \in [Waits -> {[at |-> "idle", task |-> t] : t \in Tasks}]
  /\ listing = [at |-> "idle", cursor |-> 0, first |-> {}, seen |-> <<>>]

-----------------------------------------------------------------------------
(* Shared by the operations.                                               *)

CanTransition(from, to) ==
  from \in {"working", "input_required"} /\ to \in TaskStatus

\* The map once cleanupExpired has run, and what requireTask finds in it.
Cleaned == Kept(tasks, due)
Present(t) == t \in ToSet(Cleaned)

\* A transition that succeeds; its notification may suspend the caller.
Move(t, to, by) ==
  /\ status' = [status EXCEPT ![t] = to]
  /\ ender' = IF to \in Terminal THEN [ender EXCEPT ![t] = by] ELSE ender

\* Only the first settlement of a deferred counts.
Settle(t, outcome) ==
  result' = IF result[t] = "pending" THEN [result EXCEPT ![t] = outcome] ELSE result

-----------------------------------------------------------------------------
(* start.                                                                  *)

Start(t) ==
  /\ starter[t] = "idle"
  /\ starter' = [starter EXCEPT ![t] = "notifying"]
  /\ status' = [status EXCEPT ![t] = "working"]
  /\ tasks' = Append(tasks, t)
  /\ UNCHANGED <<result, worker, due, ender, cancel, wait, listing>>

\* The notifier is done: the work is forked, whatever became of the task.
Fork(t) ==
  /\ starter[t] = "notifying"
  /\ starter' = [starter EXCEPT ![t] = "started"]
  /\ worker' = [worker EXCEPT ![t] = "running"]
  /\ UNCHANGED <<tasks, status, result, due, ender, cancel, wait, listing>>

InterruptStart(t) ==
  /\ starter[t] = "notifying"
  /\ starter' = [starter EXCEPT ![t] = "interrupted"]
  /\ UNCHANGED <<tasks, status, result, worker, due, ender, cancel, wait, listing>>

-----------------------------------------------------------------------------
(* The detached fiber: the work, then completeTask or failTask.            *)

ReportsAlways(t) == t \in ToSet(tasks)                                 \* mutant
\* Both return early for a task that is gone or terminal.
Reports(t) == t \in ToSet(tasks) /\ status[t] \notin Terminal

\* transition looks the task up again, and only then cleans the map.
Work(t, outcome) ==
  /\ worker[t] = "running"
  /\ tasks' = IF Reports(t) THEN Cleaned ELSE tasks
  /\ IF Reports(t) /\ Present(t)
     THEN /\ Move(t, outcome, "worker")
          /\ worker' = [worker EXCEPT ![t] = outcome]
     ELSE /\ worker' = [worker EXCEPT ![t] = "over"]
          /\ UNCHANGED <<status, ender>>
  /\ UNCHANGED <<result, starter, due, cancel, wait, listing>>

ReportCompleted(t) ==                                                  \* mutant
  /\ worker[t] \in {"completed", "failed"}
  /\ IF worker[t] = "completed" THEN Settle(t, "completed") ELSE UNCHANGED result
  /\ worker' = [worker EXCEPT ![t] = "over"]
  /\ UNCHANGED <<tasks, status, starter, due, ender, cancel, wait, listing>>
\* The notifier is done: the deferred is settled.
Report(t) ==
  /\ worker[t] \in {"completed", "failed"}
  /\ Settle(t, worker[t])
  /\ worker' = [worker EXCEPT ![t] = "over"]
  /\ UNCHANGED <<tasks, status, starter, due, ender, cancel, wait, listing>>

-----------------------------------------------------------------------------
(* cancel.                                                                 *)

\* cancel refuses what requireTask does not find and what is terminal.
Cancellable(t) == Present(t) /\ status[t] \notin Terminal

Cancel(c) ==
  LET t == cancel[c].task IN
  /\ cancel[c].at = "idle" /\ t \in Known
  /\ tasks' = Cleaned
  /\ IF Cancellable(t)
     THEN /\ Move(t, "cancelled", "cancel")
          /\ cancel' = [cancel EXCEPT ![c].at = "notifying"]
     ELSE /\ cancel' = [cancel EXCEPT ![c].at = "refused"]
          /\ UNCHANGED <<status, ender>>
  /\ UNCHANGED <<result, starter, worker, due, wait, listing>>

SettleEarly(c) ==                                                      \* mutant
  /\ cancel[c].at = "notifying"
  /\ cancel' = [cancel EXCEPT ![c].at = "done"]
  /\ UNCHANGED <<result, tasks, status, starter, worker, due, ender, wait, listing>>
\* The notifier is done.  A fiber that was not forked yet is not interrupted.
Notified(c) ==
  LET t == cancel[c].task IN
  /\ cancel[c].at = "notifying"
  /\ IF worker[t] = "none"
     THEN Settle(t, "cancelled") /\ cancel' = [cancel EXCEPT ![c].at = "done"]
     ELSE cancel' = [cancel EXCEPT ![c].at = "joining"] /\ UNCHANGED result
  /\ UNCHANGED <<tasks, status, starter, worker, due, ender, wait, listing>>

\* Fiber.interrupt has seen the fiber end.
Joined(c) ==
  LET t == cancel[c].task IN
  /\ cancel[c].at = "joining" /\ worker[t] = "over"
  /\ Settle(t, "cancelled")
  /\ cancel' = [cancel EXCEPT ![c].at = "done"]
  /\ UNCHANGED <<tasks, status, starter, worker, due, ender, wait, listing>>

\* Nothing protects the rest of cancel from the end of its caller.
InterruptCancel(c) ==
  /\ cancel[c].at \in {"notifying", "joining"}
  /\ cancel' = [cancel EXCEPT ![c].at = "interrupted"]
  /\ UNCHANGED <<tasks, status, result, starter, worker, due, ender, wait, listing>>

-----------------------------------------------------------------------------
(* result, get, transition and the clock.                                  *)

Await(w) ==
  LET t == wait[w].task IN
  /\ wait[w].at = "idle" /\ t \in Known
  /\ tasks' = Cleaned
  /\ wait' = [wait EXCEPT ![w].at = IF Present(t) THEN "waiting" ELSE "refused"]
  /\ UNCHANGED <<status, result, starter, worker, due, ender, cancel, listing>>

Answer(w) ==
  /\ wait[w].at = "waiting" /\ result[wait[w].task] # "pending"
  /\ wait' = [wait EXCEPT ![w].at = "answered"]
  /\ UNCHANGED <<tasks, status, result, starter, worker, due, ender, cancel, listing>>

\* get changes nothing but the map it cleans.
Get ==
  /\ tasks' = Cleaned
  /\ UNCHANGED <<status, result, starter, worker, due, ender, cancel, wait, listing>>

\* transition, called by the application, to a terminal status too.
Transition(t, to) ==
  /\ Present(t) /\ CanTransition(status[t], to)
  /\ tasks' = Cleaned
  /\ Move(t, to, "application")
  /\ UNCHANGED <<result, starter, worker, due, cancel, wait, listing>>

Expire(t) ==
  /\ t \in Known \cap (Timed \ due)
  /\ due' = due \cup {t}
  /\ UNCHANGED <<tasks, status, result, starter, worker, ender, cancel, wait, listing>>

-----------------------------------------------------------------------------
(* list, with a cursor that is an offset into the map.                     *)

StalePage(cursor) ==                                                   \* mutant
  SubSeq(tasks, cursor + 1, Min({cursor + PageSize, Len(tasks)}))
Page(cursor) == SubSeq(Cleaned, cursor + 1, Min({cursor + PageSize, Len(Cleaned)}))

NextCursor(cursor) == cursor + PageSize

\* The cursor is parsed against the size of the cleaned map.
ListPage ==
  LET cursor == listing.cursor IN
  /\ listing.at \in {"idle", "paging"}
  /\ tasks' = Cleaned
  /\ listing' =
       IF cursor > Len(Cleaned) THEN [listing EXCEPT !.at = "refused"]
       ELSE [at |-> IF NextCursor(cursor) < Len(Cleaned) THEN "paging" ELSE "finished",
             cursor |-> NextCursor(cursor),
             first |-> IF listing.at = "idle" THEN ToSet(Cleaned) ELSE listing.first,
             seen |-> listing.seen \o Page(cursor)]
  /\ UNCHANGED <<status, result, starter, worker, due, ender, cancel, wait>>

-----------------------------------------------------------------------------

Next ==
  \/ \E t \in Tasks :
       \/ Start(t) \/ Fork(t) \/ InterruptStart(t)
       \/ \E outcome \in {"completed", "failed"} : Work(t, outcome)
       \/ Report(t)
       \/ Expire(t)
       \/ \E to \in TaskStatus : Transition(t, to)
  \/ \E c \in Cancels : Cancel(c) \/ Notified(c) \/ Joined(c) \/ InterruptCancel(c)
  \/ \E w \in Waits : Await(w) \/ Answer(w)
  \/ Get \/ ListPage

\* Every fiber that can go on does so: the notifier returns, the work ends,
\* an interrupted fiber too.  Callers and the clock owe nothing.
Fairness ==
  /\ \A t \in Tasks :
       /\ WF_vars(Fork(t)) /\ WF_vars(Report(t))
       /\ WF_vars(\E outcome \in {"completed", "failed"} : Work(t, outcome))
  /\ \A c \in Cancels : WF_vars(Notified(c)) /\ WF_vars(Joined(c))
  /\ \A w \in Waits : WF_vars(Answer(w))

Spec == Init /\ [][Next]_vars /\ Fairness

-----------------------------------------------------------------------------
(* Properties.                                                             *)

\* The answer a waiter gets agrees with the status a reader of the task sees,
\* although both are written in separate steps of racing fibers.
ResultMatchesStatus ==
  \A t \in Tasks : result[t] # "pending" => result[t] = status[t]

\* The three ways the code lets a result be forgotten.
Forgotten(t) ==
  \/ t \notin ToSet(tasks)
  \/ starter[t] = "interrupted"
  \/ \E c \in Cancels : cancel[c].at = "interrupted" /\ cancel[c].task = t
  \/ ender[t] = "application"

\* A waiter is answered, unless the task was removed by its time to live, the
\* call that started or cancelled it was interrupted, or the application ended
\* the task itself.  In those cases result waits for ever.
WaitersAreAnswered ==
  \A w \in Waits : wait[w].at = "waiting" ~>
    (wait[w].at = "answered" \/ Forgotten(wait[w].task))

\* A cancel that returned has settled the result for good: work that was forked
\* only after it (start was still notifying) runs, but reports nothing.
CancelIsFinal ==
  \A c \in Cancels : LET t == cancel[c].task IN
    cancel[c].at = "done" =>
      /\ status[t] = "cancelled" /\ result[t] = "cancelled"
      /\ worker[t] \notin {"completed", "failed"}

\* No page repeats a task, and a client that paged to the end has seen every
\* task that was there, unless one of them was removed meanwhile: an offset
\* then skips as many tasks as were removed in front of it.
PagingSkipsOnlyRemoved ==
  /\ IsInjective(listing.seen)
  /\ listing.at = "finished" /\ listing.first \subseteq ToSet(tasks)
       => listing.first \subseteq ToSet(listing.seen)
=============================================================================
