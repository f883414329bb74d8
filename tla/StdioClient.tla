---------------------------- MODULE StdioClient ----------------------------
(***************************************************************************)
(* The end of a stdio client, src/src/transport/StdioClientTransport.ts:   *)
(* requests and cancellation notices share the writer's one permit         *)
(* (StdioTransport.ts, makeWriter), and whoever first meets the end, the   *)
(* reader, the exit watcher or a failed write, closes the dispatcher, then *)
(* the writer, then the child.  The closing scope does so in its own       *)
(* order.  A write returns when the child reads it, or has died, or when   *)
(* it fails beside a live child; a child may ignore SIGTERM.               *)
(***************************************************************************)
EXTENDS Naturals

CONSTANT Requests

VARIABLES
  child,      \* [alive, asked, killed]: asked is stdin ended and SIGTERM sent
  job,        \* each write: the request itself, or its cancellation notice
  ended,      \* how each request ended
  closed,     \* closeSignal and stopping
  failed,     \* the dispatcher is closed
  told,       \* requests whose final event the dispatcher's close gets offered
  writer,     \* the writer is closed
  closer,     \* whose fiber runs publishClose
  stage,      \* progress of the closer and of the scope's finalizers
  interrupted \* the closer's fiber was interrupted

vars == <<child, job, ended, closed, failed, told, writer, closer, stage, interrupted>>

Jobs == Requests \X {"call", "cancel"}
Call(r) == <<r, "call">>
Cancel(r) == <<r, "cancel">>
Parties == {"closer", "scope", "release"}
Nobody == <<"nobody", "none">>
Watcher == <<"watcher", "none">>

TypeOK ==
  /\ child \in [alive : BOOLEAN, asked : BOOLEAN, killed : BOOLEAN]
  /\ job \in [Jobs -> {"idle", "queued", "writing", "failed", "closing", "done"}]
  /\ ended \in [Requests -> {"no", "answered", "writeFailed", "closed", "interrupted"}]
  /\ closed \in BOOLEAN /\ failed \in BOOLEAN /\ writer \in BOOLEAN
  /\ told \in SUBSET Requests
  /\ closer \in Jobs \cup {Watcher, Nobody}
  /\ stage \in [Parties -> {"none", "writer", "terminate", "graceful", "forced",
                            "done", "last", "closed"}]
  /\ interrupted \in BOOLEAN

Init ==
  /\ child = [alive |-> TRUE, asked |-> FALSE, killed |-> FALSE]
  /\ job = [j \in Jobs |-> "idle"]
  /\ ended = [r \in Requests |-> "no"]
  /\ closed = FALSE /\ failed = FALSE /\ writer = FALSE
  /\ told = {}
  /\ closer = Nobody
  /\ stage = [p \in Parties |-> "none"]
  /\ interrupted = FALSE

requests == <<job, ended>>
closing == <<closed, failed, told, closer, stage, interrupted>>

Open == stage["scope"] = "none"
PermitIsFree == \A j \in Jobs : job[j] # "writing"
Writable == child.alive /\ ~child.asked /\ ~writer

-----------------------------------------------------------------------------
(* Requests and their writes.                                              *)

Request(r) ==
  /\ job[Call(r)] = "idle" /\ ended[r] = "no"
  /\ IF failed THEN ended' = [ended EXCEPT ![r] = "closed"] /\ UNCHANGED job
     ELSE job' = [job EXCEPT ![Call(r)] = "queued"] /\ UNCHANGED ended
  /\ UNCHANGED <<child, writer, closing>>

\* writer.send, with the permit: a live child's stdin may be destroyed, and a message
\* not encode.
Write(j) ==
  /\ job[j] = "queued" /\ PermitIsFree
  /\ \/ Writable /\ job' = [job EXCEPT ![j] = "writing"]
     \/ job' = [job EXCEPT ![j] = "failed"]
  /\ UNCHANGED <<child, ended, writer, closing>>

\* The child has died, or its stdin breaks.
WriteFails(j) ==
  /\ job[j] = "writing"
  /\ job' = [job EXCEPT ![j] = "failed"]
  /\ UNCHANGED <<child, ended, writer, closing>>

WriteSucceeds(j) ==
  /\ job[j] = "writing" /\ child.alive
  /\ job' = [job EXCEPT ![j] = "done"]
  /\ UNCHANGED <<child, ended, writer, closing>>

\* The first close wins: the dispatcher fails every request that waits, by final events
\* it forks into the scope, which is open as long as nobody has closed.
Publish(by) ==
  /\ ~closed
  /\ closed' = TRUE /\ failed' = TRUE /\ closer' = by
  /\ told' = {r \in Requests : job[Call(r)] # "idle"}
  /\ stage' = [stage EXCEPT !["closer"] = "writer"]
  /\ UNCHANGED interrupted

FailedCall(j) ==
  IF j[2] = "call" THEN [ended EXCEPT ![j[1]] = "writeFailed"] ELSE ended

\* tapError of sendMessage.
Report(j) ==
  /\ job[j] = "failed"
  /\ \/ Publish(j) /\ job' = [job EXCEPT ![j] = "closing"] /\ UNCHANGED ended
     \/ closed /\ job' = [job EXCEPT ![j] = "done"] /\ ended' = FailedCall(j)
               /\ UNCHANGED closing
  /\ UNCHANGED <<child, writer>>

\* The closer's own call fails when its publishClose is through.
ReportReturns(j) ==
  /\ job[j] = "closing" /\ closer = j /\ stage["closer"] = "done"
  /\ job' = [job EXCEPT ![j] = "done"]
  /\ ended' = FailedCall(j)
  /\ UNCHANGED <<child, writer, closing>>

Sent(r) == job[Call(r)] = "done" /\ ended[r] = "no"

Answer(r) ==
  /\ Sent(r) /\ ~failed /\ child.alive /\ Open
  /\ ended' = [ended EXCEPT ![r] = "answered"]
  /\ UNCHANGED <<child, job, writer, closing>>

\* A caller that has sent finds the failure in its queue.
EndClosed(r) ==
  /\ Sent(r) /\ r \in told
  /\ ended' = [ended EXCEPT ![r] = "closed"]
  /\ UNCHANGED <<child, job, writer, closing>>

\* The caller is interrupted: a request that was sent is cancelled, unless the
\* client is stopping; one that is being written lets go of the permit; one
\* that publishes the close stops where it is.
Interrupt(r) ==
  LET here == job[Call(r)]
      notifies == here = "done" /\ ~failed /\ ~closed IN
  /\ ended[r] = "no" /\ here \in {"queued", "writing", "done", "closing"}
  /\ ended' = [ended EXCEPT ![r] = "interrupted"]
  /\ job' = [job EXCEPT ![Call(r)] = "done",
                        ![Cancel(r)] = IF notifies THEN "queued" ELSE @]
  /\ interrupted' = (interrupted \/ (here = "closing" /\ stage["closer"] # "done"))
  /\ UNCHANGED <<child, writer, closed, failed, told, closer, stage>>

-----------------------------------------------------------------------------
(* The child.                                                              *)

Die ==
  /\ child.alive
  /\ child' = [child EXCEPT !.alive = FALSE]
  /\ UNCHANGED <<requests, writer, closing>>

\* Noise or an end on stdout, an error event, or the exit watcher.
Notice ==
  /\ Open
  /\ Publish(Watcher)
  /\ UNCHANGED <<child, requests, writer>>

-----------------------------------------------------------------------------
(* terminateChild, by the closer and by the scope.                         *)

Goto(p, next) == stage' = [stage EXCEPT ![p] = next]
Runs(p) == p = "closer" => ~interrupted

\* writer.close waits for the permit of a write.
CloseWriter(p) ==
  /\ Runs(p) /\ stage[p] = "writer" /\ PermitIsFree
  /\ writer' = TRUE
  /\ Goto(p, IF p = "closer" THEN "terminate" ELSE "last")
  /\ UNCHANGED <<child, requests, closed, failed, told, closer, interrupted>>

Terminate(p) ==
  /\ Runs(p) /\ stage[p] = "terminate"
  /\ IF child.alive
     THEN child' = [child EXCEPT !.asked = TRUE] /\ Goto(p, "graceful")
     ELSE UNCHANGED child /\ Goto(p, "done")
  /\ UNCHANGED <<requests, writer, closed, failed, told, closer, interrupted>>

GiveUp(kill) == [child EXCEPT !.killed = FALSE]                        \* mutant
Escalated(kill) == [child EXCEPT !.killed = kill]

\* The child has exited, or the timeout passes and SIGKILL follows.
WaitGracefully(p) ==
  /\ Runs(p) /\ stage[p] = "graceful"
  /\ \/ ~child.alive /\ Goto(p, "done") /\ UNCHANGED child
     \/ child.alive /\ child' = Escalated(TRUE) /\ Goto(p, "forced")
  /\ UNCHANGED <<requests, writer, closed, failed, told, closer, interrupted>>

\* The child has exited, or the second timeout passes.
WaitForced(p) ==
  /\ Runs(p) /\ stage[p] = "forced"
  /\ Goto(p, "done")
  /\ UNCHANGED <<child, requests, writer, closed, failed, told, closer, interrupted>>

-----------------------------------------------------------------------------
(* The scope: finalizers in reverse order.                                 *)

WriterFirst(s) == "writer"                                             \* mutant
\* The last finalizer added, and so the first to run, ends the child.
FirstFinalizer(s) == "terminate"

CloseScope ==
  /\ Open
  /\ closed' = TRUE
  /\ Goto("scope", FirstFinalizer("scope"))
  /\ UNCHANGED <<child, requests, failed, told, writer, closer, interrupted>>

\* The forked fibers are interrupted, offers of final events among them, and the
\* dispatcher closes; the final events of this close are forked into a closed scope.
StopFibers ==
  /\ stage["scope"] = "done"
  /\ Goto("scope", "writer")
  /\ failed' = TRUE
  /\ told' \in SUBSET told
  /\ job' = [j \in Jobs |-> IF j[2] = "cancel" THEN "done" ELSE job[j]]
  /\ interrupted' = (interrupted \/ (closer \notin {Nobody} \cup {Call(r) : r \in Requests}
                                     /\ stage["closer"] # "done"))
  /\ UNCHANGED <<child, ended, closed, writer, closer>>

\* The release of the child itself runs terminateChild once more.
Release ==
  /\ stage["scope"] = "last"
  /\ CASE stage["release"] = "none" -> Goto("release", "terminate")
       [] stage["release"] = "done" -> Goto("scope", "closed")
       [] OTHER -> FALSE
  /\ UNCHANGED <<child, requests, closed, failed, told, writer, closer, interrupted>>

-----------------------------------------------------------------------------

CloseStep(p) == CloseWriter(p) \/ Terminate(p) \/ WaitGracefully(p) \/ WaitForced(p)

Next ==
  \/ \E r \in Requests : Request(r) \/ Answer(r) \/ EndClosed(r) \/ Interrupt(r)
  \/ \E j \in Jobs : \/ Write(j) \/ WriteFails(j) \/ WriteSucceeds(j)
                     \/ Report(j) \/ ReportReturns(j)
  \/ \E p \in Parties : CloseStep(p)
  \/ Die \/ Notice
  \/ CloseScope \/ StopFibers \/ Release

Spec == Init /\ [][Next]_vars

\* Fibers run on; SIGKILL ends a child.  A child need not read, nor heed
\* SIGTERM, and nobody need close the scope.
Fairness ==
  /\ \A r \in Requests : WF_vars(EndClosed(r))
  /\ \A j \in Jobs : WF_vars(Write(j)) /\ WF_vars(~child.alive /\ WriteFails(j))
                     /\ WF_vars(Report(j)) /\ WF_vars(ReportReturns(j))
  /\ \A p \in Parties : WF_vars(CloseStep(p))
  /\ WF_vars(child.killed /\ Die)
  /\ WF_vars(StopFibers) /\ WF_vars(Release)

FairSpec == Spec /\ Fairness

-----------------------------------------------------------------------------
(* Properties.                                                             *)

\* A closed client fails whoever waits and ends its child, if every write returns:
\* publishClose waits for the permit of a write to a child that may have stopped
\* reading.  But a closer that is interrupted, the caller of a write that failed
\* beside a live child, leaves the child alive; and a request that outlives the scope
\* waits for ever if its final event was still to be offered.
ClosesIfWritesReturn ==
  (\A j \in Jobs : []<>(job[j] # "writing")) =>
    /\ \A r \in Requests : failed /\ job[Call(r)] # "idle" ~>
                         ended[r] # "no" \/ (~Open /\ r \notin told)
    /\ failed ~> ~child.alive \/ interrupted

\* The scope always closes, however stuck the child is: it ends the child
\* before it waits for the writer.
ScopeCloses ==
  stage["scope"] # "none" ~> stage["scope"] = "closed" /\ ~child.alive
=============================================================================
