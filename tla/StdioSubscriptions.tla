------------------------- MODULE StdioSubscriptions -------------------------
(***************************************************************************)
(* subscriptions/listen over stdio: the inbound loop of                    *)
(* src/src/transport/StdioServerTransport.ts (run), the subscription       *)
(* registry of src/src/McpServer.ts (openSubscription, exposeNotification, *)
(* closeSubscriptions) and the fibers that publish list and resource       *)
(* changes, all writing to one stdout.                                     *)
(*                                                                         *)
(* The serialised writer puts whole lines on the wire, so a write is one   *)
(* step; it lets waiting senders in in any order.  A subscription is one   *)
(* accepted listen request; several may carry the same id, one after the   *)
(* other.  Every published change here is one the filters select.          *)
(*                                                                         *)
(* The finalizers of the scope that run was given go one after the other:  *)
(* the listen fibers are interrupted, then the closers run, the dispatcher *)
(* empties its table, the writer closes, and the fiber of run comes last.  *)
(* Until then the loop takes messages as before.                           *)
(***************************************************************************)
EXTENDS OrderedMaps

CONSTANTS
  Ids,            \* JSON-RPC ids of listen requests
  Subs,           \* listen requests
  NoSub,          \* stands for "no subscription"
  Publishers,     \* fibers that publish changes
  MaxPublishes    \* bound: changes published in all

ASSUME SubsAssumption == NoSub \notin Subs
ASSUME PublishesAssumption == MaxPublishes \in Nat

VARIABLES
  idOf,        \* the id the listen request carries (never changes)
  loop,        \* progress of the inbound loop: what it does, for which request
  served,      \* listen requests already received
  holder,      \* the dispatcher's entry under each id
  closers,     \* the transport's Map from id to the closer of a subscription
  registry,    \* the server's Map of subscriptions, in insertion order
  todo,        \* what is left of the snapshot a publish iterates
  published,   \* changes published so far
  completing,  \* terminal sinks closeSubscriptions still runs
  failing,     \* transportFailures holds a failure
  run,         \* how run stands
  scope,       \* the scope run was given, by the last finalizer that has run
  late,        \* ghost: sinks registered while the scope closed
  wire         \* frames on stdout carrying each subscription's id

stdioVars == <<idOf, loop, served, holder, closers, registry, todo, published,
               completing, failing, run, scope, late, wire>>

publishVars == <<todo, published>>
endVars == <<completing, failing, run, scope>>

\* "closing" interrupts the listen fibers; the others are named after what is over.
Stages == {"open", "closing", "unsubscribed", "released", "muted", "closed"}
Frames == {"ack", "note", "complete"}
LoopIdle == [at |-> "idle", sub |-> NoSub]

StdioTypeOK ==
  /\ idOf \in [Subs -> Ids]
  /\ loop \in {LoopIdle} \cup [at : {"registering", "acknowledging"}, sub : Subs]
  /\ served \in SUBSET Subs
  /\ holder \in [Ids -> {"free", "listening", "releasing", "orphaned"}]
  /\ closers \in [Ids -> Subs \cup {NoSub}]
  /\ registry \in Seq(Subs)
  /\ \A j, k \in DOMAIN registry : registry[j] = registry[k] => j = k
  /\ todo \in [Publishers -> Seq(Subs)]
  /\ published \in Nat
  /\ completing \in SUBSET Subs
  /\ failing \in BOOLEAN
  /\ run \in {"running", "closing", "ended", "failed"}
  /\ scope \in Stages
  /\ late \in SUBSET Subs
  /\ wire \in [Subs -> Seq(Frames)]

StdioInit ==
  /\ idOf \in [Subs -> Ids]
  /\ loop = LoopIdle
  /\ served = {}
  /\ holder = [i \in Ids |-> "free"]
  /\ closers = [i \in Ids |-> NoSub]
  /\ registry = <<>>
  /\ todo = [p \in Publishers |-> <<>>]
  /\ published = 0
  /\ completing = {}
  /\ failing = FALSE
  /\ run = "running"
  /\ scope = "open"
  /\ late = {}
  /\ wire = [s \in Subs |-> <<>>]

-----------------------------------------------------------------------------
(* Helpers.                                                                *)

Elements(q) == {q[j] : j \in DOMAIN q}
Put(s, frame) == wire' = [wire EXCEPT ![s] = Append(@, frame)]
LoopReady == loop = LoopIdle /\ run = "running"
WriterOpen == scope \notin {"muted", "closed"}

-----------------------------------------------------------------------------
(* The inbound loop.                                                       *)

AnyId(s) == TRUE                                                       \* mutant
\* dispatcher.accept: an id still in its table refuses the request, and run drops
\* it without a word.
AcceptsId(s) == holder[idOf[s]] = "free"

\* A fiber forked into a scope that closes never starts, and leaves its id taken.
AcceptListen(s) ==
  /\ LoopReady
  /\ s \notin served
  /\ AcceptsId(s)
  /\ served' = served \cup {s}
  /\ holder' = [holder EXCEPT ![idOf[s]] = IF scope = "open" THEN "listening"
                                                           ELSE "orphaned"]
  /\ loop' = [at |-> "registering", sub |-> s]
  /\ UNCHANGED <<idOf, closers, registry, publishVars, endVars, late, wire>>

RefuseListen(s) ==
  /\ LoopReady
  /\ s \notin served
  /\ ~AcceptsId(s)
  /\ served' = served \cup {s}
  /\ UNCHANGED <<idOf, loop, holder, closers, registry, publishVars, endVars, late,
                 wire>>

\* server.openSubscription, before the acknowledgement is written.
OpenSubscription ==
  /\ loop.at = "registering"
  /\ registry' = Append(registry, loop.sub)
  /\ closers' = [closers EXCEPT ![idOf[loop.sub]] = loop.sub]
  /\ loop' = [loop EXCEPT !.at = "acknowledging"]
  /\ late' = IF scope = "open" THEN late ELSE late \cup {loop.sub}
  /\ UNCHANGED <<idOf, served, holder, publishVars, endVars, wire>>

Acknowledge ==
  /\ loop.at = "acknowledging" /\ WriterOpen
  /\ Put(loop.sub, "ack")
  /\ loop' = LoopIdle
  /\ UNCHANGED <<idOf, served, holder, closers, registry, publishVars, endVars, late>>

\* notifications/cancelled: drop the sink, then cancel the dispatcher's request.
CancelListen(i) ==
  /\ LoopReady
  /\ registry' = Kept(registry, {closers[i]})
  /\ closers' = [closers EXCEPT ![i] = NoSub]
  /\ holder' = [holder EXCEPT ![i] = IF @ = "listening" THEN "releasing" ELSE @]
  /\ UNCHANGED <<idOf, loop, served, publishVars, endVars, late, wire>>

\* The listen fiber, interrupted by its cancellation or by the scope, has ended and
\* released its id.
ReleaseId(i) ==
  /\ holder[i] = "releasing" \/ (holder[i] = "listening" /\ scope = "closing")
  /\ holder' = [holder EXCEPT ![i] = "free"]
  /\ UNCHANGED <<idOf, loop, served, closers, registry, publishVars, endVars, late,
                 wire>>

-----------------------------------------------------------------------------
(* Publishing (publish, commitRegistryChange: exposeNotification).         *)

\* The registry is copied, and the copy is iterated.
BeginPublish(p) ==
  /\ todo[p] = <<>>
  /\ published < MaxPublishes
  /\ published' = published + 1
  /\ todo' = [todo EXCEPT ![p] = registry]
  /\ UNCHANGED <<idOf, loop, served, holder, closers, registry, endVars, late, wire>>

SendNote(p) ==
  /\ todo[p] # <<>> /\ WriterOpen
  /\ Put(Head(todo[p]), "note")
  /\ todo' = [todo EXCEPT ![p] = Tail(@)]
  /\ UNCHANGED <<idOf, loop, served, holder, closers, registry, published, endVars,
                 late>>

\* The write fails, or the writer is closed: the sink tells run, and the publish
\* goes on with the next subscription.
NoteFails(p) ==
  /\ todo[p] # <<>>
  /\ failing' = TRUE
  /\ todo' = [todo EXCEPT ![p] = Tail(@)]
  /\ UNCHANGED <<idOf, loop, served, holder, closers, registry, published, wire,
                 completing, run, scope, late>>

-----------------------------------------------------------------------------
(* The end of run.                                                         *)

EndOfInputEarly ==                                                     \* mutant
  /\ run = "running"
  /\ run' = "closing"
  /\ completing' = Elements(registry)
  /\ registry' = <<>>
  /\ UNCHANGED <<idOf, loop, served, holder, closers, publishVars, failing, scope,
                 late, wire>>

\* The input ended: closeSubscriptions empties the registry and starts all the
\* terminal sinks.
EndOfInput ==
  /\ LoopReady
  /\ run' = "closing"
  /\ completing' = Elements(registry)
  /\ registry' = <<>>
  /\ UNCHANGED <<idOf, loop, served, holder, closers, publishVars, failing, scope,
                 late, wire>>

CompleteSubscription(s) ==
  /\ s \in completing /\ WriterOpen
  /\ Put(s, "complete")
  /\ completing' = completing \ {s}
  /\ UNCHANGED <<idOf, loop, served, holder, closers, registry, publishVars, failing,
                 run, scope, late>>

\* A terminal write that fails is dropped; after a second all the others are.
GiveUpCompleting(s) ==
  /\ s \in completing
  /\ completing' \in {completing \ {s}, {}}
  /\ UNCHANGED <<idOf, loop, served, holder, closers, registry, publishVars, failing,
                 run, scope, late, wire>>

EndRun ==
  /\ run = "closing" /\ completing = {}
  /\ run' = "ended"
  /\ UNCHANGED <<idOf, loop, served, holder, closers, registry, publishVars, failing,
                 completing, scope, late, wire>>

\* Malformed input, a message the server does not take, a failed acknowledgement or
\* a failed terminal of any request, or an interruption from outside: run fails and
\* its loop is interrupted.  The scope stays as it is.
FailRun ==
  /\ run = "running"
  /\ run' = "failed"
  /\ loop' = LoopIdle
  /\ UNCHANGED <<idOf, served, holder, closers, registry, publishVars, failing,
                 completing, scope, late, wire>>

\* raceFirst: a failure the sinks reported ends run the same way.
FailureEndsRun == failing /\ FailRun

-----------------------------------------------------------------------------
(* The finalizers of the scope, in their order.                            *)

\* The scope no longer takes fibers in, and interrupts those it has.
BeginClose ==
  /\ scope = "open"
  /\ scope' = "closing"
  /\ UNCHANGED <<idOf, loop, served, holder, closers, registry, publishVars, completing,
                 failing, run, late, wire>>

\* Once its listen fibers have ended, every subscription of the transport leaves the
\* registry.
CloseSinks ==
  /\ scope = "closing" /\ \A i \in Ids : holder[i] \in {"free", "orphaned"}
  /\ scope' = "unsubscribed"
  /\ registry' = Kept(registry, {closers[i] : i \in Ids})
  /\ closers' = [i \in Ids |-> NoSub]
  /\ UNCHANGED <<idOf, loop, served, holder, publishVars, completing, failing, run, late,
                 wire>>

CloseDispatcher ==
  /\ scope = "unsubscribed"
  /\ scope' = "released"
  /\ holder' = [i \in Ids |-> "free"]
  /\ UNCHANGED <<idOf, loop, served, closers, registry, publishVars, completing, failing,
                 run, late, wire>>

CloseWriter ==
  /\ scope = "released"
  /\ scope' = "muted"
  /\ UNCHANGED <<idOf, loop, served, holder, closers, registry, publishVars, completing,
                 failing, run, late, wire>>

\* The fiber of run is interrupted; closeSubscriptions is its finalizer and ends first.
StopRun ==
  /\ scope = "muted" /\ run # "closing"
  /\ scope' = "closed"
  /\ loop' = LoopIdle
  /\ run' = IF run = "ended" THEN "ended" ELSE "failed"
  /\ UNCHANGED <<idOf, served, holder, closers, registry, publishVars, completing, failing,
                 late, wire>>

-----------------------------------------------------------------------------
LoopStep == OpenSubscription \/ Acknowledge

StdioNext ==
  \/ \E s \in Subs : AcceptListen(s) \/ RefuseListen(s) \/ CompleteSubscription(s)
                     \/ GiveUpCompleting(s)
  \/ LoopStep
  \/ \E i \in Ids : CancelListen(i) \/ ReleaseId(i)
  \/ \E p \in Publishers : BeginPublish(p) \/ SendNote(p) \/ NoteFails(p)
  \/ EndOfInput \/ EndRun \/ FailRun \/ FailureEndsRun
  \/ BeginClose \/ CloseSinks \/ CloseDispatcher \/ CloseWriter \/ StopRun

StdioSpec == StdioInit /\ [][StdioNext]_stdioVars

-----------------------------------------------------------------------------
(* Properties                                                              *)

\* A sink in the registry is the one its id's closer removes, and while the scope is
\* open its id is held by the dispatcher: cancelling an id silences all that was opened
\* under it.  Only a listen request served while the scope closes takes an id over from
\* a sink, and once the closers have run no sink is left but under the id of such a one.
SinksAreOwned ==
  \A s \in Elements(registry) :
    /\ closers[idOf[s]] = s \/ \E t \in late : idOf[t] = idOf[s]
    /\ scope = "open" => closers[idOf[s]] = s /\ holder[idOf[s]] = "listening"
    /\ scope \notin {"open", "closing"} => \E t \in late : idOf[t] = idOf[s]

\* A subscription is acknowledged once, completed once, and never completed before
\* it was acknowledged, wherever the end of the input falls; and it is completed only
\* by a run that ended gracefully, so that the peer can tell a failure from it.
AcknowledgedThenCompleted ==
  \A s \in Subs : \A j, k \in DOMAIN wire[s] :
    /\ wire[s][j] = wire[s][k] /\ wire[s][j] # "note" => j = k
    /\ wire[s][k] = "complete" => \E i \in 1..k : wire[s][i] = "ack"
    /\ wire[s][j] = "ack" /\ wire[s][k] = "complete" => j < k
    /\ wire[s][k] = "complete" => run \in {"closing", "ended"}

\* What the protocol's schema asks: the acknowledgement is the first message that
\* carries the subscription's id.
AcknowledgementIsFirst ==
  \A s \in Subs : wire[s] # <<>> => wire[s][1] = "ack"

=============================================================================
