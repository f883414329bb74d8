# A TLA+ model of the MCP Effect SDK

The SDK (`src/src/`, about 25 000 lines of TypeScript on Effect 4, a sixth of
them generated) implements client and server of the Model Context Protocol,
version 2026-07-28. Its difficulty is not in its data but in its fibers: every
request, stream and subscription is a small machine driven by several fibers,
guarded by one-permit semaphores and bounded queues, and ended by whichever of
an answer, a cancellation, a failure, an interruption or a closing scope comes
first. These modules state what those machines promise, check it with TLC and
prove the part that matters most with TLAPS.

    java tlc2.TLC -workers 2 -config ServerDispatcher.cfg ServerDispatcher
    tlapm ServerDispatcherProofs.tla
    tlapm ClientSubscriptionProofs.tla        (and likewise the other *Proofs modules)

`PROJECT.json` lists every run, the source lines behind every definition, the
hazards of the code and the properties that watch them, and for every property
a plausible bug that breaks it.

## The system

| Part | Source | State | Operations | What is hard |
|---|---|---|---|---|
| Server request dispatcher | `McpDispatcher.ts` 515-870 | table of active ids, one permit, one fiber and two deferreds per request, bounded queue of failures | accept, notify, answer, cancel, close of the scope | answer against cancellation; release against reuse of an id; a full failure queue; joining at close |
| Client request dispatcher | `McpDispatcher.ts` 98-400 | table of pending requests, one bounded queue per request | request, accept (routing), cancel, close | five ways to leave the table; overflow; final events for a full queue; telling the peer |
| Stdio server transport | `transport/StdioServerTransport.ts` | subscription closers, one serialised stdout, first failure | read loop, listen, cancel, end of input, run | acknowledgement against publish; end of input; fail-closed |
| Stdio client transport | `transport/StdioClientTransport.ts`, `StdioTransport.ts` | child process, close signal, one writer permit | send, read loop, publishClose, terminateChild, finalizers | who closes first; a writer stuck on a child that does not read; an interrupted closer |
| HTTP server transport | `transport/StreamableHttpServerTransport.ts` | per response: lock, state, frame slots, output queue; per handler: scope | preflight, SSE and JSON answers, disposal | back pressure; terminals that must fit; delivery acknowledgements |
| HTTP client transport | `transport/StreamableHttpClientTransport.ts` | the tools' header plans, shared and per request; a staged catalog | post, authorization retry, version retry, recovery of a header mismatch, commit at a clean end | retries that combine, partial streams, plans another request replaces |
| Server registry | `McpServer.ts`, `Pagination.ts` | collections, revisions, cursors, subscriptions, sliding notification queue | register, publish, paginate, openSubscription, closeSubscriptions | invalidation, revision, mutation and announcement are separate steps; cursors issued amid them |
| Client subscriptions | `McpClient.ts` 1668-2066 | settlement gate, machine Opening/Open/TerminalPending/Closed, bounded output | open, frames, terminal, close | closers race the owner; the terminal's place in a full queue |
| Client cache | `McpClient.ts` 660-1131, `McpCache.ts` | epochs, LRU entries | lookup, store, invalidate | a response that overlaps an invalidation |
| Progress, MRTR, request state | `McpClient.ts`, `InputRequired.ts`, `RequestState.ts` | reserved tokens, sealed state, replay store | reserve, rounds, redeem | single use, expiry |
| Tasks | `McpTasks.ts` | task map, status and deferred per task, detached fibers, expiry | start, cancel, transition, result, get, list | cancel before fork, two writes per end, offsets into a shrinking map |
| OAuth client | `auth/client/` | stored grants and clients, remembered handle, remembered metadata URI | currentGrant, acquire, respondToChallenge | calls that hold what they read while another removes or refreshes it |
| Pure parts | `McpWire.ts`, `McpErrors.ts`, schemas, `HttpMetadata.ts`, framing, generated code | none | encode, decode, validate | - |

They interact as follows. A transport owns a scope, reads frames and hands them
to its dispatcher; the dispatcher runs the server's method table in one fiber
per request and writes frames through the transport's single sender.
`subscriptions/listen` registers a sink in the server's registry, and any fiber
that publishes a change runs all sinks, so a publisher runs transport code. On
the client, `McpClient` calls `transport.request`, a stream of frames ending in
one terminal; notifications in it first pass the cache epochs, then the
invalidation, then the user's handlers. The HTTP client asks the OAuth client for
a grant before each post and at most once more after a challenge. A tool that needs
input answers with questions and a sealed state; the client answers and calls again.

What makes each of them correct: an id belongs to one request at a time and
always comes free; a request ends exactly once, and silently after its end; no
notification is lost without failing its stream; a subscription is acknowledged
first, ends as it was closed and never hangs its caller; a bounded queue always
has room for the frame that ends the stream; closing anything terminates; what
the cache returns is not older than what the application has been told, and two
pages of one traversal belong together; a tool runs at most once however its call is
retried; a sealed state opens once; a task has one outcome and its waiters get it; a
grant that works is not thrown away.

## Modules

Every step of a module is a run of code between two points at which the Effect
runtime may switch fibers or deliver an interruption. `Effect.sync`, operations on
a `Ref` and plain JavaScript are atomic; a section under a semaphore is one step
where nothing observable can happen inside it, several where it can suspend.

**ServerDispatcher** is `makeServerDispatcher`. An *owner* is one incarnation
of a request (the `ServerOwner` object); two owners may carry one id. `active`
is the hash map, `accepting` the progress of `accept`, `fiber` that of the
forked `runRequest`, `gate` the owner's permit, `notifier` one notification
under way, `canceller` one `cancelRequest`, `failures` the bounded queue.
**RequestLifecycle** is what this promises a peer without fibers, permits and
queues: who holds an id, and what a request may still say. `ServerDispatcher`
implements it under the mapping at the end of the module
(`ImplementsLifecycle`). **ServerDispatcherProofs** holds the proofs.

**ClientDispatcher** is `makeClientDispatcher`: calls, the routing loop
(`inbound`), the owner's bounded queue, final events offered by forked fibers
(`pending`), the `sent` flag and the abandonment it arms. The offers are forked into the
dispatcher's scope: while it closes (`CloseScope`) it interrupts those that wait for room
(`InterruptOffer`), then the inbound loop (`StopLoop`), and what is forked from then on
never starts, the final events of the finalizer's own `close` among it.

**StdioSubscriptions** composes the stdio server's `run`, the registry's
`openSubscription`, `exposeNotification` and `closeSubscriptions`, and
publishing fibers around one stdout. A publish iterates a copy of the registry
(`todo`), so it can write to a sink that has been closed since, as the code does. The
scope's finalizers are steps of their own, with the inbound loop beside them until the
last: `BeginClose` interrupts the listen fibers, `CloseSinks` runs the closers,
`CloseDispatcher` empties the dispatcher's table, `CloseWriter` closes the writer and
`StopRun` interrupts the fiber of `run` that `layer` forked. A listen accepted meanwhile
has no fiber (`"orphaned"`), yet its sink is registered (`late`).

**ClientSubscription** is `openSubscription` of the client: gate sections as
single steps, reads outside the gate as steps of their own, the owner fiber,
closers, the opener's wait, the output queue with its reserved slot.
**ClientSubscriptionProofs** proves its safety properties.

**SseResponse** is `dispatchSseRequest`: senders under the one-permit lock, each
at one of the points `encoding`, `slot`, `offer`, `ending`, `breaking`; frame
slots; the queue of `maxPendingFrames + 1`; the pull-driven body; the finalizers
of the response scope in their order. It covers both uses of a response: an
ordinary request, whose fibers the closing scope interrupts and joins, and a
subscription, whose senders are publishers nobody joins.
**ResponseStream** is what this promises the client without senders, locks and slots:
one stream, given in order and without a gap, possibly cut short, and a completion that
is confirmed only behind its delivery; `SseResponse` implements it (`ImplementsStream`).

**ServerRegistry** is one collection of the server: `commitRegistryChange` in its
four steps (drop the cursors, bump the revision, mutate, announce) and the memory
cursor store. `data` counts changes, `view` those that changed the names: a cursor
is checked against the names and the revision. **ClientCache** extends it with the
pages: `paginate`, which reads the collection before it waits for the cursor store,
`handleNotification` (bump the epoch, invalidate, dispatch), `sendRequest`'s lookups
and stores, and the memory cache with its LRU order. A cursor is named by the call
that brought it, so a call can continue from a page it found in the cache.

**McpTasks** is the task runtime: each call of `start`, `cancel` and `result`, the
detached fiber of each task, and a client paging through `list`. The two halves of a
transition, the status and then (after the notifier) the deferred, are two steps.

**OAuthClient** is `currentGrant`, `acquire` and `respondToChallenge`, one step for
each wait for the store, the network or the user, run by calls that nothing
serialises. A call is a request of the transport (grant, post, one challenge, post)
or a direct acquisition. Any operation of the store may fail, a refused removal may
have removed the grant all the same, and a saved grant gets a new handle or that of an
earlier grant of the same client and scopes, whose place it then takes (`saves` counts
how often).

**HttpRequest** is a request of the HTTP client: the posts of its main attempt, its
refresh and its retry, what each answer does to the plans the requests share and to
the one the request keeps, and what the consumer gets (`got`). The server is an
action, `Serve`, with all it may answer.

**InputRequired** composes the client's loop (`sendWithMrtr`), the server's handler
and the sealed state between them: `seal`, `open` in its two steps (clock, then
store) and the replay store's `consume`.

**StdioClient** is the end of a stdio client: writes under the permit, whoever first
meets the end, `publishClose` in that fiber, and the scope's finalizers, which end the
child first. A write may fail whether or not the child lives; `told` is whom the
dispatcher's close gets its final event offered to before the scope is gone.

**OrderedMaps** is the JavaScript `Map` deleted from while it is walked, `Kept`: the
task table that `cleanupExpired` walks, the subscription registry, the memory cache that
an invalidation walks. It is a recursive function, not an operator, so that it can be
proved about.

**ClientDispatcherProofs**, **SseResponseProofs**, **OAuthClientProofs**,
**HttpRequestProofs** and **InputRequiredProofs** hold the proofs about the modules they
are named for. **OrderedMapProofs** holds those about the three that keep such a `Map`,
`McpTasks`, `StdioSubscriptions` and `ClientCache`, over the same lemmas about `Kept`;
it extends all three, which is why the specifications of the last two are called
`StdioSpec` and `CacheSpec`. `MCClientDispatcher`, `MCStdioSubscriptions` and
`MCClientCache` add symmetry for TLC.

## Runs

| Run | Shows | Bounds, and why they are enough |
|---|---|---|
| `ServerDispatcher` | `IdHeldWhileWorking`, `ImplementsLifecycle`; under fairness `IdEventuallyFreed`, `FailuresAreSupervised`, `CloseFinishes` | Two owners always contending for one id, a failure queue of one, one notification each: reuse of an id, a queue filled by the other owner. Distinct ids do not interact except through the failure queue; the safety properties are proved for any sets. |
| `ClientDispatcher` | `EndsExactlyOnce`, `StreamIsWhole`, `NobodyIsStuck` | Two calls, ordinary or subscriptions, contending for one id, a queue of one and three frames: overflow, a late final event, one the closing scope loses, and a call that takes over an id all occur. Calls under distinct ids share only the inbound loop. |
| `StdioSubscriptions` | `SinksAreOwned`, `AcknowledgedThenCompleted` | Three listens over two ids (listen, cancel, listen again), two publishers, two changes; a listen falls between any two finalizers. |
| `SubscriptionAck` | violates `AcknowledgementIsFirst` | One subscription, one change. |
| `ClientSubscription` | `EndsAsItClosed`, `NothingSkipped`, `TerminalIsKept`; `CloseReturns`, `EndReaches` | Two closers, a limit of two (16 in the code), six frames: an acknowledgement, an overflow and a terminal with frames to spare. |
| `SseResponse` | `SlotsAddUp`, `CompletionIsDelivered`; `ImplementsStream`, `CloseUnblocks`, `AnswerEndsStream` | Three notifiers for two slots, so one always waits for a slot with the lock and another for the lock. |
| `ClientCache` | `StaleIsExplained`, `HitsAreCurrent`, `PagesAgree` | Three calls: one brings the first page, one may find it in the cache, one continues from either, or two race for one page. A cache of one page, so that entries are evicted. One change: two pages disagree across a single mutation, an entry is stale because of a single change. |
| `McpTasks` | `ResultMatchesStatus`, `CancelIsFinal`, `PagingSkipsOnlyRemoved`; `WaitersAreAnswered` | Two tasks, one with a time to live, pages of one: a removal in front of the offset. One cancel and one waiter, on either task; tasks interact only through the list. |
| `OAuthClient` | `WorkingGrantsAreKept`, `SpentGrantIsLeaving`, `DanglingIsLate` | Two overlapping calls of any kind, each of which may find, refresh, remove and acquire: every race of two calls for a grant. One grant expires or is revoked (`Trouble`), and another once a saved one has taken its place. The theorems have no such bounds. |
| `HttpRequest` | `RunsAtMostOnce`, `CatalogIsWhole`, `MismatchIsExplained`, `OneTerminal` | Two requests, calls or listings, and a schema that changes once before or after each of their posts. The retry budgets are the code's. |
| `InputRequired` | `OpenedOnce`, `RefusalsAreTrue`, `ReplayIsAnothers`; `CallsEnd` | Two calls, two principals, three tokens, a store of one or two entries, one round, one handler at a time: a store that is full, a token carried twice. A clock of two instants that may jump either way and a lifetime of one: every token may be fresh, expired or from the future. |
| `StdioClient` | `ClosesIfWritesReturn`, `ScopeCloses` | Two requests, each with its cancellation notice: four writes for one permit. |

Deadlock is not checked: the owners, frames and changes of a configuration run
out, and a server without requests rightly does nothing. Where that would hide
somebody waiting for ever, a liveness property or `NobodyIsStuck` says who may not.

Fairness is weak and only of what the runtime or a timer drives: a runnable
fiber runs, a write settles one way or the other, a forked fiber starts, an
interrupted fiber unwinds, a completion gives up after its second. In
`ServerDispatcher` a reader of the failure queue that is still there takes what is in
it: the run of the stdio server takes one failure and fails, it may be over at any
time, and the HTTP server has none, so no other property rests on it. Nothing is
assumed of the peer, of a handler of the dispatcher (which need not return: a listen
never does), of a caller or of whoever could close a scope. A stream need not be
read either, except where a property says so: `AnswerEndsStream` and `EndReaches`
assume a reader who reads on in their own formulas. `CloseReturns` and
`CloseUnblocks` hold without a reader; of the body in `SseResponse` only a read
that is under way has to return. In `ClientDispatcher` a call's own steps cannot
repeat, so `NobodyIsStuck`, an invariant, is enough: whoever has not ended has a step
of the runtime to take, waits for the peer or the reader, or outlives the scope that was
to tell it its end.
In `McpTasks` the work of a task and the notifier return; in `InputRequired` a
handler answers and the server answers a call, `Lose` standing for one that does not.
In `StdioClient` a child need neither read, nor answer, nor heed `SIGTERM`; a write may
fail at any time and does fail once the child is dead, and `SIGKILL` ends it. That writes return is assumed only in
the formula of `ClosesIfWritesReturn`; the scope closes without it.

## What the runs show of the code

`SubscriptionAck`: the stdio server puts the sink in the registry before it
writes the acknowledgement. A change published in between reaches stdout
first, against the schema's rule, and the SDK's own client then fails the
subscription. The HTTP server holds its lock over both (`ImplementsStream`
holds).

Other windows are named in the properties, as the exceptions without which TLC
finds them violated:

- *Forgotten waiters* (`WaitersAreAnswered`): `result` waits for ever if the task's
  time to live ended before its work did, if the call that started or cancelled it
  was interrupted on the way, or if the application made the terminal
  transition itself, which writes no result (`McpTasks.ts:145`).
- *A late write* (`StaleIsExplained`): the recheck after a cache write runs in the
  caller's interruptible fiber; interrupted there, a page older than an announced
  change stays until its time to live ends.
- *A delayed get* (`HitsAreCurrent`): a call that starts between the bump of the
  epoch and the invalidation passes its own epoch check and returns the old page after
  the change was announced.
- *A cursor of the window* (`PagesAgree`): a first page read between the bump of the
  revision and the mutation is old data under the new revision, so its cursor is
  accepted after an entry was replaced by one of the same name.
- *A dangling handle* (`DanglingIsLate`): a call that read a grant before another
  removed it remembers its handle afterwards; `currentGrant` then fails until an
  acquisition remembers another. (`.superpowers/sdd/task-6-preflight.md:547` asks that
  "invalid-token removal must clear the remembered handle".)
- *A spent grant* (`SpentGrantIsLeaving`): a refresh that is interrupted after it took
  the token leaves the grant in the store, and so does one whose removal the store
  refuses, since `runtime.ts:347` swallows that failure. The next call presents the
  token again.
- *A working grant removed* (`WorkingGrantsAreKept`): a call that cannot read back the
  grant it has just saved removes it, although only the store failed
  (`runtime.ts:539`); and with a store that puts a refreshed grant in the place of the
  old one, a refresh that fails removes what another has saved under the same handle
  (`runtime.ts:341`, `347`).
- *A closed client whose child lives* (`ClosesIfWritesReturn`): `publishClose` waits
  for the writer's permit and runs in a caller's fiber. While one write is stuck, or
  once that caller, whose write failed beside a live child, is interrupted, the child is not ended and a request that waits for
  the permit is not failed until the scope closes (`test/stdio/wp4-stdio.test.mjs:289`
  expects that noise on stdout "fails every active request").
- *A mismatch after the tool ran* (`RunsAtMostOnce`): if the answer to the retry is
  lost or an error, the caller is shown the header mismatch of the first attempt.
- *A token opened twice* (`OpenedOnce`): `open` reads the clock and consumes later;
  another opening past the token's expiry prunes the entry in between.
- *A failed run that still writes* (`AcknowledgedThenCompleted` asks only that it
  completes nothing): after `run` has failed, its sinks stay registered and its writer
  open until the scope closes, so a publish still writes, against the comment at
  `StdioServerTransport.ts:319`. A run of `StdioSubscriptions` that shows it: accept a
  listen, open its subscription, begin a publish, fail `run`, send the note.
- *A sink left behind* (`SinksAreOwned`): the closers run before the writer closes and
  before the fiber of `run` is interrupted. A listen accepted in between registers a sink
  that nobody removes, and takes its id over from the sink of another such listen.
- *A stream that outlives its scope* (`NobodyIsStuck`, `ClosesIfWritesReturn`): final
  events are offered by fibers forked into the dispatcher's scope
  (`McpDispatcher.ts:168`). One that waits for room is interrupted when the scope closes,
  and the finalizer's `close` (499) forks into a scope that starts no fibers: a stream
  that is still read then waits for ever.
- A call interrupted while its send is under way may have reached the peer, yet
  `notifications/cancelled` is not sent (`EndsExactlyOnce` allows it;
  `docs/feature-coverage.md:23`).
- The client's loop sends the answers of the last round only, where
  `McpClient.ts:1532` speaks of accumulated `inputResponses`; the answers themselves
  are not modelled.

## Proofs

Eight modules of proofs cover eleven components, all that a run checks but the violation
run. In each of them `Invariance` is the theorem that an inductive invariant `Inv` holds of every
behaviour, and the other theorems follow from it; every `Inv` was checked by TLC on a
small instance before it was proved. (`OrderedMapProofs` has three of each: `Inv`,
`StdioInv` and `CacheInv`; `ClientDispatcherProofs` two: `Inv` and `StdioInv`.) What a theorem adds to its run is generality: any number of
fibers, calls, tasks, frames, tokens, slots.

| Module | Theorem: property | What makes it inductive |
|---|---|---|
| `ServerDispatcherProofs` | `IdHeld`: `IdHeldWhileWorking`; `AnsweredOrCancelled`, `Silence`, `NotifiesUnderItsId`; `Refinement`: `ImplementsLifecycle`; `NobodyStuck` | who holds the permit, how far `accept` has got, what the table and an entry's phase say of an owner |
| `ClientSubscriptionProofs` | `EndsAsItClosed`, `NothingSkipped`, `TerminalIsKept`; `OpeningSettled`, `FirstClosureWins`; `NobodyStuck`, `WorkEnds` | what the owner fiber still knows of a state it read outside the gate |
| `ClientDispatcherProofs` | `EndsExactlyOnce`, `StreamIsWhole`; `OutcomeIsFinal`, `NobodyStuck`, `RunningEnds` | what the inbound loop still knows of the frame in its hands |
| ... of `StdioClient` | `ScopeNotStuck`, `CloseNotStuck`, `NoWriteBegins` | past `terminateChild` the child is dead or killed; who publishes the close |
| `SseResponseProofs` | `SlotsAddUp`, `WellFormed`, `CompletionIsDelivered`; `Refinement`: `ImplementsStream`; `ClosingGoesOn`, `AnswerGoesOn`, `ResponseRunsOut` | whoever still has to put something in the queue was let in before the stream ended and has kept the lock |
| `OrderedMapProofs` of `McpTasks` | `ResultMatchesStatus`, `CancelIsFinal`, `PagingSkipsOnlyRemoved`; `TerminalIsFinal`, `ResultIsFinal`; `WaitersAreNotStuck` | what a fiber about to report has done; the order of the list against the cursor |
| ... of `StdioSubscriptions` | `SinksAreOwned`, `AcknowledgedThenCompleted` | what the loop knows of the listen in its hands; the registry against what the wire has |
| ... of `ClientCache` | `StaleIsExplained`, `PagesAgree`, `HitsAreCurrent` | how new what a call holds is, as long as its epoch has not moved; the page a page continues |
| `OAuthClientProofs` | `WorkingGrantsAreKept`, `SpentGrantIsLeaving`, `DanglingIsLate` | what a call knows of a grant stays true while others change the store |
| `HttpRequestProofs` | `RunsAtMostOnce`, `CatalogIsWhole`, `MismatchIsExplained`, `OneTerminal` | the posts and retries a request may still make, and the plan its retry carries |
| `InputRequiredProofs` | `OpenedOnce`, `RefusalsAreTrue`, `ReplayIsAnothers`; `HandlersGoOn`, `CallsRunOut` | which send of a token it was opened for |

For each component `TypeOK` is proved too (`TypeCorrect`, `StdioTypeCorrect`,
`CacheTypeCorrect`; for `StdioClient` it is a conjunct of `StdioInv`). The assumptions are the named ones of
the modules: a stand-in like `NoOwner` or `Nobody` is none of the things it stands in
for, capacities and page sizes are positive, bounds and counters of the environment are
natural numbers.

*ServerDispatcher.* `IdHeldWhileWorking` says nothing of the permit, yet it depends on
a canceller not getting hold of an entry whose terminal is being written. The invariant
therefore adds who holds the permit, read off the processes that take it (`GateInv`),
how far `accept` has got (`AcceptInv`), that entries are filed under their owner's id
and that the table stays empty after the close (`TableInv`), what the phase of an entry
says of its owner (`PhaseInv`), and why no frame is in flight after an end
(`FrameInv`). `CancellationOrTerminal`, `NothingAfterTheEnd` and `NotificationNeedsId`
are in no run: the first two follow from the refinement, in which initial states map to
initial states and every step to a step or a stutter. `NobodyStuck` is the safety half of
the three liveness properties: no canceller, no fiber past its handler and no draining
close waits for what cannot come. One kind of fiber may wait for ever, one that reports
a failed write to a full queue whose reader is gone; it holds no id, and nobody waits
for it until the scope closes and interrupts it.

*ClientSubscription.* A failure the owner is about to claim while the terminal is
pending can only be a frame after the terminal, and a graceful end it is about to settle
was read from a pending terminal (`OwnerInv`). A closer interrupts the owner only after
it has settled (`CloserInv`; otherwise an interrupted owner could drop a notification of
a live subscription). What is delivered equals what was dispatched but for the
notification in the owner's hands (`QueueInv`). A settlement is described once
(`SettleEffect`, `SettleQueue`), and every action that settles reduces to it.
`NobodyStuck` says where all this may come to rest: no close is under way, the owner
waits for the transport or has ended with the subscription, and no call waits for the
opening of one that is over; a closer that joins has interrupted the owner (`JoinInv`).
`WorkEnds` says that it comes there: every step lowers the work of the owner or of one
closer.

*ClientDispatcher.* An owner is in the table from its registration to its outcome
(`TableInv`); only the loop ends a request with a response or as failed, so the frame in
its hands is for a request with neither (`LoopInv`); and the events of a subscription,
emitted, queued and in the loop's hands, are one acknowledgement, then notifications, up
to the first final event (`AckInv`). That a lost notification fails its stream
(`LostInv`) is what makes a stream whole. `NobodyStuck` is `NobodyIsStuck` with the
guards of the steps for `ENABLED`: a stream whose request has ended and that has nothing
queued has its final event with a forked fiber, and an empty queue has room for it, unless
the scope is closing and may have lost it. A loop that was stopped has nothing in its
hands (`LoopInv`), though it may have been about to fail a request (`LostInv`).
`RunningEnds` gives the other half, that what goes on by itself ends: each such step
lowers a natural number (`Weight`) of one request and leaves those of the others.

*StdioClient.* Its properties are liveness; their safety halves are proved at the end of
`ClientDispatcherProofs`, over an instance, since this client is the dispatcher's user.
Whoever is past `terminateChild` has left the child dead or killed (`StageInv`), and the
close is published by its closer or not at all (`CloserInv`). A closing scope is never
stuck (`ScopeNotStuck`) and no write begins once it has asked the child to end
(`NoWriteBegins`); a call that waits behind the end of the dispatcher is held up only by a
write that a live child does not read, or for ever if the scope closed before its final
event was offered, and the child outlives the closer only if that was interrupted
(`CloseNotStuck`). While the scope is open a closed dispatcher has told every call that
was made (`ToldInv`).

*SseResponse.* The slots taken equal the frames queued, plus the one in the hands of
the sender about to offer (`SumInv`); with the lock there is one such sender at most,
which is why the end of the stream always finds room. `StreamInv` says why nothing
follows an end: a sender that is encoding, waiting for a slot, offering or breaking the
stream came in while the response was open and holds the lock since, so the stream
consists of frames; one that offers the end has put the terminal before it. Hence
`WellFormed`, which is in no run: of what a reader is given `ImplementsStream` says the
same. A reader that cancels and a queue that is shut down drop items, and `Thinner`
shows that dropping keeps a stream well formed. `AckInv` follows the opener from the
registration, before which nobody else can send, to the acknowledgement. `Refinement`
maps what is queued or in the reader's hands to what `ResponseStream` has in flight, and
each step to `Send`, `Give`, `Cut`, `Confirm` or a stutter. It needs that the end is
offered only behind the terminal, or behind a cut (`TerminalInv`), and that what the
reader is given next is the head of what is in flight (`GivenNext`). The safety halves
of the two liveness properties are theorems: once the scope closes (`ClosingGoesOn`), or
once an ordinary request answers (`AnswerGoesOn`), either all is over or a step that
`FairSpec` is fair to has its guard true, and for the answer it may be the reader's
turn. They need that released slots stay free for the one sender left (`RoomInv`) and
that an ordinary response which is not open has its end in the stream or in somebody's
hands (`EndInv`). `ResponseRunsOut` bounds all of it: every step lowers what the body
and one sender have left to do.

*McpTasks.* A fiber that reports has given the task the status it reports, and nobody
has changed it since (`StatusInv`). Paging is the hard part: what a client has seen is in
front of its cursor, what it found with its first page is in front of all later entries,
and while none of that is removed the entries in front of the cursor have been seen
(`InOrder`). `cleanupExpired` keeps a subsequence (`KeptEmbeds`) and a start appends.
For the waiters (`WaitersAreNotStuck`) the proof keeps who ended a task: a fiber or a
cancel that did and has not settled the result is on its way to it, unless it was
interrupted, and a fiber that is over ended its task or found it ended or gone
(`SettlerInv`).

*StdioSubscriptions.* A request in the loop's hands is new to the wire, and while it
registers no sink in the registry has its id, as long as the scope is open (`ListenInv`);
hence the sink the loop adds is the only one its closer removes. A listen served while
the scope closes breaks this for its own id, and is marked for it. As long as the run goes
on, a sink in the registry is acknowledged or is the one the loop is about to acknowledge
(`AckedInv`), and only the end of the input completes anything, what it found acknowledged
and not completed (`CompletedInv`), before `run` can be over or interrupted. Publishers may hold a sink that has left the registry: they write
changes, never a completion.

*ClientCache.* Every entry in the cache is the one its storer still has in hand
(`Wrote`), so what is proved of calls holds of entries. A page continues one that is
settled, was read no earlier, and agrees with it in the names and, unless that one was
read between a bump and its mutation, in the data (`After`, `Agrees`): this is what the
revision in a cursor is for, and it rests on the revision being the changes made plus
those between their bump and their mutation (`ServerInv`). Epochs only grow
(`EpochInv`), and a call whose epoch has not moved holds data as new as what the
application was told and as the change the handler has in its hands (`FreshInv`); a call
past its recheck, or interrupted before it, is the late writer `StaleIsExplained` names.

*OAuthClient.* Calls are not serialised, so what a call holds may be stale. The
proof rests on the one thing overlapping calls cannot undo: what happened to a grant
stays, unless the store puts another in its place, and that is counted (`Later`). What a
call has found wanting therefore is so, or has been replaced since (`Judged`). A call
that goes to refresh or to remove a grant has judged it, or saved it itself (`AtInv`),
and this survives any step of any other call (`CallInvKept`, `CallsKept`). A taken token
is traced from step to step of its call to the removal, or to the mark that interruption
and refusal leave (`LeavingKept`).

*HttpRequest.* A request's attempts and retries add up to a budget of posts
(`PostsInv`); once the tool has run nothing more is posted (`RunsInv`); a retry carries
the plan its own refresh listed, so a server that refuses this one has changed the tool
since (`PlanInv`); and what has been shown is nothing until the end is near (`GotInv`).

*InputRequired.* That a token was opened is not enough to explain a replay: the proof
keeps for which send (call and number) it was opened, one that no longer waits for it
(`OpenerInv`). A send that still waits and finds the token opened is thus another one.
Every opened token is in the store or lapsed (`StoreInv`), and no call has sent the token
it was just given (`CarriedInv`). That calls end is split as above: a call that asks its
application can start a handler, has one running, or all answers and a round left
(`HandlersGoOn`, from `LoopInv`), and each step lowers what is left of a round, or begins
one of `MaxRounds` (`CallsRunOut`).

A fact about all prefixes of a list, such as what the loop of `cleanupExpired` keeps, is
proved from a least counterexample (`LeastNat`), since an induction theorem with an
operator for its parameter cannot be used here.

Only model-checked: liveness, and `NobodyIsStuck` as it is written, since TLAPS proves
nothing about fairness and `ENABLED` here. What is proved towards them is above. The rest
of an argument from `ClosingGoesOn` and `ResponseRunsOut` to `CloseUnblocks` is the rule
for weak fairness, with finitely many senders. The conditions on recursion are why
`Kept` is a recursive function and why `SseResponse` counts frames (`FramesIn`) with a
set.

## Assumptions and abstractions

- The Effect library is outside the repository. Fibers interleave between any two
  effects; semaphores exclude but are not assumed to be fair; queues suspend
  offers when full and refuse them when shut down; `Effect.ensuring` covers a
  fiber from its fork; finalizers run in reverse order, one by one, the interruption of
  a forked fiber in the place of its fork; a fiber forked into a scope that is closing
  never starts.
- `accept` is called while the dispatcher's scope is open, and not interrupted
  between forking a request and publishing its fiber.
- A handler that interrupts itself may leave one notification in flight;
  `NotificationNeedsId` names that exception.
- `ClientDispatcher`: frames are routed one at a time, as its only user, the
  stdio client, does, by a fiber of the same scope; the end of a stream removes the owner and shuts its queue
  down in one step.
- `StdioSubscriptions`: the writer serialises whole lines, so a write is one
  step; every change matches every filter; `run` is forked into the scope it is given,
  as `layer` does, so that it is interrupted last.
- `ClientSubscription`: frames are what `processFrame` makes of them (valid or
  not); a notification handler does not close its own subscription (its fiber would
  join itself); the finish handlers of an interrupted owner do not run.
- `SseResponse`: one item at a time is in the reader's hands
  (`highWaterMark: 0`); encoding fails at any time; the completion's timeout is
  only taken by a fiber that is stuck. An interrupted opening is taken to close the
  response's scope; the code does so in a `catchCause`
  (`StreamableHttpServerTransport.ts:1100`), which an interruption of its own fiber need
  not reach, and then the scope is left to its owner.
- `ClientCache`: one list of one or two pages, one epoch, one feed of notifications
  handled one after the other; cache and cursor-store operations are atomic, with time
  around them; expiry and corruption may be found at any lookup; public and private
  entries are one. Collections change only through `commitRegistryChange`: a bare
  `publish` would bump a revision without a change.
- `McpTasks`: the application's `transition` is not interrupted in its notifier, since
  nothing follows it.
- `OAuthClient`: the stores and the authorization server are outside the repository. A
  store operation is atomic, may answer late and may fail; of the mutating ones only a
  removal may fail and have taken effect. The server may spend a refresh token and lose
  the answer. One issuer, one resource, dynamic registration, scope sets
  as levels.
- `HttpRequest`: a server refuses headers before it runs the tool; an answer is lost at
  any time; the grants are `OAuthClient`'s.
- `InputRequired`: a token opens only for the principal and purpose it was sealed for;
  the server does not itself keep state between rounds.
- `StdioClient`: a write returns when the child has read it or died, or when it fails
  beside a live child.

## Not modelled

Encoding, schemas, HTTP metadata, stdio and SSE framing and the generated protocol are
pure and carry no state. The buffered JSON answer of the HTTP server is a single
deferred; its preflight is a sequence of checks. Progress tokens, the sliding
notification queue, preregistered OAuth clients and a replayed callback are left out.
Two hazards are known and outside these models: a publisher interrupted after its
response was marked Closed and before the failure is offered
(`StreamableHttpServerTransport.ts:945`), and an `accept` interrupted between forking
a request and publishing its fiber (`McpDispatcher.ts:754`).

The models cover the code that keeps state across suspensions. Most of the
repository's lines are elsewhere: generated schemas, validation, scripts and evidence.

## Plan

All components with state of their own are modelled but for the parts named above, and
every invariant and every action property a run checks is proved, `NobodyIsStuck` with
guards for `ENABLED`. The liveness properties have their safety halves proved, and where
steps could go on for ever, that they run out. Two components have an abstract
specification that they are proved to implement. What is left to TLC is liveness itself,
which the provers do not reach.
