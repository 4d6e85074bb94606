# TLA+ models of the browser

This directory holds TLA+ modules that model parts of this browser, the TLC
configurations that check them on small instances, and theorems that TLAPS
proves about them for every value of their constants. `src/src/` is the source
of the repository: Zig, and under `src/src/rust` the Rust libraries it calls;
line numbers below refer to these files.

    tlc -workers 2 -config HttpClient_delivery.cfg MC_HttpClient.tla
    tlapm HttpClientProofs.tla

## 1. Inventory

The program is a headless browser. One process has a *server loop* thread and
one *worker* thread per client session; every worker owns a V8 isolate, a
browser and an HTTP client, and runs its own event loop. `PROJECT.json` lists
every component with its sources and its status; the ones that carry the
program's own logic are:

| Component | State it keeps | Operations | Talks to | What is hard |
|---|---|---|---|---|
| HTTP client (`network/HttpClient.zig`) | transfers and their state, five intrusive queues, the multi handle, the connections in use, the blocking request of each owner | `request`, `submitSync`, `tick`, the `pipeline` stages, `deliver`, `abort`, `kill`, `cancelRequests`, `abortOwner` | consumers by callbacks, which run JavaScript; gates; pool; limiter; CDP | re-entrancy: each callback may start, cancel or tear down any transfer, and may pump the client again from inside |
| Single flight (`network/SingleFlight.zig`), `RobotsGate`, `CorsGate` | one entry per robots.txt URL or preflight key, with its waiters | `enter`, `remove`, `take`, `flushPending` | an internal transfer of the client, whose callbacks flush the waiters | waiters and leaders that die in flight; a flush that runs scripts |
| Interception (`server/cdp/domains/fetch.zig`) | transfers held for the CDP client | `requestPaused`, `continueRequest`, `fulfillRequest`, `failRequest`, `continueWithAuth`, teardown | `unpark` of the client, from inside a tick | late, doubled and malformed answers; teardown with requests held |
| Rate limiter (`network/RateLimiter.zig`) | next slot (TAT) per host, sweep threshold | `reserve`, `sweep` | the throttle stage of every worker, under a mutex | several threads, a clock read before the lock, a bounded map |
| Runner (`browser/Runner.zig`) and module imports (`ScriptManagerBase.zig`) | the loop of a worker, nested waits | `_tick`, `waitForImport` | `Client.tick`, `drainInbox` | nested loops |
| Server (`server/Server.zig`) | worker slots, worker queue, HTTP connections, links, session table, idle list | `accept`, `processWebSocketEvent`, `attachWorker`, `releaseLink`, `releaseWorker`, `quitSession`, `reapSessions`, `beginShutdown` | workers: inboxes in one direction, a queue and an event to block on in the other | real threads: a link that drops before its worker attached, a worker that ends first, shutdown in between |
| Inbox, Link, Driver, Watchdog | message queue; socket of a worker; terminate flag; heartbeat | `push`, `popIf`, `send`, `shutdown`, `tick`, `run` | loop and worker threads | flags and messages observed in either order |
| Parser bindings (`rust/html5ever`, `browser/parser/Parser.zig`) and `document.write` (`webapi/Document.zig`) | the tree; the pending text run and the terminate poll of each parser; the script-created parser with what is queued for it | the tree callbacks, `Streaming.read` and `done`, `write`, `open`, `close`, and what follows a parse: deferred scripts, `documentIsLoaded`, `documentIsComplete` | html5ever calls the tree back, the tree runs scripts, scripts write | one call stack on which a parser may be entered, finished or dropped while it runs; the watchdog may terminate at any moment |
| URL and URLSearchParams (`rust/html5ever/url.rs`, `webapi/URL.zig`) | a box of the Rust library per URL, and a list that mirrors its query | parse, join with a workaround, setters, `updateFromString`, `postUpdate`, `deinit` | scripts, the collector, `Frame` for hrefs | two copies of a query; setters that apply half of their input; ownership across the language border |
| Text decoding (`rust/html5ever/lib.rs`, `webapi/encoding/TextDecoder.zig`) | a decoder box while a stream is open | `decode` with and without `stream`, errors, `deinit` | scripts, the collector | a stream cut inside a character; who frees the box |
| Page renderer (`rust/render/lib.rs`, `screenshot.zig`, `pdf.zig`) | the renderer and its glyph cache, kept between calls | `lp_render_png`, `lp_layout_new`, pagination | a writer that may refuse; panics caught at the border | a truncated file reported as complete; clips and size limits; flat arrays of indices |
| Notification, EventManager, ScriptManager | listener lists; script queues | register, dispatch, unregister; defer/async/blocking order | scripts | lists changed while they are walked |
| Frame, Page, Session | frames, navigation, history | navigate, stop, close | HTTP client's owners, ScriptManager | navigation during teardown |
| Pools (`ArenaPool.zig`, `slab.zig`) | free lists with limits | acquire, release | everything | limits, reuse |

What makes them correct:

* HTTP client: a transfer is in exactly the queue its state says, is retired
  once, calls its consumer back at most once and never after its owner died;
  a connection goes back to the pool on every path; a blocking request always
  returns, and never lets a script run on its own stack; no assertion fails.
* Gates: nobody waits on a gate that nobody will open, and nobody is continued
  twice.
* Interception: a request that is parked for the client can be answered, and
  an answer that comes too late finds nothing.
* Rate limiter: the slots given for one host conform to interval and burst,
  are the earliest that do, and the map stays small; a worker never sleeps
  past a due navigation.
* Parser: html5ever is never entered while it runs nor after it was given up,
  every token written is parsed once and in the order of the markup, a script
  sees complete text before it, a terminate is noticed in bounded work, and a
  close that was asked for happens.
* URL, TextDecoder: every box has one owner and one free, the query and its
  view agree, a setter applies all or nothing, a stream decodes as its whole.
* Renderer: success means a complete file, a clip is shown where it lies,
  nothing on the raster is missing or from the cache of another glyph, and the
  exported arrays and pages hold the document, each line once.
* Server: a slot is freed exactly once and only after its worker is gone, a
  message is never pushed into a freed inbox, every session that is asked to
  end ends, and shutdown terminates.

The interesting hazards, each with the line where it bites and the properties
that watch it, are the `hazards` of `PROJECT.json`.

## 2. Plan

Done, in this order:

1. `RequestLifecycle`: what the client promises the consumer of a request.
2. `HttpClient`: client, gates, interception, pool and nested waits in one
   module, because their interplay on one call stack is the difficulty.
3. `HttpClientProofs`: types, the shape of the stack, the owners' lists.
   `HttpClientPlaceProofs` and `HttpClientStepProofs`: where every transfer is
   at every moment, and from it all of the client's safety, the implementation
   of `RequestLifecycle` included.
4. `NavThrottle`: the limiter that all workers share, each worker's delayed
   queue. `NavThrottleProofs`: types, bounded map, the rate itself, exact
   slots, the delayed queues.
5. `ServerLoop`: the loop, the worker threads and all they share.
   `ServerLoopProofs`: all of its safety, for any number of slots, sockets and
   sessions.
6. `PageLayout` and `Render`: layout, export and pagination as operators, the
   calls of the renderer as steps around them. `RenderProofs`: success means a
   complete file, the clip asked for is shown, every glyph is drawn as itself,
   a print holds the document and its pages hold the print.
7. `UrlRecord` and `FfiObjects`: the URL operations as operators, the objects
   that own memory of the Rust library. `FfiObjectsProofs`: one owner
   per box, the URL and its view in sync, a harmless workaround, an atomic host
   setter, streams decoded whole.
8. `HtmlParser`: parsing with scripts, `document.write`, load events.
   `HtmlParserProofs`: a terminate is noticed, html5ever is never re-entered,
   streams are parsed once, scripts find the text before them.

Next:

9. An abstract specification of a slot (free, starting, serving, leaving; the
   loop alone frees it) that `ServerLoop` implements, a step lemma over
   `SlotsExact`.
10. `WatchdogModel`: heartbeat and wait depth of a worker against the checker
    (a worker that waits is never terminated, a stuck one is, once).
11. `NotificationModel` and `EventDispatch`: listener lists changed during a
    walk.
12. `ScriptOrder`: external deferred, async and parser-blocking scripts beside
    the inline ones of `HtmlParser`, implementing document order.
13. Pure modules: robots.txt rule precedence, cache freshness, the encoding
    prescan.

Further proofs: `WriteOrder` of `HtmlParser`, the abstract slot of item 9.

## 3. Modules

### RequestLifecycle

A request is idle, open, answered or gone; it borrows and gives back
connections, never more than there are, and only while open. `SafeSpec` is the
safety part; `Spec` adds that each open request is answered or retired and each
answered one retired. Event streams (`Endless`) are exempt from the latter.

### HttpClient

One worker thread. There is no preemption, so the model's grain is the
function call: the variable `stack` holds the frames of the functions that are
running, top first, and an action is the straight-line code of the top frame
between two calls that may run someone else's code. Frames and their code:

| Frame | Code |
|---|---|
| `js` | a script, run by a task of the runner or by a callback; it may request, request synchronously, import a module, cancel, stop loading, kill an owner, or return |
| `tick` | `Client._tick` (747) as the list of its steps `TickOrder`; `how` tells the mode, `all` or `sync_wait` |
| `pipe` | `Client.pipeline` (1016), one stage per step; `pc` tells who called it, because the callers differ in how they clean up |
| `deliver`, `finish` | `Transfer.deliver` (3828), `finishDelivery` (3950) |
| `abort` | `Transfer.abort` (2629) around its error callback, with the state it will restore |
| `sync`, `import` | `submitSync` (2466), `waitForImport` of `ScriptManagerBase` |
| `flush` | `flushPending` of a gate, with the waiters still to resume |
| `kill`, `stop`, `release` | the loops of `Client.abortRequests`/`Client.abort`, `cancelRequests`, `releaseBlocking` |

The state of a transfer is `Transfer.State` (2340), plus `retired` for
`_retired`. Queues are sequences; `conns` and `free` are the multi handle and
the pool; `open`, `waiters`, `fetchOf` the single flights with the internal
request that will resolve each; `verdict` the robots store; `held` the
interception table; `mailbox` a teardown message in the inbox; `blocking` the
request each owner is blocked on. Assertions of the code set a member of
`fault` instead of stopping, so that `AssertsHold` names the one that failed.

Names ending in `_bug` are mutated copies of the definition after them; no
specification uses them.

Abstracted: URLs, headers and bodies (a body is the number of data events, one
per batch); which requests need a preflight or a robots check (constants);
results of DNS, TLS, cache lookups and parsing (nondeterministic success or
failure); the content of scripts (any sequence of calls). An event stream may
never end.

`Hazards` lists the behaviours of a consumer, or of libcurl, under which the
client does not keep what its comments say. The passing runs exclude them, and
the run `HttpClient_streamAbort` includes one, without which `processOneMessage`
never meets a transfer that was aborted by its own callback (`ProcessAborted`).
Section 6 explains each. A pump under such a callback, and the abort in a pump
that runs already, are part of every run: only the message of libcurl about the
transfer that was aborted is left out.

### NavThrottle

Several workers. `ReadClock` is the throttle stage up to the clock read
(1105), `Reserve` the limiter call under its mutex, with the sweep, and what
the stage does with the slot: start at once or `delay` (980). `StartDelayed` is
`startDelayed` (951), `Cancel` a `deinit` of a delayed transfer, `ReserveFails`
the out-of-memory path. `starts` is a history variable: the slots each host was
given. `PollFor` is `clampToDelayed` (809). `Preempts` tells whether the clock
may move between its read and the reservation.

### ServerLoop

Real threads: the loop and every worker, with a step for each access to what
they share. The loop's `phase` is where `runOnce` (266) is: `events` is the
batch `epoll` returned, with accept, evictions and the reaper; `drain` the
worker queue, swapped at the signal; the end of `drain` is shutdown and the
check that ends `run`. Iterations are cut between shutdown and the evictions
rather than at the wait, which changes no order except that an accept of the
iteration that also sees shutdown is left out: `beginShutdown` would close that
connection at once. The edges of the two eventfds are delivered at the end of a
batch.

A slot has its `occupant`, driver (`attached`), `link`, poll set membership
(`monitored`) and session id (`listed`); the loop alone touches these. `inbox`,
`queue`, the terminate flag `term` and the event a worker blocks on
(`answered`) are shared. `quitSession` and `dropWebSocket` push a message and
then raise the flag: `toStop` is the slot between the two. `pc` of a worker is
its place in `Worker.start`, `run` and the driver's loop: `attachSig`,
`linkSig` and `releaseSig` lie between queueing a request and signalling the
loop (`notifyLoop`, 1337); `waitLink` and `waitRelease` block on the loop;
`pump` drains the inbox in a tick, `script` is JavaScript, which may pump in a
synchronous request, and `terminal` is the drain of a worker told to terminate.
Workers born from a socket are named by it and end with it, the others are
HTTP sessions, to which sockets come and go.

Abstracted: what commands say (a command does nothing, runs a script or ends
the session), frames, HTTP replies, keepalive, the wakeups of a worker's poll,
which last at most a second anyway. A thread that cannot be spawned looks like
an HTTP connection that closes. Memory lasts: when `create` fails the code gives
the slot back without closing the socket (`Server.zig:1289`), which `StartFails`
does not show. `term` remembers why the flag is up, which the
code does not.

### HtmlParser

One thread, and the watchdog that may set the terminate flag at any moment
(`Terminate`). As in `HttpClient` the variable `stack` holds the functions that
are running, here innermost last:

| Frame | Code |
|---|---|
| `js` | a script, a custom element's constructor or reaction, a listener or a timer; it may write, open, close or detach its own element, and returns |
| `parse` | html5ever with the tokens it has left; `of` tells the entry point: the page, a fragment of an inline write, a `feed` or the `finish` of the script-created parser |
| `splice` | the end of an inline write (`Document.write`): the fragment's children go to the insertion point |
| `read`, `written` | `Streaming.read`, which feeds again while scripts queued more, and the end of the write around it, which performs a close that was requested meanwhile |
| `finished` | `finishScriptCreatedParser` after `Streaming.done`: scripts, completion, then the Streaming is dropped |
| `evaluate` | `ScriptManagerBase.evaluate` with `tailHook` |
| `page` | the rest of `frameDoneCallback` |

Markup is a sequence of tokens; a token's name is its position, so that the
names of a container tell whether it reads in the order of the markup. A text
run is `run` and `buf` of its parser (`appendTextChunk`, `flushPendingText`),
the poll of the terminate flag is `left` and `terminated` (`pollTerminate`). `late`
counts appends after a terminate and is read by no action's guard. A panic of
html5ever inside `feed` is a token of its own, since it is caught there
(`catch_unwind`), and kills the Streaming. Left out: attributes, templates,
quirks mode, fragment parsing for `innerHTML`, DOMParser and XML, external
scripts in flight, writes to other frames' documents and the microtask
checkpoint (`maybeCheckpoint`). A text in foster position stands for the two
callbacks that take a sibling.

### PageLayout and Render

`PageLayout` holds the pure work: `Layout` flows blocks into a column (line
breaking by glyph widths stands for parley, and half device pixels keep the
arithmetic whole), `Export` flattens the result into the arrays of the C ABI,
`Paginate` and `PageOf` are those of `pdf.zig`. `Render` is a renderer and its
calls: a call is in a stage (`layout`, `raster`, `draw`, `encode`, `drop`,
`done`) and takes one step per block drawn and per chunk of the file, because a
panic may end it and the writer may refuse at each. The encoder of the `png`
crate is external: header, image data, trailer, and the trailer again from its
`Drop`, which is why `Sink.failed` has to be sticky. `glyphCache` outlives the
calls. Left out: x positions, colours, the font fallback and options that are
not numbers.

### UrlRecord and FfiObjects

`UrlRecord` has the operations on a parsed URL as operators: `RustJoin` (what the
url crate does, a drive-letter lookalike survives `..`), `StdJoin` (what the URL
Standard does), `FixDriveLetterJoin` (the workaround of `url.rs`) and the
setters, which parse their text character by character because that is where
they may stop half-way. `FfiObjects` has the objects: `heap` maps each live box of the
Rust library to its content, the URL, its view of the query and the decoder
name boxes, scripts call the operations in any order and the collector drops
wrappers at any moment. A byte of a decoder is a character, one half of a
two-byte character or a whole byte-order mark: the pieces of a stream may cut a
character, but not a mark. Left out: a mark that is cut; tabs and newlines in the
input of a setter, labels of encodings, `TextEncoder`.

## 4. Runs

| Run | Instance | Shows |
|---|---|---|
| `HttpClient_delivery` | a stream, a synchronous request of a second frame, a module import, one connection, no gate | no assertion fails, nothing works on a retired transfer, callbacks run on stacks they cannot trip over, exact queues and owners' lists, silence after retirement, and the implementation of `RequestLifecycle`'s safety part |
| `HttpClient_intercept` | a request that needs a preflight and robots.txt, with a CDP client that may intercept it and both internal fetches, and may leave; one redirect or authentication | types, with the bound on hops, exact pool, a parked request can be answered |
| `HttpClient_gates` | a throttled navigation and a synchronous request behind one gate, one internal fetch, under fairness; no redirect and no CDP client | nobody waits on a closed gate, every nested wait returns, and the whole of `RequestLifecycle`: every request ends |
| `HttpClient_streamAbort` | a stream and a synchronous request, one hazard | violation, section 6 |
| `NavThrottle_shared` | two workers, two hosts, five navigations, burst 1 or 2, first sweep at one host | all properties of the throttle |
| `NavThrottle_staleClock` | three navigations, clock may move before the lock | violation, section 6 |
| `ServerLoop_pair` | two slots, one socket that is a client, a worker's own link or a session's, one HTTP session, one command per inbox, no watchdog | the loop's books (`Accounts`), assertions, links with one owner, no lost wakeup, and a worker that is asked to stop reads the message that says why before it leaves (`StopExplained`) |
| `ServerLoop_ends` | one slot for both, with the watchdog | workers that are told end, shutdown ends |
| `Render_calls` | seven documents with every kind of block, 33 shots (three pixel ratios, clips in, across and past the page), twelve papers (one narrower than a pixel) | a complete file or an error, clips and limits, everything on the raster is right, arrays and pages hold the document |
| `HtmlParser_scripts` | a page with every kind of token or a blank frame, six texts to write (nothing, plain text, one with a script, one with a custom element and a foster-parented text, one with a module and a panic, one with an unclosed script), three calls, three tasks, a terminate anywhere | all six properties of the parser |
| `HtmlParser_deadParser` | the same | violation, section 6 |
| `FfiObjects_calls` | a URL and a decoder, two views of queries, every sequence of five operations and any collection between them | all properties of the objects |

Bounds and why they are enough. Each instance has the smallest number of
transfers that makes its interaction possible: two nested waits need two
blocking scripts and something for them to disturb; a gate needs a leader, a
waiter and the fetch (the third request adds no new kind of step, as waiters
are resumed one by one). One connection makes every second start wait.
`MaxHops` bounds redirects and authentication retries of a transfer (10 in the
code); one hop is enough to carry state of the first round into the second.
`Fetches` bounds the internal requests alive over a behaviour. In
`NavThrottle`, `LastArrival` and `Horizon` bound the clock so that every slot
given lies before the horizon (the assumption `Constants` says so); a first
sweep at one host makes each insertion sweep, where the code starts at 256.

In `ServerLoop`, two slots make two workers share the queue and one slot makes
them follow each other in it; `Backlog` bounds the commands in an inbox (bytes
in the code) and is zero in the liveness run, whose scripts are those of pages;
`MaxLive` is two, so that accepting, pausing and resuming all happen.

In `HtmlParser`, three calls let a script write a script that writes or closes,
which nests two feeds or two fragments; `Depth` is never what stops a write with
three calls. `Interval` is 3 (1024 in the code), so that a poll may come in the
middle of every write. Three tasks are the load events and a timer. In `Render`
the limits on a raster are small enough for a page to exceed each of them. In
`FfiObjects` five operations are what a stream needs to fail and be reused, or a
view to outlive its URL and be replaced.

Deadlock is checked in every run of the client, the throttle and the server;
`Exited`, `Ended` and `Idle` are the states in which the program has nothing left
to do. It is not checked where a bound on calls ends the behaviour
(`HtmlParser`, `FfiObjects`).

### Fairness

`HttpClient!FairSpec`: the runner ticks again and again (`Runner._tick` runs in
the worker's loop), every function that is running goes on (`Step`), a script
ends (`Return`), libcurl completes every transfer that is no stream (it has
timeouts), and the clock reaches each delayed start. Strong fairness where
nested pumps may disable the step in between. Nothing is assumed of the CDP
client. `NavThrottle!FairSpec`: the clock ticks, a stage inside the limiter
leaves it, and a worker whose head is due polls it.

`ServerLoop!FairSpec`: the loop and each thread are scheduled (strongly, since a
script disables the thread's own steps), a script that was told to terminate
ends, and the watchdog tells one that does not end. No client, signal or
deadline is assumed to come. Without the watchdog (`--watchdog-ms 0`)
`EndsWhenTold` does not hold, see section 6; `ShutdownEnds` needs no watchdog.

`HtmlParser!FairSpec`: the thread runs (`WF_vars(Next)`). Since the calls of
scripts are bounded this includes that no script runs for ever, which the code
does not guarantee: `CloseHonoured` is about scripts that return.

## 5. Proofs

`HttpClientProofs` (from `Constants`; all hazards allowed):

* `InductiveInvariant`, `TypeCorrect`, `OwnersNameTheLiving`. `TypeOK` is not
  inductive: handlers pop a transfer from a queue, a waiter list or a frame
  and write its state, which would bring a transfer to life that was never
  created. `IInv` therefore says that everything named anywhere was created
  (`Born`), and that the stack has the shape the calls give it (`Shape`): the
  handlers that unwind two frames at once, `PipeFailed` of a tick and of the
  blocking request below it, find the frames they expect. `OwnerLinks` is a
  conjunct of its own; every action that retires or detaches a transfer
  unlinks it in the same step. The proof has one lemma per action
  (`<action>Inv`), over lemmas for the pieces of handlers and for sequences.

`HttpClientPlaceProofs` and `HttpClientStepProofs` (from `Constants`, and from
`Careful`: of the `Hazards` only `doneFail` may occur; the others break what is
proved, section 6. `ToldOnce` and `ClientKeepsPromise` exclude `doneFail` too,
which breaks just these two):

* `EverythingInPlace`: `IInv`, `Places` and `OrderInv` hold, for any number of
  transfers, owners, keys and connections and any nesting of calls. None of the
  properties below is inductive, and the groups of `Places` lean on each other. It
  speaks of `Where` a transfer is: in its state, except that one whose error callback `abort` runs is
  still where it was before, since `abort` will put that state back. Its groups,
  and why the next one needs them:
  - `CallsInv` says of every two functions on the stack whether one may run while
    the other waits (`Over`): what runs under a blocking request, an abort or a
    flush, and that no two functions have the same transfer in hand, except that a
    callback of a delivery may abort it. This carries `CallbackStacks`, and every
    other group wherever a function returns to one that saw an older state.
  - `BusyInv`: the states that say a function has the transfer in hand are those of
    the transfers that a function has. So nobody returns to a transfer that
    `deinit` has freed.
  - `PendingInv`, `DelayedInv`, `DispatchInv`: each queue holds exactly its
    transfers, once, and its counter counts them. They need `BusyInv`, for
    otherwise a transfer could enter a queue twice, from two functions.
  - `PoolInv`, `StreamInv`: whoever is in flight has a connection; a stream has
    one beside its place in the dispatcher until its last event, and that event is
    a terminal one exactly when the connection is gone. So a delivery knows from its
    events whether it will be called again.
  - `HeldInv`, `AnswerInv`, `BlockInv`: the CDP client's table is the parked
    transfers; an outcome is reported by a delivery or an abort that still runs;
    `_blocking` of an owner is the request of a `submitSync` on the stack.
  - `GateInv`: an entry of a gate has a live internal fetch that has reported
    nothing yet, its list is who waits for it, and whoever was taken off the list
    is left to a flush that runs (`Todos`).

  Most steps change the place of one transfer. For those, `Elsewhere` says that the
  groups hold for all others, so that a lemma per step (`<action>Places`) has only
  the one transfer to look at.
* `OnlyHazardsBreakAssertions`, `QueuesAreExact`, `PoolIsExact`, `EveryParkedIsHeld`,
  `NoneWorksForTheDead`, `CallbacksKeepOrder`, `NoneWaitsForNothing`: the seven
  invariants of the runs, each from `Places`. They are conditional results: the code
  can meet the hazards that `Careful` excludes, and then assertions do fail (the run
  `HttpClient_streamAbort`; `errSync`, `cancelDetached`) and a request can stay
  parked that the client's table has no more (`badAnswer`). What they say is that
  nothing else breaks them. `EveryParkedIsHeld` has both directions: who is parked
  is held, and of the live transfers nobody else is (`HeldAreParked`).
* `ToldOnce`: a transfer reports its end at most once. `OrderInv` says why: the
  events of a transfer end with the one that ends it, and once its done callback
  has run there is none left and no connection to bring one. A delivery, an abort
  and a kill each look whether the transfer was answered before they answer it;
  `NextOrderly` shows that what they see cannot have become stale, whoever ran in
  between. A done callback that fails (`doneFail`) is the one way around it.
* `NothingFollowsRetire`, `OnlyTheAnswerComesTwice` and `ClientKeepsPromise`, the
  action property `NothingAfterRetire` and the implementation of
  `RequestLifecycle`'s safety part. The code can meet `doneFail`, which answers a
  request twice and so breaks the last one. `OnlyTheAnswerComesTwice` allows it: its
  mapping (`Forgiving`) has no phase for a second answer, and all the rest of the
  promise is kept.
  Every step is about one request at most (`Mild`): the others keep their state,
  outcome and connection (`Alone`), and to that one happens something that may
  (`Fate`): it is made, it ends, it is answered, it takes a connection or gives
  one back. `EveryStepMild` shows this for every action; a mild step maps to
  a step of `RequestLifecycle` or to none.

`NavThrottleProofs`:

* `TypeCorrect`; `MapStaysBounded`: the map stays below the threshold, because
  an insertion that reaches it sweeps and doubles.
* `RateKept`: the slots of a host conform to interval and burst, under
  `NoStaleSweep`: the clock does not move between its read and the lock, or
  no sweep ever runs. The limiter has one number per host and none for a host
  it swept, while the property is about the whole history. The invariant
  `Covers` bridges the two: for every slot ever given, that slot plus one
  interval for it and each later one is at most the TAT, or at most the clock
  when the host is forgotten. `StampKept` and `Remembers` say what the stage
  that is inside the limiter knows. Without `NoStaleSweep` the statement is
  false, as the run `NavThrottle_staleClock` shows.
* `SlotsAreEarliest`: `EarliestConforming` under the same assumption. `Covers`
  says the limiter's number is not too small; `Tight` says that some slot of the
  history reaches it, so the slot it gives is the maximum of what the history
  asks for and of the clock.
* `QueuesNeverOversleep`: `DelayedQueue`, without assumption. It is not
  inductive: that the head is due first needs `Sorted`, the order `delay` keeps by
  linking behind the last transfer that runs no later. `Thins` is what
  startDelayed and a cancellation have in common: they take transfers out and keep
  the others in order.

`FfiObjectsProofs` (from `FfiConstants`: the constants are URLs, references,
queries and sequences, the inputs of the decoder are made of its four kinds of
bytes):

* `ObjectsInvariant`, `OneOwner`: every box has exactly one live owner, for every
  set of URLs, queries and inputs and every number of views. `BoxesExact` alone
  is not inductive: `Shape` says that the numbers in use are below the next one,
  so a new box is new, and `Links` that a linked view has a live URL, so what it
  writes exists. The proof has a lemma per action over `WithoutDomain` and
  `PutDomain`.
* `UrlInvariant`, `ViewIsInSync`. An update writes the query of its list, and
  that is read back as the same list only if every entry is a pair, as
  `paramsFromString` skips an empty entry and completes one without a value. So
  `UrlInv` says that the live box holds a URL and every view a list of pairs.
  That every operation leaves such a list (`UpdatesAre`) and every setter and
  join a URL (`SettersAre`, `UrlJoinIs`) are lemmas about the operators.
* `WorkaroundIsGuarded`: of every URL that `UrlInv` allows, whatever segments
  look like drive letters. The workaround can only change a path where rust-url
  kept a lookalike before `..`. From there on the path of rust-url stays longer
  than that of the Standard and keeps the lookalike where the Standard has
  another segment or none (`Ahead`, `AheadStays` for one more segment,
  `KeptLonger` for the whole path), so the two joins differ and rust-url was
  wrong.
* `HostSetterIsAtomic`, an action property: a case split over where the first
  colon outside brackets stands in the text, and what the port after it is.
* `StreamInvariant`, `StreamIsWhole`. `StreamInv` says that the box of an open
  stream holds `At(fed)`, the decoder as the bytes fed so far leave it: the last
  byte and whether there was one say it all. `StepAt` takes one byte more,
  `WholeAppend` says what it adds to the text of the whole, `WholeClosed` what
  the end adds, `RunIs` puts the bytes of a piece together. What a piece gives
  has at most one character more than the piece has bytes (the one that was
  pending, `PendingIs`), which fits the buffer sized for a fresh decoder
  (`FittingIs`). A mark in front of the text is one that was doubled (`FrontMark`).

`RenderProofs`:

* `OfferInvariant`, `PngComplete`: `RC_OK` exactly when all chunks were taken, and
  nothing follows a refusal, for all documents, shots, limits and answers.
  `FileInv` says what the writer has been offered at each stage. The case that
  matters is `drop`: the trailer of an encoder that gave up completes no file,
  because it either follows a refusal, which the sink remembers (`SinkKnows`),
  or comes before the image.
* `DrawInvariant`, `ClipIsShown`, `TextIsDrawn` (from `RenderConstants`: the
  documents are sequences of `LpBlock`). `DrawInv` says what each stage leaves
  for the next: what is placed is the layout of the call's document, the raster
  has the size computed from it, the blocks before `nextBlock` are painted as far
  as they start on the raster, and the view is the crop. Blocks are placed in the
  order of their tops, so that the loop's early end leaves nothing out: an
  induction over the document (`SetInduction`), since a block is never of
  negative height (`SizesAre`). `CacheSound` holds from call to call, a panic
  between two glyphs included, as an outline enters the cache under the key of
  the glyph it was drawn for. `ClipIsShown` is the arithmetic of `StripHeight`,
  `RasterHeight` and `Cropped`: where the limits allow a raster down to the lower
  edge of the clip, no bound of theirs cuts it.
* `PrintInvariant`, `ExportIsFaithful`, `PagesAreRight` (from `PrintConstants` too:
  a column width, a page height above zero and page numbers, as `prepare` of
  `pdf.zig` computes them, and blocks with text unless they are rules, as
  `flushSpan` and `closeBlock` of `screenshot.zig` drop the others). `PrintInv`
  says that the layout of a finished PDF call is the export of the layout of its own
  document; the rest is about what the export and the paginator compute. The
  export only adds at the ends of its arrays (`Grown`), so that what a run, a
  cluster or a line was written as reads the same in every later handle
  (`RunStays`, `ClusterStays`, `LineStays`, `BlockStays`), and every index in it
  is inside its array (`Closed`): inductions over the runs and clusters of a line,
  the lines of a text and the blocks of a layout. The glyphs of a block come back because
  breaking into lines, splitting into runs and flattening lose nothing. The blocks
  follow one another down the column (`Column`), so the boxes of all lines form a
  chain (`Chain`): each ends before the next starts. `FitBox` keeps the pages
  so far right for the boxes so far, an induction over the chain. A line is drawn
  on the page its top is on, which `PageOf` finds exactly once; that a block's text
  is never empty matters for its marker, which is drawn with the block's
  first line.

`ServerLoopProofs` (from `Constants`):

* `TypeCorrect`, `AssertionsHold`, `NoWakeupIsLost`, `QueueNeverOverflows`,
  `SlotsAreHeld`, `ReaperIsExact`, for any number of slots, sockets and sessions.
  None of the properties is inductive. `Seats` ties slots, requests and workers:
  a request that is pending is of the worker that still has the slot, and tells
  where that worker is (`Requested`); a worker that drives was attached or has
  asked for it (`Seated`). `InTurn` says that a worker has two requests pending
  only if the first attaches it, through both buffers in order; this is why two
  places per slot are enough (`TwoPerSlot`, an injection into slots times two)
  and why a request never meets the next worker of the slot. `LinkOnce` follows a
  session's link: new in the inbox, held, or being given back while the loop
  still has it, one of these, once. It carries the assertions of `adoptLink` and
  `markIdle`. `Woken` adds to `NoLostWakeup` that the drained buffer is empty
  while events are read, without which the swap could lose requests.
* `EveryLinkHasOneOwner`, `AccountsAreExact`. `Owned`: a socket is a link exactly
  if someone holds it, and no two do; every step leaves this alone, destroys what
  one owner has, or hands it to one that has nothing (`OwnedQuiet`, `OwnedLost`,
  `OwnedMoved`). `Tied`: the link of a slot is with its inbox or its worker, and a
  worker that is giving it back has not been answered; so the loop forgets a
  link before it is destroyed. `Born`: a worker that comes from a socket holds it
  until the loop attaches it. `ListenerOpen` is inductive on top of these, since
  the sockets that workers close are links and none of those counted.
* `WhoIsAskedReadsWhy` (`StopExplained`), an action property. `Explained`: whoever was asked
  to stop, or is about to be (`toStop`), has seen the end, is leaving, or has the
  message in the inbox. The least such message is one `popIf` finds (`FindsEnd`).
  It does not say that such a worker closes as an asked one: section 6.

`HtmlParserProofs` (from `HtmlParserConstants`; `NotReentered` from no
assumption):

* `TerminateIsNoticed`: fewer than `Interval` nodes are appended by any parser
  after a terminate, for every interval, page, write and nesting. `Good` is what
  makes it inductive: as long as a parser has not seen the flag, its late appends
  and the appends left until its next poll fit one interval.
* `NotReentered`: `NoReentry` for every page, every nesting of writes and closes
  and every terminate. `NoReentry` is about the parser's own frames, and is not
  inductive; `Fits` adds the functions around them. A feed stands right above a
  `read`, a finish right above the `finished` frame that will drop the Streaming;
  there is at most one of each on the stack; while a `read` is there the parser
  exists, while a `finished` is there it was given up; and `feeding` holds exactly
  while a `read` or a finish runs. Most steps are calls and returns of other
  functions (`Plain`), for which `Grows` and `Keeps` suffice; the steps that call
  or leave a parser (`PanicToken`, `EndParse`, `WriteStream`, `ReadMore`,
  `Finish`, `FinishDrop`) have lemmas of their own.
* `StreamedOnce`: `StreamOnce` on top of `Fits`. `Owed` is the account of the
  Streaming: what was asked for is what was parsed, what the one feed on the stack
  still has to do, and what is pending, in this order. A step keeps it if the
  feeds stay (`FeedsStay`), or if it moves tokens from one of the three to the
  next.
* `FinalTextIsSeen`: `FinalTextSeen`, from an invariant about the whole stack
  (`Sits`): below a frame that may look at the tree every parser has flushed, frames
  have containers of their own (`Numbered`), and while the page is parsed nothing
  evaluates (`PageFirst`), so that no script runs above a parser other than by a
  token that flushes first.

Only model-checked: of the client `StackUnwinds` and `KeepsLifecycle`, of the
throttle `DelayedLeaves`, of the server `EndsWhenTold` and `ShutdownEnds`, of the
parser `CloseHonoured`, which are liveness properties and out of the prover's reach;
further `WriteOrder` of the parser. It is about the nested inputs of all parsers
on the stack: its invariant has to relate what is in a tree to the pending text
of every level of writes above it, which the invariants proved so far do not.

Recursion in the modules that are proved about is written as recursive
functions. What such a function computes is proved by an induction on the set of
the indices where the statement holds (`SetInduction`, `IntervalInduction`) over
the equations of the function (`Recursion`, `SameFunction`), because the
library's induction theorems take an operator, which the provers do not
instantiate.

## 6. Where code and comments disagree

With a run:

* A stream aborted by its own callback is retired twice when a nested pump
  sees its completion first, whether the pump was called after the abort or
  the abort came from inside the pump (`HttpClient_streamAbort`, 1681-1689).
* The clock is read before the limiter is locked (`NavThrottle_staleClock`,
  1105): a sweep by another worker in between forgets a slot that the late
  worker should have respected.
* While a script-created parser is finished, its deferred scripts and load
  listeners can still reach it, and a `document.write` or `close` there unwraps
  its null handle (`HtmlParser_deadParser`, `Parser.zig:406`,
  `Document.zig:1188`).

Without a run of their own, in the client and the server:

* `abort()` restores a stale state (`errSync` in `Hazards`): it saves the state,
  runs the error callback, and writes the saved state back (2633-2638). If the
  transfer was queued and the callback makes a synchronous request, the nested
  tick starts it; it is then marked queued while it is on the wire.
* `fulfillIntercepted` promises that no callback of the consumer runs from
  within the command (2057-2059); a redirect too many does (2099,
  `resumeFail`), also inside another frame's blocking request.
* A waiter whose resumption fails gets its error callback inside the flush of the
  gate (`resumeFail`; `RobotsGate.zig:165`). If that callback's script tears the
  frame down, a waiter that the flush has taken and not yet started is freed, and
  the flush goes on with it. With `resumeFail` in `Hazards` the run
  `HttpClient_gates` violates `KeepsLifecycle` this way.
* `cancel()` of a transfer that was killed in the middle of its delivery
  (`cancelDetached` in `Hazards`) reaches assertions made for live ones.
* A done callback that fails gets an error callback too (`doneFail`; 3928),
  although `_outcome_delivered` is commented as the guard against that (2273).
  With `doneFail` in `Hazards` the run `HttpClient_delivery` violates
  `ImplementsLifecycle`: a second answer is the phase `"twice"` of the mapping, to
  which no step of `RequestLifecycle` leads.
* `Fetch.continueRequest` and `fulfillRequest` remove the held entry before
  they validate their parameters (`badAnswer`; `fetch.zig:187`, 308), so a
  refused answer leaves a request parked for good.
* A worker that was busy starts several due slots of one host in one tick; the
  limiter's promise holds for slots, not for the wire.
* The loop pauses the listener when `accept` runs out of fds (`Server.zig:336`),
  also when nothing is connected, and `slotFreed` leaves it paused when `epoll`
  refuses it. "the next recycle retries" (461), but recycles come from
  connections and workers that end: with none left the server accepts no more.
  `ServerLoop` assumes neither failure.
* A worker that is asked to stop may close as one that was killed. "Report it with
  its own close code, nothing to warn about" (`Driver.zig:192`) relies on the
  message being in the inbox still. The drain of a synchronous request may have
  popped it, inside a script; `drainInbox` never asks whether the client is
  disconnected (`HttpClient.zig:1492-1533`), so the outer drain goes on and
  returns, and if the runner's second is over the tick finds the flag and no
  message, warns and sends the close frame of a killed worker after the one of the
  message. The model reaches this (`Tick` with `gone`), and `StopExplained` allows it.
* A session deleted before its worker attached gets `.quit` without a terminate
  request; "Attach will send a .wakeup() so that it gets picked up promptly"
  (`Server.zig:557`), but a worker that has meanwhile taken a link and a
  command with an endless script looks at its inbox only when the watchdog has
  stopped it. The same holds for a close frame or a frame that is no JSON,
  after which the link is not polled any more and no terminate is requested.
* `drainTerminal` pops `.disconnect` but not the `.link` before it
  (`HttpClient.zig:1557`), so a session that is shut down while it gets a link
  that drops fails the assertion of `BiDi.releaseLink` (`BiDi.zig:217`, "the
  loop only tells us the link is gone while we hold it"). `AssertsHold` of
  `ServerLoop` exempts this one by name; no link is lost by it (`LinksOwned`).

In the parser and `document.write`:

* A write from inside a feed is parsed after the rest of the outer write, while
  the comment says "Append at the insertion point" (`Parser.zig:381`).
* `_close_requested` outlives the parser it was meant for when a script that
  `done` runs asks for the close (`Document.zig:1174`, 1184-1201): the next write opens a
  new stream and, at its end, finishes it at once, before the document that is being
  written is complete. A write of nothing while the old stream is still there
  reaches `done` with the handle gone (`HtmlParser_deadParser`).
* A write from a custom element's reaction in a fragment lands before the
  fragment or, when the element has no parent yet, nowhere.
* `Streaming.deinit` has no caller; a script-created parser that is never closed
  is not freed. A panic of html5ever outside `feed` aborts the process.
* A constructor runs before the text in front of its element is flushed, so it
  may read an incomplete text node; `FinalTextSeen` excludes it by name.

In the URL bindings and the decoders:

* The drive-letter workaround looks only at a base that ends in a slash
  (`url.rs:36`), so `..` on ".../C:/x" keeps "C:", which is not what the URL
  Standard says. `JoinGuarded` says that the workaround does no harm, not that
  it is complete.
* "set_port only errors on cannot-be-a-base, already ruled out by set_host"
  (`url.rs:537`) is not so for file URLs, where the port is dropped;
  nor for an empty host (":80" on "abc://h"): the host is applied and the port is
  lost. `HostAtomic` names these two (`Portless`). A host with a port that is out
  of range changes nothing, where the URL Standard keeps the host.
* encoding_rs removes a byte-order mark by itself, so a chunk with two loses
  both and `ignoreBOM` has no effect on the first. `StreamedSame` exempts
  streams that begin with two (`Doubled`).
* The output buffer is sized by a fresh decoder
  (`encoding_max_utf8_buffer_length`) although the one in use may hold bytes of
  the last chunk; a full buffer is not reported. No text is lost by it
  (`FittingIs`): three bytes for each byte of the input and three more are enough.

In the renderer:

* The background of a `<pre>` is omitted when its text starts below the raster,
  up to 8 px early; `TextDrawn` is about text and rules.
* The content height is not written when the arguments are refused or the call
  panics, although the comment says it is "filled in even when rendering
  fails" (`render/lib.rs:558`).
* The marker of a list item whose content is a rule is never drawn.

## 7. Not modelled

WebSockets, multipart bodies, header parsing, TLS and proxies of the client;
the HTTP cache; the matching of robots.txt, filters and block lists (their
verdicts are choices); V8, the DOM and the web APIs, except what section 3
names; html5ever, rust-url, encoding_rs, parley and png themselves (external);
the encoding prescan, XML parsing; CDP and BiDi commands except those that
answer an intercepted request; storage, telemetry, MCP and agent modes; sockets,
polling and HTTP parsing of the server. `PROJECT.json` gives the reason for each
component. One of its hazards has no property: the two reads of the watchdog's
checker (item 10 of the plan).
