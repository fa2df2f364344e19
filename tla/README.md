# eventually in TLA+

A verification project for [eventually](../src/README.md), a small C++ library
that runs function objects in the future: a `dispatcher` is a queue of tasks
processed by whoever calls it, a `thread_dispatcher` processes its queue on
threads of its own, `when`, `when_all`, `when_any`, `when_every`, `when_throw`
and `when_throw_continue` continue futures, a `connection` interrupts work, and
an http client and data loaders are built on top. Paths below are relative to
`src/src/eventually/` unless they start otherwise.

    tlc  -workers 2 -config MCDispatcher_tasks.cfg MCDispatcher.tla
    tlapm DispatcherProofs.tla

## Inventory

| component | state | operations | who interacts | what is hard | what makes it correct |
|---|---|---|---|---|---|
| `dispatcher` (`dispatcher.hpp`, `.cpp`) | `_tasks`, `_mutex`, `_new_task` | `dispatch*`, `process_one`, `process_all`, destructor | clients of any thread; callbacks run with `_mutex` held | several processing threads, retries that keep a task in front, destruction with tasks left | one task at a time, in order, none lost, futures set once |
| task and handler (`task.hpp`, `handler.hpp`) | retry, work, arguments, promise, connection | `operator()` | called by `process_one`; locks the connection | interruption just before the callback, exceptions on any path | the promise is set before the task leaves the queue |
| `connection` (`connection.*`) | shared flag and mutex | `interrupt`, `interruption_point`, destructors | every copy locks the mutex when destroyed | destroyed while a callback runs, or in one | no callback after a scoped connection is gone; no circle of waiting |
| `thread_dispatcher` (`thread_dispatcher.*`) | `_threads`, `_done`, `_wait_mutex` | `worker_thread`, `init`, destructor | base class's `_new_task` | a wait on one mutex for what happens under another; join | workers end, no task is left asleep |
| continuations (`dispatcher.hpp`, `worker.hpp`) | futures moved into tasks | `when`, `when_all`, `when_throw`, `when_throw_continue` | tasks of any dispatchers | errors, interruptions and broken promises travelling through a graph | handlers see the errors they catch, no error is lost |
| `when_any`, `when_every` (`worker.hpp`) | shared promise, counter, results, mutex | subtasks on the dispatcher | one subtask per future | some futures fail, callbacks throw, the connection is interrupted half-way | one result, at the right time, whole |
| `file_data_loader` (`file_data_loader.*`) | dispatcher, block size; a `FILE` per call; global `work_mutex` | `load`, retry per block, close | two tasks on its dispatcher per call | blocks of several files interleaved, cut loads | whole files, nothing used after close |
| `http_client` (`http_client.*`) | dispatcher, which it may own; curl handle, response and connection per request | `send`, `send_dispatched`, curl's callbacks, destructor | a task per request | interruption inside the transfer, redirections, no timeout | the whole answer or an exception; an interruption is heeded |
| `http_data_loader`, `setup_data_loader` | the layer below, which they may own; set-up functions | `load`, destructor | `when` behind the layer below | callbacks that use a loader after `load` has returned, nested destructors | the loader is there when the callback runs; every caller is answered |
| `http_request`, `http_response` | strings, headers | accessors, header parsing | `write_header`, `write_data` | header lines of several messages | nothing of an answer is missing or doubled |

Type traits (`is_callable.hpp`, `is_same.hpp`) choose overloads at compile time
and have no behaviour. The tests use a vendored gtest.

## Modules

| module | models | composes |
|---|---|---|
| `TaskQueue` | abstract: what a dispatcher promises | |
| `Dispatcher` | one dispatcher, its tasks, connections and threads | refines `TaskQueue` |
| `ThreadDispatcher` | the pool: workers, condition variable, destructor | extends `Dispatcher` |
| `WhenGroup` | what `when_any` and `when_every` share | uses `TaskQueue` |
| `WhenAny`, `WhenEvery` | the shared workers of the two | extend `WhenGroup` |
| `Continuations` | graphs of `when`, `when_all`, `when_throw`, `when_throw_continue` | |
| `DispatcherNet` | callbacks on several dispatchers that use each other | |
| `FileDataLoader` | calls of `file_data_loader::load` | |
| `HttpClient` | one transfer: `send_dispatched`, libcurl's callbacks, the server | |
| `DataLoaders` | `http_client::send` and the two loaders above it, who owns whom, destructors | extends `HttpClient`, uses `TaskQueue` |
| `DispatcherProofs`, `ThreadDispatcherProofs`, `WhenAnyProofs`, `WhenEveryProofs`, `ContinuationsProofs`, `DispatcherNetProofs`, `FileDataLoaderProofs`, `DataLoadersProofs` | theorems | extend the modules they are about |
| `MC*` | instances for TLC | extend the modules they instantiate |

Operators named as a *Fault* in their comment are plausible mistakes in the
code; no specification uses them. Each is put in the place of the definition
that follows it, to see that the properties notice it.

### How the state corresponds to the code

**Dispatcher.** `tasks` is `_tasks`, and `mutex`, `connMutex` are the owners of
`dispatcher::_mutex` and `connection_data::_mutex`. A task object is
`conn[t]`, `gated[t]` (whether its retry function is the client's) and
`inputs[t]` (the futures moved into its handler); `outcome` is the state shared
by promise and future. `pc[th]` goes through `process_one`:

    lock -> retry -> enter -> point -> work -> pop
            (retry function)  (interruption_point)  (callback)  (pop_front)

A `lock_guard` block is one step where nothing in it can block and no other
thread can see its middle (push_back, `~connection`, `handler` for the retry
function); the callback is two, since others act while it runs and since it may
block in `future::get`. Setting the promise and unlocking the connection is one
step: a thread that saw the future set and destroyed a copy of the connection
would only wait for the unlock. `handle[c]` is the client's connection object;
copies inside tasks are destroyed by `Pop`. Callbacks that call the dispatcher
themselves are the subject of `DispatcherNet`. A client does not use a
dispatcher or a connection that is destroyed, or dispatch with a connection
that is being destroyed: those are the guards of `Enqueue`, `Process` and
`DestroyDispatcher`.

**ThreadDispatcher.** `wpc[w]` is the place in `worker_thread`, which uses
`Process(w, TRUE)` and the steps of `Dispatcher` for its inner loop; `wait` and
`sleep` are apart because a notification between them is lost. Wakeups may be
spurious. The constructor starts the workers one by one, while those that are
started already run; it may fail (`InitThrows`), which ends the program, and
nothing happens after it. A client may process the queue of the pool itself,
since `process_one` and `process_all` are public.

**WhenGroup, WhenAny, WhenEvery.** The subtasks are tasks of an instance of
`TaskQueue`, whose promises are all that is used of the dispatcher
(`Refinement` is why that is sound). `stage` is the place of the
running subtask in `work`. The futures may be settled in any order, with values
or errors; the client's connection may be interrupted before any subtask; the
dispatcher may be destroyed once the call has returned. `Release` is the end of
the `shared_ptr`: the last copy of the worker is in the last subtask.

**Continuations.** A node is a task; `at[n]` and `outcome[n]` its progress and
its future. A node may start at any time, which includes every order that
queues and threads can produce. Errors are told apart by what catches them, and
`throw e` by what is thrown again: a copy of the type that the handler names
(`Rethrown`). Void futures are got by handlers only, since the callbacks of
`when` and `when_all` take values (`WellFormed`).

**DispatcherNet.** A callback is a sequence of what may block: `get`,
`dispatch`, `point`, the interruption point of a copy of a connection, and
`release`, the destructor of a copy; after what throws (`get` of a future with
an exception, `point` of an interrupted connection) only the releases are done
(`PassOver`). `interrupt` is that of an owner, or of a callback. A script is
what a client's thread does outside of callbacks; it calls nothing that throws.

**FileDataLoader.** A file is its number of bytes. The thread of a dispatcher
holds the dispatcher's mutex unless it is idle, so a call of `load` can dispatch
only then. Destruction between two blocks is that of a plain `dispatcher` that
its client stops processing, or of a pool whose workers all sleep.

**HttpClient, DataLoaders.** `transfer` is the place in `send_dispatched`;
libcurl hands each line of each header, and each piece of the last body, to
`write_header` and `write_data`, whose first statement is the interruption
point (`Write`, `EndsWith`). A transfer may fail at any point, and a server
answers with a number of redirections first. The objects are four layers,
`Setup` over `Loader` over `Client` over `Dispatcher`; a load is one task per
layer it goes through, `call[l]` is the layer whose task was dispatched last.
`owns` are the three `_delete_...` flags. A destructor has a beginning and an
end because that of the dispatcher in between waits for the running task. Who
uses the library is expected to keep to this: no call is under way in what is
destroyed, and unless the dispatcher is destroyed with it, every result has
come (`MayDestroy`). Without the second, the `this` that the tasks have captured
would dangle by the client's own doing.

## Runs

All pass runs allow clients to stop, so deadlock is not checked by TLC: threads
that have nothing to do are the normal end. Waiting in a circle is checked by
`NoDeadlock`, and by the liveness properties.

| run | bounds | shows |
|---|---|---|
| `dispatcher` | 2 tasks, 1 connection, 2 threads | one task at a time; nothing lost; no wait on the own queue; no callback after scope; futures set once; `TaskQueue` implemented, so callbacks keep their order across retries; tasks settle, destructors of connections return |
| `pool` | 1 task, 1 future from elsewhere, 2 workers, 1 client | a constructor that may fail, the destructor's protocol and its end, an awake worker empties the queue, a task in the queue beside a worker in its inner loop is never dropped |
| `pool_wakeup` | 1 task, 2 workers | *violated*: lost wakeup |
| `any` | 3 futures, void or not | the counter, one call, error last; the result comes or the thread is stuck |
| `every` | 3 futures, a callback that may throw | result complete and last until the callback throws; in order, set once, and some end whatever happens |
| `every_early` | 2 futures | *violated*: result before every future is met |
| `continuations` | 4 nodes: a `when_all` of two and a node of any kind behind it | errors arrive, as what they were where they began; handlers are called, every future settles |
| `continuations_void` | chain of 3, void futures | *violated*: handlers not called |
| `net_chain` | 4 threads, 2 dispatchers, a request, a response callback that dispatches again, an owner that interrupts | no circle of waiting, the chain ends |
| `net_widget` | the README's widget | *violated*: a circle of waiting |
| `file` | 3 loads on 2 dispatchers, block sizes 1, 2 and none, files of 2, 1 and 0 bytes | only open files are read or closed, results are whole files, leaks only if cut, every load ends |
| `loads` | a load through all layers and a request of the client's own; answers of up to 2 messages, 1 header each, 2 pieces of body | responses are whole, no callback uses what is gone, an interruption is heeded, every load is answered |

The inductive invariants are proved and not checked again by these runs.

**Why the bounds are enough to see the cases.** Two threads are what it takes
to race on a queue, on a connection and on the condition variable; a third adds
none that the proofs do not cover. Two tasks give one in front and one behind,
which retries, `pop_front` and continuations on the own queue need; that order
is more than first and last is proved (`Refinement`). Three
futures give `when_any` and `when_every` a first, a middle and a last subtask,
and a counter that can go wrong by one before the end. Files of 2, 1 and 0
bytes, in blocks of 1, 2 and without blocks, end with their second block, which
takes one more call, within one, and before any byte. Block size 0 is left out
of the run, as `LoadEnds` is false for it (`ZeroBlocksReadNothing`). Two loads put one task
between those of another, one of them tied to the caller's connection and one
not; a second message is a redirection. One connection is what two tasks need to
share one; larger instances of the dispatcher are covered by its proofs, which
leave only the two liveness properties to the run. Symmetry is not used, since
most runs have liveness properties.

**What bounds the state.** Each task is dispatched once and each connection
destroyed once, so the constants bound everything. The one exception is the
answer of a server, which `MaxMessages`, `MaxHeaders` and `MaxPieces` bound in
the guards of `StatusLine`, `HeaderLine` and `Piece`.

**Fairness.** `dispatcher` assumes clients that keep calling
`process_all` (weak fairness of every step of a call, since nothing in the
library does it for them), callbacks that end once their futures are settled,
futures from elsewhere that are settled, and retry functions
that answer true when asked again and again (`RetryFairness`). The pool's workers are threads, which run: weak fairness
of each step, strong fairness of locking a mutex that is free again and again,
since `std::mutex` may let others in first but not for ever on any real
scheduler. Nothing is assumed of spurious wakeups, of further dispatches, nor
that the pool is destroyed. `when_any`, `when_every`: the call returns, the
futures are settled, the dispatcher processes its front task.
`Continuations`: a queued node is run. `FileDataLoader`: threads go on.
`DataLoaders`: the dispatcher is processed, and a call that has begun to dispatch
goes on, with strong fairness since it waits for a mutex that is free again and
again. That a transfer ends is up to the server: the client sets no timeout
(`http_client.cpp:150-178`), so nothing in the code would end one that stalls.

## Where the code does not do what is said of it

| run | what happens |
|---|---|
| `pool_wakeup` | A worker finds the queue empty, and before it waits on `_new_task` a task is dispatched. `dispatch` notifies under `_mutex` (`dispatcher.hpp:84-86`), the worker waits under `_wait_mutex` without looking at the queue again (`thread_dispatcher.cpp:64-68`): the task waits for another dispatch, or for ever. |
| `every_early` | A callback of `when_every` that throws leaves its result in `results` and takes one off `size` (`worker.hpp:227-233`): the result may come before every future is met; if it happens at the last future it never comes, which is why `NotAbandoned` has an exception for it. |
| `continuations_void` | For `std::future<void>` the workers call `wait()`, which does not throw (`worker.hpp:34`, `279`, `318`): the handler is not called and the error is gone. |
| `net_widget` | The widget of `src/README.md:208-249` ties its response callback and its request to one connection. The callback holds the connection's mutex while it waits for the request; the request's task destroys a copy of the connection (`http_client.cpp:124-128`, `172`) before its promise is set. |

Some more are visible in the models without a run of their own.
`worker.hpp:134` locks the mutex of `when_any` by hand, and `catch_exception`
(`worker.hpp:106`) locks it again in the same thread when `f.get()` or the
callback throws: `SettlesOrSticks` has an exception for that state, in which
the dispatcher's thread stays for ever. `when_any` is documented to "Call a
function when a the first future of a list is met" (`dispatcher.hpp:234`), but
dispatches the subtask of the last future first, which blocks in `get`
(`DispatchNext`): the last future of the list wins. And of `dispatch_retry`'s
`@param connection that is used to interrupt the work` (`dispatcher.hpp:61`)
nothing is left while the retry function answers false, since its handler has
no interruption point (`handler.hpp:65-69`, `RetryNotReady`).

The handler of `when_throw` throws `e` again (`worker.hpp:269`), which is a copy of
the type that it names: what a callback threw as a class derived from
`std::exception` leaves a handler of `std::exception` as just that, and a later
handler of the class does not catch it (`Rethrown`). `ErrorsHaveOrigins` counts
such a handler as the place where the new error begins. A `file_data_loader` of
block size 0 reads nothing: `file_data_loader_work` (`file_data_loader.cpp:64`)
answers false for ever, and its task stays in front of the queue, with no
interruption point, until the dispatcher is destroyed
(`ZeroBlocksReadNothing`).

Of the http code: `find_header` (`http_response.cpp:72`) returns the first match
of a list that has the headers of redirections in front (`WholeResponse`);
`trim` (`http_response.cpp:50`) cuts a header's value at its first blank;
`set_headers` (`http_client.cpp:85`) never frees its list; a request that is
neither GET nor POST is sent without its body (`http_client.cpp:167`). The
interruption is thrown through libcurl, which is C code; that it arrives is what
the test `src/test/tests/http_client_test.cpp` expects, and what is modelled.

## Proofs

`tlapm` proves these for every value of the constants that satisfies the named
assumptions (`ConstantsAssumption`, `WorkersAssumption`, `GroupAssumption`,
`ContinuationsAssumption`, `NetAssumption`, `FileAssumption`,
`AnswerAssumption`, `LoadsAssumption`: that special values are not
members of the sets they stand beside, that the destroying thread is no worker,
that `N` is a number, that a future is moved into one later node, that scripts
and callbacks are sequences of operations, that a loader has a dispatcher and a
load a layer it is called on). Four kinds of theorem have a hypothesis of their
own, stated as `ASSUME`: that futures have values (`~Void`) or that they are
void (`Void`), that the scripts and callbacks of clients dispatch in an order
(`Sequenced`, `Disciplined`), that a load reads in blocks of size 0.

Every safety invariant and action property of a passing run is a theorem. Beside
the liveness properties stand theorems of what safety can say of them: as long
as something is to be settled, the guard of a step that brings it on holds, or
the state is one of those that the property names. These say that nobody waits
for ever *on the library*; that the steps are then taken, and bring the end,
is what the fairness and TLC's runs are for. Their guards are written out, since
`ENABLED` is beyond the prover. Induction over a graph or over levels is done by
least counterexamples (`Least`, from `WFMin`).

*Dispatcher.* `Invariance`: `Spec => []IInv`. The safety properties are not
inductive: that a callback never runs after its scoped connection is gone
(`NoCallbackAfterScope`) needs that a connection's mutex is held exactly by the
thread in a callback tied to it (`ConnLockInv`), that the thread in
`~connection` is the only one to destroy that connection (`ClosingInv`), and
that the front task does not change under a thread inside it, which needs that
`_mutex` is held by that thread (`LockInv`). `NoTaskLost` needs that only the
front task can be settled while in the queue and that no task is queued twice
(`QueueInv`); `NeverWaitsForOwnQueue` needs that the inputs of a task are done
or ahead of it (`InputsInv`), which retries keep because they do not reorder.
The proof takes the actions one by one and has a lemma for each conjunct that
an action disturbs. `MutualExclusion`, `NothingLost`, `ScopeRespected`,
`OwnInputsAreReady` follow from `IInv`, and `FuturesSettleOnce` is an action
property of steps from states of `IInv`.

*Refinement.* `Refinement`: `Spec => ImplementsTaskQueue`, with the task being
called back as `active`, the queue without a task that is settled but not yet
popped as `waiting`, and the connections interrupted and closed as `revoked`.
`BeginWork` is `Start`, `FinishWork` is `Finish`, `Interrupted` is `Cancel`,
`Drop` of an interrupted connection is `Revoke`, and what is left are stutters.
It needs `IInv` at every step; `Start` needs `NoCallbackAfterScope` of the next
state, `Revoke` needs `ConnLockInv`. `PoolImplementsTaskQueue` carries it over to
the pool.

*Nobody waits in a circle, on one dispatcher.* `SomeCallGoesOn`: while a thread
is in a call, there is one that neither a mutex nor a future of the dispatcher
holds up. Whoever has `_mutex` has the connection of the front task to itself,
unless a callback of that connection runs, which is its own (`OwnerGoesOn`); who
waits in `~connection` waits for that thread, too.

*ThreadDispatcher.* `PoolIsDispatcher`: `TDSpec => Spec`, so every theorem of
the dispatcher is one of the pool. `PoolInvariance` adds `PoolInv`:
`_wait_mutex` is held by the worker that looks at `_done` and by the destructor
until it has notified, hence nobody waits on a `_done` read too early
(`NobodySleepsThroughDestructor`). `DestructionSettles` follows from
`NoTaskLost` of the dispatcher. `WorkersFinishWhatIsAtHand`: a worker goes from
its inner loop to where it looks at `_done` or ends only when it has found the
queue empty (`LoopEndsEmpty`), and the queue cannot be destroyed before it is
joined, so that a task in the queue beside a worker in the loop (`AtHand`) stays
so until it is settled by being processed: by `NoTaskLost` what is not settled
is still queued. It needs that a worker inside a call is in its loop (`HomeInv`,
`LoopInv`). As what is settled stays settled, the promise of such a task is never
broken, whenever the destructor begins (`AtHandIsNeverBroken`). `DestructorGoesOn`: in
`join`, all workers have ended, or one can go on, or someone inside the
dispatcher can; it needs that a worker is inside a call only while it drains the
queue (`HomeInv`).

*WhenEvery.* `Counting`: until the callback throws, `size` is the
number of results, of subtasks in the queue, and of futures not yet dispatched,
for any number of futures; once it has thrown, `size` is still no less than
what is left, and the invariant keeps it so, which `TypeOK` needs.
`ResultComesLast` and `ResultComes` follow. `Results` adds what is known of the
vector: the number of results less `size` never falls, so the two meet once
(`SetInv`, `SetAtMostOnce`); results are of futures that come before those in
the queue, in the order of the subtasks (`OrderInv`, `ResultsDescend`); and a
future whose subtask is over has its value among the results unless something
was thrown or interrupted (`DoneInv`, `NothingIsMissing`).
`OnlyAFutureIsWaitedFor`: until the promise is settled, the call, the dispatcher
or the subtask can go on, or the subtask waits for a future that is not met;
this needs that the promise is settled with the last subtask (`EndsInv`).

*WhenAny.* `AnyInvariance`: until a subtask succeeds, `size` is the number of
subtasks in the queue and of futures not yet dispatched (`Left`); a subtask that
has found `worked` unset holds the mutex, so that nobody else can succeed before
it is done (`LockInv`); and who runs is in front (`FrontRuns`). `SizeCounts`,
`CalledOnce`, `ErrorComesLast` and `ResultIsNotAbandoned` follow.
`StuckForever` is the price of the mutex that is locked by hand: once something
is thrown under it, the future never gets a result, not even a broken promise,
whatever the other futures have. Nobody has succeeded before, since who has the
mutex has found `worked` unset (`PromiseInv`), and no step of anybody leaves that
state (`StuckStays`). `OnlyAFutureIsWaitedFor` says that this, and a future that
is not met, are all that can keep `when_any` from its end.

*DispatcherNet.* `NetInvariance`, for any dispatchers, threads, scripts and
callbacks: every exception in a callback, and every order of what the others do,
leaves each mutex with the thread whose task needs it. What the proof adds is
that a script never throws.

Whether clients wait for each other in a circle depends on what they do.
`NobodyWaitsInCircle` says what is enough: `Disciplined(Level)`, for some
assignment of levels to dispatchers. A callback dispatches to dispatchers of
lower levels only, and only destroys copies of connections that are tied to
tasks of lower levels; it waits for tasks of lower levels or of its own
dispatcher; a connection is used on one dispatcher; futures are moved into tasks
after the tasks they belong to were dispatched; and each dispatcher has a thread
that does nothing but process it. The clients of `net_chain` are of this kind
for the levels `main` over `pool`, which TLC evaluates (`ChainIsDisciplined`);
those of `net_widget` are not for any (`WidgetIsNot`): the response callback
waits for the request, whose task destroys a copy of the connection that the
callback is tied to, so that each would have to be below the other (`Downward`).
The argument has two parts. `FuturesAreAhead` needs `Sequenced` only: what a task in
a queue waits for is settled, in another queue, or ahead in the same one, as
long as what a callback still has to do is the rest of what it was given
(`OrderedInv`). Then, of the dispatchers that have a task or a thread in them,
one has the least level (`Least`); nothing is below it (`NothingBelow`), so its
front task waits for nobody and its thread can go on (`NobodyBusy`).

*Continuations.* `ContinuationsInvariance`, for any graph over futures with
values: what an ended node says of its inputs stays true since they had ended,
too. `HandlersAreCalled` follows, and `ErrorsAreNotLost`:
`Behind`, the nodes that an error reaches, is a recursive function; that it has
a solution at all is `BehindDef`, and the first node that had lost its error
would have an input that had lost it before. `OriginsAreFound` is the converse
and holds for void futures, too: an error in a future was raised by a node that
can raise it and has passed through futures that all hold it. `Origin` is
recursive like `Behind` (`Collecting` solves both), and what an error at a node
says of its inputs is `OriginInv`, kept because settled futures do not change.
Over void futures
`VoidHandlersAreNeverCalled`, the finding of `continuations_void` for every
graph. `SomeNodeGoesOn`, of any graph: the first pending node waits for nothing.

*FileDataLoader.* `FInvariance`, for any number of loads and dispatchers and
files of any size. That a callback finds its file open is not inductive: it
needs that each queue has a task once, that a read in it has an open file and a
promise to settle, and that a guard has its read ahead of it until that has ended
(`QueueInv`, `CallInv`); that data is the whole file needs that a task comes to
its callback with all bytes read (`ReadInv`); and where a promise ended other
than with data needs the reason (`LoadedInv`). The lemmas follow the queue as it
stays, grows and shrinks. `FilesAreOpen`, `FilesAreWhole` and
`OnlyCutLoadsLeak` follow. `EveryLoadIsServed`: a caller without an answer has a
guard in the queue of a dispatcher that is alive (`ServedInv`), whose thread can
take a step or waits for `work_mutex`, and then the thread that reads can. That
it is served does not mean that it ends: with blocks of size 0 nothing is read,
and a call has no other end than a broken promise (`ZeroBlocksReadNothing`).

*DataLoaders.* `LoadersInvariance`, for any number of loads through any layers
and answers of any length. The task of the layer below has its result or is
ahead in the queue (`OrderInv`), so the results of a load come from the bottom
up (`ResultInv`), and `get` never blocks (`CallbacksNeverBlock`). During a
transfer the response is what the server has sent, up to the line or the piece
that is being handed over (`AnswerInv`, `ResponseIsWhole`). That no callback
runs on a destroyed object needs the same for every task in the queue and every
call that still dispatches (`LifeInv`): what is destroyed without the dispatcher
is used by no task, since its loads have their results, and those come last.
`NoCallbackDangles` follows. `InterruptionIsHeeded` has an invariant of its own
for a load that was interrupted in time (`CutInv`): nothing of its answer but a
status line is read, so that its transfer cannot return; the results of the
layers above follow, since a result that is there never changes (`ResultsStay`).
`EveryLoadIsServed`: a load without an answer has its task in the queue, or is
about to dispatch it, and the dispatcher's thread can go on; the callbacks of
`when` never see a broken promise, since what breaks promises also empties the
queue (`BrokenInv`).

Model-checked only: the liveness properties (`EveryTaskSettles`,
`DestructorsReturn`, `DestructorReturns`, `AwakeWorkerDrains`,
`SettlesOrSticks`, `Settles`, `EverythingSettles`, `ChainEnds`, `LoadEnds`,
`LoadAnswered`), and of the runs that are violated what goes wrong, but for
`continuations_void`.

## Not modelled

Formatting of messages, allocation failures (they end the program: the
functions are `NOEXCEPT`), argument tuples (`apply.hpp`), type traits, the
Windows branch of `file_data_loader_start`, the options of a request that only
say what is asked of the server, and a pool without threads (what
`std::thread::hardware_concurrency()` may say, `thread_dispatcher.hpp:31`).
`is_ready` of `when_worker` is not called by anybody. A callback of `when_every`
is given the vector itself and may change its elements; one that changes its
length is not modelled. The connection kept by the shared data of `when_any`
and `when_every` is destroyed with it; what that waits for is the subject of
`DispatcherNet` only; `when_any` and `when_every` behind one another are not
combined. A read error of `fread` is the end of the file, as in the
code. The close in `file_data_loader_throw` is never reached, since nothing
before it throws a `data_exception`.

## Plan

Done, in this order: `TaskQueue` and `Dispatcher`, their refinement, the pool,
`when_any` and `when_every`, several dispatchers, continuations, the file
loader, the http client and the loaders above it; the theorems above. Left:

1. `when_any` and `when_every` behind one another, and with void futures
   through `Continuations`.
2. The discipline of `DispatcherNet` for clients that share a connection between
   dispatchers but release its copies elsewhere.
3. The abstract queue of the loaders and of `when_any` and `when_every` as a
   refinement of `TaskQueue`, rather than an instance of it.
