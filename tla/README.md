# TLA+ verification of event_manager

`event_manager` is a C++20 library that runs coroutines on an io_uring event
loop.  This directory holds its TLA+ models, the TLC configurations that check
them on small instances, and TLAPS proofs for all instances.

    tlc -workers 2 -config hostile.cfg MCEventManager     # a run
    tlapm WakeupProofs.tla                                # proofs of one module

`PROJECT.json` lists the runs, the source lines behind every definition, the
hazards, the mutants that show each property can fail, and the findings.

## 1. The system

| Part | State | Operations |
|---|---|---|
| event loop (`event_loop/core.cpp`) | `_manager_life_state`, `_in_flight_requests`, where `await_message` stands | `start`, `await_message`, `event_handler` |
| awaitable operations (`io_ops.cpp`, `coroutine/io_awaitables.hpp`) | a `RequestData` inside the awaitable | `read` ... `renameat`, `IOAwaitable::await_suspend/await_resume` |
| non-awaitable operations and polling (`io_ops.cpp`) | `RequestData` on the heap, `_ready_requests_store`, `_polling_handle`, `_polling_requests` | `read_na` ... `renameat_na`, `poll` |
| raw access to the ring (`core.cpp`) | - | `get_uring_sqe`, `submit_queued_entries` |
| kill (`core.cpp`) | `_kill_coro_task` and its awaiter | `kill`, `kill_internal` |
| coroutine store (`event_manager.hpp`) | `ItemStore` (`_items`, `_freed_idxs`), the index kept in each promise | `register_coro`, `insert`, `erase` |
| coroutines (`coroutine/task.cpp`) | `EvTask`, promise state, `TaskStatus` | `start`, moves, `await_suspend`, `final_suspend` |
| shared statics (`core.cpp`) | `shared_ring_fd`, `ring_instances`, `init_mutex` | the constructor, the end of `kill_internal` |
| batches (`io_ops.cpp`, `parameter_packs.*`) | `RequestQueue` | `make_request_queue`, `submit_and_wait` |
| communication channel (`communication/`) | one response slot per coroutine | `publish_resp_data`, `consume_resp_data` |
| errors (`errors.hpp`) | - | conversions between errno values and 8-bit enumerations |
| io_uring (external) | submission queue, kernel, completion queue | `io_uring_get_sqe`, `io_uring_submit`, `io_uring_wait_cqe`, `io_uring_cqe_seen` |

One thread runs a manager, its coroutines and its loop.  The concurrency is
that of coroutines among each other and with the kernel, which completes
operations in any order and at any time; several managers on several threads
meet only in the shared statics.

A coroutine that awaits an operation gets a submission entry whose user data
points to the `RequestData` in its awaitable, submits, and suspends.
`await_message` reads a completion, `event_handler` resumes the coroutine, and
afterwards frees the coroutine's index if it has returned.  A non-awaitable
request has no coroutine: its completion is kept in `_ready_requests_store`
until a poller waits for one.  `kill()` awaits the single `_kill_coro_task`,
which stops new work, submits a cancel-everything operation and suspends until
`_in_flight_requests` is 0; the loop resumes it after every completion.

Coroutines call each other by `co_await` of an `EvTask`: the awaited one is
started if need be, keeps its awaiter's handle, and resumes it from its own
`final_suspend`.  A batch (`submit_and_wait`) is a library coroutine that queues
all the requests of a `RequestQueue` and counts their responses itself.  A
response travels through the one-slot channel in the promise of the coroutine
that is resumed with it, and its error as a `std::variant` of 8-bit codes.

What is hard here: the counter that alone decides when the ring may be torn
down; submissions that consume less than was queued; request data whose
lifetime is tied to a coroutine's; coroutines started before they are stored;
a kill that begins anywhere, also inside a coroutine the loop has just resumed;
statics that are only half protected by a mutex; a frame and an `EvTask` that
may each go first; an awaiter resumed from inside the coroutine that is about
to end; a batch whose counters are filled from calls that count everybody's
entries; one response slot for every kind of wait.

What makes each part correct:

- loop: the counter is exact; a suspended coroutine has exactly one request on
  its way; a freed index belongs to a finished coroutine;
- polling: a kept request is alive and kept once; it reaches a waiting poller;
  the handle kept for it is that of a coroutine that waits there;
- kill: no new work once it has begun; it ends; operations under way are
  resumed; the ring is quiet when it is torn down;
- store: a coroutine is not destroyed before it has finished;
- statics: the count is the number of rings and the shared descriptor is that
  of a ring; every constructor returns;
- coroutines: an awaiter goes on when, and only when, the awaited one has
  finished, with the code it returned; neither frame nor status is used when gone;
- batches: done means each request answered once and nothing left on the ring;
- channel and errors: an operation yields its own response and its own error.

## 2. Modules

| Module | What it is |
|---|---|
| `Uring` | the ring, from how the code uses liburing (external) |
| `Drain` | abstract: what a manager promises about operations and its own end |
| `EventManager` | extends `Uring`: the manager, its coroutines, the kernel; implements `Drain` |
| `Batch` | extends `Uring`: one `submit_and_wait` beside other users of the ring |
| `ErrorCodes` | `errors.hpp` and the conversions into it |
| `Channel` | extends `ErrorCodes`: the response slot, the response packs, `IOAwaitable::await_resume` |
| `Calls` | abstract: what awaiting a coroutine promises |
| `Tasks` | extends `Channel`: `EvTask`, its promise, and coroutines that await each other and operations; implements `Calls` |
| `SharedRing` | the shared statics, on several threads |
| `MCEventManager`, `MCBatch`, `MCTasks`, `MCSharedRing` | TLC instances: symmetry, negative values |
| `UringProofs` | lemmas about queues of operations and what each ring operation does to them |
| `EventManagerProofs` | extends `UringProofs`: the ring and its counter in `EventManager` |
| `DrainProofs` | extends `EventManagerProofs`: the refinement |
| `WakeupProofs` | extends `EventManagerProofs`: wakeups, and the plain usage |
| `BatchProofs` | extends `UringProofs`: theorems about `Batch` |
| `SharedRingProofs` | theorems about `SharedRing` |
| `TasksProofs` | extends `ErrorCodesProofs`: theorems about `Tasks`, and the safety half of `Calls` |
| `ErrorCodesProofs` | theorems about the error conversions |

### EventManager

`pc` is where `start()` and `await_message()` stand, `stack` the coroutines
whose code is being executed (innermost first; a coroutine that registers or
resumes another stays below it), `co` what each coroutine is doing: `new`,
`run`, `handler` (inside its poll handler), suspended in `io`, `poll` or
`kill`, `done`, `destroyed`.  `data` is the lifetime of each `RequestData`:
`free`, `await` (inside an awaitable), `na` (on the heap), `gone` (deleted or
out of scope while its entry is on the ring).  The other variables carry the
source's names.  Indices count from 1; the source's index 0 is 1.

Client code is an arbitrary sequence of calls into the library.  Each call is
an action: `register_coro` (with `store_coro`, what follows the coroutine's
first suspension), `io_await` (any of the twelve awaitable operations),
`io_restricted` (the same on a dying manager), `io_na`, `get_uring_sqe`,
`submit_queued_entries`, `poll`, `handler_continue`, `handler_stop`, `kill`,
`finish`.  The loop is `start`, `deliver_ready`/`ready_handled` (lines 34-39 of
`await_message`), `handle_cqe`/`cqe_handled` (`event_handler`, split where
client code runs), `seen` (the rest of `await_message`), `kill_finished`,
`wait_fails`, `wait_after_exit`.  `kernel_completes` is the kernel.

Undefined behaviour (a null or dangling pointer, the ring used after
`io_uring_queue_exit`) sets `fault`, after which nothing happens.  One read is
left out of `fault`, because every coroutine that finishes meets it:
`promise.is_done()` at `core.cpp` 322 reads the frame of the coroutine that has
just returned.  The model takes the outcome of memory that still holds the
promise.  What speaks for it is `PromiseInPlace` in `Tasks`: the frame is freed
by the last step before the read, whatever awaiters ran inside `final_suspend`.
`NoFault` and `FaultFree` say nothing about a build in which freed memory is
unmapped or overwritten at once.

The plain usage, `Admit = {}`, is: `main()` registers all coroutines, one kill
is begun by a running coroutine, and nothing is used after it.  `Admit` adds to
it: `syscall_fails` (a submission consumes less than all entries, or a wait
fails), `use_after_kill`, `register_late` (a running coroutine registers
another), `finish_unsuspended`, `early_kill` (before `start()`), `second_kill`.
Plain is not the same as what the examples do: `examples/http_example.cpp` 163
registers a coroutine per connection from the running listener, which is
`register_late`.  With it a coroutine can be destroyed whose request is in
flight, and its completion is then handled with its frame gone; run `destroyed`
shows the first of the two, and no property claims the absence of the second.

What is simplified:

- a coroutine stands for the helpers it awaits, coroutines that are not
  registered, `poll()` among them.  Nobody sets a helper's index, so a request
  may carry the first one (`request_idxs`), and when a helper has ended while its
  `EvTask` exists, in a variable of the awaiter or, for `poll()` itself, in the
  store, `event_handler` erases that index although the awaiter goes on
  (`cqe_handled` with `by_helper`, `ready_handled` after `handler_stop`).  A
  completion delivered to a destroyed poller is a fault at once;
- operations differ in parameters and results only, which are left out here;
  responses and return codes are the subject of `Channel` and `Tasks`;
- the cancel operation and raw operations have null user data.  A raw
  operation that carries the client's own user data would be taken for a
  `RequestData`, which no document allows;
- after any `io_uring_submit` liburing's `sqe_tail - sqe_head` is 0, so each
  flush loop of `kill_internal` runs at most once and its two "unable to be
  flushed" exits (lines 120-124, 145-149) cannot be taken;
- the completion queue does not overflow (it is twice the submission queue,
  and the kernel keeps what does not fit);
- `main()` calls `register_coro` and `start()` only; coroutines already started
  when they are registered and awaitables stored before they are awaited are
  left out, and coroutines awaiting each other are in `Tasks`.

`Drain` is the promise in the comment at `core.cpp` 94-103 without rings and
counters: operations are accepted while the manager is open, handed to the
kernel at most once and end at most once; closing takes in only the cancel
operation; closed means nothing handed over is left.  `ImplementsDrain` maps
`accepted` to the submission queue, `outstanding` to the kernel and the
completion queue, and the life states `NOT_STARTED`/`LIVING`, `DYING`, `DEAD` to
open, closing, closed.

### Batch

`queue_op` fills the queue, `submit_and_wait` is lines 262-283 (flush, take
entries, set the counters), `submit_batch` one turn of the inner loop 286-294,
`receive` a response (296-302) and `LoopHead` the test at 285.  `await_message`
is the loop handing a completion to the batch or to others; `other_queues` and
`other_submits` are the other coroutines, a kill among them.  `num_queued` is
unsigned and counted modulo `Wrap`, so that its underflow is modelled.

The counters are not what their comments say once other coroutines use the
submission queue: the first flush counts others' entries, and others' submits
send entries of the batch.  `mixed` records that this has happened.
`CompleteOnReturn` holds all the same, and that is its point: the sum of
`num_submitted` (not yet received), `num_queued` and the calls made so far never
changes modulo `Wrap`, so both counters are 0 only when there were as many calls
as requests and the first flush sent nothing.  What mixing costs is termination:
a batch whose first flush sent entries of others waits for responses that do
not come, and one whose entries others sent spins or waits (`BatchReturns` is
stated for a batch that has the queue for itself).  Requests that find the queue full are dropped.

### ErrorCodes, Channel

Operators, one per function of the source.  A variant is a record with the
alternative it holds; a conversion to an 8-bit enumeration is modulo 256.  A
response pack has its type, error number, descriptor and result; buffers and
path names are left out.

### Tasks

A coroutine has a frame (`coro`, with the promise's `task_status_ptr`,
`awaiter_handle` and `com_data`) and an `EvTask` object with its `TaskStatus`
(`object`, `started_coro`, `handler_done`, `ret_code`), a local of the coroutine
that created it.  Resuming and starting are nested calls on one thread; `stack`
has the calls that have not returned, and what each does next.  So `co_await` is
split where `start()` runs the other coroutine (`co_await`, `await_suspend`,
`await_resume`), and the end of a coroutine where the awaiter runs (`co_return`,
`final_suspend`, `final_rest`).  `drop` is the destructor of an `EvTask`,
`wait_response`, `refuse`, `event_handler` and `response` are the operations and
generic responses a coroutine waits for, with the real channel in between, and
`event_handled` is the end of `event_handler`, when the coroutine it resumed
(`handling`) has suspended or returned.

`fault` is "dangling" (a frame or `TaskStatus` that is gone is used),
"not_suspended" (a coroutine is resumed that is not suspended) or "null_status":
`IOAwaitable::await_suspend` takes the address of a member through
`task_status_ptr` (`io_awaitables.hpp` 52), which is null once the `EvTask` was
dropped.  That address is used nowhere, so the model has both outcomes, the
fault and a build that goes on.  `NoDangling` excludes the first two; the third
is what the code does, and no document says whether a coroutine may outlive its
`EvTask`.  The read of the promise at `core.cpp` 322, in `event_handled`, sets no
fault; `PromiseInPlace` says that nothing has run since the frame was freed.

`Calls` is the "semblance of sequential execution for a stack of coroutine
calls" of the README: a waiting coroutine goes on only when its callee has
finished, and then does (weak fairness of `Continue` is part of it, so
`ImplementsCalls` is a liveness property as well).

Simplified: an `EvTask` is awaited, started and dropped by the coroutine that
created it (it is not moved; moves of registered tasks are in `EventManager`),
so two different coroutines do not await one task, except for the kill task in
`EventManager`; requests of coroutines always come back in `event_handler`; the
entry a failing submission leaves queued is in `EventManager`; `resume<RespT>()`
is left out.  `Admit = {"await_again"}` lets a coroutine be awaited once more by
the awaiter it is just resuming.

### SharedRing

One manager per thread.  `lock` to `inc_write` are the constructor, with its
failing exits in `setup_fails`; `queue_exit` to `reset` the end of
`kill_internal`.  `ring_instances++` and `--` are a read and a write, the test for
the last ring and the reset of `shared_ring_fd` two steps more (`test_last`,
`reset`): those of `kill_internal` hold no mutex, and the data race is an
interleaving of these steps.  `Admit` switches on kills that overlap other managers' calls
and the death of the ring others are attached to; `used` records which of the
two have happened, and the properties say which they depend on.

## 3. Runs

| Run | Instance | Shows |
|---|---|---|
| `hostile` | 2 coroutines, 3 requests, 1 raw operation, depth 2, all of `Admit` | `TypeOK`, `InFlightExact`, `QuietWhenDead`, `NoLostWakeup`, `ReadyAlive`, `HandlesWaiting`, `NoNewWorkAfterKill`, `ImplementsDrain` |
| `plain` | 2 coroutines, 2 requests, 2 raw operations, depth 2, `Admit = {}`, fairness | `NoFault`, `NoLostWakeup`, `KillCompletes`, `CancelledResumed` |
| `shared` | 3 managers, 3 descriptors, all of `Admit`, fairness | `TypeOK`, `InstancesExact`, `SharedFdValid`, `PlainAttach`, `ConstructorsReturn` |
| `batch` | 3 requests, 2 operations of others, depth 3, fairness | `TypeOK`, `CompleteOnReturn`, `CountsExact`, `FaultOnlyAfterFailure`, `BatchReturns` |
| `tasks` | 3 coroutines, 2 types of request, a success and a failure, fairness | `TypeOK`, `StatusAgrees`, `NoDangling`, `PromiseInPlace`, `AwaiterKnown`, `AwaitYieldsReturn`, `OwnResponse`, `ImplementsCalls` |

`NoLostWakeup` says more in `plain` than in `hostile`.  With full submissions the
request of a suspended coroutine is in the kernel or answered.  With short ones
it may still be queued, because `await_suspend` takes a submission of other
entries for its own; it then waits for a further submission, and a manager that
is DEAD before leaves the coroutine suspended for ever.

Bounds.  Two coroutines and three requests give one coroutine suspended, one
running and requests of both kinds on the ring at once; a depth of 2 makes the
submission queue fill up and leaves leftovers of a partial submission beside a
new entry.  Two raw operations let a full queue meet a kill.  Destroying a live
coroutine takes four (the one in slot 0, the one that frees it, the one that
takes its place and one that does the registering), hence `destroyed`.  Requests
are reused after completion, so behaviours are unbounded and no counter is
capped.  Three managers are two that race and one that sees the result;
`Wrap = 8` is the width of `ring_instances`, more than can be counted to but
reached by an underflow.  In `batch`, three requests at depth 3 are a batch that
fits, is submitted in up to three parts and shares the queue with two entries of
others; `Wrap = 8 > 2 * QueueDepth` is what the argument above needs and far
below the real `2^32`.  In `tasks`, three coroutines are a call chain of depth
three, or two tasks of one owner; two request types tell a stale response of
the right type from one of the wrong type; a coroutine's name is not used
again, so each lives once.  Coroutines, requests and raw operations are
symmetric; symmetry is off in runs with liveness.

Deadlock is not checked: a loop without work blocks in `io_uring_wait_cqe` for
ever, a program ends when `start()` returns, and a fault ends a behaviour.

Fairness.

- `EventManager`: `main()` calls `start()`; the loop goes on; a running
  coroutine makes a further call, suspends or returns (`WF` on `Client`:
  coroutines are cooperative, and one that spins without calling the library
  stops the loop whatever the library does); and the kernel completes operations
  once it has consumed the cancel operation, which is what
  `IORING_ASYNC_CANCEL_ANY` promises.  Before that an operation may stay in the
  kernel for ever.
- `SharedRing`: every thread is scheduled.
- `Batch`: the thread goes on, and the kernel completes the requests of the
  batch.  Nothing is assumed of the other coroutines.
- `Tasks`: only the library's own steps are taken; a coroutine may stay in its
  body for ever, and an operation may never complete.

### Disagreements

Seven runs expect a violation; the finding of each quotes the line of the
repository that says otherwise.

| Run | Property | What happens |
|---|---|---|
| `use_after_kill` | `NoFault` | an operation on a dying manager builds an awaitable from a null manager |
| `destroyed` | `NeverDestroyed` | a coroutine's first request carries index 0, so slot 0 is freed in its place, and the next registration destroys the live coroutine there |
| `poll_stuck` | `ReadyPolled` | one ready request per completion is delivered; the rest wait for unrelated completions |
| `stale_fd` | `NoStaleAttach` | the shared descriptor outlives its ring; the next constructor fails |
| `batch_dropped` | `AllSubmitted` | requests that find the submission queue full are skipped and the batch returns 0 |
| `wrong_errno` | `ErrnoReported` | the error number is negated twice and cut to 8 bits: 125 becomes 131 |
| `await_again` | `ImplementsCalls` | a task awaited again by the awaiter it is just resuming never resumes it |

The usages that `Admit` names and `plain` leaves out are outside what the
properties of `plain` promise: a `kill()` before `start()` never ends (`start()`
refuses to loop), a second `co_await ev->kill()` replaces the first awaiter, which
is left suspended for ever, a coroutine registered by another can take the slot
of a live one, and in `SharedRing` a kill that overlaps another call loses an
update of `ring_instances`.  `hostile` and `shared` run with all of them, and what
they show holds regardless.

## 4. Proofs

Every invariant and action property that a passing run checks is a theorem for
all values of the constants.

| Theorem | Statement | Run |
|---|---|---|
| `EventManagerProofs` `TypeCorrect`, `InFlightCorrect`, `QuietCorrect`, `ReadyCorrect` | `Spec => []TypeOK`, `[]InFlightExact`, `[]QuietWhenDead`, `[]ReadyAlive` | `hostile` |
| `EventManagerProofs` `RestrictionCorrect` | `Spec => NoNewWorkAfterKill` | `hostile` |
| `DrainProofs` `DrainImplemented` | `Spec => ImplementsDrain` | `hostile` |
| `WakeupProofs` `WakeupCorrect` | `Spec => []NoLostWakeup` | `hostile`, `plain` |
| `WakeupProofs` `HandlesCorrect` | `Spec => []HandlesWaiting` | `hostile` |
| `WakeupProofs` `FaultFree`, `StoreCorrect` | `Admit` at most `early_kill`, `second_kill`: `Spec => []NoFault`, `[]NeverDestroyed` | `plain` |
| `BatchProofs` `TypeCorrect`, `CompletionCorrect`, `CountsCorrect`, `FaultCorrect` | `Spec => []TypeOK`, `[]CompleteOnReturn`, `[]CountsExact`, `[]FaultOnlyAfterFailure` | `batch` |
| `SharedRingProofs` `TypeCorrect`, `InstancesCorrect`, `SharedFdCorrect`, `AttachCorrect` | `Spec => []TypeOK`, `[]InstancesExact`, `[]SharedFdValid`, `[]PlainAttach` | `shared` |
| `TasksProofs` `TypeCorrect`, `StatusCorrect`, `DanglingFree`, `PromiseCorrect`, `AwaitCorrect`, `ResponseCorrect` | `Spec => []TypeOK`, `[]StatusAgrees`, `[]NoDangling`, `[]PromiseInPlace`, `[]AwaitYieldsReturn`, `[]OwnResponse` | `tasks` |
| `TasksProofs` `AwaiterCorrect` | `Admit = {}`: `Spec => []AwaiterKnown` | `tasks` |
| `TasksProofs` `CallsSafe` | `Spec` implies `Calls` without its fairness | `tasks` |
| `ErrorCodesProofs` `ErrorIffFailed`, `SubmissionErrorExact`, `OperationErrnoNegated` | facts for all numbers | - |

Where the table names no `Admit`, the theorem holds for every one.

Assumptions.  `EventManager`: finitely many requests; requests, raw operations
and the cancel operation are different things, and null is neither a coroutine
nor a request (`SetsAssumption`, `OpsAssumption`); the queue has an entry
(`QueueDepthAssumption`).  `Batch`: the batch is finite and its requests are not
those of others; the counters reach beyond twice the queue depth
(`BatchAssumption`; the code counts to `2^32`).  `SharedRing`: finitely many
managers, fewer than the counter can count, and descriptors above 0
(`SharedAssumption`).  `Tasks`: the sentinels differ from what they stand beside,
results are integers and return codes natural numbers (`TasksAssumption`).

None of the properties is inductive by itself; each proof has one lemma per
action about a stronger invariant that TLC checked first.

**EventManager, the ring** (`IInv`).  The counter is a natural number after
`seen` only because there is a completion to consume (`LoopInv`); adding the
number of entries consumed to it is right only if none of them is in the kernel
already (`RingInv`: an operation is in one place of the ring, once); that holds
when a `RequestData` is allocated only if a free one is off the ring, and so is
one kept for the poller, except for the completion that `event_handler` is
through with and that the next step consumes (`ReqInv`); and the cancel operation
is new when `kill_internal` queues it because there is one kill task (`KillInv`).
A poll handler runs only while the loop stands where it resumed the poller
(`HandlerInv`), so that the end of `poll()` finds the request it has to leave to
`event_handler`.
`QuietWhenDead` follows from the counter: a count of 0 leaves neither kernel nor
completion queue anything.  What a ring operation does is stated once, in
`UringProofs` (`SubmitOrder`, `GetSqeOrder`, `CompleteOrder`, `SeenOrder`), for this
proof and for that of `Batch`.

**EventManager, the refinement.**  One lemma per kind of step: `RequestAccepted`
and `RawAccepted` (`Accept`: a new operation is nowhere on the ring),
`QueuedSubmitted` (`Submit`), `KillCloses` (`Close`), `SeenEnds` (`End`: the operation
leaves the ring for good because it is there once); everything else stutters.

**EventManager, wakeups** (`WInv`).  `NoLostWakeup` speaks of a coroutine and its
request; it is kept because nobody else touches either.  Pending requests and
waiting coroutines correspond one to one (`OwnerInv`), so the request whose
completion resumes a coroutine is the only one it has; a request for the poller
has no handle as long as it is on the ring (`RequestInv`), so `event_handler`
cannot take it for an awaited one; and the coroutine that `await_message` or the
kill task resumes waits for just that (`WaiterInv`), so it is not one that waits
for an operation; `HandlesWaiting` is the part of `WaiterInv` that speaks of
handles kept for later.  `store_coro` may destroy a waiting coroutine, and then
its request goes with it.  That the request is not in the submission queue when
submissions are full is `QueueInv`: what is queued then are raw operations only.

**EventManager, the plain usage** (`PInv`).  Each `fault` needs something the plain
usage rules out, but over several steps: a request is deleted under its
completion only after a partial submission (`SubmitInv`); the store writes to a
freed coroutine, or destroys a live one, only if an index was freed or a
coroutine finished before the registration, and all registrations come before
`start()` (`MainInv`); the loop waits on an exited ring, or resumes a failed kill
task, only if `kill_internal` ends at once, and with everything submitted there
is room for the cancel operation and it is in flight (`KillerInv`).  The proof
showed that `early_kill` and `second_kill` do no harm to `NoFault`.

**Batch** (`IInv`).  `CompleteOnReturn` needs that both counters are wrong together
once other coroutines use the queue: `calls + (num_submitted - i) + num_queued`
equals the size of the batch plus what the first flush returned, up to a
multiple of `Wrap` (`CountInv`), and since none of these exceeds the queue depth,
`Wrap > 2 * QueueDepth` makes that multiple 0 on return.  The batch's operations on
the ring are `taken \ answered` (`OwnInv`); `AloneInv` gives `CountsExact`.

**SharedRing** (`IInv`).  The mutex excludes constructors from each other
(`MutexInv`) but not from `kill_internal`; as long as no kill has overlapped
another call, at most one manager is anywhere between (`AloneInv`), so the value a
thread has read is still the count when it writes (`CountInv`).  Rings and
managers correspond one to one (`RingsInv`), which makes the count that of the
descriptors; `FdInv` says when `shared_ring_fd` may be stale.

**Tasks** (`IInv`).  The shape of the call stack carries the proof: a coroutine has
one call on it at most, everything below the top is a step during which others
may run (`StackInv`), and each call says what its coroutine's state is
(`FrameInv`).  With what the `EvTask` and the frame know of each other (`ObjectInv`,
`ReturnInv`) and whom `final_suspend` will resume (`HandleInv`) this gives
`NoDangling`: the awaiter it resumes is suspended and not on the stack.
`PromiseInPlace` needs that the call on behalf of the coroutine `event_handler`
resumed is the outermost one until the stack is empty (`PlaceInv`): its
`final_rest` is then the call that empties it.  `AwaiterKnown` needs
more, that below the `await_suspend` of a coroutine there is no `final_suspend`
of its target that has already resumed its awaiter (`Ordered`), which is exactly
what `await_again` breaks.  `CallsSafe` maps `co_await`, `await_resume`, the starts
and `co_return` to the steps of `Calls`; everything else stutters there.

**ErrorCodes.**  For all numbers: an operation is reported as failed exactly if
its result is negative; a failed submission is reported with its errno; and a
failed operation with `256 - errno`, so that only 128 is right, which is what the
run `wrong_errno` shows for 125.

Only model-checked: what needs fairness, which the prover has no support for
(`KillCompletes`, `CancelledResumed`, `BatchReturns`, `ConstructorsReturn`, and the
weak fairness in `ImplementsCalls`), and the violations.

## 5. Not modelled, and the plan

Not modelled:

- `EvTask::resume<RespT>()`, which nothing in the library calls;
- parameters, buffers, path names and log output, which decide nothing;
- a completion queue that overflows, the depth of the machine's stack, and what
  an allocator does to memory that has just been freed;
- the examples and tests, which are clients of the library (the models' client
  code is any sequence of calls), and the build.

What is left:

1. Action properties behind the liveness ones that a proof can reach: that the
   kill task's progress (`kill_task`, `life_state`) never goes back, and that a
   batch's answers are never taken back.
2. How much of `Admit` each fault really needs: `NoFault` for a client that
   registers late but only while no index has been freed.
