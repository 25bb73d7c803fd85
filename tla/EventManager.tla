---------------------------- MODULE EventManager ----------------------------
(***************************************************************************)
(* The event loop: class EventManager (event_loop/core.cpp, io_ops.cpp,    *)
(* event_manager.hpp) together with the coroutines that run on it and the  *)
(* kernel at the other end of its ring.                                    *)
(*                                                                         *)
(* One thread runs everything but the kernel: main() registers coroutines  *)
(* and calls start(), the loop resumes coroutines, and a coroutine runs    *)
(* until it suspends or returns.  `pc` is where start() stands, `stack`    *)
(* the coroutines whose code is being executed, innermost first.  Calls    *)
(* of a coroutine into the manager are actions of their own, so the client *)
(* code is an arbitrary sequence of them.                                  *)
(*                                                                         *)
(* Undefined behaviour the code can run into (a null or dangling pointer   *)
(* used, the ring used after io_uring_queue_exit) sets `fault` and ends    *)
(* the behaviour.  One such read is met by every coroutine that finishes:  *)
(* event_handler asks the promise in the freed frame whether it is done    *)
(* (core.cpp 322).  No code runs between the end of that frame and the     *)
(* read (PromiseInPlace in Tasks), so that memory still holds the promise; *)
(* the model takes that outcome.                                           *)
(*                                                                         *)
(* A coroutine stands for the helpers it awaits, too: coroutines of its    *)
(* own that are not registered, poll() among them.                         *)
(***************************************************************************)
EXTENDS Uring, SequencesExt

CONSTANTS
  Coros,    \* coroutines that register_coro may be called with
  Reqs,     \* RequestData objects
  Raws,     \* operations prepared by the client on an SQE of get_uring_sqe()
  Cancel,   \* the cancel-everything operation of kill_internal
  None,     \* a null handle
  Admit     \* what clients and the environment do beyond the plain usage:
            \* coroutines registered by main(), one kill(), nothing after it

\* The behaviours that Admit may switch on.
Behaviours == {
  "syscall_fails",       \* io_uring_enter consumes less than it was offered
  "use_after_kill",      \* a manager whose kill has begun is used again
  "register_late",       \* a running coroutine calls register_coro (http_example.cpp)
  "finish_unsuspended",  \* a coroutine returns before it ever suspends
  "early_kill",          \* kill() before start()
  "second_kill" }        \* kill() while another kill() is under way

ASSUME SetsAssumption ==
  /\ IsFiniteSet(Reqs)
  /\ Reqs \cap Raws = {}
  /\ Cancel \notin Reqs \cup Raws
  /\ None \notin Coros \cup Reqs
  /\ Admit \subseteq Behaviours
ASSUME OpsAssumption == Ops = Reqs \cup Raws \cup {Cancel}

VARIABLES
  in_flight_requests,    \* _in_flight_requests
  life_state,            \* _manager_life_state
  kill_task,             \* how far _kill_coro_task has come
  kill_awaiter,          \* the coroutine its final_suspend will resume
  data,                  \* lifetime of each RequestData
  handle,                \* RequestData::handle
  coro_idx,              \* RequestData::coro_idx
  ready_requests_store,  \* _ready_requests_store
  polling_requests,      \* _polling_requests
  polling_handle,        \* _polling_handle
  co,                    \* what each coroutine is doing
  stack,                 \* coroutines being executed, innermost first
  registering,           \* coroutines register_coro has started, not stored
  items,                 \* ItemStore::_items, indexed from 1
  freed_idxs,            \* ItemStore::_freed_idxs
  metadata,              \* promise state.metadata: the coroutine's index
  pc,                    \* where start() stands
  cur,                   \* the request event_handler is working on
  fault                  \* undefined behaviour met, or "none"

killv == <<life_state, kill_task, kill_awaiter>>
reqv  == <<data, handle, coro_idx>>
pollv == <<ready_requests_store, polling_requests, polling_handle>>
execv == <<co, stack, registering>>
itemv == <<items, freed_idxs, metadata>>
loopv == <<pc, cur>>
vars  == <<ring, in_flight_requests, killv, reqv, pollv, execv, itemv, loopv, fault>>

Init ==
  /\ RingInit
  /\ in_flight_requests = 0
  /\ life_state = "NOT_STARTED" /\ kill_task = "idle" /\ kill_awaiter = None
  /\ data = [r \in Reqs |-> "free"]
  /\ handle = [r \in Reqs |-> None]
  /\ coro_idx = [r \in Reqs |-> 1]
  /\ ready_requests_store = <<>> /\ polling_requests = FALSE /\ polling_handle = None
  /\ co = [c \in Coros |-> "new"] /\ stack = <<>> /\ registering = {}
  /\ items = <<>> /\ freed_idxs = {}
  /\ metadata = [c \in Coros |-> 1]     \* index 0 until set_coro_metadata
  /\ pc = "main" /\ cur = None
  /\ fault = "none"

Faults(kind) ==
  /\ fault' = kind
  /\ UNCHANGED <<ring, in_flight_requests, killv, reqv, pollv, execv, itemv, loopv>>

-----------------------------------------------------------------------------
(* Executing client code.                                                  *)

\* Coroutine c is being executed, in its own body or in its poll handler.
Runs(c) == fault = "none" /\ stack # <<>> /\ Head(stack) = c /\ co[c] \in {"run", "handler"}
InBody(c) == Runs(c) /\ co[c] = "run"

\* c is resumed: its code runs on top of whatever is executing.
Resume(c) == co' = [co EXCEPT ![c] = "run"] /\ stack' = <<c>> \o stack

\* c suspends, or returns, into state s.  The caller goes on; when the caller
\* is register_coro, that is store_coro.
Leave(c, s) ==
  /\ co' = [co EXCEPT ![c] = s]
  /\ stack' = IF c \in registering THEN stack ELSE Tail(stack)
  /\ UNCHANGED registering

-----------------------------------------------------------------------------
(* register_coro and the ItemStore.                                        *)

\* coro.start(): the coroutine runs before it is stored and before it has
\* its index.
register_coro(c) ==
  /\ fault = "none"
  /\ co[c] = "new"
  /\ \/ pc = "main" /\ stack = <<>>
     \/ "register_late" \in Admit /\ \E d \in Coros : Runs(d)
  /\ Resume(c)
  /\ registering' = registering \cup {c}
  /\ UNCHANGED <<ring, in_flight_requests, killv, reqv, pollv, itemv, loopv, fault>>

\* push_back has to move the items to a larger vector (capacity doubles).
Grows == \E k \in 0..Len(items) : Len(items) = 2^k

\* The coroutine objects that the store's moves write a promise pointer to:
\* the moved-in one, and on growth all the others.
Touched(c) == {c} \cup IF freed_idxs = {} /\ Grows THEN Elems(items) ELSE {}

\* What EvTask::operator= destroys when slot i is overwritten.
Victims(i) == IF i > Len(items) \/ co[items[i]] = "done" THEN {} ELSE {items[i]}

\* ItemStore::insert picks any freed index, else appends.
InsertSlots == IF freed_idxs = {} THEN {Len(items) + 1} ELSE freed_idxs

\* The rest of register_coro: insert, with EvTask's move, and
\* set_coro_metadata.
store_coro(c) ==
  /\ fault = "none"
  /\ stack # <<>> /\ Head(stack) = c /\ c \in registering
  /\ co[c] \notin {"run", "handler"}
  /\ \E i \in InsertSlots :
       IF \/ \E d \in Touched(c) : co[d] = "done"
          \/ Victims(i) \cap Elems(stack) # {}
       THEN Faults("freed_memory")
       ELSE /\ items' = IF freed_idxs = {} THEN Append(items, c)
                        ELSE [items EXCEPT ![i] = c]
            /\ freed_idxs' = freed_idxs \ {i}
            /\ metadata' = [metadata EXCEPT ![c] = i]
            /\ co' = [d \in Coros |-> IF d \in Victims(i) THEN "destroyed" ELSE co[d]]
            /\ data' = [r \in Reqs |-> IF data[r] = "await" /\ handle[r] \in Victims(i)
                                       THEN "gone" ELSE data[r]]
            /\ stack' = Tail(stack)
            /\ registering' = registering \ {c}
            /\ UNCHANGED <<ring, in_flight_requests, killv, handle, coro_idx, pollv, loopv, fault>>

-----------------------------------------------------------------------------
(* Submission.                                                             *)

should_restrict_usage == life_state \in {"DYING", "DEAD"}

\* Mutant: get_uring_sqe without should_restrict_usage.
sqe_available_unrestricted == HasRoom(sq)

\* get_uring_sqe() returns an entry.
sqe_available == ~should_restrict_usage /\ HasRoom(sq)

\* How many of the entries in q one io_uring_enter may consume; 0 stands for
\* the errors, too.
Outcomes(q) == IF "syscall_fails" \in Admit THEN 0..Len(q) ELSE {Len(q)}

\* Mutant: one per successful submit call, not one per entry.
Counted_per_call(n) == in_flight_requests + (IF n > 0 THEN 1 ELSE 0)

\* _in_flight_requests after submit calls that consumed n entries.
Counted(n) == in_flight_requests + n

\* submit_queued_entries with q queued, of which the kernel takes n.
Submit(q, n) == uring_submit(q, n) /\ in_flight_requests' = Counted(n)

\* Mutant: off by one in that test.
submit_failed_off_by_one(n) == n <= 1

\* The test of IOAwaitable::await_suspend and of submit_request.
submit_failed(n) == n < 1

\* An awaitable operation called when usage is restricted: `return {}` makes
\* an awaitable from a null EventManager, whose constructor uses it.
io_restricted(c) ==
  /\ InBody(c) /\ should_restrict_usage
  /\ "use_after_kill" \in Admit
  /\ Faults("null_manager")

\* The submission queue with r prepared on the entry its awaitable has taken.
\* The twelve awaitables differ in the opcode and the parameters only.
prepare_sqring_op(r) == Append(sq, r)

\* The index in the promise of c, or of a helper of c, which nobody sets.
request_idxs(c) == {metadata[c], 1}

\* co_await ev->read(...) and the eleven other awaitable operations.  Without
\* an SQE the await is over at once with SUBMISSION_QUEUE_FULL.  When the
\* submission fails the coroutine goes on and its awaitable ends with the
\* await expression, but the entry stays queued.  A submission that consumed
\* other entries only is taken for a success.
io_await(c, r) ==
  /\ InBody(c) /\ ~should_restrict_usage
  /\ IF ~sqe_available
     THEN UNCHANGED vars
     ELSE /\ data[r] = "free"
          /\ handle' = [handle EXCEPT ![r] = c]
          /\ \E i \in request_idxs(c) : coro_idx' = [coro_idx EXCEPT ![r] = i]
          /\ \E n \in Outcomes(prepare_sqring_op(r)) :
               /\ Submit(prepare_sqring_op(r), n)
               /\ IF submit_failed(n)
                  THEN data' = [data EXCEPT ![r] = "gone"] /\ UNCHANGED execv
                  ELSE data' = [data EXCEPT ![r] = "await"] /\ Leave(c, "io")
          /\ UNCHANGED <<killv, pollv, itemv, loopv, fault>>

\* A new RequestData on the heap: no handle, index 0.
get_sqe_and_req_data(r) ==
  /\ data[r] = "free"
  /\ handle' = [handle EXCEPT ![r] = None]
  /\ coro_idx' = [coro_idx EXCEPT ![r] = 1]

\* A request whose submission fails is deleted, its entry stays queued.
submit_request(r, n) ==
  /\ Submit(Append(sq, r), n)
  /\ data' = [data EXCEPT ![r] = IF submit_failed(n) THEN "gone" ELSE "na"]

\* ev->read_na(...) and the eleven others; without an SQE nothing happens.
io_na(c, r) ==
  /\ Runs(c)
  /\ IF ~sqe_available
     THEN UNCHANGED vars
     ELSE /\ get_sqe_and_req_data(r)
          /\ \E n \in Outcomes(Append(sq, r)) : submit_request(r, n)
          /\ UNCHANGED <<killv, pollv, execv, itemv, loopv, fault>>

\* The client takes an SQE and prepares operation w on it, with no user data.
get_uring_sqe(c, w) ==
  /\ Runs(c)
  /\ IF ~sqe_available
     THEN UNCHANGED vars
     ELSE w \notin OnRing /\ get_sqe(w)
          /\ UNCHANGED <<in_flight_requests, killv, reqv, pollv, execv, itemv, loopv, fault>>

\* The client submits what is queued; this is not restricted while dying.
submit_queued_entries(c) ==
  /\ Runs(c)
  /\ IF life_state = "DEAD"
     THEN "use_after_kill" \in Admit /\ Faults("exited_ring")
     ELSE /\ \E n \in Outcomes(sq) : Submit(sq, n)
          /\ UNCHANGED <<killv, reqv, pollv, execv, itemv, loopv, fault>>

-----------------------------------------------------------------------------
(* Polling of the requests submitted by the _na operations.                *)

\* The poller is suspended in GenericResponse with _polling_handle set.
WaitForResponse(c) ==
  /\ polling_handle' = c
  /\ Leave(c, "poll")
  /\ UNCHANGED <<ring, in_flight_requests, killv, reqv, ready_requests_store,
                 itemv, loopv, fault>>

\* co_await ev->poll(handler); a second poller gets -1.
poll(c) ==
  /\ InBody(c)
  /\ IF polling_requests
     THEN UNCHANGED vars
     ELSE polling_requests' = TRUE /\ WaitForResponse(c)

\* The handler returns CONTINUE_POLLING.
handler_continue(c) ==
  Runs(c) /\ co[c] = "handler" /\ WaitForResponse(c) /\ UNCHANGED polling_requests

\* The handler returns STOP_POLLING: poll() ends and returns 0 to c.
handler_stop(c) ==
  /\ Runs(c) /\ co[c] = "handler"
  /\ polling_requests' = FALSE
  /\ co' = [co EXCEPT ![c] = "run"]
  /\ pc' = "ready_stopped"
  /\ UNCHANGED <<ring, in_flight_requests, killv, reqv, ready_requests_store, polling_handle,
                 stack, registering, itemv, cur, fault>>

-----------------------------------------------------------------------------
(* Killing the manager.                                                    *)

\* Mutant: does not wait for the last request.
drained_early(n) == n <= 1

\* The condition on which kill_internal stops waiting.
drained(n) == n = 0

\* kill_internal up to its first suspension: flush what is pending, queue the
\* cancel operation, submit it, and finish only if nothing is in flight.  A
\* flush loop ends after one submit, because that leaves PENDING at 0.
kill_internal(c) ==
  /\ kill_task = "idle"
  /\ "early_kill" \in Admit \/ life_state # "NOT_STARTED"
  /\ \E n1 \in IF pending = 0 THEN {0} ELSE Outcomes(sq) :
       LET rest == SubSeq(sq, n1 + 1, Len(sq)) IN
       IF ~HasRoom(rest)
       THEN /\ Submit(sq, n1)
            /\ life_state' = "DYING" /\ kill_task' = "failed"
            /\ UNCHANGED <<kill_awaiter, execv>>
       ELSE \E n2 \in Outcomes(Append(rest, Cancel)) :
            /\ Submit(Append(sq, Cancel), n1 + n2)
            /\ IF drained(in_flight_requests + n1 + n2)
               THEN /\ life_state' = "DEAD" /\ kill_task' = "done"
                    /\ UNCHANGED <<kill_awaiter, execv>>
               ELSE /\ life_state' = "DYING" /\ kill_task' = "waiting"
                    /\ kill_awaiter' = c
                    /\ Leave(c, "kill")
  /\ UNCHANGED <<reqv, pollv, itemv, loopv, fault>>

\* The awaiter after c has awaited _kill_coro_task once more.
next_awaiter(c) == c

\* co_await ev->kill().  A finished kill task answers at once; one under way
\* has its awaiter replaced.
kill(c) ==
  /\ InBody(c)
  /\ \/ kill_internal(c)
     \/ kill_task \in {"done", "failed"} /\ UNCHANGED vars
     \/ /\ kill_task \in {"waiting", "resuming"} /\ "second_kill" \in Admit
        /\ kill_awaiter' = next_awaiter(c)
        /\ Leave(c, "kill")
        /\ UNCHANGED <<ring, in_flight_requests, life_state, kill_task, reqv, pollv,
                       itemv, loopv, fault>>

\* The coroutine returns; its frame is freed at once (suspend_never).
finish(c) ==
  /\ InBody(c)
  /\ c \in registering => "finish_unsuspended" \in Admit
  /\ Leave(c, "done")
  /\ UNCHANGED <<ring, in_flight_requests, killv, reqv, pollv, itemv, loopv, fault>>

-----------------------------------------------------------------------------
(* The loop: start() and await_message().                                  *)

Idle == fault = "none" /\ stack = <<>>

start ==
  /\ Idle /\ pc = "main"
  /\ IF life_state = "NOT_STARTED"
     THEN life_state' = "LIVING" /\ pc' = "top"
     ELSE pc' = "exit" /\ UNCHANGED life_state
  /\ UNCHANGED <<ring, in_flight_requests, kill_task, kill_awaiter, reqv, pollv, execv,
                 itemv, cur, fault>>

\* await_message has a request to hand to the poller.
Deliverable == ready_requests_store # <<>> /\ polling_handle # None

\* Mutant: pop_back forgotten.
popped_not(q) == q

\* _ready_requests_store.pop_back().
popped(q) == Front(q)

\* Mutant: the poller forgets to reset it.
handle_taken_not == polling_handle

\* _polling_handle when the poller has been resumed.
handle_taken == None

\* await_message, lines 34-39: the newest ready request goes to the poller,
\* which takes _polling_handle back and calls its handler.
deliver_ready ==
  /\ Idle /\ pc = "top" /\ Deliverable
  /\ LET r == Last(ready_requests_store)
         c == polling_handle IN
     IF co[c] = "destroyed"
     THEN Faults("freed_memory")
     ELSE /\ ready_requests_store' = popped(ready_requests_store)
          /\ handle' = [handle EXCEPT ![r] = c]
          /\ polling_handle' = handle_taken
          /\ co' = [co EXCEPT ![c] = "handler"]
          /\ stack' = <<c>> \o stack
          /\ cur' = r /\ pc' = "ready_resumed"
          /\ UNCHANGED <<ring, in_flight_requests, killv, data, coro_idx, polling_requests,
                         registering, itemv, fault>>

\* Mutant: off by one in the index.
erased_idx_off_by_one(r) == coro_idx[r] - 1

\* What event_handler erases from the store when the coroutine it resumed has
\* finished.
erased_idx(r) == coro_idx[r]

\* The end of event_handler for a polled request.  If poll() has ended and its
\* EvTask still exists, in a variable of the awaiter or in the store, the index
\* of the request is erased.
ready_handled ==
  /\ Idle /\ pc \in {"ready_resumed", "ready_stopped"}
  /\ \/ UNCHANGED freed_idxs
     \/ pc = "ready_stopped" /\ freed_idxs' = freed_idxs \cup {erased_idx(cur)}
  /\ data' = [data EXCEPT ![cur] = "free"]
  /\ cur' = None /\ pc' = "wait"
  /\ UNCHANGED <<ring, in_flight_requests, killv, handle, coro_idx, pollv, execv, items,
                 metadata, fault>>

\* The loop has reached io_uring_wait_cqe.
AtWait == Idle /\ (pc = "wait" \/ (pc = "top" /\ ~Deliverable))

\* Mutant: a waiting poller is given every completion.
no_handle_if_polling(r) == handle[r] = None \/ polling_handle # None

\* event_handler keeps a completion for the poller.
no_handle(r) == handle[r] = None

\* io_uring_wait_cqe returns the oldest completion, and event_handler acts on
\* it: nothing to do without request data, else the request is kept for the
\* poller or its coroutine is resumed.
handle_cqe ==
  /\ AtWait /\ life_state # "DEAD" /\ cq # <<>>
  /\ LET e == Head(cq) IN
     IF e \notin Reqs
     THEN pc' = "seen" /\ UNCHANGED <<pollv, execv, cur, fault>>
     ELSE IF data[e] = "gone"
     THEN fault' = "freed_memory" /\ UNCHANGED <<pollv, execv, loopv>>
     ELSE IF no_handle(e)
     THEN /\ ready_requests_store' = Append(ready_requests_store, e)
          /\ pc' = "seen"
          /\ UNCHANGED <<polling_requests, polling_handle, execv, cur, fault>>
     ELSE /\ Resume(handle[e])
          /\ cur' = e /\ pc' = "resumed"
          /\ UNCHANGED <<pollv, registering, fault>>
  /\ UNCHANGED <<ring, in_flight_requests, killv, reqv, itemv>>

\* The request may be that of a helper.
by_helper(r) == coro_idx[r] = 1

\* The end of event_handler for an awaited request: the index is freed if the
\* coroutine has finished, or if a helper has and its EvTask still exists.
cqe_handled ==
  /\ Idle /\ pc = "resumed"
  /\ \/ /\ co[handle[cur]] # "done" \/ by_helper(cur)
        /\ UNCHANGED freed_idxs
     \/ /\ co[handle[cur]] = "done" \/ by_helper(cur)
        /\ freed_idxs' = freed_idxs \cup {erased_idx(cur)}
  /\ data' = [data EXCEPT ![cur] = "free"]
  /\ cur' = None /\ pc' = "seen"
  /\ UNCHANGED <<ring, in_flight_requests, killv, handle, coro_idx, pollv, execv, items,
                 metadata, fault>>

\* Mutant: the kill task is never resumed.
kill_wants_update_not == FALSE

\* The loop wakes the kill task after every completion of a dying manager.
kill_wants_update == life_state = "DYING"

\* The end of the kill task, and of the kill() that awaited it, resumes c.
final_suspend(c) == Resume(c)

\* kill_internal after its suspension: back to waiting, or DEAD, the ring torn
\* down, and its awaiter resumed by final_suspend.
resume_kill(n) ==
  IF ~drained(n)
  THEN pc' = "top" /\ UNCHANGED <<killv, execv>>
  ELSE /\ life_state' = "DEAD" /\ kill_task' = "resuming" /\ pc' = "killed"
       /\ final_suspend(kill_awaiter)
       /\ UNCHANGED <<kill_awaiter, registering>>

\* The rest of await_message: the completion is consumed and counted, and the
\* kill task resumed (a frame that no longer exists, if that task failed).
seen ==
  /\ Idle /\ pc = "seen"
  /\ IF /\ kill_wants_update
        /\ \/ kill_task = "failed"
           \/ drained(in_flight_requests - 1) /\ co[kill_awaiter] = "destroyed"
     THEN Faults("freed_memory")
     ELSE /\ cqe_seen
          /\ in_flight_requests' = in_flight_requests - 1
          /\ IF kill_wants_update
             THEN resume_kill(in_flight_requests - 1)
             ELSE pc' = "top" /\ UNCHANGED <<killv, execv>>
          /\ UNCHANGED <<reqv, pollv, itemv, cur, fault>>

\* The resumed killer has suspended or returned: final_suspend marks the kill
\* task done and the loop ends.
kill_finished ==
  /\ Idle /\ pc = "killed"
  /\ kill_task' = "done" /\ pc' = "exit"
  /\ UNCHANGED <<ring, in_flight_requests, life_state, kill_awaiter, reqv, pollv, execv,
                 itemv, cur, fault>>

\* io_uring_wait_cqe fails (EINTR): the null completion is used all the same.
wait_fails ==
  /\ AtWait /\ cq = <<>> /\ life_state # "DEAD" /\ "syscall_fails" \in Admit
  /\ Faults("null_cqe")

\* A poller killed the manager from the ready path and the loop waits on.
wait_after_exit == AtWait /\ life_state = "DEAD" /\ Faults("exited_ring")

\* The kernel completes operation e.
kernel_completes(e) ==
  /\ fault = "none"
  /\ complete(e)
  /\ UNCHANGED <<in_flight_requests, killv, reqv, pollv, execv, itemv, loopv, fault>>

-----------------------------------------------------------------------------
Loop ==
  \/ deliver_ready \/ ready_handled
  \/ handle_cqe \/ cqe_handled \/ seen \/ kill_finished
  \/ wait_fails \/ wait_after_exit

Client ==
  \E c \in Coros :
    \/ store_coro(c)
    \/ io_restricted(c)
    \/ \E r \in Reqs : io_await(c, r) \/ io_na(c, r)
    \/ \E w \in Raws : get_uring_sqe(c, w)
    \/ submit_queued_entries(c)
    \/ poll(c) \/ handler_continue(c) \/ handler_stop(c)
    \/ kill(c)
    \/ finish(c)

Next ==
  \/ \E c \in Coros : register_coro(c)
  \/ start
  \/ Loop
  \/ Client
  \/ \E e \in Ops : kernel_completes(e)

Spec == Init /\ [][Next]_vars

\* Once the cancel operation has been consumed, the kernel completes what it
\* holds; before that an operation may stay there for ever.
Cancelled == Cancel \notin Elems(sq) /\ kill_task = "waiting"

Fairness ==
  /\ WF_vars(start)
  /\ WF_vars(Loop)
  /\ WF_vars(Client)
  /\ WF_vars(Cancelled /\ \E e \in Ops : kernel_completes(e))

FairSpec == Spec /\ Fairness

-----------------------------------------------------------------------------
(* Properties.                                                             *)

KillType ==
  /\ life_state \in {"NOT_STARTED", "LIVING", "DYING", "DEAD"}
  /\ kill_task \in {"idle", "waiting", "resuming", "done", "failed"}
  /\ kill_awaiter \in Coros \cup {None}
ReqType ==
  /\ data \in [Reqs -> {"free", "await", "na", "gone"}]
  /\ handle \in [Reqs -> Coros \cup {None}]
  /\ coro_idx \in [Reqs -> Nat \ {0}]
PollType ==
  /\ ready_requests_store \in Seq(Reqs)
  /\ polling_requests \in BOOLEAN
  /\ polling_handle \in Coros \cup {None}
ExecType ==
  /\ co \in [Coros -> {"new", "run", "handler", "io", "poll", "kill", "done", "destroyed"}]
  /\ stack \in Seq(Coros)
  /\ registering \subseteq Coros
ItemType ==
  /\ items \in Seq(Coros)
  /\ freed_idxs \subseteq Nat \ {0}
  /\ metadata \in [Coros -> Nat \ {0}]
LoopType ==
  /\ pc \in {"main", "top", "ready_resumed", "ready_stopped", "wait", "resumed", "seen", "killed", "exit"}
  /\ cur \in Reqs \cup {None}
FaultType == fault \in {"none", "null_manager", "freed_memory", "exited_ring", "null_cqe"}

\* The manager's state has the types of its declarations; in particular
\* _in_flight_requests, an unsigned counter that await_message decrements
\* without a test, never goes below 0.
TypeOK ==
  /\ RingType /\ in_flight_requests \in Nat
  /\ KillType /\ ReqType /\ PollType /\ ExecType /\ ItemType /\ LoopType /\ FaultType

\* _in_flight_requests is the number of operations the kernel has consumed and
\* whose completion await_message has not consumed, whatever mixture of
\* awaited, polled, raw and cancel operations and of partial submissions it
\* went through: kill_internal decides on this number alone.
InFlightExact == in_flight_requests = Cardinality(kernel) + Len(cq)

\* The ring is torn down (kill_internal, io_uring_queue_exit) only when no
\* operation is left in the kernel and no completion is unread.
QuietWhenDead == life_state = "DEAD" => kernel = {} /\ cq = <<>>

\* Where the request of a suspended coroutine can be.
Submitted == kernel \cup Elems(cq)
OnItsWay == IF "syscall_fails" \in Admit THEN OnRing ELSE Submitted

\* A coroutine suspended on an operation is the owner of exactly one live
\* request, which the kernel has or has answered, so that event_handler will
\* resume it and resume nobody else for it.  Where submissions may be short, the
\* request may also still be queued: await_suspend takes a submission of other
\* entries for its own (io_awaitables.hpp 58).  Then it needs a further
\* submission, and if the manager is DEAD before that the coroutine is suspended
\* for ever; by QuietWhenDead these are the only ones a dead manager leaves.
NoLostWakeup ==
  \A c \in Coros : (fault = "none" /\ co[c] = "io") =>
    \E r \in Reqs :
      /\ data[r] = "await" /\ handle[r] = c /\ r \in OnItsWay /\ r # cur
      /\ \A s \in Reqs : data[s] = "await" /\ handle[s] = c /\ s # cur => s = r

\* The two handles that are kept to be resumed later, _polling_handle
\* (core.cpp 37) and the kill task's awaiter (task.cpp 13), are those of
\* coroutines that are suspended just there, or destroyed, and never of one that
\* runs, has returned or waits for something else: polls begun anew, kills
\* awaited by several and a killer that polls included.
HandlesWaiting ==
  /\ polling_handle # None => co[polling_handle] \in {"poll", "destroyed"}
  /\ kill_task = "waiting" => co[kill_awaiter] \in {"kill", "destroyed"}

\* A request kept for the poller is alive and is kept once: event_handler will
\* neither hand out a deleted RequestData nor delete one twice.
ReadyAlive ==
  /\ \A i \in DOMAIN ready_requests_store : data[ready_requests_store[i]] = "na"
  /\ \A i, j \in DOMAIN ready_requests_store :
        ready_requests_store[i] = ready_requests_store[j] => i = j

\* The program runs into none of the undefined behaviour that `fault` stands
\* for.  This is claimed for the plain usage: a coroutine that registers another,
\* as http_example.cpp 163 does, may get one destroyed whose completion is then
\* handled with its frame gone (NeverDestroyed).  event_handler's read of the
\* promise of a coroutine that has just returned (core.cpp 322) is not part of
\* `fault`: see the comment at the top.
NoFault == fault = "none"

\* Once kill_internal has begun, nothing is queued or submitted that was not
\* on the ring already, except by kill_internal itself (core.cpp 97).
NoNewWorkAfterKill ==
  [][should_restrict_usage => OnRing' \subseteq OnRing]_vars

\* What Drain calls the manager's state.
drain_state ==
  CASE life_state \in {"NOT_STARTED", "LIVING"} -> "open"
    [] life_state = "DYING" -> "closing"
    [] life_state = "DEAD" -> "closed"

Promise == INSTANCE Drain WITH
  accepted <- Elems(sq), outstanding <- kernel \cup Elems(cq), state <- drain_state

\* The manager implements Drain: through partial submissions, kills begun
\* anywhere and completions in any order, every operation is handed over and
\* completed at most once, a dying manager takes in only the cancel operation
\* (core.cpp 97-98), and it is DEAD only when nothing handed over is left
\* (core.cpp 99-100).
ImplementsDrain == Promise!Spec

\* A coroutine is never destroyed before it has finished: an index is freed
\* only when the coroutine in that slot has finished (core.cpp 323), and
\* ItemStore::insert reuses no other.
NeverDestroyed == \A c \in Coros : co[c] # "destroyed"

\* A kill that has begun ends with the ring shut down (core.cpp 99-100).
KillCompletes == life_state = "DYING" ~> life_state = "DEAD"

\* A coroutine suspended on an operation when the manager is killed is resumed
\* with the cancelled operation's result before the loop ends.
CancelledResumed ==
  \A c \in Coros : (co[c] = "io" /\ life_state = "DYING") ~> co[c] # "io"

\* A completed non-awaitable request is handed to a poller that waits for one
\* (event_manager.hpp 148), unless the manager is killed.
ReadyPolled ==
  \A r \in Reqs :
    (Deliverable /\ \E i \in DOMAIN ready_requests_store : ready_requests_store[i] = r)
      ~> \/ \A i \in DOMAIN ready_requests_store : ready_requests_store[i] # r
         \/ polling_handle = None \/ life_state # "LIVING"
=============================================================================
