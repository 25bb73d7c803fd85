------------------------------- MODULE Batch -------------------------------
(***************************************************************************)
(* One batch: a RequestQueue filled by its client and the coroutine        *)
(* EventManager::submit_and_wait (event_loop/io_ops.cpp) that sends it,    *)
(* on a ring that other coroutines use, too.                               *)
(*                                                                         *)
(* submit_and_wait decides when it is done from two counters of its own,   *)
(* num_submitted and num_queued, which it fills with what io_uring_submit  *)
(* returns.  That call counts the entries of every coroutine, and a submit *)
(* of any other coroutine sends entries of the batch.  `mixed` remembers   *)
(* that entries of the batch and of others have met that way.              *)
(*                                                                         *)
(* The other coroutines, the loop and the batch share one thread: nothing  *)
(* else runs while the batch does (pc = "submit").  That the loop counts   *)
(* and consumes a completion only after the coroutine it resumed has       *)
(* suspended makes no difference here.  Nothing of this module happens on  *)
(* a DEAD manager: a batch with an operation in flight keeps it DYING.     *)
(* When the last response ends the batch, event_handler still reads its    *)
(* RequestData (core.cpp 322-327), which has just been freed; as in        *)
(* EventManager, that memory is taken to be intact.                        *)
(***************************************************************************)
EXTENDS Uring

CONSTANTS
  Own,     \* the requests the client puts in its RequestQueue
  Others,  \* operations of other coroutines
  Wrap     \* num_queued is unsigned: it is counted modulo Wrap

ASSUME BatchAssumption ==
  /\ IsFiniteSet(Own) /\ Own \cap Others = {} /\ Ops = Own \cup Others
  /\ Wrap \in Nat /\ Wrap > 2 * QueueDepth

VARIABLES
  req_vec,        \* RequestQueue::req_vec
  pc,             \* where submit_and_wait stands
  num_submitted,
  num_queued,
  i,              \* responses received since num_submitted was set
  taken,          \* requests that got a submission entry
  answered,       \* requests whose response the handler was called with
  calls,          \* how often the handler was called
  restricted,     \* should_restrict_usage(): a kill has begun
  mixed,          \* history: entries of the batch and of others have met
  fault           \* a completion for request data that is gone was handled

batchv == <<req_vec, pc, num_submitted, num_queued, i, taken, answered, calls, mixed>>
vars == <<ring, batchv, restricted, fault>>

Init ==
  /\ RingInit
  /\ req_vec = <<>> /\ pc = "building"
  /\ num_submitted = 0 /\ num_queued = 0 /\ i = 0
  /\ taken = {} /\ answered = {} /\ calls = 0
  /\ restricted = FALSE /\ mixed = FALSE /\ fault = FALSE

OwnQueued == Elems(sq) \cap Own
OwnInProcess == (kernel \cup Elems(cq)) \cap Own

-----------------------------------------------------------------------------
(* The client and the batch.                                               *)

\* queue_read and the eleven others; they differ in the parameter pack.
queue_op(r) ==
  /\ pc = "building" /\ r \notin Elems(req_vec)
  /\ req_vec' = Append(req_vec, r)
  /\ UNCHANGED <<ring, pc, num_submitted, num_queued, i, taken, answered, calls, mixed,
                 restricted, fault>>

\* What io_uring_submit may return with q queued: a negative errno, or the
\* number of entries consumed.
Returns(q) == IF q = <<>> THEN {0} ELSE {-1} \cup 1..Len(q)

\* Mutant: returns when either counter is 0.
Done_either(submitted, queued) == submitted = 0 \/ queued = 0

\* The condition on which the loop of submit_and_wait ends.
Done(submitted, queued) == submitted = 0 /\ queued = 0

\* The head of the loop: return 0, submit, or wait for responses.
LoopHead(submitted, queued) ==
  /\ num_submitted' = submitted /\ num_queued' = queued /\ i' = 0
  /\ pc' = IF Done(submitted, queued) THEN "returned"
           ELSE IF submitted = 0 THEN "submit" ELSE "waiting"

\* process_single_generic_request for each request: those that get an entry,
\* with q left in the submission queue.  The others are skipped.
process_requests(q) ==
  LET room == IF restricted THEN 0 ELSE QueueDepth - Len(q)
  IN  SubSeq(req_vec, 1, IF room < Len(req_vec) THEN room ELSE Len(req_vec))

\* Mutant: the flush at the beginning is not counted, all are waited for.
first_count_all(n, q) == Len(q)

\* num_submitted at first: what the flush returned.
first_count(n, q) == n

\* submit_and_wait: flush what is queued, then queue the batch.
submit_and_wait ==
  /\ pc = "building"
  /\ \E n \in Returns(sq) :
       IF n < 0
       THEN uring_submit(sq, 0) /\ pc' = "failed"
            /\ UNCHANGED <<num_submitted, num_queued, i, taken, mixed>>
       ELSE LET rest == SubSeq(sq, n + 1, Len(sq))
                q    == process_requests(rest)
            IN  /\ sq' = rest \o q /\ pending' = Len(q)
                /\ kernel' = kernel \cup {sq[k] : k \in 1..n}
                /\ taken' = Elems(q)
                /\ mixed' = (sq # <<>>)
                /\ LoopHead(first_count(n, q), Len(q))
                /\ UNCHANGED cq
  /\ UNCHANGED <<req_vec, answered, calls, restricted, fault>>

\* Mutant: the count of queued entries is not brought down.
still_queued_same(n) == num_queued

\* Mutant: num_queued as a signed number.
still_queued_signed(n) == num_queued - n

\* num_queued after a submit that returned n.
still_queued(n) == (num_queued - n) % Wrap

\* The inner loop.  A submit that returns 0 is repeated; one that fails ends
\* the coroutine, which frees the request data of entries still on the ring.
submit_batch ==
  /\ pc = "submit"
  /\ \E n \in Returns(sq) :
       IF n < 0
       THEN uring_submit(sq, 0) /\ pc' = "failed"
            /\ UNCHANGED <<num_submitted, num_queued, i>>
       ELSE /\ uring_submit(sq, n)
            /\ num_submitted' = n /\ num_queued' = still_queued(n) /\ i' = 0
            /\ pc' = IF n = 0 THEN "submit" ELSE "waiting"
  /\ UNCHANGED <<req_vec, taken, answered, calls, mixed, restricted, fault>>

-----------------------------------------------------------------------------
(* The loop and the other coroutines.                                      *)

\* Mutant: one response is enough.
all_received_one(k) == k >= 1

\* The for loop over the responses ends.
all_received(k) == k = num_submitted

\* event_handler resumes the batch with the response to its request r, and
\* the handler is called.
receive(r) ==
  /\ pc = "waiting"
  /\ answered' = answered \cup {r} /\ calls' = calls + 1
  /\ IF all_received(i + 1)
     THEN LoopHead(0, num_queued)
     ELSE i' = i + 1 /\ UNCHANGED <<pc, num_submitted, num_queued>>
  /\ UNCHANGED <<req_vec, taken, mixed, fault>>

\* await_message with the oldest completion.
await_message ==
  /\ pc # "submit" /\ ~fault /\ cq # <<>>
  /\ \/ Head(cq) \in Others /\ UNCHANGED <<batchv, fault>>
     \/ Head(cq) \in Own /\ receive(Head(cq))
     \/ Head(cq) \in Own /\ pc # "waiting" /\ fault' = TRUE /\ UNCHANGED batchv
  /\ cqe_seen
  /\ UNCHANGED restricted

\* Code of other coroutines runs.
OthersRun == pc # "submit" /\ ~fault

\* Another coroutine takes an entry for operation o.
other_queues(o) ==
  /\ OthersRun /\ ~restricted /\ HasRoom(sq) /\ o \notin OnRing
  /\ get_sqe(o)
  /\ mixed' = (mixed \/ OwnQueued # {})
  /\ UNCHANGED <<req_vec, pc, num_submitted, num_queued, i, taken, answered, calls,
                 restricted, fault>>

\* Another coroutine submits, for itself or to kill the manager.
other_submits ==
  /\ OthersRun /\ sq # <<>>
  /\ \E n \in Returns(sq) : uring_submit(sq, IF n < 0 THEN 0 ELSE n)
  /\ mixed' = (mixed \/ OwnQueued # {})
  /\ restricted' \in {restricted, TRUE}
  /\ UNCHANGED <<req_vec, pc, num_submitted, num_queued, i, taken, answered, calls, fault>>

kernel_completes(e) == ~fault /\ complete(e) /\ UNCHANGED <<batchv, restricted, fault>>

-----------------------------------------------------------------------------
Next ==
  \/ \E r \in Own : queue_op(r)
  \/ submit_and_wait \/ submit_batch
  \/ await_message
  \/ \E o \in Others : other_queues(o)
  \/ other_submits
  \/ \E e \in Ops : kernel_completes(e)

Spec == Init /\ [][Next]_vars

\* The thread goes on, and the kernel completes the requests of the batch.
Fairness ==
  /\ WF_vars(submit_batch)
  /\ WF_vars(await_message)
  /\ \A r \in Own : WF_vars(kernel_completes(r))

FairSpec == Spec /\ Fairness

-----------------------------------------------------------------------------
(* Properties.                                                             *)

\* The counters and the ring have the types of their declarations.
TypeOK ==
  /\ RingType /\ req_vec \in Seq(Own)
  /\ pc \in {"building", "submit", "waiting", "returned", "failed"}
  /\ num_submitted \in Nat /\ num_queued \in 0..(Wrap - 1) /\ i \in Nat
  /\ taken \subseteq Own /\ answered \subseteq Own /\ calls \in Nat
  /\ restricted \in BOOLEAN /\ mixed \in BOOLEAN /\ fault \in BOOLEAN

\* When submit_and_wait returns 0, the handler has been called exactly once
\* for each request that got an entry and nothing of the batch is left on the
\* ring, whatever other coroutines queued and submitted meanwhile, however
\* the submissions were cut up, and although the counters may then have been
\* wrong on the way (io_ops.cpp 279-303).
CompleteOnReturn ==
  pc = "returned" => /\ answered = taken /\ calls = Cardinality(taken)
                     /\ OnRing \cap Own = {}

\* As long as the batch has the submission queue for itself, its counters are
\* what the comments at io_ops.cpp 279 and 282 say: how many of its requests
\* are being processed, and how many are queued, through partial submissions.
CountsExact ==
  pc \in {"submit", "waiting"} /\ ~mixed =>
    /\ num_submitted - i = Cardinality(OwnInProcess)
    /\ num_queued = Cardinality(OwnQueued)

\* Request data of the batch is used after it is gone only if submit_and_wait
\* gave up on a failing submission.
FaultOnlyAfterFailure == fault => pc = "failed"

\* A batch that has the submission queue for itself returns.
BatchReturns ==
  (pc \in {"submit", "waiting"} /\ ~mixed) ~> (pc \in {"returned", "failed"} \/ mixed)

\* All the requests of the queue are submitted and answered when
\* submit_and_wait returns 0 on a manager that is not being killed (README.md
\* 50: "queue up a bunch of operations, and then you can submit them all at
\* once").
AllSubmitted == pc = "returned" /\ ~restricted => answered = Elems(req_vec)
=============================================================================
