------------------------------- MODULE Tasks -------------------------------
(***************************************************************************)
(* Coroutines that create, start and await each other: EvTask and its      *)
(* promise (coroutine/task.hpp, task.cpp), with the operations and the     *)
(* generic responses they are resumed from by the event loop.              *)
(*                                                                         *)
(* A coroutine has a frame, which frees itself when the coroutine has      *)
(* returned (final_suspend never suspends), and an EvTask object, a local  *)
(* of the coroutine that created it, with a TaskStatus that both refer to. *)
(* Either may go first.                                                    *)
(*                                                                         *)
(* Resuming and starting are nested calls on one thread.  `stack` has the  *)
(* calls that have not returned, innermost first: <<step, t>> where step   *)
(* is what runs on behalf of t next,                                       *)
(*   "body"           the coroutine's own code                             *)
(*   "suspend"        EvTask::await_suspend after start() has returned     *)
(*   "resumed"        EvTask::await_resume, in the awaiting coroutine      *)
(*   "response"       IOAwaitable::await_resume or a response handler      *)
(*   "final_suspend"  final_suspend                                        *)
(*   "final_rest"     final_suspend after the awaiter's resume() returned  *)
(* An empty stack means that control is with main(), with the loop, or, if *)
(* `handling` is set, with the end of event_handler.                       *)
(*                                                                         *)
(* Undefined behaviour sets `fault` and ends the behaviour.                *)
(***************************************************************************)
EXTENDS Channel, Sequences

CONSTANTS
  Tasks, None,
  Types,      \* the types of request that are made
  Results,    \* results of operations; negative ones are errors
  Codes,      \* values a coroutine may co_return
  Exception,  \* what stands in their place when it throws
  Admit       \* usage beyond the plain one

\* The usages Admit may switch on.
Usages == {
  "await_again" }  \* a coroutine that is just returning to its awaiter is awaited again

ASSUME TasksAssumption ==
  /\ None \notin Tasks \cup Codes \cup {Exception} /\ Exception \notin Codes
  /\ Types \subseteq RequestType /\ Results \subseteq Int /\ Codes \subseteq Nat
  /\ Admit \subseteq Usages

VARIABLES
  stack,            \* calls that have not returned, see above
  coro,             \* the state of each coroutine
  task_status_ptr,  \* promise: task_status_ptr is not null
  awaiter_handle,   \* promise: the coroutine final_suspend resumes
  com_data,         \* promise: the communication channel
  object,           \* lifetime of each EvTask, with its TaskStatus
  owner,            \* the coroutine whose local the EvTask is, or None: main()
  started_coro,     \* EvTask::_started_coro
  handler_done,     \* TaskStatus::handler_done
  ret_code,         \* TaskStatus::ret_code
  target,           \* the task a suspended coroutine awaits
  op,               \* the request a suspended coroutine waits for
  error,            \* IOAwaitable::error of the one whose await_resume is next
  completion,       \* type and result of the operation whose response is next
  handling,         \* the coroutine event_handler has resumed, while it has not returned
  returned,         \* history: what a coroutine returned or threw, while its EvTask lives
  fault             \* undefined behaviour met, or "none"

promisev == <<task_status_ptr, awaiter_handle>>
objectv == <<object, owner, started_coro, handler_done, ret_code>>
iov == <<com_data, op, error, completion, handling>>
vars == <<stack, coro, promisev, objectv, target, iov, returned, fault>>

Init ==
  /\ stack = <<>>
  /\ coro = [t \in Tasks |-> "none"]
  /\ task_status_ptr = [t \in Tasks |-> FALSE]
  /\ awaiter_handle = [t \in Tasks |-> None]
  /\ com_data = [t \in Tasks |-> monostate]
  /\ object = [t \in Tasks |-> "none"]
  /\ owner = [t \in Tasks |-> None]
  /\ started_coro = [t \in Tasks |-> FALSE]
  /\ handler_done = [t \in Tasks |-> FALSE]
  /\ ret_code = [t \in Tasks |-> 0]
  /\ target = [t \in Tasks |-> None]
  /\ op = [t \in Tasks |-> None]
  /\ error = no_error
  /\ completion = None
  /\ handling = None
  /\ returned = [t \in Tasks |-> None]
  /\ fault = "none"

At(step, t) == fault = "none" /\ stack # <<>> /\ Head(stack) = <<step, t>>
Running(t) == At("body", t)
Becomes(step, t) == stack' = <<<<step, t>>>> \o Tail(stack)
Call(step, t, rest) == <<<<step, t>>>> \o rest
Owns(p, t) == owner[t] = p /\ object[t] = "alive"

Faults(kind) ==
  /\ fault' = kind
  /\ UNCHANGED <<stack, coro, promisev, objectv, target, iov, returned>>

-----------------------------------------------------------------------------
(* Creation and start.                                                     *)

\* Names are given to coroutines in a fixed order.
Fresh == CHOOSE t \in Tasks : coro[t] = "none"

\* A coroutine function is called: the frame waits in initial_suspend, and
\* get_return_object connects it with the caller's EvTask.
Created(p, t) ==
  /\ coro[t] = "none" /\ t = Fresh
  /\ object' = [object EXCEPT ![t] = "alive"]
  /\ owner' = [owner EXCEPT ![t] = p]
  /\ task_status_ptr' = [task_status_ptr EXCEPT ![t] = TRUE]

create(p, t) ==
  /\ Running(p)
  /\ Created(p, t)
  /\ coro' = [coro EXCEPT ![t] = "initial"]
  /\ UNCHANGED <<stack, awaiter_handle, started_coro, handler_done, ret_code, target, iov,
                 returned, fault>>

\* main() registers a coroutine, which starts it.
register_coro(t) ==
  /\ fault = "none" /\ stack = <<>> /\ handling = None
  /\ Created(None, t)
  /\ started_coro' = [started_coro EXCEPT ![t] = TRUE]
  /\ coro' = [coro EXCEPT ![t] = "running"]
  /\ stack' = Call("body", t, stack)
  /\ UNCHANGED <<awaiter_handle, handler_done, ret_code, target, iov, returned, fault>>

\* p calls start() on a task it holds.  What follows the resume in start()
\* reads the frame only if handler_done is not set.
start(p, t) ==
  /\ Running(p) /\ Owns(p, t) /\ ~started_coro[t]
  /\ started_coro' = [started_coro EXCEPT ![t] = TRUE]
  /\ coro' = [coro EXCEPT ![t] = "running"]
  /\ stack' = Call("body", t, stack)
  /\ UNCHANGED <<promisev, object, owner, handler_done, ret_code, target, iov, returned, fault>>

-----------------------------------------------------------------------------
(* Awaiting a task.                                                        *)

\* co_await t: p is suspended, and await_suspend starts t if need be.
co_await(p, t) ==
  /\ Running(p) /\ Owns(p, t)
  /\ coro[t] = "returning" => "await_again" \in Admit
  /\ target' = [target EXCEPT ![p] = t]
  /\ LET rest == Call("suspend", p, Tail(stack)) IN
     IF started_coro[t]
     THEN stack' = rest /\ coro' = [coro EXCEPT ![p] = "await"] /\ UNCHANGED started_coro
     ELSE /\ stack' = Call("body", t, rest)
          /\ coro' = [coro EXCEPT ![p] = "await", ![t] = "running"]
          /\ started_coro' = [started_coro EXCEPT ![t] = TRUE]
  /\ UNCHANGED <<promisev, object, owner, handler_done, ret_code, iov, returned, fault>>

\* Mutant: whatever is not running is taken for complete.
is_done_suspended(t) == coro[t] # "running"

\* EvTask::is_done().
is_done(t) == handler_done[t]

\* The rest of await_suspend: p is resumed at once if t is complete, else t
\* will resume it.
await_suspend(p) ==
  /\ At("suspend", p)
  /\ LET t == target[p] IN
     IF is_done(t)
     THEN Becomes("resumed", p) /\ UNCHANGED <<awaiter_handle, fault>>
     ELSE IF coro[t] = "freed"
     THEN fault' = "dangling" /\ UNCHANGED <<stack, awaiter_handle>>
     ELSE /\ awaiter_handle' = [awaiter_handle EXCEPT ![t] = p]
          /\ stack' = Tail(stack)
          /\ UNCHANGED fault
  /\ UNCHANGED <<coro, task_status_ptr, objectv, target, iov, returned>>

\* EvTask::await_resume: what co_await t yields.
await_value(t) == IF object[t] = "alive" THEN ret_code[t] ELSE -1

\* p goes on behind its co_await.
await_resume(p) ==
  /\ At("resumed", p)
  /\ coro' = [coro EXCEPT ![p] = "running"]
  /\ target' = [target EXCEPT ![p] = None]
  /\ Becomes("body", p)
  /\ UNCHANGED <<promisev, objectv, iov, returned, fault>>

-----------------------------------------------------------------------------
(* The end of a coroutine and of an EvTask.                                *)

\* Mutant: the destructor leaves the promise alone.
detached_not(ts) == {}

\* The tasks among ts whose promise ~EvTask tells that the status is gone.
detached(ts) == {t \in ts : ~handler_done[t]}

\* f without what it says of the tasks ts, whose memory is gone.
Forget(f, ts, v) == [t \in Tasks |-> IF t \in ts THEN v ELSE f[t]]

\* ~EvTask for the tasks ts.
Destroyed(ts) ==
  /\ object' = Forget(object, ts, "destroyed")
  /\ handler_done' = Forget(handler_done, ts, FALSE)
  /\ started_coro' = Forget(started_coro, ts, FALSE)
  /\ owner' = Forget(owner, ts, None)
  /\ task_status_ptr' = [t \in Tasks |-> task_status_ptr[t] /\ t \notin detached(ts)]

\* ~EvTask would write to a frame that is gone.
Dangling(ts) == \E t \in detached(ts) : coro[t] = "freed"

\* An EvTask of p goes out of scope; its coroutine, if unfinished, goes on.
drop(p, t) ==
  /\ Running(p) /\ Owns(p, t)
  /\ IF Dangling({t})
     THEN Faults("dangling")
     ELSE /\ Destroyed({t})
          /\ ret_code' = Forget(ret_code, {t}, 0)
          /\ returned' = Forget(returned, {t}, None)
          /\ UNCHANGED <<stack, coro, awaiter_handle, target, iov, fault>>

\* Mutant: the code of a coroutine that was awaited is not stored.
return_value_unawaited(t, c) ==
  IF c = Exception \/ awaiter_handle[t] # None THEN ret_code[t] ELSE c

\* Mutant: an exception is stored as a negative code.
return_value_signed(t, c) == IF c = Exception THEN -1 ELSE c

\* ret_code after return_value(c), or after unhandled_exception, which keeps
\* the exception in the promise, where nobody finds it any more.
return_value(t, c) == IF c = Exception THEN ret_code[t] ELSE c

\* t returns c, or throws; its locals are destroyed.
co_return(t, c) ==
  /\ Running(t)
  /\ LET mine == {u \in Tasks : Owns(t, u)} IN
     IF Dangling(mine) \/ (task_status_ptr[t] /\ object[t] # "alive")
     THEN Faults("dangling")
     ELSE /\ Destroyed(mine)
          /\ LET heard == {t} \cap {u \in Tasks : task_status_ptr[u]} IN
             /\ ret_code' = Forget(Forget(ret_code, mine, 0), heard, return_value(t, c))
             /\ returned' = Forget(Forget(returned, mine, None), heard, c)
          /\ coro' = [coro EXCEPT ![t] = "returning"]
          /\ Becomes("final_suspend", t)
          /\ UNCHANGED <<awaiter_handle, target, iov, fault>>

\* Mutant: the awaiter of a coroutine that threw is not resumed.
to_resume_unless_thrown(t) == IF returned[t] = Exception THEN None ELSE awaiter_handle[t]

\* Whom final_suspend resumes.
to_resume(t) == awaiter_handle[t]

\* Mutant: control is transferred to the awaiter, and the frame freed.
final_suspend_transfer(t) ==
  /\ At("final_suspend", t) /\ to_resume(t) # None
  /\ coro' = [coro EXCEPT ![t] = "freed"]
  /\ stack' = Call("resumed", to_resume(t), Tail(stack))
  /\ UNCHANGED <<promisev, objectv, target, iov, returned, fault>>

\* final_suspend resumes the awaiter first ...
final_suspend(t) ==
  /\ At("final_suspend", t)
  /\ LET p == to_resume(t) IN
     IF p = None
     THEN Becomes("final_rest", t) /\ UNCHANGED fault
     ELSE IF coro[p] # "await"
     THEN fault' = "not_suspended" /\ UNCHANGED stack
     ELSE stack' = Call("resumed", p, Call("final_rest", t, Tail(stack))) /\ UNCHANGED fault
  /\ UNCHANGED <<coro, promisev, objectv, target, iov, returned>>

\* Mutant: only a task that was awaited is marked done.
marked_done_awaited(t) == task_status_ptr[t] /\ awaiter_handle[t] # None

\* Whether final_suspend sets handler_done.
marked_done(t) == task_status_ptr[t]

\* ... and marks the task done when the awaiter has suspended or returned.
\* The frame is freed.
final_rest(t) ==
  /\ At("final_rest", t)
  /\ IF task_status_ptr[t] /\ object[t] # "alive"
     THEN Faults("dangling")
     ELSE /\ handler_done' = [handler_done EXCEPT ![t] = @ \/ marked_done(t)]
          /\ coro' = [coro EXCEPT ![t] = "freed"]
          /\ task_status_ptr' = Forget(task_status_ptr, {t}, FALSE)
          /\ awaiter_handle' = Forget(awaiter_handle, {t}, None)
          /\ com_data' = Forget(com_data, {t}, monostate)
          /\ stack' = Tail(stack)
          /\ UNCHANGED <<object, owner, started_coro, ret_code, target, op, error,
                         completion, handling, returned, fault>>

-----------------------------------------------------------------------------
(* Responses.                                                              *)

Fd == 5  \* the descriptor of the requests

\* IOAwaitable::await_suspend takes the address of handler_done by way of
\* task_status_ptr without a test.  It is null once the EvTask is gone.  The
\* address is used nowhere, so that a build may fail here or go on.
NullStatus(t) == ~task_status_ptr[t] /\ Faults("null_status")

\* t awaits an operation of type rt, or a "generic" response (poll and
\* submit_and_wait).
wait_response(t, rt) ==
  /\ Running(t)
  /\ \/ rt # "generic" /\ NullStatus(t)
     \/ /\ op' = [op EXCEPT ![t] = rt]
        /\ coro' = [coro EXCEPT ![t] = "io"]
        /\ stack' = Tail(stack)
        /\ UNCHANGED <<promisev, objectv, target, com_data, error, completion, handling, returned,
                       fault>>

\* What io_uring_submit returned when await_suspend takes it for a failure.
Refusals == {0, -11}

\* The errors IOAwaitable's constructor and await_suspend set.
SubmissionErrors == {submission_error(ret) : ret \in Refusals}
AwaitableErrors ==
  {set_error_from_enum("EVENT_MANAGER_ERR", SUBMISSION_QUEUE_FULL)} \cup SubmissionErrors

\* t awaits an operation that is not made: there is no entry for it, and
\* await_ready skips await_suspend, or submitting it fails, and t goes on at
\* once.  (The entry that stays queued in the second case is a matter of
\* EventManager.)
refuse(t, rt, e) ==
  /\ Running(t)
  /\ \/ e \in SubmissionErrors /\ NullStatus(t)
     \/ /\ op' = [op EXCEPT ![t] = rt]
        /\ error' = e
        /\ Becomes("response", t)
        /\ UNCHANGED <<coro, promisev, objectv, target, com_data, completion, handling, returned,
                       fault>>

\* event_handler publishes the response to a request of t and resumes t.
event_handler(t, rt, res) ==
  /\ fault = "none" /\ stack = <<>> /\ handling = None
  /\ coro[t] = "io" /\ op[t] \in {rt, "generic"}
  /\ com_data' = [com_data EXCEPT ![t] = publish_resp_data(@, response_pack(rt, res, Fd))]
  /\ completion' = [type |-> rt, res |-> res]
  /\ handling' = t
  /\ stack' = Call("response", t, stack)
  /\ UNCHANGED <<coro, promisev, objectv, target, op, error, returned, fault>>

\* The end of event_handler, when the resume has returned: it asks the promise
\* of t whether t is done, also if the frame is freed (PromiseInPlace).  What it
\* does with the answer is a matter of EventManager.
event_handled ==
  /\ fault = "none" /\ stack = <<>> /\ handling # None
  /\ handling' = None
  /\ UNCHANGED <<stack, coro, promisev, objectv, target, com_data, op, error, completion, returned,
                 fault>>

\* t goes on with the response.  A handler of generic responses may leave it
\* in the channel.
response(t) ==
  /\ At("response", t)
  /\ \/ is_there_an_error(error) /\ UNCHANGED com_data
     \/ /\ op[t] # "generic" /\ ~is_there_an_error(error)
        /\ com_data' = [com_data EXCEPT ![t] = consume_resp_data(@, op[t])]
     \/ op[t] = "generic" /\ com_data' = [com_data EXCEPT ![t] = consume_resp_data(@, @.type)]
     \/ op[t] = "generic" /\ UNCHANGED com_data
  /\ op' = [op EXCEPT ![t] = None]
  /\ error' = no_error
  /\ completion' = None
  /\ coro' = [coro EXCEPT ![t] = "running"]
  /\ Becomes("body", t)
  /\ UNCHANGED <<promisev, objectv, target, handling, returned, fault>>

-----------------------------------------------------------------------------
\* The steps of the library once control is with it.
Library ==
  \E t \in Tasks :
    await_suspend(t) \/ await_resume(t) \/ final_suspend(t) \/ final_rest(t) \/ response(t)

Client ==
  \E t \in Tasks :
    \/ register_coro(t)
    \/ \E u \in Tasks : create(t, u) \/ start(t, u) \/ co_await(t, u) \/ drop(t, u)
    \/ \E rt \in Types \cup {"generic"} : wait_response(t, rt)
    \/ \E rt \in Types, e \in AwaitableErrors : refuse(t, rt, e)
    \/ \E c \in Codes \cup {Exception} : co_return(t, c)

Next ==
  \/ Library \/ Client \/ event_handled
  \/ \E t \in Tasks, rt \in Types, res \in Results : event_handler(t, rt, res)

Spec == Init /\ [][Next]_vars

\* The thread goes on while it executes the library.
FairSpec == Spec /\ WF_vars(Library)

-----------------------------------------------------------------------------
(* Properties.                                                             *)

Steps == {"body", "suspend", "resumed", "response", "final_suspend", "final_rest"}

\* The state has the types of its declarations.
TypeOK ==
  /\ stack \in Seq(Steps \X Tasks)
  /\ coro \in [Tasks -> {"none", "initial", "running", "io", "await", "returning", "freed"}]
  /\ task_status_ptr \in [Tasks -> BOOLEAN]
  /\ awaiter_handle \in [Tasks -> Tasks \cup {None}]
  /\ object \in [Tasks -> {"none", "alive", "destroyed"}]
  /\ owner \in [Tasks -> Tasks \cup {None}]
  /\ started_coro \in [Tasks -> BOOLEAN] /\ handler_done \in [Tasks -> BOOLEAN]
  /\ ret_code \in [Tasks -> Codes \cup {0}]
  /\ target \in [Tasks -> Tasks \cup {None}]
  /\ op \in [Tasks -> Types \cup {"generic", None}] /\ error \in ErrorCodes
  /\ handling \in Tasks \cup {None}
  /\ returned \in [Tasks -> Codes \cup {Exception, None}]
  /\ fault \in {"none", "dangling", "not_suspended", "null_status"}

OnStack(step, t) == \E k \in DOMAIN stack : stack[k] = <<step, t>>

\* The promise and the EvTask agree about each other although either may go
\* first: a frame that lives points to a TaskStatus exactly if that lives, and
\* a TaskStatus that outlives the frame says that the coroutine is done.
\* EvTask's destructor, assignment, start and await_suspend, and
\* final_suspend, all use the one after a look at the other.
StatusAgrees ==
  \A t \in Tasks :
    /\ coro[t] \notin {"none", "freed"} => (task_status_ptr[t] <=> object[t] = "alive")
    /\ coro[t] = "freed" /\ object[t] = "alive" => handler_done[t]

\* No step of EvTask, of its promise or of a response uses a frame or a
\* TaskStatus that is gone, or resumes a coroutine that is not suspended.  Two
\* accesses are not covered: the member of a null TaskStatus whose address
\* await_suspend takes (io_awaitables.hpp 52, "null_status"), and the read of the
\* promise by event_handler when its coroutine has finished (core.cpp 322), of
\* which PromiseInPlace speaks.
NoDangling == fault \notin {"dangling", "not_suspended"}

\* event_handler reads the promise of the coroutine it has resumed (core.cpp
\* 322) also when that has finished and its frame is freed.  The frame is then
\* freed by the very last step before the read: no awaiter that final_suspend
\* resumed, and nothing nested in it, runs in between and could get that memory
\* for a new frame or destroy the TaskStatus the promise points to.
PromiseInPlace ==
  handling # None /\ coro[handling] = "freed" => stack = <<>>

\* A coroutine suspended in co_await t is going to be resumed, by await_suspend,
\* which is still under way, or by the final_suspend of t, which is still to
\* come and knows its awaiter.
AwaiterKnown ==
  \A p \in Tasks : coro[p] = "await" =>
    \/ OnStack("suspend", p) \/ OnStack("resumed", p)
    \/ /\ awaiter_handle[target[p]] = p
       /\ \/ coro[target[p]] \in {"running", "io", "await"}
          \/ OnStack("final_suspend", target[p])

\* co_await t yields what t returned, and 0 if t ended with an exception.
AwaitYieldsReturn ==
  \A p \in Tasks : At("resumed", p) =>
    LET c == returned[target[p]] IN
    /\ c # None
    /\ await_value(target[p]) = IF c = Exception THEN 0 ELSE c

\* What await_resume is about to yield to the coroutine that awaits an
\* operation.
IOResponse(t) == await_resume_io(error, com_data[t], op[t])

\* An awaited operation yields the response to this operation, with an error
\* exactly if the operation failed, and one that was not made its own error
\* and no data, whatever earlier responses handlers left in the channel.
OwnResponse ==
  \A t \in Tasks : At("response", t) /\ op[t] # "generic" =>
    IF is_there_an_error(error)
    THEN IOResponse(t) = [error |-> error, data |-> monostate]
    ELSE /\ IOResponse(t).data = response_pack(completion.type, completion.res, Fd)
         /\ is_there_an_error(IOResponse(t).error) <=> completion.res < 0
         /\ IOResponse(t).error.type # "EVENT_MANAGER_ERR"

\* The error of a failed operation is the errno it failed with (errors.hpp 23:
\* Errnos has the numbers of errno.h; README.md 59).
ErrnoReported ==
  \A t \in Tasks :
    At("response", t) /\ op[t] # "generic" /\ ~is_there_an_error(error) /\ completion.res < 0 =>
    get_contained_error_code(IOResponse(t).error, "OPERATION_ERR_ERRNO") = {-completion.res}

\* What Calls sees of a coroutine.
call_status ==
  [t \in Tasks |-> CASE coro[t] \in {"none", "initial"} -> "idle"
                     [] coro[t] \in {"running", "io"} -> "active"
                     [] coro[t] = "await" -> "waiting"
                     [] OTHER -> "finished"]

Abstract == INSTANCE Calls WITH status <- call_status, callee <- target

\* EvTask implements Calls: an awaiting coroutine goes on only when the awaited
\* one has finished, and then it does go on, whether the awaited one finished
\* inside start(), later, or before it was awaited.
ImplementsCalls == Abstract!Spec
=============================================================================
