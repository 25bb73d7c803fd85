---------------------------- MODULE WakeupProofs ----------------------------
(***************************************************************************)
(* Machine-checked proofs about EventManager, continued: no coroutine is   *)
(* lost on an operation, and the handles kept for the poller and the       *)
(* killer are those of coroutines that wait, whatever Admit admits; and in *)
(* the plain usage the manager meets no undefined behaviour.               *)
(*                                                                         *)
(* NoLostWakeup speaks of one coroutine and its request.  What keeps it is *)
(* the other direction, that nobody but the owner's own completion touches *)
(* a coroutine in co_await: requests that are pending have an owner that   *)
(* waits, and whoever poll() or the kill task resumes waits for that.      *)
(***************************************************************************)
EXTENDS EventManagerProofs

-----------------------------------------------------------------------------
(* The inductive invariant.                                                *)

\* An awaited request that event_handler is not working on.
Pending(r) == data[r] = "await" /\ r # cur

\* Pending requests and coroutines that wait for an operation correspond, one
\* to one, and the requests are on the ring and unhandled.
OwnerInv ==
  /\ \A r \in Reqs : Pending(r) => co[handle[r]] = "io" /\ r \in OnRing /\ ~Handled(r)
  /\ \A r, s \in Reqs : Pending(r) /\ Pending(s) /\ handle[r] = handle[s] => r = s
  /\ \A c \in Coros : co[c] = "io" => \E r \in Reqs : Pending(r) /\ handle[r] = c

\* event_handler has a request only while client code runs in it, and takes a
\* request without a handle for one to poll.
RequestInv ==
  /\ pc \notin {"resumed", "ready_resumed", "ready_stopped"} => cur = None
  /\ \A r \in Reqs : data[r] = "na" /\ r \in OnRing => handle[r] = None

WInv == OwnerInv /\ RequestInv /\ HandlesWaiting

\* The owner of a pending request is a coroutine.
LEMMA PendingOwner ==
  ASSUME IInv, NEW r \in Reqs, Pending(r)
  PROVE  handle[r] \in Coros
BY DEF IInv, TypeOK, ReqType, ReqInv, Pending

\* A step that neither adds nor removes a pending request or an owner.
LEMMA OwnersKept ==
  ASSUME IInv, OwnerInv,
         \A r \in Reqs : Pending(r)' <=> Pending(r),
         \A r \in Reqs : Pending(r) => handle'[r] = handle[r] /\ r \in OnRing' /\ ~Handled(r)',
         \A c \in Coros : co'[c] = "io" <=> co[c] = "io"
  PROVE  OwnerInv'
<1>1. \A r \in Reqs : Pending(r)' => co'[handle'[r]] = "io" /\ r \in OnRing' /\ ~Handled(r)'
  BY PendingOwner DEF OwnerInv
<1>2. \A r, s \in Reqs : Pending(r)' /\ Pending(s)' /\ handle'[r] = handle'[s] => r = s
  BY DEF OwnerInv
<1>3. \A c \in Coros : co'[c] = "io" => \E r \in Reqs : Pending(r)' /\ handle'[r] = c
  BY DEF OwnerInv
<1>. QED  BY <1>1, <1>2, <1>3 DEF OwnerInv

\* A step that disturbs nobody who waits for a response or for the kill task.
LEMMA WaitersKept ==
  ASSUME IInv, HandlesWaiting,
         polling_handle' \in {polling_handle, None},
         kill_task' = "waiting" => kill_task = "waiting" /\ kill_awaiter' = kill_awaiter,
         \A c \in Coros : co[c] \in {"poll", "kill", "destroyed"} => co'[c] \in {co[c], "destroyed"}
  PROVE  HandlesWaiting'
BY DEF IInv, TypeOK, PollType, KillType, KillInv, HandlesWaiting

\* A step of client code, or of the kernel, that touches no request.
LEMMA WakeupKept ==
  ASSUME IInv, WInv, UNCHANGED <<data, handle, cur>>, pc' \in {pc, "ready_stopped"},
         OnRing \subseteq OnRing', OnRing' \cap Reqs \subseteq OnRing,
         \A r : Handled(r)' => Handled(r),
         \A c \in Coros : co'[c] = co[c] \/ (co[c] \in {"new", "run", "handler"} /\ co'[c] # "io"),
         polling_handle' = polling_handle \/ co'[polling_handle'] = "poll",
         kill_task' = "waiting" =>
           (kill_task = "waiting" /\ kill_awaiter' = kill_awaiter) \/ co'[kill_awaiter'] = "kill"
  PROVE  WInv'
<1>1. OwnerInv'
  <2>1. \A r \in Reqs : Pending(r)' <=> Pending(r)
    BY DEF Pending
  <2>2. \A r \in Reqs : Pending(r) => handle'[r] = handle[r] /\ r \in OnRing' /\ ~Handled(r)'
    BY DEF WInv, OwnerInv
  <2>3. \A c \in Coros : co'[c] = "io" <=> co[c] = "io"
    OBVIOUS
  <2>. QED  BY <2>1, <2>2, <2>3, OwnersKept DEF WInv
<1>2. RequestInv'
  BY DEF WInv, RequestInv
<1>3. HandlesWaiting'
  BY DEF WInv, HandlesWaiting, IInv, TypeOK, PollType, KillType, KillInv
<1>. QED  BY <1>1, <1>2, <1>3 DEF WInv

-----------------------------------------------------------------------------
(* Each action preserves the invariant.                                    *)

\* Steps that change nothing but the fault.
LEMMA SameWakeup ==
  ASSUME IInv, WInv,
         UNCHANGED <<ring, in_flight_requests, killv, reqv, pollv, execv, itemv, loopv>>
  PROVE  WInv'
<1>1. OnRing' = OnRing /\ cq' = cq
  BY InvRingOK, RingUnchanged
<1>2. UNCHANGED <<data, handle, cur, pc, co, polling_handle, kill_task, kill_awaiter>>
  BY DEF killv, reqv, pollv, execv, loopv
<1>3. \A r : Handled(r)' => Handled(r)
  BY <1>1, <1>2 DEF Handled
<1>. QED  BY <1>1, <1>2, <1>3, WakeupKept

\* A coroutine that is started waits for nothing.
LEMMA RegisterWakeup ==
  ASSUME IInv, WInv, NEW c \in Coros, register_coro(c)
  PROVE  WInv'
<1>1. OnRing' = OnRing /\ cq' = cq
  BY InvRingOK, RingUnchanged DEF register_coro
<1>2. UNCHANGED <<data, handle, cur, pc, polling_handle, kill_task, kill_awaiter>>
  BY DEF register_coro, killv, reqv, pollv, loopv
<1>3. \A r : Handled(r)' => Handled(r)
  BY <1>1, <1>2 DEF Handled
<1>4. \A d \in Coros : co'[d] = co[d] \/ (co[d] = "new" /\ co'[d] = "run")
  BY DEF register_coro, Resume, IInv, TypeOK, ExecType
<1>. QED  BY <1>1, <1>2, <1>3, <1>4, WakeupKept

\* A coroutine the store destroys takes its pending request with it.
LEMMA StoreWakeup ==
  ASSUME IInv, WInv, NEW c \in Coros, store_coro(c)
  PROVE  WInv'
<1>1. CASE Faults("freed_memory")
  BY <1>1, SameWakeup DEF Faults
<1>2. CASE ~Faults("freed_memory")
  <2>1. PICK i \in InsertSlots :
          /\ co' = [d \in Coros |-> IF d \in Victims(i) THEN "destroyed" ELSE co[d]]
          /\ data' = [r \in Reqs |-> IF data[r] = "await" /\ handle[r] \in Victims(i)
                                     THEN "gone" ELSE data[r]]
          /\ UNCHANGED <<ring, in_flight_requests, killv, handle, coro_idx, pollv, loopv, fault>>
    BY <1>2 DEF store_coro
  <2>2. OnRing' = OnRing /\ cq' = cq
    BY <2>1, InvRingOK, RingUnchanged
  <2>3. UNCHANGED <<handle, cur, pc, polling_handle, kill_task, kill_awaiter>>
    BY <2>1 DEF killv, pollv, loopv
  <2>4. \A r : Handled(r)' => Handled(r)
    BY <2>2, <2>3 DEF Handled
  <2>5. \A r \in Reqs : Pending(r)' <=> Pending(r) /\ handle[r] \notin Victims(i)
    BY <2>1, <2>3 DEF Pending
  <2>6. \A d \in Coros : co'[d] = IF d \in Victims(i) THEN "destroyed" ELSE co[d]
    BY <2>1
  <2>7. OwnerInv'
    <3>1. \A r \in Reqs : Pending(r)' => co'[handle'[r]] = "io" /\ r \in OnRing' /\ ~Handled(r)'
      BY <2>2, <2>3, <2>4, <2>5, <2>6, PendingOwner DEF WInv, OwnerInv
    <3>2. \A r, s \in Reqs : Pending(r)' /\ Pending(s)' /\ handle'[r] = handle'[s] => r = s
      BY <2>3, <2>5 DEF WInv, OwnerInv
    <3>3. \A d \in Coros : co'[d] = "io" => \E r \in Reqs : Pending(r)' /\ handle'[r] = d
      BY <2>3, <2>5, <2>6 DEF WInv, OwnerInv
    <3>. QED  BY <3>1, <3>2, <3>3 DEF OwnerInv
  <2>8. RequestInv'
    <3>1. \A r \in Reqs : data'[r] = "na" => data[r] = "na"
      BY <2>1
    <3>. QED  BY <3>1, <2>2, <2>3 DEF WInv, RequestInv
  <2>9. HandlesWaiting'
    BY <2>3, <2>6, WaitersKept DEF WInv
  <2>. QED  BY <2>7, <2>8, <2>9 DEF WInv
<1>. QED  BY <1>1, <1>2

\* A request that client code allocates is new on the ring.
LEMMA NewOnRing ==
  ASSUME IInv, NEW c \in Coros, Runs(c), NEW r \in Reqs, data[r] = "free",
         NEW n \in Outcomes(Append(sq, r)), Submit(Append(sq, r), n)
  PROVE  cq' = cq /\ OnRing' = OnRing \cup {r} /\ r \notin OnRing
<1>1. r \in Ops \ OnRing
  BY ClientInLoop, OpsAssumption DEF IInv, ReqInv
<1>2. Append(sq, r) \in Seq(Ops)
  BY <1>1, InvRingOK, AppendProperties DEF RingOK, RingType
<1>3. n \in 0..Len(Append(sq, r))
  BY <1>2, OutcomesType
<1>. QED  BY <1>1, <1>3, InvRingOK, SubmitNew

\* Client code allocates another request than the one in event_handler.
LEMMA FreshRequest ==
  ASSUME IInv, WInv, NEW c \in Coros, Runs(c), NEW r \in Reqs, data[r] = "free"
  PROVE  r # cur
<1>1. pc \in {"main", "resumed", "ready_resumed", "ready_stopped", "killed"} /\ \A x : ~Handled(x)
  BY ClientInLoop
<1>2. CASE pc = "resumed"
  <2>1. cur \in OnRing
    BY <1>2, InvRingOK, TailElems DEF IInv, LoopInv, RingOK, RingType, RingInv, OnRing
  <2>. QED  BY <2>1, <1>1 DEF IInv, ReqInv
<1>3. CASE pc \in {"ready_resumed", "ready_stopped"}
  BY <1>3 DEF IInv, LoopInv
<1>4. CASE pc \in {"main", "killed"}
  BY <1>4, SetsAssumption DEF WInv, RequestInv
<1>. QED  BY <1>1, <1>2, <1>3, <1>4

\* A coroutine that awaits an operation becomes the owner of one request.
LEMMA IoAwaitWakeup ==
  ASSUME IInv, WInv, NEW c \in Coros, NEW r \in Reqs, io_await(c, r)
  PROVE  WInv'
<1>1. CASE ~sqe_available
  BY <1>1, SameWakeup DEF io_await, vars
<1>2. CASE sqe_available
  <2>1. /\ Runs(c) /\ co[c] = "run" /\ data[r] = "free"
        /\ handle' = [handle EXCEPT ![r] = c]
        /\ UNCHANGED <<killv, pollv, itemv, loopv, fault>>
    BY <1>2 DEF io_await, InBody
  <2>2. PICK n \in Outcomes(Append(sq, r)) :
          /\ Submit(Append(sq, r), n)
          /\ IF submit_failed(n)
             THEN data' = [data EXCEPT ![r] = "gone"] /\ UNCHANGED execv
             ELSE data' = [data EXCEPT ![r] = "await"] /\ Leave(c, "io")
    BY <1>2 DEF io_await, prepare_sqring_op
  <2>3. cq' = cq /\ OnRing' = OnRing \cup {r} /\ r \notin OnRing
    BY <2>1, <2>2, NewOnRing
  <2>4. r # cur
    BY <2>1, FreshRequest
  <2>5. UNCHANGED <<cur, pc, polling_handle, kill_task, kill_awaiter>>
    BY <2>1 DEF killv, pollv, loopv
  <2>6. \A x : ~Handled(x)'
    BY <2>1, <2>5, ClientInLoop DEF Handled
  <2>7. /\ handle'[r] = c /\ data'[r] \in {"await", "gone"}
        /\ \A x \in Reqs : x # r => handle'[x] = handle[x] /\ data'[x] = data[x]
    BY <2>1, <2>2 DEF IInv, TypeOK, ReqType
  <2>8. ~Pending(r) /\ \A x \in Reqs : x # r => (Pending(x)' <=> Pending(x))
    BY <2>1, <2>5, <2>7 DEF Pending
  <2>9. \A d \in Coros : d # c => co'[d] = co[d]
    BY <2>2 DEF Leave, execv, IInv, TypeOK, ExecType
  <2>10. co'[c] = IF Pending(r)' THEN "io" ELSE "run"
    <3>1. CASE submit_failed(n)
      BY <2>1, <2>2, <3>1 DEF Pending, execv, IInv, TypeOK, ReqType
    <3>2. CASE ~submit_failed(n)
      BY <2>2, <2>4, <2>5, <3>2 DEF Pending, Leave, IInv, TypeOK, ReqType, ExecType
    <3>. QED  BY <3>1, <3>2
  <2>11. \A x \in Reqs : Pending(x) => handle[x] # c
    BY <2>1 DEF WInv, OwnerInv
  <2>12. OwnerInv'
    <3>1. \A x \in Reqs : Pending(x)' => co'[handle'[x]] = "io" /\ x \in OnRing' /\ ~Handled(x)'
      BY <2>3, <2>6, <2>7, <2>8, <2>9, <2>10, <2>11, PendingOwner DEF WInv, OwnerInv
    <3>2. \A x, y \in Reqs : Pending(x)' /\ Pending(y)' /\ handle'[x] = handle'[y] => x = y
      BY <2>7, <2>8, <2>11 DEF WInv, OwnerInv
    <3>3. \A d \in Coros : co'[d] = "io" => \E x \in Reqs : Pending(x)' /\ handle'[x] = d
      BY <2>7, <2>8, <2>9, <2>10 DEF WInv, OwnerInv
    <3>. QED  BY <3>1, <3>2, <3>3 DEF OwnerInv
  <2>13. RequestInv'
    BY <2>3, <2>5, <2>7 DEF WInv, RequestInv
  <2>14. HandlesWaiting'
    BY <2>1, <2>5, <2>9, WaitersKept DEF WInv
  <2>. QED  BY <2>12, <2>13, <2>14 DEF WInv
<1>. QED  BY <1>1, <1>2

\* A non-awaitable request has no owner.
LEMMA IoNaWakeup ==
  ASSUME IInv, WInv, NEW c \in Coros, NEW r \in Reqs, io_na(c, r)
  PROVE  WInv'
<1>1. CASE ~sqe_available
  BY <1>1, SameWakeup DEF io_na, vars
<1>2. CASE sqe_available
  <2>1. /\ Runs(c) /\ data[r] = "free" /\ handle' = [handle EXCEPT ![r] = None]
        /\ UNCHANGED <<killv, pollv, execv, loopv>>
    BY <1>2 DEF io_na, get_sqe_and_req_data
  <2>2. PICK n \in Outcomes(Append(sq, r)) :
          /\ Submit(Append(sq, r), n)
          /\ data' = [data EXCEPT ![r] = IF submit_failed(n) THEN "gone" ELSE "na"]
    BY <1>2 DEF io_na, submit_request
  <2>3. cq' = cq /\ OnRing' = OnRing \cup {r}
    BY <2>1, <2>2, NewOnRing
  <2>4. UNCHANGED <<cur, pc, co, polling_handle, kill_task, kill_awaiter>>
    BY <2>1 DEF killv, pollv, loopv, execv
  <2>5. \A x : ~Handled(x)'
    BY <2>1, <2>4, ClientInLoop DEF Handled
  <2>6. /\ handle'[r] = None /\ data'[r] # "await"
        /\ \A x \in Reqs : x # r => handle'[x] = handle[x] /\ data'[x] = data[x]
    BY <2>1, <2>2 DEF IInv, TypeOK, ReqType
  <2>7. \A x \in Reqs : Pending(x)' <=> Pending(x)
    BY <2>1, <2>4, <2>6 DEF Pending
  <2>8. \A x \in Reqs : Pending(x) => handle'[x] = handle[x] /\ x \in OnRing' /\ ~Handled(x)'
    BY <2>1, <2>3, <2>5, <2>6 DEF Pending, WInv, OwnerInv
  <2>9. OwnerInv'
    BY <2>4, <2>7, <2>8, OwnersKept DEF WInv
  <2>10. RequestInv'
    BY <2>3, <2>4, <2>6 DEF WInv, RequestInv
  <2>11. HandlesWaiting'
    BY <2>4, WaitersKept DEF WInv
  <2>. QED  BY <2>9, <2>10, <2>11 DEF WInv
<1>. QED  BY <1>1, <1>2

\* A coroutine that leaves changes its own state only.
LEMMA LeaveStates ==
  ASSUME IInv, NEW c \in Coros, NEW s, Leave(c, s)
  PROVE  co'[c] = s /\ \A d \in Coros : d # c => co'[d] = co[d]
BY DEF IInv, TypeOK, ExecType, Leave

\* A raw entry belongs to no request.
LEMMA GetUringSqeWakeup ==
  ASSUME IInv, WInv, NEW c \in Coros, NEW w \in Raws, get_uring_sqe(c, w)
  PROVE  WInv'
<1>1. CASE ~sqe_available
  BY <1>1, SameWakeup DEF get_uring_sqe, vars
<1>2. CASE sqe_available
  <2>1. /\ w \in Ops \ OnRing /\ w \notin Reqs /\ get_sqe(w) /\ Runs(c)
        /\ UNCHANGED <<in_flight_requests, killv, reqv, pollv, execv, itemv, loopv, fault>>
    BY <1>2, OpsAssumption, SetsAssumption DEF get_uring_sqe
  <2>2. cq' = cq /\ OnRing' = OnRing \cup {w}
    BY <2>1, InvRingOK, GetSqeRing
  <2>3. UNCHANGED <<data, handle, cur, pc, co, polling_handle, kill_task, kill_awaiter>>
    BY <2>1 DEF killv, reqv, pollv, execv, loopv
  <2>4. \A r : Handled(r)' => Handled(r)
    BY <2>2, <2>3 DEF Handled
  <2>. QED  BY <2>1, <2>2, <2>3, <2>4, WakeupKept
<1>. QED  BY <1>1, <1>2

\* A submit moves requests along the ring, and takes none off it.
LEMMA SubmitQueuedWakeup ==
  ASSUME IInv, WInv, NEW c \in Coros, submit_queued_entries(c)
  PROVE  WInv'
<1>1. CASE life_state = "DEAD"
  BY <1>1, SameWakeup DEF submit_queued_entries, Faults
<1>2. CASE life_state # "DEAD"
  <2>1. PICK n \in Outcomes(sq) : Submit(sq, n)
    BY <1>2 DEF submit_queued_entries
  <2>2. cq' = cq /\ OnRing' = OnRing
    BY <2>1, InvRingOK, OutcomesType, SubmitQueued DEF RingOK, RingType
  <2>3. UNCHANGED <<data, handle, cur, pc, co, polling_handle, kill_task, kill_awaiter>>
    BY <1>2 DEF submit_queued_entries, killv, reqv, pollv, execv, loopv
  <2>4. \A r : Handled(r)' => Handled(r)
    BY <2>2, <2>3 DEF Handled
  <2>. QED  BY <2>2, <2>3, <2>4, WakeupKept
<1>. QED  BY <1>1, <1>2

\* The poller waits for a response.
LEMMA WaitForResponseWakeup ==
  ASSUME IInv, WInv, NEW c \in Coros, Runs(c), WaitForResponse(c)
  PROVE  WInv'
<1>1. OnRing' = OnRing /\ cq' = cq
  BY InvRingOK, RingUnchanged DEF WaitForResponse
<1>2. UNCHANGED <<data, handle, cur, pc, kill_task, kill_awaiter>> /\ polling_handle' = c
  BY DEF WaitForResponse, killv, reqv, loopv
<1>3. co[c] \in {"run", "handler"} /\ co'[c] = "poll" /\ \A d \in Coros : d # c => co'[d] = co[d]
  BY LeaveStates DEF WaitForResponse, Runs
<1>4. \A r : Handled(r)' => Handled(r)
  BY <1>1, <1>2 DEF Handled
<1>. QED  BY <1>1, <1>2, <1>3, <1>4, WakeupKept

\* A poller begins, goes on or stops.
LEMMA PollingWakeup ==
  ASSUME IInv, WInv, NEW c \in Coros, poll(c) \/ handler_continue(c) \/ handler_stop(c)
  PROVE  WInv'
<1>1. CASE poll(c) /\ polling_requests
  <2>1. UNCHANGED vars
    BY Zenon, <1>1 DEF poll
  <2>. QED  BY <2>1, SameWakeup DEF vars
<1>2. CASE poll(c) /\ ~polling_requests
  <2>1. Runs(c) /\ WaitForResponse(c)
    BY Zenon, <1>2 DEF poll, InBody
  <2>. QED  BY <2>1, WaitForResponseWakeup
<1>3. CASE handler_continue(c)
  <2>1. Runs(c) /\ WaitForResponse(c)
    BY Zenon, <1>3 DEF handler_continue
  <2>. QED  BY <2>1, WaitForResponseWakeup
<1>4. CASE handler_stop(c)
  <2>1. /\ co[c] = "handler" /\ co' = [co EXCEPT ![c] = "run"]
        /\ pc' = "ready_stopped"
        /\ UNCHANGED <<ring, in_flight_requests, killv, reqv, cur, polling_handle>>
    BY Zenon, <1>4 DEF handler_stop
  <2>2. OnRing' = OnRing /\ cq' = cq
    BY <2>1, InvRingOK, RingUnchanged
  <2>3. UNCHANGED <<data, handle, polling_handle, kill_task, kill_awaiter>>
    BY <2>1 DEF killv, reqv
  <2>4. \A r : Handled(r)' => Handled(r)
    BY <2>1 DEF Handled
  <2>5. \A d \in Coros : co'[d] = co[d] \/ (co[d] = "handler" /\ co'[d] = "run")
    BY <2>1 DEF IInv, TypeOK, ExecType
  <2>. QED  BY <2>1, <2>2, <2>3, <2>4, <2>5, WakeupKept
<1>. QED  BY <1>1, <1>2, <1>3, <1>4

\* Nobody waits for a coroutine that runs, so it may return.
LEMMA FinishWakeup ==
  ASSUME IInv, WInv, NEW c \in Coros, finish(c)
  PROVE  WInv'
<1>1. OnRing' = OnRing /\ cq' = cq
  BY InvRingOK, RingUnchanged DEF finish
<1>2. UNCHANGED <<data, handle, cur, pc, polling_handle, kill_task, kill_awaiter>>
  BY DEF finish, killv, reqv, pollv, loopv
<1>3. co[c] = "run" /\ co'[c] = "done" /\ \A d \in Coros : d # c => co'[d] = co[d]
  BY LeaveStates DEF finish, InBody
<1>4. \A r : Handled(r)' => Handled(r)
  BY <1>1, <1>2 DEF Handled
<1>. QED  BY <1>1, <1>2, <1>3, <1>4, WakeupKept

\* A submit leaves some of its entries queued, and none if it consumes all.
LEMMA SubmitLeaves ==
  ASSUME NEW q \in Seq(Ops), Injective(q), NEW n \in 0..Len(q), Submit(q, n)
  PROVE  Elems(sq') \subseteq Elems(q) /\ (n = Len(q) => Elems(sq') = {})
<1>1. sq' = Unconsumed(q, n)
  BY DEF Submit, uring_submit, Unconsumed
<1>2. /\ Elems(Unconsumed(q, n)) \subseteq Elems(q)
      /\ Unconsumed(q, n) \in Seq(Ops) /\ Len(Unconsumed(q, n)) = Len(q) - n
  BY SplitElems
<1>3. n = Len(q) => Unconsumed(q, n) = <<>>
  BY <1>2, EmptySeq
<1>4. Elems(<<>>) = {}
  BY DEF Elems
<1>. QED  BY <1>1, <1>2, <1>3, <1>4

\* kill_internal puts at most the cancel operation on the ring.
LEMMA KillOnRing ==
  ASSUME IInv, NEW c \in Coros, kill_internal(c)
  PROVE  /\ cq' = cq /\ OnRing \subseteq OnRing' /\ OnRing' \subseteq OnRing \cup {Cancel}
         /\ Elems(sq') \subseteq Elems(sq) \cup {Cancel}
<1>1. Cancel \in Ops \ OnRing
  BY OpsAssumption DEF IInv, KillInv, kill_internal
<1>2. PICK n1 \in IF pending = 0 THEN {0} ELSE Outcomes(sq) :
        IF ~HasRoom(SubSeq(sq, n1 + 1, Len(sq)))
        THEN Submit(sq, n1)
        ELSE \E n2 \in Outcomes(Append(SubSeq(sq, n1 + 1, Len(sq)), Cancel)) :
               Submit(Append(sq, Cancel), n1 + n2)
  BY DEF kill_internal
<1>3. sq \in Seq(Ops) /\ Injective(sq) /\ Len(sq) \in Nat
  BY InvRingOK DEF RingOK, RingType, RingInv
<1>4. n1 \in 0..Len(sq)
  BY <1>3, OutcomesType
<1>5. CASE ~HasRoom(SubSeq(sq, n1 + 1, Len(sq)))
  BY <1>2, <1>3, <1>4, <1>5, InvRingOK, SubmitQueued, SubmitLeaves
<1>6. CASE HasRoom(SubSeq(sq, n1 + 1, Len(sq)))
  <2> DEFINE rest == SubSeq(sq, n1 + 1, Len(sq))
  <2>1. PICK n2 \in Outcomes(Append(rest, Cancel)) : Submit(Append(sq, Cancel), n1 + n2)
    BY <1>2, <1>6
  <2>2. rest \in Seq(Ops) /\ Len(rest) = Len(sq) - n1
    BY <1>3, <1>4, SplitElems DEF Unconsumed
  <2>3. /\ Append(rest, Cancel) \in Seq(Ops)
        /\ Len(Append(rest, Cancel)) = (Len(sq) - n1) + 1
        /\ Len(Append(sq, Cancel)) = Len(sq) + 1
    BY <1>1, <1>3, <2>2, AppendProperties
  <2>4. n2 \in 0..Len(Append(rest, Cancel))
    BY <2>1, <2>3, OutcomesType
  <2> HIDE DEF rest
  <2>5. n1 + n2 \in 0..Len(Append(sq, Cancel))
    BY <1>3, <1>4, <2>3, <2>4
  <2>6. Elems(sq') \subseteq Elems(sq) \cup {Cancel}
    <3>1. /\ Append(sq, Cancel) \in Seq(Ops) /\ Injective(Append(sq, Cancel))
          /\ Elems(Append(sq, Cancel)) = Elems(sq) \cup {Cancel}
      BY <1>1, <1>3, AppendElems DEF OnRing
    <3>. QED  BY <2>1, <2>5, <3>1, SubmitLeaves
  <2>. QED  BY <1>1, <2>1, <2>5, <2>6, InvRingOK, SubmitNew
<1>. QED  BY <1>5, <1>6

\* The killer waits for the kill task only.
LEMMA KillWakeup ==
  ASSUME IInv, WInv, NEW c \in Coros, kill(c)
  PROVE  WInv'
<1>1. CASE UNCHANGED vars
  BY <1>1, SameWakeup DEF vars
<1>2. CASE ~UNCHANGED vars
  <2>1. co[c] = "run" /\ UNCHANGED <<data, handle, cur, pc, polling_handle>>
    BY <1>2 DEF kill, InBody, kill_internal, reqv, pollv, loopv
  <2>2. \/ UNCHANGED execv /\ kill_task' \in {"failed", "done"}
        \/ Leave(c, "kill") /\ kill_awaiter' = c
    BY <1>2 DEF kill, kill_internal, next_awaiter
  <2>3. cq' = cq /\ OnRing \subseteq OnRing' /\ OnRing' \subseteq OnRing \cup {Cancel}
    <3>1. CASE kill_internal(c)
      BY <3>1, KillOnRing
    <3>2. CASE ~kill_internal(c)
      <4>1. UNCHANGED <<ring, in_flight_requests>>
        BY <1>2, <3>2 DEF kill
      <4>. QED  BY <4>1, InvRingOK, RingUnchanged
    <3>. QED  BY <3>1, <3>2
  <2>4. OnRing' \cap Reqs \subseteq OnRing
    BY <2>3, SetsAssumption
  <2>5. \A r : Handled(r)' => Handled(r)
    BY <2>1, <2>3 DEF Handled
  <2>6. CASE UNCHANGED execv /\ kill_task' \in {"failed", "done"}
    BY <2>1, <2>3, <2>4, <2>5, <2>6, WakeupKept DEF execv
  <2>7. CASE Leave(c, "kill") /\ kill_awaiter' = c
    <3>1. co'[c] = "kill" /\ \A d \in Coros : d # c => co'[d] = co[d]
      BY <2>7, LeaveStates
    <3>. QED  BY <2>1, <2>3, <2>4, <2>5, <2>7, <3>1, WakeupKept
  <2>. QED  BY <2>2, <2>6, <2>7
<1>. QED  BY <1>1, <1>2

\* A completed request stays on the ring until it is handled.
LEMMA KernelWakeup ==
  ASSUME IInv, WInv, NEW e \in Ops, kernel_completes(e)
  PROVE  WInv'
<1>1. OnRing' = OnRing /\ (cq # <<>> => Head(cq') = Head(cq))
  BY InvRingOK, CompleteRing DEF kernel_completes
<1>2. UNCHANGED <<data, handle, cur, pc, co, polling_handle, kill_task, kill_awaiter>>
  BY DEF kernel_completes, killv, reqv, pollv, execv, loopv
<1>3. \A r : Handled(r)' => Handled(r)
  BY <1>1, <1>2 DEF Handled, IInv, LoopInv
<1>. QED  BY <1>1, <1>2, <1>3, WakeupKept

\* The loop begins with no request in event_handler.
LEMMA StartWakeup ==
  ASSUME IInv, WInv, start
  PROVE  WInv'
<1>1. OnRing' = OnRing /\ cq' = cq
  BY InvRingOK, RingUnchanged DEF start
<1>2. /\ UNCHANGED <<data, handle, cur, co, polling_handle, kill_task, kill_awaiter>>
      /\ pc = "main" /\ pc' \in {"top", "exit"}
  BY DEF start, reqv, pollv, execv
<1>3. OwnerInv'
  <2>1. \A r \in Reqs : (Pending(r)' <=> Pending(r)) /\ ~Handled(r)'
    BY <1>2 DEF Pending, Handled
  <2>2. \A r \in Reqs : Pending(r) => r \in OnRing'
    BY <1>1 DEF WInv, OwnerInv
  <2>. QED  BY <1>2, <2>1, <2>2, OwnersKept DEF WInv
<1>4. RequestInv' /\ HandlesWaiting'
  BY <1>1, <1>2 DEF WInv, RequestInv, HandlesWaiting
<1>. QED  BY <1>3, <1>4 DEF WInv

\* The kill task is over, and nobody is resumed for it any more.
LEMMA KillFinishedWakeup ==
  ASSUME IInv, WInv, kill_finished
  PROVE  WInv'
<1>1. OnRing' = OnRing /\ cq' = cq
  BY InvRingOK, RingUnchanged DEF kill_finished
<1>2. /\ UNCHANGED <<data, handle, cur, co, polling_handle>>
      /\ pc = "killed" /\ pc' = "exit" /\ kill_task' = "done"
  BY DEF kill_finished, reqv, pollv, execv
<1>3. OwnerInv'
  <2>1. \A r \in Reqs : (Pending(r)' <=> Pending(r)) /\ ~Handled(r)'
    BY <1>2 DEF Pending, Handled
  <2>2. \A r \in Reqs : Pending(r) => r \in OnRing'
    BY <1>1 DEF WInv, OwnerInv
  <2>. QED  BY <1>2, <2>1, <2>2, OwnersKept DEF WInv
<1>4. RequestInv' /\ HandlesWaiting'
  BY <1>1, <1>2 DEF WInv, RequestInv, HandlesWaiting
<1>. QED  BY <1>3, <1>4 DEF WInv

\* The newest ready request is live and off the ring.
LEMMA NewestReady ==
  ASSUME IInv, pc = "top", Deliverable
  PROVE  /\ Last(ready_requests_store) \in Reqs
         /\ data[Last(ready_requests_store)] = "na"
         /\ Last(ready_requests_store) \notin OnRing
<1> DEFINE q == ready_requests_store
<1>1. q \in Seq(Reqs) /\ q # <<>>
  BY Zenon DEF IInv, TypeOK, PollType, Deliverable
<1>2. Len(q) \in DOMAIN q
  BY <1>1, LenProperties, EmptySeq
<1>3. q[Len(q)] \in Elems(q) /\ q[Len(q)] \in Reqs
  BY <1>1, <1>2, ElementOfSeq, LenProperties DEF Elems
<1>. QED  BY <1>2, <1>3 DEF Last, IInv, ReqInv, ReadyAlive, Handled

\* The poller that is given a request waited for one.
LEMMA DeliverReadyWakeup ==
  ASSUME IInv, WInv, deliver_ready
  PROVE  WInv'
<1> DEFINE r == Last(ready_requests_store)
           c == polling_handle
<1>1. pc = "top" /\ Deliverable /\ c \in Coros
  BY DEF deliver_ready, Deliverable, IInv, TypeOK, PollType
<1>2. r \in Reqs /\ data[r] = "na" /\ r \notin OnRing
  BY <1>1, NewestReady
<1>3. CASE co[c] = "destroyed"
  BY <1>3, SameWakeup DEF deliver_ready, Faults
<1>4. CASE co[c] # "destroyed"
  <2>1. /\ handle' = [handle EXCEPT ![r] = c] /\ polling_handle' = None
        /\ co' = [co EXCEPT ![c] = "handler"] /\ cur' = r /\ pc' = "ready_resumed"
        /\ UNCHANGED <<ring, in_flight_requests, killv, data>>
    BY <1>4 DEF deliver_ready, handle_taken
  <2>2. OnRing' = OnRing /\ cq' = cq /\ UNCHANGED <<kill_task, kill_awaiter>>
    BY <2>1, InvRingOK, RingUnchanged DEF killv
  <2> HIDE DEF r, c
  <2>3. c = polling_handle /\ c # None /\ cur = None /\ co[c] = "poll"
    BY <1>1, <1>4, SetsAssumption DEF c, WInv, HandlesWaiting, RequestInv
  <2>4. co'[c] = "handler" /\ \A d \in Coros : d # c => co'[d] = co[d]
    BY <1>1, <2>1 DEF IInv, TypeOK, ExecType
  <2>5. \A x \in Reqs : x # r => handle'[x] = handle[x]
    BY <2>1 DEF IInv, TypeOK, ReqType
  <2>6. \A x \in Reqs : (Pending(x)' <=> Pending(x)) /\ ~Handled(x)'
    BY <1>2, <2>1, <2>3, SetsAssumption DEF Pending, Handled
  <2>7. \A x \in Reqs : Pending(x) => handle'[x] = handle[x] /\ x \in OnRing'
    BY <1>2, <2>2, <2>5 DEF Pending, WInv, OwnerInv
  <2>8. \A d \in Coros : co'[d] = "io" <=> co[d] = "io"
    BY <2>3, <2>4
  <2>9. OwnerInv'
    BY <2>6, <2>7, <2>8, OwnersKept DEF WInv
  <2>10. RequestInv'
    BY <1>2, <2>1, <2>2, <2>5 DEF WInv, RequestInv
  <2>11. HandlesWaiting'
    BY <2>1, <2>2, <2>3, <2>4 DEF WInv, HandlesWaiting, IInv, KillInv
  <2>. QED  BY <2>9, <2>10, <2>11 DEF WInv
<1>. QED  BY <1>3, <1>4

\* event_handler is through with a request: it was nobody's pending one.
LEMMA HandledWakeup ==
  ASSUME IInv, WInv, ready_handled \/ cqe_handled
  PROVE  WInv'
<1>1. OnRing' = OnRing /\ cq' = cq
  BY InvRingOK, RingUnchanged DEF ready_handled, cqe_handled
<1>2. /\ data' = [data EXCEPT ![cur] = "free"] /\ cur' = None
      /\ UNCHANGED <<handle, co, polling_handle, kill_task, kill_awaiter>>
  BY DEF ready_handled, cqe_handled, killv, pollv, execv
<1>3. \/ pc \in {"ready_resumed", "ready_stopped"} /\ pc' = "wait"
      \/ pc = "resumed" /\ pc' = "seen" /\ cur = Head(cq)
  BY DEF ready_handled, cqe_handled, IInv, LoopInv
<1>4. cur \in Reqs
  BY <1>3 DEF IInv, LoopInv
<1>5. \A x \in Reqs : data'[x] = IF x = cur THEN "free" ELSE data[x]
  BY <1>2 DEF IInv, TypeOK, ReqType
<1>6. \A x \in Reqs : Pending(x)' <=> Pending(x)
  BY <1>2, <1>5, SetsAssumption DEF Pending
<1>7. \A x \in Reqs : Pending(x) => x \in OnRing' /\ ~Handled(x)'
  BY <1>1, <1>3 DEF Pending, Handled, WInv, OwnerInv
<1>8. OwnerInv'
  BY <1>2, <1>6, <1>7, OwnersKept DEF WInv
<1>9. RequestInv'
  BY <1>1, <1>2, <1>5 DEF WInv, RequestInv
<1>10. HandlesWaiting'
  BY <1>2 DEF WInv, HandlesWaiting
<1>. QED  BY <1>8, <1>9, <1>10 DEF WInv

\* A completion resumes the owner of the request it belongs to, which waits
\* for it and for nothing else.
LEMMA HandleCqeWakeup ==
  ASSUME IInv, WInv, handle_cqe
  PROVE  WInv'
<1> DEFINE e == Head(cq)
<1>1. OnRing' = OnRing /\ cq' = cq
  BY InvRingOK, RingUnchanged DEF handle_cqe
<1>2. /\ pc \in {"wait", "top"} /\ cq # <<>>
      /\ UNCHANGED <<data, handle, kill_task, kill_awaiter>>
  BY DEF handle_cqe, AtWait, killv, reqv
<1>3. e \in OnRing
  BY <1>2, InvRingOK, TailElems DEF RingOK, RingType, RingInv, OnRing
<1>4. cur = None /\ \A x : ~Handled(x)
  BY <1>2 DEF WInv, RequestInv, Handled
<1>5. CASE e \in Reqs /\ data[e] = "gone"
  BY <1>5, SameWakeup DEF handle_cqe, loopv
<1>6. CASE e \notin Reqs \/ (data[e] # "gone" /\ handle[e] = None)
  <2>1. pc' = "seen" /\ UNCHANGED <<co, cur, polling_handle>>
    BY <1>6 DEF handle_cqe, no_handle, pollv, execv
  <2>2. \A x \in Reqs : Pending(x)' <=> Pending(x)
    BY <1>2, <2>1 DEF Pending
  <2>3. \A x \in Reqs : Pending(x) => x # e
    BY <1>6 DEF Pending, IInv, ReqInv
  <2>4. \A x \in Reqs : Pending(x) => x \in OnRing' /\ ~Handled(x)'
    BY <1>1, <2>1, <2>3 DEF Handled, WInv, OwnerInv
  <2>5. OwnerInv'
    BY <1>2, <2>1, <2>2, <2>4, OwnersKept DEF WInv
  <2>6. RequestInv' /\ HandlesWaiting'
    BY <1>1, <1>2, <1>4, <2>1 DEF WInv, RequestInv, HandlesWaiting
  <2>. QED  BY <2>5, <2>6 DEF WInv
<1>7. CASE e \in Reqs /\ data[e] # "gone" /\ handle[e] # None
  <2> DEFINE h == handle[e]
  <2>1. Resume(h) /\ cur' = e /\ pc' = "resumed" /\ UNCHANGED polling_handle
    BY <1>7 DEF handle_cqe, no_handle, pollv
  <2>2. h \in Coros
    BY <1>7 DEF IInv, TypeOK, ReqType
  <2>3. Pending(e)
    <3>1. data[e] \notin {"free", "na", "gone"}
      BY <1>3, <1>4, <1>7 DEF IInv, ReqInv, WInv, RequestInv
    <3>. QED  BY <1>4, <1>7, <3>1, SetsAssumption DEF Pending, IInv, TypeOK, ReqType
  <2>4. co[h] = "io"
    BY <1>7, <2>3 DEF WInv, OwnerInv
  <2>5. co'[h] = "run" /\ \A d \in Coros : d # h => co'[d] = co[d]
    BY <2>1, <2>2 DEF Resume, IInv, TypeOK, ExecType
  <2>6. \A x \in Reqs : (Pending(x)' <=> Pending(x) /\ x # e) /\ ~Handled(x)'
    BY <1>2, <1>4, <1>7, <2>1, SetsAssumption DEF Pending, Handled
  <2>7. \A x \in Reqs : Pending(x) /\ x # e => handle[x] # h /\ handle[x] \in Coros
    BY <1>7, <2>3, PendingOwner DEF WInv, OwnerInv
  <2> HIDE DEF e, h
  <2>8. OwnerInv'
    <3>1. \A x \in Reqs : Pending(x)' => co'[handle'[x]] = "io" /\ x \in OnRing' /\ ~Handled(x)'
      BY <1>1, <1>2, <2>5, <2>6, <2>7 DEF WInv, OwnerInv
    <3>2. \A x, y \in Reqs : Pending(x)' /\ Pending(y)' /\ handle'[x] = handle'[y] => x = y
      BY <1>2, <2>6 DEF WInv, OwnerInv
    <3>3. \A d \in Coros : co'[d] = "io" => \E x \in Reqs : Pending(x)' /\ handle'[x] = d
      <4> SUFFICES ASSUME NEW d \in Coros, co'[d] = "io"
                   PROVE  \E x \in Reqs : Pending(x)' /\ handle'[x] = d
        OBVIOUS
      <4>1. d # h /\ co[d] = "io"
        BY <2>5
      <4>2. PICK x \in Reqs : Pending(x) /\ handle[x] = d
        BY <4>1 DEF WInv, OwnerInv
      <4>3. x # e
        BY <4>1, <4>2 DEF h
      <4>. QED  BY <1>2, <2>6, <4>2, <4>3
    <3>. QED  BY <3>1, <3>2, <3>3 DEF OwnerInv
  <2>9. RequestInv'
    BY <1>1, <1>2, <2>1 DEF WInv, RequestInv
  <2>10. HandlesWaiting'
    <3>1. \A d \in Coros : co[d] \in {"poll", "kill", "destroyed"} => co'[d] \in {co[d], "destroyed"}
      BY <2>4, <2>5
    <3>. QED  BY <1>2, <2>1, <3>1, WaitersKept DEF WInv
  <2>. QED  BY <2>8, <2>9, <2>10 DEF WInv
<1>. QED  BY <1>5, <1>6, <1>7

\* The completion that is consumed is nobody's pending one, and the killer
\* that is resumed waited for the kill task.
LEMMA SeenWakeup ==
  ASSUME IInv, WInv, seen
  PROVE  WInv'
<1>1. CASE Faults("freed_memory")
  BY <1>1, SameWakeup DEF Faults
<1>2. CASE ~Faults("freed_memory")
  <2>1. /\ pc = "seen" /\ cqe_seen /\ in_flight_requests' = in_flight_requests - 1
        /\ UNCHANGED <<data, handle, cur, polling_handle>>
    BY <1>2 DEF seen, reqv, pollv
  <2>2. OnRing' = OnRing \ {Head(cq)}
    BY <2>1, InvRingOK, SeenRing DEF IInv, LoopInv
  <2>3. \/ pc' = "top" /\ UNCHANGED <<co, kill_task, kill_awaiter>>
        \/ /\ life_state = "DYING" /\ kill_task # "failed" /\ co[kill_awaiter] # "destroyed"
           /\ Resume(kill_awaiter) /\ pc' = "killed" /\ kill_task' = "resuming"
    BY <1>2 DEF seen, resume_kill, kill_wants_update, final_suspend, killv, execv
  <2>4. \A r \in Reqs : (Pending(r)' <=> Pending(r)) /\ ~Handled(r)'
    BY <2>1, <2>3 DEF Pending, Handled
  <2>5. \A r \in Reqs : Pending(r) => r \in OnRing'
    BY <2>1, <2>2 DEF Handled, WInv, OwnerInv
  <2>6. RequestInv'
    BY <2>1, <2>2, <2>3 DEF WInv, RequestInv
  <2>7. CASE pc' = "top" /\ UNCHANGED <<co, kill_task, kill_awaiter>>
    <3>1. OwnerInv'
      BY <2>1, <2>4, <2>5, <2>7, OwnersKept DEF WInv
    <3>2. HandlesWaiting'
      BY <2>1, <2>7 DEF WInv, HandlesWaiting
    <3>. QED  BY <2>6, <3>1, <3>2 DEF WInv
  <2>8. CASE /\ life_state = "DYING" /\ kill_task # "failed" /\ co[kill_awaiter] # "destroyed"
             /\ Resume(kill_awaiter) /\ pc' = "killed" /\ kill_task' = "resuming"
    <3>1. kill_awaiter \in Coros /\ co[kill_awaiter] = "kill"
      BY <2>8 DEF IInv, KillInv, WInv, HandlesWaiting
    <3>2. co'[kill_awaiter] = "run" /\ \A d \in Coros : d # kill_awaiter => co'[d] = co[d]
      BY <2>8, <3>1 DEF Resume, IInv, TypeOK, ExecType
    <3>3. \A d \in Coros : co'[d] = "io" <=> co[d] = "io"
      BY <3>1, <3>2
    <3>4. OwnerInv'
      BY <2>1, <2>4, <2>5, <3>3, OwnersKept DEF WInv
    <3>5. HandlesWaiting'
      BY <2>1, <2>8, <3>1, <3>2 DEF WInv, HandlesWaiting, IInv, TypeOK, PollType
    <3>. QED  BY <2>6, <3>4, <3>5 DEF WInv
  <2>. QED  BY <2>3, <2>7, <2>8
<1>. QED  BY <1>1, <1>2

-----------------------------------------------------------------------------
(* No wakeup is lost.                                                      *)

\* The invariant holds of a constructed manager.
LEMMA InitWakeup == Init => WInv
<1> SUFFICES ASSUME Init PROVE WInv
  OBVIOUS
<1>1. OwnerInv
  BY DEF Init, OwnerInv, Pending
<1>2. RequestInv /\ HandlesWaiting
  BY DEF Init, RequestInv, HandlesWaiting
<1>. QED  BY <1>1, <1>2 DEF WInv

\* Every step preserves the invariant.
LEMMA NextWakeup == IInv /\ WInv /\ [Next]_vars => WInv'
<1> SUFFICES ASSUME IInv, WInv, [Next]_vars PROVE WInv'
  OBVIOUS
<1>1. CASE UNCHANGED vars
  BY <1>1, SameWakeup DEF vars
<1>2. CASE \E c \in Coros : register_coro(c)
  BY <1>2, RegisterWakeup
<1>3. CASE start
  BY <1>3, StartWakeup
<1>4. CASE Loop
  <2>1. wait_fails \/ wait_after_exit => WInv'
    BY SameWakeup DEF wait_fails, wait_after_exit, Faults
  <2>. QED  BY <1>4, <2>1, DeliverReadyWakeup, HandledWakeup, HandleCqeWakeup,
               SeenWakeup, KillFinishedWakeup DEF Loop
<1>5. CASE Client
  <2>1. PICK c \in Coros :
          \/ store_coro(c)
          \/ io_restricted(c)
          \/ \E r \in Reqs : io_await(c, r) \/ io_na(c, r)
          \/ \E w \in Raws : get_uring_sqe(c, w)
          \/ submit_queued_entries(c)
          \/ poll(c) \/ handler_continue(c) \/ handler_stop(c)
          \/ kill(c)
          \/ finish(c)
    BY <1>5 DEF Client
  <2>2. io_restricted(c) => WInv'
    BY SameWakeup DEF io_restricted, Faults
  <2>. QED  BY <2>1, <2>2, StoreWakeup, IoAwaitWakeup, IoNaWakeup, GetUringSqeWakeup,
               SubmitQueuedWakeup, PollingWakeup, KillWakeup, FinishWakeup
<1>6. CASE \E e \in Ops : kernel_completes(e)
  BY <1>6, KernelWakeup
<1>. QED  BY <1>1, <1>2, <1>3, <1>4, <1>5, <1>6 DEF Next

\* Where every io_uring_enter consumes what it is offered, no request is left
\* in the submission queue: client code queues raw entries only, and a request
\* is submitted with all that is queued before it.
QueueInv == "syscall_fails" \notin Admit => Elems(sq) \cap Reqs = {}

\* Every step preserves that.
LEMMA NextQueue == IInv /\ QueueInv /\ [Next]_vars => QueueInv'
<1> SUFFICES ASSUME IInv, QueueInv, [Next]_vars, "syscall_fails" \notin Admit
             PROVE  Elems(sq') \cap Reqs = {}
  BY DEF QueueInv
<1>1. Elems(sq) \cap Reqs = {} /\ sq \in Seq(Ops) /\ Injective(sq)
  BY DEF QueueInv, IInv, TypeOK, RingType, RingInv
<1>2. CASE UNCHANGED sq
  BY <1>1, <1>2
<1>3. ASSUME NEW c \in Coros, NEW r \in Reqs, io_await(c, r) \/ io_na(c, r), sqe_available
      PROVE  Elems(sq') \cap Reqs = {}
  <2>1. /\ Runs(c) /\ data[r] = "free"
        /\ \E n \in Outcomes(Append(sq, r)) : Submit(Append(sq, r), n)
    BY <1>3 DEF io_await, io_na, InBody, prepare_sqring_op, get_sqe_and_req_data, submit_request
  <2>2. r \in Ops \ OnRing
    BY <2>1, ClientInLoop, OpsAssumption DEF IInv, ReqInv
  <2>3. Append(sq, r) \in Seq(Ops) /\ Injective(Append(sq, r))
    BY <1>1, <2>2, AppendElems DEF OnRing
  <2>4. Len(Append(sq, r)) \in 0..Len(Append(sq, r))
    BY <2>3, LenProperties
  <2>5. Submit(Append(sq, r), Len(Append(sq, r)))
    BY <2>1 DEF Outcomes
  <2>. QED  BY <2>3, <2>4, <2>5, SubmitLeaves
<1>4. ASSUME NEW c \in Coros, NEW w \in Raws, get_uring_sqe(c, w), sqe_available
      PROVE  Elems(sq') \cap Reqs = {}
  <2>1. w \in Ops /\ w \notin Reqs /\ sq' = Append(sq, w)
    BY <1>4, OpsAssumption, SetsAssumption DEF get_uring_sqe, get_sqe
  <2>2. Elems(sq') = Elems(sq) \cup {w}
    BY <1>1, <2>1, AppendElems
  <2>. QED  BY <1>1, <2>1, <2>2
<1>5. ASSUME NEW c \in Coros, submit_queued_entries(c), life_state # "DEAD"
      PROVE  Elems(sq') \cap Reqs = {}
  <2>1. PICK n \in Outcomes(sq) : Submit(sq, n)
    BY <1>5 DEF submit_queued_entries
  <2>. QED  BY <1>1, <2>1, OutcomesType, SubmitLeaves
<1>6. ASSUME NEW c \in Coros, kill_internal(c)
      PROVE  Elems(sq') \cap Reqs = {}
  BY <1>1, <1>6, KillOnRing, SetsAssumption
<1>7. CASE Client
  <2>1. PICK c \in Coros :
          \/ store_coro(c)
          \/ io_restricted(c)
          \/ \E r \in Reqs : io_await(c, r) \/ io_na(c, r)
          \/ \E w \in Raws : get_uring_sqe(c, w)
          \/ submit_queued_entries(c)
          \/ poll(c) \/ handler_continue(c) \/ handler_stop(c)
          \/ kill(c)
          \/ finish(c)
    BY <1>7 DEF Client
  <2>2. CASE store_coro(c) \/ io_restricted(c) \/ finish(c)
    BY <1>2, <2>2 DEF store_coro, io_restricted, finish, Faults, ring
  <2>3. CASE poll(c) \/ handler_continue(c) \/ handler_stop(c)
    <3>1. UNCHANGED ring
      BY Zenon, <2>3 DEF poll, handler_continue, handler_stop, WaitForResponse, vars
    <3>. QED  BY <1>2, <3>1 DEF ring
  <2>4. CASE \/ \E r \in Reqs : io_await(c, r) \/ io_na(c, r)
             \/ \E w \in Raws : get_uring_sqe(c, w)
    <3>1. CASE ~sqe_available
      BY <1>2, <2>4, <3>1 DEF io_await, io_na, get_uring_sqe, vars, ring
    <3>. QED  BY <1>3, <1>4, <2>4, <3>1
  <2>5. CASE submit_queued_entries(c)
    <3>1. CASE life_state = "DEAD"
      BY <1>2, <2>5, <3>1 DEF submit_queued_entries, Faults, ring
    <3>. QED  BY <1>5, <2>5, <3>1
  <2>6. CASE kill(c)
    <3>1. CASE ~kill_internal(c)
      BY <1>2, <2>6, <3>1 DEF kill, vars, ring
    <3>. QED  BY <1>6, <3>1
  <2>. QED  BY <2>1, <2>2, <2>3, <2>4, <2>5, <2>6
<1>8. CASE Loop
  BY <1>2, <1>8 DEF Loop, deliver_ready, ready_handled, handle_cqe, cqe_handled, seen,
                    cqe_seen, kill_finished, wait_fails, wait_after_exit, Faults, ring
<1>9. CASE \/ UNCHANGED vars \/ start
           \/ \E c \in Coros : register_coro(c)
           \/ \E e \in Ops : kernel_completes(e)
  BY <1>2, <1>9 DEF vars, start, register_coro, kernel_completes, complete, ring
<1>. QED  BY <1>7, <1>8, <1>9 DEF Next

\* The strengthened invariant holds throughout every behaviour.
THEOREM WakeupInvariance == Spec => [](IInv /\ WInv /\ QueueInv)
<1>1. Init => QueueInv
  BY DEF Init, RingInit, QueueInv, Elems
<1>. QED  BY <1>1, InitWakeup, NextWakeup, NextQueue, Invariance, PTL DEF Spec

\* A coroutine suspended in co_await owns exactly one live request that is not
\* yet handled, under every admitted misuse and order of completions: the
\* kernel has that request or has answered it, so that event_handler will
\* resume its owner and nobody else for it.  Only where submissions may be short
\* can the request still be queued.
THEOREM WakeupCorrect == Spec => []NoLostWakeup
<1>1. IInv /\ WInv /\ QueueInv => NoLostWakeup
  <2> SUFFICES ASSUME IInv, WInv, QueueInv, NEW c \in Coros, co[c] = "io"
               PROVE  \E r \in Reqs :
                        /\ data[r] = "await" /\ handle[r] = c /\ r \in OnItsWay /\ r # cur
                        /\ \A s \in Reqs : data[s] = "await" /\ handle[s] = c /\ s # cur => s = r
    BY DEF NoLostWakeup
  <2>1. PICK r \in Reqs : Pending(r) /\ handle[r] = c
    BY DEF WInv, OwnerInv
  <2>2. r \in OnItsWay
    BY <2>1 DEF WInv, OwnerInv, QueueInv, OnItsWay, Submitted, OnRing
  <2>. QED  BY <2>1, <2>2 DEF WInv, OwnerInv, Pending
<1>. QED  BY <1>1, WakeupInvariance, PTL

\* Whom await_message (core.cpp 37) and the end of the kill task (task.cpp 13)
\* resume is suspended in poll() and in kill(), or destroyed, under every
\* admitted misuse: none of them is resumed a second time or while it waits for
\* something else.
THEOREM HandlesCorrect == Spec => []HandlesWaiting
<1>1. IInv /\ WInv => HandlesWaiting
  BY DEF WInv
<1>. QED  BY <1>1, WakeupInvariance, PTL

-----------------------------------------------------------------------------
(* The plain usage.  Clients register their coroutines before start(), let *)
(* them suspend, call nothing the manager refuses, and every               *)
(* io_uring_enter consumes what it is offered.  They may kill the manager  *)
(* before start() and more than once.                                      *)

Plain == Admit \subseteq {"early_kill", "second_kill"}

\* A submit leaves nothing behind, so PENDING tells the truth and no request
\* is deleted under its completion.
SubmitInv == pending = Len(sq) /\ \A r \in Reqs : data[r] # "gone"

\* main() registers one coroutine at a time, and none of them can have
\* finished before start().
MainInv ==
  /\ pc # "main" => registering = {}
  /\ pc = "main" => /\ freed_idxs = {}
                    /\ \A c \in Coros : co[c] # "done"
                    /\ \/ stack = <<>> /\ registering = {}
                       \/ \E c \in Coros : stack = <<c>> /\ registering = {c}

\* A dead manager's loop is about to end.
KillerInv ==
  /\ kill_task # "failed"
  /\ kill_task = "waiting" => life_state = "DYING"
  /\ kill_task = "done" => pc = "exit"
  /\ life_state = "DEAD" => pc \in {"killed", "exit"}

PInv == NoFault /\ NeverDestroyed /\ SubmitInv /\ MainInv /\ KillerInv

\* A step that leaves the kill task alone and does not come from main(), or
\* does not touch what main() keeps.
LEMMA PlainKept ==
  ASSUME PInv, UNCHANGED <<killv, registering, fault>>,
         pending' = Len(sq'), \A r \in Reqs : data'[r] # "gone",
         \A d \in Coros : co'[d] = co[d] \/ co'[d] \in {"run", "handler", "io", "poll", "done"},
         \/ pc # "main" /\ pc' # "main" /\ (pc' = pc \/ pc \notin {"killed", "exit"})
         \/ /\ pc' = pc /\ UNCHANGED <<stack, freed_idxs>>
            /\ \A d \in Coros : co'[d] = "done" => co[d] = "done"
  PROVE  PInv'
<1>1. NoFault' /\ NeverDestroyed' /\ SubmitInv'
  BY DEF PInv, NoFault, NeverDestroyed, SubmitInv
<1>2. UNCHANGED <<life_state, kill_task, kill_awaiter>>
  BY DEF killv
<1>3. MainInv'
  BY <1>2 DEF PInv, MainInv
<1>4. KillerInv'
  BY <1>2 DEF PInv, KillerInv
<1>. QED  BY <1>1, <1>3, <1>4 DEF PInv

\* Steps that change nothing.
LEMMA SamePlain ==
  ASSUME PInv, UNCHANGED vars
  PROVE  PInv'
BY PlainKept DEF vars, ring, killv, reqv, execv, itemv, loopv, PInv, SubmitInv

\* In the plain usage a submit call consumes the whole queue.
LEMMA PlainSubmit ==
  ASSUME Plain, IInv, NEW q \in Seq(Ops), Injective(q),
         Elems(q) \cap kernel = {}, Elems(q) \cap Elems(cq) = {},
         NEW n \in Outcomes(q), Submit(q, n)
  PROVE  n = Len(q) /\ pending' = Len(sq')
<1>1. n = Len(q) /\ n \in 0..Len(q)
  BY DEF Plain, Outcomes
<1>2. uring_submit(q, n) /\ pending' = 0
  BY DEF Submit, uring_submit
<1>3. Len(sq') = Len(q) - n
  BY <1>1, <1>2, SubmitOrder DEF IInv, TypeOK
<1>. QED  BY <1>1, <1>2, <1>3

\* ... also one with a new operation at its end.
LEMMA PlainSubmitNew ==
  ASSUME Plain, IInv, NEW e \in Ops \ OnRing, NEW n \in Outcomes(Append(sq, e)),
         Submit(Append(sq, e), n)
  PROVE  n = Len(sq) + 1 /\ pending' = Len(sq')
<1>1. /\ Append(sq, e) \in Seq(Ops) /\ Len(Append(sq, e)) = Len(sq) + 1
      /\ Elems(Append(sq, e)) = Elems(sq) \cup {e}
      /\ Injective(Append(sq, e))
  BY AppendElems DEF IInv, TypeOK, RingType, RingInv, OnRing
<1>2. /\ Elems(Append(sq, e)) \cap kernel = {}
      /\ Elems(Append(sq, e)) \cap Elems(cq) = {}
  BY <1>1 DEF IInv, TypeOK, RingType, RingInv, OnRing
<1>. QED  BY <1>1, <1>2, PlainSubmit

\* Client code that runs in main() is a coroutine that is being registered;
\* when it leaves, register_coro goes on.
LEMMA PlainLeave ==
  ASSUME IInv, PInv, NEW c \in Coros, Runs(c), NEW s, Leave(c, s)
  PROVE  /\ registering' = registering
         /\ pc = "main" => stack' = stack /\ c \in registering
         /\ co'[c] = s /\ \A d \in Coros : d # c => co'[d] = co[d]
<1>1. co'[c] = s /\ \A d \in Coros : d # c => co'[d] = co[d]
  BY LeaveStates
<1>2. pc = "main" => c \in registering
  BY DEF Runs, PInv, MainInv
<1>. QED  BY <1>1, <1>2 DEF Leave

\* main() registers the next coroutine when the last one is stored.
LEMMA RegisterPlain ==
  ASSUME Plain, IInv, PInv, NEW c \in Coros, register_coro(c)
  PROVE  PInv'
<1>1. /\ pc = "main" /\ stack = <<>> /\ stack' = <<c>> \o stack
      /\ registering' = registering \cup {c}
      /\ UNCHANGED <<sq, pending, killv, data, freed_idxs, pc, fault>>
  BY DEF Plain, register_coro, Resume, ring, reqv, itemv, loopv
<1>2. UNCHANGED <<life_state, kill_task, kill_awaiter>>
  BY <1>1 DEF killv
<1>3. co'[c] = "run" /\ \A d \in Coros : d # c => co'[d] = co[d]
  BY DEF register_coro, Resume, IInv, TypeOK, ExecType
<1>4. stack' = <<c>> /\ registering' = {c}
  <2>1. registering = {}
    BY <1>1 DEF PInv, MainInv
  <2>. QED  BY <1>1, <2>1
<1>5. MainInv'
  BY <1>1, <1>2, <1>3, <1>4 DEF PInv, MainInv
<1>6. NoFault' /\ NeverDestroyed' /\ SubmitInv' /\ KillerInv'
  BY <1>1, <1>2, <1>3 DEF PInv, NoFault, NeverDestroyed, SubmitInv, KillerInv
<1>. QED  BY <1>5, <1>6 DEF PInv

\* Before start() no slot is reused and nothing has finished, so the move into
\* the store writes to live coroutines only.
LEMMA StorePlain ==
  ASSUME Plain, IInv, PInv, NEW c \in Coros, store_coro(c)
  PROVE  PInv'
<1>1. pc = "main" /\ c \in registering /\ stack # <<>> /\ Head(stack) = c
  BY DEF store_coro, PInv, MainInv
<1>2. stack = <<c>> /\ registering = {c} /\ freed_idxs = {}
  BY <1>1 DEF PInv, MainInv
<1>3. \A i \in InsertSlots : Victims(i) = {}
  BY <1>2 DEF InsertSlots, Victims, IInv, TypeOK, ItemType
<1>4. \A d \in Touched(c) : co[d] # "done"
  <2>1. Touched(c) \subseteq Coros
    BY ElemsType DEF Touched, IInv, TypeOK, ItemType
  <2>. QED  BY <1>1, <2>1 DEF PInv, MainInv
<1>5. PICK i \in InsertSlots :
        /\ freed_idxs' = freed_idxs \ {i}
        /\ co' = [d \in Coros |-> IF d \in Victims(i) THEN "destroyed" ELSE co[d]]
        /\ data' = [r \in Reqs |-> IF data[r] = "await" /\ handle[r] \in Victims(i)
                                   THEN "gone" ELSE data[r]]
        /\ stack' = Tail(stack)
        /\ registering' = registering \ {c}
        /\ UNCHANGED <<ring, killv, loopv, fault>>
  BY <1>3, <1>4 DEF store_coro
<1>6. /\ stack' = <<>> /\ registering' = {} /\ freed_idxs' = {}
      /\ \A d \in Coros : co'[d] = co[d]
      /\ \A r \in Reqs : data'[r] = data[r]
  BY <1>2, <1>3, <1>5
<1>7. UNCHANGED <<life_state, kill_task, kill_awaiter, pc, sq, pending, fault>>
  BY <1>5 DEF killv, loopv, ring
<1>8. MainInv' /\ KillerInv'
  BY <1>6, <1>7 DEF PInv, MainInv, KillerInv
<1>9. NoFault' /\ NeverDestroyed' /\ SubmitInv'
  BY <1>6, <1>7 DEF PInv, NoFault, NeverDestroyed, SubmitInv
<1>. QED  BY <1>8, <1>9 DEF PInv

\* A request is submitted at once, so it is not deleted before its completion.
LEMMA RequestPlain ==
  ASSUME Plain, IInv, PInv, NEW c \in Coros, NEW r \in Reqs, io_await(c, r) \/ io_na(c, r)
  PROVE  PInv'
<1>1. CASE ~sqe_available
  BY <1>1, SamePlain DEF io_await, io_na
<1>2. CASE sqe_available
  <2>1. /\ Runs(c) /\ data[r] = "free" /\ UNCHANGED <<killv, itemv, loopv, fault>>
        /\ \E n \in Outcomes(Append(sq, r)) :
             /\ Submit(Append(sq, r), n)
             /\ \/ submit_failed(n)
                \/ data' = [data EXCEPT ![r] = "await"] /\ Leave(c, "io")
                \/ data' = [data EXCEPT ![r] = "na"] /\ UNCHANGED execv
    BY <1>2 DEF io_await, io_na, InBody, prepare_sqring_op, get_sqe_and_req_data, submit_request
  <2>2. PICK n \in Outcomes(Append(sq, r)) :
          /\ Submit(Append(sq, r), n)
          /\ \/ submit_failed(n)
             \/ data' = [data EXCEPT ![r] = "await"] /\ Leave(c, "io")
             \/ data' = [data EXCEPT ![r] = "na"] /\ UNCHANGED execv
    BY <2>1
  <2>3. r \in Ops \ OnRing
    BY <2>1, ClientInLoop, OpsAssumption DEF IInv, ReqInv
  <2>4. n = Len(sq) + 1 /\ pending' = Len(sq')
    BY <2>2, <2>3, PlainSubmitNew
  <2>5. ~submit_failed(n)
    BY <2>4, LenProperties DEF submit_failed, IInv, TypeOK, RingType
  <2>6. \A x \in Reqs : data'[x] # "gone"
    BY <2>2, <2>5 DEF PInv, SubmitInv, IInv, TypeOK, ReqType
  <2>7. UNCHANGED <<pc, freed_idxs>>
    BY <2>1 DEF itemv, loopv
  <2>8. CASE UNCHANGED execv
    BY <2>1, <2>4, <2>6, <2>7, <2>8, PlainKept DEF execv
  <2>9. CASE Leave(c, "io")
    <3>1. /\ registering' = registering /\ (pc = "main" => stack' = stack)
          /\ co'[c] = "io" /\ \A d \in Coros : d # c => co'[d] = co[d]
      BY <2>1, <2>9, PlainLeave
    <3>2. \/ pc # "main" /\ pc' # "main" /\ pc' = pc
          \/ /\ pc' = pc /\ UNCHANGED <<stack, freed_idxs>>
             /\ \A d \in Coros : co'[d] = "done" => co[d] = "done"
      BY <2>7, <3>1
    <3>. QED  BY <2>1, <2>4, <2>6, <3>1, <3>2, PlainKept
  <2>. QED  BY <2>2, <2>5, <2>8, <2>9
<1>. QED  BY <1>1, <1>2

\* A raw entry is counted in PENDING.
LEMMA RawPlain ==
  ASSUME Plain, IInv, PInv, NEW c \in Coros, NEW w \in Raws, get_uring_sqe(c, w)
  PROVE  PInv'
<1>1. CASE ~sqe_available
  BY <1>1, SamePlain DEF get_uring_sqe
<1>2. CASE sqe_available
  <2>1. /\ w \in Ops \ OnRing /\ get_sqe(w)
        /\ UNCHANGED <<killv, reqv, execv, itemv, loopv, fault>>
    BY <1>2, OpsAssumption DEF get_uring_sqe
  <2>2. pending' = Len(sq')
    BY <2>1, GetSqeOrder DEF IInv, TypeOK, get_sqe, PInv, SubmitInv
  <2>. QED  BY <2>1, <2>2, PlainKept DEF reqv, execv, itemv, loopv, PInv, SubmitInv
<1>. QED  BY <1>1, <1>2

\* A submit of what is queued empties the queue.
LEMMA SubmitQueuedPlain ==
  ASSUME Plain, IInv, PInv, NEW c \in Coros, submit_queued_entries(c)
  PROVE  PInv'
<1>1. UNCHANGED <<killv, reqv, execv, itemv, loopv, fault>> /\ \E n \in Outcomes(sq) : Submit(sq, n)
  BY DEF Plain, submit_queued_entries
<1>2. pending' = Len(sq')
  BY <1>1, PlainSubmit DEF IInv, TypeOK, RingType, RingInv
<1>. QED  BY <1>1, <1>2, PlainKept DEF reqv, execv, itemv, loopv, PInv, SubmitInv

\* The poller waits, goes on or returns, and a coroutine finishes, in the loop.
LEMMA LeavePlain ==
  ASSUME IInv, PInv, NEW c \in Coros, Runs(c),
         NEW s \in {"poll", "done"}, Leave(c, s), s = "done" => pc # "main",
         UNCHANGED <<ring, killv, reqv, itemv, loopv, fault>>
  PROVE  PInv'
<1>1. /\ registering' = registering /\ (pc = "main" => stack' = stack)
      /\ co'[c] = s /\ \A d \in Coros : d # c => co'[d] = co[d]
  BY PlainLeave
<1>2. UNCHANGED <<sq, pending, data, freed_idxs, pc>>
  BY DEF ring, reqv, itemv, loopv
<1>3. \/ pc # "main" /\ pc' # "main" /\ pc' = pc
      \/ /\ pc' = pc /\ UNCHANGED <<stack, freed_idxs>>
         /\ \A d \in Coros : co'[d] = "done" => co[d] = "done"
  BY <1>1, <1>2
<1>. QED  BY <1>1, <1>2, <1>3, PlainKept DEF PInv, SubmitInv

\* A poller begins, goes on or stops.
LEMMA PollingPlain ==
  ASSUME IInv, HandlerInv, PInv, NEW c \in Coros,
         poll(c) \/ handler_continue(c) \/ handler_stop(c)
  PROVE  PInv'
<1>1. CASE UNCHANGED vars
  BY <1>1, SamePlain
<1>2. CASE Runs(c) /\ WaitForResponse(c)
  BY <1>2, LeavePlain DEF WaitForResponse
<1>3. CASE handler_stop(c)
  <2>1. /\ co' = [co EXCEPT ![c] = "run"]
        /\ pc = "ready_resumed" /\ pc' = "ready_stopped"
        /\ UNCHANGED <<ring, killv, reqv, stack, registering, itemv, fault>>
    BY Zenon, <1>3 DEF handler_stop, HandlerInv
  <2>2. \A d \in Coros : co'[d] = co[d] \/ co'[d] = "run"
    BY <2>1 DEF IInv, TypeOK, ExecType
  <2>. QED  BY <2>1, <2>2, PlainKept DEF ring, reqv, itemv, loopv, PInv, SubmitInv
<1>. QED  BY Zenon, <1>1, <1>2, <1>3 DEF poll, handler_continue, InBody

\* A coroutine returns in the loop, since it has suspended before.
LEMMA FinishPlain ==
  ASSUME Plain, IInv, PInv, NEW c \in Coros, finish(c)
  PROVE  PInv'
<1>1. /\ Runs(c) /\ c \notin registering /\ Leave(c, "done")
      /\ UNCHANGED <<ring, killv, reqv, itemv, loopv, fault>>
  BY DEF Plain, finish, InBody
<1>2. pc # "main"
  BY <1>1, PlainLeave
<1>. QED  BY <1>1, <1>2, LeavePlain

\* kill_internal flushes everything and submits the cancel operation: there is
\* room for it, it is in flight, and the killer waits.  A second killer takes
\* the place of the first.
LEMMA KillPlain ==
  ASSUME Plain, IInv, PInv, NEW c \in Coros, kill(c)
  PROVE  PInv'
<1>1. CASE UNCHANGED vars
  BY <1>1, SamePlain
<1>2. CASE kill_internal(c) /\ Runs(c)
  <2>1. Cancel \in Ops \ OnRing /\ kill_task = "idle"
    BY <1>2, OpsAssumption DEF IInv, KillInv, kill_internal
  <2>2. sq \in Seq(Ops) /\ Injective(sq) /\ Len(sq) \in Nat /\ pending = Len(sq)
        /\ in_flight_requests \in Nat
    BY InvRingOK DEF RingOK, RingType, RingInv, PInv, SubmitInv
  <2> DEFINE n1 == Len(sq)
             rest == SubSeq(sq, n1 + 1, Len(sq))
  <2>3. (IF pending = 0 THEN {0} ELSE Outcomes(sq)) = {n1}
    BY <2>2 DEF Plain, Outcomes
  <2>4. rest \in Seq(Ops) /\ Len(rest) = 0
    <3>1. n1 \in 0..Len(sq)
      BY <2>2
    <3>. QED  BY <2>2, <3>1, SplitElems DEF Unconsumed
  <2>5. HasRoom(rest) /\ Len(Append(rest, Cancel)) = 1
    BY <2>1, <2>4, QueueDepthAssumption, AppendProperties DEF HasRoom
  <2> HIDE DEF rest
  <2>6. Outcomes(Append(rest, Cancel)) = {1}
    BY <2>5 DEF Plain, Outcomes
  <2>7. /\ Submit(Append(sq, Cancel), n1 + 1)
        /\ IF drained(in_flight_requests + n1 + 1)
           THEN TRUE
           ELSE /\ life_state' = "DYING" /\ kill_task' = "waiting"
                /\ kill_awaiter' = c
                /\ Leave(c, "kill")
    BY <1>2, <2>3, <2>5, <2>6 DEF kill_internal, rest
  <2>8. /\ life_state' = "DYING" /\ kill_task' = "waiting" /\ kill_awaiter' = c
        /\ Leave(c, "kill")
    BY <2>2, <2>7 DEF drained
  <2>9. pending' = Len(sq')
    <3>1. n1 + 1 \in Outcomes(Append(sq, Cancel))
      BY <2>1, <2>2, AppendProperties DEF Plain, Outcomes
    <3>. QED  BY <2>1, <2>7, <3>1, PlainSubmitNew
  <2>10. UNCHANGED <<data, pc, freed_idxs, fault>>
    BY <1>2 DEF kill_internal, reqv, itemv, loopv
  <2>11. /\ registering' = registering /\ (pc = "main" => stack' = stack)
         /\ co'[c] = "kill" /\ \A d \in Coros : d # c => co'[d] = co[d]
    BY <1>2, <2>8, PlainLeave
  <2>12. NoFault' /\ NeverDestroyed' /\ SubmitInv'
    BY <2>9, <2>10, <2>11 DEF PInv, NoFault, NeverDestroyed, SubmitInv
  <2>13. MainInv'
    BY <2>10, <2>11 DEF PInv, MainInv
  <2>14. KillerInv'
    BY <2>1, <2>8, <2>10, <2>11 DEF PInv, KillerInv
  <2>. QED  BY <2>12, <2>13, <2>14 DEF PInv
<1>3. CASE ~kill_internal(c) /\ ~UNCHANGED vars
  <2>1. /\ Runs(c) /\ "second_kill" \in Admit /\ Leave(c, "kill")
        /\ UNCHANGED <<ring, life_state, kill_task, reqv, itemv, loopv, fault>>
    BY <1>3 DEF kill, InBody
  <2>2. UNCHANGED <<sq, pending, data, pc, freed_idxs>>
    BY <2>1 DEF ring, reqv, itemv, loopv
  <2>3. /\ registering' = registering /\ (pc = "main" => stack' = stack)
        /\ co'[c] = "kill" /\ \A d \in Coros : d # c => co'[d] = co[d]
    BY <2>1, PlainLeave
  <2>4. NoFault' /\ NeverDestroyed' /\ SubmitInv'
    BY <2>1, <2>2, <2>3 DEF PInv, NoFault, NeverDestroyed, SubmitInv
  <2>5. MainInv' /\ KillerInv'
    BY <2>1, <2>2, <2>3 DEF PInv, MainInv, KillerInv
  <2>. QED  BY <2>4, <2>5 DEF PInv
<1>. QED  BY <1>1, <1>2, <1>3 DEF kill, InBody

\* start() finds every coroutine stored.
LEMMA StartPlain ==
  ASSUME PInv, start
  PROVE  PInv'
<1>1. /\ pc = "main" /\ stack = <<>>
      /\ \/ life_state = "NOT_STARTED" /\ life_state' = "LIVING" /\ pc' = "top"
         \/ UNCHANGED life_state /\ pc' = "exit"
      /\ UNCHANGED <<ring, kill_task, kill_awaiter, reqv, execv, fault>>
  BY DEF start, Idle
<1>2. UNCHANGED <<sq, pending, data, co, registering>>
  BY <1>1 DEF ring, reqv, execv
<1>3. MainInv' /\ KillerInv'
  BY <1>1, <1>2 DEF PInv, MainInv, KillerInv
<1>4. NoFault' /\ NeverDestroyed' /\ SubmitInv'
  BY <1>1, <1>2 DEF PInv, NoFault, NeverDestroyed, SubmitInv
<1>. QED  BY <1>3, <1>4 DEF PInv

\* event_handler meets live coroutines and live requests only.
LEMMA EventHandlerPlain ==
  ASSUME IInv, PInv, deliver_ready \/ ready_handled \/ handle_cqe \/ cqe_handled
  PROVE  PInv'
<1>1. pc \notin {"main", "killed", "exit"} /\ pc' # "main"
  <2>1. CASE deliver_ready
    BY <2>1 DEF deliver_ready, Deliverable, IInv, TypeOK, PollType, PInv, NeverDestroyed
  <2>2. CASE ready_handled \/ cqe_handled
    BY <2>2 DEF ready_handled, cqe_handled
  <2>3. CASE handle_cqe
    BY <2>3 DEF handle_cqe, AtWait, loopv
  <2>. QED  BY <2>1, <2>2, <2>3
<1>2. UNCHANGED <<ring, killv, registering, fault>>
  <2>1. CASE deliver_ready
    BY <2>1 DEF deliver_ready, Deliverable, IInv, TypeOK, PollType, PInv, NeverDestroyed
  <2>2. CASE ready_handled \/ cqe_handled
    BY <2>2 DEF ready_handled, cqe_handled, execv
  <2>3. CASE handle_cqe
    BY <2>3 DEF handle_cqe, execv, PInv, SubmitInv
  <2>. QED  BY <2>1, <2>2, <2>3
<1>3. \A d \in Coros : co'[d] = co[d] \/ co'[d] \in {"run", "handler"}
  <2>1. CASE deliver_ready
    <3>1. co' = [co EXCEPT ![polling_handle] = "handler"]
      BY <2>1 DEF deliver_ready, Deliverable, IInv, TypeOK, PollType, PInv, NeverDestroyed
    <3>. QED  BY <3>1 DEF IInv, TypeOK, ExecType
  <2>2. CASE ready_handled \/ cqe_handled
    BY <2>2 DEF ready_handled, cqe_handled, execv
  <2>3. CASE handle_cqe
    BY <2>3 DEF handle_cqe, execv, Resume, IInv, TypeOK, ExecType
  <2>. QED  BY <2>1, <2>2, <2>3
<1>4. \A r \in Reqs : data'[r] = data[r] \/ data'[r] = "free"
  <2>1. CASE deliver_ready
    BY <2>1 DEF deliver_ready, Deliverable, IInv, TypeOK, PollType, PInv, NeverDestroyed
  <2>2. CASE ready_handled \/ cqe_handled
    BY <2>2 DEF ready_handled, cqe_handled, IInv, TypeOK, ReqType
  <2>3. CASE handle_cqe
    BY <2>3 DEF handle_cqe, reqv
  <2>. QED  BY <2>1, <2>2, <2>3
<1>5. pending' = Len(sq') /\ \A r \in Reqs : data'[r] # "gone"
  BY <1>2, <1>4 DEF ring, PInv, SubmitInv
<1>. QED  BY <1>1, <1>2, <1>3, <1>5, PlainKept

\* The last completion of a dying manager resumes the killer.
LEMMA SeenPlain ==
  ASSUME IInv, PInv, seen
  PROVE  PInv'
<1>1. /\ pc = "seen" /\ cqe_seen /\ UNCHANGED <<reqv, itemv, fault>>
      /\ \/ pc' = "top" /\ UNCHANGED <<killv, execv>>
         \/ /\ life_state = "DYING" /\ life_state' = "DEAD" /\ kill_task' = "resuming"
            /\ pc' = "killed" /\ Resume(kill_awaiter)
            /\ UNCHANGED <<kill_awaiter, registering>>
  <2>1. ~(kill_wants_update /\ (kill_task = "failed"
            \/ (drained(in_flight_requests - 1) /\ co[kill_awaiter] = "destroyed")))
    BY DEF kill_wants_update, PInv, KillerInv, NeverDestroyed, IInv, KillInv
  <2>. QED  BY <2>1 DEF seen, resume_kill, kill_wants_update, final_suspend
<1>2. UNCHANGED <<sq, pending, data>>
  BY <1>1 DEF cqe_seen, reqv
<1>3. CASE pc' = "top" /\ UNCHANGED <<killv, execv>>
  BY <1>1, <1>2, <1>3, PlainKept DEF execv, PInv, SubmitInv
<1>4. CASE /\ life_state = "DYING" /\ life_state' = "DEAD" /\ kill_task' = "resuming"
           /\ pc' = "killed" /\ Resume(kill_awaiter)
           /\ UNCHANGED <<kill_awaiter, registering>>
  <2>1. kill_awaiter \in Coros
    BY <1>4 DEF IInv, KillInv, PInv, KillerInv
  <2>2. co'[kill_awaiter] = "run" /\ \A d \in Coros : d # kill_awaiter => co'[d] = co[d]
    BY <1>4, <2>1 DEF Resume, IInv, TypeOK, ExecType
  <2>3. NoFault' /\ NeverDestroyed' /\ SubmitInv'
    BY <1>1, <1>2, <2>2 DEF PInv, NoFault, NeverDestroyed, SubmitInv
  <2>4. MainInv' /\ KillerInv'
    BY <1>1, <1>4, <2>2 DEF PInv, MainInv, KillerInv
  <2>. QED  BY <2>3, <2>4 DEF PInv
<1>. QED  BY <1>1, <1>3, <1>4

\* The kill task is done, and with it the loop.
LEMMA KillFinishedPlain ==
  ASSUME IInv, PInv, kill_finished
  PROVE  PInv'
<1>1. /\ pc = "killed" /\ pc' = "exit" /\ kill_task' = "done" /\ life_state = "DEAD"
      /\ UNCHANGED <<sq, pending, life_state, data, co, registering, fault>>
  BY DEF kill_finished, ring, reqv, execv, IInv, LoopInv
<1>2. NoFault' /\ NeverDestroyed' /\ SubmitInv' /\ MainInv'
  BY <1>1 DEF PInv, NoFault, NeverDestroyed, SubmitInv, MainInv
<1>3. KillerInv'
  BY <1>1 DEF PInv, KillerInv
<1>. QED  BY <1>2, <1>3 DEF PInv

\* The kernel touches neither coroutines nor the kill task.
LEMMA KernelPlain ==
  ASSUME PInv, NEW e \in Ops, kernel_completes(e)
  PROVE  PInv'
<1>1. UNCHANGED <<sq, pending, killv, data, execv, freed_idxs, pc, fault>>
  BY DEF kernel_completes, complete, reqv, itemv, loopv
<1>. QED  BY <1>1, PlainKept DEF execv, PInv, SubmitInv

\* Every step of the plain usage preserves its invariant.
LEMMA NextPlain == Plain /\ IInv /\ HandlerInv /\ PInv /\ [Next]_vars => PInv'
<1> SUFFICES ASSUME Plain, IInv, HandlerInv, PInv, [Next]_vars PROVE PInv'
  OBVIOUS
<1>1. CASE UNCHANGED vars
  BY <1>1, SamePlain
<1>2. CASE \E c \in Coros : register_coro(c)
  BY <1>2, RegisterPlain
<1>3. CASE start
  BY <1>3, StartPlain
<1>4. CASE Loop
  <2>1. ~wait_fails /\ ~wait_after_exit
    BY DEF Plain, wait_fails, wait_after_exit, AtWait, PInv, KillerInv
  <2>. QED  BY <1>4, <2>1, EventHandlerPlain, SeenPlain, KillFinishedPlain DEF Loop
<1>5. CASE Client
  <2>1. PICK c \in Coros :
          \/ store_coro(c)
          \/ io_restricted(c)
          \/ \E r \in Reqs : io_await(c, r) \/ io_na(c, r)
          \/ \E w \in Raws : get_uring_sqe(c, w)
          \/ submit_queued_entries(c)
          \/ poll(c) \/ handler_continue(c) \/ handler_stop(c)
          \/ kill(c)
          \/ finish(c)
    BY <1>5 DEF Client
  <2>2. ~io_restricted(c)
    BY DEF Plain, io_restricted
  <2>. QED  BY <2>1, <2>2, StorePlain, RequestPlain, RawPlain, SubmitQueuedPlain,
               PollingPlain, KillPlain, FinishPlain
<1>6. CASE \E e \in Ops : kernel_completes(e)
  BY <1>6, KernelPlain
<1>. QED  BY <1>1, <1>2, <1>3, <1>4, <1>5, <1>6 DEF Next

\* The invariant of the plain usage holds throughout its behaviours.
THEOREM PlainInvariance ==
  ASSUME Plain
  PROVE  Spec => []PInv
<1>1. Init => PInv
  BY DEF Init, RingInit, PInv, NoFault, NeverDestroyed, SubmitInv, MainInv, KillerInv
<1>2. IInv /\ HandlerInv /\ PInv /\ [Next]_vars => PInv'
  BY NextPlain
<1>. QED  BY <1>1, <1>2, Invariance, PTL DEF Spec

\* Clients that register their coroutines before start() and leave a dying
\* manager alone, on a kernel that takes what it is offered, run into none of
\* the undefined behaviour: no freed coroutine is resumed, no freed RequestData
\* used, no exited ring waited on, whenever and however often they kill().  (The
\* read of a just freed promise, core.cpp 322, is the one thing not in `fault`.)
THEOREM FaultFree ==
  ASSUME Admit \subseteq {"early_kill", "second_kill"}
  PROVE  Spec => []NoFault
<1>1. Plain
  BY DEF Plain
<1>2. PInv => NoFault
  BY DEF PInv
<1>. QED  BY <1>1, <1>2, PlainInvariance, PTL

\* Nor is a coroutine destroyed before it has finished (core.cpp 323).
THEOREM StoreCorrect ==
  ASSUME Admit \subseteq {"early_kill", "second_kill"}
  PROVE  Spec => []NeverDestroyed
<1>1. Plain
  BY DEF Plain
<1>2. PInv => NeverDestroyed
  BY DEF PInv
<1>. QED  BY <1>1, <1>2, PlainInvariance, PTL
=============================================================================
