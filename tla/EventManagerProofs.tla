------------------------- MODULE EventManagerProofs -------------------------
(***************************************************************************)
(* Machine-checked proofs about EventManager, for every set of coroutines, *)
(* requests and raw operations, every queue depth and whatever Admit       *)
(* admits.                                                                 *)
(*                                                                         *)
(* TypeOK and InFlightExact are not inductive: that the counter does not   *)
(* go below 0 depends on the completion being consumed, that it counts     *)
(* right on no operation being twice on the ring, and that on when a       *)
(* RequestData may be allocated again.  IInv adds these.                   *)
(***************************************************************************)
EXTENDS EventManager, UringProofs

-----------------------------------------------------------------------------
(* The inductive invariant.                                                *)

\* What the place where the loop stands says of the stack, of the oldest
\* completion and of the request in event_handler.
LoopInv ==
  /\ pc \in {"top", "wait", "seen", "exit"} => stack = <<>>
  /\ pc = "seen" => cq # <<>>
  /\ pc = "resumed" => cq # <<>> /\ cur = Head(cq) /\ cur \in Reqs
  /\ pc \in {"ready_resumed", "ready_stopped"} =>
       /\ cur \in Reqs /\ cur \notin OnRing /\ data[cur] = "na"
       /\ cur \notin Elems(ready_requests_store)
  /\ pc = "killed" => life_state = "DEAD"

\* The completion event_handler is through with; it leaves the completion
\* queue in the next step.
Handled(r) == pc = "seen" /\ r = Head(cq)

\* A RequestData that may be allocated is not on the ring, nor is one that is
\* kept for the poller; an awaited one has an owner.
ReqInv ==
  /\ \A r \in Reqs : data[r] = "free" => r \notin OnRing \/ Handled(r)
  /\ \A r \in Elems(ready_requests_store) : r \notin OnRing \/ Handled(r)
  /\ \A r \in Reqs : data[r] = "await" => handle[r] # None
  /\ ReadyAlive

\* The kill task and the manager's life go together.
KillInv ==
  /\ kill_task = "idle" => Cancel \notin OnRing /\ life_state \in {"NOT_STARTED", "LIVING"}
  /\ life_state = "DYING" => kill_task \in {"waiting", "failed"}
  /\ kill_task = "waiting" => kill_awaiter \in Coros

\* A poll handler runs only inside the event_handler that called it: one at a
\* time, and until it returns the loop stands where it resumed the poller.
HandlerInv ==
  /\ \A c \in Coros : co[c] = "handler" => pc = "ready_resumed" /\ c \in Elems(stack)
  /\ \A c, d \in Coros : co[c] = "handler" /\ co[d] = "handler" => c = d

IInv == TypeOK /\ RingInv /\ LoopInv /\ ReqInv /\ KillInv /\ InFlightExact /\ QuietWhenDead

-----------------------------------------------------------------------------
(* What the operations on the ring do to the invariant.                    *)

\* The part of the invariant that is about the ring and its counter only.
RingOK ==
  /\ RingType /\ in_flight_requests \in Nat
  /\ RingInv /\ InFlightExact

\* The invariant contains its part about the ring.
LEMMA InvRingOK == IInv => RingOK
BY DEF IInv, RingOK, TypeOK

\* One submit call consumes at most what is queued.
LEMMA OutcomesType ==
  ASSUME NEW q \in Seq(Ops), NEW n \in Outcomes(q)
  PROVE  n \in 0..Len(q)
BY DEF Outcomes

\* submit_queued_entries on a queue of operations that are nowhere else keeps
\* the ring in order and the counter exact, however much the kernel consumes.
LEMMA SubmitRing ==
  ASSUME RingOK, NEW q \in Seq(Ops), Injective(q),
         Elems(q) \cap kernel = {}, Elems(q) \cap Elems(cq) = {},
         NEW n \in 0..Len(q), Submit(q, n)
  PROVE  /\ RingOK' /\ cq' = cq
         /\ OnRing' = Elems(q) \cup kernel \cup Elems(cq)
         /\ in_flight_requests' = in_flight_requests + n
<1>1. uring_submit(q, n) /\ in_flight_requests' = in_flight_requests + n
  BY DEF Submit, Counted
<1>2. /\ RingType' /\ RingInv' /\ cq' = cq
      /\ OnRing' = Elems(q) \cup kernel \cup Elems(cq)
      /\ Cardinality(kernel') = Cardinality(kernel) + n
  BY <1>1, SubmitOrder DEF RingOK
<1>3. Cardinality(kernel) \in Nat /\ Len(cq) \in Nat
  BY FS_CardinalityType DEF RingOK, RingType, RingInv
<1>4. InFlightExact'
  BY <1>1, <1>2, <1>3 DEF RingOK, InFlightExact
<1>. QED  BY <1>1, <1>2, <1>4 DEF RingOK

\* The two queues the code submits: what is queued,
LEMMA SubmitQueued ==
  ASSUME RingOK, NEW n \in 0..Len(sq), Submit(sq, n)
  PROVE  /\ RingOK' /\ cq' = cq /\ OnRing' = OnRing
         /\ in_flight_requests' = in_flight_requests + n
BY SubmitRing DEF RingOK, RingType, RingInv, OnRing

\* ... and with a new operation at its end, as every operation of the manager
\* and the kill task submit it.
LEMMA SubmitNew ==
  ASSUME RingOK, NEW e \in Ops \ OnRing, NEW n \in 0..Len(Append(sq, e)),
         Submit(Append(sq, e), n)
  PROVE  /\ RingOK' /\ cq' = cq /\ OnRing' = OnRing \cup {e}
         /\ in_flight_requests' = in_flight_requests + n
<1>1. /\ Append(sq, e) \in Seq(Ops)
      /\ Elems(Append(sq, e)) = Elems(sq) \cup {e}
      /\ Injective(Append(sq, e))
  BY AppendElems DEF RingOK, RingType, RingInv, OnRing
<1>2. /\ Elems(Append(sq, e)) \cap kernel = {}
      /\ Elems(Append(sq, e)) \cap Elems(cq) = {}
  BY <1>1 DEF RingOK, RingType, RingInv, OnRing
<1>. QED  BY <1>1, <1>2, SubmitRing DEF OnRing

\* Actions that leave the ring alone.
LEMMA RingUnchanged ==
  ASSUME RingOK, UNCHANGED <<ring, in_flight_requests>>
  PROVE  RingOK' /\ OnRing' = OnRing /\ cq' = cq
BY DEF RingOK, RingType, RingInv, InFlightExact, OnRing, Elems, Injective, ring

\* get_uring_sqe puts a new operation on the ring; the kernel has not seen it.
LEMMA GetSqeRing ==
  ASSUME RingOK, NEW e \in Ops \ OnRing, get_sqe(e), UNCHANGED in_flight_requests
  PROVE  RingOK' /\ cq' = cq /\ OnRing' = OnRing \cup {e}
BY GetSqeOrder DEF RingOK, InFlightExact

\* A completion moves an operation from the kernel to the completion queue.
LEMMA CompleteRing ==
  ASSUME RingOK, NEW e \in Ops, complete(e), UNCHANGED in_flight_requests
  PROVE  /\ RingOK' /\ OnRing' = OnRing
         /\ cq # <<>> => cq' # <<>> /\ Head(cq') = Head(cq)
<1>1. Cardinality(kernel) \in Nat /\ Len(cq) \in Nat
  BY FS_CardinalityType DEF RingOK, RingType, RingInv
<1>. QED  BY <1>1, CompleteOrder DEF RingOK, InFlightExact

\* Consuming a completion is counted; the counter was above 0.
LEMMA SeenRing ==
  ASSUME RingOK, cq # <<>>, cqe_seen, in_flight_requests' = in_flight_requests - 1
  PROVE  RingOK' /\ OnRing' = OnRing \ {Head(cq)} /\ kernel' = kernel
<1>1. Cardinality(kernel) \in Nat
  BY FS_CardinalityType DEF RingOK, RingType, RingInv
<1>2. /\ RingType' /\ RingInv' /\ kernel' = kernel /\ OnRing' = OnRing \ {Head(cq)}
      /\ Len(cq) \in Nat \ {0} /\ Len(cq') = Len(cq) - 1
  BY SeenOrder DEF RingOK
<1>3. InFlightExact' /\ in_flight_requests' \in Nat
  BY <1>1, <1>2 DEF RingOK, InFlightExact
<1>. QED  BY <1>2, <1>3 DEF RingOK

\* A count of 0 means that nothing is in the kernel and nothing is unread.
LEMMA DrainedIsQuiet ==
  ASSUME NEW k, IsFiniteSet(k), NEW S, NEW q \in Seq(S), Cardinality(k) + Len(q) = 0
  PROVE  k = {} /\ q = <<>>
<1>1. Cardinality(k) \in Nat /\ Len(q) \in Nat
  BY FS_CardinalityType
<1>2. Cardinality(k) = 0 /\ Len(q) = 0
  BY <1>1
<1>. QED  BY <1>2, FS_EmptySet, EmptySeq

-----------------------------------------------------------------------------
(* Each action preserves the invariant.                                    *)

States == {"new", "run", "handler", "io", "poll", "kill", "done", "destroyed"}

\* While client code runs the loop is inside event_handler, inside the end of
\* the kill task, or has not begun.
LEMMA ClientInLoop ==
  ASSUME IInv, NEW c \in Coros, Runs(c)
  PROVE  /\ stack # <<>> /\ Head(stack) = c /\ Tail(stack) \in Seq(Coros)
         /\ pc \in {"main", "resumed", "ready_resumed", "ready_stopped", "killed"}
         /\ \A r : ~Handled(r)
<1>1. stack \in Seq(Coros) /\ stack # <<>> /\ Head(stack) = c
  BY DEF IInv, TypeOK, ExecType, Runs
<1>2. pc \in {"main", "resumed", "ready_resumed", "ready_stopped", "killed"}
  BY <1>1 DEF IInv, TypeOK, LoopType, LoopInv
<1>. QED  BY <1>1, <1>2, HeadTailProperties DEF Handled

\* A coroutine that leaves keeps the execution state well typed.
LEMMA LeaveType ==
  ASSUME IInv, NEW c \in Coros, Runs(c), NEW s \in States, Leave(c, s)
  PROVE  ExecType'
BY ClientInLoop DEF IInv, TypeOK, ExecType, Leave, States

\* So does one that is resumed.
LEMMA ResumeType ==
  ASSUME IInv, NEW c \in Coros, Resume(c)
  PROVE  co' \in [Coros -> States] /\ stack' \in Seq(Coros)
<1>1. <<c>> \in Seq(Coros) /\ stack \in Seq(Coros)
  BY DEF IInv, TypeOK, ExecType
<1>2. <<c>> \o stack \in Seq(Coros)
  BY <1>1, ConcatProperties
<1>. QED  BY <1>2 DEF IInv, TypeOK, ExecType, Resume, States

\* The parts of the type invariant whose variables a step does not change.
LEMMA TypeUnchanged ==
  /\ KillType /\ UNCHANGED killv => KillType'
  /\ ReqType /\ UNCHANGED reqv => ReqType'
  /\ PollType /\ UNCHANGED pollv => PollType'
  /\ ExecType /\ UNCHANGED execv => ExecType'
  /\ ItemType /\ UNCHANGED itemv => ItemType'
  /\ LoopType /\ UNCHANGED loopv => LoopType'
  /\ FaultType /\ UNCHANGED fault => FaultType'
<1>1. KillType /\ UNCHANGED killv => KillType'
  BY DEF KillType, killv
<1>2. ReqType /\ UNCHANGED reqv => ReqType'
  BY DEF ReqType, reqv
<1>3. PollType /\ UNCHANGED pollv => PollType'
  BY Zenon DEF PollType, pollv
<1>4. ExecType /\ UNCHANGED execv => ExecType'
  BY DEF ExecType, execv
<1>5. ItemType /\ UNCHANGED itemv => ItemType'
  BY DEF ItemType, itemv
<1>6. LoopType /\ UNCHANGED loopv => LoopType'
  BY DEF LoopType, loopv
<1>7. FaultType /\ UNCHANGED fault => FaultType'
  BY DEF FaultType
<1>. QED  BY <1>1, <1>2, <1>3, <1>4, <1>5, <1>6, <1>7

\* A step that changes nothing keeps the invariant.
LEMMA StutterInv ==
  ASSUME IInv, UNCHANGED vars
  PROVE  IInv'
<1>1. RingOK' /\ OnRing' = OnRing /\ cq' = cq
  BY InvRingOK, RingUnchanged DEF vars
<1>2. TypeOK'
  BY <1>1, TypeUnchanged DEF IInv, TypeOK, RingOK, vars
<1>3. LoopInv' /\ ReqInv' /\ KillInv'
  BY <1>1 DEF IInv, LoopInv, ReqInv, KillInv, ReadyAlive, Handled, vars,
              killv, reqv, pollv, execv, itemv, loopv
<1>4. QuietWhenDead'
  BY DEF IInv, QuietWhenDead, vars, ring, killv
<1>. QED  BY <1>1, <1>2, <1>3, <1>4 DEF IInv, RingOK

\* Nor does the invariant mention the fault but for its type.
LEMMA FaultsInv ==
  ASSUME IInv, NEW kind \in {"null_manager", "freed_memory", "exited_ring", "null_cqe"},
         Faults(kind)
  PROVE  IInv'
<1>1. RingOK' /\ OnRing' = OnRing /\ cq' = cq
  BY InvRingOK, RingUnchanged DEF Faults
<1>2. TypeOK'
  <2>1. FaultType'
    BY DEF FaultType, Faults
  <2>. QED  BY <1>1, <2>1, TypeUnchanged DEF IInv, TypeOK, RingOK, Faults
<1>3. LoopInv' /\ ReqInv' /\ KillInv'
  BY <1>1 DEF IInv, LoopInv, ReqInv, KillInv, ReadyAlive, Handled, Faults,
              killv, reqv, pollv, execv, itemv, loopv
<1>4. QuietWhenDead'
  BY DEF IInv, QuietWhenDead, Faults, ring, killv
<1>. QED  BY <1>1, <1>2, <1>3, <1>4 DEF IInv, RingOK

\* register_coro starts a coroutine; the loop's own state is untouched.
LEMMA RegisterCoroInv ==
  ASSUME IInv, NEW c \in Coros, register_coro(c)
  PROVE  IInv'
<1>1. RingOK' /\ OnRing' = OnRing /\ cq' = cq
  BY InvRingOK, RingUnchanged DEF register_coro
<1>2. TypeOK'
  <2>1. co' \in [Coros -> States] /\ stack' \in Seq(Coros)
    BY ResumeType DEF register_coro
  <2>2. ExecType'
    BY <2>1 DEF IInv, TypeOK, ExecType, register_coro, States
  <2>. QED  BY <1>1, <2>2, TypeUnchanged DEF IInv, TypeOK, RingOK, register_coro
<1>3. pc = "main" \/ stack # <<>>
  BY DEF register_coro, Runs
<1>4. LoopInv' /\ ReqInv' /\ KillInv'
  BY <1>1, <1>3 DEF IInv, LoopInv, ReqInv, KillInv, ReadyAlive, Handled, register_coro,
                    killv, reqv, pollv, loopv
<1>5. QuietWhenDead'
  BY DEF IInv, QuietWhenDead, register_coro, ring, killv
<1>. QED  BY <1>1, <1>2, <1>4, <1>5 DEF IInv, RingOK

\* The rest of register_coro: whichever slot is overwritten, a destroyed
\* coroutine's request is neither free nor ready afterwards.
LEMMA StoreCoroInv ==
  ASSUME IInv, NEW c \in Coros, store_coro(c)
  PROVE  IInv'
<1>1. CASE Faults("freed_memory")
  BY <1>1, FaultsInv
<1>2. CASE ~Faults("freed_memory")
  <2>1. PICK i \in InsertSlots :
          /\ items' = IF freed_idxs = {} THEN Append(items, c) ELSE [items EXCEPT ![i] = c]
          /\ freed_idxs' = freed_idxs \ {i}
          /\ metadata' = [metadata EXCEPT ![c] = i]
          /\ co' = [d \in Coros |-> IF d \in Victims(i) THEN "destroyed" ELSE co[d]]
          /\ data' = [r \in Reqs |-> IF data[r] = "await" /\ handle[r] \in Victims(i)
                                     THEN "gone" ELSE data[r]]
          /\ stack' = Tail(stack)
          /\ registering' = registering \ {c}
          /\ UNCHANGED <<ring, in_flight_requests, killv, handle, coro_idx, pollv, loopv, fault>>
    BY <1>2 DEF store_coro
  <2>2. RingOK' /\ OnRing' = OnRing /\ cq' = cq
    BY <2>1, InvRingOK, RingUnchanged
  <2>3. stack # <<>> /\ stack \in Seq(Coros) /\ Tail(stack) \in Seq(Coros)
    BY HeadTailProperties DEF IInv, TypeOK, ExecType, store_coro
  <2>4. i \in Nat \ {0}
    BY DEF IInv, TypeOK, ItemType, InsertSlots
  <2>5. items' \in Seq(Coros)
    <3>1. items \in Seq(Coros)
      BY DEF IInv, TypeOK, ItemType
    <3>2. CASE freed_idxs = {}
      BY <2>1, <3>1, <3>2, AppendProperties
    <3>3. CASE freed_idxs # {} /\ i \in 1..Len(items)
      BY <2>1, <3>1, <3>3, ExceptSeq
    <3>4. CASE freed_idxs # {} /\ i \notin 1..Len(items)
      <4>1. items' = items
        BY <2>1, <3>1, <3>4
      <4>. QED  BY <4>1, <3>1
    <3>. QED  BY <3>2, <3>3, <3>4
  <2>6. TypeOK'
    <3>1. ExecType'
      BY <2>1, <2>3 DEF IInv, TypeOK, ExecType
    <3>2. ReqType'
      BY <2>1 DEF IInv, TypeOK, ReqType
    <3>3. ItemType'
      BY <2>1, <2>4, <2>5 DEF IInv, TypeOK, ItemType
    <3>. QED  BY <2>1, <2>2, <3>1, <3>2, <3>3, TypeUnchanged DEF IInv, TypeOK, RingOK
  <2>7. pc \in {"main", "resumed", "ready_resumed", "ready_stopped", "killed"}
    BY <2>3 DEF IInv, TypeOK, LoopType, LoopInv
  <2>8. \A r \in Reqs : /\ data'[r] = "free" <=> data[r] = "free"
                        /\ data'[r] = "na" <=> data[r] = "na"
                        /\ data'[r] = "await" => data[r] = "await"
    BY <2>1 DEF IInv, TypeOK, ReqType
  <2>9. UNCHANGED <<pc, cur, handle, ready_requests_store, life_state, kill_task, kill_awaiter>>
    BY <2>1 DEF killv, pollv, loopv
  <2>10. LoopInv'
    BY <2>2, <2>7, <2>8, <2>9 DEF IInv, LoopInv
  <2>11. ReadyAlive'
    BY <2>8, <2>9 DEF IInv, TypeOK, PollType, ReqInv, ReadyAlive
  <2>12. ReqInv'
    BY <2>2, <2>7, <2>8, <2>9, <2>11 DEF IInv, ReqInv, Handled
  <2>13. KillInv'
    BY <2>2, <2>9 DEF IInv, KillInv
  <2>14. QuietWhenDead'
    BY <2>1, <2>9 DEF IInv, QuietWhenDead, ring
  <2>. QED  BY <2>2, <2>6, <2>10, <2>12, <2>13, <2>14 DEF IInv, RingOK
<1>. QED  BY <1>1, <1>2

\* A request that is allocated by client code and put on the ring, whatever
\* becomes of its submission.
LEMMA NewRequestInv ==
  ASSUME IInv, NEW c \in Coros, Runs(c), sqe_available,
         NEW r \in Reqs, data[r] = "free",
         NEW n \in Outcomes(Append(sq, r)), Submit(Append(sq, r), n),
         NEW s \in {"await", "na", "gone"}, data' = [data EXCEPT ![r] = s],
         NEW h \in Coros \cup {None}, handle' = [handle EXCEPT ![r] = h],
         s = "await" => h # None,
         NEW k \in Nat \ {0}, coro_idx' = [coro_idx EXCEPT ![r] = k],
         ExecType', UNCHANGED <<killv, pollv, itemv, loopv, fault>>
  PROVE  IInv'
<1>1. r \in Ops \ OnRing
  BY ClientInLoop, OpsAssumption DEF IInv, ReqInv
<1>2. Append(sq, r) \in Seq(Ops)
  BY <1>1, InvRingOK, AppendProperties DEF RingOK, RingType
<1>3. n \in 0..Len(Append(sq, r))
  BY <1>2, OutcomesType
<1>4. RingOK' /\ cq' = cq /\ OnRing' = OnRing \cup {r}
  BY <1>1, <1>3, InvRingOK, SubmitNew
<1>5. TypeOK'
  <2>1. ReqType'
    BY DEF IInv, TypeOK, ReqType
  <2>. QED  BY <1>4, <2>1, TypeUnchanged DEF IInv, TypeOK, RingOK
<1>6. UNCHANGED <<pc, cur, ready_requests_store, life_state, kill_task, kill_awaiter>>
  BY DEF killv, pollv, loopv
<1>7. \A x \in Reqs : x # r => data'[x] = data[x] /\ handle'[x] = handle[x]
  BY DEF IInv, TypeOK, ReqType
<1>8. data'[r] = s /\ handle'[r] = h
  BY DEF IInv, TypeOK, ReqType
<1>9. pc \in {"main", "resumed", "ready_resumed", "ready_stopped", "killed"}
  BY ClientInLoop
<1>10. LoopInv'
  BY <1>4, <1>6, <1>7, <1>9 DEF IInv, LoopInv
<1>11. ReadyAlive'
  BY <1>6, <1>7 DEF IInv, TypeOK, PollType, ReqInv, ReadyAlive
<1>12. ReqInv'
  <2>1. Elems(ready_requests_store) \subseteq Reqs
    BY ElemsType DEF IInv, TypeOK, PollType
  <2>2. r \notin Elems(ready_requests_store)
    BY DEF IInv, ReqInv, ReadyAlive, Elems
  <2>3. \A x : ~Handled(x)
    BY ClientInLoop
  <2>4. \A x \in Reqs : data'[x] = "free" => x \notin OnRing'
    BY <1>4, <1>7, <1>8, <2>3 DEF IInv, ReqInv
  <2>5. \A x \in Elems(ready_requests_store') : x \notin OnRing'
    BY <1>4, <1>6, <2>2, <2>3 DEF IInv, ReqInv
  <2>6. \A x \in Reqs : data'[x] = "await" => handle'[x] # None
    BY <1>7, <1>8 DEF IInv, ReqInv
  <2>. QED  BY <1>11, <2>4, <2>5, <2>6 DEF ReqInv
<1>13. KillInv'
  BY <1>4, <1>6, SetsAssumption DEF IInv, KillInv
<1>14. QuietWhenDead'
  BY <1>6 DEF QuietWhenDead, sqe_available, should_restrict_usage
<1>. QED  BY <1>4, <1>5, <1>10, <1>12, <1>13, <1>14 DEF IInv, RingOK

\* An awaited operation.
LEMMA IoAwaitInv ==
  ASSUME IInv, NEW c \in Coros, NEW r \in Reqs, io_await(c, r)
  PROVE  IInv'
<1>1. CASE ~sqe_available
  BY <1>1, StutterInv DEF io_await
<1>2. CASE sqe_available
  <2>1. /\ Runs(c) /\ data[r] = "free"
        /\ handle' = [handle EXCEPT ![r] = c]
        /\ \E i \in request_idxs(c) : coro_idx' = [coro_idx EXCEPT ![r] = i]
        /\ UNCHANGED <<killv, pollv, itemv, loopv, fault>>
    BY <1>2 DEF io_await, InBody
  <2>2. PICK i \in request_idxs(c) : coro_idx' = [coro_idx EXCEPT ![r] = i]
    BY <2>1
  <2>3. i \in Nat \ {0} /\ c # None
    BY SetsAssumption DEF request_idxs, IInv, TypeOK, ItemType
  <2>4. PICK n \in Outcomes(Append(sq, r)) :
          /\ Submit(Append(sq, r), n)
          /\ IF submit_failed(n)
             THEN data' = [data EXCEPT ![r] = "gone"] /\ UNCHANGED execv
             ELSE data' = [data EXCEPT ![r] = "await"] /\ Leave(c, "io")
    BY <1>2 DEF io_await, prepare_sqring_op
  <2>5. CASE submit_failed(n)
    <3>1. ExecType'
      BY <2>4, <2>5, TypeUnchanged DEF IInv, TypeOK
    <3>. QED  BY <1>2, <2>1, <2>2, <2>3, <2>4, <2>5, <3>1, NewRequestInv
  <2>6. CASE ~submit_failed(n)
    <3>1. ExecType'
      BY <2>1, <2>4, <2>6, LeaveType DEF States
    <3>. QED  BY <1>2, <2>1, <2>2, <2>3, <2>4, <2>6, <3>1, NewRequestInv
  <2>. QED  BY <2>5, <2>6
<1>. QED  BY <1>1, <1>2

\* A non-awaitable operation.
LEMMA IoNaInv ==
  ASSUME IInv, NEW c \in Coros, NEW r \in Reqs, io_na(c, r)
  PROVE  IInv'
<1>1. CASE ~sqe_available
  BY <1>1, StutterInv DEF io_na
<1>2. CASE sqe_available
  <2>1. /\ Runs(c) /\ data[r] = "free"
        /\ handle' = [handle EXCEPT ![r] = None]
        /\ coro_idx' = [coro_idx EXCEPT ![r] = 1]
        /\ UNCHANGED <<killv, pollv, itemv, loopv, fault>>
    BY <1>2 DEF io_na, get_sqe_and_req_data
  <2>2. ExecType'
    BY <1>2, TypeUnchanged DEF IInv, TypeOK, io_na
  <2>3. PICK n \in Outcomes(Append(sq, r)) :
          /\ Submit(Append(sq, r), n)
          /\ data' = [data EXCEPT ![r] = IF submit_failed(n) THEN "gone" ELSE "na"]
    BY <1>2 DEF io_na, submit_request
  <2>4. None \in Coros \cup {None} /\ 1 \in Nat \ {0}
    OBVIOUS
  <2>5. CASE submit_failed(n)
    <3>1. data' = [data EXCEPT ![r] = "gone"]
      BY <2>3, <2>5
    <3>. QED  BY <1>2, <2>1, <2>2, <2>3, <2>4, <3>1, NewRequestInv
  <2>6. CASE ~submit_failed(n)
    <3>1. data' = [data EXCEPT ![r] = "na"]
      BY <2>3, <2>6
    <3>. QED  BY <1>2, <2>1, <2>2, <2>3, <2>4, <3>1, NewRequestInv
  <2>. QED  BY <2>5, <2>6
<1>. QED  BY <1>1, <1>2

\* A raw entry taken by the client: queued, not yet counted.
LEMMA GetUringSqeInv ==
  ASSUME IInv, NEW c \in Coros, NEW w \in Raws, get_uring_sqe(c, w)
  PROVE  IInv'
<1>1. CASE ~sqe_available
  BY <1>1, StutterInv DEF get_uring_sqe
<1>2. CASE sqe_available
  <2>1. /\ Runs(c) /\ w \notin OnRing /\ get_sqe(w)
        /\ UNCHANGED <<in_flight_requests, killv, reqv, pollv, execv, itemv, loopv, fault>>
    BY <1>2 DEF get_uring_sqe
  <2>2. w \in Ops \ OnRing /\ w \notin Reqs /\ w # Cancel
    BY <2>1, OpsAssumption, SetsAssumption
  <2>3. RingOK' /\ cq' = cq /\ OnRing' = OnRing \cup {w}
    BY <2>1, <2>2, InvRingOK, GetSqeRing
  <2>4. TypeOK'
    BY <2>1, <2>3, TypeUnchanged DEF IInv, TypeOK, RingOK
  <2>5. UNCHANGED <<pc, cur, stack, data, handle, ready_requests_store, life_state,
                    kill_task, kill_awaiter>>
    BY <2>1 DEF killv, reqv, pollv, execv, loopv
  <2>6. LoopInv'
    BY <2>2, <2>3, <2>5 DEF IInv, LoopInv
  <2>7. Elems(ready_requests_store) \subseteq Reqs
    BY ElemsType DEF IInv, TypeOK, PollType
  <2>8. ReqInv'
    BY <2>2, <2>3, <2>5, <2>7 DEF IInv, ReqInv, ReadyAlive, Handled
  <2>9. KillInv'
    BY <2>2, <2>3, <2>5 DEF IInv, KillInv
  <2>10. QuietWhenDead'
    BY <1>2, <2>5 DEF QuietWhenDead, sqe_available, should_restrict_usage
  <2>. QED  BY <2>3, <2>4, <2>6, <2>8, <2>9, <2>10 DEF IInv, RingOK
<1>. QED  BY <1>1, <1>2

\* An explicit submission by the client.
LEMMA SubmitQueuedEntriesInv ==
  ASSUME IInv, NEW c \in Coros, submit_queued_entries(c)
  PROVE  IInv'
<1>1. CASE life_state = "DEAD"
  BY <1>1, FaultsInv DEF submit_queued_entries
<1>2. CASE life_state # "DEAD"
  <2>1. UNCHANGED <<killv, reqv, pollv, execv, itemv, loopv, fault>>
    BY <1>2 DEF submit_queued_entries
  <2>2. PICK n \in Outcomes(sq) : Submit(sq, n)
    BY <1>2 DEF submit_queued_entries
  <2>3. RingOK' /\ cq' = cq /\ OnRing' = OnRing
    BY <2>2, InvRingOK, OutcomesType, SubmitQueued DEF RingOK, RingType
  <2>4. TypeOK'
    BY <2>1, <2>3, TypeUnchanged DEF IInv, TypeOK, RingOK
  <2>5. UNCHANGED <<pc, cur, stack, data, handle, ready_requests_store, life_state,
                    kill_task, kill_awaiter>>
    BY <2>1 DEF killv, reqv, pollv, execv, loopv
  <2>6. LoopInv' /\ ReqInv' /\ KillInv'
    BY <2>3, <2>5 DEF IInv, LoopInv, ReqInv, ReadyAlive, Handled, KillInv
  <2>7. QuietWhenDead'
    BY <1>2, <2>5 DEF QuietWhenDead
  <2>. QED  BY <2>3, <2>4, <2>6, <2>7 DEF IInv, RingOK
<1>. QED  BY <1>1, <1>2

\* A step of client code that touches neither the ring nor a request.
LEMMA ClientQuietInv ==
  ASSUME IInv, NEW c \in Coros, Runs(c), PollType', ExecType',
         kill_awaiter' \in Coros \cup {None},
         kill_task = "waiting" => kill_awaiter' \in Coros,
         UNCHANGED <<ring, in_flight_requests, life_state, kill_task, reqv,
                     ready_requests_store, itemv, loopv, fault>>
  PROVE  IInv'
<1>1. RingOK' /\ OnRing' = OnRing /\ cq' = cq
  BY InvRingOK, RingUnchanged
<1>2. TypeOK'
  <2>1. KillType'
    BY DEF IInv, TypeOK, KillType
  <2>. QED  BY <1>1, <2>1, TypeUnchanged DEF IInv, TypeOK, RingOK
<1>3. pc \in {"main", "resumed", "ready_resumed", "ready_stopped", "killed"}
  BY ClientInLoop
<1>4. LoopInv' /\ ReqInv' /\ KillInv'
  BY <1>1, <1>3 DEF IInv, LoopInv, ReqInv, KillInv, ReadyAlive, Handled, reqv, loopv
<1>5. QuietWhenDead'
  BY DEF IInv, QuietWhenDead, ring
<1>. QED  BY <1>1, <1>2, <1>4, <1>5 DEF IInv, RingOK

\* The poller suspends.
LEMMA WaitForResponseInv ==
  ASSUME IInv, NEW c \in Coros, Runs(c), WaitForResponse(c), polling_requests' \in BOOLEAN
  PROVE  IInv'
<1>1. PollType'
  <2>1. ready_requests_store' \in Seq(Reqs)
    BY DEF IInv, TypeOK, PollType, WaitForResponse
  <2>2. polling_handle' \in Coros \cup {None}
    BY DEF WaitForResponse
  <2>. QED  BY Zenon, <2>1, <2>2 DEF PollType
<1>2. ExecType'
  BY LeaveType DEF WaitForResponse, States
<1>3. /\ kill_awaiter' \in Coros \cup {None}
      /\ kill_task = "waiting" => kill_awaiter' \in Coros
      /\ UNCHANGED <<ring, in_flight_requests, life_state, kill_task, reqv,
                     ready_requests_store, itemv, loopv, fault>>
  BY DEF IInv, TypeOK, KillType, KillInv, WaitForResponse, killv
<1>. QED  BY <1>1, <1>2, <1>3, ClientQuietInv

\* poll() takes the poller's place, or returns at once.
LEMMA PollInv ==
  ASSUME IInv, NEW c \in Coros, poll(c)
  PROVE  IInv'
<1>1. CASE polling_requests
  BY <1>1, StutterInv DEF poll
<1>2. CASE ~polling_requests
  <2>1. Runs(c) /\ WaitForResponse(c)
    BY Zenon, <1>2 DEF poll, InBody
  <2>2. polling_requests' \in BOOLEAN
    BY Zenon, <1>2 DEF poll
  <2>. QED  BY <2>1, <2>2, WaitForResponseInv
<1>. QED  BY <1>1, <1>2

\* The poll handler goes on polling.
LEMMA HandlerContinueInv ==
  ASSUME IInv, NEW c \in Coros, handler_continue(c)
  PROVE  IInv'
<1>1. polling_requests' \in BOOLEAN
  BY Zenon DEF handler_continue, IInv, TypeOK, PollType
<1>. QED  BY <1>1, WaitForResponseInv DEF handler_continue

\* The poll handler stops polling; its request is still the one in
\* event_handler.
LEMMA HandlerStopInv ==
  ASSUME IInv, HandlerInv, NEW c \in Coros, handler_stop(c)
  PROVE  IInv'
<1>1. PollType'
  <2>1. ready_requests_store' \in Seq(Reqs) /\ polling_handle' \in Coros \cup {None}
    BY DEF IInv, TypeOK, PollType, handler_stop
  <2>2. polling_requests' \in BOOLEAN
    BY Zenon DEF handler_stop
  <2>. QED  BY Zenon, <2>1, <2>2 DEF PollType
<1>2. ExecType'
  BY DEF IInv, TypeOK, ExecType, handler_stop
<1>3. /\ pc = "ready_resumed" /\ pc' = "ready_stopped"
      /\ UNCHANGED <<ring, in_flight_requests, killv, reqv, itemv, cur, fault,
                     ready_requests_store>>
  BY Zenon DEF HandlerInv, handler_stop
<1>4. RingOK' /\ OnRing' = OnRing /\ cq' = cq
  BY <1>3, InvRingOK, RingUnchanged
<1>5. LoopType'
  BY <1>3 DEF IInv, TypeOK, LoopType
<1>6. TypeOK'
  BY <1>1, <1>2, <1>3, <1>4, <1>5, TypeUnchanged DEF IInv, TypeOK, RingOK
<1>7. LoopInv' /\ ReqInv' /\ KillInv'
  BY <1>3, <1>4 DEF IInv, LoopInv, ReqInv, KillInv, ReadyAlive, Handled, reqv, killv
<1>8. QuietWhenDead'
  BY <1>3 DEF IInv, QuietWhenDead, ring, killv
<1>. QED  BY <1>4, <1>6, <1>7, <1>8 DEF IInv, RingOK

\* A coroutine returns.
LEMMA FinishInv ==
  ASSUME IInv, NEW c \in Coros, finish(c)
  PROVE  IInv'
<1>1. Runs(c) /\ UNCHANGED pollv
  BY DEF finish, InBody
<1>2. PollType'
  BY <1>1, TypeUnchanged DEF IInv, TypeOK
<1>3. ExecType'
  BY <1>1, LeaveType DEF finish, States
<1>4. /\ kill_awaiter' \in Coros \cup {None}
      /\ kill_task = "waiting" => kill_awaiter' \in Coros
      /\ UNCHANGED <<ring, in_flight_requests, life_state, kill_task, reqv,
                     ready_requests_store, itemv, loopv, fault>>
  BY DEF IInv, TypeOK, KillType, KillInv, finish, killv, pollv
<1>. QED  BY <1>1, <1>2, <1>3, <1>4, ClientQuietInv

\* The start of the kill task.  The cancel operation is new on the ring, and
\* the manager is dead at once only if that leaves nothing in flight.
LEMMA KillInternalInv ==
  ASSUME IInv, NEW c \in Coros, Runs(c), kill_internal(c)
  PROVE  IInv'
<1>1. /\ kill_task = "idle" /\ Cancel \notin OnRing /\ Cancel \in Ops
      /\ life_state \in {"NOT_STARTED", "LIVING"}
  BY OpsAssumption DEF IInv, KillInv, kill_internal
<1>2. /\ UNCHANGED <<reqv, pollv, itemv, loopv, fault>>
      /\ UNCHANGED <<pc, cur, data, handle, ready_requests_store>>
  BY DEF kill_internal, reqv, pollv, loopv
<1>3. PICK n1 \in IF pending = 0 THEN {0} ELSE Outcomes(sq) :
        IF ~HasRoom(SubSeq(sq, n1 + 1, Len(sq)))
        THEN /\ Submit(sq, n1)
             /\ life_state' = "DYING" /\ kill_task' = "failed"
             /\ UNCHANGED <<kill_awaiter, execv>>
        ELSE \E n2 \in Outcomes(Append(SubSeq(sq, n1 + 1, Len(sq)), Cancel)) :
             /\ Submit(Append(sq, Cancel), n1 + n2)
             /\ IF drained(in_flight_requests + n1 + n2)
                THEN /\ life_state' = "DEAD" /\ kill_task' = "done"
                     /\ UNCHANGED <<kill_awaiter, execv>>
                ELSE /\ life_state' = "DYING" /\ kill_task' = "waiting"
                     /\ kill_awaiter' = c
                     /\ Leave(c, "kill")
  BY DEF kill_internal
<1>4. sq \in Seq(Ops) /\ Len(sq) \in Nat /\ n1 \in 0..Len(sq)
  <2>1. sq \in Seq(Ops) /\ Len(sq) \in Nat
    BY InvRingOK DEF RingOK, RingType
  <2>. QED  BY <2>1, OutcomesType
<1>5. /\ SubSeq(sq, n1 + 1, Len(sq)) \in Seq(Ops)
      /\ Len(SubSeq(sq, n1 + 1, Len(sq))) = Len(sq) - n1
  BY <1>4, InvRingOK, SplitElems DEF RingOK, RingInv, Unconsumed
<1>6. pc \in {"main", "resumed", "ready_resumed", "ready_stopped", "killed"}
  BY ClientInLoop
<1>7. ASSUME RingOK', cq' = cq, OnRing' = OnRing \/ OnRing' = OnRing \cup {Cancel},
             KillType', ExecType',
             life_state' = "DYING" => kill_task' \in {"waiting", "failed"},
             kill_task' = "waiting" => kill_awaiter' \in Coros,
             kill_task' # "idle",
             life_state' = "DEAD" => kernel' = {} /\ cq' = <<>>
      PROVE  IInv'
  <2>1. TypeOK'
    BY <1>2, <1>7, TypeUnchanged DEF IInv, TypeOK, RingOK
  <2>2. Elems(ready_requests_store) \subseteq Reqs /\ Cancel \notin Reqs
    BY ElemsType, SetsAssumption DEF IInv, TypeOK, PollType
  <2>3. pc # "killed"
    BY <1>1 DEF IInv, LoopInv
  <2>4. LoopInv'
    BY <1>2, <1>6, <1>7, <2>2, <2>3 DEF IInv, LoopInv
  <2>5. ReqInv'
    BY <1>2, <1>7, <2>2 DEF IInv, ReqInv, ReadyAlive, Handled
  <2>6. KillInv'
    BY <1>7 DEF KillInv
  <2>7. QuietWhenDead'
    BY <1>7 DEF QuietWhenDead
  <2>. QED  BY <1>7, <2>1, <2>4, <2>5, <2>6, <2>7 DEF IInv, RingOK
<1>8. CASE ~HasRoom(SubSeq(sq, n1 + 1, Len(sq)))
  <2>1. RingOK' /\ cq' = cq /\ OnRing' = OnRing
    BY <1>3, <1>4, <1>8, InvRingOK, SubmitQueued
  <2>2. KillType'
    BY <1>3, <1>8 DEF IInv, TypeOK, KillType
  <2>3. ExecType'
    BY <1>3, <1>8, TypeUnchanged DEF IInv, TypeOK
  <2>. QED  BY <1>3, <1>7, <1>8, <2>1, <2>2, <2>3
<1>9. CASE HasRoom(SubSeq(sq, n1 + 1, Len(sq)))
  <2>1. PICK n2 \in Outcomes(Append(SubSeq(sq, n1 + 1, Len(sq)), Cancel)) :
             /\ Submit(Append(sq, Cancel), n1 + n2)
             /\ IF drained(in_flight_requests + n1 + n2)
                THEN /\ life_state' = "DEAD" /\ kill_task' = "done"
                     /\ UNCHANGED <<kill_awaiter, execv>>
                ELSE /\ life_state' = "DYING" /\ kill_task' = "waiting"
                     /\ kill_awaiter' = c
                     /\ Leave(c, "kill")
    BY <1>3, <1>9
  <2>2. n1 + n2 \in 0..Len(Append(sq, Cancel))
    <3> DEFINE rest == SubSeq(sq, n1 + 1, Len(sq))
    <3>1. /\ Append(rest, Cancel) \in Seq(Ops)
          /\ Len(Append(rest, Cancel)) = (Len(sq) - n1) + 1
          /\ Len(Append(sq, Cancel)) = Len(sq) + 1
      BY <1>1, <1>4, <1>5, AppendProperties
    <3>2. n2 \in 0..Len(Append(rest, Cancel))
      BY <3>1, OutcomesType
    <3> HIDE DEF rest
    <3>. QED  BY <1>4, <3>1, <3>2
  <2>3. /\ RingOK' /\ cq' = cq /\ OnRing' = OnRing \cup {Cancel}
        /\ in_flight_requests' = in_flight_requests + (n1 + n2)
    BY <1>1, <2>1, <2>2, InvRingOK, SubmitNew
  <2>4. CASE drained(in_flight_requests + n1 + n2)
    <3>1. in_flight_requests' = 0
      <4>1. in_flight_requests \in Nat /\ n1 \in Nat /\ n2 \in Nat
        <5>1. Append(SubSeq(sq, n1 + 1, Len(sq)), Cancel) \in Seq(Ops)
          BY <1>1, <1>5, AppendProperties
        <5>2. n2 \in 0..Len(Append(SubSeq(sq, n1 + 1, Len(sq)), Cancel))
          BY <5>1, OutcomesType
        <5>3. in_flight_requests \in Nat
          BY DEF IInv, TypeOK
        <5>. QED  BY <1>4, <5>1, <5>2, <5>3
      <4>. QED  BY <2>3, <2>4, <4>1 DEF drained
    <3>2. kernel' = {} /\ cq' = <<>>
      BY <2>3, <3>1, DrainedIsQuiet DEF RingOK, RingType, RingInv, InFlightExact
    <3>3. KillType'
      BY <2>1, <2>4 DEF IInv, TypeOK, KillType
    <3>4. ExecType'
      BY <2>1, <2>4, TypeUnchanged DEF IInv, TypeOK
    <3>. QED  BY <1>7, <2>1, <2>3, <2>4, <3>2, <3>3, <3>4
  <2>5. CASE ~drained(in_flight_requests + n1 + n2)
    <3>1. KillType'
      BY <2>1, <2>5 DEF IInv, TypeOK, KillType
    <3>2. ExecType'
      BY <2>1, <2>5, LeaveType DEF States
    <3>. QED  BY <1>7, <2>1, <2>3, <2>5, <3>1, <3>2
  <2>. QED  BY <2>4, <2>5
<1>. QED  BY <1>8, <1>9

\* kill(): the first one, one on a finished task, and one that replaces the
\* awaiter.
LEMMA KillCallInv ==
  ASSUME IInv, NEW c \in Coros, kill(c)
  PROVE  IInv'
<1>1. Runs(c)
  BY DEF kill, InBody
<1>2. CASE kill_internal(c)
  BY <1>1, <1>2, KillInternalInv
<1>3. CASE UNCHANGED vars
  BY <1>3, StutterInv
<1>4. CASE /\ kill_awaiter' = next_awaiter(c)
           /\ Leave(c, "kill")
           /\ UNCHANGED <<ring, in_flight_requests, life_state, kill_task, reqv, pollv,
                          itemv, loopv, fault>>
  <2>1. PollType'
    BY <1>4, TypeUnchanged DEF IInv, TypeOK
  <2>2. ExecType'
    BY <1>1, <1>4, LeaveType DEF States
  <2>3. kill_awaiter' \in Coros /\ UNCHANGED ready_requests_store
    BY <1>4 DEF next_awaiter, pollv
  <2>. QED  BY <1>1, <1>4, <2>1, <2>2, <2>3, ClientQuietInv
<1>. QED  BY <1>2, <1>3, <1>4 DEF kill

\* start() enters the loop, or returns at once.
LEMMA StartInv ==
  ASSUME IInv, start
  PROVE  IInv'
<1>1. RingOK' /\ OnRing' = OnRing /\ cq' = cq
  BY InvRingOK, RingUnchanged DEF start
<1>2. /\ pc = "main" /\ pc' \in {"top", "exit"} /\ stack' = <<>>
      /\ life_state' = life_state \/ (life_state = "NOT_STARTED" /\ life_state' = "LIVING")
      /\ UNCHANGED <<cur, data, handle, ready_requests_store, kill_task, kill_awaiter>>
  BY DEF start, Idle, execv, reqv, pollv
<1>3. TypeOK'
  <2>1. KillType' /\ LoopType'
    BY <1>2 DEF IInv, TypeOK, KillType, LoopType
  <2>. QED  BY <1>1, <2>1, TypeUnchanged DEF IInv, TypeOK, RingOK, start
<1>4. LoopInv' /\ ReqInv' /\ KillInv'
  BY <1>1, <1>2 DEF IInv, LoopInv, ReqInv, ReadyAlive, Handled, KillInv
<1>5. QuietWhenDead'
  BY <1>2 DEF IInv, QuietWhenDead, start, ring
<1>. QED  BY <1>1, <1>3, <1>4, <1>5 DEF IInv, RingOK

\* The request handed to the poller is off the ring, and no longer kept.
LEMMA DeliverReadyInv ==
  ASSUME IInv, deliver_ready
  PROVE  IInv'
<1> DEFINE q == ready_requests_store
           r == Last(q)
           c == polling_handle
<1>1. CASE co[c] = "destroyed"
  BY <1>1, FaultsInv DEF deliver_ready
<1>2. CASE co[c] # "destroyed"
  <2>1. /\ pc = "top" /\ q # <<>> /\ c # None
        /\ ready_requests_store' = Front(q)
        /\ handle' = [handle EXCEPT ![r] = c]
        /\ polling_handle' = None
        /\ co' = [co EXCEPT ![c] = "handler"]
        /\ stack' = <<c>> \o stack
        /\ cur' = r /\ pc' = "ready_resumed"
        /\ UNCHANGED <<ring, in_flight_requests, killv, data, coro_idx, polling_requests,
                       registering, itemv, fault>>
    BY <1>2 DEF deliver_ready, Deliverable, popped, handle_taken
  <2>2. RingOK' /\ OnRing' = OnRing /\ cq' = cq
    BY <2>1, InvRingOK, RingUnchanged
  <2>3. q \in Seq(Reqs) /\ Len(q) \in Nat \ {0} /\ DOMAIN q = 1..Len(q) /\ c \in Coros
    BY <2>1, EmptySeq DEF IInv, TypeOK, PollType
  <2>4. /\ Front(q) \in Seq(Reqs) /\ DOMAIN Front(q) = 1..(Len(q) - 1)
        /\ \A i \in 1..(Len(q) - 1) : Front(q)[i] = q[i]
        /\ r = q[Len(q)] /\ r \in Reqs
    <3>1. r = q[Len(q)] /\ r \in Reqs
      BY <2>3 DEF Last
    <3>2. \A i \in 1..(Len(q) - 1) : q[i] \in Reqs
      BY <2>3
    <3>3. /\ SubSeq(q, 1, Len(q) - 1) \in Seq(Reqs)
          /\ Len(SubSeq(q, 1, Len(q) - 1)) = Len(q) - 1
          /\ \A i \in 1..(Len(q) - 1) : SubSeq(q, 1, Len(q) - 1)[i] = q[i]
      BY <2>3, <3>2, SubSeqProperties
    <3>4. Front(q) = SubSeq(q, 1, Len(q) - 1)
      BY DEF Front
    <3>5. DOMAIN SubSeq(q, 1, Len(q) - 1) = 1..(Len(q) - 1)
      BY <3>3, LenProperties
    <3>. QED  BY <3>1, <3>3, <3>4, <3>5
  <2> HIDE DEF q, r, c
  <2>5. TypeOK'
    <3>1. PollType'
      <4>1. ready_requests_store' \in Seq(Reqs) /\ polling_handle' \in Coros \cup {None}
        BY <2>1, <2>4
      <4>2. polling_requests' \in BOOLEAN
        BY Zenon, <2>1 DEF IInv, TypeOK, PollType
      <4>. QED  BY Zenon, <4>1, <4>2 DEF PollType
    <3>2. ExecType'
      <4>1. <<c>> \in Seq(Coros) /\ stack \in Seq(Coros)
        BY <2>3 DEF IInv, TypeOK, ExecType
      <4>2. <<c>> \o stack \in Seq(Coros)
        BY <4>1, ConcatProperties
      <4>. QED  BY <2>1, <4>2 DEF IInv, TypeOK, ExecType
    <3>3. ReqType'
      BY <2>1, <2>3 DEF IInv, TypeOK, ReqType
    <3>4. LoopType'
      BY <2>1, <2>4 DEF LoopType
    <3>. QED  BY <2>1, <2>2, <3>1, <3>2, <3>3, <3>4, TypeUnchanged
                 DEF IInv, TypeOK, RingOK
  <2>6. /\ r \in Elems(q) /\ r \notin Elems(Front(q))
        /\ Elems(Front(q)) \subseteq Elems(q) /\ data[r] = "na"
    <3>1. \A i \in 1..(Len(q) - 1) : q[i] # q[Len(q)]
      BY <2>3 DEF IInv, ReqInv, ReadyAlive, q
    <3>. QED  BY <2>3, <2>4, <3>1 DEF Elems, IInv, ReqInv, ReadyAlive, q
  <2>7. \A x : ~Handled(x)
    BY <2>1 DEF Handled
  <2>8. r \notin OnRing
    BY <2>6, <2>7 DEF IInv, ReqInv, q
  <2>9. LoopInv'
    BY <2>1, <2>2, <2>4, <2>6, <2>8 DEF LoopInv
  <2>10. ReadyAlive'
    <3>1. /\ \A i \in 1..Len(q) : data[q[i]] = "na"
          /\ \A i, j \in 1..Len(q) : q[i] = q[j] => i = j
      BY <2>3 DEF IInv, ReqInv, ReadyAlive, q
    <3>2. 1..(Len(q) - 1) \subseteq 1..Len(q)
      BY <2>3
    <3>3. \A i \in DOMAIN Front(q) : data[Front(q)[i]] = "na"
      BY <2>4, <3>1, <3>2
    <3>4. \A i, j \in DOMAIN Front(q) : Front(q)[i] = Front(q)[j] => i = j
      BY <2>4, <3>1, <3>2
    <3>. QED  BY <2>1, <3>3, <3>4 DEF ReadyAlive
  <2>11. ReqInv'
    <3>1. \A x \in Reqs : data'[x] = "free" => x \notin OnRing'
      BY <2>1, <2>2, <2>7 DEF IInv, ReqInv
    <3>2. \A x \in Elems(ready_requests_store') : x \notin OnRing'
      BY <2>1, <2>2, <2>6, <2>7 DEF IInv, ReqInv, q
    <3>3. \A x \in Reqs : data'[x] = "await" => handle'[x] # None
      BY <2>1, <2>6 DEF IInv, TypeOK, ReqType, ReqInv
    <3>. QED  BY <2>10, <3>1, <3>2, <3>3 DEF ReqInv
  <2>12. KillInv' /\ QuietWhenDead'
    BY <2>1, <2>2 DEF IInv, KillInv, QuietWhenDead, killv, ring
  <2>. QED  BY <2>2, <2>5, <2>9, <2>11, <2>12 DEF IInv, RingOK
<1>. QED  BY <1>1, <1>2

\* A polled request is deleted; it was off the ring and no longer kept.
LEMMA ReadyHandledInv ==
  ASSUME IInv, ready_handled
  PROVE  IInv'
<1>1. RingOK' /\ OnRing' = OnRing /\ cq' = cq
  BY InvRingOK, RingUnchanged DEF ready_handled
<1>2. /\ pc \in {"ready_resumed", "ready_stopped"} /\ pc' = "wait"
      /\ stack' = <<>> /\ cur' = None
      /\ data' = [data EXCEPT ![cur] = "free"]
      /\ UNCHANGED <<handle, ready_requests_store>>
  BY DEF ready_handled, Idle, execv, pollv
<1>3. cur \in Reqs /\ cur \notin OnRing /\ cur \notin Elems(ready_requests_store)
  BY <1>2 DEF IInv, LoopInv
<1>4. TypeOK'
  <2>1. ItemType'
    BY <1>3 DEF IInv, TypeOK, ItemType, ReqType, ready_handled, erased_idx
  <2>2. ReqType' /\ LoopType'
    BY <1>2 DEF IInv, TypeOK, ReqType, LoopType, ready_handled
  <2>. QED  BY <1>1, <2>1, <2>2, TypeUnchanged DEF IInv, TypeOK, RingOK, ready_handled
<1>5. \A x \in Reqs : data'[x] = IF x = cur THEN "free" ELSE data[x]
  BY <1>2 DEF IInv, TypeOK, ReqType
<1>6. LoopInv'
  BY <1>2 DEF LoopInv
<1>7. ReadyAlive'
  BY <1>2, <1>3, <1>5 DEF IInv, TypeOK, PollType, ReqInv, ReadyAlive, Elems
<1>8. ReqInv'
  BY <1>1, <1>2, <1>3, <1>5, <1>7 DEF IInv, ReqInv, Handled
<1>9. KillInv' /\ QuietWhenDead'
  BY <1>1 DEF IInv, KillInv, QuietWhenDead, ready_handled, killv, ring
<1>. QED  BY <1>1, <1>4, <1>6, <1>8, <1>9 DEF IInv, RingOK

\* What event_handler does with the oldest completion.
LEMMA HandleCqeInv ==
  ASSUME IInv, handle_cqe
  PROVE  IInv'
<1> DEFINE e == Head(cq)
           q == ready_requests_store
<1>1. RingOK' /\ OnRing' = OnRing /\ cq' = cq
  BY InvRingOK, RingUnchanged DEF handle_cqe
<1>2. /\ cq # <<>> /\ stack = <<>> /\ pc \in {"top", "wait"}
      /\ UNCHANGED <<killv, reqv, itemv>>
      /\ UNCHANGED <<data, handle, life_state, kill_task, kill_awaiter>>
  BY DEF handle_cqe, AtWait, Idle, killv, reqv
<1>3. e \in OnRing
  BY <1>2, InvRingOK, TailElems DEF RingOK, RingType, RingInv, OnRing
<1>4. \A x : ~Handled(x)
  BY <1>2 DEF Handled
<1>5. KillInv' /\ QuietWhenDead'
  BY <1>1, <1>2 DEF IInv, KillInv, QuietWhenDead, handle_cqe, ring
<1>6. \A x \in Reqs : data'[x] = "await" => handle'[x] # None
  BY <1>2 DEF IInv, ReqInv
<1>7. \A x \in Reqs : data'[x] = "free" => x \notin OnRing'
  BY <1>1, <1>2, <1>4 DEF IInv, ReqInv
<1>8. \A x \in Elems(q) : x \notin OnRing
  BY <1>4 DEF IInv, ReqInv
<1>9. ASSUME q' = q, PollType', ExecType', LoopType', FaultType', LoopInv'
      PROVE  IInv'
  <2>1. TypeOK'
    BY <1>1, <1>2, <1>9, TypeUnchanged DEF IInv, TypeOK, RingOK
  <2>2. ReadyAlive'
    BY <1>2, <1>9 DEF IInv, ReqInv, ReadyAlive
  <2>3. ReqInv'
    BY <1>1, <1>6, <1>7, <1>8, <1>9, <2>2 DEF ReqInv
  <2>. QED  BY <1>1, <1>5, <1>9, <2>1, <2>3 DEF IInv, RingOK
<1>10. CASE e \notin Reqs
  <2>1. pc' = "seen" /\ UNCHANGED <<pollv, execv, cur, fault>>
    BY <1>10 DEF handle_cqe
  <2>2. LoopType' /\ q' = q
    BY <2>1 DEF IInv, TypeOK, LoopType, pollv
  <2>3. LoopInv'
    BY <1>1, <1>2, <2>1 DEF LoopInv, execv
  <2>. QED  BY <1>9, <2>1, <2>2, <2>3, TypeUnchanged DEF IInv, TypeOK
<1>11. CASE e \in Reqs /\ data[e] = "gone"
  <2>1. fault' = "freed_memory" /\ UNCHANGED <<pollv, execv, loopv>>
    BY <1>11 DEF handle_cqe
  <2>2. FaultType' /\ q' = q
    BY <2>1 DEF FaultType, pollv
  <2>3. LoopInv'
    BY <1>1, <1>2, <2>1 DEF LoopInv, execv, loopv
  <2>. QED  BY <1>9, <2>1, <2>2, <2>3, TypeUnchanged DEF IInv, TypeOK
<1>12. CASE e \in Reqs /\ data[e] # "gone" /\ handle[e] = None
  <2>1. /\ q' = Append(q, e) /\ pc' = "seen"
        /\ UNCHANGED <<polling_requests, polling_handle, execv, cur, fault>>
    BY <1>12 DEF handle_cqe, no_handle
  <2>2. data[e] = "na" /\ e \notin Elems(q)
    <3>1. data[e] \in {"free", "await", "na", "gone"}
      BY <1>12 DEF IInv, TypeOK, ReqType
    <3>. QED  BY <1>2, <1>3, <1>4, <1>8, <1>12, <3>1 DEF IInv, ReqInv
  <2>3. q \in Seq(Reqs) /\ Injective(q)
    BY DEF IInv, TypeOK, PollType, ReqInv, ReadyAlive, Injective
  <2>4. /\ q' \in Seq(Reqs) /\ Elems(q') = Elems(q) \cup {e} /\ Injective(q')
    BY <1>12, <2>1, <2>2, <2>3, AppendElems
  <2>5. TypeOK'
    <3>1. PollType'
      <4>1. q' \in Seq(Reqs) /\ polling_handle' \in Coros \cup {None}
        BY <2>1, <2>4 DEF IInv, TypeOK, PollType
      <4>2. polling_requests' \in BOOLEAN
        BY Zenon, <2>1 DEF IInv, TypeOK, PollType
      <4>. QED  BY Zenon, <4>1, <4>2 DEF PollType
    <3>2. LoopType'
      BY <2>1 DEF IInv, TypeOK, LoopType
    <3>. QED  BY <1>1, <1>2, <2>1, <3>1, <3>2, TypeUnchanged DEF IInv, TypeOK, RingOK
  <2>6. LoopInv'
    BY <1>1, <1>2, <2>1 DEF LoopInv, execv
  <2>7. ReadyAlive'
    <3>1. \A x \in Elems(q) : data[x] = "na"
      BY DEF IInv, ReqInv, ReadyAlive, Elems
    <3>2. \A x \in Elems(q') : data'[x] = "na"
      BY <1>2, <2>2, <2>4, <3>1
    <3> HIDE DEF q
    <3>3. (\A i \in DOMAIN q' : data'[q'[i]] = "na")
      BY <3>2 DEF Elems
    <3>. QED  BY <2>4, <3>3 DEF ReadyAlive, Injective, q
  <2>8. \A x \in Elems(q') : x \notin OnRing' \/ Handled(x)'
    BY <1>1, <1>8, <2>1, <2>4 DEF Handled
  <2>9. ReqInv'
    BY <1>6, <1>7, <2>7, <2>8 DEF ReqInv
  <2>. QED  BY <1>1, <1>5, <2>5, <2>6, <2>9 DEF IInv, RingOK
<1>13. CASE e \in Reqs /\ data[e] # "gone" /\ handle[e] # None
  <2>1. /\ Resume(handle[e]) /\ cur' = e /\ pc' = "resumed"
        /\ UNCHANGED <<pollv, registering, fault>>
    BY <1>13 DEF handle_cqe, no_handle
  <2>2. handle[e] \in Coros
    BY <1>13 DEF IInv, TypeOK, ReqType
  <2>3. ExecType'
    <3>1. co' \in [Coros -> States] /\ stack' \in Seq(Coros)
      BY <2>1, <2>2, ResumeType
    <3>. QED  BY <2>1, <3>1 DEF IInv, TypeOK, ExecType, States
  <2>4. LoopType' /\ q' = q
    BY <1>13, <2>1 DEF LoopType, pollv
  <2>5. LoopInv'
    BY <1>1, <1>2, <1>13, <2>1 DEF LoopInv
  <2>. QED  BY <1>9, <2>1, <2>3, <2>4, <2>5, TypeUnchanged DEF IInv, TypeOK
<1>. QED  BY <1>10, <1>11, <1>12, <1>13

\* An awaited request is over: it may be allocated again although its
\* completion is consumed only in the next step.
LEMMA CqeHandledInv ==
  ASSUME IInv, cqe_handled
  PROVE  IInv'
<1>1. RingOK' /\ OnRing' = OnRing /\ cq' = cq
  BY InvRingOK, RingUnchanged DEF cqe_handled
<1>2. /\ pc = "resumed" /\ pc' = "seen" /\ stack' = <<>> /\ cur' = None
      /\ data' = [data EXCEPT ![cur] = "free"]
      /\ UNCHANGED <<handle, ready_requests_store>>
  BY DEF cqe_handled, Idle, execv, pollv
<1>3. cur \in Reqs /\ cq # <<>> /\ cur = Head(cq)
  BY <1>2 DEF IInv, LoopInv
<1>4. cur \in OnRing /\ cur \notin Elems(ready_requests_store)
  <2>1. cur \in OnRing
    BY <1>3, InvRingOK, TailElems DEF RingOK, RingType, RingInv, OnRing
  <2>. QED  BY <1>2, <2>1 DEF IInv, ReqInv, Handled
<1>5. TypeOK'
  <2>1. ItemType'
    <3>1. coro_idx[cur] \in Nat \ {0}
      BY <1>3 DEF IInv, TypeOK, ReqType
    <3>2. freed_idxs' = freed_idxs \/ freed_idxs' = freed_idxs \cup {coro_idx[cur]}
      BY DEF cqe_handled, erased_idx
    <3>3. UNCHANGED <<items, metadata>>
      BY DEF cqe_handled
    <3>. QED  BY <3>1, <3>2, <3>3 DEF IInv, TypeOK, ItemType
  <2>2. ReqType' /\ LoopType'
    BY <1>2 DEF IInv, TypeOK, ReqType, LoopType, cqe_handled
  <2>. QED  BY <1>1, <2>1, <2>2, TypeUnchanged DEF IInv, TypeOK, RingOK, cqe_handled
<1>6. \A x \in Reqs : data'[x] = IF x = cur THEN "free" ELSE data[x]
  BY <1>2 DEF IInv, TypeOK, ReqType
<1>7. LoopInv'
  BY <1>1, <1>2, <1>3 DEF LoopInv
<1>8. ReadyAlive'
  BY <1>2, <1>4, <1>6 DEF IInv, TypeOK, PollType, ReqInv, ReadyAlive, Elems
<1>9. ReqInv'
  BY <1>1, <1>2, <1>3, <1>6, <1>8 DEF IInv, ReqInv, Handled
<1>10. KillInv' /\ QuietWhenDead'
  BY <1>1 DEF IInv, KillInv, QuietWhenDead, cqe_handled, killv, ring
<1>. QED  BY <1>1, <1>5, <1>7, <1>9, <1>10 DEF IInv, RingOK

\* The completion is consumed; a dying manager is dead exactly when that was
\* the last one.
LEMMA SeenInv ==
  ASSUME IInv, seen
  PROVE  IInv'
<1>1. CASE Faults("freed_memory")
  BY <1>1, FaultsInv
<1>2. CASE ~Faults("freed_memory")
  <2>1. /\ pc = "seen" /\ stack = <<>>
        /\ ~(kill_wants_update /\ kill_task = "failed")
        /\ cqe_seen /\ in_flight_requests' = in_flight_requests - 1
        /\ IF kill_wants_update THEN resume_kill(in_flight_requests - 1)
           ELSE pc' = "top" /\ UNCHANGED <<killv, execv>>
        /\ UNCHANGED <<reqv, pollv, itemv, cur, fault>>
    BY <1>2 DEF seen, Idle
  <2>2. cq # <<>>
    BY <2>1 DEF IInv, LoopInv
  <2>3. RingOK' /\ OnRing' = OnRing \ {Head(cq)} /\ kernel' = kernel
    BY <2>1, <2>2, InvRingOK, SeenRing
  <2>4. UNCHANGED <<data, handle, ready_requests_store>>
    BY <2>1 DEF reqv, pollv
  <2>5. pc' # "seen" => ReqInv'
    <3>1. \A x \in Reqs : data'[x] = "free" => x \notin OnRing'
      BY <2>1, <2>3, <2>4 DEF IInv, ReqInv, Handled
    <3>2. \A x \in Elems(ready_requests_store') : x \notin OnRing'
      BY <2>1, <2>3, <2>4 DEF IInv, ReqInv, Handled
    <3>. QED  BY <2>4, <3>1, <3>2 DEF IInv, ReqInv, ReadyAlive
  <2>6. CASE /\ pc' = "top" /\ UNCHANGED <<killv, execv>>
    <3>1. TypeOK'
      <4>1. LoopType'
        BY <2>1, <2>6 DEF IInv, TypeOK, LoopType
      <4>. QED  BY <2>1, <2>3, <2>6, <4>1, TypeUnchanged DEF IInv, TypeOK, RingOK
    <3>2. LoopInv'
      BY <2>1, <2>6 DEF LoopInv, execv
    <3>3. KillInv'
      BY <2>3, <2>6 DEF IInv, KillInv, killv
    <3>4. QuietWhenDead'
      BY <2>2, <2>6 DEF IInv, QuietWhenDead, killv
    <3>. QED  BY <2>3, <2>5, <2>6, <3>1, <3>2, <3>3, <3>4 DEF IInv, RingOK
  <2>7. CASE kill_wants_update /\ drained(in_flight_requests - 1)
    <3>1. /\ life_state' = "DEAD" /\ kill_task' = "resuming" /\ pc' = "killed"
          /\ Resume(kill_awaiter) /\ UNCHANGED <<kill_awaiter, registering>>
      BY <2>1, <2>7 DEF resume_kill, final_suspend
    <3>2. kill_awaiter \in Coros
      BY <2>1, <2>7 DEF IInv, KillInv, kill_wants_update
    <3>3. TypeOK'
      <4>1. ExecType'
        <5>1. co' \in [Coros -> States] /\ stack' \in Seq(Coros)
          BY <3>1, <3>2, ResumeType
        <5>. QED  BY <3>1, <5>1 DEF IInv, TypeOK, ExecType, States
      <4>2. KillType' /\ LoopType'
        BY <2>1, <3>1 DEF IInv, TypeOK, KillType, LoopType
      <4>. QED  BY <2>1, <2>3, <4>1, <4>2, TypeUnchanged DEF IInv, TypeOK, RingOK
    <3>4. LoopInv' /\ KillInv'
      BY <3>1 DEF LoopInv, KillInv
    <3>5. QuietWhenDead'
      <4>1. in_flight_requests' = 0
        BY <2>1, <2>7 DEF drained
      <4>2. kernel' = {} /\ cq' = <<>>
        BY <2>3, <4>1, DrainedIsQuiet DEF RingOK, RingType, RingInv, InFlightExact
      <4>. QED  BY <4>2 DEF QuietWhenDead
    <3>. QED  BY <2>3, <2>5, <3>1, <3>3, <3>4, <3>5 DEF IInv, RingOK
  <2>. QED  BY <2>1, <2>6, <2>7 DEF resume_kill
<1>. QED  BY <1>1, <1>2

\* The kill task is done and the loop ends.
LEMMA KillFinishedInv ==
  ASSUME IInv, kill_finished
  PROVE  IInv'
<1>1. RingOK' /\ OnRing' = OnRing /\ cq' = cq
  BY InvRingOK, RingUnchanged DEF kill_finished
<1>2. /\ pc = "killed" /\ pc' = "exit" /\ kill_task' = "done" /\ stack' = <<>>
      /\ UNCHANGED <<cur, data, handle, ready_requests_store, life_state, kill_awaiter>>
  BY DEF kill_finished, Idle, execv, reqv, pollv
<1>3. TypeOK'
  <2>1. KillType' /\ LoopType'
    BY <1>2 DEF IInv, TypeOK, KillType, LoopType
  <2>. QED  BY <1>1, <2>1, TypeUnchanged DEF IInv, TypeOK, RingOK, kill_finished
<1>4. LoopInv' /\ ReqInv' /\ KillInv'
  BY <1>1, <1>2 DEF IInv, LoopInv, ReqInv, ReadyAlive, Handled, KillInv
<1>5. QuietWhenDead'
  BY <1>2 DEF IInv, QuietWhenDead, kill_finished, ring
<1>. QED  BY <1>1, <1>3, <1>4, <1>5 DEF IInv, RingOK

\* The kernel posts a completion at any time, also while event_handler works on
\* an older one.
LEMMA KernelCompletesInv ==
  ASSUME IInv, NEW e \in Ops, kernel_completes(e)
  PROVE  IInv'
<1>1. complete(e) /\ UNCHANGED <<in_flight_requests, killv, reqv, pollv, execv, itemv, loopv, fault>>
  BY DEF kernel_completes
<1>2. /\ RingOK' /\ OnRing' = OnRing
      /\ cq # <<>> => cq' # <<>> /\ Head(cq') = Head(cq)
  BY <1>1, InvRingOK, CompleteRing
<1>3. TypeOK'
  BY <1>1, <1>2, TypeUnchanged DEF IInv, TypeOK, RingOK
<1>4. UNCHANGED <<pc, cur, stack, data, handle, ready_requests_store, life_state,
                  kill_task, kill_awaiter>>
  BY <1>1 DEF killv, reqv, pollv, execv, loopv
<1>5. LoopInv'
  BY <1>2, <1>4 DEF IInv, LoopInv
<1>6. ReqInv'
  <2>1. \A x : Handled(x) => Handled(x)'
    BY <1>2, <1>4 DEF Handled, IInv, LoopInv
  <2>. QED  BY <1>2, <1>4, <2>1 DEF IInv, ReqInv, ReadyAlive
<1>7. KillInv'
  BY <1>2, <1>4 DEF IInv, KillInv
<1>8. QuietWhenDead'
  BY <1>1, <1>4 DEF IInv, QuietWhenDead, complete
<1>. QED  BY <1>2, <1>3, <1>5, <1>6, <1>7, <1>8 DEF IInv, RingOK

-----------------------------------------------------------------------------
(* The theorems.                                                           *)

\* The invariant holds of a constructed manager.
LEMMA InitInv == Init => IInv
<1> SUFFICES ASSUME Init PROVE IInv
  OBVIOUS
<1>1. Elems(<<>>) = {} /\ Injective(<<>>)
  BY DEF Elems, Injective
<1>2. OnRing = {}
  BY <1>1 DEF Init, RingInit, OnRing
<1>3. RingType /\ RingInv /\ InFlightExact
  BY <1>1, FS_EmptySet DEF Init, RingInit, RingType, RingInv, InFlightExact
<1>4. TypeOK
  <2>1. PollType
    BY Zenon, EmptySeq DEF Init, PollType
  <2>2. KillType /\ ReqType /\ ExecType /\ ItemType /\ LoopType /\ FaultType
    BY DEF Init, KillType, ReqType, ExecType, ItemType, LoopType, FaultType
  <2>. QED  BY <1>3, <2>1, <2>2 DEF TypeOK, Init
<1>5. LoopInv /\ KillInv /\ QuietWhenDead
  BY <1>2 DEF Init, RingInit, LoopInv, KillInv, QuietWhenDead
<1>6. ReqInv
  BY <1>1, <1>2 DEF Init, ReqInv, ReadyAlive
<1>. QED  BY <1>3, <1>4, <1>5, <1>6 DEF IInv

\* A step that leaves the loop where it is, and a handler on the stack.
LEMMA HandlerKept ==
  ASSUME HandlerInv, UNCHANGED pc,
         \A c \in Coros : co'[c] = "handler" => co[c] = "handler" /\ c \in Elems(stack')
  PROVE  HandlerInv'
BY DEF HandlerInv

\* A step from a place of the loop where no handler runs, that calls none.
LEMMA HandlerNone ==
  ASSUME HandlerInv, pc # "ready_resumed" \/ stack = <<>>,
         \A c \in Coros : co'[c] = "handler" => co[c] = "handler"
  PROVE  HandlerInv'
BY DEF HandlerInv, Elems

\* Who leaves the stack was its innermost coroutine.
LEMMA PopKeeps ==
  ASSUME NEW S, NEW q \in Seq(S), q # <<>>, NEW d \in Elems(q), d # Head(q)
  PROVE  d \in Elems(Tail(q))
<1>1. PICK i \in 1..Len(q) : d = q[i]
  BY DEF Elems
<1>2. i # 1
  BY <1>1
<1>3. Len(Tail(q)) = Len(q) - 1 /\ \A j \in 1..Len(Tail(q)) : Tail(q)[j] = q[j + 1]
  OBVIOUS
<1>4. Tail(q) \in Seq(S)
  OBVIOUS
<1>5. i - 1 \in 1..Len(Tail(q)) /\ (i - 1) + 1 = i
  BY <1>2, <1>3
<1>6. Tail(q)[i - 1] = d
  BY <1>1, <1>3, <1>5
<1>7. DOMAIN Tail(q) = 1..Len(Tail(q))
  BY <1>4
<1>. QED  BY <1>5, <1>6, <1>7 DEF Elems

\* A coroutine that leaves is no handler any more, and leaves the others.
LEMMA LeaveHandler ==
  ASSUME IInv, HandlerInv, NEW c \in Coros, Runs(c), NEW s, s # "handler", Leave(c, s),
         UNCHANGED pc
  PROVE  HandlerInv'
<1>1. stack \in Seq(Coros) /\ stack # <<>> /\ Head(stack) = c
  BY DEF IInv, TypeOK, ExecType, Runs
<1>2. \A d \in Coros : co'[d] = "handler" => co[d] = "handler" /\ d # c
  BY DEF Leave, IInv, TypeOK, ExecType
<1>3. \A d \in Coros : co'[d] = "handler" => d \in Elems(stack')
  BY <1>1, <1>2, PopKeeps DEF Leave, HandlerInv
<1>. QED  BY <1>2, <1>3, HandlerKept

\* A coroutine that is resumed comes on top of those that run.
LEMMA ResumeHandler ==
  ASSUME IInv, NEW c \in Coros, Resume(c)
  PROVE  \A d \in Coros : co'[d] = "handler" =>
           co[d] = "handler" /\ (d \in Elems(stack) => d \in Elems(stack'))
<1>1. \A d \in Coros : co'[d] = "handler" => co[d] = "handler"
  BY DEF Resume, IInv, TypeOK, ExecType
<1>2. <<c>> \in Seq(Coros) /\ stack \in Seq(Coros)
  BY DEF IInv, TypeOK, ExecType
<1>3. Elems(<<c>> \o stack) = Elems(<<c>>) \cup Elems(stack)
  BY <1>2, ConcatElems, Zenon
<1>4. Elems(stack') = Elems(<<c>>) \cup Elems(stack)
  BY <1>3, Zenon DEF Resume
<1>. QED  BY <1>1, <1>4

\* Every client step keeps the handlers in order.
LEMMA ClientHandler ==
  ASSUME IInv, HandlerInv, NEW c \in Coros,
         \/ store_coro(c)
         \/ io_restricted(c)
         \/ \E r \in Reqs : io_await(c, r) \/ io_na(c, r)
         \/ \E w \in Raws : get_uring_sqe(c, w)
         \/ submit_queued_entries(c)
         \/ poll(c) \/ handler_continue(c) \/ handler_stop(c)
         \/ kill(c)
         \/ finish(c)
  PROVE  HandlerInv'
<1>1. ASSUME UNCHANGED <<execv, pc>>
      PROVE  HandlerInv'
  BY <1>1 DEF HandlerInv, execv
<1>2. CASE store_coro(c)
  <2>1. CASE Faults("freed_memory")
    BY <1>1, <2>1 DEF Faults, loopv
  <2>2. CASE ~Faults("freed_memory")
    <3>1. PICK i \in InsertSlots :
            /\ co' = [d \in Coros |-> IF d \in Victims(i) THEN "destroyed" ELSE co[d]]
            /\ stack' = Tail(stack)
            /\ UNCHANGED loopv
      BY <1>2, <2>2 DEF store_coro
    <3>2. stack \in Seq(Coros) /\ stack # <<>> /\ Head(stack) = c /\ co[c] # "handler"
      BY <1>2 DEF store_coro, IInv, TypeOK, ExecType
    <3>3. \A d \in Coros : co'[d] = "handler" => co[d] = "handler"
      BY <3>1
    <3>4. \A d \in Coros : co'[d] = "handler" => d \in Elems(stack')
      BY <3>1, <3>2, <3>3, PopKeeps DEF HandlerInv
    <3>. QED  BY <3>1, <3>3, <3>4, HandlerKept DEF loopv
  <2>. QED  BY <2>1, <2>2
<1>3. CASE io_restricted(c) \/ submit_queued_entries(c) \/ \E w \in Raws : get_uring_sqe(c, w)
  <2>1. UNCHANGED <<execv, pc>>
    BY <1>3 DEF io_restricted, submit_queued_entries, get_uring_sqe, Faults, vars, loopv
  <2>. QED  BY <1>1, <2>1
<1>4. CASE \E r \in Reqs : io_await(c, r) \/ io_na(c, r)
  <2>1. /\ UNCHANGED pc
        /\ UNCHANGED execv \/ (Runs(c) /\ Leave(c, "io"))
    BY <1>4 DEF io_await, io_na, InBody, vars, loopv
  <2>. QED  BY <1>1, <2>1, LeaveHandler
<1>5. CASE poll(c) \/ handler_continue(c)
  <2>1. (UNCHANGED vars) \/ (Runs(c) /\ Leave(c, "poll") /\ UNCHANGED loopv)
    BY Zenon, <1>5 DEF poll, handler_continue, InBody, WaitForResponse
  <2>. QED  BY <1>1, <2>1, LeaveHandler DEF vars, loopv
<1>6. CASE handler_stop(c)
  <2>1. co[c] = "handler" /\ co' = [co EXCEPT ![c] = "run"]
    BY Zenon, <1>6 DEF handler_stop
  <2>2. \A d \in Coros : co'[d] # "handler"
    BY <2>1 DEF HandlerInv, IInv, TypeOK, ExecType
  <2>. QED  BY <2>2 DEF HandlerInv
<1>7. CASE kill(c)
  <2>1. /\ UNCHANGED pc
        /\ UNCHANGED execv \/ (Runs(c) /\ Leave(c, "kill"))
    BY <1>7 DEF kill, kill_internal, InBody, vars, loopv
  <2>. QED  BY <1>1, <2>1, LeaveHandler
<1>8. CASE finish(c)
  BY <1>8, LeaveHandler DEF finish, InBody, loopv
<1>. QED  BY <1>2, <1>3, <1>4, <1>5, <1>6, <1>7, <1>8

\* So does every other step.
LEMMA NextHandler == IInv /\ HandlerInv /\ [Next]_vars => HandlerInv'
<1> SUFFICES ASSUME IInv, HandlerInv, [Next]_vars PROVE HandlerInv'
  OBVIOUS
<1>1. ASSUME UNCHANGED <<execv, pc>>
      PROVE  HandlerInv'
  BY <1>1 DEF HandlerInv, execv
<1>2. CASE UNCHANGED vars \/ \E e \in Ops : kernel_completes(e)
  BY <1>1, <1>2 DEF vars, kernel_completes, loopv
<1>3. CASE \E c \in Coros : register_coro(c)
  <2>1. PICK c \in Coros : Resume(c) /\ UNCHANGED pc
    BY <1>3 DEF register_coro, loopv
  <2>. QED  BY <2>1, ResumeHandler, HandlerKept DEF HandlerInv
<1>4. CASE start \/ ready_handled \/ cqe_handled \/ kill_finished
  <2>1. stack = <<>> /\ UNCHANGED co
    BY <1>4 DEF start, ready_handled, cqe_handled, kill_finished, Idle, execv
  <2>. QED  BY <2>1, HandlerNone
<1>5. CASE wait_fails \/ wait_after_exit
  BY <1>1, <1>5 DEF wait_fails, wait_after_exit, Faults, loopv
<1>6. CASE deliver_ready
  <2>1. CASE Faults("freed_memory")
    BY <1>1, <2>1 DEF Faults, loopv
  <2>2. CASE ~Faults("freed_memory")
    <3> DEFINE c == polling_handle
    <3>1. /\ pc = "top" /\ pc' = "ready_resumed" /\ c \in Coros
          /\ co' = [co EXCEPT ![c] = "handler"] /\ stack' = <<c>> \o stack
      BY <1>6, <2>2 DEF deliver_ready, Deliverable, IInv, TypeOK, PollType
    <3> HIDE DEF c
    <3>2. <<c>> \in Seq(Coros) /\ stack \in Seq(Coros)
      BY <3>1 DEF IInv, TypeOK, ExecType
    <3>3. Elems(stack') = Elems(<<c>>) \cup Elems(stack)
      BY <3>1, <3>2, ConcatElems
    <3>4. c \in Elems(<<c>>)
      BY DEF Elems
    <3>5. \A d \in Coros : co'[d] = "handler" => d = c
      BY <3>1 DEF HandlerInv, IInv, TypeOK, ExecType
    <3>. QED  BY <3>1, <3>3, <3>4, <3>5 DEF HandlerInv
  <2>. QED  BY <2>1, <2>2
<1>7. CASE handle_cqe \/ seen
  <2>1. stack = <<>>
    BY <1>7 DEF handle_cqe, AtWait, seen, Idle
  <2>2. UNCHANGED co \/ \E x : co' = [co EXCEPT ![x] = "run"]
    BY <1>7 DEF handle_cqe, seen, resume_kill, final_suspend, Resume, Faults, execv
  <2>3. \A d \in Coros : co'[d] = "handler" => co[d] = "handler"
    BY <2>2 DEF IInv, TypeOK, ExecType
  <2>. QED  BY <2>1, <2>3, HandlerNone
<1>8. CASE Client
  BY <1>8, ClientHandler DEF Client
<1>. QED  BY <1>2, <1>3, <1>4, <1>5, <1>6, <1>7, <1>8 DEF Next, Loop

\* Every step preserves the invariant.
LEMMA NextInv == IInv /\ HandlerInv /\ [Next]_vars => IInv'
<1> SUFFICES ASSUME IInv, HandlerInv, [Next]_vars PROVE IInv'
  OBVIOUS
<1>1. CASE UNCHANGED vars
  BY <1>1, StutterInv
<1>2. CASE \E c \in Coros : register_coro(c)
  BY <1>2, RegisterCoroInv
<1>3. CASE start
  BY <1>3, StartInv
<1>4. CASE Loop
  <2>1. wait_fails \/ wait_after_exit => IInv'
    BY FaultsInv DEF wait_fails, wait_after_exit
  <2>. QED  BY <1>4, <2>1, DeliverReadyInv, ReadyHandledInv, HandleCqeInv, CqeHandledInv,
               SeenInv, KillFinishedInv DEF Loop
<1>5. CASE Client
  <2>1. PICK c \in Coros :
          \/ store_coro(c)
          \/ io_restricted(c)
          \/ \E r \in Reqs : io_await(c, r) \/ io_na(c, r)
          \/ \E w \in Raws : get_uring_sqe(c, w)
          \/ submit_queued_entries(c)
          \/ poll(c) \/ handler_continue(c) \/ handler_stop(c)
          \/ kill(c)
          \/ finish(c)
    BY <1>5 DEF Client
  <2>2. io_restricted(c) => IInv'
    BY FaultsInv DEF io_restricted
  <2>. QED  BY <2>1, <2>2, StoreCoroInv, IoAwaitInv, IoNaInv, GetUringSqeInv,
               SubmitQueuedEntriesInv, PollInv, HandlerContinueInv, HandlerStopInv,
               KillCallInv, FinishInv
<1>6. CASE \E e \in Ops : kernel_completes(e)
  BY <1>6, KernelCompletesInv
<1>. QED  BY <1>1, <1>2, <1>3, <1>4, <1>5, <1>6 DEF Next

\* The strengthened invariant holds throughout every behaviour.
THEOREM Invariance == Spec => [](IInv /\ HandlerInv)
<1>1. Init => HandlerInv
  BY DEF Init, HandlerInv
<1>. QED  BY <1>1, InitInv, NextInv, NextHandler, PTL DEF Spec

\* Type correctness; in particular the unsigned counter _in_flight_requests,
\* decremented by await_message for every completion, never wraps below 0.
THEOREM TypeCorrect == Spec => []TypeOK
<1>1. IInv => TypeOK
  BY DEF IInv
<1>. QED  BY <1>1, Invariance, PTL

\* _in_flight_requests counts exactly the operations consumed by the kernel
\* whose completion await_message has not consumed, under partial and failed
\* submissions, raw entries and every order of completions.
THEOREM InFlightCorrect == Spec => []InFlightExact
<1>1. IInv => InFlightExact
  BY DEF IInv
<1>. QED  BY <1>1, Invariance, PTL

\* kill_internal tears the ring down only when no operation is left in the
\* kernel and no completion is unread.
THEOREM QuietCorrect == Spec => []QuietWhenDead
<1>1. IInv => QuietWhenDead
  BY DEF IInv
<1>. QED  BY <1>1, Invariance, PTL

\* The ready store holds live requests, each once: event_handler neither hands
\* a deleted RequestData to the poller nor deletes one twice.
THEOREM ReadyCorrect == Spec => []ReadyAlive
<1>1. IInv => ReadyAlive
  BY DEF IInv, ReqInv
<1>. QED  BY <1>1, Invariance, PTL

\* What each step does to the set of operations on the ring once usage is
\* restricted: only the loop and the kernel still touch it.
LEMMA RestrictedStep ==
  ASSUME IInv, Next, should_restrict_usage
  PROVE  OnRing' \subseteq OnRing
<1>1. ASSUME UNCHANGED ring
      PROVE  OnRing' \subseteq OnRing
  BY <1>1 DEF ring, OnRing, Elems
<1>2. ~sqe_available
  BY DEF sqe_available
<1>3. \A c \in Coros : ~kill_internal(c)
  BY DEF IInv, KillInv, kill_internal, should_restrict_usage
<1>4. CASE \E c \in Coros : register_coro(c)
  BY <1>1, <1>4 DEF register_coro
<1>5. CASE start
  BY <1>1, <1>5 DEF start
<1>6. CASE Loop
  <2>1. CASE seen
    <3>1. CASE Faults("freed_memory")
      BY <1>1, <3>1 DEF Faults
    <3>2. CASE cqe_seen /\ in_flight_requests' = in_flight_requests - 1
      <4>1. cq # <<>>
        BY <2>1 DEF seen, IInv, LoopInv
      <4>. QED  BY <3>2, <4>1, InvRingOK, SeenRing
    <3>. QED  BY <2>1, <3>1, <3>2 DEF seen
  <2>2. CASE deliver_ready \/ ready_handled \/ handle_cqe \/ cqe_handled \/ kill_finished
             \/ wait_fails \/ wait_after_exit
    <3>1. UNCHANGED ring
      BY <2>2 DEF deliver_ready, ready_handled, handle_cqe, cqe_handled, kill_finished,
                  wait_fails, wait_after_exit, Faults
    <3>. QED  BY <1>1, <3>1
  <2>. QED  BY <1>6, <2>1, <2>2 DEF Loop
<1>7. CASE Client
  <2>1. PICK c \in Coros :
          \/ store_coro(c)
          \/ io_restricted(c)
          \/ \E r \in Reqs : io_await(c, r) \/ io_na(c, r)
          \/ \E w \in Raws : get_uring_sqe(c, w)
          \/ submit_queued_entries(c)
          \/ poll(c) \/ handler_continue(c) \/ handler_stop(c)
          \/ kill(c)
          \/ finish(c)
    BY <1>7 DEF Client
  <2>2. CASE submit_queued_entries(c)
    <3>1. CASE life_state = "DEAD"
      BY <1>1, <2>2, <3>1 DEF submit_queued_entries, Faults
    <3>2. CASE life_state # "DEAD"
      <4>1. PICK n \in Outcomes(sq) : Submit(sq, n)
        BY <2>2, <3>2 DEF submit_queued_entries
      <4>. QED  BY <4>1, InvRingOK, OutcomesType, SubmitQueued DEF RingOK, RingType
    <3>. QED  BY <3>1, <3>2
  <2>3. CASE \/ \E r \in Reqs : io_await(c, r) \/ io_na(c, r)
             \/ \E w \in Raws : get_uring_sqe(c, w)
    <3>1. UNCHANGED ring
      BY <1>2, <2>3 DEF io_await, io_na, get_uring_sqe, vars
    <3>. QED  BY <1>1, <3>1
  <2>4. CASE kill(c)
    <3>1. UNCHANGED ring
      BY <1>3, <2>4 DEF kill, vars
    <3>. QED  BY <1>1, <3>1
  <2>5. CASE store_coro(c) \/ io_restricted(c) \/ finish(c)
    <3>1. UNCHANGED ring
      BY <2>5 DEF store_coro, io_restricted, finish, Faults
    <3>. QED  BY <1>1, <3>1
  <2>6. CASE poll(c) \/ handler_continue(c) \/ handler_stop(c)
    <3>1. UNCHANGED ring
      BY Zenon, <2>6 DEF poll, handler_continue, handler_stop, WaitForResponse, vars
    <3>. QED  BY <1>1, <3>1
  <2>. QED  BY <2>1, <2>2, <2>3, <2>4, <2>5, <2>6
<1>8. CASE \E e \in Ops : kernel_completes(e)
  BY <1>8, InvRingOK, CompleteRing DEF kernel_completes
<1>. QED  BY <1>4, <1>5, <1>6, <1>7, <1>8 DEF Next

\* Once kill_internal has begun, no step of any coroutine, of the loop or of
\* the kernel puts an operation on the ring that was not there.
THEOREM RestrictionCorrect == Spec => NoNewWorkAfterKill
<1>1. IInv /\ [Next]_vars => [should_restrict_usage => OnRing' \subseteq OnRing]_vars
  BY RestrictedStep
<1>. QED  BY <1>1, Invariance, PTL DEF Spec, NoNewWorkAfterKill
=============================================================================
