---------------------------- MODULE DrainProofs ----------------------------
(***************************************************************************)
(* EventManager implements Drain, for every set of coroutines, requests    *)
(* and raw operations, every queue depth and whatever Admit admits.  The   *)
(* inductive invariant IInv supplies what the mapping needs: an operation  *)
(* is in one place of the ring, a new one is nowhere on it, and a DEAD     *)
(* manager has nothing outstanding.                                        *)
(***************************************************************************)
EXTENDS EventManagerProofs

\* What Drain sees of the manager's life.
LEMMA DrainState ==
  ASSUME KillType
  PROVE  /\ drain_state = "open" <=> life_state \in {"NOT_STARTED", "LIVING"}
         /\ drain_state = "closing" <=> life_state = "DYING"
         /\ drain_state = "closed" <=> life_state = "DEAD"
BY DEF KillType, drain_state

\* The same of the next state.
LEMMA DrainStateNext ==
  ASSUME KillType'
  PROVE  /\ drain_state' = "open" <=> life_state' \in {"NOT_STARTED", "LIVING"}
         /\ drain_state' = "closing" <=> life_state' = "DYING"
         /\ drain_state' = "closed" <=> life_state' = "DEAD"
BY DEF KillType, drain_state

\* A step that leaves ring and life state alone is a stuttering step of Drain.
LEMMA DrainStutters ==
  ASSUME UNCHANGED <<ring, life_state>>
  PROVE  UNCHANGED Promise!vars
BY DEF Promise!vars, drain_state, ring, Elems

\* A submit hands over some of the operations in its queue.
LEMMA SubmitHandsOver ==
  ASSUME NEW q \in Seq(Ops), Injective(q), NEW n \in 0..Len(q), Submit(q, n)
  PROVE  Promise!HandOver(Elems(q))
<1> DEFINE taken == Consumed(q, n)
           rest  == Unconsumed(q, n)
<1>1. kernel' = kernel \cup taken /\ sq' = rest /\ cq' = cq
  BY DEF Submit, uring_submit, Consumed, Unconsumed
<1>2. taken \cup Elems(rest) = Elems(q) /\ taken \cap Elems(rest) = {}
  BY SplitElems
<1> HIDE DEF taken, rest
<1>3. Elems(sq') = Elems(rest) /\ Elems(cq') = Elems(cq)
  BY <1>1
<1>4. Elems(q) \ Elems(rest) = taken
  BY <1>2
<1>. QED  BY <1>1, <1>2, <1>3, <1>4 DEF Promise!HandOver

\* A new operation that is queued and submitted.
LEMMA SubmitNewHandsOver ==
  ASSUME RingOK, NEW e \in Ops \ OnRing, NEW n \in 0..Len(Append(sq, e)),
         Submit(Append(sq, e), n)
  PROVE  Promise!HandOver(Elems(sq) \cup {e})
<1>1. /\ Append(sq, e) \in Seq(Ops) /\ Injective(Append(sq, e))
      /\ Elems(Append(sq, e)) = Elems(sq) \cup {e}
  BY AppendElems DEF RingOK, RingType, RingInv, OnRing
<1>2. Promise!HandOver(Elems(Append(sq, e)))
  BY <1>1, SubmitHandsOver
<1>. QED  BY <1>1, <1>2

\* What Drain accepts from an open manager is new to it.
LEMMA AcceptsNew ==
  ASSUME IInv, sqe_available, UNCHANGED life_state,
         NEW o \in Ops \ OnRing, o # Cancel, Promise!HandOver(Elems(sq) \cup {o})
  PROVE  Promise!Accept
<1>1. drain_state = "open"
  BY DrainState DEF IInv, TypeOK, KillType, sqe_available, should_restrict_usage
<1>2. drain_state' = drain_state
  BY DEF drain_state
<1>3. o \in Ops \ (Elems(sq) \cup (kernel \cup Elems(cq)) \cup {Cancel})
  BY DEF OnRing
<1>. QED  BY <1>1, <1>2, <1>3 DEF Promise!Accept

\* An awaited or non-awaitable operation is accepted.
LEMMA RequestAccepted ==
  ASSUME IInv, NEW c \in Coros, NEW r \in Reqs, io_await(c, r) \/ io_na(c, r), sqe_available
  PROVE  Promise!Accept
<1>1. /\ Runs(c) /\ data[r] = "free" /\ UNCHANGED killv
      /\ \E n \in Outcomes(Append(sq, r)) : Submit(Append(sq, r), n)
  BY DEF io_await, io_na, InBody, prepare_sqring_op, get_sqe_and_req_data, submit_request
<1>2. PICK n \in Outcomes(Append(sq, r)) : Submit(Append(sq, r), n)
  BY <1>1
<1>3. r \in Ops \ OnRing /\ r # Cancel
  BY <1>1, ClientInLoop, OpsAssumption, SetsAssumption DEF IInv, ReqInv
<1>4. Append(sq, r) \in Seq(Ops)
  BY <1>3, InvRingOK, AppendProperties DEF RingOK, RingType
<1>5. n \in 0..Len(Append(sq, r))
  BY <1>4, OutcomesType
<1>6. Promise!HandOver(Elems(sq) \cup {r})
  BY <1>2, <1>3, <1>5, InvRingOK, SubmitNewHandsOver
<1>. QED  BY <1>1, <1>3, <1>6, AcceptsNew DEF killv

\* A raw entry is accepted and waits for a submit.
LEMMA RawAccepted ==
  ASSUME IInv, NEW c \in Coros, NEW w \in Raws, get_uring_sqe(c, w), sqe_available
  PROVE  Promise!Accept
<1>1. w \in Ops \ OnRing /\ w # Cancel /\ get_sqe(w) /\ UNCHANGED killv
  BY OpsAssumption, SetsAssumption DEF get_uring_sqe
<1>2. sq' = Append(sq, w) /\ kernel' = kernel /\ cq' = cq
  BY <1>1 DEF get_sqe
<1>3. Elems(sq') = Elems(sq) \cup {w} /\ Elems(cq') = Elems(cq)
  BY <1>1, <1>2, InvRingOK, AppendElems DEF RingOK, RingType
<1>4. Promise!HandOver(Elems(sq) \cup {w})
  BY <1>2, <1>3 DEF Promise!HandOver
<1>. QED  BY <1>1, <1>4, AcceptsNew DEF killv

\* A submit of what is queued.
LEMMA QueuedSubmitted ==
  ASSUME IInv, NEW c \in Coros, submit_queued_entries(c), life_state # "DEAD"
  PROVE  Promise!Submit
<1>1. UNCHANGED killv /\ \E n \in Outcomes(sq) : Submit(sq, n)
  BY DEF submit_queued_entries
<1>2. PICK n \in Outcomes(sq) : Submit(sq, n)
  BY <1>1
<1>3. sq \in Seq(Ops) /\ Injective(sq)
  BY InvRingOK DEF RingOK, RingType, RingInv
<1>4. Promise!HandOver(Elems(sq))
  BY <1>2, <1>3, OutcomesType, SubmitHandsOver
<1>5. drain_state # "closed" /\ drain_state' = drain_state
  <2>1. drain_state # "closed"
    BY DrainState DEF IInv, TypeOK
  <2>2. drain_state' = drain_state
    BY <1>1 DEF killv, drain_state
  <2>. QED  BY <2>1, <2>2
<1>. QED  BY <1>4, <1>5 DEF Promise!Submit

\* kill_internal closes the manager, at once if nothing is outstanding.
LEMMA KillCloses ==
  ASSUME IInv, IInv', NEW c \in Coros, kill_internal(c)
  PROVE  Promise!Close
<1>1. /\ Cancel \in Ops \ OnRing /\ life_state \in {"NOT_STARTED", "LIVING"}
  BY OpsAssumption DEF IInv, KillInv, kill_internal
<1>2. PICK n1 \in IF pending = 0 THEN {0} ELSE Outcomes(sq) :
        IF ~HasRoom(SubSeq(sq, n1 + 1, Len(sq)))
        THEN Submit(sq, n1) /\ life_state' = "DYING"
        ELSE \E n2 \in Outcomes(Append(SubSeq(sq, n1 + 1, Len(sq)), Cancel)) :
               Submit(Append(sq, Cancel), n1 + n2) /\ life_state' \in {"DEAD", "DYING"}
  BY DEF kill_internal
<1>3. sq \in Seq(Ops) /\ Injective(sq) /\ Len(sq) \in Nat
  BY InvRingOK DEF RingOK, RingType, RingInv
<1>4. n1 \in 0..Len(sq)
  BY <1>3, OutcomesType
<1>5. \E new \in {{}, {Cancel}} : Promise!HandOver(Elems(sq) \cup new)
  <2>1. CASE ~HasRoom(SubSeq(sq, n1 + 1, Len(sq)))
    <3>1. Promise!HandOver(Elems(sq))
      BY <1>2, <1>3, <1>4, <2>1, SubmitHandsOver
    <3>2. Elems(sq) = Elems(sq) \cup {}
      OBVIOUS
    <3>3. Promise!HandOver(Elems(sq) \cup {})
      BY <3>1, <3>2
    <3>. QED  BY <3>3
  <2>2. CASE HasRoom(SubSeq(sq, n1 + 1, Len(sq)))
    <3> DEFINE rest == SubSeq(sq, n1 + 1, Len(sq))
    <3>1. PICK n2 \in Outcomes(Append(rest, Cancel)) : Submit(Append(sq, Cancel), n1 + n2)
      BY <1>2, <2>2
    <3>2. rest \in Seq(Ops) /\ Len(rest) = Len(sq) - n1
      BY <1>3, <1>4, SplitElems DEF Unconsumed
    <3>3. /\ Append(rest, Cancel) \in Seq(Ops)
          /\ Len(Append(rest, Cancel)) = (Len(sq) - n1) + 1
          /\ Len(Append(sq, Cancel)) = Len(sq) + 1
      BY <1>1, <1>3, <3>2, AppendProperties
    <3>4. n2 \in 0..Len(Append(rest, Cancel))
      BY <3>1, <3>3, OutcomesType
    <3> HIDE DEF rest
    <3>5. n1 + n2 \in 0..Len(Append(sq, Cancel))
      BY <1>3, <1>4, <3>3, <3>4
    <3>6. Promise!HandOver(Elems(sq) \cup {Cancel})
      BY <1>1, <3>1, <3>5, InvRingOK, SubmitNewHandsOver
    <3>. QED  BY <3>6
  <2>. QED  BY <2>1, <2>2
<1>6. life_state' \in {"DEAD", "DYING"}
  BY <1>2
<1>7. Promise!Drained
  <2>1. drain_state' \in {"closing", "closed"}
    BY <1>6, DrainStateNext DEF IInv, TypeOK
  <2>2. drain_state' = "closed" => kernel' = {} /\ cq' = <<>>
    BY DrainStateNext DEF IInv, TypeOK, QuietWhenDead
  <2>3. cq' = <<>> => Elems(cq') = {}
    BY DEF Elems
  <2>. QED  BY <2>1, <2>2, <2>3 DEF Promise!Drained
<1>8. drain_state = "open"
  BY <1>1, DrainState DEF IInv, TypeOK
<1>. QED  BY <1>5, <1>7, <1>8 DEF Promise!Close

\* A completion that is consumed ends its operation, and the last one of a
\* dying manager closes it.
LEMMA SeenEnds ==
  ASSUME IInv, IInv', seen, ~Faults("freed_memory")
  PROVE  Promise!End
<1>1. /\ pc = "seen" /\ cqe_seen
      /\ life_state' = life_state \/ (life_state = "DYING" /\ life_state' = "DEAD")
  BY DEF seen, resume_kill, kill_wants_update, killv
<1>2. cq # <<>>
  BY <1>1 DEF IInv, LoopInv
<1>3. cq' = Tail(cq) /\ sq' = sq /\ kernel' = kernel
  BY <1>1 DEF cqe_seen
<1>4. Head(cq) \in Elems(cq) /\ Elems(Tail(cq)) = Elems(cq) \ {Head(cq)}
  BY <1>2, InvRingOK, TailElems DEF RingOK, RingType, RingInv
<1>5. kernel \cap Elems(cq) = {}
  BY InvRingOK DEF RingOK, RingInv
<1>6. /\ Head(cq) \in kernel \cup Elems(cq)
      /\ kernel' \cup Elems(cq') = (kernel \cup Elems(cq)) \ {Head(cq)}
  BY <1>3, <1>4, <1>5
<1>7. drain_state # "closed"
  BY <1>2, DrainState DEF IInv, TypeOK, QuietWhenDead
<1>8. drain_state' = drain_state \/ (drain_state = "closing" /\ Promise!Drained)
  <2>1. CASE life_state' = life_state
    BY <2>1 DEF drain_state
  <2>2. CASE life_state = "DYING" /\ life_state' = "DEAD"
    <3>1. drain_state = "closing" /\ drain_state' = "closed"
      BY <2>2, DrainState, DrainStateNext DEF IInv, TypeOK
    <3>2. kernel' = {} /\ cq' = <<>>
      BY <2>2 DEF IInv, QuietWhenDead
    <3>3. kernel' \cup Elems(cq') = {}
      BY <3>2 DEF Elems
    <3>. QED  BY <3>1, <3>3 DEF Promise!Drained
  <2>. QED  BY <1>1, <2>1, <2>2
<1>9. Elems(sq') = Elems(sq)
  BY <1>3
<1>. QED  BY <1>6, <1>7, <1>8, <1>9 DEF Promise!End

\* A completion is posted: the operation is outstanding until it is consumed.
LEMMA CompletionStutters ==
  ASSUME IInv, NEW e \in Ops, kernel_completes(e)
  PROVE  UNCHANGED Promise!vars
<1>1. /\ e \in kernel /\ kernel' = kernel \ {e} /\ cq' = Append(cq, e) /\ sq' = sq
      /\ life_state' = life_state
  BY DEF kernel_completes, complete, killv
<1>2. Elems(cq') = Elems(cq) \cup {e} /\ Elems(sq') = Elems(sq)
  BY <1>1, InvRingOK, AppendElems DEF RingOK, RingType
<1>3. drain_state' = drain_state
  BY <1>1 DEF drain_state
<1>. QED  BY <1>1, <1>2, <1>3 DEF Promise!vars

\* start() opens what is open already, or does nothing.
LEMMA StartStutters ==
  ASSUME IInv, start
  PROVE  UNCHANGED Promise!vars
<1>1. /\ UNCHANGED ring
      /\ life_state' = life_state \/ (life_state = "NOT_STARTED" /\ life_state' = "LIVING")
  BY DEF start
<1>2. drain_state' = drain_state
  BY <1>1 DEF drain_state
<1>. QED  BY <1>1, <1>2 DEF Promise!vars, ring, Elems

\* Every step of the manager is a step of Drain, or stutters.
LEMMA DrainStep ==
  ASSUME IInv, IInv', Next
  PROVE  Promise!Next \/ UNCHANGED Promise!vars
<1>1. CASE \E c \in Coros : register_coro(c)
  BY <1>1, DrainStutters DEF register_coro, killv
<1>2. CASE start
  BY <1>2, StartStutters
<1>3. CASE Loop
  <2>1. CASE seen
    <3>1. CASE Faults("freed_memory")
      BY <3>1, DrainStutters DEF Faults, killv
    <3>. QED  BY <2>1, <3>1, SeenEnds DEF Promise!Next
  <2>2. CASE deliver_ready \/ ready_handled \/ handle_cqe \/ cqe_handled \/ kill_finished
             \/ wait_fails \/ wait_after_exit
    <3>1. UNCHANGED <<ring, life_state>>
      BY <2>2 DEF deliver_ready, ready_handled, handle_cqe, cqe_handled, kill_finished,
                  wait_fails, wait_after_exit, Faults, killv
    <3>. QED  BY <3>1, DrainStutters
  <2>. QED  BY <1>3, <2>1, <2>2 DEF Loop
<1>4. CASE Client
  <2>1. PICK c \in Coros :
          \/ store_coro(c)
          \/ io_restricted(c)
          \/ \E r \in Reqs : io_await(c, r) \/ io_na(c, r)
          \/ \E w \in Raws : get_uring_sqe(c, w)
          \/ submit_queued_entries(c)
          \/ poll(c) \/ handler_continue(c) \/ handler_stop(c)
          \/ kill(c)
          \/ finish(c)
    BY <1>4 DEF Client
  <2>2. CASE submit_queued_entries(c)
    <3>1. CASE life_state = "DEAD"
      BY <2>2, <3>1, DrainStutters DEF submit_queued_entries, Faults, killv
    <3>. QED  BY <2>2, <3>1, QueuedSubmitted DEF Promise!Next
  <2>3. CASE \/ \E r \in Reqs : io_await(c, r) \/ io_na(c, r)
             \/ \E w \in Raws : get_uring_sqe(c, w)
    <3>1. CASE ~sqe_available
      <4>1. UNCHANGED <<ring, life_state>>
        BY <2>3, <3>1 DEF io_await, io_na, get_uring_sqe, vars, killv
      <4>. QED  BY <4>1, DrainStutters
    <3>2. CASE sqe_available
      BY <2>3, <3>2, RequestAccepted, RawAccepted DEF Promise!Next
    <3>. QED  BY <3>1, <3>2
  <2>4. CASE kill(c)
    <3>1. CASE kill_internal(c)
      BY <3>1, KillCloses DEF Promise!Next
    <3>2. CASE ~kill_internal(c)
      <4>1. UNCHANGED <<ring, life_state>>
        BY <2>4, <3>2 DEF kill, vars, killv
      <4>. QED  BY <4>1, DrainStutters
    <3>. QED  BY <3>1, <3>2
  <2>5. CASE store_coro(c) \/ io_restricted(c) \/ finish(c)
    <3>1. UNCHANGED <<ring, life_state>>
      BY <2>5 DEF store_coro, io_restricted, finish, Faults, killv
    <3>. QED  BY <3>1, DrainStutters
  <2>6. CASE poll(c) \/ handler_continue(c) \/ handler_stop(c)
    <3>1. UNCHANGED ring /\ UNCHANGED killv
      BY Zenon, <2>6 DEF poll, handler_continue, handler_stop, WaitForResponse, vars
    <3>. QED  BY <3>1, DrainStutters DEF killv
  <2>. QED  BY <2>1, <2>2, <2>3, <2>4, <2>5, <2>6
<1>5. CASE \E e \in Ops : kernel_completes(e)
  BY <1>5, CompletionStutters
<1>. QED  BY <1>1, <1>2, <1>3, <1>4, <1>5 DEF Next

\* The manager starts as Drain does.
LEMMA DrainInit == Init => Promise!Init
BY DEF Init, RingInit, Promise!Init, drain_state, Elems

\* The manager keeps the promise of Drain under every admitted misuse and
\* submission failure: operations are handed over and completed at most once,
\* a dying manager takes in only the cancel operation, and it is DEAD only when
\* nothing handed over is left (core.cpp 94-100).
THEOREM DrainImplemented == Spec => ImplementsDrain
<1>1. IInv /\ IInv' /\ [Next]_vars => [Promise!Next]_(Promise!vars)
  <2>1. CASE UNCHANGED vars
    <3>1. UNCHANGED <<ring, life_state>>
      BY <2>1 DEF vars, killv
    <3>. QED  BY <3>1, DrainStutters
  <2>. QED  BY <2>1, DrainStep
<1>. QED  BY <1>1, DrainInit, Invariance, PTL DEF Spec, ImplementsDrain, Promise!Spec
=============================================================================
