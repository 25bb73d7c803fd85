------------------------------- MODULE Uring -------------------------------
(***************************************************************************)
(* The io_uring instance an EventManager owns (`_ring`): the submission    *)
(* queue shared with the kernel, the operations the kernel is working on,  *)
(* and the completion queue.  liburing and the kernel are not part of the  *)
(* repository; they are modelled from how core.cpp and io_ops.cpp use      *)
(* them.                                                                   *)
(*                                                                         *)
(* Two facts of liburing shape the module:                                 *)
(*   - every io_uring_submit first moves sqe_head up to sqe_tail, so the   *)
(*     difference that core.cpp calls PENDING is 0 after ANY submit call,  *)
(*     also after one that consumed nothing;                               *)
(*   - the room in the submission queue is measured against the entries    *)
(*     the kernel has consumed, and the next submit offers every entry     *)
(*     that is still unconsumed once more.                                 *)
(***************************************************************************)
EXTENDS Integers, Sequences, FiniteSets

CONSTANTS
  Ops,          \* the operations that can be put on the ring
  QueueDepth    \* the size of the submission queue (EventManager's queue_depth)

ASSUME QueueDepthAssumption == QueueDepth \in Nat \ {0}

VARIABLES
  sq,       \* entries handed out by io_uring_get_sqe and not consumed yet
  pending,  \* sqe_tail - sqe_head: the entries of sq that no submit has seen
  kernel,   \* operations consumed by the kernel and not completed
  cq        \* completions that io_uring_cqe_seen has not consumed

ring == <<sq, pending, kernel, cq>>

Elems(q) == {q[i] : i \in DOMAIN q}

\* Everything that is anywhere on the ring.
OnRing == Elems(sq) \cup kernel \cup Elems(cq)

RingType ==
  /\ sq \in Seq(Ops) /\ cq \in Seq(Ops) /\ kernel \subseteq Ops
  /\ pending \in Nat

RingInit == sq = <<>> /\ pending = 0 /\ kernel = {} /\ cq = <<>>

\* io_uring_get_sqe succeeds.
HasRoom(q) == Len(q) < QueueDepth

\* io_uring_get_sqe, prepared for operation e.
get_sqe(e) == sq' = Append(sq, e) /\ pending' = pending + 1 /\ UNCHANGED <<kernel, cq>>

\* io_uring_submit with q in the submission queue: the kernel consumes the
\* first n entries of q.
uring_submit(q, n) ==
  /\ kernel' = kernel \cup {q[i] : i \in 1..n}
  /\ sq' = SubSeq(q, n + 1, Len(q))
  /\ pending' = 0
  /\ UNCHANGED cq

\* The kernel completes operation e, successfully, with an error or because
\* it was cancelled.  Operations complete in any order.
complete(e) ==
  /\ e \in kernel
  /\ kernel' = kernel \ {e}
  /\ cq' = Append(cq, e)
  /\ UNCHANGED <<sq, pending>>

\* io_uring_cqe_seen of the completion io_uring_wait_cqe returned.
cqe_seen == cq' = Tail(cq) /\ UNCHANGED <<sq, pending, kernel>>
=============================================================================
