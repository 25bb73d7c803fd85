---------------------------- MODULE BatchProofs ----------------------------
(***************************************************************************)
(* Machine-checked proofs about Batch, for every set of requests, every    *)
(* queue depth and every width of the counters that is not smaller than    *)
(* what the queue may hold twice.                                          *)
(*                                                                         *)
(* When other coroutines submit entries of the batch, and the batch        *)
(* entries of theirs, num_submitted and num_queued are both wrong.  What   *)
(* remains true is their sum with the responses received: up to a multiple *)
(* of Wrap it is the size of the batch and what the flush at the beginning *)
(* returned.  That is why the batch cannot return too early.               *)
(***************************************************************************)
EXTENDS Batch, UringProofs

-----------------------------------------------------------------------------
(* The inductive invariant.                                                *)

\* The submission queue is not overfull, and a RequestQueue holds a request
\* once.
QueueInv == RingInv /\ Len(sq) <= QueueDepth /\ Injective(req_vec)

\* submit_and_wait is past its first submission and has not failed.
Sent == pc \in {"submit", "waiting", "returned"}

\* The operations of the batch on the ring are those that were taken and not
\* answered.
OwnInv ==
  /\ pc = "building" => OnRing \cap Own = {} /\ taken = {} /\ answered = {} /\ calls = 0
  /\ Sent => /\ answered \subseteq taken /\ OnRing \cap Own = taken \ answered
             /\ calls = Cardinality(answered) /\ Cardinality(taken) <= QueueDepth

\* What the counters are where.
PcInv ==
  /\ pc = "submit" => num_submitted = 0 /\ i = 0 /\ num_queued # 0
  /\ pc = "returned" => num_submitted = 0 /\ i = 0 /\ num_queued = 0

\* The counters, wherever their entries went: f entries were flushed at first,
\* and the unsigned subtraction has wrapped around z times.
Balance(f, z) == calls + (num_submitted - i) + num_queued = Cardinality(taken) + f + z * Wrap
CountInv == Sent => \E f \in 0..QueueDepth, z \in Int : Balance(f, z)

\* While the batch has the submission queue for itself, nothing of others is
\* queued before an entry of the batch.
AloneInv == Sent /\ ~mixed /\ OwnQueued # {} => Elems(sq) \subseteq Own

IInv ==
  /\ TypeOK /\ QueueInv /\ OwnInv /\ PcInv /\ CountInv
  /\ AloneInv /\ CountsExact /\ FaultOnlyAfterFailure

-----------------------------------------------------------------------------
(* Arithmetic modulo Wrap.                                                 *)

\* A wrapped number differs from the number by a multiple of the width.
LEMMA ModWraps ==
  ASSUME NEW a \in Int, NEW w \in Nat \ {0}
  PROVE  a % w \in 0..(w - 1) /\ \E z \in Int : a % w = a + z * w
<1>1. a \div w \in Int /\ a % w \in 0..(w - 1) /\ a = w * (a \div w) + (a % w)
  OBVIOUS
<1> DEFINE d == a \div w
           m == a % w
<1>2. d \in Int /\ m \in 0..(w - 1) /\ m \in Int /\ a = w * d + m
  BY <1>1
<1> HIDE DEF d, m
<1>3. -d \in Int /\ m = a + (-d) * w
  BY <1>2
<1>. QED  BY <1>2, <1>3 DEF m

\* A number in range is not changed by wrapping.
LEMMA ModInRange ==
  ASSUME NEW w \in Nat \ {0}, NEW a \in 0..(w - 1)
  PROVE  a % w = a
OBVIOUS

\* The only multiple of w nearer to 0 than w is 0.
LEMMA SmallMultiple ==
  ASSUME NEW w \in Nat \ {0}, NEW z \in Int, -w < z * w, z * w < w
  PROVE  z = 0
<1>1. CASE z >= 1
  <2>1. \A d, v \in Nat : (d + 1) * v >= v
    OBVIOUS
  <2>2. z - 1 \in Nat /\ (z - 1) + 1 = z
    BY <1>1
  <2>. QED  BY <2>1, <2>2
<1>2. CASE z <= -1
  <2>1. \A d, v \in Nat : (-(d + 1)) * v <= -v
    OBVIOUS
  <2>2. -z - 1 \in Nat /\ -((-z - 1) + 1) = z
    BY <1>2
  <2>. QED  BY <2>1, <2>2
<1>. QED  BY <1>1, <1>2

-----------------------------------------------------------------------------
(* What the constants and the invariant give in every proof.               *)

\* What the constants give.
LEMMA Constants ==
  /\ QueueDepth \in Nat \ {0} /\ Wrap \in Nat \ {0} /\ Wrap > 2 * QueueDepth
  /\ IsFiniteSet(Own) /\ Own \cap Others = {} /\ Ops = Own \cup Others
BY BatchAssumption, QueueDepthAssumption

\* io_uring_submit fails or consumes a number of the queued entries.
LEMMA ReturnsType ==
  ASSUME NEW q \in Seq(Ops), NEW n \in Returns(q)
  PROVE  n \in Int /\ (~(n < 0) => n \in 0..Len(q))
BY DEF Returns

\* Sets of requests of the batch are finite.
LEMMA OwnFinite ==
  ASSUME NEW T, T \subseteq Own
  PROVE  IsFiniteSet(T) /\ Cardinality(T) \in Nat
BY Constants, FS_Subset, FS_CardinalityType

\* A step that leaves the batch alone and changes the ring in order, moving
\* none of the batch's operations on or off it.  If entries of the batch and
\* of others meet in it, it says so in mixed.
LEMMA BatchAlone ==
  ASSUME IInv, RingType', RingInv', Len(sq') <= QueueDepth,
         OnRing' \cap Own = OnRing \cap Own,
         UNCHANGED <<req_vec, pc, num_submitted, num_queued, i, taken, answered, calls, fault>>,
         restricted' \in BOOLEAN, mixed' \in BOOLEAN,
         mixed' = TRUE
         \/ /\ mixed' = mixed /\ OwnQueued' = OwnQueued /\ OwnInProcess' = OwnInProcess
            /\ OwnQueued # {} => Elems(sq') \subseteq Elems(sq)
  PROVE  IInv'
<1>1. TypeOK'
  BY DEF IInv, TypeOK
<1>2. QueueInv'
  BY DEF IInv, QueueInv, Injective
<1>3. OwnInv' /\ PcInv' /\ CountInv'
  BY DEF IInv, OwnInv, PcInv, CountInv, Balance, Sent
<1>4. AloneInv'
  BY DEF IInv, AloneInv, Sent
<1>5. CountsExact'
  BY DEF IInv, CountsExact
<1>6. FaultOnlyAfterFailure'
  BY DEF IInv, FaultOnlyAfterFailure
<1>. QED  BY <1>1, <1>2, <1>3, <1>4, <1>5, <1>6 DEF IInv

\* Once submit_and_wait has given up, only the types and the order of the ring
\* remain.
LEMMA BatchFailed ==
  ASSUME IInv, RingType', RingInv', Len(sq') <= QueueDepth, pc' = "failed",
         UNCHANGED <<req_vec, num_submitted, num_queued, i, taken, answered, calls,
                     restricted, mixed>>,
         fault' \in BOOLEAN
  PROVE  IInv'
<1>1. TypeOK'
  BY DEF IInv, TypeOK
<1>2. QueueInv'
  BY DEF IInv, QueueInv, Injective
<1>3. OwnInv' /\ PcInv' /\ CountInv' /\ AloneInv'
  BY DEF OwnInv, PcInv, CountInv, AloneInv, Sent
<1>4. CountsExact' /\ FaultOnlyAfterFailure'
  BY DEF CountsExact, FaultOnlyAfterFailure
<1>. QED  BY <1>1, <1>2, <1>3, <1>4 DEF IInv

-----------------------------------------------------------------------------
(* Each action preserves the invariant.                                    *)

\* Nothing is submitted before the batch, and every count is 0.
LEMMA InitInv == Init => IInv
<1> SUFFICES ASSUME Init PROVE IInv
  OBVIOUS
<1>1. sq = <<>> /\ cq = <<>> /\ kernel = {} /\ pending = 0 /\ req_vec = <<>>
  BY DEF Init, RingInit
<1>2. sq \in Seq(Ops) /\ cq \in Seq(Ops) /\ req_vec \in Seq(Own) /\ Len(sq) = 0
  BY <1>1
<1>3. Elems(sq) = {} /\ Elems(cq) = {} /\ Injective(sq) /\ Injective(cq)
      /\ Injective(req_vec)
  BY <1>1 DEF Elems, Injective
<1>4. TypeOK
  <2>1. RingType
    BY <1>1, <1>2 DEF RingType
  <2>2. 0 \in 0..(Wrap - 1) /\ 0 \in Nat
    BY Constants
  <2>. QED  BY <1>2, <2>1, <2>2 DEF Init, TypeOK
<1>5. QueueInv
  BY <1>1, <1>2, <1>3, Constants, FS_EmptySet DEF QueueInv, RingInv
<1>6. OwnInv /\ PcInv /\ CountInv /\ AloneInv /\ CountsExact /\ FaultOnlyAfterFailure
  BY <1>1, <1>3 DEF Init, OwnInv, PcInv, CountInv, AloneInv, CountsExact,
                    FaultOnlyAfterFailure, Sent, OnRing
<1>. QED  BY <1>4, <1>5, <1>6 DEF IInv

\* A step that changes nothing.
LEMMA StutterInv ==
  ASSUME IInv, UNCHANGED vars
  PROVE  IInv'
<1>1. UNCHANGED ring /\ UNCHANGED <<req_vec, pc, num_submitted, num_queued, i, taken,
                                   answered, calls, mixed, restricted, fault>>
  BY DEF vars, batchv
<1>2. /\ RingType' /\ RingInv' /\ OnRing' = OnRing /\ sq' = sq /\ kernel' = kernel
      /\ Elems(sq') = Elems(sq) /\ Elems(cq') = Elems(cq)
  BY <1>1, SameOrder DEF IInv, TypeOK, QueueInv
<1>3. Len(sq') <= QueueDepth /\ OwnQueued' = OwnQueued /\ OwnInProcess' = OwnInProcess
  BY <1>2 DEF IInv, QueueInv, OwnQueued, OwnInProcess
<1>4. restricted' \in BOOLEAN /\ mixed' \in BOOLEAN
  BY <1>1 DEF IInv, TypeOK
<1>. QED  BY <1>1, <1>2, <1>3, <1>4, BatchAlone

\* The client puts another request into its queue.
LEMMA QueueOpInv ==
  ASSUME IInv, NEW r \in Own, queue_op(r)
  PROVE  IInv'
<1>1. /\ UNCHANGED ring
      /\ pc = "building" /\ req_vec' = Append(req_vec, r) /\ r \notin Elems(req_vec)
      /\ UNCHANGED <<pc, num_submitted, num_queued, i, taken, answered, calls, mixed,
                     restricted, fault>>
  BY DEF queue_op
<1>2. req_vec' \in Seq(Own) /\ Injective(req_vec')
  BY <1>1, AppendElems DEF IInv, TypeOK, QueueInv
<1>3. RingType' /\ RingInv' /\ OnRing' = OnRing /\ sq' = sq
  BY <1>1, SameOrder DEF IInv, TypeOK, QueueInv
<1>4. TypeOK' /\ QueueInv'
  BY <1>1, <1>2, <1>3 DEF IInv, TypeOK, QueueInv
<1>5. OwnInv' /\ PcInv' /\ CountInv' /\ AloneInv' /\ CountsExact' /\ FaultOnlyAfterFailure'
  BY <1>1, <1>3 DEF IInv, OwnInv, PcInv, CountInv, AloneInv, CountsExact,
                    FaultOnlyAfterFailure, Sent
<1>. QED  BY <1>4, <1>5 DEF IInv

\* Another coroutine takes an entry for an operation of its own.
LEMMA OtherQueuesInv ==
  ASSUME IInv, NEW o \in Others, other_queues(o)
  PROVE  IInv'
<1>1. /\ o \in Ops \ OnRing /\ o \notin Own /\ Len(sq) < QueueDepth /\ get_sqe(o)
      /\ mixed' = (mixed \/ OwnQueued # {})
      /\ UNCHANGED <<req_vec, pc, num_submitted, num_queued, i, taken, answered, calls,
                     restricted, fault>>
  BY Constants DEF other_queues, HasRoom
<1>2. /\ RingType' /\ RingInv' /\ cq' = cq /\ kernel' = kernel
      /\ OnRing' = OnRing \cup {o}
      /\ Elems(sq') = Elems(sq) \cup {o} /\ Len(sq') = Len(sq) + 1
  BY <1>1, GetSqeOrder DEF IInv, TypeOK, QueueInv
<1>3. Len(sq) \in Nat
  BY DEF IInv, TypeOK, RingType
<1>4. Len(sq') <= QueueDepth
  BY <1>1, <1>2, <1>3, Constants
<1>5. OnRing' \cap Own = OnRing \cap Own /\ OwnQueued' = OwnQueued
      /\ OwnInProcess' = OwnInProcess
  BY <1>1, <1>2 DEF OwnQueued, OwnInProcess
<1>6. restricted' \in BOOLEAN /\ mixed' \in BOOLEAN
      /\ (mixed' = TRUE \/ (mixed' = mixed /\ OwnQueued = {}))
  BY <1>1 DEF IInv, TypeOK
<1>. QED  BY <1>1, <1>2, <1>4, <1>5, <1>6, BatchAlone

\* A submit of what is queued keeps the ring in order.
LEMMA SubmitQueued ==
  ASSUME IInv, NEW n \in 0..Len(sq), uring_submit(sq, n)
  PROVE  /\ RingType' /\ RingInv' /\ cq' = cq /\ OnRing' = OnRing
         /\ Len(sq') = Len(sq) - n /\ Len(sq') <= QueueDepth
         /\ kernel' = kernel \cup Consumed(sq, n)
         /\ Elems(sq') = Elems(sq) \ Consumed(sq, n)
         /\ Consumed(sq, n) \subseteq Elems(sq)
         /\ IsFiniteSet(Consumed(sq, n)) /\ Cardinality(Consumed(sq, n)) = n
<1>1. RingType /\ RingInv /\ Len(sq) <= QueueDepth
  BY DEF IInv, TypeOK, QueueInv
<1>2. sq \in Seq(Ops) /\ Injective(sq) /\ Len(sq) \in Nat
      /\ Elems(sq) \cap kernel = {} /\ Elems(sq) \cap Elems(cq) = {}
  BY <1>1 DEF RingType, RingInv
<1>3. RingType' /\ RingInv' /\ cq' = cq /\ OnRing' = OnRing /\ Len(sq') = Len(sq) - n
  BY <1>1, <1>2, SubmitOrder DEF OnRing
<1>4. Len(sq') <= QueueDepth
  BY <1>1, <1>2, <1>3, Constants
<1>5. kernel' = kernel \cup Consumed(sq, n) /\ sq' = Unconsumed(sq, n)
  BY DEF uring_submit, Consumed, Unconsumed
<1>. QED  BY <1>2, <1>3, <1>4, <1>5, SplitElems

\* Another coroutine submits.  If it sends entries of the batch, mixed is set.
LEMMA OtherSubmitsInv ==
  ASSUME IInv, other_submits
  PROVE  IInv'
<1>1. PICK n \in Returns(sq) : uring_submit(sq, IF n < 0 THEN 0 ELSE n)
  BY DEF other_submits
<1> DEFINE k == IF n < 0 THEN 0 ELSE n
<1>2. k \in 0..Len(sq)
  BY ReturnsType DEF IInv, TypeOK, RingType
<1>3. uring_submit(sq, k)
  BY <1>1
<1> HIDE DEF k
<1>4. /\ RingType' /\ RingInv' /\ cq' = cq /\ OnRing' = OnRing /\ Len(sq') <= QueueDepth
      /\ kernel' = kernel \cup Consumed(sq, k)
      /\ Elems(sq') = Elems(sq) \ Consumed(sq, k)
      /\ Consumed(sq, k) \subseteq Elems(sq)
  BY <1>2, <1>3, SubmitQueued
<1>5. /\ mixed' = (mixed \/ OwnQueued # {}) /\ restricted' \in {restricted, TRUE}
      /\ UNCHANGED <<req_vec, pc, num_submitted, num_queued, i, taken, answered, calls, fault>>
  BY DEF other_submits
<1>6. OwnQueued = {} => OwnQueued' = OwnQueued /\ OwnInProcess' = OwnInProcess
  BY <1>4 DEF OwnQueued, OwnInProcess
<1>7. restricted' \in BOOLEAN /\ mixed' \in BOOLEAN
      /\ (mixed' = TRUE \/ (mixed' = mixed /\ OwnQueued = {}))
  BY <1>5 DEF IInv, TypeOK
<1>. QED  BY <1>4, <1>5, <1>6, <1>7, BatchAlone

\* The kernel completes an operation.
LEMMA KernelCompletesInv ==
  ASSUME IInv, NEW e \in Ops, kernel_completes(e)
  PROVE  IInv'
<1>1. complete(e) /\ UNCHANGED <<req_vec, pc, num_submitted, num_queued, i, taken, answered,
                                calls, mixed, restricted, fault>>
  BY DEF kernel_completes, batchv
<1>2. /\ RingType' /\ RingInv' /\ OnRing' = OnRing /\ sq' = sq
      /\ kernel' \cup Elems(cq') = kernel \cup Elems(cq)
  BY <1>1, CompleteOrder DEF IInv, TypeOK, QueueInv
<1>3. Len(sq') <= QueueDepth /\ Elems(sq') = Elems(sq) /\ OwnQueued' = OwnQueued
      /\ OwnInProcess' = OwnInProcess
  BY <1>2 DEF IInv, QueueInv, OwnQueued, OwnInProcess, Elems
<1>4. restricted' \in BOOLEAN /\ mixed' \in BOOLEAN
  BY <1>1 DEF IInv, TypeOK
<1>. QED  BY <1>1, <1>2, <1>3, <1>4, BatchAlone

\* A submission that fails ends submit_and_wait.
LEMMA SubmitFailsInv ==
  ASSUME IInv, uring_submit(sq, 0), pc' = "failed",
         UNCHANGED <<req_vec, num_submitted, num_queued, i, taken, answered, calls,
                     restricted, mixed, fault>>
  PROVE  IInv'
<1>1. 0 \in 0..Len(sq)
  BY DEF IInv, TypeOK, RingType
<1>2. RingType' /\ RingInv' /\ Len(sq') <= QueueDepth
  BY <1>1, SubmitQueued
<1>3. fault' \in BOOLEAN
  BY DEF IInv, TypeOK
<1>. QED  BY <1>2, <1>3, BatchFailed

\* The requests that get an entry: a prefix of the queue that fits in beside
\* what is left of the submission queue.
LEMMA ProcessRequests ==
  ASSUME IInv, NEW q \in Seq(Ops), Len(q) <= QueueDepth
  PROVE  /\ process_requests(q) \in Seq(Own) /\ Injective(process_requests(q))
         /\ Len(q) + Len(process_requests(q)) <= QueueDepth
<1> DEFINE L == Len(req_vec)
           room == IF restricted THEN 0 ELSE QueueDepth - Len(q)
           n == IF room < L THEN room ELSE L
<1>1. L \in Nat /\ Len(q) \in Nat /\ req_vec \in Seq(Own) /\ Injective(req_vec)
  BY DEF IInv, TypeOK, QueueInv
<1>2. process_requests(q) = SubSeq(req_vec, 1, n)
  BY DEF process_requests
<1> HIDE DEF L
<1>3. n \in 0..L /\ Len(q) + n <= QueueDepth
  BY <1>1, Constants
<1> HIDE DEF n
<1>4. /\ SubSeq(req_vec, 1, n) \in Seq(Own) /\ Injective(SubSeq(req_vec, 1, n))
      /\ Len(SubSeq(req_vec, 1, n)) = n
  BY <1>1, <1>3, PrefixElems DEF L
<1>. QED  BY <1>2, <1>3, <1>4

\* What the head of the loop leaves.
LEMMA LoopHeadPc ==
  ASSUME NEW m \in Nat, NEW k \in 0..(Wrap - 1), LoopHead(m, k)
  PROVE  /\ num_submitted' = m /\ num_queued' = k /\ i' = 0
         /\ pc' \in {"submit", "waiting", "returned"} /\ PcInv'
         /\ num_submitted' \in Nat /\ num_queued' \in 0..(Wrap - 1) /\ i' \in Nat
BY DEF LoopHead, Done, PcInv

\* What joining two duplicate-free sequences of operations gives.
LEMMA OpsConcat ==
  ASSUME NEW a \in Seq(Ops), NEW b \in Seq(Ops), Injective(a), Injective(b),
         Elems(a) \cap Elems(b) = {}
  PROVE  /\ a \o b \in Seq(Ops) /\ Len(a \o b) = Len(a) + Len(b)
         /\ Elems(a \o b) = Elems(a) \cup Elems(b)
         /\ Injective(a \o b)
BY ConcatElems, ZenonT(40)

\* submit_and_wait flushes what is queued and queues the batch.  The ring then
\* has the batch, and the counters are what the flush returned and the length
\* of the batch.
LEMMA FlushInv ==
  ASSUME IInv, pc = "building", NEW n \in 0..Len(sq), NEW q,
         q = process_requests(Unconsumed(sq, n)),
         sq' = Unconsumed(sq, n) \o q, pending' = Len(q),
         kernel' = kernel \cup Consumed(sq, n), cq' = cq,
         taken' = Elems(q), mixed' = (sq # <<>>), LoopHead(n, Len(q)),
         UNCHANGED <<req_vec, answered, calls, restricted, fault>>
  PROVE  IInv'
<1> DEFINE rest == Unconsumed(sq, n)
           gone == Consumed(sq, n)
<1>1. /\ RingType /\ RingInv /\ Len(sq) <= QueueDepth /\ sq \in Seq(Ops) /\ Len(sq) \in Nat
      /\ OnRing \cap Own = {} /\ answered = {} /\ calls = 0
  BY DEF IInv, TypeOK, QueueInv, OwnInv, RingType
<1>2. /\ rest \in Seq(Ops) /\ Len(rest) = Len(sq) - n /\ Injective(rest)
      /\ gone \cup Elems(rest) = Elems(sq) /\ gone \cap Elems(rest) = {}
      /\ IsFiniteSet(gone) /\ Cardinality(gone) = n
  <2>1. sq \in Seq(Ops) /\ Injective(sq)
    BY <1>1 DEF RingInv
  <2>. QED  BY <2>1, SplitElems, Zenon
<1> HIDE DEF rest, gone
<1>3. Len(rest) \in Nat /\ Len(rest) <= QueueDepth
  BY <1>1, <1>2, Constants
<1>4. q \in Seq(Own) /\ Injective(q) /\ Len(rest) + Len(q) <= QueueDepth /\ Len(q) \in Nat
  BY <1>2, <1>3, ProcessRequests DEF rest
<1>5. q \in Seq(Ops) /\ Elems(q) \subseteq Own /\ Elems(q) \cap OnRing = {}
  <2>1. Elems(q) \subseteq Own
    BY <1>4, ElemsType
  <2>2. q \in Seq(Ops)
    BY <1>4, Constants, SeqMonotonic
  <2>. QED  BY <2>1, <2>2, <1>1
<1>6. /\ rest \o q \in Seq(Ops) /\ Len(rest \o q) = Len(rest) + Len(q)
      /\ Elems(rest \o q) = Elems(rest) \cup Elems(q)
      /\ Injective(rest \o q)
  <2>1. Elems(rest) \cap Elems(q) = {}
    BY <1>2, <1>5 DEF OnRing
  <2>2. rest \in Seq(Ops) /\ q \in Seq(Ops)
    BY <1>2, <1>5
  <2>3. Injective(rest) /\ Injective(q)
    BY <1>2, <1>4
  <2>. QED  BY <2>1, <2>2, <2>3, OpsConcat
<1>7. sq' = rest \o q /\ kernel' = kernel \cup gone
  BY DEF rest, gone
<1>8. IsFiniteSet(Elems(q)) /\ Cardinality(Elems(q)) = Len(q)
  BY <1>4, ElemsCount
<1>9. RingType' /\ RingInv' /\ OnRing' = OnRing \cup Elems(q) /\ Len(sq') <= QueueDepth
  <2>1. IsFiniteSet(kernel')
    <3>1. IsFiniteSet(kernel) /\ IsFiniteSet(gone)
      BY <1>1, <1>2 DEF RingInv
    <3>2. IsFiniteSet(kernel \cup gone)
      BY <3>1, FS_Union, Zenon
    <3>. QED  BY <3>2, <1>7
  <2>2. Elems(sq) \subseteq Ops
    BY <1>1, ElemsType
  <2>3. RingType'
    BY <1>1, <1>2, <1>4, <1>6, <1>7, <2>2 DEF RingType
  <2>4. RingInv'
    BY <1>1, <1>2, <1>5, <1>6, <1>7, <2>1 DEF RingInv, OnRing
  <2>5. OnRing' = OnRing \cup Elems(q)
    BY <1>1, <1>2, <1>6, <1>7 DEF OnRing
  <2>. QED  BY <2>3, <2>4, <2>5, <1>4, <1>6, <1>7
<1>10. n \in Nat /\ Len(q) \in 0..(Wrap - 1) /\ n \in 0..QueueDepth /\ Len(q) <= QueueDepth
  BY <1>1, <1>3, <1>4, Constants
<1>11. /\ num_submitted' = n /\ num_queued' = Len(q) /\ i' = 0
       /\ pc' \in {"submit", "waiting", "returned"} /\ PcInv'
       /\ num_submitted' \in Nat /\ num_queued' \in 0..(Wrap - 1) /\ i' \in Nat
  BY <1>10, LoopHeadPc
<1>12. TypeOK'
  BY <1>1, <1>5, <1>9, <1>11 DEF IInv, TypeOK
<1>13. QueueInv'
  BY <1>9 DEF IInv, QueueInv, Injective
<1>14. OwnInv'
  <2>1. OnRing' \cap Own = Elems(q)
    BY <1>1, <1>5, <1>9
  <2>2. calls' = Cardinality(answered') /\ answered' = {}
    BY <1>1, FS_EmptySet
  <2>3. Cardinality(taken') <= QueueDepth
    BY <1>8, <1>10
  <2>. QED  BY <1>11, <2>1, <2>2, <2>3 DEF OwnInv
<1>15. CountInv'
  <2>1. calls' + (num_submitted' - i') + num_queued' = Cardinality(taken') + n + 0 * Wrap
    BY <1>1, <1>8, <1>10, <1>11, Constants
  <2>. QED  BY <2>1, <1>10 DEF CountInv, Balance
<1>16. ASSUME ~mixed'
       PROVE  /\ OwnQueued' = Elems(q) /\ OwnInProcess' = {} /\ n = 0
              /\ Elems(sq') \subseteq Own
  <2>1. sq = <<>>
    BY <1>16
  <2>2. n = 0 /\ Elems(sq) = {}
    BY <2>1 DEF Elems
  <2>3. gone = {} /\ Elems(rest) = {}
    BY <2>2, <1>2
  <2>4. Elems(sq') = Elems(q) /\ kernel' = kernel
    BY <2>3, <1>6, <1>7
  <2>. QED  BY <2>2, <2>4, <1>1, <1>5 DEF OwnQueued, OwnInProcess, OnRing
<1>17. AloneInv'
  BY <1>16 DEF AloneInv
<1>18. CountsExact'
  <2>1. ASSUME ~mixed'
        PROVE  num_submitted' - i' = Cardinality(OwnInProcess')
               /\ num_queued' = Cardinality(OwnQueued')
    <3>1. num_submitted' - i' = 0
      BY <2>1, <1>11, <1>16
    <3>. QED  BY <2>1, <3>1, <1>8, <1>11, <1>16, FS_EmptySet
  <2>. QED  BY <2>1 DEF CountsExact
<1>19. FaultOnlyAfterFailure'
  BY DEF IInv, FaultOnlyAfterFailure
<1>. QED  BY <1>11, <1>12, <1>13, <1>14, <1>15, <1>17, <1>18, <1>19 DEF IInv

\* Both outcomes of the first submission.
LEMMA SubmitAndWaitInv ==
  ASSUME IInv, submit_and_wait
  PROVE  IInv'
<1>1. PICK n \in Returns(sq) :
        IF n < 0
        THEN uring_submit(sq, 0) /\ pc' = "failed"
             /\ UNCHANGED <<num_submitted, num_queued, i, taken, mixed>>
        ELSE LET rest == SubSeq(sq, n + 1, Len(sq))
                 q    == process_requests(rest)
             IN  /\ sq' = rest \o q /\ pending' = Len(q)
                 /\ kernel' = kernel \cup {sq[k] : k \in 1..n}
                 /\ taken' = Elems(q)
                 /\ mixed' = (sq # <<>>)
                 /\ LoopHead(first_count(n, q), Len(q))
                 /\ UNCHANGED cq
  BY DEF submit_and_wait
<1>2. pc = "building" /\ UNCHANGED <<req_vec, answered, calls, restricted, fault>>
  BY DEF submit_and_wait
<1>3. CASE n < 0
  BY <1>1, <1>2, <1>3, SubmitFailsInv
<1>4. CASE ~(n < 0)
  <2> DEFINE q == process_requests(Unconsumed(sq, n))
  <2>1. n \in 0..Len(sq)
    BY <1>4, ReturnsType DEF IInv, TypeOK, RingType
  <2>2. /\ sq' = Unconsumed(sq, n) \o q /\ pending' = Len(q)
        /\ kernel' = kernel \cup Consumed(sq, n) /\ cq' = cq
        /\ taken' = Elems(q) /\ mixed' = (sq # <<>>) /\ LoopHead(n, Len(q))
    BY <1>1, <1>4 DEF Unconsumed, Consumed, first_count
  <2>3. q = process_requests(Unconsumed(sq, n))
    OBVIOUS
  <2> HIDE DEF q
  <2>. QED  BY <1>2, <2>1, <2>2, <2>3, FlushInv
<1>. QED  BY <1>3, <1>4

\* A submission of the inner loop that returned n.  num_queued may wrap around:
\* n counts entries of others, too.
LEMMA InnerSubmitInv ==
  ASSUME IInv, pc = "submit", NEW n \in 0..Len(sq), uring_submit(sq, n),
         num_submitted' = n, num_queued' = still_queued(n), i' = 0,
         pc' = IF n = 0 THEN "submit" ELSE "waiting",
         UNCHANGED <<req_vec, taken, answered, calls, mixed, restricted, fault>>
  PROVE  IInv'
<1> DEFINE gone == Consumed(sq, n)
<1>1. /\ RingType' /\ RingInv' /\ cq' = cq /\ OnRing' = OnRing /\ Len(sq') <= QueueDepth
      /\ kernel' = kernel \cup gone /\ Elems(sq') = Elems(sq) \ gone
      /\ gone \subseteq Elems(sq) /\ IsFiniteSet(gone) /\ Cardinality(gone) = n
      /\ Len(sq') = Len(sq) - n
  BY SubmitQueued
<1> HIDE DEF gone
<1>2. /\ num_submitted = 0 /\ i = 0 /\ num_queued # 0 /\ num_queued \in 0..(Wrap - 1)
      /\ Len(sq) \in Nat /\ n \in Nat /\ calls \in Nat /\ taken \subseteq Own
      /\ Wrap \in Nat \ {0} /\ n <= Len(sq)
  BY Constants DEF IInv, PcInv, TypeOK, RingType
<1>3. num_queued' \in 0..(Wrap - 1) /\ \E z \in Int : num_queued' = (num_queued - n) + z * Wrap
  <2>1. num_queued - n \in Int
    BY <1>2
  <2>. QED  BY <2>1, <1>2, ModWraps DEF still_queued
<1>4. TypeOK'
  BY <1>1, <1>2, <1>3 DEF IInv, TypeOK
<1>5. QueueInv'
  BY <1>1 DEF IInv, QueueInv, Injective
<1>6. OwnInv'
  BY <1>1 DEF IInv, OwnInv, Sent
<1>7. PcInv'
  <2>1. n = 0 => num_queued' = num_queued
    <3>1. num_queued - 0 = num_queued
      BY <1>2
    <3>. QED  BY <3>1, <1>2, ModInRange DEF still_queued
  <2>. QED  BY <2>1, <1>2 DEF PcInv
<1>8. CountInv'
  <2>1. PICK f \in 0..QueueDepth, y \in Int : Balance(f, y)
    BY DEF IInv, CountInv, Sent
  <2>2. PICK z \in Int : num_queued' = (num_queued - n) + z * Wrap
    BY <1>3
  <2> DEFINE T == Cardinality(taken)
  <2>3. T \in Nat
    BY <1>2, OwnFinite
  <2>4. calls + (num_submitted - i) + num_queued = T + f + y * Wrap
    BY <2>1 DEF Balance
  <2> HIDE DEF T
  <2>5. calls + (n - 0) + num_queued' = T + f + (y + z) * Wrap
    BY <2>2, <2>3, <2>4, <1>2, Constants
  <2>6. Balance(f, y + z)'
    BY <2>5 DEF Balance, T
  <2>. QED  BY <2>6 DEF CountInv
<1>9. ASSUME ~mixed
      PROVE  /\ Elems(sq) \subseteq Own /\ OwnQueued = Elems(sq)
             /\ num_queued = Len(sq) /\ Cardinality(OwnInProcess) = 0
  <2>1. num_submitted - i = Cardinality(OwnInProcess) /\ num_queued = Cardinality(OwnQueued)
    BY <1>9 DEF IInv, CountsExact
  <2>2. OwnQueued # {}
    BY <2>1, <1>2, FS_EmptySet
  <2>3. Elems(sq) \subseteq Own
    BY <2>2, <1>9 DEF IInv, AloneInv, Sent
  <2>4. OwnQueued = Elems(sq)
    BY <2>3 DEF OwnQueued
  <2>5. Cardinality(Elems(sq)) = Len(sq)
    BY ElemsCount DEF IInv, TypeOK, QueueInv, RingType, RingInv
  <2>. QED  BY <2>1, <2>3, <2>4, <2>5, <1>2
<1>10. AloneInv'
  BY <1>1, <1>9 DEF AloneInv
<1>11. ASSUME ~mixed
       PROVE  num_submitted' - i' = Cardinality(OwnInProcess')
              /\ num_queued' = Cardinality(OwnQueued')
  <2>1. OwnInProcess = {} /\ OwnInProcess' = OwnInProcess \cup gone
    <3>1. IsFiniteSet(OwnInProcess)
      BY OwnFinite DEF OwnInProcess
    <3>. QED  BY <3>1, <1>1, <1>9, <1>11, FS_EmptySet DEF OwnInProcess
  <2>2. Cardinality(OwnInProcess') = n
    BY <2>1, <1>1
  <2>3. OwnQueued' = Elems(sq')
    BY <1>1, <1>9, <1>11 DEF OwnQueued
  <2>4. Cardinality(Elems(sq')) = Len(sq')
    <3>1. sq' \in Seq(Ops) /\ Injective(sq')
      BY <1>1 DEF RingType, RingInv
    <3>. QED  BY <3>1, ElemsCount
  <2>5. num_queued' = Len(sq) - n
    <3>1. num_queued - n \in 0..(Wrap - 1) /\ num_queued - n = Len(sq) - n
      BY <1>2, <1>9, <1>11
    <3>. QED  BY <3>1, <1>2, ModInRange DEF still_queued
  <2>. QED  BY <2>2, <2>3, <2>4, <2>5, <1>1, <1>2
<1>12. CountsExact'
  BY <1>11 DEF CountsExact
<1>13. FaultOnlyAfterFailure'
  BY DEF IInv, FaultOnlyAfterFailure
<1>. QED  BY <1>4, <1>5, <1>6, <1>7, <1>8, <1>10, <1>12, <1>13 DEF IInv

\* Both outcomes of a submission of the inner loop.
LEMMA SubmitBatchInv ==
  ASSUME IInv, submit_batch
  PROVE  IInv'
<1>1. PICK n \in Returns(sq) :
        IF n < 0
        THEN uring_submit(sq, 0) /\ pc' = "failed"
             /\ UNCHANGED <<num_submitted, num_queued, i>>
        ELSE /\ uring_submit(sq, n)
             /\ num_submitted' = n /\ num_queued' = still_queued(n) /\ i' = 0
             /\ pc' = IF n = 0 THEN "submit" ELSE "waiting"
  BY DEF submit_batch
<1>2. pc = "submit"
      /\ UNCHANGED <<req_vec, taken, answered, calls, mixed, restricted, fault>>
  BY DEF submit_batch
<1>3. CASE n < 0
  BY <1>1, <1>2, <1>3, SubmitFailsInv
<1>4. CASE ~(n < 0)
  <2>1. n \in 0..Len(sq)
    BY <1>4, ReturnsType DEF IInv, TypeOK, RingType
  <2>. QED  BY <1>1, <1>2, <1>4, <2>1, InnerSubmitInv
<1>. QED  BY <1>3, <1>4

\* A response to the batch: it is the first one for its request, and the
\* counters give up what the handler's calls gain.
LEMMA ReceiveInv ==
  ASSUME IInv, cq # <<>>, Head(cq) \in Own, receive(Head(cq)), cqe_seen, UNCHANGED restricted
  PROVE  IInv'
<1> DEFINE r == Head(cq)
<1>1. /\ pc = "waiting" /\ answered' = answered \cup {r} /\ calls' = calls + 1
      /\ UNCHANGED <<req_vec, taken, mixed, fault, restricted>>
  BY DEF receive
<1>2. /\ RingType' /\ RingInv' /\ kernel' = kernel /\ sq' = sq
      /\ OnRing' = OnRing \ {r} /\ r \in Elems(cq) /\ Elems(cq') = Elems(cq) \ {r}
  BY SeenOrder DEF IInv, TypeOK, QueueInv
<1>3. /\ num_submitted \in Nat /\ i \in Nat /\ num_queued \in 0..(Wrap - 1) /\ calls \in Nat
      /\ taken \subseteq Own /\ answered \subseteq Own
  BY DEF IInv, TypeOK
<1>4. /\ num_submitted' - i' = (num_submitted - i) - 1 /\ num_queued' = num_queued
      /\ num_submitted' \in Nat /\ i' \in Nat
      /\ pc' \in {"submit", "waiting", "returned"} /\ PcInv'
  <2>1. CASE all_received(i + 1)
    <3>1. LoopHead(0, num_queued)
      BY <2>1 DEF receive
    <3>2. num_submitted' = 0 /\ num_queued' = num_queued /\ i' = 0 /\ PcInv'
          /\ pc' \in {"submit", "waiting", "returned"}
      BY <3>1, <1>3, LoopHeadPc
    <3>3. num_submitted = i + 1
      BY <2>1 DEF all_received
    <3>. QED  BY <3>2, <3>3, <1>3
  <2>2. CASE ~all_received(i + 1)
    <3>1. i' = i + 1 /\ pc' = pc /\ num_submitted' = num_submitted /\ num_queued' = num_queued
      BY <2>2 DEF receive
    <3>. QED  BY <3>1, <1>1, <1>3 DEF PcInv
  <2>. QED  BY <2>1, <2>2
<1>5. r \in taken \ answered /\ OnRing \cap Own = taken \ answered /\ answered \subseteq taken
      /\ calls = Cardinality(answered) /\ Cardinality(taken) <= QueueDepth
  BY <1>1, <1>2 DEF IInv, OwnInv, Sent, OnRing
<1> HIDE DEF r
<1>6. TypeOK'
  BY <1>1, <1>2, <1>3, <1>4, <1>5 DEF IInv, TypeOK
<1>7. QueueInv'
  BY <1>1, <1>2 DEF IInv, QueueInv, Injective
<1>8. OwnInv'
  <2>1. Cardinality(answered') = Cardinality(answered) + 1
    <3>1. IsFiniteSet(answered) /\ r \notin answered
      BY <1>3, <1>5, OwnFinite
    <3>. QED  BY <3>1, <1>1, FS_AddElement
  <2>2. answered' \subseteq taken' /\ OnRing' \cap Own = taken' \ answered'
    BY <1>1, <1>2, <1>5
  <2>. QED  BY <2>1, <2>2, <1>1, <1>4, <1>5 DEF OwnInv
<1>9. CountInv'
  <2>1. PICK f \in 0..QueueDepth, z \in Int : Balance(f, z)
    BY <1>1 DEF IInv, CountInv, Sent
  <2>2. calls' + (num_submitted' - i') + num_queued' = calls + (num_submitted - i) + num_queued
    <3>1. calls \in Int /\ num_submitted - i \in Int /\ num_queued \in Int
      BY <1>3
    <3>2. \A c, d, q \in Int : (c + 1) + (d - 1) + q = c + d + q
      OBVIOUS
    <3>3. (calls + 1) + ((num_submitted - i) - 1) + num_queued
            = calls + (num_submitted - i) + num_queued
      BY <3>1, <3>2
    <3>. QED  BY <3>3, <1>1, <1>4
  <2>3. Balance(f, z)'
    BY <2>1, <2>2, <1>1 DEF Balance
  <2>. QED  BY <2>3 DEF CountInv
<1>10. AloneInv'
  BY <1>1, <1>2 DEF IInv, AloneInv, Sent, OwnQueued, Elems
<1>11. CountsExact'
  <2>1. OwnQueued' = OwnQueued
    BY <1>2 DEF OwnQueued, Elems
  <2>2. OwnInProcess' = OwnInProcess \ {r} /\ r \in OwnInProcess
    BY <1>2, <1>3, <1>5 DEF OwnInProcess, IInv, QueueInv, RingInv
  <2>3. IsFiniteSet(OwnInProcess) /\ Cardinality(OwnInProcess) \in Nat
    BY OwnFinite DEF OwnInProcess
  <2>4. Cardinality(OwnInProcess') = Cardinality(OwnInProcess) - 1
    BY <2>2, <2>3, FS_RemoveElement
  <2>. QED  BY <2>1, <2>4, <1>1, <1>4 DEF IInv, CountsExact
<1>12. FaultOnlyAfterFailure'
  BY <1>1 DEF IInv, FaultOnlyAfterFailure
<1>. QED  BY <1>4, <1>6, <1>7, <1>8, <1>9, <1>10, <1>11, <1>12 DEF IInv

\* When the counters are 0 the handler has had every response: less than Wrap
\* is missing from the balance, so it has not wrapped around, and nothing is.
LEMMA ReturnedComplete == IInv => CompleteOnReturn
<1> SUFFICES ASSUME IInv, pc = "returned"
             PROVE  /\ answered = taken /\ calls = Cardinality(taken)
                    /\ OnRing \cap Own = {}
  BY DEF CompleteOnReturn
<1>1. /\ num_submitted = 0 /\ i = 0 /\ num_queued = 0
      /\ answered \subseteq taken /\ OnRing \cap Own = taken \ answered
      /\ calls = Cardinality(answered) /\ Cardinality(taken) <= QueueDepth
      /\ taken \subseteq Own
  BY DEF IInv, TypeOK, PcInv, OwnInv, Sent
<1>2. PICK f \in 0..QueueDepth, z \in Int : Balance(f, z)
  BY DEF IInv, CountInv, Sent
<1>3. /\ IsFiniteSet(taken) /\ Cardinality(taken) \in Nat
      /\ Cardinality(answered) \in Nat /\ Cardinality(answered) <= Cardinality(taken)
  BY <1>1, OwnFinite, FS_Subset
<1> DEFINE T == Cardinality(taken)
           A == Cardinality(answered)
           W == z * Wrap
<1>4. A + (0 - 0) + 0 = T + f + W
  BY <1>1, <1>2 DEF Balance
<1>5. W \in Int /\ A \in Nat /\ T \in Nat /\ A <= T /\ T <= QueueDepth
  BY <1>1, <1>3, Constants
<1> HIDE DEF T, A, W
<1>6. -Wrap < W /\ W < Wrap
  BY <1>4, <1>5, Constants
<1>7. z = 0
  BY <1>6, Constants, SmallMultiple DEF W
<1>8. W = 0
  BY <1>7, Constants DEF W
<1>9. A = T
  BY <1>4, <1>5, <1>8
<1>10. answered = taken
  BY <1>1, <1>3, <1>9, FS_Subset DEF A, T
<1>. QED  BY <1>1, <1>10

\* Any completion: of others, for the batch, or for a batch that is gone.
LEMMA AwaitMessageInv ==
  ASSUME IInv, await_message
  PROVE  IInv'
<1>1. cq # <<>> /\ cqe_seen /\ UNCHANGED restricted /\ pc # "submit"
  BY DEF await_message
<1>2. /\ RingType' /\ RingInv' /\ kernel' = kernel /\ sq' = sq
      /\ OnRing' = OnRing \ {Head(cq)} /\ Head(cq) \in Elems(cq)
      /\ Elems(cq') = Elems(cq) \ {Head(cq)}
  BY <1>1, SeenOrder DEF IInv, TypeOK, QueueInv
<1>3. Len(sq') <= QueueDepth /\ Elems(sq') = Elems(sq)
  BY <1>2 DEF IInv, QueueInv, Elems
<1>4. CASE Head(cq) \in Others /\ UNCHANGED <<batchv, fault>>
  <2>1. Head(cq) \notin Own
    BY <1>4, Constants
  <2>2. OnRing' \cap Own = OnRing \cap Own /\ OwnQueued' = OwnQueued
        /\ OwnInProcess' = OwnInProcess
    BY <2>1, <1>2, <1>3 DEF OwnQueued, OwnInProcess
  <2>3. /\ UNCHANGED <<req_vec, pc, num_submitted, num_queued, i, taken, answered, calls, fault>>
        /\ restricted' \in BOOLEAN /\ mixed' \in BOOLEAN /\ mixed' = mixed
    BY <1>1, <1>4 DEF batchv, IInv, TypeOK
  <2>. QED  BY <1>2, <1>3, <2>2, <2>3, BatchAlone
<1>5. CASE Head(cq) \in Own /\ receive(Head(cq))
  BY <1>1, <1>5, ReceiveInv
<1>6. CASE Head(cq) \in Own /\ pc # "waiting" /\ fault' = TRUE /\ UNCHANGED batchv
  <2>1. Head(cq) \in OnRing \cap Own
    BY <1>2, <1>6 DEF OnRing
  <2>2. pc # "building" /\ pc # "returned"
    BY <2>1, ReturnedComplete DEF IInv, OwnInv, CompleteOnReturn
  <2>3. pc' = "failed"
    BY <1>1, <1>6, <2>2 DEF IInv, TypeOK, batchv
  <2>. QED  BY <1>1, <1>2, <1>3, <1>6, <2>3, BatchFailed DEF batchv
<1>. QED  BY <1>4, <1>5, <1>6 DEF await_message

\* IInv is an invariant.
LEMMA Invariance == Spec => []IInv
<1>1. ASSUME IInv, [Next]_vars
      PROVE  IInv'
  <2>1. ASSUME NEW r \in Own, queue_op(r)  PROVE IInv'
    BY <1>1, <2>1, QueueOpInv
  <2>2. CASE submit_and_wait
    BY <1>1, <2>2, SubmitAndWaitInv
  <2>3. CASE submit_batch
    BY <1>1, <2>3, SubmitBatchInv
  <2>4. CASE await_message
    BY <1>1, <2>4, AwaitMessageInv
  <2>5. ASSUME NEW o \in Others, other_queues(o)  PROVE IInv'
    BY <1>1, <2>5, OtherQueuesInv
  <2>6. CASE other_submits
    BY <1>1, <2>6, OtherSubmitsInv
  <2>7. ASSUME NEW e \in Ops, kernel_completes(e)  PROVE IInv'
    BY <1>1, <2>7, KernelCompletesInv
  <2>8. CASE UNCHANGED vars
    BY <1>1, <2>8, StutterInv
  <2>. QED  BY <1>1, <2>1, <2>2, <2>3, <2>4, <2>5, <2>6, <2>7, <2>8 DEF Next
<1>. QED  BY InitInv, <1>1, PTL DEF Spec

-----------------------------------------------------------------------------
(* The theorems.                                                           *)

\* The counters of submit_and_wait and the ring always have their types;
\* num_queued, unsigned, stays in range even when it wraps around.
THEOREM TypeCorrect == Spec => []TypeOK
<1>1. IInv => TypeOK
  BY DEF IInv
<1>. QED  BY <1>1, Invariance, PTL

\* submit_and_wait returns 0 only when every request that got an entry has been
\* answered exactly once, whatever other coroutines queue and submit.
THEOREM CompletionCorrect == Spec => []CompleteOnReturn
BY ReturnedComplete, Invariance, PTL

\* While the batch has the submission queue for itself, its two counters are
\* exact.
THEOREM CountsCorrect == Spec => []CountsExact
<1>1. IInv => CountsExact
  BY DEF IInv
<1>. QED  BY <1>1, Invariance, PTL

\* Request data of the batch is used after it is gone only after a failed
\* submission.
THEOREM FaultCorrect == Spec => []FaultOnlyAfterFailure
<1>1. IInv => FaultOnlyAfterFailure
  BY DEF IInv
<1>. QED  BY <1>1, Invariance, PTL
=============================================================================
