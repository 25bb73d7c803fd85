---------------------------- MODULE UringProofs ----------------------------
(***************************************************************************)
(* Facts about the queues of the ring, used by the proofs about the event  *)
(* manager: what appending, consuming a prefix and dropping the head do to *)
(* the elements of a queue that holds each operation at most once.         *)
(***************************************************************************)
EXTENDS Uring, TLAPS, FiniteSetTheorems, SequenceTheorems

\* No operation is twice in the queue.
Injective(q) == \A i, j \in DOMAIN q : q[i] = q[j] => i = j

\* What a submit call of the queue q that consumes n entries takes and leaves.
Consumed(q, n) == {q[i] : i \in 1..n}
Unconsumed(q, n) == SubSeq(q, n + 1, Len(q))

\* The operations of a queue belong to the set it is a queue of.
LEMMA ElemsType ==
  ASSUME NEW S, NEW q \in Seq(S)
  PROVE  Elems(q) \subseteq S
BY DEF Elems

\* io_uring_get_sqe, and a completion posted by the kernel, put one new
\* operation at the end of a queue.
LEMMA AppendElems ==
  ASSUME NEW S, NEW q \in Seq(S), NEW e \in S
  PROVE  /\ Append(q, e) \in Seq(S)
         /\ Len(Append(q, e)) = Len(q) + 1
         /\ Elems(Append(q, e)) = Elems(q) \cup {e}
         /\ Injective(q) /\ e \notin Elems(q) => Injective(Append(q, e))
<1>1. /\ Append(q, e) \in Seq(S)
      /\ Len(Append(q, e)) = Len(q) + 1
      /\ DOMAIN Append(q, e) = 1..(Len(q) + 1)
      /\ DOMAIN q = 1..Len(q)
      /\ \A i \in 1..Len(q) : Append(q, e)[i] = q[i]
      /\ Append(q, e)[Len(q) + 1] = e
  BY AppendProperties
<1>2. Elems(Append(q, e)) = Elems(q) \cup {e}
  BY <1>1 DEF Elems
<1>3. ASSUME Injective(q), e \notin Elems(q)
      PROVE  Injective(Append(q, e))
  BY <1>1, <1>3 DEF Injective, Elems
<1>. QED  BY <1>1, <1>2, <1>3

\* io_uring_cqe_seen drops the oldest completion, and only that.
LEMMA TailElems ==
  ASSUME NEW S, NEW q \in Seq(S), q # <<>>, Injective(q)
  PROVE  /\ Head(q) \in Elems(q)
         /\ Tail(q) \in Seq(S)
         /\ Len(Tail(q)) = Len(q) - 1
         /\ Elems(Tail(q)) = Elems(q) \ {Head(q)}
         /\ Injective(Tail(q))
<1>1. /\ Tail(q) \in Seq(S)
      /\ Len(q) \in Nat \ {0}
      /\ Len(Tail(q)) = Len(q) - 1
      /\ DOMAIN Tail(q) = 1..(Len(q) - 1)
      /\ DOMAIN q = 1..Len(q)
      /\ \A i \in 1..(Len(q) - 1) : Tail(q)[i] = q[i + 1]
      /\ Head(q) = q[1]
  BY HeadTailProperties, EmptySeq
<1>2. Head(q) \in Elems(q)
  BY <1>1 DEF Elems
<1>3. Elems(Tail(q)) \subseteq Elems(q) \ {Head(q)}
  BY <1>1 DEF Elems, Injective
<1>4. ASSUME NEW x \in Elems(q) \ {Head(q)}
      PROVE  x \in Elems(Tail(q))
  <2>1. PICK i \in 1..Len(q) : x = q[i]
    BY <1>1 DEF Elems
  <2>2. i # 1
    BY <2>1, <1>1
  <2>3. i - 1 \in 1..(Len(q) - 1) /\ Tail(q)[i - 1] = q[i]
    BY <2>2, <1>1
  <2>. QED  BY <2>1, <2>3, <1>1 DEF Elems
<1>5. Injective(Tail(q))
  BY <1>1 DEF Injective
<1>. QED  BY <1>1, <1>2, <1>3, <1>4, <1>5

\* Arithmetic on the length of a suffix.
LEMMA SuffixLength ==
  ASSUME NEW L \in Nat, NEW n \in 0..L
  PROVE  /\ n + 1 \in Int
         /\ L - (n + 1) + 1 = L - n
         /\ (IF n + 1 <= L THEN L - (n + 1) + 1 ELSE 0) = L - n
         /\ \A i \in (n + 1)..L : i \in 1..L
OBVIOUS

\* What is left of a sequence without its first n elements.
LEMMA SuffixProperties ==
  ASSUME NEW S, NEW q, NEW L \in Nat, NEW n \in 0..L, \A i \in 1..L : q[i] \in S
  PROVE  /\ SubSeq(q, n + 1, L) \in Seq(S)
         /\ Len(SubSeq(q, n + 1, L)) = L - n
         /\ \A i \in 1..(L - n) : SubSeq(q, n + 1, L)[i] = q[(n + 1) + i - 1]
<1>1. n + 1 \in Int /\ L \in Int /\ \A i \in (n + 1)..L : q[i] \in S
  BY SuffixLength
<1>2. /\ SubSeq(q, n + 1, L) \in Seq(S)
      /\ Len(SubSeq(q, n + 1, L)) = IF n + 1 <= L THEN L - (n + 1) + 1 ELSE 0
      /\ \A i \in 1..(L - (n + 1) + 1) : SubSeq(q, n + 1, L)[i] = q[(n + 1) + i - 1]
  BY <1>1, SubSeqProperties
<1>. QED  BY <1>2, SuffixLength, Zenon

\* io_uring_submit splits the queue: the n operations the kernel consumed, and
\* those that stay.
LEMMA SplitElems ==
  ASSUME NEW S, NEW q \in Seq(S), Injective(q), NEW n \in 0..Len(q)
  PROVE  /\ Unconsumed(q, n) \in Seq(S)
         /\ Len(Unconsumed(q, n)) = Len(q) - n
         /\ Injective(Unconsumed(q, n))
         /\ Consumed(q, n) \cup Elems(Unconsumed(q, n)) = Elems(q)
         /\ Consumed(q, n) \cap Elems(Unconsumed(q, n)) = {}
         /\ IsFiniteSet(Consumed(q, n))
         /\ Cardinality(Consumed(q, n)) = n
<1> DEFINE taken == {q[i] : i \in 1..n}
           rest  == SubSeq(q, n + 1, Len(q))
<1>1. Len(q) \in Nat /\ DOMAIN q = 1..Len(q) /\ \A i \in 1..Len(q) : q[i] \in S
  BY LenProperties, ElementOfSeq
<1>2. /\ rest \in Seq(S)
      /\ Len(rest) = Len(q) - n
      /\ DOMAIN rest = 1..(Len(q) - n)
      /\ \A i \in 1..(Len(q) - n) : rest[i] = q[n + i]
  <2>1. /\ rest \in Seq(S)
        /\ Len(rest) = Len(q) - n
        /\ \A i \in 1..(Len(q) - n) : rest[i] = q[(n + 1) + i - 1]
    <3> DEFINE L == Len(q)
    <3>1. L \in Nat /\ n \in 0..L /\ \A i \in 1..L : q[i] \in S
      BY <1>1
    <3> HIDE DEF L
    <3>2. /\ SubSeq(q, n + 1, L) \in Seq(S)
          /\ Len(SubSeq(q, n + 1, L)) = L - n
          /\ \A i \in 1..(L - n) : SubSeq(q, n + 1, L)[i] = q[(n + 1) + i - 1]
      BY <3>1, SuffixProperties
    <3>. QED  BY <3>2 DEF L
  <2> HIDE DEF rest
  <2>2. \A i \in 1..(Len(q) - n) : (n + 1) + i - 1 = n + i
    BY <1>1
  <2>3. DOMAIN rest = 1..(Len(q) - n)
    BY <2>1, LenProperties
  <2>. QED  BY <2>1, <2>2, <2>3
<1> HIDE DEF rest
<1>3. Injective(rest)
  <2> SUFFICES ASSUME NEW i \in 1..(Len(q) - n), NEW j \in 1..(Len(q) - n),
                      rest[i] = rest[j]
               PROVE  i = j
    BY <1>2 DEF Injective
  <2>1. n + i \in DOMAIN q /\ n + j \in DOMAIN q /\ q[n + i] = q[n + j]
    BY <1>1, <1>2
  <2>2. n + i = n + j
    BY <2>1 DEF Injective
  <2>. QED  BY <2>2, <1>1
<1>4. taken \cup Elems(rest) \subseteq Elems(q)
  <2>1. taken \subseteq Elems(q)
    BY <1>1 DEF Elems
  <2>2. \A i \in 1..(Len(q) - n) : n + i \in DOMAIN q
    BY <1>1
  <2>3. Elems(rest) \subseteq Elems(q)
    BY <2>2, <1>2 DEF Elems
  <2>. QED  BY <2>1, <2>3
<1>5. ASSUME NEW x \in Elems(q), x \notin taken
      PROVE  x \in Elems(rest)
  <2>1. PICK i \in 1..Len(q) : x = q[i]
    BY <1>1 DEF Elems
  <2>2. i \notin 1..n
    BY <2>1, <1>5
  <2>3. i - n \in 1..(Len(q) - n) /\ rest[i - n] = q[i]
    <3>1. i - n \in 1..(Len(q) - n) /\ n + (i - n) = i
      BY <2>2, <1>1
    <3>. QED  BY <3>1, <1>2
  <2>. QED  BY <2>1, <2>3, <1>2 DEF Elems
<1>6. ASSUME NEW x \in taken, x \in Elems(rest)
      PROVE  FALSE
  <2>1. PICK i \in 1..n : x = q[i]
    OBVIOUS
  <2>2. PICK j \in 1..(Len(q) - n) : x = q[n + j]
    BY <1>2, <1>6 DEF Elems
  <2>3. i \in 1..Len(q) /\ n + j \in 1..Len(q) /\ i # n + j
    BY <1>1
  <2>. QED  BY <2>1, <2>2, <2>3, <1>1 DEF Injective
<1>7. IsFiniteSet(taken) /\ Cardinality(taken) = n
  <2> DEFINE f == [i \in 1..n |-> q[i]]
  <2>1. f \in Surjection(1..n, taken)
    BY DEF Surjection
  <2>2. f \in Injection(1..n, taken)
    BY <1>1 DEF Injection, IsInjective, Injective
  <2>3. IsFiniteSet(1..n) /\ Cardinality(1..n) = n
    BY <1>1, FS_Interval
  <2> HIDE DEF f, taken
  <2>. QED  BY <2>1, <2>2, <2>3, FS_Surjection
<1>. QED  BY <1>2, <1>3, <1>4, <1>5, <1>6, <1>7 DEF rest, Consumed, Unconsumed

\* A queue holds as many operations as it is long.
LEMMA ElemsCount ==
  ASSUME NEW S, NEW q \in Seq(S), Injective(q)
  PROVE  IsFiniteSet(Elems(q)) /\ Cardinality(Elems(q)) = Len(q)
<1>1. Len(q) \in 0..Len(q) /\ DOMAIN q = 1..Len(q)
  BY LenProperties
<1>2. Consumed(q, Len(q)) = Elems(q)
  BY <1>1 DEF Consumed, Elems
<1>. QED  BY <1>1, <1>2, SplitElems

\* The first n operations of a queue.
LEMMA PrefixElems ==
  ASSUME NEW S, NEW q \in Seq(S), Injective(q), NEW n \in 0..Len(q)
  PROVE  /\ SubSeq(q, 1, n) \in Seq(S)
         /\ Len(SubSeq(q, 1, n)) = n
         /\ Injective(SubSeq(q, 1, n))
         /\ Elems(SubSeq(q, 1, n)) \subseteq Elems(q)
<1> DEFINE p == SubSeq(q, 1, n)
<1>1. Len(q) \in Nat /\ DOMAIN q = 1..Len(q) /\ \A i \in 1..Len(q) : q[i] \in S
  BY LenProperties, ElementOfSeq
<1>2. 1 \in Int /\ n \in Int /\ (\A i \in 1..n : q[i] \in S)
      /\ (IF 1 <= n THEN n - 1 + 1 ELSE 0) = n /\ n - 1 + 1 = n
  BY <1>1
<1>3. p \in Seq(S) /\ Len(p) = n /\ \A i \in 1..n : p[i] = q[1 + i - 1]
  BY <1>2, SubSeqProperties
<1> HIDE DEF p
<1>4. DOMAIN p = 1..n /\ \A i \in 1..n : p[i] = q[i] /\ i \in DOMAIN q
  BY <1>1, <1>3, LenProperties
<1>5. Injective(p) /\ Elems(p) \subseteq Elems(q)
  BY <1>4 DEF Injective, Elems
<1>. QED  BY <1>3, <1>5 DEF p

\* Two queues one after the other.
LEMMA ConcatElems ==
  ASSUME NEW S, NEW p \in Seq(S), NEW q \in Seq(S)
  PROVE  /\ p \o q \in Seq(S)
         /\ Len(p \o q) = Len(p) + Len(q)
         /\ Elems(p \o q) = Elems(p) \cup Elems(q)
         /\ Injective(p) /\ Injective(q) /\ Elems(p) \cap Elems(q) = {}
              => Injective(p \o q)
<1> DEFINE L == Len(p)
           M == Len(q)
           s == p \o q
<1>1. /\ L \in Nat /\ M \in Nat /\ DOMAIN p = 1..L /\ DOMAIN q = 1..M
      /\ s \in Seq(S) /\ Len(s) = L + M /\ DOMAIN s = 1..(L + M)
      /\ \A i \in 1..(L + M) : s[i] = IF i <= L THEN p[i] ELSE q[i - L]
  BY LenProperties, ConcatProperties
<1> HIDE DEF L, M, s
<1>2. /\ \A i \in 1..L : i \in DOMAIN s /\ s[i] = p[i]
      /\ \A i \in 1..M : L + i \in DOMAIN s /\ s[L + i] = q[i]
  <2>1. \A i \in 1..M : ~(L + i <= L) /\ (L + i) - L = i /\ L + i \in 1..(L + M)
    BY <1>1
  <2>2. \A i \in 1..L : i <= L /\ i \in 1..(L + M)
    BY <1>1
  <2>. QED  BY <1>1, <2>1, <2>2
<1>3. \A i \in DOMAIN s : i \in 1..L \/ (i - L \in 1..M /\ L + (i - L) = i)
  BY <1>1
<1>4. Elems(s) = Elems(p) \cup Elems(q)
  <2>1. Elems(p) \subseteq Elems(s) /\ Elems(q) \subseteq Elems(s)
    BY <1>1, <1>2 DEF Elems
  <2>2. ASSUME NEW i \in DOMAIN s
        PROVE  s[i] \in Elems(p) \cup Elems(q)
    <3>1. CASE i \in 1..L
      BY <3>1, <1>1, <1>2 DEF Elems
    <3>2. CASE i - L \in 1..M /\ L + (i - L) = i
      <4>1. s[i] = q[i - L]
        BY <3>2, <1>2
      <4>. QED  BY <4>1, <3>2, <1>1 DEF Elems
    <3>. QED  BY <3>1, <3>2, <1>3
  <2>. QED  BY <2>1, <2>2 DEF Elems
<1>5. ASSUME Injective(p), Injective(q), Elems(p) \cap Elems(q) = {},
             NEW i \in DOMAIN s, NEW j \in DOMAIN s, s[i] = s[j]
      PROVE  i = j
  <2>1. CASE i \in 1..L /\ j \in 1..L
    BY <2>1, <1>1, <1>2, <1>5 DEF Injective
  <2>2. CASE i \in 1..L /\ j - L \in 1..M /\ L + (j - L) = j
    <3>1. s[i] = p[i] /\ s[j] = q[j - L]
      BY <2>2, <1>2
    <3>. QED  BY <3>1, <2>2, <1>1, <1>5 DEF Elems
  <2>3. CASE j \in 1..L /\ i - L \in 1..M /\ L + (i - L) = i
    <3>1. s[j] = p[j] /\ s[i] = q[i - L]
      BY <2>3, <1>2
    <3>. QED  BY <3>1, <2>3, <1>1, <1>5 DEF Elems
  <2>4. CASE i - L \in 1..M /\ L + (i - L) = i /\ j - L \in 1..M /\ L + (j - L) = j
    <3>1. s[i] = q[i - L] /\ s[j] = q[j - L]
      BY <2>4, <1>2
    <3>2. i - L = j - L
      BY <3>1, <2>4, <1>1, <1>5 DEF Injective
    <3>. QED  BY <3>2, <2>4
  <2>. QED  BY <2>1, <2>2, <2>3, <2>4, <1>3
<1>. QED  BY <1>1, <1>4, <1>5 DEF Injective, L, M, s

-----------------------------------------------------------------------------
(* The ring in order, and what the operations on it do to that.            *)

\* An operation is in at most one place of the ring, once.
RingInv ==
  /\ IsFiniteSet(kernel)
  /\ Injective(sq) /\ Injective(cq)
  /\ Elems(sq) \cap kernel = {}
  /\ Elems(sq) \cap Elems(cq) = {}
  /\ kernel \cap Elems(cq) = {}

\* A step that leaves the ring alone.
LEMMA SameOrder ==
  ASSUME RingType, RingInv, UNCHANGED ring
  PROVE  /\ RingType' /\ RingInv' /\ OnRing' = OnRing
         /\ sq' = sq /\ cq' = cq /\ kernel' = kernel
         /\ Elems(sq') = Elems(sq) /\ Elems(cq') = Elems(cq)
BY DEF RingType, RingInv, Injective, OnRing, Elems, ring

\* io_uring_submit of a queue of operations that are nowhere else keeps the
\* ring in order, however much of the queue the kernel consumes.
LEMMA SubmitOrder ==
  ASSUME RingType, RingInv, NEW q \in Seq(Ops), Injective(q),
         Elems(q) \cap kernel = {}, Elems(q) \cap Elems(cq) = {},
         NEW n \in 0..Len(q), uring_submit(q, n)
  PROVE  /\ RingType' /\ RingInv' /\ cq' = cq
         /\ OnRing' = Elems(q) \cup kernel \cup Elems(cq)
         /\ Len(sq') = Len(q) - n
         /\ Cardinality(kernel') = Cardinality(kernel) + n
<1> DEFINE taken == Consumed(q, n)
           rest  == Unconsumed(q, n)
<1>1. kernel' = kernel \cup taken /\ sq' = rest /\ pending' = 0 /\ cq' = cq
  BY DEF uring_submit, Consumed, Unconsumed
<1>2. /\ rest \in Seq(Ops) /\ Len(rest) = Len(q) - n /\ Injective(rest)
      /\ taken \cup Elems(rest) = Elems(q) /\ taken \cap Elems(rest) = {}
      /\ IsFiniteSet(taken) /\ Cardinality(taken) = n
  BY SplitElems
<1>3. Elems(q) \subseteq Ops
  BY ElemsType
<1> HIDE DEF taken, rest
<1>4. kernel \cap taken = {}
  BY <1>2
<1>5. IsFiniteSet(kernel') /\ Cardinality(kernel') = Cardinality(kernel) + n
  <2>1. /\ IsFiniteSet(kernel \cup taken)
        /\ Cardinality(kernel \cup taken)
             = Cardinality(kernel) + Cardinality(taken) - Cardinality(kernel \cap taken)
    BY <1>2, FS_Union DEF RingInv
  <2>2. Cardinality(kernel \cap taken) = 0
    BY <1>4, FS_EmptySet
  <2>3. Cardinality(kernel) \in Nat
    BY FS_CardinalityType DEF RingInv
  <2>. QED  BY <1>1, <1>2, <2>1, <2>2, <2>3
<1>6. RingInv'
  BY <1>1, <1>2, <1>5 DEF RingInv
<1>7. OnRing' = Elems(q) \cup kernel \cup Elems(cq)
  BY <1>1, <1>2 DEF OnRing
<1>8. RingType'
  BY <1>1, <1>2, <1>3 DEF RingType
<1>. QED  BY <1>1, <1>2, <1>5, <1>6, <1>7, <1>8

\* io_uring_get_sqe puts a new operation on the ring.
LEMMA GetSqeOrder ==
  ASSUME RingType, RingInv, NEW e \in Ops \ OnRing, get_sqe(e)
  PROVE  /\ RingType' /\ RingInv' /\ cq' = cq /\ kernel' = kernel
         /\ OnRing' = OnRing \cup {e}
         /\ Elems(sq') = Elems(sq) \cup {e} /\ Len(sq') = Len(sq) + 1
<1>1. /\ Append(sq, e) \in Seq(Ops) /\ Len(Append(sq, e)) = Len(sq) + 1
      /\ Elems(Append(sq, e)) = Elems(sq) \cup {e}
      /\ Injective(Append(sq, e))
  BY AppendElems DEF RingType, RingInv, OnRing
<1>2. sq' = Append(sq, e) /\ pending' = pending + 1 /\ kernel' = kernel /\ cq' = cq
  BY DEF get_sqe
<1>. QED  BY <1>1, <1>2 DEF RingType, RingInv, OnRing

\* A completion moves an operation from the kernel to the completion queue.
LEMMA CompleteOrder ==
  ASSUME RingType, RingInv, NEW e \in Ops, complete(e)
  PROVE  /\ RingType' /\ RingInv' /\ OnRing' = OnRing /\ sq' = sq
         /\ kernel' \cup Elems(cq') = kernel \cup Elems(cq)
         /\ Cardinality(kernel') = Cardinality(kernel) - 1 /\ Len(cq') = Len(cq) + 1
         /\ cq # <<>> => cq' # <<>> /\ Head(cq') = Head(cq)
<1>1. e \in kernel /\ kernel' = kernel \ {e} /\ cq' = Append(cq, e)
      /\ sq' = sq /\ pending' = pending
  BY DEF complete
<1>2. /\ Append(cq, e) \in Seq(Ops) /\ Len(Append(cq, e)) = Len(cq) + 1
      /\ Elems(Append(cq, e)) = Elems(cq) \cup {e}
      /\ Injective(Append(cq, e))
  BY <1>1, AppendElems DEF RingType, RingInv
<1>3. IsFiniteSet(kernel') /\ Cardinality(kernel') = Cardinality(kernel) - 1
  BY <1>1, FS_RemoveElement DEF RingInv
<1>4. RingInv'
  BY <1>1, <1>2, <1>3 DEF RingInv
<1>5. OnRing' = OnRing /\ kernel' \cup Elems(cq') = kernel \cup Elems(cq)
  BY <1>1, <1>2 DEF OnRing
<1>6. cq # <<>> => cq' # <<>> /\ Head(cq') = Head(cq)
  BY <1>1, AppendProperties, EmptySeq DEF RingType
<1>. QED  BY <1>1, <1>2, <1>3, <1>4, <1>5, <1>6 DEF RingType

\* io_uring_cqe_seen takes the oldest completion off the ring.
LEMMA SeenOrder ==
  ASSUME RingType, RingInv, cq # <<>>, cqe_seen
  PROVE  /\ RingType' /\ RingInv' /\ kernel' = kernel /\ sq' = sq
         /\ OnRing' = OnRing \ {Head(cq)}
         /\ Head(cq) \in Elems(cq) /\ Elems(cq') = Elems(cq) \ {Head(cq)}
         /\ Len(cq) \in Nat \ {0} /\ Len(cq') = Len(cq) - 1
<1>1. cq' = Tail(cq) /\ sq' = sq /\ pending' = pending /\ kernel' = kernel
  BY DEF cqe_seen
<1>2. /\ Head(cq) \in Elems(cq) /\ Tail(cq) \in Seq(Ops) /\ Len(Tail(cq)) = Len(cq) - 1
      /\ Elems(Tail(cq)) = Elems(cq) \ {Head(cq)} /\ Injective(Tail(cq))
  BY TailElems DEF RingType, RingInv
<1>3. RingInv'
  BY <1>1, <1>2 DEF RingInv
<1>4. Len(cq) \in Nat \ {0}
  BY EmptySeq DEF RingType
<1>5. OnRing' = OnRing \ {Head(cq)}
  BY <1>1, <1>2 DEF OnRing, RingInv
<1>. QED  BY <1>1, <1>2, <1>3, <1>4, <1>5 DEF RingType
=============================================================================
