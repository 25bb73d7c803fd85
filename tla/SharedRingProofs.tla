-------------------------- MODULE SharedRingProofs --------------------------
(***************************************************************************)
(* Machine-checked proofs about SharedRing, for every number of managers   *)
(* and descriptors and whatever Admit admits.                              *)
(*                                                                         *)
(* The unlocked read and write of ring_instances are one step in effect as *)
(* long as no other manager is between lock and return or dying, which the *)
(* mutex does not give but the absence of overlapping kills does.          *)
(***************************************************************************)
EXTENDS SharedRing, TLAPS, FiniteSetTheorems

-----------------------------------------------------------------------------
(* The inductive invariant.                                                *)

\* The managers that stand at one of the places S.
In(S) == {m \in Managers : pc[m] \in S}

Active  == Constructing \cup Exiting
WithRing == {"inc_read", "inc_write", "live"}
Counted  == {"live", "dec_read", "dec_write"}

\* init_mutex is held by the manager under construction, and by one only.
MutexInv == init_mutex = In(Constructing) /\ \A a, b \in init_mutex : a = b

\* Rings and managers correspond one to one.
RingsInv ==
  /\ open = {fd[m] : m \in In(WithRing)}
  /\ \A a, b \in In(WithRing) : fd[a] = fd[b] => a = b

NoOverlap == "kill_overlaps" \notin used

\* Without overlapping kills at most one manager is constructed or dies.
AloneInv == NoOverlap => \A a, b \in In(Active) : a = b

\* It has read the current count if it is going to write it, and the count is
\* the number of managers that have been added and not taken off.
CountInv ==
  NoOverlap => /\ ring_instances = Cardinality(In(Counted))
               /\ \A m \in In({"inc_write", "dec_write"}) : tmp[m] = ring_instances

\* In plain usage shared_ring_fd may be stale only while the last manager dies,
\* and no constructor that attaches has found it unset.
FdInv ==
  used = {} => /\ \/ shared_ring_fd \in open \cup {-1}
                  \/ open = {} /\ In(Exiting) # {}
               /\ In({"attach"}) # {} => shared_ring_fd # -1
               /\ In({"stale_fd"}) = {}

IInv == TypeOK /\ MutexInv /\ RingsInv /\ AloneInv /\ CountInv /\ FdInv

-----------------------------------------------------------------------------
(* Facts about the definitions.                                            *)

Places == Active \cup {"new", "live", "dead", "stale_fd", "no_ring"}

\* What the constants give.
LEMMA Constants ==
  /\ IsFiniteSet(Managers) /\ Fds \subseteq Nat \ {0} /\ -1 \notin Fds
  /\ Wrap \in Nat \ {0} /\ Wrap > Cardinality(Managers) /\ Cardinality(Managers) \in Nat
BY SharedAssumption, FS_CardinalityType

\* A manager that goes somewhere leaves the places it is not at any more.
LEMMA GotoIn ==
  ASSUME TypeOK, NEW m \in Managers, NEW l \in Places, Goto(m, l)
  PROVE  /\ pc' \in [Managers -> Places] /\ pc'[m] = l
         /\ \A o \in Managers \ {m} : pc'[o] = pc[o]
         /\ \A S : In(S)' = IF l \in S THEN In(S) \cup {m} ELSE In(S) \ {m}
         /\ \A S : (pc[m] \in S <=> l \in S) => In(S)' = In(S)
<1>1. pc \in [Managers -> Places] /\ pc' = [pc EXCEPT ![m] = l]
  BY DEF TypeOK, Places, Active, Goto
<1>. QED  BY <1>1 DEF In

\* Numbers of managers are less than Wrap.
LEMMA CountBound ==
  ASSUME NEW T, T \subseteq Managers
  PROVE  IsFiniteSet(T) /\ Cardinality(T) \in 0..(Wrap - 1)
<1>1. IsFiniteSet(T) /\ Cardinality(T) \in Nat /\ Cardinality(T) <= Cardinality(Managers)
  BY Constants, FS_Subset, FS_CardinalityType
<1>. QED  BY <1>1, Constants

\* What a usage of a step says of the history.
LEMMA RecordUsed ==
  ASSUME TypeOK, NEW us, Record(us)
  PROVE  /\ used' \subseteq Admit
         /\ NoOverlap' => NoOverlap /\ "kill_overlaps" \notin us
         /\ used' = {} => used = {} /\ us = {}
BY DEF TypeOK, Record, NoOverlap

\* There is one manager under construction.
LEMMA OneConstructing ==
  ASSUME IInv, NEW a \in Managers, NEW b \in Managers,
         pc[a] \in Constructing, pc[b] \in Constructing
  PROVE  a = b
BY DEF IInv, MutexInv, In

-----------------------------------------------------------------------------
(* Each action preserves the invariant.                                    *)

\* There are no rings at first.
LEMMA InitInv == Init => IInv
<1> SUFFICES ASSUME Init PROVE IInv
  OBVIOUS
<1>1. \A S : "new" \notin S => In(S) = {}
  BY DEF Init, In
<1>2. /\ In(Constructing) = {} /\ In(WithRing) = {} /\ In(Active) = {} /\ In(Counted) = {}
      /\ In({"inc_write", "dec_write"}) = {} /\ In({"attach"}) = {} /\ In({"stale_fd"}) = {}
  BY <1>1 DEF Constructing, WithRing, Active, Exiting, Counted
<1>3. TypeOK
  BY Constants DEF Init, TypeOK
<1>4. MutexInv /\ RingsInv /\ AloneInv
  BY <1>2 DEF Init, MutexInv, RingsInv, AloneInv
<1>5. CountInv
  BY <1>2, FS_EmptySet DEF Init, CountInv
<1>6. FdInv
  BY <1>2 DEF Init, FdInv
<1>. QED  BY <1>3, <1>4, <1>5, <1>6 DEF IInv

\* A step that changes nothing.
LEMMA StutterInv ==
  ASSUME IInv, UNCHANGED vars
  PROVE  IInv'
<1>1. \A S : In(S)' = In(S)
  BY DEF vars, In
<1>2. TypeOK'
  BY DEF IInv, TypeOK, vars
<1>3. MutexInv' /\ RingsInv'
  BY <1>1 DEF IInv, MutexInv, RingsInv, vars
<1>4. AloneInv' /\ CountInv' /\ FdInv'
  BY <1>1 DEF IInv, AloneInv, CountInv, FdInv, NoOverlap, vars
<1>. QED  BY <1>2, <1>3, <1>4 DEF IInv

\* The constructor gets the mutex.
LEMMA LockInv ==
  ASSUME IInv, NEW m \in Managers, lock(m)
  PROVE  IInv'
<1> DEFINE us == Uses(\E o \in Others(m) : pc[o] \in Exiting, "kill_overlaps")
<1>1. /\ pc[m] = "new" /\ init_mutex = {} /\ Record(us) /\ init_mutex' = init_mutex \cup {m}
      /\ Goto(m, "locked") /\ UNCHANGED <<shared_ring_fd, ring_instances, open, fd, tmp>>
  BY DEF lock, can_lock
<1>2. TypeOK /\ "locked" \in Places
  BY DEF IInv, Places, Active, Constructing
<1>3. /\ pc' \in [Managers -> Places] /\ pc'[m] = "locked"
      /\ \A o \in Managers \ {m} : pc'[o] = pc[o]
      /\ \A S : In(S)' = IF "locked" \in S THEN In(S) \cup {m} ELSE In(S) \ {m}
  BY <1>1, <1>2, GotoIn
<1>4. /\ used' \subseteq Admit
      /\ NoOverlap' => NoOverlap /\ "kill_overlaps" \notin us
      /\ used' = {} => used = {} /\ us = {}
  BY <1>1, <1>2, RecordUsed
<1>5. /\ In(Constructing)' = In(Constructing) \cup {m} /\ In(Active)' = In(Active) \cup {m}
      /\ In(WithRing)' = In(WithRing) /\ In(Counted)' = In(Counted) /\ In(Exiting)' = In(Exiting)
      /\ In({"inc_write", "dec_write"})' = In({"inc_write", "dec_write"})
      /\ In({"attach"})' = In({"attach"}) /\ In({"stale_fd"})' = In({"stale_fd"})
  BY <1>1, <1>3 DEF In, Constructing, Active, Exiting, WithRing, Counted
<1>6. In(Constructing) = {}
  BY <1>1 DEF IInv, MutexInv
<1>7. "kill_overlaps" \notin us => In(Exiting) = {}
  BY <1>1 DEF Uses, Others, In, Exiting
<1>8. TypeOK'
  BY <1>1, <1>2, <1>3, <1>4 DEF TypeOK, Places, Active
<1>9. MutexInv' /\ RingsInv'
  BY <1>1, <1>5, <1>6 DEF IInv, MutexInv, RingsInv
<1>10. AloneInv'
  <2>1. NoOverlap' => In(Active) = {}
    BY <1>4, <1>6, <1>7 DEF In, Active
  <2>. QED  BY <2>1, <1>5 DEF AloneInv
<1>11. CountInv'
  BY <1>1, <1>4, <1>5 DEF IInv, CountInv
<1>12. FdInv'
  BY <1>1, <1>4, <1>5 DEF IInv, FdInv
<1>. QED  BY <1>8, <1>9, <1>10, <1>11, <1>12 DEF IInv

\* The constructor looks at the statics.
LEMMA ChooseSetupInv ==
  ASSUME IInv, NEW m \in Managers, choose_setup(m)
  PROVE  IInv'
<1> DEFINE l == IF first_ring THEN "create" ELSE "attach"
<1>1. /\ pc[m] = "locked" /\ Goto(m, l)
      /\ UNCHANGED <<shared_ring_fd, ring_instances, init_mutex, open, fd, tmp, used>>
  BY DEF choose_setup
<1>2. TypeOK /\ l \in Places /\ l \in {"create", "attach"} /\ l \in Constructing
      /\ (l = "attach" => shared_ring_fd # -1)
  BY DEF IInv, Places, Active, Constructing, first_ring
<1> HIDE DEF l
<1>3. /\ pc' \in [Managers -> Places] /\ pc'[m] = l
      /\ \A S : In(S)' = IF l \in S THEN In(S) \cup {m} ELSE In(S) \ {m}
      /\ \A S : (pc[m] \in S <=> l \in S) => In(S)' = In(S)
  BY <1>1, <1>2, GotoIn
<1>4. /\ In(Constructing)' = In(Constructing) /\ In(Active)' = In(Active)
      /\ In(WithRing)' = In(WithRing) /\ In(Counted)' = In(Counted) /\ In(Exiting)' = In(Exiting)
      /\ In({"inc_write", "dec_write"})' = In({"inc_write", "dec_write"})
      /\ In({"stale_fd"})' = In({"stale_fd"})
  BY <1>1, <1>2, <1>3 DEF Constructing, Active, Exiting, WithRing, Counted
<1>5. In({"attach"})' # {} => shared_ring_fd # -1
  <2>1. In({"attach"}) = {}
    BY <1>1, OneConstructing DEF In, Constructing
  <2>. QED  BY <2>1, <1>2, <1>3
<1>6. TypeOK'
  BY <1>1, <1>2, <1>3 DEF TypeOK, Places, Active
<1>7. MutexInv' /\ RingsInv' /\ AloneInv' /\ CountInv'
  BY <1>1, <1>4 DEF IInv, MutexInv, RingsInv, AloneInv, CountInv, NoOverlap
<1>8. FdInv'
  BY <1>1, <1>4, <1>5 DEF IInv, FdInv
<1>. QED  BY <1>6, <1>7, <1>8 DEF IInv

\* A new ring has a descriptor of its own.
LEMMA NewRingInv ==
  ASSUME IInv, NEW m \in Managers, pc[m] \in {"create", "attach"},
         NewRing(m), Goto(m, "inc_read")
  PROVE  /\ RingsInv' /\ open' \subseteq Fds /\ fd' \in [Managers -> Fds \cup {-1}]
         /\ fd'[m] \in open' /\ open \subseteq open'
<1>1. PICK f \in Fds \ open : open' = open \cup {f} /\ fd' = [fd EXCEPT ![m] = f]
  BY DEF NewRing
<1>2. TypeOK /\ "inc_read" \in Places
  BY DEF IInv, Places, Active, Constructing
<1>3. In(WithRing)' = In(WithRing) \cup {m} /\ m \notin In(WithRing)
  BY <1>2, GotoIn DEF In, WithRing
<1>4. /\ open \subseteq Fds /\ fd \in [Managers -> Fds \cup {-1}]
      /\ open = {fd[a] : a \in In(WithRing)}
      /\ \A a, b \in In(WithRing) : fd[a] = fd[b] => a = b
      /\ In(WithRing) \subseteq Managers
  BY DEF IInv, TypeOK, RingsInv, In
<1>5. fd'[m] = f /\ \A a \in In(WithRing) : fd'[a] = fd[a] /\ fd'[a] \in open
  BY <1>1, <1>3, <1>4
<1>6. open' = {fd'[a] : a \in In(WithRing)'}
  BY <1>1, <1>3, <1>4, <1>5
<1>7. \A a, b \in In(WithRing)' : fd'[a] = fd'[b] => a = b
  BY <1>3, <1>4, <1>5
<1>. QED  BY <1>1, <1>4, <1>5, <1>6, <1>7 DEF RingsInv

\* The constructor gets its ring, a first one or one that is attached.
LEMMA RingMadeInv ==
  ASSUME IInv, NEW m \in Managers, pc[m] \in {"create", "attach"},
         NewRing(m), Goto(m, "inc_read"), shared_ring_fd' \in {shared_ring_fd, fd'[m]},
         UNCHANGED <<ring_instances, init_mutex, tmp, used>>
  PROVE  IInv'
<1>1. TypeOK /\ "inc_read" \in Places
  BY DEF IInv, Places, Active, Constructing
<1>2. /\ RingsInv' /\ open' \subseteq Fds /\ fd' \in [Managers -> Fds \cup {-1}]
      /\ fd'[m] \in open' /\ open \subseteq open'
  BY NewRingInv
<1>3. /\ pc' \in [Managers -> Places]
      /\ \A S : In(S)' = IF "inc_read" \in S THEN In(S) \cup {m} ELSE In(S) \ {m}
      /\ \A S : (pc[m] \in S <=> "inc_read" \in S) => In(S)' = In(S)
  BY <1>1, GotoIn
<1>4. /\ In(Constructing)' = In(Constructing) /\ In(Active)' = In(Active)
      /\ In(Counted)' = In(Counted)
      /\ In({"inc_write", "dec_write"})' = In({"inc_write", "dec_write"})
      /\ In({"stale_fd"})' = In({"stale_fd"}) /\ In({"attach"})' = In({"attach"}) \ {m}
  BY <1>3 DEF Constructing, Active, Exiting, Counted
<1>5. TypeOK'
  <2>1. shared_ring_fd' \in Fds \cup {-1}
    BY <1>1, <1>2 DEF TypeOK
  <2>. QED  BY <2>1, <1>1, <1>2, <1>3 DEF TypeOK, Places, Active
<1>6. MutexInv' /\ AloneInv' /\ CountInv'
  BY <1>4 DEF IInv, MutexInv, AloneInv, CountInv, NoOverlap
<1>7. FdInv'
  <2> SUFFICES ASSUME used = {}
               PROVE  /\ shared_ring_fd' \in open' \cup {-1}
                      /\ In({"attach"})' = {} /\ In({"stale_fd"})' = {}
    BY DEF FdInv
  <2>1. In(Exiting) = {}
    <3>1. m \in In(Active) /\ m \notin In(Exiting) /\ In(Exiting) \subseteq In(Active)
      BY DEF In, Active, Constructing, Exiting
    <3>. QED  BY <3>1 DEF IInv, AloneInv, NoOverlap
  <2>2. In({"attach"})' = {}
    BY <1>4, OneConstructing DEF In, Constructing
  <2>. QED  BY <2>1, <2>2, <1>2, <1>4 DEF IInv, FdInv
<1>. QED  BY <1>2, <1>5, <1>6, <1>7 DEF IInv

\* Without overlapping kills, nobody dies while a ring is set up, and in plain
\* usage there is then a ring to attach to.
LEMMA AttachValid ==
  ASSUME IInv, NEW m \in Managers, pc[m] = "attach", used = {}
  PROVE  shared_ring_fd \in open
<1>1. m \in In(Active) /\ m \notin In(Exiting) /\ In(Exiting) \subseteq In(Active)
      /\ m \in In({"attach"})
  BY DEF In, Active, Constructing, Exiting
<1>2. In(Exiting) = {}
  BY <1>1 DEF IInv, AloneInv, NoOverlap
<1>. QED  BY <1>1, <1>2 DEF IInv, FdInv

\* The constructor gives up, and the mutex is released.
LEMMA SetupFailsInv ==
  ASSUME IInv, NEW m \in Managers, setup_fails(m)
  PROVE  IInv'
<1>1. PICK l \in {"stale_fd", "no_ring"} :
        Goto(m, l) /\ (l = "stale_fd" => pc[m] = "attach" /\ shared_ring_fd \notin open)
  BY DEF setup_fails
<1>2. /\ pc[m] \in {"create", "attach"} /\ init_mutex' = init_mutex \ {m}
      /\ UNCHANGED <<shared_ring_fd, ring_instances, open, fd, tmp, used>>
  BY DEF setup_fails, unlocked_on_error
<1>3. TypeOK /\ l \in Places
  BY DEF IInv, Places
<1>4. /\ pc' \in [Managers -> Places]
      /\ \A S : In(S)' = IF l \in S THEN In(S) \cup {m} ELSE In(S) \ {m}
      /\ \A S : (pc[m] \in S <=> l \in S) => In(S)' = In(S)
  BY <1>1, <1>3, GotoIn
<1>5. /\ In(Constructing)' = In(Constructing) \ {m} /\ In(Active)' = In(Active) \ {m}
      /\ In({"attach"})' = In({"attach"}) \ {m}
  BY <1>4 DEF Constructing, Active, Exiting
<1>6. /\ In(WithRing)' = In(WithRing) /\ In(Counted)' = In(Counted) /\ In(Exiting)' = In(Exiting)
      /\ In({"inc_write", "dec_write"})' = In({"inc_write", "dec_write"})
  BY <1>2, <1>4 DEF WithRing, Counted, Exiting
<1>7. used = {} => In({"stale_fd"})' = In({"stale_fd"})
  <2>1. used = {} => l # "stale_fd"
    BY <1>1, AttachValid
  <2>. QED  BY <2>1, <1>2, <1>4
<1>8. TypeOK'
  BY <1>2, <1>3, <1>4 DEF TypeOK, Places, Active
<1>9. MutexInv' /\ RingsInv' /\ AloneInv' /\ CountInv'
  BY <1>2, <1>5, <1>6 DEF IInv, MutexInv, RingsInv, AloneInv, CountInv, NoOverlap
<1>10. FdInv'
  BY <1>2, <1>5, <1>6, <1>7 DEF IInv, FdInv
<1>. QED  BY <1>8, <1>9, <1>10 DEF IInv

\* The first half of ring_instances++ and of ring_instances--: the number read
\* is the current one.
LEMMA ReadInv ==
  ASSUME IInv, NEW m \in Managers, NEW l,
         \/ pc[m] = "inc_read" /\ l = "inc_write"
         \/ pc[m] = "dec_read" /\ l = "dec_write",
         tmp' = [tmp EXCEPT ![m] = ring_instances], Goto(m, l),
         UNCHANGED <<shared_ring_fd, ring_instances, init_mutex, open, fd, used>>
  PROVE  IInv'
<1>1. TypeOK /\ l \in Places
  BY DEF IInv, Places, Active, Constructing, Exiting
<1>2. /\ pc' \in [Managers -> Places]
      /\ \A S : In(S)' = IF l \in S THEN In(S) \cup {m} ELSE In(S) \ {m}
      /\ \A S : (pc[m] \in S <=> l \in S) => In(S)' = In(S)
  BY <1>1, GotoIn
<1>3. /\ In(Constructing)' = In(Constructing) /\ In(Active)' = In(Active)
      /\ In(WithRing)' = In(WithRing) /\ In(Counted)' = In(Counted) /\ In(Exiting)' = In(Exiting)
      /\ In({"attach"})' = In({"attach"}) /\ In({"stale_fd"})' = In({"stale_fd"})
  BY <1>2 DEF Constructing, Active, Exiting, WithRing, Counted
<1>4. In({"inc_write", "dec_write"})' = In({"inc_write", "dec_write"}) \cup {m}
  BY <1>2
<1>5. TypeOK'
  BY <1>1, <1>2 DEF TypeOK, Places, Active
<1>6. MutexInv' /\ RingsInv' /\ AloneInv' /\ FdInv'
  BY <1>3 DEF IInv, MutexInv, RingsInv, AloneInv, NoOverlap, FdInv
<1>7. CountInv'
  <2>1. tmp'[m] = ring_instances /\ \A o \in Managers \ {m} : tmp'[o] = tmp[o]
    BY <1>1 DEF TypeOK
  <2>2. In({"inc_write", "dec_write"}) \subseteq Managers
    BY DEF In
  <2>. QED  BY <2>1, <2>2, <1>3, <1>4 DEF IInv, CountInv, NoOverlap
<1>. QED  BY <1>5, <1>6, <1>7 DEF IInv

\* Nobody else is between reading and writing the count.
LEMMA OneWriter ==
  ASSUME IInv, NoOverlap, NEW m \in In({"inc_write", "dec_write"})
  PROVE  In({"inc_write", "dec_write"}) = {m}
<1>1. In({"inc_write", "dec_write"}) \subseteq In(Active)
  BY DEF In, Active, Constructing, Exiting
<1>. QED  BY <1>1 DEF IInv, AloneInv

\* The second half of ring_instances++, with which the constructor returns.
LEMMA IncWriteInv ==
  ASSUME IInv, NEW m \in Managers, inc_write(m)
  PROVE  IInv'
<1>1. /\ pc[m] = "inc_write" /\ ring_instances' = (tmp[m] + 1) % Wrap
      /\ init_mutex' = init_mutex \ {m} /\ Goto(m, "live")
      /\ UNCHANGED <<shared_ring_fd, open, fd, tmp, used>>
  BY DEF inc_write
<1>2. TypeOK /\ "live" \in Places /\ tmp[m] \in 0..(Wrap - 1)
  BY DEF IInv, TypeOK, Places
<1>3. /\ pc' \in [Managers -> Places]
      /\ \A S : In(S)' = IF "live" \in S THEN In(S) \cup {m} ELSE In(S) \ {m}
      /\ \A S : (pc[m] \in S <=> "live" \in S) => In(S)' = In(S)
  BY <1>1, <1>2, GotoIn
<1>4. /\ In(Constructing)' = In(Constructing) \ {m} /\ In(Active)' = In(Active) \ {m}
      /\ In(Counted)' = In(Counted) \cup {m} /\ In(WithRing)' = In(WithRing)
      /\ In(Exiting)' = In(Exiting)
      /\ In({"inc_write", "dec_write"})' = In({"inc_write", "dec_write"}) \ {m}
      /\ In({"attach"})' = In({"attach"}) /\ In({"stale_fd"})' = In({"stale_fd"})
  BY <1>1, <1>3 DEF Constructing, Active, Exiting, WithRing, Counted
<1>5. TypeOK'
  <2>1. ring_instances' \in 0..(Wrap - 1)
    BY <1>1, <1>2, Constants
  <2>. QED  BY <2>1, <1>1, <1>2, <1>3 DEF TypeOK, Places, Active
<1>6. MutexInv' /\ RingsInv' /\ AloneInv' /\ FdInv'
  BY <1>1, <1>4 DEF IInv, MutexInv, RingsInv, AloneInv, NoOverlap, FdInv
<1>7. CountInv'
  <2> SUFFICES ASSUME NoOverlap
               PROVE  /\ ring_instances' = Cardinality(In(Counted)')
                      /\ In({"inc_write", "dec_write"})' = {}
    BY <1>1 DEF CountInv, NoOverlap
  <2>1. m \in In({"inc_write", "dec_write"}) /\ m \notin In(Counted)
        /\ In(Counted) \subseteq Managers
    BY <1>1 DEF In, Counted
  <2>2. ring_instances = Cardinality(In(Counted)) /\ tmp[m] = ring_instances
    BY <2>1 DEF IInv, CountInv
  <2>3. IsFiniteSet(In(Counted)) /\ Cardinality(In(Counted)) \in 0..(Wrap - 1)
        /\ Cardinality(In(Counted) \cup {m}) \in 0..(Wrap - 1)
    BY <2>1, CountBound
  <2>4. Cardinality(In(Counted) \cup {m}) = Cardinality(In(Counted)) + 1
    BY <2>1, <2>3, FS_AddElement
  <2>5. (tmp[m] + 1) % Wrap = tmp[m] + 1
    BY <2>2, <2>3, <2>4, Constants
  <2>. QED  BY <2>1, <2>2, <2>4, <2>5, <1>1, <1>4, OneWriter
<1>. QED  BY <1>5, <1>6, <1>7 DEF IInv

\* A dying manager's ring is gone.  If it is the shared one, in plain usage it
\* was the last.
LEMMA QueueExitInv ==
  ASSUME IInv, NEW m \in Managers, queue_exit(m)
  PROVE  IInv'
<1> DEFINE us == Uses(\E o \in Others(m) : pc[o] \in Constructing \cup Exiting, "kill_overlaps")
                 \cup Uses(fd[m] = shared_ring_fd /\ \E o \in Others(m) : pc[o] = "live",
                           "owner_dies_first")
<1>1. /\ pc[m] = "live" /\ Record(us) /\ open' = open \ {fd[m]} /\ Goto(m, "dec_read")
      /\ UNCHANGED <<shared_ring_fd, ring_instances, init_mutex, fd, tmp>>
  BY DEF queue_exit
<1>2. TypeOK /\ "dec_read" \in Places
  BY DEF IInv, Places, Active, Exiting
<1>3. /\ used' \subseteq Admit
      /\ NoOverlap' => NoOverlap /\ "kill_overlaps" \notin us
      /\ used' = {} => used = {} /\ us = {}
  BY <1>1, <1>2, RecordUsed
<1>4. "kill_overlaps" \notin us => In(Active) = {}
  BY <1>1 DEF Uses, Others, In, Active, Constructing, Exiting
<1>5. us = {} => (fd[m] = shared_ring_fd => In({"live"}) = {m})
  BY <1>1 DEF Uses, Others, In
<1> HIDE DEF us
<1>6. /\ pc' \in [Managers -> Places]
      /\ \A S : In(S)' = IF "dec_read" \in S THEN In(S) \cup {m} ELSE In(S) \ {m}
      /\ \A S : (pc[m] \in S <=> "dec_read" \in S) => In(S)' = In(S)
  BY <1>1, <1>2, GotoIn
<1>7. /\ In(Constructing)' = In(Constructing) /\ In(Active)' = In(Active) \cup {m}
      /\ In(Exiting)' = In(Exiting) \cup {m}
      /\ In(Counted)' = In(Counted) /\ In(WithRing)' = In(WithRing) \ {m}
      /\ In({"inc_write", "dec_write"})' = In({"inc_write", "dec_write"})
      /\ In({"attach"})' = In({"attach"}) /\ In({"stale_fd"})' = In({"stale_fd"})
  BY <1>1, <1>6 DEF Constructing, Active, Exiting, WithRing, Counted
<1>8. m \in In(WithRing)
  BY <1>1 DEF In, WithRing
<1>9. TypeOK'
  BY <1>1, <1>2, <1>3, <1>6 DEF TypeOK, Places, Active
<1>10. MutexInv'
  BY <1>1, <1>7 DEF IInv, MutexInv
<1>11. RingsInv'
  BY <1>1, <1>7, <1>8 DEF IInv, RingsInv
<1>12. AloneInv'
  BY <1>3, <1>4, <1>7 DEF AloneInv
<1>13. CountInv'
  BY <1>1, <1>3, <1>7 DEF IInv, CountInv
<1>14. FdInv'
  <2> SUFFICES ASSUME used' = {}
               PROVE  /\ \/ shared_ring_fd \in open' \cup {-1}
                         \/ open' = {} /\ In(Exiting)' # {}
                      /\ In({"attach"}) # {} => shared_ring_fd # -1
                      /\ In({"stale_fd"}) = {}
    BY <1>1, <1>7 DEF FdInv
  <2>1. used = {} /\ us = {} /\ In(Active) = {}
    BY <1>3, <1>4
  <2>2. In(Exiting) = {}
    BY <2>1 DEF In, Active
  <2>3. shared_ring_fd \in open \cup {-1}
    BY <2>1, <2>2 DEF IInv, FdInv
  <2>4. CASE shared_ring_fd # fd[m]
    BY <2>1, <2>3, <2>4, <1>1 DEF IInv, FdInv
  <2>5. CASE shared_ring_fd = fd[m]
    <3>1. In({"live"}) = {m}
      BY <2>1, <2>5, <1>5
    <3>2. In(WithRing) \subseteq In(Active) \cup In({"live"})
      BY DEF In, WithRing, Active, Constructing
    <3>3. In(WithRing)' = {}
      BY <3>1, <3>2, <2>1, <1>7
    <3>4. open' = {}
      BY <3>3, <1>11 DEF RingsInv
    <3>. QED  BY <3>4, <2>1, <1>7 DEF IInv, FdInv
  <2>. QED  BY <2>4, <2>5
<1>. QED  BY <1>9, <1>10, <1>11, <1>12, <1>13, <1>14 DEF IInv

\* The second half of ring_instances--.
LEMMA DecWriteInv ==
  ASSUME IInv, NEW m \in Managers, dec_write(m)
  PROVE  IInv'
<1>1. /\ pc[m] = "dec_write" /\ ring_instances' = (tmp[m] - 1) % Wrap /\ Goto(m, "test")
      /\ UNCHANGED <<shared_ring_fd, init_mutex, open, fd, tmp, used>>
  BY DEF dec_write
<1>2. TypeOK /\ "test" \in Places /\ tmp[m] \in 0..(Wrap - 1)
  BY DEF IInv, TypeOK, Places, Active, Exiting
<1>3. /\ pc' \in [Managers -> Places]
      /\ \A S : In(S)' = IF "test" \in S THEN In(S) \cup {m} ELSE In(S) \ {m}
      /\ \A S : (pc[m] \in S <=> "test" \in S) => In(S)' = In(S)
  BY <1>1, <1>2, GotoIn
<1>4. /\ In(Constructing)' = In(Constructing) /\ In(Active)' = In(Active)
      /\ In(Counted)' = In(Counted) \ {m} /\ In(WithRing)' = In(WithRing)
      /\ In(Exiting)' = In(Exiting)
      /\ In({"inc_write", "dec_write"})' = In({"inc_write", "dec_write"}) \ {m}
      /\ In({"attach"})' = In({"attach"}) /\ In({"stale_fd"})' = In({"stale_fd"})
  BY <1>1, <1>3 DEF Constructing, Active, Exiting, WithRing, Counted
<1>5. TypeOK'
  <2>1. ring_instances' \in 0..(Wrap - 1)
    BY <1>1, <1>2, Constants
  <2>. QED  BY <2>1, <1>1, <1>2, <1>3 DEF TypeOK, Places, Active
<1>6. MutexInv' /\ RingsInv' /\ AloneInv' /\ FdInv'
  BY <1>1, <1>4 DEF IInv, MutexInv, RingsInv, AloneInv, NoOverlap, FdInv
<1>7. CountInv'
  <2> SUFFICES ASSUME NoOverlap
               PROVE  /\ ring_instances' = Cardinality(In(Counted)')
                      /\ In({"inc_write", "dec_write"})' = {}
    BY <1>1 DEF CountInv, NoOverlap
  <2>1. m \in In({"inc_write", "dec_write"}) /\ m \in In(Counted)
        /\ In(Counted) \subseteq Managers
    BY <1>1 DEF In, Counted
  <2>2. ring_instances = Cardinality(In(Counted)) /\ tmp[m] = ring_instances
    BY <2>1 DEF IInv, CountInv
  <2>3. IsFiniteSet(In(Counted)) /\ Cardinality(In(Counted)) \in 0..(Wrap - 1)
        /\ Cardinality(In(Counted) \ {m}) \in 0..(Wrap - 1)
    BY <2>1, CountBound
  <2>4. Cardinality(In(Counted) \ {m}) = Cardinality(In(Counted)) - 1
    BY <2>1, <2>3, FS_RemoveElement
  <2>5. (tmp[m] - 1) % Wrap = tmp[m] - 1
    BY <2>2, <2>3, <2>4, Constants
  <2>. QED  BY <2>1, <2>2, <2>4, <2>5, <1>1, <1>4, OneWriter
<1>. QED  BY <1>5, <1>6, <1>7 DEF IInv

\* In plain usage kill_internal finds a count other than 0 only if
\* shared_ring_fd is not stale, for a constructor that attaches is not under way.
LEMMA CountTells ==
  ASSUME IInv, NEW m \in Managers, pc[m] \in {"test", "reset"}, used = {}
  PROVE  /\ In({"attach"}) = {} /\ In({"stale_fd"}) = {}
         /\ ring_instances # 0 => shared_ring_fd \in open \cup {-1}
<1>1. m \in In(Active) /\ m \notin In({"attach"}) /\ In({"attach"}) \subseteq In(Active)
      /\ \A a, b \in In(Active) : a = b
  BY DEF IInv, AloneInv, NoOverlap, In, Active, Constructing, Exiting
<1>2. In({"attach"}) = {}
  BY <1>1
<1>3. CASE open = {}
  <2>1. In(WithRing) = {}
    BY <1>3 DEF IInv, RingsInv
  <2>2. In(Counted) = {}
    <3>1. In(Counted) \subseteq In(WithRing) \cup (In(Active) \ {m})
      BY DEF In, Counted, WithRing, Active, Exiting
    <3>. QED  BY <3>1, <2>1, <1>1
  <2>3. ring_instances = 0
    BY <2>2, FS_EmptySet DEF IInv, CountInv, NoOverlap
  <2>. QED  BY <2>3, <1>2 DEF IInv, FdInv
<1>. QED  BY <1>2, <1>3 DEF IInv, FdInv

\* kill_internal leaves shared_ring_fd to the rings that are left.
LEMMA TestLastInv ==
  ASSUME IInv, NEW m \in Managers, test_last(m)
  PROVE  IInv'
<1> DEFINE l == IF ring_instances = 0 THEN "reset" ELSE "dead"
<1>1. /\ pc[m] = "test" /\ Goto(m, l)
      /\ UNCHANGED <<shared_ring_fd, ring_instances, init_mutex, open, fd, tmp, used>>
  BY DEF test_last, last_ring
<1>2. TypeOK /\ l \in Places /\ l \in {"reset", "dead"} /\ (l = "dead" => ring_instances # 0)
  BY DEF IInv, Places, Active, Exiting
<1> HIDE DEF l
<1>3. /\ pc' \in [Managers -> Places]
      /\ \A S : In(S)' = IF l \in S THEN In(S) \cup {m} ELSE In(S) \ {m}
      /\ \A S : (pc[m] \in S <=> l \in S) => In(S)' = In(S)
  BY <1>1, <1>2, GotoIn
<1>4. /\ In(Constructing)' = In(Constructing) /\ In(Active)' \subseteq In(Active)
      /\ In(Counted)' = In(Counted) /\ In(WithRing)' = In(WithRing)
      /\ In({"inc_write", "dec_write"})' = In({"inc_write", "dec_write"})
      /\ In({"attach"})' = In({"attach"}) /\ In({"stale_fd"})' = In({"stale_fd"})
      /\ l = "reset" => In(Exiting)' = In(Exiting)
  <2>1. \A S \in {Constructing, Counted, WithRing, {"inc_write", "dec_write"}, {"attach"},
                   {"stale_fd"}} : "test" \notin S /\ l \notin S
    BY <1>2 DEF Constructing, WithRing, Counted
  <2>2. m \in In(Active) /\ "test" \in Exiting /\ "reset" \in Exiting
    BY <1>1 DEF In, Active, Exiting
  <2>. QED  BY <2>1, <2>2, <1>1, <1>3
<1>5. TypeOK'
  BY <1>1, <1>2, <1>3 DEF TypeOK, Places, Active
<1>6. MutexInv' /\ RingsInv' /\ AloneInv' /\ CountInv'
  BY <1>1, <1>4 DEF IInv, MutexInv, RingsInv, AloneInv, CountInv, NoOverlap
<1>7. FdInv'
  <2>1. CASE l = "reset"
    BY <2>1, <1>1, <1>4 DEF IInv, FdInv
  <2>2. CASE l = "dead"
    <3>1. used = {} => /\ In({"attach"}) = {} /\ In({"stale_fd"}) = {}
                       /\ shared_ring_fd \in open \cup {-1}
      BY <2>2, <1>1, <1>2, CountTells
    <3>. QED  BY <3>1, <1>1, <1>4 DEF FdInv
  <2>. QED  BY <2>1, <2>2, <1>2
<1>. QED  BY <1>5, <1>6, <1>7 DEF IInv

\* The last manager that dies resets shared_ring_fd.
LEMMA ResetInv ==
  ASSUME IInv, NEW m \in Managers, reset(m)
  PROVE  IInv'
<1>1. /\ pc[m] = "reset" /\ Goto(m, "dead") /\ shared_ring_fd' = -1
      /\ UNCHANGED <<ring_instances, init_mutex, open, fd, tmp, used>>
  BY DEF reset, NoFd
<1>2. TypeOK /\ "dead" \in Places
  BY DEF IInv, Places
<1>3. /\ pc' \in [Managers -> Places]
      /\ \A S : In(S)' = IF "dead" \in S THEN In(S) \cup {m} ELSE In(S) \ {m}
      /\ \A S : (pc[m] \in S <=> "dead" \in S) => In(S)' = In(S)
  BY <1>1, <1>2, GotoIn
<1>4. /\ In(Constructing)' = In(Constructing) /\ In(Active)' = In(Active) \ {m}
      /\ In(Counted)' = In(Counted) /\ In(WithRing)' = In(WithRing)
      /\ In({"inc_write", "dec_write"})' = In({"inc_write", "dec_write"})
      /\ In({"attach"})' = In({"attach"}) /\ In({"stale_fd"})' = In({"stale_fd"})
  BY <1>1, <1>3 DEF Constructing, Active, Exiting, WithRing, Counted
<1>5. TypeOK'
  BY <1>1, <1>2, <1>3 DEF TypeOK, Places, Active
<1>6. MutexInv' /\ RingsInv' /\ AloneInv' /\ CountInv'
  BY <1>1, <1>4 DEF IInv, MutexInv, RingsInv, AloneInv, CountInv, NoOverlap
<1>7. FdInv'
  <2>1. used = {} => In({"attach"}) = {} /\ In({"stale_fd"}) = {}
    BY <1>1, CountTells
  <2>. QED  BY <2>1, <1>1, <1>4 DEF FdInv
<1>. QED  BY <1>5, <1>6, <1>7 DEF IInv

\* IInv is an invariant.
LEMMA Invariance == Spec => []IInv
<1>1. ASSUME IInv, [Next]_vars
      PROVE  IInv'
  <2>1. ASSUME NEW m \in Managers, Construct(m)
        PROVE  IInv'
    <3>1. CASE lock(m)
      BY <1>1, <3>1, LockInv
    <3>2. CASE choose_setup(m)
      BY <1>1, <3>2, ChooseSetupInv
    <3>3. CASE create(m)
      BY <1>1, <3>3, RingMadeInv DEF create
    <3>4. CASE attach(m)
      BY <1>1, <3>4, RingMadeInv DEF attach
    <3>5. CASE setup_fails(m)
      BY <1>1, <3>5, SetupFailsInv
    <3>6. CASE inc_read(m)
      BY <1>1, <3>6, ReadInv DEF inc_read
    <3>7. CASE inc_write(m)
      BY <1>1, <3>7, IncWriteInv
    <3>. QED  BY <2>1, <3>1, <3>2, <3>3, <3>4, <3>5, <3>6, <3>7 DEF Construct
  <2>2. ASSUME NEW m \in Managers, Exit(m)
        PROVE  IInv'
    <3>1. CASE queue_exit(m)
      BY <1>1, <3>1, QueueExitInv
    <3>2. CASE dec_read(m)
      BY <1>1, <3>2, ReadInv DEF dec_read
    <3>3. CASE dec_write(m)
      BY <1>1, <3>3, DecWriteInv
    <3>4. CASE test_last(m)
      BY <1>1, <3>4, TestLastInv
    <3>5. CASE reset(m)
      BY <1>1, <3>5, ResetInv
    <3>. QED  BY <2>2, <3>1, <3>2, <3>3, <3>4, <3>5 DEF Exit
  <2>3. CASE UNCHANGED vars
    BY <1>1, <2>3, StutterInv
  <2>. QED  BY <1>1, <2>1, <2>2, <2>3 DEF Next
<1>. QED  BY InitInv, <1>1, PTL DEF Spec

-----------------------------------------------------------------------------
(* The theorems.                                                           *)

\* The statics always have their types, whatever races on them.
THEOREM TypeCorrect == Spec => []TypeOK
<1>1. IInv => TypeOK
  BY DEF IInv
<1>. QED  BY <1>1, Invariance, PTL

\* Between calls the count is the number of open rings: exactly the live
\* managers are counted, and their descriptors differ.
LEMMA CountIsOpen == IInv => InstancesExact
<1> SUFFICES ASSUME IInv, Quiescent, NoOverlap
             PROVE  ring_instances = Cardinality(open)
  BY DEF InstancesExact, NoOverlap
<1> DEFINE live == In({"live"})
<1>1. In(WithRing) = live /\ In(Counted) = live /\ live \subseteq Managers
  BY DEF Quiescent, In, WithRing, Counted, Constructing, Exiting
<1>2. open = {fd[m] : m \in live} /\ \A a, b \in live : fd[a] = fd[b] => a = b
  BY <1>1 DEF IInv, RingsInv
<1>3. IsFiniteSet(live)
  BY <1>1, CountBound
<1> HIDE DEF live
<1>4. Cardinality(open) = Cardinality(live)
  <2> DEFINE f == [m \in live |-> fd[m]]
  <2>1. f \in Surjection(live, open)
    BY <1>2 DEF Surjection
  <2>2. f \in Injection(live, open)
    BY <1>2 DEF Injection, IsInjective
  <2> HIDE DEF f
  <2>. QED  BY <2>1, <2>2, <1>3, FS_Surjection
<1>. QED  BY <1>1, <1>4 DEF IInv, CountInv

\* ring_instances counts the rings, whoever dies in which order, if no kill
\* overlaps another manager's constructor or kill.
THEOREM InstancesCorrect == Spec => []InstancesExact
BY CountIsOpen, Invariance, PTL

\* In plain usage shared_ring_fd is a ring that exists or -1.
THEOREM SharedFdCorrect == Spec => []SharedFdValid
<1>1. IInv => SharedFdValid
  BY DEF IInv, FdInv, SharedFdValid, Quiescent, In
<1>. QED  BY <1>1, Invariance, PTL

\* In plain usage no constructor attaches to a ring that is gone.
THEOREM AttachCorrect == Spec => []PlainAttach
<1>1. IInv => PlainAttach
  BY DEF IInv, FdInv, PlainAttach, In
<1>. QED  BY <1>1, Invariance, PTL
=============================================================================
