----------------------------- MODULE SharedRing -----------------------------
(***************************************************************************)
(* The statics that the EventManagers of all threads share                 *)
(* (event_loop/core.cpp): shared_ring_fd, the ring whose worker pool new   *)
(* rings attach to, and ring_instances, the number of rings.  Constructors *)
(* take init_mutex; the end of kill_internal, which changes both as well,  *)
(* does not.                                                               *)
(*                                                                         *)
(* One manager per thread.  An increment or decrement of ring_instances is *)
(* a read and a write, and the test for the last ring and the reset of     *)
(* shared_ring_fd are two steps more; the unlocked ones race with          *)
(* everything else, which in C++ is undefined and on the machine an        *)
(* interleaving of these.                                                  *)
(***************************************************************************)
EXTENDS Integers, FiniteSets

CONSTANTS
  Managers,  \* the managers the program constructs
  Fds,       \* file descriptors the kernel may give to a ring
  Wrap,      \* ring_instances is unsigned: it is counted modulo Wrap
  Admit      \* usage beyond the plain one

\* The usages Admit may switch on.
Usages == {
  "kill_overlaps",      \* a manager dies while another is constructed or dies
  "owner_dies_first" }  \* the ring that others are attached to dies before them

ASSUME SharedAssumption ==
  /\ IsFiniteSet(Managers) /\ IsFiniteSet(Fds) /\ Fds \subseteq Nat \ {0}
  /\ Wrap \in Nat /\ Wrap > Cardinality(Managers)
  /\ Admit \subseteq Usages

VARIABLES
  shared_ring_fd, ring_instances,
  init_mutex,  \* the managers whose constructor holds the mutex
  open,        \* descriptors of the rings that exist
  fd,          \* each manager's ring descriptor
  tmp,         \* what a thread has read of ring_instances
  pc,          \* where each manager stands
  used         \* history: the usages beyond the plain one met so far

vars == <<shared_ring_fd, ring_instances, init_mutex, open, fd, tmp, pc, used>>

\* Mutant: the reset value is a valid descriptor.
NoFd_zero == 0

\* "No ring": the initial value and the one kill_internal resets to.
NoFd == -1

Init ==
  /\ shared_ring_fd = -1 /\ ring_instances = 0
  /\ init_mutex = {} /\ open = {}
  /\ fd = [m \in Managers |-> -1]
  /\ tmp = [m \in Managers |-> 0]
  /\ pc = [m \in Managers |-> "new"]
  /\ used = {}

Constructing == {"locked", "create", "attach", "inc_read", "inc_write"}
Exiting == {"dec_read", "dec_write", "test", "reset"}
Others(m) == Managers \ {m}

Goto(m, l) == pc' = [pc EXCEPT ![m] = l]

\* The step is a usage u if cond holds; it must then be admitted.
Uses(cond, u) == IF cond THEN {u} ELSE {}
Record(us) == us \subseteq Admit /\ used' = used \cup us

-----------------------------------------------------------------------------
(* The constructor.                                                        *)

\* Mutant: no mutex.
can_lock_always == TRUE

\* std::scoped_lock gets init_mutex.
can_lock == init_mutex = {}

lock(m) ==
  /\ pc[m] = "new" /\ can_lock
  /\ Record(Uses(\E o \in Others(m) : pc[o] \in Exiting, "kill_overlaps"))
  /\ init_mutex' = init_mutex \cup {m}
  /\ Goto(m, "locked")
  /\ UNCHANGED <<shared_ring_fd, ring_instances, open, fd, tmp>>

\* Mutant: always attach.
first_ring_never == FALSE

\* There is no ring to share a backend with.
first_ring == shared_ring_fd = -1 \/ ring_instances = 0

choose_setup(m) ==
  /\ pc[m] = "locked"
  /\ Goto(m, IF first_ring THEN "create" ELSE "attach")
  /\ UNCHANGED <<shared_ring_fd, ring_instances, init_mutex, open, fd, tmp, used>>

\* io_uring_queue_init(_params) gives manager m a ring.
NewRing(m) ==
  \E f \in Fds \ open :
    open' = open \cup {f} /\ fd' = [fd EXCEPT ![m] = f]

\* io_uring_queue_init; the new ring is the shared one.
create(m) ==
  /\ pc[m] = "create"
  /\ NewRing(m)
  /\ shared_ring_fd' = fd'[m]
  /\ Goto(m, "inc_read")
  /\ UNCHANGED <<ring_instances, init_mutex, tmp, used>>

\* io_uring_queue_init_params with IORING_SETUP_ATTACH_WQ, which needs wq_fd
\* to be a ring.
attach(m) ==
  /\ pc[m] = "attach" /\ shared_ring_fd \in open
  /\ NewRing(m)
  /\ Goto(m, "inc_read")
  /\ UNCHANGED <<shared_ring_fd, ring_instances, init_mutex, tmp, used>>

\* Mutant: the early return keeps the mutex.
unlocked_on_error_not(m) == init_mutex

\* The scoped_lock is released on the early returns, too.
unlocked_on_error(m) == init_mutex \ {m}

\* The setup fails and the manager is DEAD: because wq_fd is not a ring, or
\* for a reason of the kernel's own.
setup_fails(m) ==
  /\ \/ pc[m] = "attach" /\ shared_ring_fd \notin open /\ Goto(m, "stale_fd")
     \/ pc[m] \in {"create", "attach"} /\ Goto(m, "no_ring")
  /\ init_mutex' = unlocked_on_error(m)
  /\ UNCHANGED <<shared_ring_fd, ring_instances, open, fd, tmp, used>>

\* ring_instances++, and the mutex is released.
inc_read(m) ==
  /\ pc[m] = "inc_read"
  /\ tmp' = [tmp EXCEPT ![m] = ring_instances]
  /\ Goto(m, "inc_write")
  /\ UNCHANGED <<shared_ring_fd, ring_instances, init_mutex, open, fd, used>>

inc_write(m) ==
  /\ pc[m] = "inc_write"
  /\ ring_instances' = (tmp[m] + 1) % Wrap
  /\ init_mutex' = init_mutex \ {m}
  /\ Goto(m, "live")
  /\ UNCHANGED <<shared_ring_fd, open, fd, tmp, used>>

-----------------------------------------------------------------------------
(* The end of kill_internal.                                               *)

\* io_uring_queue_exit.
queue_exit(m) ==
  /\ pc[m] = "live"
  /\ Record(Uses(\E o \in Others(m) : pc[o] \in Constructing \cup Exiting, "kill_overlaps")
            \cup Uses(fd[m] = shared_ring_fd /\ \E o \in Others(m) : pc[o] = "live",
                      "owner_dies_first"))
  /\ open' = open \ {fd[m]}
  /\ Goto(m, "dec_read")
  /\ UNCHANGED <<shared_ring_fd, ring_instances, init_mutex, fd, tmp>>

\* ring_instances--.
dec_read(m) ==
  /\ pc[m] = "dec_read"
  /\ tmp' = [tmp EXCEPT ![m] = ring_instances]
  /\ Goto(m, "dec_write")
  /\ UNCHANGED <<shared_ring_fd, ring_instances, init_mutex, open, fd, used>>

dec_write(m) ==
  /\ pc[m] = "dec_write"
  /\ ring_instances' = (tmp[m] - 1) % Wrap
  /\ Goto(m, "test")
  /\ UNCHANGED <<shared_ring_fd, init_mutex, open, fd, tmp, used>>

\* Mutant: off by one in the test for the last ring.
last_ring_off_by_one == ring_instances = 1

\* No ring is left.
last_ring == ring_instances = 0

\* kill_internal looks at the count again, not at what it has written, ...
test_last(m) ==
  /\ pc[m] = "test"
  /\ Goto(m, IF last_ring THEN "reset" ELSE "dead")
  /\ UNCHANGED <<shared_ring_fd, ring_instances, init_mutex, open, fd, tmp, used>>

\* ... and resets the descriptor; a constructor may have run in between.
reset(m) ==
  /\ pc[m] = "reset"
  /\ shared_ring_fd' = NoFd
  /\ Goto(m, "dead")
  /\ UNCHANGED <<ring_instances, init_mutex, open, fd, tmp, used>>

-----------------------------------------------------------------------------
Construct(m) ==
  lock(m) \/ choose_setup(m) \/ create(m) \/ attach(m) \/ setup_fails(m)
  \/ inc_read(m) \/ inc_write(m)

Exit(m) == queue_exit(m) \/ dec_read(m) \/ dec_write(m) \/ test_last(m) \/ reset(m)

Next == \E m \in Managers : Construct(m) \/ Exit(m)

Spec == Init /\ [][Next]_vars

\* A thread that is in a constructor, or wants to be, is scheduled again.
FairSpec == Spec /\ \A m \in Managers : WF_vars(Construct(m)) /\ WF_vars(Exit(m))

-----------------------------------------------------------------------------
(* Properties.                                                             *)

\* The statics hold what their declarations say: a ring's descriptor or -1,
\* and an unsigned count.
TypeOK ==
  /\ shared_ring_fd \in Fds \cup {-1} /\ ring_instances \in 0..(Wrap - 1)
  /\ init_mutex \subseteq Managers /\ open \subseteq Fds
  /\ fd \in [Managers -> Fds \cup {-1}]
  /\ tmp \in [Managers -> 0..(Wrap - 1)]
  /\ pc \in [Managers -> Constructing \cup Exiting
                         \cup {"new", "live", "dead", "stale_fd", "no_ring"}]
  /\ used \subseteq Admit

\* No constructor and no kill is under way.
Quiescent == \A m \in Managers : pc[m] \notin Constructing \cup Exiting

\* Between calls, ring_instances is the number of rings that exist, whichever
\* managers died in which order, as long as no kill has overlapped another
\* manager's constructor or kill.
InstancesExact ==
  Quiescent /\ "kill_overlaps" \notin used => ring_instances = Cardinality(open)

\* Between calls of a plain usage, shared_ring_fd refers to a ring that exists,
\* or is -1 (core.cpp 162: it is reset "since it no longer refers to a valid
\* _ring").
SharedFdValid == Quiescent /\ used = {} => shared_ring_fd \in open \cup {-1}

\* In plain usage no constructor tries to attach to a ring that is gone.
PlainAttach == used = {} => \A m \in Managers : pc[m] # "stale_fd"

\* A constructor never tries to attach to a ring that is gone (core.cpp 63:
\* a shared asynchronous backend for all threads).
NoStaleAttach == \A m \in Managers : pc[m] # "stale_fd"

\* Every constructor that has begun returns, whichever of its exits it takes
\* and whatever the other threads do: the mutex is always given back.
ConstructorsReturn ==
  \A m \in Managers : (pc[m] = "new" ~> pc[m] \notin Constructing \cup {"new"})
=============================================================================
