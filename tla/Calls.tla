------------------------------- MODULE Calls -------------------------------
(***************************************************************************)
(* What awaiting an EvTask promises, without frames, handles and status    *)
(* objects (README.md 54-56: "a semblance of sequential execution for a    *)
(* stack of coroutine calls"): a coroutine that awaits another goes on     *)
(* when, and only when, the other has finished.                            *)
(***************************************************************************)
CONSTANTS Tasks, None

VARIABLES
  status,  \* "idle", "active", "waiting" or "finished"
  callee   \* whom a waiting coroutine waits for

vars == <<status, callee>>

Init == status = [t \in Tasks |-> "idle"] /\ callee = [t \in Tasks |-> None]

Begin(t) ==
  /\ status[t] = "idle"
  /\ status' = [status EXCEPT ![t] = "active"]
  /\ UNCHANGED callee

\* p awaits t, which begins if it has not begun.
Call(p, t) ==
  /\ status[p] = "active" /\ p # t
  /\ callee' = [callee EXCEPT ![p] = t]
  /\ status' = [status EXCEPT ![p] = "waiting",
                              ![t] = IF @ = "idle" THEN "active" ELSE @]

Finish(t) ==
  /\ status[t] = "active"
  /\ status' = [status EXCEPT ![t] = "finished"]
  /\ UNCHANGED callee

Continue(p) ==
  /\ status[p] = "waiting" /\ status[callee[p]] = "finished"
  /\ status' = [status EXCEPT ![p] = "active"]
  /\ callee' = [callee EXCEPT ![p] = None]

Next ==
  \E t \in Tasks :
    \/ Begin(t) \/ Finish(t) \/ Continue(t)
    \/ \E p \in Tasks : Call(p, t)

Spec == Init /\ [][Next]_vars /\ \A p \in Tasks : WF_vars(Continue(p))
=============================================================================
