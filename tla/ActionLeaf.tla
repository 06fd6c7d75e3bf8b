------------------------------ MODULE ActionLeaf ------------------------------
(***************************************************************************)
(* What the action leaves promise to the tree above them: one leaf works   *)
(* at a time, and it reports SUCCESS only after the work asked for by this *)
(* activation was done.                                                    *)
(***************************************************************************)
CONSTANT Leaves

VARIABLES
  status,   \* what the leaf last told its parent
  work      \* the work of the leaf's activation: "none", "asked" or "done"

vars == <<status, work>>

Init == /\ status = [l \in Leaves |-> "IDLE"]
        /\ work   = [l \in Leaves |-> "none"]

Activate(l) ==
  /\ status[l] = "IDLE"
  /\ \A k \in Leaves : status[k] # "RUNNING"
  /\ \/ /\ status' = [status EXCEPT ![l] = "RUNNING"]
        /\ work'   = [work EXCEPT ![l] = "asked"]
     \/ /\ status' = [status EXCEPT ![l] = "FAILURE"]
        /\ UNCHANGED work

WorkDone(l) ==
  /\ work[l] = "asked"
  /\ work' = [work EXCEPT ![l] = "done"]
  /\ UNCHANGED status

Succeed(l) ==
  /\ status[l] = "RUNNING" /\ work[l] = "done"
  /\ status' = [status EXCEPT ![l] = "SUCCESS"]
  /\ UNCHANGED work

\* A leaf may fail or be halted whether or not the work was done.
GiveUp(l) ==
  /\ status[l] = "RUNNING"
  /\ \E s \in {"FAILURE", "IDLE"} : status' = [status EXCEPT ![l] = s]
  /\ work' = [work EXCEPT ![l] = "none"]

Reset(l) ==
  /\ status[l] \in {"SUCCESS", "FAILURE"}
  /\ status' = [status EXCEPT ![l] = "IDLE"]
  /\ work'   = [work EXCEPT ![l] = "none"]

Next == \E l \in Leaves :
          Activate(l) \/ WorkDone(l) \/ Succeed(l) \/ GiveUp(l) \/ Reset(l)

Spec == Init /\ [][Next]_vars
=============================================================================
