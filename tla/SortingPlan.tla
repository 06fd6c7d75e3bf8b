------------------------------ MODULE SortingPlan ------------------------------
(***************************************************************************)
(* What main3.xml promises, as a list of jobs instead of a tree: after the *)
(* boot, rounds for ever.  A round looks for an object, picks it, carries  *)
(* it to the bin of its label, or runs the belt when there is none; a job  *)
(* that fails ends the round.                                              *)
(***************************************************************************)
EXTENDS Sequences, SequencesExt

CONSTANTS
  Bins,          \* the labels that have a bin
  Labels,        \* what the approach server may answer, "none" included
  MayFailAtOnce  \* the jobs that may fail before they begin to run

VARIABLES
  job,       \* the job last begun, <<name, bin>>
  outcome,   \* "RUNNING", "SUCCESS" or "FAILURE"
  label      \* of the object the last look found

vars == <<job, outcome, label>>

Job(name) == <<name, "">>

Round(l) ==
  IF l = "none" THEN <<Job("conveyor"), Job("pause")>>
  ELSE <<Job("down"), Job("grasp"), Job("hold"), Job("lift")>>
       \o (IF l \in Bins
           THEN <<<<"carry", l>>, <<"lower", l>>, <<"release", l>>, <<"raise", l>>,
                  <<"home", l>>>>
           ELSE <<>>)
       \o <<Job("pause")>>

Jobs == LET rounds == {Round(l) : l \in Labels} IN
        {Job("boot"), Job("settle"), Job("approach")} \cup UNION {ToSet(r) : r \in rounds}

Sleeps == {Job("boot"), Job("settle"), Job("hold"), Job("pause")}

\* The job to begin now: the first of the round, the one after the job that is
\* done, or a new look when the round is over.
NextJob ==
  CASE job = Job("boot")                               -> Job("settle")
    [] outcome = "FAILURE" \/ job \in {Job("settle"), Job("pause")}
                                                       -> Job("approach")
    [] job = Job("approach") /\ outcome = "SUCCESS"    -> Round(label)[1]
    [] OTHER -> LET i == CHOOSE i \in DOMAIN Round(label) : Round(label)[i] = job
                IN  Round(label)[i + 1]

Init == job = Job("boot") /\ outcome = "IDLE" /\ label = "unset"

Boot ==
  /\ outcome = "IDLE"
  /\ outcome' = "RUNNING"
  /\ UNCHANGED <<job, label>>

Begin ==
  /\ outcome \in {"SUCCESS", "FAILURE"}
  /\ job' = NextJob
  /\ \/ outcome' = "RUNNING"
     \/ job' \in MayFailAtOnce /\ outcome' = "FAILURE"
  /\ UNCHANGED label

End ==
  /\ outcome = "RUNNING"
  /\ \/ outcome' = "SUCCESS"
     \/ job \notin Sleeps /\ outcome' = "FAILURE"
  /\ IF job = Job("approach") /\ outcome' = "SUCCESS" THEN label' \in Labels
                                                     ELSE UNCHANGED label
  /\ UNCHANGED job

Next == Boot \/ Begin \/ End

Spec == Init /\ [][Next]_vars
=============================================================================
