------------------------------ MODULE Transfer ------------------------------
(***************************************************************************)
(* What the rest of the library is promised by Download: jobs are given to  *)
(* it one at a time, each runs to its end in the background, and the client *)
(* is told how it ended.  The one excuse for an answer before the end is    *)
(* that the application is quitting.                                        *)
(***************************************************************************)
EXTENDS Naturals

CONSTANT Job   \* the jobs, numbered in the order they are given

VARIABLES
  job,       \* how far each job is
  answer,    \* what the client was told of it
  quitting   \* the application is quitting

vars == <<job, answer, quitting>>

JobState == {"new", "running", "done", "failed"}
Answer   == {"none", "yes", "no", "withdrawn"}

Init ==
  /\ job = [j \in Job |-> "new"]
  /\ answer = [j \in Job |-> "none"]
  /\ quitting = FALSE

(* Every earlier job has been answered, and so has this one not. *)
Turn(j) == answer[j] = "none" /\ \A k \in Job : k < j => answer[k] # "none"

Begin(j) ==
  /\ Turn(j)
  /\ job[j] = "new"
  /\ job' = [job EXCEPT ![j] = "running"]
  /\ UNCHANGED <<answer, quitting>>

Refuse(j) ==
  /\ Turn(j)
  /\ job[j] = "new"
  /\ job' = [job EXCEPT ![j] = "failed"]
  /\ answer' = [answer EXCEPT ![j] = "no"]
  /\ UNCHANGED quitting

Finish(j) ==
  /\ job[j] = "running"
  /\ \E end \in {"done", "failed"} : job' = [job EXCEPT ![j] = end]
  /\ UNCHANGED <<answer, quitting>>

Settle(j) ==
  /\ Turn(j)
  /\ job[j] # "new"
  /\ job[j] = "running" => quitting
  /\ answer' = [answer EXCEPT ![j] = IF job[j] = "done" THEN "yes" ELSE "no"]
  /\ UNCHANGED <<job, quitting>>

Withdraw(j) ==
  /\ Turn(j)
  /\ job[j] # "new"
  /\ answer' = [answer EXCEPT ![j] = "withdrawn"]
  /\ UNCHANGED <<job, quitting>>

Quit ==
  /\ quitting' = TRUE
  /\ UNCHANGED <<job, answer>>

Next ==
  \/ \E j \in Job : Begin(j) \/ Refuse(j) \/ Finish(j) \/ Settle(j) \/ Withdraw(j)
  \/ Quit

Spec     == Init /\ [][Next]_vars
FairSpec == Spec /\ \A j \in Job : WF_vars(Finish(j)) /\ WF_vars(Settle(j) \/ Withdraw(j))
=============================================================================
