------------------------------ MODULE JobContract ------------------------------
(***************************************************************************)
(* What the export service promises of a job, with no process in sight: it *)
(* is submitted once, runs, gains checkpoints one part at a time, ends     *)
(* once per attempt, completes only when whole, and is resumed from the    *)
(* checkpoints it has. Only an interruption may take several jobs at once. *)
(***************************************************************************)
EXTENDS Naturals

CONSTANTS Jobs, NumParts, Split

VARIABLES status, parts

vars == <<status, parts>>

Active == {"pending", "running"}
Resumable == {"failed", "cancelled", "interrupted"}

Init ==
  /\ status = [j \in Jobs |-> "absent"]
  /\ parts = [j \in Jobs |-> 0]

Move(j, from, to) ==
  /\ status[j] \in from
  /\ status' = [status EXCEPT ![j] = to]

Submit(j) == Move(j, {"absent"}, "pending") /\ UNCHANGED parts

Start(j) == Move(j, {"pending"}, "running") /\ UNCHANGED parts

Checkpoint(j) ==
  /\ status[j] = "running" /\ Split
  /\ parts[j] < NumParts
  /\ parts' = [parts EXCEPT ![j] = @ + 1]
  /\ UNCHANGED status

Complete(j) ==
  /\ Split => parts[j] = NumParts
  /\ Move(j, {"running"}, "completed")
  /\ UNCHANGED parts

\* An attempt that ends early keeps its checkpoints; a worker that never started
\* cannot have observed a cancellation.
GiveUp(j) ==
  /\ \/ Move(j, Active, "failed")
     \/ Move(j, {"running"}, "cancelled")
  /\ UNCHANGED parts

\* The jobs whose workers were lost are found together, by the next start-up.
Interrupt(js) ==
  /\ \A j \in js : status[j] \in Active
  /\ status' = [j \in Jobs |-> IF j \in js THEN "interrupted" ELSE status[j]]
  /\ UNCHANGED parts

Resume(j) == Move(j, Resumable, "pending") /\ UNCHANGED parts

Next ==
  \/ \E j \in Jobs :
       Submit(j) \/ Start(j) \/ Checkpoint(j) \/ Complete(j) \/ GiveUp(j) \/ Resume(j)
  \/ \E js \in SUBSET Jobs : Interrupt(js)

Spec == Init /\ [][Next]_vars
===============================================================================
