------------------------------ MODULE SyncJobs ------------------------------
(***************************************************************************)
(* What a replay promises about the jobs of a recording, without the       *)
(* registers, the interrupts and the polling that it takes: in each round  *)
(* the jobs run in the order of their positions in the recording, each one *)
(* exactly once, and none starts before the one before it has ended and    *)
(* the replayer has taken note of its end.                                 *)
(***************************************************************************)
EXTENDS Naturals

CONSTANT Rounds   \* how often the recording is replayed

VARIABLES
    jobs,    \* positions of the job submissions in the recording
    round,   \* rounds completed
    over,    \* the jobs of this round that ran and were noted
    phase,   \* of the job after them: "idle", "running" or "ended"
    current  \* its position, 0 when no job is on its way

vars == <<jobs, round, over, phase, current>>

Init ==
    /\ jobs \in SUBSET (Nat \ {0})
    /\ round = 0 /\ over = {} /\ phase = "idle" /\ current = 0

(* The first job of the recording that is not over starts.                 *)
Start ==
    /\ phase = "idle"
    /\ phase' = "running"
    /\ current' \in jobs \ over
    /\ \A j \in jobs \ over : current' <= j
    /\ UNCHANGED <<jobs, round, over>>

End ==
    /\ phase = "running"
    /\ phase' = "ended"
    /\ UNCHANGED <<jobs, round, over, current>>

(* The replayer learns that the job ended.                                 *)
Note ==
    /\ phase = "ended"
    /\ phase' = "idle" /\ current' = 0
    /\ over' = over \cup {current}
    /\ UNCHANGED <<jobs, round>>

(* A round ends when all its jobs are over.                                *)
NextRound ==
    /\ phase = "idle" /\ over = jobs
    /\ round < Rounds
    /\ round' = round + 1
    /\ over' = IF round' < Rounds THEN {} ELSE jobs
    /\ UNCHANGED <<jobs, phase, current>>

Next == Start \/ End \/ Note \/ NextRound

Spec == Init /\ [][Next]_vars
=============================================================================
