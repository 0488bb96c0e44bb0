------------------------------ MODULE RunLanes ------------------------------
(***************************************************************************)
(* What the run package promises its callers, without goroutines, channels *)
(* or contexts.  A run is accepted, its row is recorded, and it begins,    *)
(* ends and retires.  The runs of one lane begin in the order they were    *)
(* accepted, each only when every earlier run of the lane has retired.  A  *)
(* process may stop at any moment, after which no run is live; only a      *)
(* restart interrupts rows, and it interrupts every row that has not       *)
(* ended.                                                                  *)
(***************************************************************************)
EXTENDS Naturals

CONSTANTS MaxRuns,  \* how many runs may be accepted
          Lanes,    \* the lanes
          NoLane    \* the lane of a child or synchronous run

Runs == 1..MaxRuns

VARIABLES accepted, \* the last run accepted: runs are numbered in that order
          row,      \* the runs.state column, "none" before the insert
          lane,     \* the lane each run was accepted in
          live      \* the runs the process may still act for

vars == <<accepted, row, lane, live>>

Open == {"pending", "running"}

EarlierInLane(r) == {q \in Runs : q < r /\ lane[q] = lane[r]}

Init == /\ accepted = 0
        /\ row = [r \in Runs |-> "none"]
        /\ lane = [r \in Runs |-> NoLane]
        /\ live = {}

\* A new run takes the last place in its lane, if it has one.
Accept == /\ accepted < MaxRuns
          /\ accepted' = accepted + 1
          /\ \E l \in Lanes \cup {NoLane} : lane' = [lane EXCEPT ![accepted'] = l]
          /\ live' = live \cup {accepted'}
          /\ UNCHANGED row

\* A step of run r that may also retire it.
Act(r) == /\ live' \in {live, live \ {r}}
          /\ UNCHANGED <<accepted, lane>>

\* The row is inserted by the caller, so its run may already have retired.
Record(r) == /\ r <= accepted
             /\ row[r] = "none"
             /\ row' = [row EXCEPT ![r] = "pending"]
             /\ Act(r)

Begin(r) == /\ r \in live
            /\ row[r] = "pending"
            /\ lane[r] \in Lanes => EarlierInLane(r) \cap live = {}
            /\ row' = [row EXCEPT ![r] = "running"]
            /\ Act(r)

End(r) == /\ r \in live
          /\ row[r] = "running"
          /\ \E s \in {"completed", "failed"} : row' = [row EXCEPT ![r] = s]
          /\ Act(r)

Retire(r) == Act(r) /\ UNCHANGED row

Stop == /\ live' = {}
        /\ UNCHANGED <<accepted, row, lane>>

Restart == /\ live = {}
           /\ row' = [r \in Runs |-> IF row[r] \in Open THEN "interrupted" ELSE row[r]]
           /\ UNCHANGED <<accepted, lane, live>>

Next == \/ Accept
        \/ \E r \in Runs : Record(r) \/ Begin(r) \/ End(r) \/ Retire(r)
        \/ Stop
        \/ Restart

Spec == Init /\ [][Next]_vars
=============================================================================
