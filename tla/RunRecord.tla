----------------------------- MODULE RunRecord ------------------------------
(***************************************************************************)
(* What the history pages promise about one table row per LLM call, with no *)
(* processes, clients or servers in it: a run opens as 'running', closes    *)
(* once, for good, and a report is filed for a run that closed as ok.  A    *)
(* sweep closes any set of open runs as failed.                             *)
(***************************************************************************)
CONSTANT Runs

VARIABLES status,   \* "none" until the run is opened
          reported  \* the runs a report is filed for

Closing == {"ok", "failed", "cancelled"}

Init == status = [r \in Runs |-> "none"] /\ reported = {}

Open(r) ==
    /\ status[r] = "none"
    /\ status' = [status EXCEPT ![r] = "running"]
    /\ UNCHANGED reported

Close(r) ==
    /\ status[r] = "running"
    /\ \E s \in Closing : status' = [status EXCEPT ![r] = s]
    /\ UNCHANGED reported

Sweep ==
    /\ \E open \in SUBSET {r \in Runs : status[r] = "running"} :
          status' = [r \in Runs |-> IF r \in open THEN "failed" ELSE status[r]]
    /\ UNCHANGED reported

Report(r) ==
    /\ status[r] = "ok" /\ r \notin reported
    /\ reported' = reported \cup {r}
    /\ UNCHANGED status

Next == Sweep \/ \E r \in Runs : Open(r) \/ Close(r) \/ Report(r)

Spec == Init /\ [][Next]_<<status, reported>>
=============================================================================
