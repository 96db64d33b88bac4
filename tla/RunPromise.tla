----------------------------- MODULE RunPromise -----------------------------
(***************************************************************************)
(* What the run store promises of one run, whatever its threads do: the    *)
(* status moves only while some thread of the worker acts on the run, a    *)
(* request is taken up only while the run is active, and a run that ended  *)
(* and that nobody acts on stays as it is for good, across restarts too.   *)
(***************************************************************************)
VARIABLES status,   \* the status recorded in meta.json
          busy      \* does a thread of the worker process act on the run?

Active   == {"running", "waiting_approval", "cancelling"}
Terminal == {"completed", "failed", "cancelled"}

Init == status = "none" /\ busy = FALSE

Begin == status = "none" /\ status' = "running" /\ busy' = TRUE

\* a request on an idle run is accepted only if the run is active
TakeUp == ~busy /\ status \in Active /\ busy' = TRUE /\ UNCHANGED status

\* an acting thread may move the status, never back to running
Act ==
    /\ busy
    /\ status' \in (Active \ {"running"}) \cup Terminal \cup {status}
    /\ busy' \in BOOLEAN

\* a restart fails what was in flight and keeps the rest
Restart ==
    /\ status # "none"
    /\ status' = IF status \in {"running", "cancelling"} THEN "failed" ELSE status
    /\ busy' = FALSE

Next == Begin \/ TakeUp \/ Act \/ Restart

Spec == Init /\ [][Next]_<<status, busy>>
=============================================================================
