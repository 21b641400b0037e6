---------------------------- MODULE JobContract -----------------------------
(***************************************************************************)
(* What an asynchronous storage job and the cmdlet that waits for it owe   *)
(* each other, as IJCProgress states it: the job settles its outcome once, *)
(* and what the cmdlet finally reports is that outcome.                    *)
(***************************************************************************)

VARIABLES outcome,   \* "running", "ok" or "error"
          verdict    \* "none" until the cmdlet stops waiting

vars == <<outcome, verdict>>

Init == outcome = "running" /\ verdict = "none"

Settle ==
  /\ outcome = "running"
  /\ outcome' \in {"ok", "error"}
  /\ UNCHANGED verdict

Report ==
  /\ verdict = "none"
  /\ outcome # "running"
  /\ verdict' = outcome
  /\ UNCHANGED outcome

Next == Settle \/ Report

Spec == Init /\ [][Next]_vars

=============================================================================
