--------------------------- MODULE CloneContract ---------------------------
(***************************************************************************)
(* What the copy of a whole disk promises: nothing happens to the target   *)
(* before the copy has a plan, the outcome is settled once, and success    *)
(* means that the plan is carried out on the target.  (Which failures the  *)
(* code passes over, so that a plan without that step counts as carried    *)
(* out, is said where DiskCopy maps its state to "clone".)                 *)
(***************************************************************************)

VARIABLES target,    \* "kept", "rewritten" or "clone"
          outcome    \* "running", "refused", "ok" or "error"

vars == <<target, outcome>>

Init == target = "kept" /\ outcome = "running"

\* No plan is made: the target stays as it was.
Refuse ==
  /\ outcome = "running" /\ target = "kept"
  /\ outcome' = "refused"
  /\ UNCHANGED target

Rewrite ==
  /\ outcome = "running"
  /\ target' \in {"rewritten", "clone"}
  /\ UNCHANGED outcome

Fail ==
  /\ outcome = "running"
  /\ outcome' = "error"
  /\ target' \in {target, "rewritten"}

Succeed ==
  /\ outcome = "running" /\ target = "clone"
  /\ outcome' = "ok"
  /\ UNCHANGED target

Next == Refuse \/ Rewrite \/ Fail \/ Succeed

Spec == Init /\ [][Next]_vars

=============================================================================
