------------------------------- MODULE WmiJob -------------------------------
(***************************************************************************)
(* A WMI method called semisynchronously (CPartitionInfo::ResizeAsync) and *)
(* the cmdlet that waits for it through CWmiSemisyncProgress: every        *)
(* GetProgress asks the call object, for ten milliseconds, whether the     *)
(* provider has answered, and moves a made-up progress one percent on.     *)
(*                                                                         *)
(* The provider answers "ok", "refused" (ReturnValue is an error code) or  *)
(* "failed" (the call itself failed and has no result object), or the      *)
(* connection is "lost" and the status cannot be had any more.  An int     *)
(* holds -IntFull .. IntFull - 1; Percent steps stand for 100 %.           *)
(***************************************************************************)
EXTENDS Integers

CONSTANTS Answers,   \* how the provider may answer
          IntFull,   \* 2^31, or the power that stands for it
          Percent    \* 100, or the number of steps that stands for it

ASSUME AnswerAssumption == Answers \subseteq {"ok", "refused", "failed", "lost"}
ASSUME SizeAssumption ==
  /\ IntFull \in Nat \ {0, 1}
  /\ Percent \in 1 .. IntFull - 1
  \* What INT_MAX is more than a multiple of Percent, 47 for 2^31 - 1 and 100, is
  \* less than one of the Percent steps: the whole of an int is not a step more.
  /\ (IntFull - 1) % Percent < (IntFull - 1) \div Percent

VARIABLES
  answer,          \* the provider's answer, "none" before
  m_status,        \* CWmiSemisyncProgress::m_status, -1 while running
  m_semi_progress, \* CWmiSemisyncProgress::m_semi_progress
  pc,              \* the cmdlet: "start", "show", "asleep", "released",
                   \* "thrown" or "dead"
  shown,           \* the percentage it displayed last
  verdict          \* the result it read, -1 before

vars == <<answer, m_status, m_semi_progress, pc, shown, verdict>>

Init ==
  /\ answer = "none"
  /\ m_status = -1 /\ m_semi_progress = 0
  /\ pc = "start" /\ shown = 0 /\ verdict = -1

\* ResizeAsync: ExecMethod is accepted and yields a call object, or throws.
ResizeAsync ==
  /\ pc = "start"
  /\ pc' \in {"show", "thrown"}
  /\ UNCHANGED <<answer, m_status, m_semi_progress, shown, verdict>>

\* The provider ends the call.
Answer ==
  /\ pc \notin {"start", "thrown"}
  /\ answer = "none"
  /\ answer' \in Answers
  /\ UNCHANGED <<m_status, m_semi_progress, pc, shown, verdict>>

ToInt(x) == ((x + IntFull) % (2 * IntFull)) - IntFull
Truncate(a, b) == IF a < 0 THEN -((-a) \div b) ELSE a \div b

\* m_semi_progress += INT_MAX / 100, an int that wraps around.
Step == (IntFull - 1) \div Percent
Wide_Advance(p) == p + Step
Advance(p) == ToInt(p + Step)

\* GetCallStatus gives WBEM_S_TIMEDOUT (or an error) and no status, or
\* WBEM_S_NO_ERROR and the status of the call; ReturnValue is only logged.
Deaf_Answered == FALSE
Early_Answered == answer # "lost"
Answered == answer \in {"ok", "refused"}

\* GetProgress, GetStatus, WriteProgress and Sleep(500).
ShowProgress ==
  /\ pc = "show"
  /\ m_status' = IF Answered THEN 0 ELSE m_status
  /\ m_semi_progress' = Advance(m_semi_progress)
  /\ shown' = Truncate(m_semi_progress', Step)
  /\ pc' = "asleep"
  /\ answer # "failed"
  /\ UNCHANGED <<answer, verdict>>

\* A failed call has no result object, which GetProgress uses all the same.
UseMissingResult ==
  /\ pc = "show"
  /\ answer = "failed"
  /\ pc' = "dead"
  /\ UNCHANGED <<answer, m_status, m_semi_progress, shown, verdict>>

\* GetResult: leave with a result that is not negative.
GetResult ==
  /\ pc = "asleep"
  /\ \/ m_status < 0 /\ pc' = "show" /\ UNCHANGED verdict
     \/ m_status >= 0 /\ pc' = "released" /\ verdict' = m_status
  /\ UNCHANGED <<answer, m_status, m_semi_progress, shown>>

Over == pc \in {"released", "thrown", "dead"} /\ UNCHANGED vars

Cmdlet == ResizeAsync \/ ShowProgress \/ GetResult

Next == ResizeAsync \/ Answer \/ ShowProgress \/ UseMissingResult \/ GetResult \/ Over

Spec == Init /\ [][Next]_vars

\* The provider answers in the end, and the cmdlet goes on polling.
FairSpec == Spec /\ WF_vars(Answer) /\ WF_vars(Cmdlet)

-----------------------------------------------------------------------------

\* Types; and however long the call takes, the cmdlet never hands WriteProgress
\* more than 100 %, which would throw.
TypeOK ==
  /\ answer \in Answers \cup {"none"}
  /\ m_status \in {-1, 0} /\ verdict \in {-1, 0}
  /\ m_semi_progress \in -IntFull .. IntFull - 1
  /\ pc \in {"start", "show", "asleep", "released", "thrown", "dead"}
  /\ shown \in Int /\ shown <= Percent

\* The cmdlet leaves with the outcome of the call, and not before there is one;
\* of a lost call it never learns that it has ended.
Outcome == CASE answer \in {"none", "lost"} -> "running"
             [] answer \in {"ok", "refused"} -> "ok"
             [] answer = "failed" -> "error"
Verdict == IF verdict = -1 THEN "none" ELSE "ok"
Contract == INSTANCE JobContract WITH outcome <- Outcome, verdict <- Verdict
ImplementsContract == Contract!Spec

\* The cmdlet stops waiting, unless the call failed or the connection to the
\* provider was lost.
PollerStops == <>(pc \in {"released", "thrown"} \/ answer \in {"failed", "lost"})

=============================================================================
