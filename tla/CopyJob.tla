------------------------------ MODULE CopyJob -------------------------------
(***************************************************************************)
(* A copy started by one of CDiskClone's Async methods: CAsyncCall runs    *)
(* the copy function on a thread of its own, which reports through the     *)
(* CCopyProgress it is itself; the cmdlet polls that object and releases   *)
(* it when a result is there.                                              *)
(*                                                                         *)
(* A job is CopyPartition, CopyVolumeBySector (with or without a snapshot, *)
(* by bitmap or by sector), CopyVolumeToFile or CopyVolumeByFile.  How the *)
(* bytes are moved is the business of OverlapCopy; here a transfer is Size *)
(* chunks; that one fails is only logged, or not even looked at, but one   *)
(* that an overlapped copy by bitmap starts and the system refuses is      *)
(* waited for without end.                                                 *)
(* m_progress is in units where LongFull stands for 2^31; Percent steps    *)
(* stand for 100 %.                                                        *)
(***************************************************************************)
EXTENDS Integers, Sequences

CONSTANTS Jobs,       \* the jobs a cmdlet may start
          Size,       \* chunks of a transfer
          Excess,     \* chunks by which the files may exceed the used size
          LongFull,   \* 2^31, or the power that stands for it
          Percent     \* 100, or the number of steps that stands for it

JobNames == {"partition", "volume", "shadow", "sectors", "tofile", "files"}

ASSUME JobAssumption ==
  /\ Jobs \subseteq JobNames
  /\ Size \in Nat \ {0}
  /\ Excess \in Nat
  /\ LongFull \in Nat \ {0, 1}
  /\ Percent \in 1 .. LongFull - 1
  \* What LONG_MAX is more than a multiple of Percent, 47 for 2^31 - 1 and 100, is
  \* less than one of the Percent steps: the whole of a long is not a step more.
  /\ (LongFull - 1) % Percent < (LongFull - 1) \div Percent

VARIABLES
  job,        \* which copy function the thread runs
  jpc,        \* "opening", "copying", "closing", "unwinding" or "ended"
  open,       \* what the job holds, in the order it took it
  done,       \* chunks handed out and, unless refused, transferred
  refused,    \* whether the copy waits for a transfer that never started
  m_result,   \* -1 while nothing was reported
  m_progress, \* LongFull at 100 %
  alive,      \* whether the progress object still exists
  ppc,        \* the cmdlet: "show", "asleep" or "released"
  shown,      \* the percentage it displayed last
  verdict     \* the result it read, -1 before

job_vars == <<job, jpc, open, done, refused>>
object == <<m_result, m_progress>>
poller == <<alive, ppc, shown, verdict>>
vars == <<job, jpc, open, done, refused, m_result, m_progress, alive, ppc, shown, verdict>>

-----------------------------------------------------------------------------
(* What each copy function opens, in order, before it copies. *)

CopyPartition == <<"dst", "src">>
CopyVolumeBySector(shadow) == IF shadow THEN <<"dst", "shadow", "src">> ELSE <<"dst", "src">>
CopyVolumeToFile == <<"shadow", "src", "dst">>
CopyVolumeByFile == <<>>

Acquires ==
  CASE job = "partition" -> CopyPartition
    [] job \in {"volume", "sectors"} -> CopyVolumeBySector(FALSE)
    [] job = "shadow" -> CopyVolumeBySector(TRUE)
    [] job = "tofile" -> CopyVolumeToFile
    [] job = "files" -> CopyVolumeByFile

\* CAsyncCall::Run: the thread starts, the cmdlet gets the only reference.
Run ==
  /\ job \in Jobs
  /\ jpc = "opening" /\ open = <<>> /\ done = 0 /\ refused = FALSE
  /\ m_result = -1 /\ m_progress = 0 /\ alive = TRUE

Init == Run /\ ppc = "show" /\ shown = 0 /\ verdict = -1

-----------------------------------------------------------------------------
(* The thread. *)

Acquire ==
  /\ jpc = "opening" /\ Len(open) < Len(Acquires)
  /\ \/ open' = Append(open, Acquires[Len(open) + 1]) /\ UNCHANGED jpc
     \/ jpc' = "unwinding" /\ UNCHANGED open      \* it throws
  /\ UNCHANGED <<job, done, refused, object, poller>>

Opened ==
  /\ jpc = "opening" /\ Len(open) = Len(Acquires)
  /\ jpc' = "copying"
  /\ UNCHANGED <<job, open, done, refused, object, poller>>

\* CCopyProgress::SetProgress(done, max): a long of done * 2^31 / max.
ToLong(x) == ((x + LongFull) % (2 * LongFull)) - LongFull
Wide_PercentOf(d, max) == (d * LongFull) \div max
PercentOf(d, max) == ToLong((d * LongFull) \div max)

\* The files of a volume may add up to more than the used size it reports.
Total == IF job = "files" THEN Size + Excess ELSE Size

\* The jobs that copy with CopySectorsByMapOverlap.
Overlapped == {"volume", "shadow", "tofile"}

\* One chunk, transferred or failed (a sector copy passes no OVERLAPPED on handles
\* opened for it, so all of its chunks fail); the progress is updated now and then.
\* No event tells an overlapped copy that a transfer was refused, and the others go on.
CopyChunk ==
  /\ jpc = "copying" /\ done < Total
  /\ done' = done + 1
  /\ \/ UNCHANGED refused
     \/ job \in Overlapped /\ refused' = TRUE
  /\ m_progress' \in {m_progress, PercentOf(done', Size)}
  /\ UNCHANGED <<job, jpc, open, m_result, poller>>

\* The end of the copy function: CopyVolumeByFile leaves the result to its
\* caller, the others report success whatever the transfers returned.
Silent_EndOfCopy == m_result' = IF job = "files" THEN -1 ELSE 1
EndOfCopy == m_result' = IF job = "files" THEN m_result ELSE 0

Copied ==
  /\ jpc = "copying"
  /\ done >= Size \/ job = "files"
  /\ ~refused
  /\ jpc' = "closing"
  /\ EndOfCopy
  /\ UNCHANGED <<job, open, done, refused, m_progress, poller>>

\* The destructors of the handles, last taken first, on return and on a throw.
Close ==
  /\ jpc \in {"closing", "unwinding"}
  /\ open # <<>>
  /\ open' = SubSeq(open, 1, Len(open) - 1)
  /\ UNCHANGED <<job, jpc, done, refused, object, poller>>

\* CAsyncCall::CallThread: the copy function returned, or threw.
Swallow_ResultOfCall == 0
Unreported_ResultOfCall == -1
ResultOfCall == IF jpc = "closing" THEN 0 ELSE 1

CallThread ==
  /\ jpc \in {"closing", "unwinding"}
  /\ open = <<>>
  /\ m_result' = ResultOfCall
  /\ jpc' = "ended"
  /\ UNCHANGED <<job, open, done, refused, m_progress, poller>>

-----------------------------------------------------------------------------
(* The cmdlet. *)

\* C++ division truncates towards zero.
Truncate(a, b) == IF a < 0 THEN -((-a) \div b) ELSE a \div b

\* GetProgress and GetStatus, WriteProgress, then Sleep(500).
ShowProgress ==
  /\ ppc = "show"
  /\ shown' = Truncate(m_progress, (LongFull - 1) \div Percent)
  /\ ppc' = "asleep"
  /\ UNCHANGED <<job_vars, object, alive, verdict>>

\* GetResult: go round again, or leave and release the progress object.
Eager_Finished(r) == TRUE
Finished(r) == r >= 0

GetResult ==
  /\ ppc = "asleep"
  /\ \/ /\ ~Finished(m_result)
        /\ ppc' = "show"
        /\ UNCHANGED <<alive, verdict>>
     \/ /\ Finished(m_result)
        /\ verdict' = m_result
        /\ ppc' = "released"
        /\ alive' = FALSE
  /\ UNCHANGED <<job_vars, object, shown>>

Over == jpc = "ended" /\ ppc = "released" /\ UNCHANGED vars

Thread == Acquire \/ Opened \/ CopyChunk \/ Copied \/ Close \/ CallThread
Poller == ShowProgress \/ GetResult

Next ==
  \/ Acquire \/ Opened \/ CopyChunk \/ Copied \/ Close \/ CallThread
  \/ ShowProgress \/ GetResult
  \/ Over

Spec == Init /\ [][Next]_vars

\* Two threads the system schedules; the system ends every transfer it accepted.
FairSpec == Spec /\ WF_vars(Thread) /\ WF_vars(Poller)

-----------------------------------------------------------------------------

\* Types; and the cmdlet never hands WriteProgress more than 100 %, which would
\* throw and end the loop with the job still running: not even when the files add
\* up to more than the used size.
TypeOK ==
  /\ job \in Jobs
  /\ jpc \in {"opening", "copying", "closing", "unwinding", "ended"}
  /\ open \in Seq({"dst", "src", "shadow"})
  /\ done \in 0 .. Size + Excess
  /\ refused \in BOOLEAN
  /\ m_result \in {-1, 0, 1} /\ verdict \in {-1, 0, 1}
  /\ m_progress \in -LongFull .. LongFull - 1
  /\ alive \in BOOLEAN
  /\ ppc \in {"show", "asleep", "released"}
  /\ shown \in Int /\ shown <= Percent

\* The thread writes its last result into the progress object.  For a copy by
\* files, which leaves the result to CallThread, the cmdlet cannot have released
\* the object before; for the other copies see ResultMeansEnded.
ObjectOutlivesJob == job = "files" => alive \/ jpc = "ended"

\* The result, once there, does not change: a job that reported success does
\* not turn out to have failed, nor the other way round.
ResultIsFinal == [][m_result >= 0 => m_result' = m_result]_vars

\* The cmdlet reports what the copy function came to.
Outcome == CASE jpc \in {"opening", "copying"} -> "running"
             [] jpc = "closing" \/ (jpc = "ended" /\ m_result = 0) -> "ok"
             [] OTHER -> "error"
Verdict == CASE verdict = -1 -> "none" [] verdict = 0 -> "ok" [] OTHER -> "error"
Contract == INSTANCE JobContract WITH outcome <- Outcome, verdict <- Verdict
ImplementsContract == Contract!Spec

\* The cmdlet stops waiting, unless an overlapped copy had a transfer refused:
\* nothing wakes that copy again, and it reports no result.
PollerStops == <>(ppc = "released" \/ refused)

\* "Result: <0: in progress, =0: ended without error, >0: ended, error code":
\* a result means that the job has ended and holds no handle any more.
ResultMeansEnded == m_result >= 0 => open = <<>>

=============================================================================
