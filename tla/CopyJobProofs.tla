---------------------------- MODULE CopyJobProofs ---------------------------
(***************************************************************************)
(* What TLAPS proves about CopyJob, for every set of jobs, every size of   *)
(* the transfer and every excess of the files over the used size, and      *)
(* every width of m_progress that JobAssumption allows.                    *)
(***************************************************************************)
EXTENDS CopyJob, SequenceTheorems, TLAPS

Handles == {"dst", "src", "shadow"}

-----------------------------------------------------------------------------
(* Arithmetic of the progress. *)

LEMMA DivModType ==
  ASSUME NEW a \in Nat, NEW b \in Nat \ {0}
  PROVE  a \div b \in Nat /\ a % b \in 0 .. b - 1
BY Z3

LEMMA DivMod ==
  ASSUME NEW a \in Nat, NEW b \in Nat \ {0}
  PROVE  a = b * (a \div b) + (a % b)
BY Z3

LEMMA ToLongType == ASSUME NEW x \in Int PROVE ToLong(x) \in -LongFull .. LongFull - 1
<1>1. (x + LongFull) % (2 * LongFull) \in 0 .. 2 * LongFull - 1
  BY JobAssumption, Z3
<1> QED BY <1>1, JobAssumption DEF ToLong

LEMMA PercentOfType ==
  ASSUME NEW d \in Int PROVE PercentOf(d, Size) \in -LongFull .. LongFull - 1
<1>1. d * LongFull \in Int
  BY JobAssumption
<1>2. (d * LongFull) \div Size \in Int
  BY <1>1, JobAssumption
<1> QED BY <1>2, ToLongType DEF PercentOf

\* Whatever m_progress holds, the cmdlet shows no more than 100 %.
LEMMA ShownIsAtMostAll ==
  ASSUME NEW p \in -LongFull .. LongFull - 1
  PROVE  /\ Truncate(p, (LongFull - 1) \div Percent) \in Int
         /\ Truncate(p, (LongFull - 1) \div Percent) <= Percent
<1> DEFINE q == (LongFull - 1) \div Percent
<1>1. LongFull - 1 \in Nat /\ Percent \in Nat \ {0}
  BY JobAssumption
<1>2. /\ q \in Nat
      /\ LongFull - 1 = Percent * q + ((LongFull - 1) % Percent)
      /\ (LongFull - 1) % Percent \in Nat
  <2>1. q \in Nat /\ (LongFull - 1) % Percent \in 0 .. Percent - 1
    BY <1>1, DivModType
  <2>2. LongFull - 1 = Percent * q + ((LongFull - 1) % Percent)
    BY <1>1, DivMod, Zenon
  <2> QED BY <1>1, <2>1, <2>2
<1>3. q > 0 /\ LongFull - 1 < Percent * q + q
  BY <1>1, <1>2, JobAssumption
<1>4. CASE p < 0
  <2>1. -p \in Nat /\ (-p) \div q \in Nat
    BY <1>2, <1>3, <1>4, JobAssumption, Z3
  <2> QED BY <1>1, <1>4, <2>1 DEF Truncate
<1>5. CASE p >= 0
  <2>1. p \in Nat /\ p <= LongFull - 1
    BY <1>5, JobAssumption
  <2>2. p \div q \in Nat /\ (p \div q) * q <= p
    BY <1>2, <1>3, <2>1, Z3
  <2>3. (p \div q) * q < (Percent + 1) * q
    BY <1>1, <1>2, <1>3, <2>1, <2>2
  <2>4. p \div q < Percent + 1
    <3> DEFINE d == p \div q
    <3> HIDE DEF d, q
    <3>1. d \in Nat /\ q \in Nat /\ q > 0 /\ d * q < (Percent + 1) * q
      BY <1>2, <1>3, <2>2, <2>3 DEF d
    <3>2. SUFFICES ASSUME d >= Percent + 1 PROVE FALSE
      BY <1>1, <3>1 DEF d
    <3>3. (d - (Percent + 1)) * q >= 0
      BY <1>1, <3>1, <3>2
    <3>4. (d - (Percent + 1)) * q = d * q - (Percent + 1) * q
      BY <1>1, <3>1
    <3> QED BY <1>1, <3>1, <3>3, <3>4
  <2> QED BY <1>1, <1>5, <2>2, <2>4 DEF Truncate
<1> QED BY <1>4, <1>5

-----------------------------------------------------------------------------
(* Type correctness. *)

\* What a job takes next is a handle.
LEMMA AcquiresType ==
  ASSUME job \in JobNames, NEW n \in Nat, n < Len(Acquires)
  PROVE  Acquires[n + 1] \in Handles
<1>1. CASE job = "partition"
  BY <1>1 DEF Acquires, CopyPartition, Handles
<1>2. CASE job \in {"volume", "sectors"}
  BY <1>2 DEF Acquires, CopyVolumeBySector, Handles
<1>3. CASE job = "shadow"
  BY <1>3 DEF Acquires, CopyVolumeBySector, Handles
<1>4. CASE job = "tofile"
  BY <1>4 DEF Acquires, CopyVolumeToFile, Handles
<1>5. CASE job = "files"
  BY <1>5 DEF Acquires, CopyVolumeByFile, Handles
<1> QED BY <1>1, <1>2, <1>3, <1>4, <1>5 DEF JobNames

LEMMA TypeInit == Init => TypeOK
<1> SUFFICES ASSUME Init PROVE TypeOK
  OBVIOUS
<1>1. /\ job \in Jobs /\ jpc = "opening" /\ open = <<>> /\ done = 0 /\ refused = FALSE
      /\ m_result = -1 /\ m_progress = 0 /\ alive = TRUE
      /\ ppc = "show" /\ shown = 0 /\ verdict = -1
  BY DEF Init, Run
<1>2. /\ m_progress \in -LongFull .. LongFull - 1 /\ done \in 0 .. Size + Excess
      /\ shown \in Int /\ shown <= Percent
      /\ m_result \in {-1, 0, 1} /\ verdict \in {-1, 0, 1}
  BY <1>1, JobAssumption
<1>3. open \in Seq({"dst", "src", "shadow"})
  BY <1>1
<1>4. jpc \in {"opening", "copying", "closing", "unwinding", "ended"}
  BY <1>1
<1> QED BY <1>1, <1>2, <1>3, <1>4, Zenon DEF TypeOK

LEMMA TypeStep == TypeOK /\ [Next]_vars => TypeOK'
<1> SUFFICES ASSUME TypeOK, [Next]_vars PROVE TypeOK'
  OBVIOUS
<1> USE DEF TypeOK
<1>1. CASE Acquire
  <2>1. job \in JobNames /\ Len(open) \in Nat
    BY JobAssumption
  <2>2. Acquires[Len(open) + 1] \in Handles
    BY <1>1, <2>1, AcquiresType DEF Acquire
  <2>3. Append(open, Acquires[Len(open) + 1]) \in Seq(Handles)
    BY <2>2 DEF Handles
  <2> QED BY <1>1, <2>3 DEF Acquire, object, poller, Handles
<1>2. CASE Opened
  BY <1>2 DEF Opened, object, poller
<1>3. CASE CopyChunk
  <2>1. done' \in 0 .. Size + Excess
    BY <1>3, JobAssumption DEF CopyChunk, Total
  <2>2. PercentOf(done', Size) \in -LongFull .. LongFull - 1
    BY <2>1, PercentOfType, JobAssumption
  <2> QED BY <1>3, <2>1, <2>2 DEF CopyChunk, poller
<1>4. CASE Copied
  BY <1>4 DEF Copied, EndOfCopy, poller
<1>5. CASE Close
  <2>1. open' \in Seq(Handles)
    BY <1>5, SubSeqProperties, LenProperties DEF Close, Handles
  <2> QED BY <1>5, <2>1 DEF Close, object, poller, Handles
<1>6. CASE CallThread
  BY <1>6 DEF CallThread, ResultOfCall, poller
<1>7. CASE ShowProgress
  BY <1>7, ShownIsAtMostAll DEF ShowProgress, job_vars, object
<1>8. CASE GetResult
  BY <1>8 DEF GetResult, Finished, job_vars, object
<1>9. CASE Over \/ UNCHANGED vars
  BY <1>9 DEF Over, vars
<1> QED BY <1>1, <1>2, <1>3, <1>4, <1>5, <1>6, <1>7, <1>8, <1>9 DEF Next

\* Type correctness of the job, its progress object and the cmdlet; in
\* particular the percentage the cmdlet displays never exceeds 100 %, although
\* the long that CCopyProgress::SetProgress makes of it may wrap around.
THEOREM TypeCorrect == Spec => []TypeOK
<1> QED BY TypeInit, TypeStep, PTL DEF Spec

-----------------------------------------------------------------------------
(* What the result says, at each point of the thread and of the cmdlet. *)

\* Nothing is reported before the copy function ends; what it reports then is
\* success, unless it copies files; only CallThread reports a failure.  The
\* cmdlet leaves with the result it read, and only then the object goes.
ResultInv ==
  /\ jpc \in {"opening", "copying", "unwinding"} => m_result = -1
  /\ jpc = "closing" => m_result = (IF job = "files" THEN -1 ELSE 0)
  /\ jpc = "ended" => m_result >= 0
  /\ alive <=> ppc # "released"
  /\ verdict = (IF ppc = "released" THEN m_result ELSE -1)
  /\ ppc = "released" => m_result >= 0

LEMMA ResultInit == Init => ResultInv
BY DEF Init, Run, ResultInv

LEMMA ResultStep == TypeOK /\ ResultInv /\ [Next]_vars => ResultInv'
<1> SUFFICES ASSUME TypeOK, ResultInv, [Next]_vars PROVE ResultInv'
  OBVIOUS
<1> USE DEF TypeOK, ResultInv
<1>1. CASE Acquire
  BY <1>1 DEF Acquire, object, poller
<1>2. CASE Opened
  BY <1>2 DEF Opened, object, poller
<1>3. CASE CopyChunk
  BY <1>3 DEF CopyChunk, poller
<1>4. CASE Copied
  BY <1>4 DEF Copied, EndOfCopy, poller
<1>5. CASE Close
  BY <1>5 DEF Close, object, poller
<1>6. CASE CallThread
  BY <1>6 DEF CallThread, ResultOfCall, poller
<1>7. CASE ShowProgress
  BY <1>7 DEF ShowProgress, job_vars, object
<1>8. CASE GetResult
  BY <1>8 DEF GetResult, Finished, job_vars, object
<1>9. CASE Over \/ UNCHANGED vars
  BY <1>9 DEF Over, vars
<1> QED BY <1>1, <1>2, <1>3, <1>4, <1>5, <1>6, <1>7, <1>8, <1>9 DEF Next

\* At every point the result agrees with where the thread is, and what the
\* cmdlet reports with the result.
THEOREM ResultAgrees == Spec => []ResultInv
<1> QED BY TypeInit, TypeStep, ResultInit, ResultStep, PTL DEF Spec

\* A job that copies files writes its last result into an object that exists.
THEOREM ObjectIsKept == Spec => []ObjectOutlivesJob
<1>1. TypeOK /\ ResultInv => ObjectOutlivesJob
  BY DEF TypeOK, ResultInv, ObjectOutlivesJob
<1> QED BY <1>1, TypeCorrect, ResultAgrees, PTL

\* A result that was reported never changes: the code sets it at the end of the
\* copy and again in CallThread, and the two agree.
THEOREM ResultFinal == Spec => ResultIsFinal
<1>1. ResultInv /\ [Next]_vars => [m_result >= 0 => m_result' = m_result]_vars
  <2> SUFFICES ASSUME ResultInv, Next, m_result >= 0 PROVE m_result' = m_result
    BY DEF vars
  <2>1. CASE Copied
    BY <2>1 DEF Copied, ResultInv
  <2>2. CASE CallThread
    BY <2>2 DEF CallThread, ResultOfCall, ResultInv
  <2>3. CASE Acquire \/ Opened \/ CopyChunk \/ Close \/ ShowProgress \/ GetResult \/ Over
    BY <2>3 DEF Acquire, Opened, CopyChunk, Close, ShowProgress, GetResult, Over, object, vars
  <2> QED BY <2>1, <2>2, <2>3 DEF Next
<1> QED BY <1>1, ResultAgrees, PTL DEF Spec, ResultIsFinal

-----------------------------------------------------------------------------
(* The contract. *)

LEMMA ContractStep ==
  TypeOK /\ ResultInv /\ [Next]_vars => [Contract!Next]_(Contract!vars)
<1> SUFFICES ASSUME TypeOK, ResultInv, [Next]_vars
             PROVE  [Contract!Next]_(Contract!vars)
  OBVIOUS
<1> USE DEF TypeOK, ResultInv, Outcome, Verdict,
            Contract!Next, Contract!Settle, Contract!Report, Contract!vars
<1>1. CASE Acquire
  BY <1>1 DEF Acquire, object, poller
<1>2. CASE Opened
  BY <1>2 DEF Opened, object, poller
<1>3. CASE CopyChunk
  BY <1>3 DEF CopyChunk, poller
<1>4. CASE Copied
  BY <1>4 DEF Copied, EndOfCopy, poller
<1>5. CASE Close
  BY <1>5 DEF Close, object, poller
<1>6. CASE CallThread
  BY <1>6 DEF CallThread, ResultOfCall, poller
<1>7. CASE ShowProgress
  BY <1>7 DEF ShowProgress, job_vars, object
<1>8. CASE GetResult
  <2>1. Outcome' = Outcome
    BY <1>8 DEF GetResult, job_vars, object
  <2>2. CASE verdict' = verdict
    BY <2>1, <2>2
  <2>3. CASE m_result >= 0 /\ ppc' = "released" /\ verdict' = m_result
    <3>1. verdict = -1 /\ jpc \in {"closing", "ended"}
      BY <1>8, <2>3 DEF GetResult
    <3>2. CASE m_result = 0
      BY <2>1, <2>3, <3>1, <3>2
    <3>3. CASE m_result = 1
      BY <2>1, <2>3, <3>1, <3>3
    <3> QED BY <2>3, <3>2, <3>3
  <2> QED BY <1>8, <2>2, <2>3 DEF GetResult, Finished
<1>9. CASE Over \/ UNCHANGED vars
  BY <1>9 DEF Over, vars
<1> QED BY <1>1, <1>2, <1>3, <1>4, <1>5, <1>6, <1>7, <1>8, <1>9 DEF Next

\* A job implements JobContract: it settles its outcome once, when the copy
\* function returns or throws, and the cmdlet reports that outcome.
THEOREM ContractKept == Spec => ImplementsContract
<1>1. Init => Contract!Init
  BY DEF Init, Run, Outcome, Verdict, Contract!Init
<1> QED BY <1>1, ContractStep, TypeCorrect, ResultAgrees, PTL
        DEF Spec, ImplementsContract, Contract!Spec

=============================================================================
