---------------------------- MODULE WmiJobProofs ----------------------------
(***************************************************************************)
(* What TLAPS proves about WmiJob, for every set of answers of the         *)
(* provider and every width of m_semi_progress that SizeAssumption allows. *)
(***************************************************************************)
EXTENDS WmiJob, TLAPS

-----------------------------------------------------------------------------
(* Arithmetic of the made-up progress. *)

LEMMA DivModType ==
  ASSUME NEW a \in Nat, NEW b \in Nat \ {0}
  PROVE  a \div b \in Nat /\ a % b \in 0 .. b - 1
BY Z3

LEMMA DivMod ==
  ASSUME NEW a \in Nat, NEW b \in Nat \ {0}
  PROVE  a = b * (a \div b) + (a % b)
BY Z3

LEMMA ToIntType == ASSUME NEW x \in Int PROVE ToInt(x) \in -IntFull .. IntFull - 1
<1>1. (x + IntFull) % (2 * IntFull) \in 0 .. 2 * IntFull - 1
  BY SizeAssumption, Z3
<1> QED BY <1>1, SizeAssumption DEF ToInt

LEMMA AdvanceType ==
  ASSUME NEW p \in Int PROVE Advance(p) \in -IntFull .. IntFull - 1
<1>1. Step \in Int
  BY SizeAssumption DEF Step
<1> QED BY <1>1, ToIntType DEF Advance

\* Whatever m_semi_progress holds, the cmdlet shows no more than 100 %.
LEMMA ShownIsAtMostAll ==
  ASSUME NEW p \in -IntFull .. IntFull - 1
  PROVE  /\ Truncate(p, Step) \in Int
         /\ Truncate(p, Step) <= Percent
<1> DEFINE q == Step
<1>1. IntFull - 1 \in Nat /\ Percent \in Nat \ {0}
  BY SizeAssumption
<1>2. /\ q \in Nat
      /\ IntFull - 1 = Percent * q + ((IntFull - 1) % Percent)
      /\ (IntFull - 1) % Percent \in Nat
  <2>1. q \in Nat /\ (IntFull - 1) % Percent \in 0 .. Percent - 1
    BY <1>1, DivModType DEF Step
  <2>2. IntFull - 1 = Percent * q + ((IntFull - 1) % Percent)
    BY <1>1, DivMod, Zenon DEF Step
  <2> QED BY <1>1, <2>1, <2>2
<1>3. q > 0 /\ IntFull - 1 < Percent * q + q
  BY <1>1, <1>2, SizeAssumption DEF Step
<1>4. CASE p < 0
  <2>1. -p \in Nat /\ (-p) \div q \in Nat
    BY <1>2, <1>3, <1>4, SizeAssumption, Z3
  <2> QED BY <1>1, <1>4, <2>1 DEF Truncate
<1>5. CASE p >= 0
  <2>1. p \in Nat /\ p <= IntFull - 1
    BY <1>5, SizeAssumption
  <2>2. p \div q \in Nat /\ (p \div q) * q <= p
    BY <1>2, <1>3, <2>1, Z3
  <2>3. (p \div q) * q < (Percent + 1) * q
    BY <1>1, <1>2, <1>3, <2>1, <2>2
  <2>4. p \div q < Percent + 1
    <3> DEFINE d == p \div q
    <3> HIDE DEF d, q
    <3>1. d \in Nat /\ q \in Nat /\ q > 0 /\ d * q < (Percent + 1) * q
      BY <1>2, <1>3, <2>2, <2>3 DEF d
    <3>2. SUFFICES ASSUME d >= Percent + 1 PROVE FALSE
      BY <1>1, <3>1 DEF d
    <3>3. (d - (Percent + 1)) * q >= 0
      BY <1>1, <3>1, <3>2
    <3>4. (d - (Percent + 1)) * q = d * q - (Percent + 1) * q
      BY <1>1, <3>1
    <3> QED BY <1>1, <3>1, <3>3, <3>4
  <2> QED BY <1>1, <1>5, <2>2, <2>4 DEF Truncate
<1> QED BY <1>4, <1>5

-----------------------------------------------------------------------------
(* Type correctness. *)

LEMMA TypeInit == Init => TypeOK
BY SizeAssumption DEF Init, TypeOK

LEMMA TypeStep == TypeOK /\ [Next]_vars => TypeOK'
<1> SUFFICES ASSUME TypeOK, [Next]_vars PROVE TypeOK'
  OBVIOUS
<1> USE DEF TypeOK
<1>1. CASE ResizeAsync
  BY <1>1 DEF ResizeAsync
<1>2. CASE Answer
  BY <1>2 DEF Answer
<1>3. CASE ShowProgress
  <2>1. m_semi_progress' \in -IntFull .. IntFull - 1
    BY <1>3, AdvanceType, SizeAssumption DEF ShowProgress
  <2> QED BY <1>3, <2>1, ShownIsAtMostAll DEF ShowProgress
<1>4. CASE UseMissingResult
  BY <1>4 DEF UseMissingResult
<1>5. CASE GetResult
  BY <1>5 DEF GetResult
<1>6. CASE Over \/ UNCHANGED vars
  BY <1>6 DEF Over, vars
<1> QED BY <1>1, <1>2, <1>3, <1>4, <1>5, <1>6 DEF Next

\* Type correctness of the call, its progress object and the cmdlet; in
\* particular the cmdlet never shows more than 100 %, although nothing stops the
\* int that GetProgress advances from wrapping around.
THEOREM TypeCorrect == Spec => []TypeOK
<1> QED BY TypeInit, TypeStep, PTL DEF Spec

-----------------------------------------------------------------------------
(* The status. *)

\* The status is only set once the provider has answered, and the cmdlet leaves
\* with that status and no other.
StatusInv ==
  /\ m_status = 0 => answer \in {"ok", "refused"}
  /\ verdict = (IF pc = "released" THEN m_status ELSE -1)
  /\ pc = "released" => m_status = 0

LEMMA StatusInit == Init => StatusInv
BY DEF Init, StatusInv

LEMMA StatusStep == TypeOK /\ StatusInv /\ [Next]_vars => StatusInv'
<1> SUFFICES ASSUME TypeOK, StatusInv, [Next]_vars PROVE StatusInv'
  OBVIOUS
<1> USE DEF TypeOK, StatusInv
<1>1. CASE ResizeAsync
  BY <1>1 DEF ResizeAsync
<1>2. CASE Answer
  BY <1>2 DEF Answer
<1>3. CASE ShowProgress
  BY <1>3 DEF ShowProgress, Answered
<1>4. CASE UseMissingResult
  BY <1>4 DEF UseMissingResult
<1>5. CASE GetResult
  BY <1>5 DEF GetResult
<1>6. CASE Over \/ UNCHANGED vars
  BY <1>6 DEF Over, vars
<1> QED BY <1>1, <1>2, <1>3, <1>4, <1>5, <1>6 DEF Next

\* Whatever the provider does, a status means that it has answered, and the
\* cmdlet reports no other.
THEOREM StatusAgrees == Spec => []StatusInv
<1> QED BY TypeInit, TypeStep, StatusInit, StatusStep, PTL DEF Spec

-----------------------------------------------------------------------------
(* The contract. *)

LEMMA ContractStep ==
  TypeOK /\ StatusInv /\ [Next]_vars => [Contract!Next]_(Contract!vars)
<1> SUFFICES ASSUME TypeOK, StatusInv, [Next]_vars
             PROVE  [Contract!Next]_(Contract!vars)
  OBVIOUS
<1> USE DEF TypeOK, StatusInv, Outcome, Verdict,
            Contract!Next, Contract!Settle, Contract!Report, Contract!vars
<1>1. CASE ResizeAsync
  BY <1>1 DEF ResizeAsync
<1>2. CASE Answer
  BY <1>2, AnswerAssumption DEF Answer
<1>3. CASE ShowProgress
  BY <1>3 DEF ShowProgress
<1>4. CASE UseMissingResult
  BY <1>4 DEF UseMissingResult
<1>5. CASE GetResult
  BY <1>5 DEF GetResult
<1>6. CASE Over \/ UNCHANGED vars
  BY <1>6 DEF Over, vars
<1> QED BY <1>1, <1>2, <1>3, <1>4, <1>5, <1>6 DEF Next

\* A WMI call implements JobContract: the cmdlet never reports before the
\* provider has ended the call, and of a call that failed it reports nothing.
THEOREM ContractKept == Spec => ImplementsContract
<1>1. Init => Contract!Init
  BY DEF Init, Outcome, Verdict, Contract!Init
<1> QED BY <1>1, ContractStep, TypeCorrect, StatusAgrees, PTL
        DEF Spec, ImplementsContract, Contract!Spec

=============================================================================
