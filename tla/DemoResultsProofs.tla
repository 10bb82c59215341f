------------------------- MODULE DemoResultsProofs --------------------------
(* Proof that the demos' verdicts are right, for every size of the word,    *)
(* every address and every well-formed file.                                *)
EXTENDS DemoResults, TLAPS

(* The file of the fstat demo; the other demos have none.                   *)
FileTypes ==
  /\ demo \in {"readlink", "fstat", "read"}
  /\ pc \in {"call", "judge", "done"}
  /\ hooked \in BOOLEAN
  /\ names \in 0 .. MaxNames
  /\ text \in TextSizes \cup {0}
  /\ nlibs \in Nat

(* What the call hands to the demo.                                         *)
ResultInv ==
  /\ ok \in BOOLEAN
  /\ pc # "call" =>
     /\ demo = "readlink" =>
          IF hooked THEN result = 100
          ELSE result \in -1 .. BUFFER_SIZE - 1 /\ (ok => result # -1)
     /\ demo = "fstat" /\ ok => result = IF hooked THEN 2 ELSE FileSize
     /\ demo = "read" /\ ok => result = IF hooked THEN 11 ELSE 6

StoredInv == pc # "done" => stored = {}

IInv == FileTypes /\ ResultInv /\ StoredInv /\ VerdictIsHit /\ TerminatorInBuffer

-----------------------------------------------------------------------------
(* Arithmetic of 32-bit differences.                                        *)

(* A difference that is not negative is kept.                               *)
LEMMA KeptByWord ==
  ASSUME NEW w \in Nat, NEW x \in 0 .. w - 1
  PROVE  x % w = x /\ x \div w = 0
  OBVIOUS

(* A negative one wraps around once.                                        *)
LEMMA WrapsInWord ==
  ASSUME NEW w \in Nat, NEW x \in 1 .. w
  PROVE  (0 - x) % w = w - x
  OBVIOUS

LEMMA Bounds ==
  /\ Word \in Nat /\ Address \in Nat /\ MaxNames \in Nat
  /\ Word < Address
  /\ \A n \in TextSizes \cup {0} :
       n \in Nat /\ 4 + n + MaxNames + 50 < Word
BY ResultsAssumption DEF ResultsAssumption, MaxData

-----------------------------------------------------------------------------
LEMMA InitIInv == Init => IInv
<1> SUFFICES ASSUME Init PROVE IInv
  OBVIOUS
<1> USE DEF Init
<1>1. FileTypes
  <2>1. Counts \subseteq Nat
    BY ResultsAssumption DEF ResultsAssumption
  <2>2. CASE demo = "fstat" BY <2>1, <2>2, Bounds DEF FileTypes
  <2>3. CASE demo # "fstat" BY <2>3, Bounds DEF FileTypes
  <2> QED BY <2>2, <2>3
<1>2. ResultInv /\ StoredInv BY DEF ResultInv, StoredInv
<1>3. VerdictIsHit /\ TerminatorInBuffer
  BY DEF VerdictIsHit, TerminatorInBuffer
<1> QED BY <1>1, <1>2, <1>3 DEF IInv

LEMMA CallStep == IInv /\ Call => IInv'
<1> SUFFICES ASSUME IInv, Call PROVE IInv'
  OBVIOUS
<1> USE DEF Call, IInv
<1>1. FileTypes' BY DEF FileTypes
<1>2. ResultInv'
  <2>1. CASE CallReadlink
    BY <2>1 DEF CallReadlink, ResultInv, BUFFER_SIZE
  <2>2. CASE CallFstat
    <3>1. FileSize \in 0 .. Word - 1
      BY Bounds DEF FileTypes, FileSize
    <3>2. FileSize \div Word = 0 BY <3>1, Bounds, KeptByWord
    <3>3. (FileSize \div Word) * Word + 2 = 2 BY <3>2, Bounds
    <3>4. FileSize' = FileSize BY DEF FileSize
    <3> QED BY <2>2, <3>3, <3>4 DEF CallFstat, ResultInv
  <2>3. CASE CallRead BY <2>3 DEF CallRead, ResultInv
  <2> QED BY <2>1, <2>2, <2>3
<1>3. StoredInv' BY DEF StoredInv
<1>4. VerdictIsHit' BY DEF VerdictIsHit
<1>5. TerminatorInBuffer' BY DEF StoredInv, TerminatorInBuffer
<1> QED BY <1>1, <1>2, <1>3, <1>4, <1>5

(* The size left behind the table of a well-formed file: that of the names, *)
(* or, of a size below the table, one that wraps far beyond MaxData.        *)
LEMMA SizeLeft ==
  ASSUME FileTypes, WellFormed, result = IF hooked THEN 2 ELSE FileSize
  PROVE  /\ DataSize \in 0 .. Word - 1
         /\ DataSize > MaxData <=> hooked
<1> USE Bounds DEF FileTypes, WellFormed, MaxData
<1>1. CASE hooked
  <2>1. result - (4 + nlibs) = 0 - (nlibs + 2) BY <1>1
  <2>2. nlibs + 2 \in 1 .. Word OBVIOUS
  <2>3. DataSize = Word - (nlibs + 2)
    BY <2>1, <2>2, WrapsInWord DEF DataSize
  <2> QED BY <1>1, <2>2, <2>3
<1>2. CASE ~hooked
  <2>1. result - (4 + nlibs) = text BY <1>2 DEF FileSize
  <2>2. text \in 0 .. Word - 1 OBVIOUS
  <2>3. DataSize = text BY <2>1, <2>2, KeptByWord DEF DataSize
  <2> QED BY <1>2, <2>2, <2>3
<1> QED BY <1>1, <1>2

LEMMA JudgeStep == IInv /\ Judge => IInv'
<1> SUFFICES ASSUME IInv, Judge PROVE IInv'
  OBVIOUS
<1> USE DEF Judge, IInv
<1>1. FileTypes' BY DEF FileTypes
<1>2. ResultInv'
  <2>1. FileSize' = FileSize BY DEF FileSize
  <2> QED BY <2>1 DEF ResultInv
<1>3. StoredInv' BY DEF StoredInv
<1>4. VerdictIsHit'
  <2> SUFFICES ASSUME verdict' # "error", WellFormed
               PROVE  verdict' = "success" <=> hooked
    BY DEF VerdictIsHit, WellFormed
  <2>1. CASE JudgeReadlink
    BY <2>1 DEF JudgeReadlink, ResultInv, BUFFER_SIZE, FileTypes
  <2>2. CASE JudgeFstat
    <3>1. ok BY <2>2 DEF JudgeFstat
    <3>2. result = IF hooked THEN 2 ELSE FileSize
      BY <2>2, <3>1 DEF JudgeFstat, ResultInv
    <3>3. DataSize \in 0 .. Word - 1 /\ (DataSize > MaxData <=> hooked)
      BY <3>2, SizeLeft
    <3>4. Address + 4 + nlibs > DataSize BY <3>3, Bounds DEF FileTypes
    <3> QED BY <2>2, <3>1, <3>3, <3>4 DEF JudgeFstat
  <2>3. CASE JudgeRead BY <2>3 DEF JudgeRead, ResultInv, FileTypes
  <2> QED BY <2>1, <2>2, <2>3
<1>5. TerminatorInBuffer'
  <2>1. CASE JudgeReadlink
    BY <2>1
    DEF JudgeReadlink, ResultInv, StoredInv, BUFFER_SIZE, FileTypes,
        TerminatorInBuffer
  <2>2. CASE JudgeFstat \/ JudgeRead
    BY <2>2 DEF JudgeFstat, JudgeRead, TerminatorInBuffer
  <2> QED BY <2>1, <2>2
<1> QED BY <1>1, <1>2, <1>3, <1>4, <1>5

(* The inductive invariant: what the call handed over is known until the    *)
(* demo has judged it.                                                      *)
THEOREM Invariance == Spec => []IInv
<1>1. IInv /\ [Next]_vars => IInv'
  <2>1. ASSUME IInv, UNCHANGED vars PROVE IInv'
    BY <2>1 DEF vars, IInv, FileTypes, ResultInv, StoredInv, FileSize,
                VerdictIsHit, WellFormed, TerminatorInBuffer
  <2> QED BY <2>1, CallStep, JudgeStep DEF Next
<1> QED BY InitIInv, <1>1, PTL DEF Spec

(* The readlink, fstat and read demos report a perturbed call exactly when  *)
(* the handlers followed it, for every word size, mapping address and       *)
(* well-formed file: the unsigned difference of the fstat demo wraps to     *)
(* more than MaxData for the forged size and for no true one.               *)
THEOREM VerdictIsRight == Spec => []VerdictIsHit
<1>1. IInv => VerdictIsHit BY DEF IInv
<1> QED BY Invariance, <1>1, PTL

(* The readlink demo's terminator goes into its buffer, whatever length the *)
(* handler forged, also when it hid a failed call.                          *)
THEOREM TerminatorIsInside == Spec => []TerminatorInBuffer
<1>1. IInv => TerminatorInBuffer BY DEF IInv
<1> QED BY Invariance, <1>1, PTL
=============================================================================
