---------------------------- MODULE DemoResults -----------------------------
(***************************************************************************)
(* What the readlink, fstat and read demos make of the result of their one *)
(* call: each reports whether the call was perturbed, from the result      *)
(* alone.  PollInjector says when a handler meets the call; here it is a   *)
(* choice ("hooked").                                                      *)
(*                                                                         *)
(* The file the fstat demo maps was written by fstat_create_file.py: a     *)
(* 32-bit count of names, then the names, each with a NUL.  The demo's     *)
(* sizes are unsigned 32-bit differences: Word stands for 2^32.            *)
(***************************************************************************)
EXTENDS Integers

CONSTANTS
  Word,        \* the number of 32-bit values
  Address,     \* where mmap puts the file
  TextSizes,   \* characters that the names in the file have together
  MaxNames,    \* bound: names in the file
  Counts       \* counts that the file may announce

BUFFER_SIZE == 20
MaxData     == 50    \* more data than this is reported as a perturbed size

(* A mapping lies above 4 GiB, and a test file is smaller than that, even   *)
(* with MaxData more characters in it.                                      *)
ASSUME ResultsAssumption ==
  /\ {Word, Address, MaxNames} \subseteq Nat
  /\ TextSizes \subseteq Nat /\ Counts \subseteq 0 .. Word - 1
  /\ Word < Address
  /\ \A n \in TextSizes \cup {0} : 4 + n + MaxNames + MaxData < Word

VARIABLES
  demo,      \* which demo runs
  names,     \* number of names in the fstat demo's file
  text,      \* characters of these names together, without the NULs
  nlibs,     \* the count at its head
  hooked,    \* the handlers follow the call
  pc,        \* where the demo is
  ok,        \* the call succeeded by itself
  result,    \* readlink's length, st_size, or the integer read from the pipe
  verdict,   \* "success" (reported as perturbed), "plain" or "error"
  stored     \* the bytes of buf that the readlink demo's terminator goes to

vars == <<demo, names, text, nlibs, hooked, pc, ok, result, verdict, stored>>

Init ==
  /\ demo \in {"readlink", "fstat", "read"}
  /\ IF demo = "fstat"
     THEN /\ names \in 0 .. MaxNames /\ nlibs \in Counts
          /\ text \in IF names = 0 THEN {0} ELSE TextSizes
     ELSE names = 0 /\ text = 0 /\ nlibs = 0
  /\ hooked \in BOOLEAN
  /\ pc = "call" /\ ok = TRUE /\ result = 0
  /\ verdict = "none" /\ stored = {}

(* create_test_file: the count, then each name and its NUL.                 *)
FileSize == 4 + text + names

-----------------------------------------------------------------------------
(* The call, as the demo sees it.                                           *)

(* The handler overrides the return value, also that of a failed call.      *)
CallReadlink ==
  /\ demo = "readlink"
  /\ \E len \in -1 .. BUFFER_SIZE - 1 :
       /\ ok' = (len # -1)
       /\ result' = IF hooked THEN 100 ELSE len

(* The handler replaces the low word of st_size, of a call that succeeded.  *)
CallFstat ==
  /\ demo = "fstat"
  /\ ok' \in BOOLEAN
  /\ result' = IF ~ok' THEN -1
               ELSE IF hooked THEN (FileSize \div Word) * Word + 2
               ELSE FileSize

(* The other thread wrote 6 to the pipe; the handler replaces it.           *)
CallRead ==
  /\ demo = "read"
  /\ ok' \in BOOLEAN
  /\ result' = IF ~ok' THEN -1 ELSE IF hooked THEN 11 ELSE 6

Call ==
  /\ pc = "call"
  /\ pc' = "judge"
  /\ CallReadlink \/ CallFstat \/ CallRead
  /\ UNCHANGED <<demo, names, text, nlibs, hooked, verdict, stored>>

-----------------------------------------------------------------------------
(* What the demo reports.                                                   *)

(* Mutant: the length is not compared with the buffer.                      *)
MutantJudgeUnchecked ==
  /\ demo = "readlink"
  /\ verdict' = "plain"
  /\ stored' = {result}

(* A failed call is printed and goes the way of a short one.                *)
JudgeReadlink ==
  /\ demo = "readlink"
  /\ IF result >= BUFFER_SIZE
     THEN verdict' = "success" /\ UNCHANGED stored
     ELSE verdict' = "plain" /\ stored' = {result}

(* Mutant: the table at the head of the file is not part of the offset.     *)
MutantDataSize == (result - 4) % Word

(* From the end of the table, one byte per name, to the end of the file.    *)
DataSize == (result - (4 + nlibs)) % Word

JudgeFstat ==
  /\ demo = "fstat"
  /\ verdict' \in
       IF ~ok THEN {"error"}
       ELSE {"error",   \* mmap failed
             IF ~(Address + 4 + nlibs > DataSize) THEN "error"
             ELSE IF DataSize > MaxData THEN "success"
             ELSE "plain"}
  /\ UNCHANGED stored

JudgeRead ==
  /\ demo = "read"
  /\ verdict' = IF ~ok THEN "error" ELSE IF result = 11 THEN "success"
                ELSE "plain"
  /\ UNCHANGED stored

Judge ==
  /\ pc = "judge"
  /\ pc' = "done"
  /\ JudgeReadlink \/ JudgeFstat \/ JudgeRead
  /\ UNCHANGED <<demo, names, text, nlibs, hooked, ok, result>>

Next == Call \/ Judge

Spec == Init /\ [][Next]_vars
-----------------------------------------------------------------------------
(* What must hold.                                                          *)

(* A file as the script's own example: it announces as many names as it     *)
(* holds, and they are short.                                               *)
WellFormed == nlibs = names /\ text <= MaxData

(* No false alarm and no miss: a demo that comes to a verdict reports a     *)
(* perturbed call exactly when the handlers followed it.  For fstat that    *)
(* rests on the size wrapping around below the table, so it holds for       *)
(* well-formed files only.                                                  *)
VerdictIsHit ==
  pc = "done" /\ verdict # "error" /\ WellFormed =>
    (verdict = "success" <=> hooked)

(* The terminator goes into the buffer, whatever length the handler forges  *)
(* and also when it hides a failure.  The one case left out is a failed     *)
(* call that no handler met: the demo prints the error and goes on, and     *)
(* writes before its buffer.                                                *)
TerminatorInBuffer ==
  ok \/ hooked => stored \subseteq 0 .. BUFFER_SIZE - 1
=============================================================================
