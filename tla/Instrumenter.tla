---------------------------- MODULE Instrumenter ----------------------------
(***************************************************************************)
(* modify.py: the script that put write_coordination_file(...) into the    *)
(* tests of the corpus, and accept/modify.py, which differs from it in one *)
(* regular expression.  The script reads a C file line by line with a      *)
(* brace counter of its own; here the file is produced line by line at the *)
(* same time, with its real structure, so that each marker is known to     *)
(* stand at the place it was meant for or elsewhere.                       *)
(*                                                                         *)
(* A line is abstracted to what the script tells apart (is it a header of  *)
(* the test function, is it a lone "{", how many braces does it count) and *)
(* to the braces it really has.                                            *)
(*                                                                         *)
(* The script writes its result over its input and looks for no marker of  *)
(* its own, so a second run reads what the first one wrote: "pass2" is     *)
(* the state of that run, one line behind the other.                       *)
(***************************************************************************)
EXTENDS Integers, Sequences

CONSTANT MaxLines    \* bound: lines of the file

ASSUME LinesAssumption == MaxLines \in Nat

Text(counted, real) ==
  [header |-> FALSE, lone |-> FALSE, counted |-> counted, real |-> real]

Prototype == [Text(0, 0) EXCEPT !.header = TRUE]  \* static void run(void);
Header    == Prototype                            \* static void run(void)
HeaderKR  == [Text(1, 1) EXCEPT !.header = TRUE]  \* static void run(void) {
Lone      == [Text(1, 1) EXCEPT !.lone = TRUE]    \* {
Opens     == Text(1, 1)                           \* if (fd < 0) {
Closes    == Text(-1, -1)                         \* }
Plain     == Text(0, 0)                           \* a statement, } else {
Quoted    == Text(1, 0)                           \* a "{" in a string
QuotedEnd == Text(-1, 0)                          \* a "}" in a string

(* Mutant: the inserted text opens a block.                                 *)
MutantMarker == Opens

(* write_coordination_file("..."); as a line that the script reads again.   *)
Marker == Plain

VARIABLES
  where,       \* what the file is in: "file", "header", "body" or "after"
  depth,       \* its open braces
  found,       \* the script knows the function's name and its header
  pass1,       \* the script's variables and markers, in the first run
  pass2,       \* and in a run on the output of the first
  odd,         \* history: what the file has that the script does not expect
  lines

vars == <<where, depth, found, pass1, pass2, odd, lines>>

Script(n) ==
  [in_function : BOOLEAN, brace_level : -n .. n, end_append : BOOLEAN,
   starts : Seq({"top", "nested", "outside"}),   \* where markers were put
   ends   : Seq({"last", "early", "outside"})]

TypeOK ==
  /\ where \in {"file", "header", "body", "after"}
  /\ depth \in 0 .. MaxLines
  /\ found \in BOOLEAN
  /\ pass1 \in Script(MaxLines) /\ pass2 \in Script(MaxLines)
  /\ odd \subseteq {"prototype", "headerBrace", "headerGap", "block",
                  "quotedBrace"}
  /\ lines \in 0 .. MaxLines

Fresh == [in_function |-> FALSE, brace_level |-> 0, end_append |-> FALSE,
          starts |-> <<>>, ends |-> <<>>]

(* The file assigns its test function to .test or .test_all, or the script  *)
(* leaves it alone; accept/modify.py does not take a "static" header.       *)
Finds(named, static, script) ==
  named /\ (static => script # "accept/modify.py")

Init ==
  /\ where = "file" /\ depth = 0 /\ odd = {} /\ lines = 0
  /\ \E named, static \in BOOLEAN :
       \E script \in {"modify.py", "accept/modify.py"} :
         found = Finds(named, static, script)
  /\ pass1 = Fresh /\ pass2 = Fresh

(* The end of the header's parameter list opens the body, its last brace    *)
(* ends it.                                                                 *)
BeginsBody(line) == \/ where = "header" /\ line = Lone
                    \/ where = "file" /\ line = HeaderKR
EndsBody(line)   == where = "body" /\ depth = 1 /\ line.real = -1

(* Where a marker comes to stand that is put after or before the line.      *)
Place(line) ==
  [start |-> IF BeginsBody(line) THEN "top"
             ELSE IF where = "body" THEN "nested" ELSE "outside",
   end   |-> IF EndsBody(line) THEN "last"
             ELSE IF where = "body" THEN "early" ELSE "outside"]

(* The same for a marker of the first run, which is a line of that part.    *)
MarkerPlace(part) ==
  [start |-> "nested", end |-> IF part = "body" THEN "early" ELSE "outside"]

-----------------------------------------------------------------------------
(* The script s: one turn of its loop on a line.                            *)

SearchTurn(s, line) == [s EXCEPT !.in_function = found /\ line.header]

(* Mutant: a lone brace is counted on both paths (the continue is missing). *)
MutantLoneCountedTwice(s, place) ==
  [s EXCEPT !.brace_level = @ + 2, !.starts = Append(@, place.start)]

LoneTurn(s, place) ==
  [s EXCEPT !.brace_level = @ + 1, !.starts = Append(@, place.start)]

FunctionEnds(s, place) ==
  [s EXCEPT !.in_function = FALSE,
            !.end_append  = TRUE,
            !.ends = IF s.end_append THEN @ ELSE Append(@, place.end)]

(* Mutant: end_append is not looked at.                                     *)
MutantEndAgain(s, line, place) ==
  LET counted == [s EXCEPT !.brace_level = @ + line.counted]
  IN  IF counted.brace_level = 0
      THEN FunctionEnds([counted EXCEPT !.end_append = FALSE], place)
      ELSE counted

(* Mutant: the level is tested before the braces of the line are counted.   *)
MutantTestThenCount(s, line, place) ==
  LET counted == [s EXCEPT !.brace_level = @ + line.counted]
  IN  IF s.brace_level = 0 THEN FunctionEnds(counted, place) ELSE counted

CountTurn(s, line, place) ==
  LET counted == [s EXCEPT !.brace_level = @ + line.counted]
  IN  IF counted.brace_level = 0 THEN FunctionEnds(counted, place) ELSE counted

Turn(s, line, place) ==
  IF ~s.in_function THEN SearchTurn(s, line)
  ELSE IF line.lone THEN LoneTurn(s, place)
  ELSE CountTurn(s, line, place)

(* The second run reads the line with the markers the first run put there.  *)
Again(line, ended, started) ==
  LET before == IF ended THEN Turn(pass2, Marker, MarkerPlace(where))
                ELSE pass2
      turned == Turn(before, line, Place(line))
  IN  IF started THEN Turn(turned, Marker, MarkerPlace(where')) ELSE turned

Read(line) ==
  /\ lines < MaxLines
  /\ lines' = lines + 1
  /\ pass1' = Turn(pass1, line, Place(line))
  /\ pass2' = Again(line, pass1'.ends # pass1.ends,
                           pass1'.starts # pass1.starts)
  /\ UNCHANGED found

-----------------------------------------------------------------------------
(* The lines of a C file with one test function.                            *)

FileLine ==
  /\ where \in {"file", "after"}
  /\ UNCHANGED where
  /\ \/ \E line \in {Plain, Opens, Closes, Lone} :
          /\ line = Closes => depth > 0
          /\ Read(line)
          /\ depth' = depth + line.real
          /\ UNCHANGED odd
     \/ /\ depth = 0
        /\ Read(Prototype)
        /\ odd' = odd \cup {"prototype"}
        /\ UNCHANGED depth

HeaderLine ==
  /\ where = "file"
  /\ depth = 0
  /\ \/ where' = "header" /\ Read(Header) /\ UNCHANGED <<depth, odd>>
     \/ /\ where' = "body"
        /\ Read(HeaderKR)
        /\ depth' = 1
        /\ odd' = odd \cup {"headerBrace"}

(* A blank line or a comment between the header and its brace.              *)
HeaderGap ==
  /\ where = "header"
  /\ Read(Plain)
  /\ odd' = odd \cup {"headerGap"}
  /\ UNCHANGED <<where, depth>>

FirstBrace ==
  /\ where = "header"
  /\ where' = "body"
  /\ Read(Lone)
  /\ depth' = 1
  /\ UNCHANGED odd

BodyLine ==
  /\ where = "body"
  /\ \E line \in {Plain, Opens, Lone, Quoted, QuotedEnd, Closes} :
       /\ where' = IF EndsBody(line) THEN "after" ELSE "body"
       /\ Read(line)
       /\ depth' = depth + line.real
       /\ odd' = odd \cup (IF line = Lone THEN {"block"} ELSE {})
                     \cup (IF line.counted # line.real THEN {"quotedBrace"}
                           ELSE {})

Next == FileLine \/ HeaderLine \/ HeaderGap \/ FirstBrace \/ BodyLine

Spec == Init /\ [][Next]_vars
-----------------------------------------------------------------------------
(* What must hold.                                                          *)

(* The script writes "0" at most once, whatever the file looks like.        *)
OneEndMarker == Len(pass1.ends) <= 1

Expected == where = "after" /\ found /\ odd \subseteq {"block"}

(* In the layout the script expects, the test function is marked at its     *)
(* first and at its last line; blocks with a brace of their own only repeat *)
(* the start marker, and the script no longer counts braces afterwards.     *)
ExpectedLayoutIsMarked ==
  Expected =>
    /\ pass1.ends = <<"last">>
    /\ pass1.starts # <<>> /\ Head(pass1.starts) = "top"
    /\ odd = {} => Len(pass1.starts) = 1
    /\ ~pass1.in_function

(* Run twice over such a file, the script doubles its markers: it takes no  *)
(* marker of the first run for a brace or an end, and misplaces none.       *)
SecondRunRepeats ==
  Expected => pass2.starts = pass1.starts /\ pass2.ends = pass1.ends

(* The comment at the second insertion: the marker is written where the     *)
(* function ends.                                                           *)
EndAtFunctionEnd ==
  \A i \in 1 .. Len(pass1.ends) : pass1.ends[i] = "last"
=============================================================================
