------------------------- MODULE InstrumenterProofs -------------------------
(* Proofs about Instrumenter, for a file of any length.                     *)
EXTENDS Instrumenter, TLAPS

USE LinesAssumption

LineKinds == {Prototype, Header, HeaderKR, Lone, Opens, Closes, Plain, Quoted,
              QuotedEnd}
Places == [start : {"top", "nested", "outside"},
           end   : {"last", "early", "outside"}]

LEMMA LineFacts ==
  ASSUME NEW line \in LineKinds
  PROVE  /\ line.counted \in {-1, 0, 1} /\ line.real \in {-1, 0, 1}
         /\ line.header \in BOOLEAN /\ line.lone \in BOOLEAN
<1>1. \A c, r \in {-1, 0, 1} :
        /\ Text(c, r).counted = c /\ Text(c, r).real = r
        /\ Text(c, r).header = FALSE /\ Text(c, r).lone = FALSE
  BY DEF Text
<1>2. CASE line \in {Prototype, Header}
  BY <1>2 DEF Prototype, Header, Text
<1>3. CASE line = HeaderKR
  BY <1>3 DEF HeaderKR, Text
<1>4. CASE line = Lone
  BY <1>4 DEF Lone, Text
<1>5. CASE line \in {Opens, Closes, Plain, Quoted, QuotedEnd}
  BY <1>1, <1>5 DEF Opens, Closes, Plain, Quoted, QuotedEnd
<1>6. QED BY <1>2, <1>3, <1>4, <1>5 DEF LineKinds

LEMMA PlaceTypes ==
  /\ \A line : Place(line) \in Places
  /\ \A part : MarkerPlace(part) \in Places
BY DEF Place, MarkerPlace, Places

(* The fields of the script's state, one by one.                            *)
LEMMA ScriptFields ==
  ASSUME NEW n \in Nat, NEW s \in Script(n)
  PROVE  /\ s.in_function \in BOOLEAN /\ s.end_append \in BOOLEAN
         /\ s.brace_level \in -n .. n
         /\ s.starts \in Seq({"top", "nested", "outside"})
         /\ s.ends \in Seq({"last", "early", "outside"})
         /\ s = [in_function |-> s.in_function, brace_level |-> s.brace_level,
                 end_append |-> s.end_append, starts |-> s.starts,
                 ends |-> s.ends]
BY DEF Script

LEMMA CountType ==
  ASSUME NEW m \in Nat, NEW s \in Script(m), NEW k \in Nat, NEW c \in -k .. k
  PROVE  [s EXCEPT !.brace_level = @ + c] \in Script(m + k)
<1>1. s.brace_level + c \in -(m + k) .. (m + k)
  BY ScriptFields
<1>2. QED BY <1>1, ScriptFields DEF Script

LEMMA EndsType ==
  ASSUME NEW m \in Nat, NEW s \in Script(m), NEW place \in Places
  PROVE  FunctionEnds(s, place) \in Script(m)
<1>1. place.end \in {"last", "early", "outside"} BY DEF Places
<1>2. Append(s.ends, place.end) \in Seq({"last", "early", "outside"})
  BY <1>1, ScriptFields
<1>3. QED BY <1>2, ScriptFields DEF FunctionEnds, Script

(* A turn of the loop moves the level by at most one brace.                 *)
LEMMA TurnType ==
  ASSUME NEW n \in Nat, NEW s \in Script(n), NEW line \in LineKinds,
         NEW place \in Places, found \in BOOLEAN
  PROVE  Turn(s, line, place) \in Script(n + 1)
<1>1. line.counted \in -1 .. 1 /\ line.header \in BOOLEAN
  BY LineFacts
<1>2. SearchTurn(s, line) \in Script(n + 1)
  BY <1>1 DEF SearchTurn, Script
<1>3. LoneTurn(s, place) \in Script(n + 1)
  <2>1. place.start \in {"top", "nested", "outside"} BY DEF Places
  <2>2. Append(s.starts, place.start) \in Seq({"top", "nested", "outside"})
    BY <2>1, ScriptFields
  <2>3. s.brace_level + 1 \in -(n + 1) .. n + 1 BY ScriptFields
  <2>4. QED BY <2>2, <2>3, ScriptFields DEF LoneTurn, Script
<1>4. CountTurn(s, line, place) \in Script(n + 1)
  <2>1. [s EXCEPT !.brace_level = @ + line.counted] \in Script(n + 1)
    BY <1>1, CountType
  <2>2. QED BY <2>1, EndsType DEF CountTurn
<1>5. QED BY <1>2, <1>3, <1>4 DEF Turn

LEMMA MarkerTurn ==
  ASSUME NEW n \in Nat, NEW s \in Script(n), NEW place \in Places,
         found \in BOOLEAN
  PROVE  Turn(s, Marker, place) \in Script(n)
<1>1. Marker.counted = 0 /\ Marker.lone = FALSE /\ Marker.header = FALSE
  BY DEF Marker, Plain, Text
<1>2. SearchTurn(s, Marker) \in Script(n)
  BY <1>1 DEF SearchTurn, Script
<1>3. CountTurn(s, Marker, place) \in Script(n)
  <2>1. [s EXCEPT !.brace_level = @ + Marker.counted] \in Script(n)
    BY <1>1 DEF Script
  <2>2. QED BY <2>1, EndsType DEF CountTurn
<1>4. QED BY <1>1, <1>2, <1>3 DEF Turn

-----------------------------------------------------------------------------
(* A script has counted at most one brace per line it read.                 *)
CoreInv ==
  /\ lines \in 0 .. MaxLines
  /\ where \in {"file", "header", "body", "after"}
  /\ depth \in 0 .. lines
  /\ where = "body" => depth > 0
  /\ pass1 \in Script(lines) /\ pass2 \in Script(lines)
  /\ odd \subseteq {"prototype", "headerBrace", "headerGap", "block",
                  "quotedBrace"}

LEMMA ReadType ==
  ASSUME CoreInv, found \in BOOLEAN, NEW line \in LineKinds, Read(line)
  PROVE  /\ pass1' \in Script(lines + 1) /\ pass2' \in Script(lines + 1)
         /\ lines' = lines + 1 /\ lines' \in 0 .. MaxLines
<1>1. lines \in Nat /\ lines + 1 \in Nat
  BY DEF CoreInv
<1>2. pass1' \in Script(lines + 1)
  BY <1>1, TurnType, PlaceTypes DEF CoreInv, Read
<1>3. pass2' \in Script(lines + 1)
  <2> DEFINE ended   == pass1'.ends # pass1.ends
             started == pass1'.starts # pass1.starts
             before  == IF ended THEN Turn(pass2, Marker, MarkerPlace(where))
                        ELSE pass2
             turned  == Turn(before, line, Place(line))
  <2>1. before \in Script(lines)
    BY <1>1, MarkerTurn, PlaceTypes DEF CoreInv
  <2>2. turned \in Script(lines + 1)
    <3> HIDE DEF before
    <3>1. QED BY <1>1, <2>1, TurnType, PlaceTypes
  <2>3. pass2' = IF started THEN Turn(turned, Marker, MarkerPlace(where'))
                  ELSE turned
    BY DEF Read, Again
  <2>4. QED
    <3> HIDE DEF turned
    <3>1. Turn(turned, Marker, MarkerPlace(where')) \in Script(lines + 1)
      BY <1>1, <2>2, MarkerTurn, PlaceTypes
    <3>2. QED BY <2>2, <2>3, <3>1
<1>4. QED BY <1>1, <1>2, <1>3 DEF Read, CoreInv

LEMMA RealBraces ==
  /\ Plain.real = 0 /\ Opens.real = 1 /\ Closes.real = -1
  /\ Lone.real = 1 /\ Quoted.real = 0
BY DEF Plain, Opens, Closes, Lone, Quoted, Text

LEMMA CoreStep ==
  ASSUME CoreInv, found \in BOOLEAN, [Next]_vars
  PROVE  CoreInv'
<1>1. CASE UNCHANGED vars BY <1>1 DEF CoreInv, vars
<1>2. CASE FileLine
  <2>1. PICK line \in {Plain, Opens, Closes, Lone, Prototype} :
          /\ Read(line)
          /\ depth' \in 0 .. lines + 1
          /\ odd' \subseteq odd \cup {"prototype"}
    BY <1>2, RealBraces DEF FileLine, CoreInv
  <2>2. line \in LineKinds BY DEF LineKinds
  <2>3. where' \in {"file", "after"} BY <1>2 DEF FileLine
  <2>4. QED BY <2>1, <2>2, <2>3, ReadType DEF CoreInv
<1>3. CASE HeaderLine
  <2>1. PICK line \in {Header, HeaderKR} :
          /\ Read(line)
          /\ depth' \in {0, 1}
          /\ where' \in {"header", "body"}
          /\ where' = "body" => depth' = 1
          /\ odd' \subseteq odd \cup {"headerBrace"}
    BY <1>3 DEF HeaderLine
  <2>2. line \in LineKinds BY DEF LineKinds
  <2>3. QED BY <2>1, <2>2, ReadType DEF CoreInv
<1>4. CASE FirstBrace
  <2>1. Lone \in LineKinds BY DEF LineKinds
  <2>2. QED BY <1>4, <2>1, ReadType DEF CoreInv, FirstBrace
<1>7. CASE HeaderGap
  <2>1. Plain \in LineKinds BY DEF LineKinds
  <2>2. QED BY <1>7, <2>1, ReadType DEF CoreInv, HeaderGap
<1>5. CASE BodyLine
  <2>1. PICK line \in {Plain, Opens, Lone, Quoted, QuotedEnd, Closes} :
          /\ where' = IF EndsBody(line) THEN "after" ELSE "body"
          /\ Read(line)
          /\ depth' = depth + line.real
          /\ odd' \subseteq odd \cup {"block", "quotedBrace"}
    BY <1>5 DEF BodyLine
  <2>2. line \in LineKinds BY DEF LineKinds
  <2>3. where = "body" /\ depth \in 1 .. lines /\ line.real \in {-1, 0, 1}
    BY <1>5, <2>2, LineFacts DEF BodyLine, CoreInv
  <2>4. /\ depth' \in 0 .. lines + 1
        /\ where' \in {"body", "after"}
        /\ where' = "body" => depth' > 0
    BY <2>1, <2>3 DEF EndsBody, CoreInv
  <2>5. QED BY <2>1, <2>2, <2>4, ReadType DEF CoreInv
<1> QED BY <1>1, <1>2, <1>3, <1>4, <1>5, <1>7 DEF Next

LEMMA FoundStep ==
  ASSUME [Next]_vars
  PROVE  found' = found
BY Zenon DEF Next, vars, FileLine, HeaderLine, HeaderGap, FirstBrace, BodyLine,
  Read

TypeInv == CoreInv /\ found \in BOOLEAN

LEMMA TypeInvariant == Spec => []TypeInv
<1>1. Init => TypeInv
  <2>1. Init => found \in BOOLEAN BY Zenon DEF Init, Finds
  <2>2. Init => CoreInv BY DEF Init, CoreInv, Script, Fresh
  <2>3. QED BY <2>1, <2>2 DEF TypeInv
<1>2. TypeInv /\ [Next]_vars => TypeInv'
  BY CoreStep, FoundStep, Zenon DEF TypeInv
<1>3. QED BY <1>1, <1>2, PTL DEF Spec

(* The variables keep their types: neither run of the script loses count by *)
(* more than the lines it read.                                             *)
THEOREM TypeCorrect == Spec => []TypeOK
<1>1. ASSUME CoreInv PROVE Script(lines) \subseteq Script(MaxLines)
  BY <1>1 DEF CoreInv, Script
<1>2. ASSUME TypeInv PROVE TypeOK
  <2>1. /\ depth \in 0 .. MaxLines
        /\ pass1 \in Script(MaxLines) /\ pass2 \in Script(MaxLines)
    BY <1>1, <1>2 DEF TypeInv, CoreInv
  <2>2. QED BY <1>2, <2>1, Zenon DEF TypeInv, CoreInv, TypeOK
<1>3. QED BY <1>2, TypeInvariant, PTL

-----------------------------------------------------------------------------
(* end_append records that the end marker was written.                      *)
EndsOnce(s) ==
  Len(s.ends) = 0 \/ (s.end_append = TRUE /\ Len(s.ends) = 1)
EndInv == EndsOnce(pass1)

LEMMA EndTurn ==
  ASSUME NEW n \in Nat, NEW s \in Script(n), NEW line, NEW place \in Places,
         EndsOnce(s)
  PROVE  EndsOnce(Turn(s, line, place))
<1>1. /\ SearchTurn(s, line).ends = s.ends
      /\ SearchTurn(s, line).end_append = s.end_append
  BY DEF SearchTurn, Script
<1>2. /\ LoneTurn(s, place).ends = s.ends
      /\ LoneTurn(s, place).end_append = s.end_append
  BY DEF LoneTurn, Script
<1>3. EndsOnce(CountTurn(s, line, place))
  <2> DEFINE c == [s EXCEPT !.brace_level = @ + line.counted]
             e == FunctionEnds(c, place)
  <2>1. c.ends = s.ends /\ c.end_append = s.end_append BY DEF Script
  <2>2. /\ e.end_append = TRUE
        /\ e.ends = IF s.end_append THEN s.ends ELSE Append(s.ends, place.end)
    BY DEF FunctionEnds, Script
  <2>3. Len(Append(s.ends, place.end)) = Len(s.ends) + 1
    <3>1. s.ends \in Seq({"last", "early", "outside"}) BY ScriptFields
    <3>2. QED BY <3>1
  <2>4. EndsOnce(c) BY <2>1 DEF EndsOnce
  <2>5. EndsOnce(e)
    <3> HIDE DEF c, e
    <3>1. s.end_append \in BOOLEAN /\ Len(s.ends) \in Nat BY ScriptFields
    <3>2. QED BY <2>2, <2>3, <3>1 DEF EndsOnce
  <2>6. QED BY <2>4, <2>5 DEF CountTurn
<1>4. EndsOnce(SearchTurn(s, line)) /\ EndsOnce(LoneTurn(s, place))
  BY <1>1, <1>2 DEF EndsOnce
<1>5. QED BY <1>3, <1>4 DEF Turn

LEMMA NextReads ==
  ASSUME Next
  PROVE  \E line \in LineKinds : Read(line)
<1>1. {Plain, Opens, Closes, Lone, Prototype, Header, HeaderKR, Quoted,
       QuotedEnd} = LineKinds
  BY DEF LineKinds
<1>2. QED
  BY <1>1, Zenon
  DEF Next, FileLine, HeaderLine, HeaderGap, FirstBrace, BodyLine

LEMMA EndStep ==
  ASSUME TypeInv, EndInv, [Next]_vars
  PROVE  EndInv'
<1>1. CASE UNCHANGED vars BY <1>1 DEF EndInv, vars
<1>2. CASE Next
  <2>1. PICK line \in LineKinds : Read(line) BY <1>2, NextReads
  <2>2. lines \in Nat /\ pass1 \in Script(lines) BY DEF TypeInv, CoreInv
  <2>3. pass1' = Turn(pass1, line, Place(line)) BY <2>1 DEF Read
  <2>4. QED BY <2>2, <2>3, EndTurn, PlaceTypes DEF EndInv
<1>3. QED BY <1>1, <1>2

(* "0" is written at most once, in a file of any layout and length.         *)
THEOREM AtMostOneEnd == Spec => []OneEndMarker
<1>1. Init => EndInv BY DEF Init, EndInv, EndsOnce, Fresh
<1>2. TypeInv /\ EndInv /\ [Next]_vars => EndInv' BY EndStep
<1>3. EndInv => OneEndMarker
  <2>1. SUFFICES ASSUME EndInv PROVE Len(pass1.ends) <= 1
    BY DEF OneEndMarker
  <2>2. Len(pass1.ends) = 0 \/ Len(pass1.ends) = 1
    BY <2>1, Zenon DEF EndInv, EndsOnce
  <2> DEFINE written == Len(pass1.ends)
  <2>3. written = 0 \/ written = 1 BY <2>2
  <2>4. written <= 1
    <3> HIDE DEF written
    <3>1. QED BY <2>3
  <2>5. QED BY <2>4
<1>4. QED BY <1>1, <1>2, <1>3, TypeInvariant, PTL DEF Spec

-----------------------------------------------------------------------------
(* In the expected layout the script's level is the depth of the function,  *)
(* and a second run is in the state of the first.                           *)
TopFirst(s) ==
  /\ s.starts # <<>> /\ Head(s.starts) = "top"
  /\ odd = {} => Len(s.starts) = 1

Inside(s) ==
  /\ s.in_function = TRUE /\ s.end_append = FALSE
  /\ s.brace_level = depth /\ s.ends = <<>>

Marked(s) == s.in_function = FALSE /\ s.ends = <<"last">>

LayoutInv ==
  found /\ odd \subseteq {"block"} =>
    /\ pass2 = pass1
    /\ where = "file"   => pass1 = Fresh
    /\ where = "header" => pass1 = [Fresh EXCEPT !.in_function = TRUE]
    /\ where = "body"   => Inside(pass1) /\ TopFirst(pass1)
    /\ where = "after"  => Marked(pass1) /\ TopFirst(pass1)

(* Lines the script copies: it searches and they are no header, or it       *)
(* counts and they have no brace.                                           *)
LEMMA CopyTurn ==
  ASSUME NEW n \in Nat, NEW s \in Script(n), NEW line \in LineKinds, NEW place,
         \/ s.in_function = FALSE /\ line.header = FALSE
         \/ s.in_function = TRUE /\ s.brace_level # 0 /\ line.lone = FALSE
            /\ line.counted = 0
  PROVE  Turn(s, line, place) = s
<1>1. CASE s.in_function = FALSE /\ line.header = FALSE
  BY <1>1 DEF Turn, SearchTurn, Script
<1>2. CASE s.in_function = TRUE /\ s.brace_level # 0 /\ line.lone = FALSE
           /\ line.counted = 0
  <2>1. [s EXCEPT !.brace_level = @ + line.counted] = s
    BY <1>2 DEF Script
  <2>2. QED BY <1>2, <2>1 DEF Turn, CountTurn
<1>3. QED BY <1>1, <1>2

SkipsMarker(s) == s.in_function = FALSE \/ s.brace_level # 0

LEMMA SecondTurn ==
  ASSUME TypeInv, pass2 = pass1, NEW line \in LineKinds, Read(line),
         pass1'.ends # pass1.ends => SkipsMarker(pass1),
         pass1'.starts # pass1.starts => SkipsMarker(pass1')
  PROVE  pass2' = pass1'
<1>1. /\ lines \in Nat /\ lines + 1 \in Nat
      /\ pass1 \in Script(lines) /\ pass1' \in Script(lines + 1)
  BY ReadType DEF TypeInv, CoreInv
<1>2. \A n \in Nat : \A s \in Script(n) : \A place :
        SkipsMarker(s) => Turn(s, Marker, place) = s
  <2>1. Marker \in LineKinds BY DEF Marker, LineKinds
  <2>2. Marker.counted = 0 /\ Marker.lone = FALSE /\ Marker.header = FALSE
    BY DEF Marker, Plain, Text
  <2>3. QED BY <2>1, <2>2, CopyTurn, ScriptFields DEF SkipsMarker
<1>3. /\ pass1' = Turn(pass1, line, Place(line))
      /\ pass2' = Again(line, pass1'.ends # pass1.ends,
                              pass1'.starts # pass1.starts)
  BY DEF Read
<1>4. QED BY <1>1, <1>2, <1>3 DEF Again

LEMMA QuotedMiscount ==
  Quoted.counted # Quoted.real /\ QuotedEnd.counted # QuotedEnd.real
BY DEF Quoted, QuotedEnd, Text

LEMMA LineFlags ==
  /\ Header.header = TRUE /\ Lone.lone = TRUE
  /\ \A line \in {Plain, Opens, Closes, Lone} : line.header = FALSE
  /\ \A line \in {Plain, Opens, Closes} :
       line.lone = FALSE /\ line.counted = line.real
BY DEF Header, Prototype, Plain, Opens, Closes, Lone, Text

(* Outside the function nothing moves.                                      *)
LEMMA LayoutOutside ==
  ASSUME TypeInv, LayoutInv, FileLine, found, odd' \subseteq {"block"}
  PROVE  pass2' = pass1' /\ pass1' = pass1 /\ UNCHANGED <<where, odd>>
<1>1. PICK line \in {Plain, Opens, Closes, Lone} : Read(line) /\ odd' = odd
  BY DEF FileLine
<1>2. line \in LineKinds /\ line.header = FALSE
  BY LineFlags DEF LineKinds
<1>3. where \in {"file", "after"} /\ where' = where BY DEF FileLine
<1>4. pass2 = pass1 /\ pass1.in_function = FALSE
  BY <1>1, <1>3 DEF LayoutInv, Fresh, Marked
<1>5. lines \in Nat /\ pass1 \in Script(lines) BY DEF TypeInv, CoreInv
<1>6. pass1' = pass1
  BY <1>1, <1>2, <1>4, <1>5, CopyTurn DEF Read
<1>7. pass2' = pass1'
  BY <1>1, <1>2, <1>4, <1>6, SecondTurn
<1>8. QED BY <1>1, <1>3, <1>6, <1>7

LEMMA LayoutHeader ==
  ASSUME TypeInv, LayoutInv, HeaderLine, found = TRUE,
         odd' \subseteq {"block"}
  PROVE  /\ pass2' = pass1' /\ where' = "header"
         /\ pass1' = [Fresh EXCEPT !.in_function = TRUE]
<1>1. Read(Header) /\ where = "file" /\ where' = "header" /\ odd' = odd
  BY DEF HeaderLine
<1>2. pass2 = pass1 /\ pass1 = Fresh BY <1>1 DEF LayoutInv
<1>3. pass1' = [Fresh EXCEPT !.in_function = TRUE]
  <2>1. pass1' = Turn(Fresh, Header, Place(Header)) BY <1>1, <1>2 DEF Read
  <2>2. QED BY <2>1, LineFlags DEF Turn, SearchTurn, Fresh
<1>4. pass1'.ends = pass1.ends /\ pass1'.starts = pass1.starts
  BY <1>2, <1>3 DEF Fresh
<1>5. Header \in LineKinds BY DEF LineKinds
<1>6. pass2' = pass1' BY <1>1, <1>2, <1>4, <1>5, SecondTurn
<1>7. QED BY <1>1, <1>3, <1>6

LEMMA LayoutFirstBrace ==
  ASSUME TypeInv, LayoutInv, FirstBrace, found, odd' \subseteq {"block"}
  PROVE  /\ pass2' = pass1' /\ where' = "body"
         /\ Inside(pass1)' /\ TopFirst(pass1)'
<1>1. /\ Read(Lone) /\ where = "header" /\ where' = "body" /\ odd' = odd
      /\ depth' = 1
  BY DEF FirstBrace
<1>2. pass2 = pass1 /\ pass1 = [Fresh EXCEPT !.in_function = TRUE]
  BY <1>1 DEF LayoutInv
<1>3. Place(Lone).start = "top" BY <1>1 DEF Place, BeginsBody
<1>4. pass1' = LoneTurn(pass1, Place(Lone))
  BY <1>1, <1>2, LineFlags DEF Read, Turn, Fresh
<1>5. /\ pass1'.in_function = TRUE /\ pass1'.end_append = FALSE
      /\ pass1'.brace_level = 1 /\ pass1'.ends = <<>>
      /\ pass1'.starts = Append(<<>>, "top") /\ pass1.ends = <<>>
  BY <1>2, <1>3, <1>4 DEF LoneTurn, Fresh
<1>6. Inside(pass1)' /\ TopFirst(pass1)'
  BY <1>1, <1>5 DEF Inside, TopFirst
<1>7. Lone \in LineKinds BY DEF LineKinds
<1>8. SkipsMarker(pass1') BY <1>5 DEF SkipsMarker
<1>9. pass2' = pass1' BY <1>1, <1>2, <1>5, <1>7, <1>8, SecondTurn
<1>10. QED BY <1>1, <1>6, <1>9

LEMMA LayoutBody ==
  ASSUME TypeInv, LayoutInv, BodyLine, found, odd' \subseteq {"block"}
  PROVE  /\ pass2' = pass1' /\ where' \in {"body", "after"}
         /\ where' = "body"  => Inside(pass1)' /\ TopFirst(pass1)'
         /\ where' = "after" => Marked(pass1)' /\ TopFirst(pass1)'
<1>1. PICK line \in {Plain, Opens, Lone, Quoted, QuotedEnd, Closes} :
        /\ where' = IF EndsBody(line) THEN "after" ELSE "body"
        /\ Read(line)
        /\ depth' = depth + line.real
        /\ odd' = odd \cup (IF line = Lone THEN {"block"} ELSE {})
                      \cup (IF line.counted # line.real THEN {"quotedBrace"}
                            ELSE {})
  BY DEF BodyLine
<1>2. /\ line \notin {Quoted, QuotedEnd} /\ odd \subseteq {"block"}
      /\ line = Lone => odd' # {}
      /\ odd' = {} => odd = {}
  BY <1>1, QuotedMiscount
<1>3. where = "body" /\ depth \in Nat /\ depth > 0
  BY DEF BodyLine, TypeInv, CoreInv
<1>4. pass2 = pass1 /\ Inside(pass1) /\ TopFirst(pass1)
  BY <1>2, <1>3 DEF LayoutInv
<1>5. lines \in Nat /\ pass1 \in Script(lines) /\ line \in LineKinds
  BY DEF TypeInv, CoreInv, LineKinds
<1>6. SkipsMarker(pass1) BY <1>3, <1>4 DEF Inside, SkipsMarker
<1>7. pass1' = Turn(pass1, line, Place(line)) BY <1>1 DEF Read
<1>8. CASE line = Lone
  <2>1. pass1' = LoneTurn(pass1, Place(line))
    BY <1>4, <1>7, <1>8, LineFlags DEF Turn, Inside
  <2>2. /\ pass1'.in_function = TRUE /\ pass1'.end_append = FALSE
        /\ pass1'.brace_level = depth + 1 /\ pass1'.ends = <<>>
        /\ pass1'.starts = Append(pass1.starts, Place(line).start)
        /\ pass1.ends = <<>>
    BY <1>4, <1>5, <2>1 DEF LoneTurn, Script, Inside
  <2>3. where' = "body" /\ depth' = depth + 1
    BY <1>1, <1>8, RealBraces DEF EndsBody
  <2>4. Inside(pass1)' BY <2>2, <2>3 DEF Inside
  <2>5. TopFirst(pass1)'
    <3>1. pass1.starts \in Seq({"top", "nested", "outside"})
      BY <1>5, ScriptFields
    <3>2. Place(line).start \in {"top", "nested", "outside"}
      BY PlaceTypes DEF Places
    <3>3. pass1.starts # <<>> /\ Head(pass1.starts) = "top"
      BY <1>4 DEF TopFirst
    <3>4. pass1'.starts # <<>> /\ Head(pass1'.starts) = "top"
      BY <2>2, <3>1, <3>2, <3>3
    <3>5. QED BY <1>2, <1>8, <3>4 DEF TopFirst
  <2>6. SkipsMarker(pass1') BY <1>3, <2>2 DEF SkipsMarker
  <2>7. pass2' = pass1' BY <1>1, <1>4, <1>5, <2>2, <2>6, SecondTurn
  <2>8. QED BY <2>3, <2>4, <2>5, <2>7
<1>9. CASE line \in {Plain, Opens, Closes}
  <2>1. line.lone = FALSE /\ line.counted = line.real
    BY <1>9, LineFlags
  <2>2. line.real \in {-1, 0, 1} BY <1>5, LineFacts
  <2> DEFINE counted == [pass1 EXCEPT !.brace_level = @ + line.counted]
  <2>3. /\ counted.in_function = TRUE /\ counted.end_append = FALSE
        /\ counted.brace_level = depth' /\ counted.ends = <<>>
        /\ counted.starts = pass1.starts
    BY <1>1, <1>4, <1>5, <2>1 DEF Inside, Script
  <2>4. pass1' = IF depth' = 0 THEN FunctionEnds(counted, Place(line))
                 ELSE counted
    BY <1>4, <1>7, <2>1, <2>3 DEF Turn, CountTurn, Inside
  <2>5. EndsBody(line) <=> depth' = 0
    BY <1>1, <1>3, <2>2 DEF EndsBody
  <2>6. pass1'.starts = pass1.starts
    BY <1>5, <2>3, <2>4 DEF FunctionEnds, Script
  <2>7. TopFirst(pass1)' BY <1>2, <1>4, <2>6 DEF TopFirst
  <2>8. pass2' = pass1' BY <1>1, <1>4, <1>5, <1>6, <2>6, SecondTurn
  <2>9. CASE depth' = 0
    <3>1. where' = "after" /\ Place(line).end = "last"
      BY <1>1, <2>5, <2>9 DEF Place
    <3>2. /\ pass1'.in_function = FALSE
          /\ pass1'.ends = Append(<<>>, "last")
      BY <1>5, <2>3, <2>4, <2>9, <3>1 DEF FunctionEnds, Script
    <3>3. Marked(pass1)' BY <3>2 DEF Marked
    <3>4. QED BY <2>7, <2>8, <3>1, <3>3
  <2>10. CASE depth' # 0
    <3>1. where' = "body" BY <1>1, <2>5, <2>10
    <3>2. Inside(pass1)' BY <2>3, <2>4, <2>10 DEF Inside
    <3>3. QED BY <2>7, <2>8, <3>1, <3>2
  <2>11. QED BY <2>9, <2>10
<1>10. QED BY <1>2, <1>8, <1>9

LEMMA LayoutStep ==
  ASSUME TypeInv, LayoutInv, [Next]_vars
  PROVE  LayoutInv'
<1>1. CASE UNCHANGED vars
  BY <1>1 DEF LayoutInv, Inside, Marked, TopFirst, vars
<1>2. CASE Next
  <2>1. SUFFICES ASSUME found = TRUE, odd' \subseteq {"block"}
                 PROVE  LayoutInv'
    <3>1. found' = found /\ found \in BOOLEAN BY FoundStep, Zenon DEF TypeInv
    <3>2. QED BY <3>1, Zenon DEF LayoutInv
  <2>2. CASE FileLine
    <3>1. /\ pass2' = pass1' /\ pass1' = pass1 /\ where' = where
          /\ odd' = odd /\ where \in {"file", "after"}
      BY <2>1, <2>2, LayoutOutside DEF FileLine
    <3>2. QED BY <2>1, <3>1 DEF LayoutInv, Marked, TopFirst
  <2>3. CASE HeaderLine
    BY <2>1, <2>3, LayoutHeader DEF LayoutInv
  <2>4. CASE FirstBrace
    BY <2>1, <2>4, LayoutFirstBrace DEF LayoutInv
  <2>7. CASE HeaderGap
    BY <2>1, <2>7 DEF HeaderGap
  <2>5. CASE BodyLine
    BY <2>1, <2>5, LayoutBody DEF LayoutInv
  <2> QED BY <1>2, <2>2, <2>3, <2>4, <2>5, <2>7 DEF Next
<1>3. QED BY <1>1, <1>2

LEMMA LayoutInvariant == Spec => []LayoutInv
<1>1. Init => LayoutInv BY DEF Init, LayoutInv
<1>2. TypeInv /\ LayoutInv /\ [Next]_vars => LayoutInv' BY LayoutStep
<1>3. QED BY <1>1, <1>2, TypeInvariant, PTL DEF Spec

(* A file of the expected layout, of any length and nesting, is marked at   *)
(* the first and at the last line of its test function.                     *)
THEOREM ExpectedIsMarked == Spec => []ExpectedLayoutIsMarked
<1>1. LayoutInv => ExpectedLayoutIsMarked
  BY DEF LayoutInv, ExpectedLayoutIsMarked, Expected, Marked, TopFirst
<1>2. QED BY <1>1, LayoutInvariant, PTL

(* A second run over such a file places its markers where the first did.    *)
THEOREM SecondRunAgrees == Spec => []SecondRunRepeats
<1>1. LayoutInv => SecondRunRepeats
  BY DEF LayoutInv, SecondRunRepeats, Expected
<1>2. QED BY <1>1, LayoutInvariant, PTL
=============================================================================
