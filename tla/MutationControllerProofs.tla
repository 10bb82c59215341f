---------------------- MODULE MutationControllerProofs ----------------------
(***************************************************************************)
(* Proofs about MutationController, for any names of any lengths and any   *)
(* quota, and events handled at any time.                                  *)
(***************************************************************************)
EXTENDS MutationController, TLAPS

(* Probes opened, with the one about to be.                                 *)
Used == opened + (IF cpc = "attach" THEN 1 ELSE 0)

(* A name that a detached controller may still read, now or when the driver *)
(* has copied it.                                                           *)
NameAhead == dpc = "copyName" \/ (HasPrefix /\ ~IsDone)

(* Each probe used up a window, and a name that may still be attached has a *)
(* window that no probe used: only "done" resets the flag, and what follows *)
(* it in the file is the name of a later window.                            *)
WindowInv ==
  /\ cpc = "attach" => attached
  /\ NameAhead => windows >= 1
  /\ Used <= windows
  /\ NameAhead /\ (~attached \/ IsDone) => Used + 1 <= windows

(* A controller that is down watches nothing and holds no flag.             *)
DownInv == cpc = "down" => ~attached /\ ~watched /\ ~pending

(* An event of the window is in the queue or in hand.                       *)
Unread == (cpc = "wait" /\ pending) \/ cpc = "read"

HitsIfFresh(result) == fresh /\ call \in Syscalls => result

(* What a quiet window knows at each place of the driver: its name is still *)
(* to be read, being attached, or dealt with; and the same for "done".      *)
QuietName ==
  \/ Unread /\ attached = ~fresh /\ opened < Quota
     /\ (cpc = "read" => ~pending)
  \/ cpc = "attach" /\ fresh /\ target = call /\ opened < Quota /\ ~pending
QuietDone ==
  cpc # "attach" /\ (attached => Unread) /\ HitsIfFresh(hit)
QuietAt ==
  /\ dpc # "ready"
  /\ cpc # "down" => watched
  /\ dpc = "copyName" => QuietName /\ cpc # "attach" /\ file # Absent
  /\ dpc = "sleepName" =>
       /\ file = Intact(call)
       /\ QuietName \/ (Handled /\ HitsIfFresh(call \in live))
  /\ dpc = "call" => file = Intact(call) /\ Handled /\ HitsIfFresh(entered)
  /\ dpc = "returned" =>
       \/ file = Intact(call) /\ Handled /\ HitsIfFresh(hit)
       \/ file = Intact(Done) /\ QuietDone
  /\ dpc = "copyDone" => QuietDone
  /\ dpc = "sleepDone" => file = Intact(Done) /\ QuietDone
  /\ dpc = "idle" => ~attached /\ Handled
QuietInv == quiet => QuietAt

IInv == TypeOK /\ WindowInv /\ DownInv /\ QuietInv
-----------------------------------------------------------------------------
USE DEF file_vars, driver, controller, Names, Texts, Command, Other, Absent,
        Intact, DriverPC

LEMMA Bounds ==
  /\ Quota \in Nat \ {0} /\ MaxWindows \in Nat /\ MaxFaults \in Nat
  /\ Done \notin Names
  BY BoundAssumption, NameAssumption

(* A text as it was written spells its name; the other contents spell none. *)
LEMMA IntactTexts ==
  /\ \A n \in Texts :
       /\ Intact(n) \in Command
       /\ Intact(n).kept = Length[n] /\ Intact(n).len = Length[n]
       /\ Intact(n).name = n /\ Cut(n, Length[n]) = n
       /\ Length[n] \in Nat
  /\ Other \notin Command /\ Absent \notin Command
<1>1. {"other", "absent"} \cap Texts = {}
  BY NameAssumption
<1>2. ASSUME NEW n \in Texts
      PROVE  Length[n] \in Nat /\ Cut(n, Length[n]) = n
  BY NameAssumption
<1> QED BY <1>1, <1>2

LEMMA IntactRead ==
  /\ file = Intact(Done) => HasPrefix /\ IsDone
  /\ \A n \in Names : file = Intact(n) => HasPrefix /\ ~IsDone /\ Spelled = n
  BY IntactTexts, Bounds DEF HasPrefix, IsDone, Spelled

(* A resize makes no name out of a text that held none.                     *)
LEMMA ResizeKeepsKind ==
  ASSUME FileTypes, NEW n \in Texts, Resize(n)
  PROVE  /\ FileTypes' /\ file' # Absent
         /\ HasPrefix' => HasPrefix
         /\ n = Done /\ IsDone => IsDone'
<1> USE IntactTexts DEF FileTypes, HasPrefix, Resize
<1>1. CASE file \notin Command
  <2>1. file' = Other BY <1>1 DEF Resized
  <2> QED BY <1>1, <2>1 DEF IsDone
<1>2. CASE file \in Command
  <2>1. file # Absent BY <1>2
  <2>2. file.name \in Texts /\ file.kept \in Nat /\ Length[n] \in Nat
        /\ file.kept <= Length[file.name]
    BY <1>2, <2>1
  <2>3. file' = Resized(file, n) BY <2>1
  <2>4. /\ file' \in Command
        /\ file'.name = file.name /\ file'.len = Length[n]
        /\ file'.kept = IF Length[n] < file.kept THEN Length[n] ELSE file.kept
    BY <1>2, <2>2, <2>3 DEF Resized
  <2>5. file'.kept <= Length[file'.name] BY <2>2, <2>4, IntactTexts
  <2>6. ASSUME n = Done, IsDone PROVE IsDone'
    <3>1. Cut(file.name, file.kept) = Done /\ file.len = file.kept
      BY <2>6 DEF IsDone, Spelled
    <3>2. file.name = Done /\ file.kept = Length[Done]
      <4>1. Cut(file.name, file.kept) \in
              IF file.kept = Length[file.name] THEN {file.name}
              ELSE Names \cup {"cut"}
        BY <2>2, NameAssumption
      <4>2. Done # "cut" /\ Done \notin Names
        BY NameAssumption
      <4> QED BY <3>1, <4>1, <4>2
    <3>3. file'.name = Done /\ file'.kept = Length[Done]
          /\ file'.len = Length[Done]
      BY <2>2, <2>4, <2>6, <3>2
    <3> QED BY <2>4, <3>3 DEF IsDone, Spelled
  <2> QED BY <1>2, <2>4, <2>5, <2>6
<1> QED BY <1>1, <1>2

LEMMA DriverFrame ==
  ASSUME Driver PROVE UNCHANGED controller
  BY DEF Driver, ResizeForName, NameWriteFails, CopyName, EnterCall,
     ReturnCall, ChildDone, ResizeForDone, DoneWriteFails, CopyDone, Report,
     DriverDies, MapFails

LEMMA ControllerFrame ==
  ASSUME Controller
  PROVE  UNCHANGED <<file, driver, fresh>> /\ (UNCHANGED faults \/ Fault)
  BY DEF Controller, TakeEvent, ReadName, ReadDone, ReadNothing, ReadMissing,
     Attach, AttachRaises, Interrupt, Restart, Exit

(* Every variable keeps its type.                                           *)
LEMMA TypeStep == TypeOK /\ [Next]_vars => TypeOK'
<1> SUFFICES ASSUME TypeOK, [Next]_vars PROVE TypeOK'
  OBVIOUS
<1>0. FileTypes /\ DriverTypes /\ ControllerTypes /\ FlagTypes
  BY DEF TypeOK
<1>1. CASE Driver
  <2>1. ControllerTypes'
    BY <1>0, <1>1, DriverFrame DEF ControllerTypes
  <2>2. FileTypes'
    <3>0. ASSUME NEW n \in Texts, file' = Intact(n) PROVE FileTypes'
      BY <3>0, IntactTexts DEF FileTypes
    <3>1. ASSUME NEW n \in Texts, Resize(n) PROVE FileTypes'
      BY <1>0, <3>1, ResizeKeepsKind
    <3>3. CASE FailedWrite \/ Unlink
      BY <1>0, <3>3 DEF FailedWrite, Unlink, FileTypes
    <3>4. CASE CopyDone \/ ChildDone
      BY <3>0, <3>4 DEF CopyDone, ChildDone, Copy
    <3>5. CASE CopyName
      BY <1>0, <3>0, <3>5 DEF CopyName, Copy, DriverTypes
    <3>6. CASE ResizeForDone
      BY <3>1, <3>6 DEF ResizeForDone
    <3>7. ASSUME NEW n \in Names, ResizeForName(n) \/ NameWriteFails(n)
          PROVE  FileTypes'
      BY <3>1, <3>3, <3>7 DEF ResizeForName, NameWriteFails
    <3>8. CASE DoneWriteFails \/ MapFails
      BY <3>3, <3>8 DEF DoneWriteFails, MapFails
    <3>9. CASE EnterCall \/ ReturnCall \/ Report \/ DriverDies
      BY <1>0, <3>9 DEF FileTypes, EnterCall, ReturnCall, Report, DriverDies
    <3> QED
      BY <1>1, <3>4, <3>5, <3>6, <3>7, <3>8, <3>9 DEF Driver
  <2>3. DriverTypes'
    <3> USE <1>0, Bounds DEF DriverTypes
    <3>1. ASSUME NEW n \in Names, ResizeForName(n) PROVE DriverTypes'
      BY <3>1 DEF ResizeForName, OpenWindow
    <3>2. ASSUME NEW n \in Names, NameWriteFails(n) PROVE DriverTypes'
      BY <3>2 DEF NameWriteFails, OpenWindow, FailedWrite, Fault
    <3>3. CASE CopyName BY <3>3 DEF CopyName
    <3>4. CASE EnterCall BY <3>4 DEF EnterCall
    <3>5. CASE ReturnCall BY <3>5 DEF ReturnCall
    <3>6. CASE ResizeForDone BY <3>6 DEF ResizeForDone
    <3>7. CASE DoneWriteFails BY <3>7 DEF DoneWriteFails, FailedWrite, Fault
    <3>8. CASE CopyDone BY <3>8 DEF CopyDone
    <3>9. CASE Report BY <3>9 DEF Report
    <3>10. CASE DriverDies BY <3>10 DEF DriverDies, Fault
    <3>11. CASE ChildDone BY <3>11 DEF ChildDone
    <3>12. CASE MapFails BY <3>12 DEF MapFails, Fault
    <3> QED
      BY <1>1, <3>1, <3>2, <3>3, <3>4, <3>5, <3>6, <3>7, <3>8, <3>9, <3>10, <3>11,
         <3>12
         DEF Driver
  <2>4. FlagTypes'
    <3> USE <1>0 DEF FlagTypes
    <3>1. ASSUME NEW n \in Names, ResizeForName(n) PROVE FlagTypes'
      BY <3>1 DEF ResizeForName, OpenWindow, Resize
    <3>2. ASSUME NEW n \in Names, NameWriteFails(n) PROVE FlagTypes'
      BY <3>2 DEF NameWriteFails, OpenWindow, FailedWrite, Unlink
    <3>3. CASE CopyName BY <3>3 DEF CopyName, Copy
    <3>4. CASE EnterCall BY <3>4 DEF EnterCall
    <3>5. CASE ReturnCall BY <3>5 DEF ReturnCall
    <3>6. CASE ResizeForDone BY <3>6 DEF ResizeForDone, Resize
    <3>7. CASE DoneWriteFails BY <3>7 DEF DoneWriteFails, FailedWrite, Unlink
    <3>8. CASE CopyDone BY <3>8 DEF CopyDone, Copy
    <3>9. CASE Report \/ DriverDies BY <3>9 DEF Report, DriverDies
    <3>10. CASE ChildDone BY <3>10 DEF ChildDone
    <3>11. CASE MapFails BY <3>11 DEF MapFails, Unlink
    <3> QED
      BY <1>1, <3>1, <3>2, <3>3, <3>4, <3>5, <3>6, <3>7, <3>8, <3>9, <3>10, <3>11
         DEF Driver
  <2> QED BY <2>1, <2>2, <2>3, <2>4 DEF TypeOK
<1>2. CASE Controller
  <2>1. FileTypes' /\ DriverTypes'
    BY <1>0, <1>2, ControllerFrame, Bounds DEF FileTypes, DriverTypes, Fault
  <2>2. ControllerTypes'
    <3> USE <1>0, Bounds DEF ControllerTypes
    <3>1. CASE TakeEvent BY <3>1 DEF TakeEvent
    <3>2. CASE ReadName
      <4>1. Spelled \in Texts \cup {"cut"}
        BY <1>0, <3>2, IntactTexts, NameAssumption
           DEF ReadName, HasPrefix, FileTypes, Spelled
      <4> QED BY <3>2, <4>1 DEF ReadName
    <3>3. CASE ReadDone BY <3>3 DEF ReadDone
    <3>4. CASE ReadNothing BY <3>4 DEF ReadNothing
    <3>5. CASE Attach BY <3>5 DEF Attach
    <3>6. CASE Restart BY <3>6 DEF Restart
    <3>7. CASE ReadMissing \/ AttachRaises \/ Interrupt
      BY <3>7 DEF ReadMissing, AttachRaises, Interrupt, Exit
    <3> QED
      BY <1>2, <3>1, <3>2, <3>3, <3>4, <3>5, <3>6, <3>7 DEF Controller
  <2>3. FlagTypes'
    BY <1>0, <1>2 DEF FlagTypes, Controller, TakeEvent, ReadName, ReadDone,
       ReadNothing, ReadMissing, Attach, AttachRaises, Interrupt, Restart,
       Exit, Observed
  <2> QED BY <2>1, <2>2, <2>3 DEF TypeOK
<1>3. CASE UNCHANGED vars
  BY <1>0, <1>3 DEF vars, TypeOK, FileTypes, DriverTypes, ControllerTypes,
     FlagTypes
<1> QED BY <1>1, <1>2, <1>3 DEF Next

(* A probe costs a window.                                                  *)
LEMMA WindowStep == TypeOK /\ WindowInv /\ [Next]_vars => WindowInv'
<1> SUFFICES ASSUME TypeOK, WindowInv, [Next]_vars PROVE WindowInv'
  OBVIOUS
<1>0. /\ opened \in Nat /\ windows \in Nat
      /\ cpc \in {"wait", "read", "attach", "down"}
  BY Bounds DEF TypeOK, DriverTypes, ControllerTypes
<1> USE <1>0 DEF WindowInv, Used, NameAhead
<1>1. CASE Driver
  <2>1. UNCHANGED controller
    BY <1>1, DriverFrame
  <2> USE <2>1
  <2>2. ASSUME NEW n \in Names, ResizeForName(n) \/ NameWriteFails(n)
        PROVE  WindowInv'
    <3>1. windows' = windows + 1
      BY <2>2 DEF ResizeForName, NameWriteFails, OpenWindow
    <3> QED BY <3>1
  <2>3. CASE CopyName
    <3>1. dpc = "copyName" /\ windows' = windows /\ file' = Intact(call)
          /\ call # Done
      BY <2>3, Bounds DEF CopyName, Copy, TypeOK, DriverTypes
    <3>2. ~IsDone'
      BY <3>1, IntactTexts DEF IsDone, Spelled, TypeOK, DriverTypes
    <3> QED BY <3>1, <3>2
  <2>4. CASE ResizeForDone
    <3>1. /\ windows' = windows /\ dpc' # "copyName"
          /\ HasPrefix' => HasPrefix
          /\ IsDone => IsDone'
      BY <2>4, ResizeKeepsKind DEF ResizeForDone, TypeOK
    <3>2. CASE ~HasPrefix BY <3>1, <3>2
    <3>3. CASE IsDone BY <3>1, <3>3
    <3>4. CASE HasPrefix /\ ~IsDone /\ ~attached BY <3>1, <3>4
    <3>5. CASE HasPrefix /\ ~IsDone /\ attached BY <3>1, <3>5
    <3> QED BY <3>2, <3>3, <3>4, <3>5
  <2>5. CASE CopyDone \/ ChildDone
    <3>1. windows' = windows /\ dpc' # "copyName" /\ file' = Intact(Done)
      BY <2>5 DEF CopyDone, ChildDone, Copy
    <3>2. IsDone'
      BY <3>1, IntactTexts DEF IsDone, HasPrefix, Spelled
    <3> QED BY <3>1, <3>2
  <2>6. CASE DoneWriteFails \/ MapFails
    <3>1. windows' = windows /\ dpc' # "copyName" /\ file' \in {file, Absent}
      BY <2>6 DEF DoneWriteFails, MapFails, FailedWrite, Unlink
    <3> QED BY <3>1, IntactTexts DEF HasPrefix, IsDone, Spelled
  <2>7. CASE EnterCall \/ ReturnCall \/ Report \/ DriverDies
    <3>1. windows' = windows /\ dpc' # "copyName" /\ file' = file
      BY <2>7 DEF EnterCall, ReturnCall, Report, DriverDies
    <3> QED BY <3>1 DEF HasPrefix, IsDone, Spelled
  <2> QED BY <1>1, <2>2, <2>3, <2>4, <2>5, <2>6, <2>7 DEF Driver
<1>2. CASE Controller
  <2>1. /\ UNCHANGED <<windows, dpc>>
        /\ HasPrefix' = HasPrefix /\ IsDone' = IsDone
    BY <1>2, ControllerFrame DEF HasPrefix, IsDone, Spelled
  <2> USE <2>1
  <2>2. CASE TakeEvent \/ ReadNothing \/ Restart
    BY <2>2 DEF TakeEvent, ReadNothing, Restart
  <2>3. CASE ReadName
    BY <2>3 DEF ReadName
  <2>4. CASE ReadDone
    BY <2>4 DEF ReadDone
  <2>5. CASE Attach
    BY <2>5 DEF Attach
  <2>6. CASE ReadMissing \/ AttachRaises \/ Interrupt
    BY <2>6 DEF ReadMissing, AttachRaises, Interrupt, Exit
  <2> QED BY <1>2, <2>2, <2>3, <2>4, <2>5, <2>6 DEF Controller
<1>3. CASE UNCHANGED vars
  BY <1>3 DEF vars, HasPrefix, IsDone, Spelled
<1> QED BY <1>1, <1>2, <1>3 DEF Next

(* Only Restart brings a controller back, and it finds no event.            *)
LEMMA DownStep == TypeOK /\ DownInv /\ [Next]_vars => DownInv'
<1> SUFFICES ASSUME TypeOK, DownInv, [Next]_vars PROVE DownInv'
  OBVIOUS
<1> USE DEF DownInv
<1>1. CASE Driver
  <2>0. ASSUME FailedWrite \/ Unlink
        PROVE  (watched' => watched) /\ (pending' => pending \/ watched)
    BY <2>0 DEF FailedWrite, Unlink, TypeOK, FlagTypes
  <2>1. (watched' => watched) /\ (pending' => pending \/ watched)
    BY <1>1, <2>0 DEF Driver, ResizeForName, NameWriteFails, CopyName,
       EnterCall, ReturnCall, ChildDone, ResizeForDone, DoneWriteFails,
       CopyDone, Report, DriverDies, MapFails, Resize, Copy, TypeOK, FlagTypes
  <2> QED BY <1>1, <2>1, DriverFrame
<1>2. CASE Controller
  BY <1>2 DEF Controller, TakeEvent, ReadName, ReadDone, ReadNothing,
     ReadMissing, Attach, AttachRaises, Interrupt, Restart, Exit
<1>3. CASE UNCHANGED vars BY <1>3 DEF vars
<1> QED BY <1>1, <1>2, <1>3 DEF Next

(* The steps of a driver in a quiet window.                                 *)
LEMMA QuietDriver ==
  ASSUME TypeOK, DownInv, QuietInv, Driver, quiet'
  PROVE  QuietAt'
<1>0. UNCHANGED controller /\ FlagTypes /\ call \in Names
  BY DriverFrame DEF TypeOK, DriverTypes
<1> USE <1>0 DEF QuietAt, Handled, Unread, HitsIfFresh, QuietName, QuietDone,
                 DownInv, FlagTypes
<1>1. ASSUME NEW n \in Names, ResizeForName(n) PROVE QuietAt'
  <2>1. /\ dpc' = "copyName" /\ cpc = "wait" /\ watched' = watched
        /\ watched /\ pending' /\ opened < Quota /\ fresh' = ~attached
    BY <1>1 DEF ResizeForName, OpenWindow, Resize
  <2>2. file' # Absent
    BY <1>1, ResizeKeepsKind DEF ResizeForName, TypeOK
  <2> QED BY <2>1, <2>2
<1>2. ASSUME NEW n \in Names, NameWriteFails(n) PROVE FALSE
  BY <1>2 DEF NameWriteFails
<1>3. CASE DoneWriteFails \/ DriverDies \/ MapFails
  BY <1>3 DEF DoneWriteFails, DriverDies, MapFails
<1>4. ~(DoneWriteFails \/ DriverDies \/ MapFails)
      /\ ~(\E n \in Names : ResizeForName(n) \/ NameWriteFails(n))
      => quiet /\ fresh' = fresh /\ call' = call /\ watched' = watched
  BY DEF Driver, CopyName, EnterCall, ReturnCall, ChildDone, ResizeForDone,
     CopyDone, Report, Resize, Copy
<1>5. CASE ~(DoneWriteFails \/ DriverDies \/ MapFails)
           /\ ~(\E n \in Names : ResizeForName(n) \/ NameWriteFails(n))
  <2>0. quiet /\ fresh' = fresh /\ call' = call /\ watched' = watched /\ QuietAt
    BY <1>4, <1>5 DEF QuietInv
  <2>1. CASE CopyName
    <3>1. /\ dpc = "copyName" /\ dpc' = "sleepName" /\ file' = Intact(call)
          /\ pending' = pending
      BY <2>1 DEF CopyName, Copy
    <3> QED BY <2>0, <3>1
  <2>2. CASE EnterCall
    <3>1. /\ dpc \in {"sleepName", "ready"} /\ dpc' = "call" /\ file' = file
          /\ pending' = pending /\ entered' = (call \in live) /\ Handled
      BY <2>2 DEF EnterCall
    <3> QED BY <2>0, <3>1
  <2>3. CASE ReturnCall
    <3>1. /\ dpc = "call" /\ dpc' = "returned" /\ file' = file
          /\ pending' = pending /\ hit' = entered
      BY <2>3 DEF ReturnCall
    <3> QED BY <2>0, <3>1
  <2>4. CASE ChildDone
    <3>1. /\ dpc \in {"returned", "copyDone", "sleepDone"} /\ dpc' = dpc
          /\ file' = Intact(Done) /\ pending' = (pending \/ watched)
          /\ hit' = hit
      BY <2>4 DEF ChildDone
    <3>2. HitsIfFresh(hit) /\ cpc # "attach"
      BY <2>0, <3>1
    <3>3. attached' => Unread'
      BY <2>0, <3>1
    <3> QED BY <2>0, <3>1, <3>2, <3>3
  <2>5. CASE ResizeForDone
    <3>1. /\ dpc = "returned" /\ dpc' = "copyDone" /\ hit' = hit
          /\ pending' = (pending \/ watched)
      BY <2>5 DEF ResizeForDone, Resize
    <3> QED BY <2>0, <3>1
  <2>6. CASE CopyDone
    <3>1. /\ dpc = "copyDone" /\ dpc' = "sleepDone" /\ hit' = hit
          /\ file' = Intact(Done) /\ pending' = pending
      BY <2>6 DEF CopyDone, Copy
    <3> QED BY <2>0, <3>1
  <2>7. CASE Report
    <3>1. /\ dpc = "sleepDone" /\ dpc' = "idle" /\ pending' = pending /\ Handled
      BY <2>7 DEF Report
    <3> QED BY <2>0, <3>1
  <2> QED BY <1>5, <2>1, <2>2, <2>3, <2>4, <2>5, <2>6, <2>7 DEF Driver
<1> QED BY <1>1, <1>2, <1>3, <1>5

(* The steps of the controller in a quiet window.                           *)
LEMMA QuietController ==
  ASSUME TypeOK, DownInv, QuietInv, Controller, quiet'
  PROVE  QuietAt'
<1>0. /\ UNCHANGED <<file, dpc, call, hit, fresh>> /\ FlagTypes
      /\ call \in Names /\ dpc \in DriverPC
  BY ControllerFrame DEF TypeOK, DriverTypes
<1> USE <1>0 DEF QuietAt, Handled, Unread, HitsIfFresh, QuietName, QuietDone,
                 DownInv, FlagTypes
<1>1. quiet /\ QuietAt
  BY DEF Controller, TakeEvent, ReadName, ReadDone, ReadNothing, ReadMissing,
     Attach, AttachRaises, Interrupt, Restart, Observed, QuietInv
<1>2. ~Interrupt BY DEF Interrupt
<1>3. CASE TakeEvent
  <2>1. /\ cpc = "wait" /\ pending /\ cpc' = "read" /\ ~pending'
        /\ UNCHANGED <<watched, attached, opened>>
    BY <1>3 DEF TakeEvent
  <2>2. QuietName => QuietName' BY <2>1
  <2>3. QuietDone => QuietDone' BY <2>1
  <2>4. ~Handled BY <2>1
  <2>5. watched' /\ cpc' # "attach" /\ dpc' = dpc /\ call' = call /\ file' = file
    BY <1>1, <2>1
  <2> QED BY <1>1, <2>2, <2>3, <2>4, <2>5
<1>4. CASE cpc = "read" /\ (ReadName \/ ReadDone \/ ReadNothing)
  <2>1. dpc \notin {"copyName", "copyDone"}
    BY <1>4 DEF ReadName, ReadDone, ReadNothing, Observed
  <2>2. dpc \in {"sleepName", "returned", "sleepDone"}
    BY <1>1, <1>4, <2>1 DEF DriverPC
  <2>3. /\ UNCHANGED <<watched, pending, live, opened>>
        /\ entered' = entered
    BY <1>4 DEF ReadName, ReadDone, ReadNothing
  <2>4. CASE dpc = "sleepName"
    <3>1. HasPrefix /\ ~IsDone /\ Spelled = call
      BY <1>1, <2>4, IntactRead
    <3>2. CASE ReadName
      <4>1. ~attached /\ cpc' = "attach" /\ target' = call
        BY <3>1, <3>2 DEF ReadName
      <4>2. fresh /\ ~pending /\ opened < Quota /\ watched
        BY <1>1, <1>4, <2>4, <4>1
      <4> QED BY <1>1, <2>3, <2>4, <4>1, <4>2
    <3>3. CASE ReadNothing
      <4>1. attached /\ cpc' = "wait"
        BY <3>1, <3>3 DEF ReadNothing
      <4>2. ~fresh /\ ~pending
        BY <1>1, <1>4, <2>4, <4>1
      <4> QED BY <1>1, <1>4, <2>3, <2>4, <4>1, <4>2
    <3> QED BY <1>4, <3>1, <3>2, <3>3 DEF ReadDone
  <2>5. CASE dpc \in {"returned", "sleepDone"}
    <3>1. file = Intact(Done) /\ QuietDone
      BY <1>1, <1>4, <2>5
    <3>2. HasPrefix /\ IsDone
      BY <3>1, IntactRead
    <3>3. cpc' = "wait" /\ ~attached'
      BY <1>4, <3>2 DEF ReadName, ReadDone, ReadNothing
    <3> QED BY <1>1, <1>4, <2>3, <2>5, <3>1, <3>3
  <2> QED BY <2>2, <2>4, <2>5
<1>5. CASE ReadMissing
  <2>1. cpc = "read" /\ file = Absent /\ quiet' = quiet
    BY <1>5 DEF ReadMissing
  <2>2. \A n \in Texts : Absent # Intact(n)
    BY IntactTexts
  <2>3. dpc = "copyDone"
    BY <1>1, <2>1, <2>2 DEF DriverPC
  <2>4. /\ cpc' = "down" /\ ~attached' /\ ~watched' /\ ~pending'
    BY <1>5 DEF ReadMissing, Exit
  <2> QED BY <1>1, <2>1, <2>3, <2>4
<1>6. CASE Attach \/ AttachRaises
  <2>1. cpc = "attach"
    BY <1>6 DEF Attach, AttachRaises
  <2>2. dpc = "sleepName" /\ file = Intact(call) /\ target = call
        /\ opened < Quota /\ ~pending
    BY <1>1, <2>1 DEF DriverPC
  <2>3. CASE Attach
    BY <1>1, <2>1, <2>2, <2>3 DEF Attach
  <2>4. CASE AttachRaises
    <3>1. call \notin Syscalls
      BY <2>2, <2>4, Bounds DEF AttachRaises, TypeOK, ControllerTypes
    <3>2. cpc' = "down" BY <2>4 DEF AttachRaises, Exit
    <3> QED BY <2>2, <3>1, <3>2
  <2> QED BY <1>6, <2>3, <2>4
<1>7. CASE Restart
  <2>1. /\ cpc = "down" /\ cpc' = "wait" /\ watched' = TRUE
        /\ UNCHANGED <<pending, entered, target, attached, live, opened>>
    BY <1>7 DEF Restart
  <2> QED BY <1>1, <2>1
<1> QED
  BY <1>2, <1>3, <1>4, <1>5, <1>6, <1>7 DEF Controller, ReadName, ReadDone,
     ReadNothing

(* A quiet window stays in step with the controller.                        *)
LEMMA QuietStep == TypeOK /\ DownInv /\ QuietInv /\ [Next]_vars => QuietInv'
<1> SUFFICES ASSUME TypeOK, DownInv, QuietInv, [Next]_vars, quiet'
             PROVE  QuietAt'
  BY DEF QuietInv
<1>1. CASE UNCHANGED vars
  BY <1>1 DEF vars, QuietInv, QuietAt, Handled, Unread, HitsIfFresh,
     QuietName, QuietDone
<1> QED BY <1>1, QuietDriver, QuietController DEF Next

LEMMA InitIInv == Init => IInv
<1> SUFFICES ASSUME Init PROVE IInv
  OBVIOUS
<1> USE Bounds DEF Init
<1>1. TypeOK
  <2>1. FileTypes BY IntactTexts DEF FileTypes
  <2>2. DriverTypes BY DEF DriverTypes
  <2>3. ControllerTypes BY DEF ControllerTypes
  <2>4. FlagTypes BY DEF FlagTypes
  <2> QED BY <2>1, <2>2, <2>3, <2>4 DEF TypeOK
<1>2. ~NameAhead
  BY IntactTexts DEF NameAhead, HasPrefix, IsDone, Spelled
<1> QED BY <1>1, <1>2 DEF IInv, WindowInv, Used, DownInv, QuietInv

-----------------------------------------------------------------------------
(* The inductive invariant holds throughout.                                *)
THEOREM Invariance == Spec => []IInv
<1>1. IInv /\ [Next]_vars => IInv'
  BY TypeStep, WindowStep, DownStep, QuietStep DEF IInv
<1> QED BY InitIInv, <1>1, PTL DEF Spec

(* Every variable keeps its type.                                           *)
THEOREM TypeCorrect == Spec => []TypeOK
<1>1. IInv => TypeOK BY DEF IInv
<1> QED BY Invariance, <1>1, PTL

(* The controller never opens more probes than windows were opened, however *)
(* late it reads the file and whatever it finds in it.                      *)
THEOREM ProbesAreBounded == Spec => []OneProbePerWindow
<1>1. IInv => OneProbePerWindow
  BY Bounds DEF IInv, TypeOK, DriverTypes, ControllerTypes, WindowInv, Used,
     OneProbePerWindow
<1> QED BY Invariance, <1>1, PTL

(* A window nothing disturbed, opened on a detached controller that kept up *)
(* with it, has its call overridden: whatever probes earlier windows left.  *)
THEOREM QuietHits == Spec => []QuietWindowHits
<1>1. IInv => QuietWindowHits
  BY DEF IInv, QuietInv, QuietAt, QuietDone, HitsIfFresh, QuietWindowHits
<1> QED BY Invariance, <1>1, PTL

(* Such a window leaves the flag reset, whatever it was before.             *)
THEOREM QuietResyncs == Spec => []QuietWindowResyncs
<1>1. IInv => QuietWindowResyncs
  BY DEF IInv, QuietInv, QuietAt, QuietWindowResyncs
<1> QED BY Invariance, <1>1, PTL

(* A set flag stands for a live probe, but for the moment between setting   *)
(* it and attaching; a failed attach ends the controller with its flag.     *)
THEOREM FlagIsBacked == Spec => []FlagHasProbe
<1>1. Init => FlagHasProbe BY DEF Init, FlagHasProbe
<1>2. ASSUME FlagHasProbe, TypeOK, DownInv, [Next]_vars PROVE FlagHasProbe'
  <2> USE <1>2 DEF FlagHasProbe
  <2>0. ASSUME UNCHANGED <<target, attached, live>>,
               cpc' # "attach" => cpc # "attach"
        PROVE  FlagHasProbe'
    <3> SUFFICES ASSUME attached', cpc' # "attach" PROVE target' \in live'
      OBVIOUS
    <3>1. target' = target /\ attached' = attached /\ live' = live BY <2>0
    <3>2. attached BY <3>1, Zenon
    <3>3. target \in live BY <2>0, <3>2
    <3> QED BY <3>1, <3>3
  <2>1. CASE Driver \/ UNCHANGED vars BY <2>0, <2>1, DriverFrame DEF vars
  <2>2. CASE TakeEvent \/ ReadNothing
    BY <2>0, <2>2 DEF TakeEvent, ReadNothing
  <2>3. CASE ReadName \/ ReadDone BY <2>3 DEF ReadName, ReadDone
  <2>4. CASE Attach BY <2>4 DEF Attach
  <2>5. CASE ReadMissing \/ AttachRaises \/ Interrupt
    BY <2>5 DEF ReadMissing, AttachRaises, Interrupt, Exit
  <2>6. CASE Restart BY <2>6 DEF Restart, DownInv
  <2> QED BY <2>1, <2>2, <2>3, <2>4, <2>5, <2>6 DEF Next, Controller
<1>3. IInv => TypeOK /\ DownInv BY DEF IInv
<1> QED BY <1>1, <1>2, <1>3, Invariance, PTL DEF Spec
=============================================================================
