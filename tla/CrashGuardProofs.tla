-------------------------- MODULE CrashGuardProofs --------------------------
(***************************************************************************)
(* In a process that does not use crExceptionFilter(), the handlers make   *)
(* one report at most and implement CrashGuard, for any number of threads  *)
(* and any crashes, nested ones included.                                  *)
(*                                                                         *)
(* The argument: the owner of the critical section is the one thread that  *)
(* writes, and the counter tells how far it has come.  It is 0 until the   *)
(* owner's first pass through GenerateErrorReport(), 1 during that pass    *)
(* and the crashes that interrupt it, and 2 once such a crash comes to the *)
(* test, where it gives up; nothing can make it 3, for the process ends    *)
(* there.                                                                  *)
(***************************************************************************)
EXTENDS CrashHandlerProofs

(* The owner never goes on, and is outside GenerateErrorReport() only      *)
(* because generating a report has crashed.                                *)
OwnerBusy ==
  \A t \in Thread : critsec.owner = t =>
    /\ pc[t] \notin {"run", "free"}
    /\ pc[t] \in {"lock", "spawn", "wait"} => excpt_chance = 1

(* What the counter and a thread's copy of it can be at each location.     *)
Counted ==
  /\ critsec.owner = NoThread => excpt_chance = 0
  /\ \A t \in Thread :
       /\ pc[t] \in {"load", "store"} => excpt_chance \in {0, 1}
       /\ pc[t] = "store" => seen[t] = excpt_chance + 1
       /\ pc[t] = "test" => seen[t] = excpt_chance /\ excpt_chance \in {1, 2}
       /\ pc[t] \in Reporting => excpt_chance = 1

(* What has been written at each location.                                 *)
Written ==
  /\ excpt_chance = 0 => output = <<>>
  /\ \A i \in 1..Len(output) : output[i].by = critsec.owner
  /\ \A t \in Thread :
       /\ (pc[t] = "test" /\ excpt_chance = 1) \/ pc[t] = "dump" => output = <<>>
       /\ pc[t] = "head" => \A i \in 1..Len(output) : output[i].what = "dump"
       /\ pc[t] = "walk" => \A i \in 1..Len(output) : output[i].what \in {"dump", "head"}

NoFilterInv ==
  /\ ExclusionInv
  /\ inFilter = {}
  /\ OwnerBusy
  /\ Counted
  /\ Written
  /\ SingleReport

-----------------------------------------------------------------------------
(* A thread inside GenerateErrorReport() owns the critical section, and no *)
(* other thread is inside.                                                 *)
LEMMA InsideOwns ==
  ASSUME NoFilterInv, NEW t \in Thread, pc[t] \in Inside
  PROVE  /\ critsec.owner = t
         /\ \A u \in Thread \ {t} : pc[u] \notin Inside
  BY DEF NoFilterInv, ExclusionInv, HandlersExclusive, Inside

(* While no crExceptionFilter() is in use, a crash leads to a new handler. *)
LEMMA DeliverUnfiltered ==
  ASSUME Guarded = {}, NoFilterInv, NEW t \in Thread, NEW c \in Crash, Deliver(t, c)
  PROVE  /\ inFilter' = {}
         /\ pc'[t] \in {"lock", "spawn"}
         /\ \A u \in Thread \ {t} : pc'[u] = pc[u]
         /\ UNCHANGED <<critsec, excpt_chance, seen, output>>
  BY DEF Deliver, Filtered, FirstStop, NoFilterInv, ExclusionInv, TypeInv, TypeOK

(* A crash disturbs nothing: one in the application is not the owner's,    *)
(* one inside a report finds the counter at 1.                             *)
LEMMA CrashStep ==
  ASSUME Guarded = {}, NoFilterInv, NEW t \in Thread, NEW c \in Crash,
         AppCrashes(t, c) \/ ReportCrashes(t, c)
  PROVE  inFilter' = {} /\ OwnerBusy' /\ Counted' /\ Written' /\ SingleReport'
<1>1. Deliver(t, c)
  BY DEF AppCrashes, ReportCrashes
<1>2. /\ inFilter' = {}
      /\ pc'[t] \in {"lock", "spawn"}
      /\ \A u \in Thread \ {t} : pc'[u] = pc[u]
      /\ UNCHANGED <<critsec, excpt_chance, seen, output>>
  BY <1>1, DeliverUnfiltered
<1>3. critsec.owner = t => excpt_chance = 1
  BY DEF AppCrashes, ReportCrashes, NoFilterInv, OwnerBusy, Counted
<1>4. OwnerBusy'
  BY <1>2, <1>3 DEF OwnerBusy, NoFilterInv
<1>5. Counted'
  BY <1>2 DEF Counted, NoFilterInv, Reporting
<1>6. Written' /\ SingleReport'
  BY <1>2 DEF Written, NoFilterInv, SingleReport
<1>. QED BY <1>2, <1>4, <1>5, <1>6

(* A step of the writer outside the report moves it, and leaves what has   *)
(* been written.                                                           *)
LEMMA WriteElements ==
  ASSUME TypeInv, NEW t \in Thread, NEW what \in Part, Write(t, what)
  PROVE  /\ Len(output') = Len(output) + 1
         /\ \A i \in 1..Len(output) : output'[i] = output[i]
         /\ output'[Len(output) + 1] = [by |-> t, what |-> what]
         /\ Len(output) \in Nat
<1>1. output \in Seq(Event)
  BY DEF TypeInv, TypeOK
<1>2. [by |-> t, what |-> what] \in Event
  BY DEF Event
<1>. QED BY <1>1, <1>2 DEF Write

(* Writing a part later in order than everything written keeps the report  *)
(* single.                                                                 *)
LEMMA WriteStep ==
  ASSUME NoFilterInv, NEW t \in Thread, critsec.owner = t, NEW what \in Part,
         Write(t, what),
         \A i \in 1..Len(output) : Order[output[i].what] < Order[what]
  PROVE  /\ SingleReport'
         /\ \A i \in 1..Len(output') : output'[i].by = t
         /\ \A i \in 1..Len(output') : output'[i].what = what
                \/ (i \in 1..Len(output) /\ output'[i].what = output[i].what)
<1>1. /\ Len(output') = Len(output) + 1
      /\ \A i \in 1..Len(output) : output'[i] = output[i]
      /\ output'[Len(output) + 1] = [by |-> t, what |-> what]
      /\ Len(output) \in Nat
  BY WriteElements DEF NoFilterInv, ExclusionInv
<1>2. \A i \in 1..Len(output') : i \in 1..Len(output) \/ i = Len(output) + 1
  BY <1>1
<1>3. \A i \in 1..Len(output') : output'[i].by = t
  BY <1>1, <1>2 DEF NoFilterInv, Written
<1>4. \A i \in 1..Len(output') : output'[i].what = what
                \/ (i \in 1..Len(output) /\ output'[i].what = output[i].what)
  BY <1>1, <1>2
<1>5. ASSUME NEW i \in 1..Len(output'), NEW j \in 1..Len(output'), i < j
      PROVE  Order[output'[i].what] < Order[output'[j].what]
  <2>1. i \in 1..Len(output) /\ output'[i] = output[i]
    BY <1>1, <1>5
  <2>2. CASE j \in 1..Len(output)
    BY <1>1, <1>5, <2>1, <2>2 DEF NoFilterInv, SingleReport
  <2>3. CASE j = Len(output) + 1
    BY <1>1, <2>1, <2>3
  <2>. QED BY <1>2, <2>2, <2>3
<1>. QED BY <1>3, <1>4, <1>5 DEF SingleReport

-----------------------------------------------------------------------------
(* One lemma for the steps of a thread that is handling a crash.           *)

(* A thread that enters a handler nests within its own or finds nobody     *)
(* inside.                                                                 *)
LEMMA EnterStep ==
  ASSUME NoFilterInv, NEW t \in Thread, EnterHandler(t)
  PROVE  OwnerBusy' /\ Counted' /\ Written' /\ SingleReport'
<1>1. /\ critsec.owner \in {NoThread, t}
      /\ critsec'.owner = t
      /\ pc[t] = "lock" /\ pc'[t] = "load"
      /\ \A u \in Thread \ {t} : pc'[u] = pc[u]
      /\ UNCHANGED <<excpt_chance, seen, output>>
  BY DEF EnterHandler, MayEnter, NoFilterInv, ExclusionInv, TypeInv, TypeOK
<1>2. t # NoThread
  BY CrashHandlerAssumption
<1>3. excpt_chance \in {0, 1}
  BY <1>1 DEF NoFilterInv, OwnerBusy, Counted
<1>4. OwnerBusy'
  BY <1>1 DEF OwnerBusy
<1>5. Counted'
  BY <1>1, <1>2, <1>3 DEF NoFilterInv, Counted, Reporting
<1>6. critsec.owner = NoThread => output = <<>>
  BY DEF NoFilterInv, Counted, Written
<1>7. Written'
  BY <1>1, <1>6 DEF NoFilterInv, Written
<1>8. SingleReport'
  BY <1>1 DEF NoFilterInv, SingleReport
<1>. QED BY <1>4, <1>5, <1>7, <1>8

(* Counting the exception leaves owner and output alone.                   *)
LEMMA ChanceStep ==
  ASSUME NoFilterInv, NEW t \in Thread, LoadChance(t) \/ StoreChance(t) \/ TestChance(t)
  PROVE  OwnerBusy' /\ Counted' /\ Written' /\ SingleReport'
<1>. USE DEF Inside, Generating, Reporting, Returned
<1>1. pc[t] \in {"load", "store", "test"}
  BY DEF LoadChance, StoreChance, TestChance
<1>2. critsec.owner = t /\ \A u \in Thread \ {t} : pc[u] \notin Inside
  BY <1>1, InsideOwns
<1>3. critsec' = critsec /\ output' = output /\ t # NoThread
  BY CrashHandlerAssumption DEF LoadChance, StoreChance, TestChance
<1>4. /\ pc \in [Thread -> Location]
      /\ seen \in [Thread -> Nat]
      /\ excpt_chance \in Nat
  BY DEF NoFilterInv, ExclusionInv, TypeInv, TypeOK
<1>5. \A u \in Thread \ {t} : pc'[u] = pc[u]
  BY <1>4 DEF LoadChance, StoreChance, TestChance
<1>6. SingleReport'
  BY <1>3 DEF NoFilterInv, SingleReport
<1>7. CASE LoadChance(t)
  <2>1. /\ pc'[t] = "store" /\ seen'[t] = excpt_chance + 1
        /\ excpt_chance' = excpt_chance /\ excpt_chance \in {0, 1}
    BY <1>4, <1>7 DEF LoadChance, NoFilterInv, Counted
  <2>. QED BY <1>2, <1>3, <1>5, <1>6, <2>1
           DEF OwnerBusy, Counted, Written, NoFilterInv
<1>8. CASE StoreChance(t)
  <2>1. /\ pc[t] = "store" /\ pc'[t] = "test" /\ seen' = seen
        /\ excpt_chance' = excpt_chance + 1 /\ excpt_chance \in {0, 1}
        /\ excpt_chance' = seen'[t]
    BY <1>4, <1>8 DEF StoreChance, NoFilterInv, Counted
  <2>2. OwnerBusy' /\ Counted'
    BY <1>2, <1>3, <1>5, <2>1 DEF OwnerBusy, Counted
  <2>3. Written'
    BY <1>2, <1>3, <1>5, <2>1 DEF Written, NoFilterInv
  <2>. QED BY <1>6, <2>2, <2>3
<1>9. CASE TestChance(t)
  <2>1. /\ pc[t] = "test" /\ seen[t] = excpt_chance /\ excpt_chance \in {1, 2}
        /\ UNCHANGED <<seen, excpt_chance>>
    BY <1>9 DEF TestChance, NoFilterInv, Counted
  <2>2. IF excpt_chance = 2 THEN pc'[t] = "failed" ELSE pc'[t] = "dump"
    BY <1>4, <1>9, <2>1 DEF TestChance, GivesUp
  <2>3. OwnerBusy' /\ Counted'
    BY <1>2, <1>3, <1>5, <2>1, <2>2 DEF OwnerBusy, Counted
  <2>4. excpt_chance = 1 => output = <<>>
    BY <2>1 DEF NoFilterInv, Written
  <2>5. Written'
    BY <1>2, <1>3, <1>5, <2>1, <2>2, <2>4 DEF Written, NoFilterInv
  <2>. QED BY <1>6, <2>3, <2>5
<1>. QED BY <1>7, <1>8, <1>9

(* What the writer may still write depends on where it is.                 *)
LEMMA OutputStep ==
  ASSUME NoFilterInv, NEW t \in Thread,
         CreateMiniDump(t) \/ CreateReportHead(t) \/ CreateReportTail(t)
  PROVE  OwnerBusy' /\ Counted' /\ Written' /\ SingleReport'
<1>. USE DEF Inside, Generating, Reporting, Returned
<1>1. pc[t] \in Reporting
  BY DEF CreateMiniDump, CreateReportHead, CreateReportTail
<1>2. critsec.owner = t /\ \A u \in Thread \ {t} : pc[u] \notin Inside
  BY <1>1, InsideOwns
<1>3. /\ UNCHANGED <<critsec, seen, excpt_chance>>
      /\ t # NoThread /\ excpt_chance = 1
  BY <1>1, CrashHandlerAssumption
     DEF CreateMiniDump, CreateReportHead, CreateReportTail, NoFilterInv, Counted
<1>4. /\ \A u \in Thread \ {t} : pc'[u] = pc[u]
      /\ pc'[t] \in {"head", "walk", "done"}
  BY DEF CreateMiniDump, CreateReportHead, CreateReportTail,
         NoFilterInv, ExclusionInv, TypeInv, TypeOK
<1>5. OwnerBusy' /\ Counted'
  BY <1>2, <1>3, <1>4 DEF OwnerBusy, Counted
<1>6. CASE CreateMiniDump(t) /\ Write(t, "dump")
  <2>1. output = <<>> /\ pc'[t] = "head"
    BY <1>6 DEF CreateMiniDump, NoFilterInv, Written, ExclusionInv, TypeInv, TypeOK
  <2>2. "dump" \in Part /\ \A i \in 1..Len(output) : Order[output[i].what] < Order["dump"]
    BY <2>1 DEF Part
  <2>3. /\ SingleReport'
        /\ \A i \in 1..Len(output') : output'[i].by = t
        /\ \A i \in 1..Len(output') : output'[i].what = "dump"
    BY <1>2, <1>6, <2>1, <2>2, WriteStep
  <2>4. Written'
    BY <1>2, <1>3, <1>4, <2>1, <2>3 DEF Written
  <2>. QED BY <1>5, <2>3, <2>4
<1>7. CASE CreateMiniDump(t) /\ UNCHANGED output
  <2>1. output = <<>> /\ pc'[t] = "head"
    BY <1>7 DEF CreateMiniDump, NoFilterInv, Written, ExclusionInv, TypeInv, TypeOK
  <2>2. Written'
    BY <1>2, <1>3, <1>4, <1>7, <2>1 DEF Written
  <2>3. SingleReport'
    BY <1>7, <2>1 DEF SingleReport
  <2>. QED BY <1>5, <2>2, <2>3
<1>8. CASE CreateReportHead(t)
  <2>1. /\ \A i \in 1..Len(output) : output[i].what = "dump"
        /\ pc'[t] \in {"walk", "done"}
    BY <1>8 DEF CreateReportHead, NoFilterInv, Written, ExclusionInv, TypeInv, TypeOK
  <2>2. "head" \in Part /\ \A i \in 1..Len(output) : Order[output[i].what] < Order["head"]
    BY <2>1 DEF Part, Order
  <2>3. /\ SingleReport'
        /\ \A i \in 1..Len(output') : output'[i].by = t
        /\ \A i \in 1..Len(output') : output'[i].what \in {"dump", "head"}
    BY <1>2, <1>8, <2>1, <2>2, WriteStep DEF CreateReportHead
  <2>4. Written'
    BY <1>2, <1>3, <1>4, <2>1, <2>3 DEF Written
  <2>. QED BY <1>5, <2>3, <2>4
<1>9. CASE CreateReportTail(t)
  <2>1. /\ \A i \in 1..Len(output) : output[i].what \in {"dump", "head"}
        /\ pc'[t] = "done"
    BY <1>9 DEF CreateReportTail, NoFilterInv, Written, ExclusionInv, TypeInv, TypeOK
  <2>2. "tail" \in Part /\ \A i \in 1..Len(output) : Order[output[i].what] < Order["tail"]
    BY <2>1 DEF Part, Order
  <2>3. /\ SingleReport'
        /\ \A i \in 1..Len(output') : output'[i].by = t
    BY <1>2, <1>9, <2>2, WriteStep DEF CreateReportTail
  <2>4. Written'
    BY <1>2, <1>3, <1>4, <2>1, <2>3 DEF Written
  <2>. QED BY <1>5, <2>3, <2>4
<1>. QED BY <1>6, <1>7, <1>8, <1>9 DEF CreateMiniDump

(* The steps that touch neither the report nor the counter.                *)
LEMMA OtherStep ==
  ASSUME NoFilterInv, NEW t \in Thread,
         SpawnFails(t) \/ HandlerEnds(t) \/ \E h \in HelperThread : SpawnHelper(t, h)
  PROVE  OwnerBusy' /\ Counted' /\ Written' /\ SingleReport'
<1>1. bContinueExecution = FALSE /\ pc \in [Thread -> Location]
  BY DEF NoFilterInv, ExclusionInv, TypeInv, TypeOK, Critical
<1>2. CASE SpawnFails(t) \/ HandlerEnds(t)
  <2>1. UNCHANGED <<pc, critsec, seen, excpt_chance, output>>
    BY <1>1, <1>2 DEF SpawnFails, HandlerEnds
  <2>. QED BY <2>1 DEF NoFilterInv, OwnerBusy, Counted, Written, SingleReport
<1>3. ASSUME NEW h \in HelperThread, SpawnHelper(t, h)
      PROVE  OwnerBusy' /\ Counted' /\ Written' /\ SingleReport'
  <2>1. /\ UNCHANGED <<critsec, seen, excpt_chance, output>>
        /\ pc[t] = "spawn" /\ pc[h] = "free" /\ h \in Thread
    BY <1>3 DEF SpawnHelper, Thread
  <2>2. /\ pc'[t] = "wait" /\ pc'[h] = "lock"
        /\ \A u \in Thread \ {t, h} : pc'[u] = pc[u]
    BY <1>1, <1>3, <2>1 DEF SpawnHelper
  <2>3. OwnerBusy'
    BY <2>1, <2>2 DEF NoFilterInv, OwnerBusy
  <2>4. Counted'
    BY <2>1, <2>2 DEF NoFilterInv, Counted, Reporting
  <2>5. Written' /\ SingleReport'
    BY <2>1, <2>2 DEF NoFilterInv, Written, SingleReport
  <2>. QED BY <2>3, <2>4, <2>5
<1>. QED BY <1>2, <1>3

-----------------------------------------------------------------------------
(* Nothing is owned, counted or written at first.                          *)
LEMMA NoFilterInit == Init => NoFilterInv
<1>. SUFFICES ASSUME Init PROVE NoFilterInv
  OBVIOUS
<1>1. ExclusionInv
  BY TypeInit, ExclusionInit DEF ExclusionInv
<1>2. OwnerBusy /\ Counted /\ Written /\ SingleReport
  BY CrashHandlerAssumption
     DEF Init, OwnerBusy, Counted, Written, SingleReport, Reporting
<1>. QED BY <1>1, <1>2 DEF NoFilterInv, Init

(* Without crExceptionFilter() every step keeps what OneReport rests on.   *)
LEMMA NoFilterStep ==
  ASSUME Guarded = {}, NoFilterInv, [Next]_vars
  PROVE  NoFilterInv'
<1>1. ExclusionInv'
  BY TypeStep, ExclusionStep DEF NoFilterInv, ExclusionInv
<1>2. inFilter' = {}
  BY <1>1 DEF ExclusionInv, TypeInv, TypeOK
<1>. SUFFICES OwnerBusy' /\ Counted' /\ Written' /\ SingleReport'
  BY <1>1, <1>2 DEF NoFilterInv
<1>3. ASSUME NEW t \in Thread, NEW c \in Crash,
             AppCrashes(t, c) \/ ReportCrashes(t, c)
      PROVE  OwnerBusy' /\ Counted' /\ Written' /\ SingleReport'
  BY <1>3, CrashStep
<1>4. ASSUME NEW t \in Thread, HandlerStep(t)
      PROVE  OwnerBusy' /\ Counted' /\ Written' /\ SingleReport'
  <2>1. ~FilterHandles(t) /\ ~FilterDeclines(t)
    BY DEF FilterHandles, FilterDeclines, NoFilterInv
  <2>. QED BY <1>4, <2>1, EnterStep, ChanceStep, OutputStep, OtherStep DEF HandlerStep
<1>5. ASSUME UNCHANGED <<pc, critsec, seen, excpt_chance, output>>
      PROVE  OwnerBusy' /\ Counted' /\ Written' /\ SingleReport'
  BY <1>5 DEF NoFilterInv, OwnerBusy, Counted, Written, SingleReport
<1>6. ASSUME NEW t \in Thread, NEW c \in Crash, DefaultSignal(t, c)
      PROVE  UNCHANGED <<pc, critsec, seen, excpt_chance, output>>
  BY <1>6 DEF DefaultSignal
<1>7. AppExits \/ UNCHANGED vars => UNCHANGED <<pc, critsec, seen, excpt_chance, output>>
  BY DEF AppExits, vars
<1>. QED BY <1>3, <1>4, <1>5, <1>6, <1>7 DEF Next, Idle

(* So it always holds.                                                     *)
LEMMA NoFilterInvariant ==
  ASSUME Guarded = {}
  PROVE  Spec => []NoFilterInv
<1>1. NoFilterInv /\ [Next]_vars => NoFilterInv'
  BY NoFilterStep
<1>. QED BY <1>1, NoFilterInit, PTL DEF Spec

(* One report at most, by one thread and in order, however many threads    *)
(* crash and however generating the report crashes in turn.                *)
THEOREM OneReport ==
  ASSUME Guarded = {}
  PROVE  Spec => []SingleReport
<1>1. NoFilterInv => SingleReport
  BY DEF NoFilterInv
<1>. QED BY <1>1, NoFilterInvariant, PTL

-----------------------------------------------------------------------------
(* Refinement.                                                             *)

(* The initial states are those of the abstract guard.                     *)
LEMMA GuardInit == Init => Guard!Init
  BY DEF Init, Guard!Init

(* A part written by the owner, later in the order than all others, is one *)
(* of the guard's.                                                         *)
LEMMA GuardWrite ==
  ASSUME NoFilterInv, NEW t \in Thread, NEW what \in Part,
         process = "up", process' = process, critsec' = critsec,
         critsec.owner = t, Write(t, what),
         \A i \in 1..Len(output) : Order[output[i].what] < Order[what]
  PROVE  Guard!WritePart(what)
<1>1. t # NoThread
  BY CrashHandlerAssumption
<1>2. output \in Seq(Event)
  BY DEF NoFilterInv, ExclusionInv, TypeInv, TypeOK
<1>3. \A i \in 1..Len(output) : what \notin Guard!Bars(output[i].what)
  <2>1. ASSUME NEW i \in 1..Len(output)
        PROVE  output[i].what \in Part
    <3>1. output[i] \in Event
      BY <1>2
    <3>. QED BY <3>1 DEF Event
  <2>2. ASSUME NEW a \in Part, Order[a] < Order[what]
        PROVE  what \notin Guard!Bars(a)
    <3>1. (a = "dump" /\ what \in {"head", "tail"}) \/ (a = "head" /\ what = "tail")
      BY <2>2 DEF Order, Part
    <3>. QED BY <3>1 DEF Guard!Bars
  <2>. QED BY <2>1, <2>2
<1>. QED BY <1>1, <1>3 DEF Guard!WritePart, Write

(* Every step is one of the guard or a stutter.                            *)
LEMMA GuardStep ==
  ASSUME Guarded = {}, NoFilterInv, [Next]_vars
  PROVE  [Guard!Next]_(Guard!vars)
<1>1. ASSUME NEW t \in Thread, EnterHandler(t)
      PROVE  Guard!Catch(t) \/ UNCHANGED Guard!vars
  <2>1. /\ process = "up" /\ process' = "up" /\ output' = output
        /\ critsec.owner \in {NoThread, t} /\ critsec'.owner = t
        /\ t # NoThread
    BY <1>1, CrashHandlerAssumption DEF EnterHandler, MayEnter
  <2>. QED BY <2>1 DEF Guard!Catch, Guard!vars
<1>2. ASSUME NEW t \in Thread, CreateMiniDump(t)
      PROVE  Guard!WritePart("dump") \/ UNCHANGED Guard!vars
  <2>1. critsec.owner = t /\ output = <<>>
    BY <1>2, InsideOwns DEF CreateMiniDump, Inside, Generating, Reporting, NoFilterInv, Written
  <2>2. CASE Write(t, "dump")
    BY <1>2, <2>1, <2>2, GuardWrite DEF CreateMiniDump, Part
  <2>3. CASE UNCHANGED output
    BY <1>2, <2>3 DEF CreateMiniDump, Guard!vars
  <2>. QED BY <1>2, <2>2, <2>3 DEF CreateMiniDump
<1>3. ASSUME NEW t \in Thread, CreateReportHead(t)
      PROVE  Guard!WritePart("head")
  <2>1. critsec.owner = t /\ \A i \in 1..Len(output) : output[i].what = "dump"
    BY <1>3, InsideOwns DEF CreateReportHead, Inside, Generating, Reporting, NoFilterInv, Written
  <2>2. "head" \in Part /\ \A i \in 1..Len(output) : Order[output[i].what] < Order["head"]
    BY <2>1 DEF Part, Order
  <2>. QED BY <1>3, <2>1, <2>2, GuardWrite DEF CreateReportHead
<1>4. ASSUME NEW t \in Thread, CreateReportTail(t)
      PROVE  Guard!WritePart("tail")
  <2>1. /\ critsec.owner = t
        /\ \A i \in 1..Len(output) : output[i].what \in {"dump", "head"}
    BY <1>4, InsideOwns DEF CreateReportTail, Inside, Generating, Reporting, NoFilterInv, Written
  <2>2. "tail" \in Part /\ \A i \in 1..Len(output) : Order[output[i].what] < Order["tail"]
    BY <2>1 DEF Part, Order
  <2>. QED BY <1>4, <2>1, <2>2, GuardWrite DEF CreateReportTail
<1>5. ASSUME process = "up", process' # "up", critsec' = critsec, output' = output
      PROVE  Guard!End
  BY <1>5 DEF Guard!End
<1>6. ASSUME NEW t \in Thread, HandlerEnds(t) \/ SpawnFails(t)
      PROVE  process = "up" /\ process' # "up" /\ critsec' = critsec /\ output' = output
  BY <1>6 DEF HandlerEnds, SpawnFails, NoFilterInv, ExclusionInv, TypeInv, Critical
<1>7. ASSUME NEW t \in Thread, NEW c \in Crash, AppExits \/ DefaultSignal(t, c)
      PROVE  process = "up" /\ process' # "up" /\ critsec' = critsec /\ output' = output
  BY <1>7 DEF AppExits, DefaultSignal
<1>8. ASSUME NEW t \in Thread, HandlerStep(t)
      PROVE  \/ EnterHandler(t) \/ CreateMiniDump(t) \/ CreateReportHead(t)
             \/ CreateReportTail(t) \/ HandlerEnds(t) \/ SpawnFails(t)
             \/ UNCHANGED <<process, critsec, output>>
  BY <1>8 DEF HandlerStep, SpawnHelper, LoadChance, StoreChance, TestChance,
     FilterHandles, FilterDeclines
<1>9. ASSUME NEW t \in Thread, NEW c \in Crash, AppCrashes(t, c) \/ ReportCrashes(t, c)
      PROVE  UNCHANGED <<process, critsec, output>>
  BY <1>9 DEF AppCrashes, ReportCrashes, Deliver
<1>10. UNCHANGED <<process, critsec, output>> => UNCHANGED Guard!vars
  BY DEF Guard!vars
<1>11. {"dump", "head", "tail"} = Guard!Part
  BY DEF Guard!Part
<1>12. UNCHANGED vars => UNCHANGED <<process, critsec, output>>
  BY DEF vars
<1>13. ASSUME NEW t \in Thread, HandlerStep(t)
       PROVE  [Guard!Next]_(Guard!vars)
  BY <1>13, <1>1, <1>2, <1>3, <1>4, <1>5, <1>6, <1>8, <1>10, <1>11 DEF Guard!Next
<1>14. ASSUME NEW t \in Thread, NEW c \in Crash,
              AppExits \/ DefaultSignal(t, c) \/ AppCrashes(t, c) \/ ReportCrashes(t, c)
       PROVE  [Guard!Next]_(Guard!vars)
  BY <1>14, <1>5, <1>7, <1>9, <1>10 DEF Guard!Next
<1>15. MainThread \in Thread /\ "Seh" \in Crash
  BY CrashHandlerAssumption DEF Thread, Crash, SehCrash
<1>. QED BY <1>10, <1>12, <1>13, <1>14, <1>15 DEF Next, Idle

(* The handlers implement CrashGuard: the first thread to be caught is the *)
(* only writer of the only report, part by part, until the process ends.   *)
THEOREM ImplementsGuard ==
  ASSUME Guarded = {}
  PROVE  Spec => GuardSpec
<1>1. NoFilterInv /\ [Next]_vars => [Guard!Next]_(Guard!vars)
  BY GuardStep
<1>. QED BY <1>1, GuardInit, NoFilterInvariant, PTL DEF Spec, GuardSpec, Guard!Spec
=============================================================================
