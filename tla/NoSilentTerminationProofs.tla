--------------------- MODULE NoSilentTerminationProofs ---------------------
(***************************************************************************)
(* In a process that does not use crExceptionFilter(), no handler          *)
(* terminates the process without having started its report, unless        *)
(* generating it has crashed or a stack overflow has found no helper.      *)
(* With crExceptionFilter() a crash may be dropped, but only after another *)
(* one has been counted.                                                   *)
(*                                                                         *)
(* The argument without it: a thread gives up only on its second pass      *)
(* through GenerateErrorReport(), and the owner of the critical section    *)
(* comes to a second pass only by crashing during the first.  With it: the *)
(* first thread at the counter reports while it is alone there, and as     *)
(* long as nothing is reported no thread that has been counted leaves.     *)
(***************************************************************************)
EXTENDS CrashGuardProofs

(* Where the owner of the critical section is only because generating its  *)
(* report has crashed.                                                     *)
Again(t) ==
  \/ pc[t] \in {"lock", "spawn", "wait", "failed"}
  \/ pc[t] \in {"load", "store"} /\ excpt_chance = 1
  \/ pc[t] = "test" /\ excpt_chance = 2

Nested == \A t \in Thread : critsec.owner = t /\ Again(t) => nesting[t] > 0

HeadWritten == \E i \in 1..Len(output) : output[i].what = "head"

(* A report that has come to its call stack, or to its end, has its head.  *)
Announced == \A t \in Thread : pc[t] \in {"walk", "done"} => HeadWritten

SilentInv == NoFilterInv /\ Nested /\ Announced /\ NoSilentTermination

-----------------------------------------------------------------------------
(* While the process is up, NoSilentTermination speaks of the step that    *)
(* ends it.                                                                *)
LEMMA StillUp ==
  ASSUME process' # "terminated"
  PROVE  NoSilentTermination'
  BY DEF NoSilentTermination

(* A crash, of the application or of a report.                             *)
LEMMA SilentCrashStep ==
  ASSUME Guarded = {}, SilentInv, NEW t \in Thread, NEW c \in Crash,
         AppCrashes(t, c) \/ ReportCrashes(t, c)
  PROVE  Nested' /\ Announced' /\ NoSilentTermination'
<1>1. Deliver(t, c) /\ process' = "up"
  BY DEF AppCrashes, ReportCrashes, Deliver
<1>2. /\ pc'[t] \in {"lock", "spawn"}
      /\ \A u \in Thread \ {t} : pc'[u] = pc[u]
      /\ UNCHANGED <<critsec, excpt_chance, seen, output>>
  BY <1>1, DeliverUnfiltered DEF SilentInv
<1>3. nesting \in [Thread -> 0..MaxNesting] /\ MaxNesting \in Nat
  BY CrashHandlerAssumption DEF SilentInv, NoFilterInv, ExclusionInv, TypeInv, TypeOK
<1>4. /\ \A u \in Thread \ {t} : nesting'[u] = nesting[u]
      /\ critsec.owner = t => nesting'[t] > 0
  <2>1. CASE AppCrashes(t, c)
    <3>1. critsec.owner # t
      BY <2>1 DEF AppCrashes, SilentInv, NoFilterInv, OwnerBusy
    <3>. QED BY <2>1, <3>1 DEF AppCrashes
  <2>2. CASE ReportCrashes(t, c)
    <3>1. nesting' = [nesting EXCEPT ![t] = @ + 1] /\ nesting[t] >= 0
      BY <1>3, <2>2 DEF ReportCrashes
    <3>. QED BY <1>3, <3>1
  <2>. QED BY <2>1, <2>2
<1>5. Nested'
  BY <1>2, <1>4 DEF SilentInv, Nested, Again
<1>6. Announced'
  BY <1>2 DEF SilentInv, Announced, HeadWritten
<1>. QED BY <1>1, <1>5, <1>6, StillUp

(* A handler is entered.                                                   *)
LEMMA SilentEnterStep ==
  ASSUME SilentInv, NEW t \in Thread, EnterHandler(t)
  PROVE  Nested' /\ Announced' /\ NoSilentTermination'
<1>1. /\ critsec.owner \in {NoThread, t}
      /\ critsec'.owner = t
      /\ pc[t] = "lock" /\ pc'[t] = "load"
      /\ \A u \in Thread \ {t} : pc'[u] = pc[u]
      /\ UNCHANGED <<excpt_chance, output, nesting>>
      /\ process' = "up"
  BY DEF EnterHandler, MayEnter, SilentInv, NoFilterInv, ExclusionInv, TypeInv, TypeOK
<1>2. critsec.owner = NoThread => excpt_chance = 0
  BY DEF SilentInv, NoFilterInv, Counted
<1>3. critsec.owner = t => nesting[t] > 0
  BY <1>1 DEF SilentInv, Nested, Again
<1>4. Nested'
  BY <1>1, <1>2, <1>3 DEF Nested, Again
<1>5. Announced'
  BY <1>1 DEF SilentInv, Announced, HeadWritten
<1>. QED BY <1>1, <1>4, <1>5, StillUp

(* The exceptions are counted.                                             *)
LEMMA SilentChanceStep ==
  ASSUME SilentInv, NEW t \in Thread, LoadChance(t) \/ StoreChance(t) \/ TestChance(t)
  PROVE  Nested' /\ Announced' /\ NoSilentTermination'
<1>. USE DEF SilentInv
<1>1. pc[t] \in Inside /\ process' = "up"
  BY DEF LoadChance, StoreChance, TestChance, Inside, Generating
<1>2. critsec.owner = t
  BY <1>1, InsideOwns
<1>3. /\ UNCHANGED <<critsec, nesting, output>>
      /\ pc \in [Thread -> Location] /\ excpt_chance \in Nat
      /\ \A u \in Thread \ {t} : pc'[u] = pc[u]
  BY DEF LoadChance, StoreChance, TestChance, NoFilterInv, ExclusionInv, TypeInv, TypeOK
<1>4. pc'[t] \in {"store", "test", "failed", "dump"}
  BY <1>3 DEF LoadChance, StoreChance, TestChance
<1>5. Again(t)' => Again(t)
  <2>1. CASE LoadChance(t)
    BY <1>3, <2>1 DEF LoadChance, Again
  <2>2. CASE StoreChance(t)
    <3>1. /\ pc[t] = "store" /\ pc'[t] = "test"
          /\ excpt_chance' = excpt_chance + 1
      BY <1>3, <2>2 DEF StoreChance, NoFilterInv, Counted
    <3>. QED BY <1>3, <3>1 DEF Again
  <2>3. CASE TestChance(t)
    <3>1. /\ pc[t] = "test" /\ seen[t] = excpt_chance /\ excpt_chance \in {1, 2}
          /\ UNCHANGED <<seen, excpt_chance>>
      BY <2>3 DEF TestChance, NoFilterInv, Counted
    <3>2. IF excpt_chance = 2 THEN pc'[t] = "failed" ELSE pc'[t] = "dump"
      BY <1>3, <2>3, <3>1 DEF TestChance, GivesUp
    <3>. QED BY <3>1, <3>2 DEF Again
  <2>. QED BY <2>1, <2>2, <2>3
<1>6. Nested'
  BY <1>2, <1>3, <1>5 DEF Nested
<1>7. Announced'
  BY <1>3, <1>4 DEF Announced, HeadWritten
<1>. QED BY <1>1, <1>6, <1>7, StillUp

(* Writing a part leaves the head written, and writing the head does so.   *)
LEMMA WriteHead ==
  ASSUME TypeInv, NEW t \in Thread, NEW what \in Part, Write(t, what),
         what = "head" \/ HeadWritten
  PROVE  HeadWritten'
<1>1. /\ Len(output') = Len(output) + 1
      /\ \A i \in 1..Len(output) : output'[i] = output[i]
      /\ output'[Len(output) + 1] = [by |-> t, what |-> what]
      /\ Len(output) \in Nat
  BY WriteElements
<1>2. CASE what = "head"
  <2>1. Len(output) + 1 \in 1..Len(output') /\ [by |-> t, what |-> what].what = "head"
    BY <1>1, <1>2
  <2>. QED BY <1>1, <2>1 DEF HeadWritten
<1>3. CASE HeadWritten
  <2>1. PICK i \in 1..Len(output) : output[i].what = "head"
    BY <1>3 DEF HeadWritten
  <2>2. i \in 1..Len(output') /\ output'[i].what = "head"
    BY <1>1, <2>1
  <2>. QED BY <2>2 DEF HeadWritten
<1>. QED BY <1>2, <1>3

(* Parts of the report are written.                                        *)
LEMMA SilentOutputStep ==
  ASSUME SilentInv, NEW t \in Thread,
         CreateMiniDump(t) \/ CreateReportHead(t) \/ CreateReportTail(t)
  PROVE  Nested' /\ Announced' /\ NoSilentTermination'
<1>. USE DEF SilentInv
<1>1. pc[t] \in Inside /\ process' = "up"
  BY DEF CreateMiniDump, CreateReportHead, CreateReportTail, Inside, Generating, Reporting
<1>2. critsec.owner = t /\ \A u \in Thread \ {t} : pc[u] \notin Inside
  BY <1>1, InsideOwns
<1>3. /\ UNCHANGED <<critsec, nesting, excpt_chance>>
      /\ pc'[t] \in {"head", "walk", "done"}
      /\ \A u \in Thread \ {t} : pc'[u] = pc[u]
  BY DEF CreateMiniDump, CreateReportHead, CreateReportTail,
         NoFilterInv, ExclusionInv, TypeInv, TypeOK
<1>4. Nested'
  BY <1>2, <1>3 DEF Nested, Again
<1>5. \A u \in Thread \ {t} : pc'[u] \notin {"walk", "done"}
  BY <1>2, <1>3 DEF Inside, Generating, Reporting, Returned
<1>6. CASE CreateMiniDump(t)
  <2>1. pc'[t] = "head"
    BY <1>6 DEF CreateMiniDump, NoFilterInv, ExclusionInv, TypeInv, TypeOK
  <2>2. Announced'
    BY <1>5, <2>1 DEF Announced
  <2>. QED BY <1>1, <1>4, <2>2, StillUp
<1>7. CASE CreateReportHead(t)
  <2>1. "head" \in Part /\ Write(t, "head")
    BY <1>7 DEF CreateReportHead, Part
  <2>2. HeadWritten'
    BY <2>1, WriteHead DEF NoFilterInv, ExclusionInv
  <2>. QED BY <1>1, <1>4, <2>2, StillUp DEF Announced
<1>8. CASE CreateReportTail(t)
  <2>1. "tail" \in Part /\ Write(t, "tail") /\ HeadWritten
    BY <1>8 DEF CreateReportTail, Part, Announced
  <2>2. HeadWritten'
    BY <2>1, WriteHead DEF NoFilterInv, ExclusionInv
  <2>. QED BY <1>1, <1>4, <2>2, StillUp DEF Announced
<1>. QED BY <1>6, <1>7, <1>8

(* A handler ends, with its helper or without.                             *)
LEMMA SilentOtherStep ==
  ASSUME SilentInv, NEW t \in Thread,
         SpawnFails(t) \/ HandlerEnds(t) \/ \E h \in HelperThread : SpawnHelper(t, h)
  PROVE  Nested' /\ Announced' /\ NoSilentTermination'
<1>. USE DEF SilentInv
<1>1. bContinueExecution = FALSE /\ pc \in [Thread -> Location]
  BY DEF NoFilterInv, ExclusionInv, TypeInv, TypeOK, Critical
<1>2. CASE SpawnFails(t) \/ HandlerEnds(t)
  <2>1. UNCHANGED <<pc, critsec, nesting, excpt_chance, output>>
    BY <1>1, <1>2 DEF SpawnFails, HandlerEnds
  <2>2. Nested' /\ Announced'
    BY <2>1 DEF Nested, Again, Announced, HeadWritten
  <2>3. HeadWritten \/ nesting[t] > 0 \/ pc[t] = "spawn"
    <3>1. CASE SpawnFails(t)
      BY <3>1 DEF SpawnFails
    <3>2. CASE HandlerEnds(t)
      <4>1. pc[t] \in {"done", "failed"}
        BY <3>2 DEF HandlerEnds, Returned
      <4>2. critsec.owner = t
        BY <4>1, InsideOwns DEF Inside, Returned
      <4>. QED BY <4>1, <4>2 DEF Announced, Nested, Again
    <3>. QED BY <1>2, <3>1, <3>2
  <2>4. NoSilentTermination'
    BY <2>1, <2>3 DEF NoSilentTermination, HeadWritten
  <2>. QED BY <2>2, <2>4
<1>3. ASSUME NEW h \in HelperThread, SpawnHelper(t, h)
      PROVE  Nested' /\ Announced' /\ NoSilentTermination'
  <2>1. /\ UNCHANGED <<critsec, nesting, excpt_chance, output>> /\ process' = "up"
        /\ pc[t] = "spawn" /\ pc[h] = "free" /\ h \in Thread
    BY <1>3 DEF SpawnHelper, Thread
  <2>2. /\ pc'[t] = "wait" /\ pc'[h] = "lock"
        /\ \A u \in Thread \ {t, h} : pc'[u] = pc[u]
    BY <1>1, <1>3, <2>1 DEF SpawnHelper
  <2>3. critsec.owner # h
    BY <2>1 DEF NoFilterInv, OwnerBusy
  <2>4. Nested'
    BY <2>1, <2>2, <2>3 DEF Nested, Again
  <2>5. Announced'
    BY <2>1, <2>2 DEF Announced, HeadWritten
  <2>. QED BY <2>1, <2>4, <2>5, StillUp
<1>. QED BY <1>2, <1>3

-----------------------------------------------------------------------------
(* Nothing is silent at first.                                             *)
LEMMA SilentInit == Init => SilentInv
  BY NoFilterInit, CrashHandlerAssumption
     DEF SilentInv, Init, Nested, Announced, NoSilentTermination

(* Every step keeps what the theorem rests on.                             *)
LEMMA SilentStep ==
  ASSUME Guarded = {}, SilentInv, [Next]_vars
  PROVE  SilentInv'
<1>1. NoFilterInv'
  BY NoFilterStep DEF SilentInv
<1>. SUFFICES Nested' /\ Announced' /\ NoSilentTermination'
  BY <1>1 DEF SilentInv
<1>2. ASSUME NEW t \in Thread, NEW c \in Crash, AppCrashes(t, c) \/ ReportCrashes(t, c)
      PROVE  Nested' /\ Announced' /\ NoSilentTermination'
  BY <1>2, SilentCrashStep
<1>3. ASSUME NEW t \in Thread, HandlerStep(t)
      PROVE  Nested' /\ Announced' /\ NoSilentTermination'
  <2>1. ~FilterHandles(t) /\ ~FilterDeclines(t)
    BY DEF FilterHandles, FilterDeclines, SilentInv, NoFilterInv
  <2>. QED BY <1>3, <2>1, SilentEnterStep, SilentChanceStep, SilentOutputStep,
              SilentOtherStep DEF HandlerStep
<1>4. ASSUME UNCHANGED <<pc, critsec, nesting, excpt_chance, output>>,
             process' # "terminated" \/ process' = process
      PROVE  Nested' /\ Announced' /\ NoSilentTermination'
  BY <1>4 DEF SilentInv, Nested, Again, Announced, HeadWritten, NoSilentTermination
<1>5. ASSUME NEW t \in Thread, NEW c \in Crash, DefaultSignal(t, c)
      PROVE  /\ UNCHANGED <<pc, critsec, nesting, excpt_chance, output>>
             /\ process' # "terminated"
  BY <1>5 DEF DefaultSignal
<1>6. ASSUME AppExits
      PROVE  /\ UNCHANGED <<pc, critsec, nesting, excpt_chance, output>>
             /\ process' # "terminated"
  BY <1>6 DEF AppExits
<1>7. ASSUME UNCHANGED vars
      PROVE  UNCHANGED <<pc, critsec, nesting, excpt_chance, output, process>>
  BY <1>7 DEF vars
<1>. QED BY <1>2, <1>3, <1>4, <1>5, <1>6, <1>7 DEF Next, Idle

(* However many threads crash, the process is not terminated without the   *)
(* start of a report, unless generating it has crashed or a stack overflow *)
(* has found no helper thread.                                             *)
THEOREM NeverSilent ==
  ASSUME Guarded = {}
  PROVE  Spec => []NoSilentTermination
<1>1. SilentInv /\ [Next]_vars => SilentInv'
  BY SilentStep
<1>2. SilentInv => NoSilentTermination
  BY DEF SilentInv
<1>. QED BY <1>1, <1>2, SilentInit, PTL DEF Spec

-----------------------------------------------------------------------------
(* With crExceptionFilter().                                               *)

(* A thread there has been counted.                                        *)
PastGate == {"store", "test", "dump", "head", "walk", "done", "failed"}
Registered == \A t \in Thread : pc[t] \in PastGate => seen[t] > 0

(* Nobody is counted before the first.                                     *)
Uncounted == (\A t \in Thread : seen[t] = 0) => excpt_chance = 0

(* A thread that has been counted goes back to the application only with a *)
(* report.                                                                 *)
Occupied == ~HeadWritten => \A t \in Thread : seen[t] > 0 => pc[t] # "run"

(* Until something is reported or crashes again, the only thread to be     *)
(* counted is the first and has its report before it.                      *)
Quiet == ~HeadWritten /\ \A t \in Thread : nesting[t] = 0
FirstAt(t) ==
  /\ seen[t] = 1
  /\ \/ pc[t] = "store" /\ excpt_chance = 0
     \/ pc[t] \in {"test", "dump", "head"} /\ excpt_chance = 1
Alone(t) == seen[t] > 0 /\ \A u \in Thread \ {t} : seen[u] = 0
FirstReports == Quiet => \A t \in Thread : Alone(t) => FirstAt(t)

(* Whose report has crashed, or has been started, has been counted.        *)
CountedFirst ==
  /\ \A t \in Thread : nesting[t] = 0 \/ seen[t] > 0
  /\ \A t \in Reported : t \in Thread /\ seen[t] > 0

Drops == Registered /\ Uncounted /\ Announced /\ Occupied /\ FirstReports /\ CountedFirst
DropInv == TypeInv /\ Drops

(* A report that has been started is somebody's.                           *)
LEMMA HeadReported == HeadWritten <=> Reported # {}
BY DEF HeadWritten, Reported

(* Output that stays, or grows by a part, keeps those who are reported;    *)
(* only the head of a report adds its thread.                              *)
LEMMA ReportedStays ==
  ASSUME UNCHANGED output
  PROVE  Reported' = Reported
BY DEF Reported

LEMMA ReportedGrows ==
  ASSUME TypeInv, NEW t \in Thread, NEW what \in Part, Write(t, what)
  PROVE  \A u \in Reported' : u \in Reported \/ u = t
<1>1. /\ Len(output') = Len(output) + 1
      /\ \A i \in 1..Len(output) : output'[i] = output[i]
      /\ output'[Len(output) + 1] = [by |-> t, what |-> what]
      /\ Len(output) \in Nat
  BY WriteElements
<1>. SUFFICES ASSUME NEW i \in 1..Len(output'), output'[i].what = "head"
              PROVE  output'[i].by \in Reported \/ output'[i].by = t
  BY DEF Reported
<1>2. CASE i = Len(output) + 1
  BY <1>1, <1>2
<1>3. CASE i \in 1..Len(output)
  BY <1>1, <1>3 DEF Reported
<1>. QED BY <1>1, <1>2, <1>3

(* Steps that count nobody: whoever moves has been counted before if       *)
(* afterwards it is past the gate, it ends or goes back only with a head   *)
(* written, and the first one keeps to its way.                            *)
LEMMA DropMoves ==
  ASSUME DropInv, UNCHANGED <<seen, excpt_chance>>,
         HeadWritten => HeadWritten', Quiet' => Quiet,
         \A u \in Thread : nesting'[u] \in {0, nesting[u]} \/ seen[u] > 0,
         \A u \in Reported' : u \in Reported \/ (u \in Thread /\ seen[u] > 0),
         \A u \in Thread :
           \/ pc'[u] = pc[u]
           \/ /\ pc'[u] \in PastGate => pc[u] \in PastGate
              /\ pc'[u] \in {"walk", "done", "run"} => HeadWritten'
              /\ Quiet' /\ FirstAt(u) => FirstAt(u)'
  PROVE  Drops'
<1>. USE DEF DropInv, Drops
<1>1. Registered'
  BY DEF Registered
<1>2. Uncounted'
  BY DEF Uncounted
<1>3. Announced'
  BY DEF Announced
<1>4. Occupied'
  BY DEF Occupied
<1>5. FirstReports'
  <2>. SUFFICES ASSUME Quiet', NEW t \in Thread, Alone(t)'
                PROVE  FirstAt(t)'
    BY DEF FirstReports
  <2>1. FirstAt(t)
    BY DEF FirstReports, Alone
  <2>2. CASE pc'[t] = pc[t]
    BY <2>1, <2>2 DEF FirstAt
  <2>. QED BY <2>1, <2>2
<1>6. CountedFirst'
  BY DEF CountedFirst
<1>. QED BY <1>1, <1>2, <1>3, <1>4, <1>5, <1>6

(* A crash, of the application or of a report.                             *)
LEMMA DropCrashStep ==
  ASSUME DropInv, NEW t \in Thread, NEW c \in Crash, AppCrashes(t, c) \/ ReportCrashes(t, c)
  PROVE  Drops'
<1>1. Deliver(t, c) /\ process' = "up"
  BY DEF AppCrashes, ReportCrashes, Deliver
<1>2. /\ pc'[t] \in {"load", "lock", "spawn"}
      /\ \A u \in Thread \ {t} : pc'[u] = pc[u]
      /\ UNCHANGED <<seen, excpt_chance, output>>
  BY <1>1 DEF Deliver, FirstStop, DropInv, TypeInv, TypeOK
<1>3. (HeadWritten' <=> HeadWritten) /\ Reported' = Reported
  BY <1>2, ReportedStays DEF HeadWritten
<1>4. CASE AppCrashes(t, c)
  <2>1. pc[t] = "run" /\ UNCHANGED nesting
    BY <1>4 DEF AppCrashes
  <2>2. Quiet' => Quiet
    BY <1>3, <2>1 DEF Quiet
  <2>3. ~FirstAt(t)
    BY <2>1 DEF FirstAt
  <2>. QED BY <1>1, <1>2, <1>3, <2>1, <2>2, <2>3, DropMoves DEF PastGate
<1>5. CASE ReportCrashes(t, c)
  <2>1. nesting'[t] # 0
    <3>1. nesting \in [Thread -> 0..MaxNesting] /\ MaxNesting \in Nat
      BY CrashHandlerAssumption DEF DropInv, TypeInv, TypeOK
    <3>2. nesting' = [nesting EXCEPT ![t] = @ + 1]
      BY <1>5 DEF ReportCrashes
    <3>. QED BY <3>1, <3>2
  <2>2. ~Quiet'
    BY <2>1 DEF Quiet
  <2>3. \A u \in Thread : nesting'[u] = nesting[u] \/ seen[u] > 0
    <3>1. seen[t] > 0
      BY <1>5 DEF ReportCrashes, Reporting, DropInv, Drops, Registered, PastGate
    <3>. QED BY <1>5, <3>1 DEF ReportCrashes, DropInv, TypeInv, TypeOK
  <2>. QED BY <1>1, <1>2, <1>3, <2>2, <2>3, DropMoves DEF PastGate
<1>. QED BY <1>4, <1>5

(* The first of the steps at the counter: a thread is counted.             *)
LEMMA DropLoadStep ==
  ASSUME DropInv, NEW t \in Thread, LoadChance(t)
  PROVE  Drops'
<1>. USE DEF DropInv, Drops
<1>1. /\ pc[t] = "load" /\ pc'[t] = "store"
      /\ \A u \in Thread \ {t} : pc'[u] = pc[u] /\ seen'[u] = seen[u]
      /\ seen'[t] = excpt_chance + 1 /\ excpt_chance \in Nat
      /\ UNCHANGED <<excpt_chance, output, nesting>> /\ process' = "up"
  BY DEF LoadChance, TypeInv, TypeOK
<1>2. seen \in [Thread -> Nat]
  BY DEF TypeInv, TypeOK
<1>3. HeadWritten' <=> HeadWritten
  BY <1>1 DEF HeadWritten
<1>4. Registered'
  BY <1>1 DEF Registered
<1>5. Uncounted'
  BY <1>1 DEF Uncounted
<1>6. Announced' /\ Occupied'
  BY <1>1, <1>3 DEF Announced, Occupied
<1>7. FirstReports'
  <2>. SUFFICES ASSUME Quiet', NEW u \in Thread, Alone(u)'
                PROVE  FirstAt(u)'
    BY DEF FirstReports
  <2>1. Quiet
    BY <1>1, <1>3 DEF Quiet
  <2>2. u = t
    BY <1>1 DEF Alone
  <2>3. seen[t] = 0
    <3>1. ~FirstAt(t)
      BY <1>1 DEF FirstAt
    <3>2. ~Alone(t)
      BY <2>1, <3>1 DEF FirstReports
    <3>. QED BY <1>1, <1>2, <2>2, <3>2 DEF Alone
  <2>4. excpt_chance = 0
    BY <1>1, <2>2, <2>3 DEF Uncounted, Alone
  <2>. QED BY <1>1, <2>2, <2>4 DEF FirstAt
<1>8. CountedFirst'
  BY <1>1, <1>2, ReportedStays DEF CountedFirst
<1>. QED BY <1>4, <1>5, <1>6, <1>7, <1>8

(* The second: the counter is stored.                                      *)
LEMMA DropStoreStep ==
  ASSUME DropInv, NEW t \in Thread, StoreChance(t)
  PROVE  Drops'
<1>. USE DEF DropInv, Drops
<1>1. /\ pc[t] = "store" /\ pc'[t] = "test"
      /\ \A u \in Thread \ {t} : pc'[u] = pc[u]
      /\ excpt_chance' = seen[t]
      /\ UNCHANGED <<seen, output, nesting>> /\ process' = "up"
  BY DEF StoreChance, TypeInv, TypeOK
<1>2. HeadWritten' <=> HeadWritten
  BY <1>1 DEF HeadWritten
<1>3. Registered' /\ seen[t] > 0
  BY <1>1 DEF Registered, PastGate
<1>4. Uncounted'
  BY <1>1, <1>3 DEF Uncounted
<1>5. Announced' /\ Occupied'
  BY <1>1, <1>2 DEF Announced, Occupied
<1>6. FirstReports'
  <2>. SUFFICES ASSUME Quiet', NEW u \in Thread, Alone(u)'
                PROVE  FirstAt(u)'
    BY DEF FirstReports
  <2>1. Quiet /\ Alone(u)
    BY <1>1, <1>2 DEF Quiet, Alone
  <2>2. FirstAt(u)
    BY <2>1 DEF FirstReports
  <2>3. u = t
    BY <1>3, <2>1 DEF Alone
  <2>. QED BY <1>1, <2>2, <2>3 DEF FirstAt
<1>7. CountedFirst'
  BY <1>1, ReportedStays DEF CountedFirst
<1>. QED BY <1>3, <1>4, <1>5, <1>6, <1>7

(* The third: it is compared, with either value.                           *)
LEMMA DropTestStep ==
  ASSUME DropInv, NEW t \in Thread, TestChance(t)
  PROVE  Drops'
<1>1. /\ pc[t] = "test" /\ pc'[t] \in {"failed", "dump"}
      /\ \A u \in Thread \ {t} : pc'[u] = pc[u]
      /\ UNCHANGED <<seen, excpt_chance, output, nesting>> /\ process' = "up"
  BY DEF TestChance, DropInv, TypeInv, TypeOK
<1>2. (HeadWritten' <=> HeadWritten) /\ Reported' = Reported
  BY <1>1, ReportedStays DEF HeadWritten
<1>3. Quiet' => Quiet
  BY <1>1, <1>2 DEF Quiet
<1>4. FirstAt(t) => FirstAt(t)'
  <2>. SUFFICES ASSUME FirstAt(t)
                PROVE  FirstAt(t)'
    OBVIOUS
  <2>1. seen[t] = 1 /\ excpt_chance = 1
    BY <1>1 DEF FirstAt
  <2>2. pc'[t] = "dump"
    BY <1>1, <2>1 DEF TestChance, GivesUp, DropInv, TypeInv, TypeOK
  <2>. QED BY <1>1, <2>1, <2>2 DEF FirstAt
<1>. QED BY <1>1, <1>2, <1>3, <1>4, DropMoves DEF PastGate

(* Parts of the report are written.                                        *)
LEMMA DropOutputStep ==
  ASSUME DropInv, NEW t \in Thread,
         CreateMiniDump(t) \/ CreateReportHead(t) \/ CreateReportTail(t)
  PROVE  Drops'
<1>. USE DEF DropInv, Drops
<1>1. /\ \A u \in Thread \ {t} : pc'[u] = pc[u]
      /\ UNCHANGED <<seen, excpt_chance, nesting>> /\ process' = "up"
  BY DEF CreateMiniDump, CreateReportHead, CreateReportTail, TypeInv, TypeOK
<1>2. CASE CreateMiniDump(t)
  <2>1. pc[t] = "dump" /\ pc'[t] = "head"
    BY <1>2 DEF CreateMiniDump, TypeInv, TypeOK
  <2>2. HeadWritten => HeadWritten'
    <3>1. CASE UNCHANGED output
      BY <3>1 DEF HeadWritten
    <3>2. CASE Write(t, "dump")
      BY <3>2, WriteHead DEF Part
    <3>. QED BY <1>2, <3>1, <3>2 DEF CreateMiniDump
  <2>3. Quiet' => Quiet
    BY <1>1, <2>2 DEF Quiet
  <2>4. FirstAt(t) => FirstAt(t)'
    BY <1>1, <2>1 DEF FirstAt
  <2>5. \A u \in Reported' : u \in Reported \/ (u \in Thread /\ seen[u] > 0)
    <3>1. seen[t] > 0
      BY <2>1 DEF Registered, PastGate
    <3>2. \A u \in Reported' : u \in Reported \/ u = t
      BY <1>2, ReportedStays, ReportedGrows DEF CreateMiniDump, Part
    <3>. QED BY <3>1, <3>2
  <2>. QED BY <1>1, <2>1, <2>2, <2>3, <2>4, <2>5, DropMoves DEF PastGate
<1>3. CASE CreateReportHead(t) \/ CreateReportTail(t)
  <2>1. pc[t] \in {"head", "walk"} /\ pc'[t] \in {"walk", "done"}
    BY <1>3 DEF CreateReportHead, CreateReportTail, TypeInv, TypeOK
  <2>2. HeadWritten'
    <3>1. CASE CreateReportHead(t)
      BY <3>1, WriteHead DEF CreateReportHead, Part
    <3>2. CASE CreateReportTail(t)
      <4>1. Write(t, "tail") /\ HeadWritten
        BY <3>2 DEF CreateReportTail, Announced
      <4>. QED BY <4>1, WriteHead DEF Part
    <3>. QED BY <1>3, <3>1, <3>2
  <2>3. ~Quiet'
    BY <2>2 DEF Quiet
  <2>4. \A u \in Reported' : u \in Reported \/ (u \in Thread /\ seen[u] > 0)
    <3>1. seen[t] > 0
      BY <2>1 DEF Registered, PastGate
    <3>2. \A u \in Reported' : u \in Reported \/ u = t
      BY <1>3, ReportedGrows DEF CreateReportHead, CreateReportTail, Part
    <3>. QED BY <3>1, <3>2
  <2>. QED BY <1>1, <2>1, <2>2, <2>3, <2>4, DropMoves DEF PastGate
<1>. QED BY <1>2, <1>3

(* A handler is entered, a helper started, a filter left.                  *)
LEMMA DropOtherStep ==
  ASSUME DropInv, NEW t \in Thread,
         \/ EnterHandler(t) \/ FilterHandles(t) \/ FilterDeclines(t)
         \/ \E h \in HelperThread : SpawnHelper(t, h)
  PROVE  Drops'
<1>. USE DEF DropInv, Drops
<1>1. pc \in [Thread -> Location]
  BY DEF TypeInv, TypeOK
<1>2. UNCHANGED <<seen, excpt_chance, output>> /\ process' = "up"
  BY DEF EnterHandler, FilterHandles, FilterDeclines, SpawnHelper
<1>3. (HeadWritten' <=> HeadWritten) /\ Reported' = Reported
  BY <1>2, ReportedStays DEF HeadWritten
<1>4. CASE EnterHandler(t)
  <2>1. /\ pc[t] = "lock" /\ pc'[t] = "load" /\ \A u \in Thread \ {t} : pc'[u] = pc[u]
        /\ UNCHANGED nesting
    BY <1>1, <1>4 DEF EnterHandler
  <2>2. (Quiet' => Quiet) /\ ~FirstAt(t)
    BY <1>3, <2>1 DEF Quiet, FirstAt
  <2>. QED BY <1>2, <1>3, <2>1, <2>2, DropMoves DEF PastGate
<1>5. CASE FilterHandles(t)
  <2>1. pc[t] = "done" /\ pc'[t] = "run" /\ \A u \in Thread \ {t} : pc'[u] = pc[u]
    BY <1>1, <1>5 DEF FilterHandles
  <2>2. HeadWritten' /\ ~Quiet'
    BY <1>3, <2>1 DEF Announced, Quiet
  <2>3. \A u \in Thread : nesting'[u] \in {0, nesting[u]}
    BY <1>5 DEF FilterHandles, TypeInv, TypeOK
  <2>. QED BY <1>2, <1>3, <2>1, <2>2, <2>3, DropMoves DEF PastGate
<1>6. CASE FilterDeclines(t)
  <2>1. /\ pc[t] = "failed" /\ pc'[t] \in {"lock", "spawn"}
        /\ \A u \in Thread \ {t} : pc'[u] = pc[u]
        /\ UNCHANGED nesting
    BY <1>1, <1>6 DEF FilterDeclines, FirstStop
  <2>2. (Quiet' => Quiet) /\ ~FirstAt(t)
    BY <1>3, <1>6, <2>1 DEF Quiet, FirstAt, FilterDeclines
  <2>. QED BY <1>2, <1>3, <2>1, <2>2, DropMoves DEF PastGate
<1>7. ASSUME NEW h \in HelperThread, SpawnHelper(t, h)
      PROVE  Drops'
  <2>1. pc[t] = "spawn" /\ pc[h] = "free" /\ h \in Thread /\ UNCHANGED nesting
    BY <1>7 DEF SpawnHelper, Thread
  <2>2. /\ pc'[t] = "wait" /\ pc'[h] = "lock"
        /\ \A u \in Thread \ {t, h} : pc'[u] = pc[u]
    BY <1>1, <1>7, <2>1 DEF SpawnHelper
  <2>3. (Quiet' => Quiet) /\ ~FirstAt(t) /\ ~FirstAt(h)
    BY <1>3, <2>1 DEF Quiet, FirstAt
  <2>. QED BY <1>2, <1>3, <2>1, <2>2, <2>3, DropMoves DEF PastGate
<1>. QED BY <1>4, <1>5, <1>6, <1>7

(* The steps that end the process, or do nothing.                          *)
LEMMA DropEndStep ==
  ASSUME DropInv, UNCHANGED <<pc, seen, excpt_chance, nesting, output>>
  PROVE  Drops'
BY DEF DropInv, Drops, Registered, Uncounted, Announced, Occupied, FirstReports, Quiet, Alone,
       FirstAt, CountedFirst, HeadWritten, Reported

(* Every step keeps it.                                                    *)
LEMMA DropStep ==
  ASSUME DropInv, [Next]_vars
  PROVE  DropInv'
<1>1. TypeInv'
  BY TypeStep DEF DropInv
<1>. SUFFICES Drops'
  BY <1>1 DEF DropInv
<1>2. ASSUME NEW t \in Thread, NEW c \in Crash, AppCrashes(t, c) \/ ReportCrashes(t, c)
      PROVE  Drops'
  BY <1>2, DropCrashStep
<1>3. ASSUME NEW t \in Thread, SpawnFails(t) \/ HandlerEnds(t)
      PROVE  Drops'
  <2>1. bContinueExecution = FALSE
    BY DEF DropInv, TypeInv, Critical
  <2>. QED BY <1>3, <2>1, DropEndStep DEF SpawnFails, HandlerEnds
<1>4. ASSUME NEW t \in Thread, HandlerStep(t)
      PROVE  Drops'
  BY <1>3, <1>4, DropLoadStep, DropStoreStep, DropTestStep, DropOutputStep, DropOtherStep
     DEF HandlerStep
<1>5. ASSUME NEW t \in Thread, NEW c \in Crash, DefaultSignal(t, c)
      PROVE  Drops'
  BY <1>5, DropEndStep DEF DefaultSignal
<1>6. CASE AppExits
  BY <1>6, DropEndStep DEF AppExits
<1>7. CASE UNCHANGED vars
  BY <1>7, DropEndStep DEF vars
<1>. QED BY <1>2, <1>4, <1>5, <1>6, <1>7 DEF Next, Idle

(* However many threads crash, with or without crExceptionFilter(), a      *)
(* crash is dropped only after another one has been counted, which its own *)
(* report had, another thread is handling, or the filter has let go on.    *)
THEOREM DropsNeedAnother == Spec => []DropNeedsAnother
<1>1. Init => DropInv
  <2>1. Init => TypeInv
    BY TypeInit
  <2>2. Init => Drops
    BY CrashHandlerAssumption
       DEF Init, Drops, Registered, PastGate, Uncounted, Announced, Occupied, FirstReports, Alone,
           CountedFirst, Reported
  <2>. QED BY <2>1, <2>2 DEF DropInv
<1>2. DropInv /\ [Next]_vars => DropInv'
  BY DropStep
<1>3. DropInv => DropNeedsAnother
  <2>. SUFFICES ASSUME DropInv, NEW t \in Thread, pc[t] = "failed", ~(nesting[t] > 0),
                       \A u \in Reported : u # t /\ pc[u] # "run"
                PROVE  \E u \in Thread \ {t} : seen[u] > 0 /\ pc[u] # "run"
    BY DEF DropNeedsAnother
  <2>. USE DEF DropInv, Drops
  <2>1. CASE HeadWritten
    <3>1. PICK u : u \in Reported
      BY <2>1, HeadReported
    <3>. QED BY <3>1 DEF CountedFirst
  <2>2. CASE ~HeadWritten
    <3>1. \A u \in Thread : seen[u] > 0 => pc[u] # "run"
      BY <2>2 DEF Occupied
    <3>2. SUFFICES ASSUME \A u \in Thread \ {t} : ~(seen[u] > 0)
                   PROVE  FALSE
      BY <3>1
    <3>3. seen[t] > 0
      BY DEF Registered, PastGate
    <3>4. \A u \in Thread \ {t} : seen[u] = 0
      BY <3>2 DEF TypeInv, TypeOK
    <3>5. \A u \in Thread : nesting[u] = 0
      <4>1. \A u \in Thread \ {t} : nesting[u] = 0
        BY <3>2 DEF CountedFirst
      <4>2. nesting[t] \in Nat
        BY CrashHandlerAssumption DEF TypeInv, TypeOK
      <4>. QED BY <4>1, <4>2
    <3>6. FirstAt(t)
      BY <2>2, <3>3, <3>4, <3>5 DEF FirstReports, Quiet, Alone
    <3>. QED BY <3>6 DEF FirstAt
  <2>. QED BY <2>1, <2>2
<1>. QED BY <1>1, <1>2, <1>3, PTL DEF Spec
=============================================================================
