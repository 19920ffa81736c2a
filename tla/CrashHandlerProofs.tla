------------------------- MODULE CrashHandlerProofs -------------------------
(***************************************************************************)
(* What CrashHandler guarantees for any number of threads, any depth of    *)
(* nested crashes and any choice of the crashes that may occur.            *)
(***************************************************************************)
EXTENDS CrashHandler, TLAPS

-----------------------------------------------------------------------------
(* Types.  No handler ever finds bContinueExecution set, so that the       *)
(* critical section is never left: part of the types being right.          *)

Critical == bContinueExecution = FALSE

TypeInv == TypeOK /\ Critical

(* Delivering a crash changes locations and stacks only, and within their  *)
(* types.                                                                  *)
LEMMA DeliverType ==
  ASSUME TypeInv, NEW t \in Thread, NEW c \in Crash, Deliver(t, c)
  PROVE  /\ process' = process /\ critsec' = critsec
         /\ bContinueExecution' = bContinueExecution
         /\ excpt_chance' = excpt_chance /\ seen' = seen /\ output' = output
         /\ pc' \in [Thread -> Location]
         /\ kind' \in [Thread -> Crash \cup {"none"}]
         /\ inFilter' \subseteq Guarded
         /\ armed' \subseteq SignalHandlers
  BY DEF TypeInv, TypeOK, Deliver, Filtered, FirstStop, Location, Generating

(* Output remains a sequence of events.                                    *)
LEMMA WriteType ==
  ASSUME TypeInv, NEW t \in Thread, NEW what \in Part, Write(t, what)
  PROVE  output' \in Seq(Event)
<1>1. [by |-> t, what |-> what] \in Event
  BY DEF Event
<1>. QED BY <1>1 DEF TypeInv, TypeOK, Write

(* One step preserves the types.                                           *)
LEMMA TypeStep ==
  ASSUME TypeInv, [Next]_vars
  PROVE  TypeInv'
<1> USE CrashHandlerAssumption DEF TypeInv, Critical, TypeOK
<1>1. ASSUME NEW t \in Thread, NEW c \in Crash, AppCrashes(t, c)
      PROVE  TypeInv'
  BY <1>1, DeliverType DEF AppCrashes
<1>2. ASSUME NEW t \in Thread, NEW c \in Crash, ReportCrashes(t, c)
      PROVE  TypeInv'
  <2>1. nesting' \in [Thread -> 0..MaxNesting]
    BY <1>2 DEF ReportCrashes
  <2>. QED BY <1>2, <2>1, DeliverType DEF ReportCrashes
<1>3. ASSUME NEW t \in Thread, NEW c \in Crash, DefaultSignal(t, c)
      PROVE  TypeInv'
  BY <1>3 DEF DefaultSignal
<1>4. CASE AppExits
  BY <1>4 DEF AppExits
<1>5. ASSUME NEW t \in Thread, NEW h \in HelperThread, SpawnHelper(t, h)
      PROVE  TypeInv'
  <2>1. h \in Thread
    BY DEF Thread
  <2>2. /\ "wait" \in Location
        /\ "lock" \in Location
        /\ "StackOverflow" \in Crash
    BY DEF Location, Crash, SehCrash
  <2>3. /\ pc' \in [Thread -> Location]
        /\ kind' \in [Thread -> Crash \cup {"none"}]
    BY <1>5, <2>1, <2>2 DEF SpawnHelper
  <2>. QED BY <1>5, <2>3 DEF SpawnHelper
<1>6. ASSUME NEW t \in Thread, SpawnFails(t)
      PROVE  TypeInv'
  BY <1>6 DEF SpawnFails
<1>7. ASSUME NEW t \in Thread, EnterHandler(t)
      PROVE  TypeInv'
  <2>1. pc' \in [Thread -> Location]
    BY <1>7 DEF EnterHandler, Location, Generating
  <2>2. critsec' \in [owner : Thread \cup {NoThread}, count : Nat]
    BY <1>7 DEF EnterHandler
  <2>3. bContinueExecution' = FALSE
    BY <1>7, Zenon DEF EnterHandler, ContinueAfterCrash
  <2>. QED BY <1>7, <2>1, <2>2, <2>3 DEF EnterHandler
<1>8. ASSUME NEW t \in Thread, LoadChance(t)
      PROVE  TypeInv'
  BY <1>8 DEF LoadChance, Location, Generating
<1>9. ASSUME NEW t \in Thread, StoreChance(t)
      PROVE  TypeInv'
  BY <1>9 DEF StoreChance, Location, Generating
<1>10. ASSUME NEW t \in Thread, TestChance(t)
       PROVE  TypeInv'
  BY <1>10 DEF TestChance, Location, Generating, Reporting, Returned
<1>11. ASSUME NEW t \in Thread, CreateMiniDump(t)
       PROVE  TypeInv'
  <2>1. output' \in Seq(Event)
    BY <1>11, WriteType DEF CreateMiniDump, Part
  <2>2. pc' \in [Thread -> Location]
    BY <1>11 DEF CreateMiniDump, Location, Generating, Reporting
  <2>. QED BY <1>11, <2>1, <2>2 DEF CreateMiniDump
<1>12. ASSUME NEW t \in Thread, CreateReportHead(t)
       PROVE  TypeInv'
  <2>1. output' \in Seq(Event)
    BY <1>12, WriteType DEF CreateReportHead, Part
  <2>2. pc' \in [Thread -> Location]
    BY <1>12 DEF CreateReportHead, Location, Generating, Reporting, Returned
  <2>. QED BY <1>12, <2>1, <2>2 DEF CreateReportHead
<1>13. ASSUME NEW t \in Thread, CreateReportTail(t)
       PROVE  TypeInv'
  <2>1. output' \in Seq(Event)
    BY <1>13, WriteType DEF CreateReportTail, Part
  <2>2. pc' \in [Thread -> Location]
    BY <1>13 DEF CreateReportTail, Location, Returned
  <2>. QED BY <1>13, <2>1, <2>2 DEF CreateReportTail
<1>14. ASSUME NEW t \in Thread, HandlerEnds(t)
       PROVE  TypeInv'
  BY <1>14 DEF HandlerEnds
<1>15. ASSUME NEW t \in Thread, FilterHandles(t)
       PROVE  TypeInv'
  BY <1>15 DEF FilterHandles, Location
<1>16. ASSUME NEW t \in Thread, FilterDeclines(t)
       PROVE  TypeInv'
  BY <1>16 DEF FilterDeclines, FirstStop, Location
<1>17. CASE UNCHANGED vars
  BY <1>17 DEF vars
<1>. QED
  BY <1>1, <1>2, <1>3, <1>4, <1>5, <1>6, <1>7, <1>8, <1>9, <1>10, <1>11, <1>12,
     <1>13, <1>14, <1>15, <1>16, <1>17 DEF Next, HandlerStep, Idle

(* The types hold at first.                                                *)
LEMMA TypeInit == Init => TypeInv
<1>. SUFFICES ASSUME Init PROVE TypeInv
  OBVIOUS
<1>1. pc \in [Thread -> Location]
  BY DEF Init, Location
<1>2. /\ kind \in [Thread -> Crash \cup {"none"}]
      /\ seen \in [Thread -> Nat]
      /\ nesting \in [Thread -> 0..MaxNesting]
  BY CrashHandlerAssumption DEF Init
<1>3. critsec \in [owner : Thread \cup {NoThread}, count : Nat]
  BY DEF Init
<1>4. output \in Seq(Event)
  BY DEF Init
<1>. QED BY <1>1, <1>2, <1>3, <1>4 DEF Init, TypeInv, Critical, TypeOK

(* And they always do.                                                     *)
LEMMA TypeInvariant == Spec => []TypeInv
  BY TypeInit, TypeStep, PTL DEF Spec

(* Every variable has its type, whatever crashes and nests.                *)
THEOREM TypeCorrect == Spec => []TypeOK
<1>1. TypeInv => TypeOK
  BY DEF TypeInv
<1>. QED BY <1>1, TypeInvariant, PTL

-----------------------------------------------------------------------------
(* The critical section, whatever crExceptionFilter() does.                *)

Inside == Generating \cup Returned

ExclusionInv == TypeInv /\ HandlersExclusive

(* Being delivered a crash takes a thread out of the handler it was in:    *)
(* it is in crExceptionFilter(), or has not entered its new handler yet.   *)
LEMMA DeliverExclusive ==
  ASSUME ExclusionInv, NEW t \in Thread, NEW c \in Crash, Deliver(t, c)
  PROVE  HandlersExclusive'
<1>1. /\ pc' = [pc EXCEPT ![t] = IF Filtered(t, c) THEN "load" ELSE FirstStop(c)]
      /\ inFilter' = IF Filtered(t, c) THEN inFilter \cup {t} ELSE inFilter \ {t}
      /\ critsec' = critsec
  BY DEF Deliver
<1>2. t \notin inFilter' => pc'[t] \notin Inside
  BY <1>1 DEF FirstStop, Inside, Generating, Reporting, Returned, ExclusionInv, TypeInv, TypeOK
<1>3. \A u \in Thread \ {t} : pc'[u] = pc[u] /\ (u \in inFilter' <=> u \in inFilter)
  BY <1>1 DEF ExclusionInv, TypeInv, TypeOK
<1>. QED BY <1>1, <1>2, <1>3 DEF HandlersExclusive, ExclusionInv, Inside

(* No step brings a second thread inside.                                  *)
LEMMA ExclusionStep ==
  ASSUME ExclusionInv, [Next]_vars
  PROVE  HandlersExclusive'
<1>. USE DEF ExclusionInv, HandlersExclusive, Inside, Generating, Reporting, Returned
<1>0. pc \in [Thread -> Location] /\ bContinueExecution = FALSE
  BY DEF TypeInv, TypeOK, Critical
<1>1. ASSUME NEW t \in Thread, NEW c \in Crash,
             AppCrashes(t, c) \/ ReportCrashes(t, c)
      PROVE  HandlersExclusive'
  <2>1. Deliver(t, c)
    BY <1>1 DEF AppCrashes, ReportCrashes
  <2>. QED BY <2>1, DeliverExclusive
<1>2. ASSUME NEW t \in Thread, NEW c \in Crash, DefaultSignal(t, c)
      PROVE  HandlersExclusive'
  BY <1>2 DEF DefaultSignal
<1>3. CASE AppExits
  BY <1>3 DEF AppExits
<1>4. ASSUME NEW t \in Thread, NEW h \in HelperThread, SpawnHelper(t, h)
      PROVE  HandlersExclusive'
  BY <1>0, <1>4 DEF SpawnHelper, Thread
<1>5. ASSUME NEW t \in Thread, SpawnFails(t)
      PROVE  HandlersExclusive'
  BY <1>5 DEF SpawnFails
<1>6. ASSUME NEW t \in Thread, EnterHandler(t)
      PROVE  HandlersExclusive'
  <2>1. critsec.owner \in {NoThread, t} /\ critsec'.owner = t /\ inFilter' = inFilter
    BY <1>6 DEF EnterHandler, MayEnter
  <2>2. \A u \in Thread \ {t} : pc'[u] = pc[u]
    BY <1>0, <1>6 DEF EnterHandler
  <2>3. \A u \in Thread \ {t} : u \notin inFilter => pc[u] \notin Inside
    BY <2>1, CrashHandlerAssumption
  <2>. QED BY <2>1, <2>2, <2>3
<1>7. ASSUME NEW t \in Thread, LoadChance(t)
      PROVE  HandlersExclusive'
  BY <1>0, <1>7 DEF LoadChance
<1>8. ASSUME NEW t \in Thread, StoreChance(t)
      PROVE  HandlersExclusive'
  BY <1>0, <1>8 DEF StoreChance
<1>9. ASSUME NEW t \in Thread, TestChance(t)
      PROVE  HandlersExclusive'
  BY <1>0, <1>9 DEF TestChance
<1>10. ASSUME NEW t \in Thread, CreateMiniDump(t)
       PROVE  HandlersExclusive'
  BY <1>0, <1>10 DEF CreateMiniDump
<1>11. ASSUME NEW t \in Thread, CreateReportHead(t)
       PROVE  HandlersExclusive'
  BY <1>0, <1>11 DEF CreateReportHead
<1>12. ASSUME NEW t \in Thread, CreateReportTail(t)
       PROVE  HandlersExclusive'
  BY <1>0, <1>12 DEF CreateReportTail
<1>13. ASSUME NEW t \in Thread, HandlerEnds(t)
       PROVE  HandlersExclusive'
  BY <1>0, <1>13 DEF HandlerEnds
<1>14. ASSUME NEW t \in Thread, FilterHandles(t)
       PROVE  HandlersExclusive'
  BY <1>0, <1>14 DEF FilterHandles
<1>15. ASSUME NEW t \in Thread, FilterDeclines(t)
       PROVE  HandlersExclusive'
  BY <1>0, <1>15 DEF FilterDeclines, FirstStop
<1>16. CASE UNCHANGED vars
  BY <1>16 DEF vars
<1>. QED
  BY <1>1, <1>2, <1>3, <1>4, <1>5, <1>6, <1>7, <1>8, <1>9, <1>10, <1>11, <1>12,
     <1>13, <1>14, <1>15, <1>16 DEF Next, HandlerStep, Idle

(* Nobody is inside at first.                                              *)
LEMMA ExclusionInit == Init => HandlersExclusive
  BY DEF Init, HandlersExclusive, Generating, Reporting, Returned

(* The handlers of two threads are never inside the critical section       *)
(* together, with or without crExceptionFilter().                          *)
THEOREM Exclusion == Spec => []HandlersExclusive
<1>1. ExclusionInv /\ [Next]_vars => ExclusionInv'
  BY ExclusionStep, TypeStep DEF ExclusionInv
<1>2. Init => ExclusionInv
  BY ExclusionInit, TypeInit DEF ExclusionInv
<1>3. ExclusionInv => HandlersExclusive
  BY DEF ExclusionInv
<1>. QED BY <1>1, <1>2, <1>3, PTL DEF Spec

(* The critical section is never left nor handed over: the first thread    *)
(* to enter it keeps it until the process ends.                            *)
THEOREM Unlocked == Spec => NeverUnlocked
<1>. DEFINE Kept == (critsec.owner # NoThread => critsec'.owner = critsec.owner)
                    /\ critsec'.count > critsec.count
<1>1. ASSUME TypeInv, [Next]_vars
      PROVE  [Kept]_critsec
  <2>1. ASSUME NEW t \in Thread, EnterHandler(t)
        PROVE  Kept
    BY <1>1, <2>1 DEF EnterHandler, MayEnter, TypeInv, TypeOK
  <2>2. ASSUME NEW t \in Thread, HandlerEnds(t)
        PROVE  critsec' = critsec
    BY <1>1, <2>2, Zenon DEF HandlerEnds, TypeInv, Critical
  <2>3. ASSUME NEW t \in Thread, NEW c \in Crash,
               AppCrashes(t, c) \/ ReportCrashes(t, c) \/ DefaultSignal(t, c)
        PROVE  critsec' = critsec
    BY <2>3 DEF AppCrashes, ReportCrashes, DefaultSignal, Deliver
  <2>4. ASSUME NEW t \in Thread, HandlerStep(t)
        PROVE  EnterHandler(t) \/ HandlerEnds(t) \/ critsec' = critsec
    BY <2>4 DEF HandlerStep, SpawnHelper, SpawnFails, LoadChance, StoreChance,
       TestChance, CreateMiniDump, CreateReportHead, CreateReportTail,
       FilterHandles, FilterDeclines
  <2>5. CASE AppExits \/ UNCHANGED vars
    BY <2>5 DEF AppExits, vars
  <2>. QED
    BY <1>1, <2>1, <2>2, <2>3, <2>4, <2>5 DEF Next, Idle
<1>2. TypeInv /\ [Next]_vars => [Kept]_critsec
  BY <1>1
<1>. QED BY <1>2, TypeInvariant, PTL DEF Spec, NeverUnlocked
=============================================================================
