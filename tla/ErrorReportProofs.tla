------------------------- MODULE ErrorReportProofs -------------------------
(***************************************************************************)
(* Proofs about ErrorReport, for every number of reports and processes.    *)
(***************************************************************************)
EXTENDS ErrorReport, TLAPS

USE ErrorReportAssumption

(* Logging an error keeps the types of what it changes.                    *)
LEMMA Logged ==
  ASSUME TypeOK, NEW r \in Report, NEW failure \in Failure,
         LogLastError(r, failure) \/ UNCHANGED <<told, lost>>
  PROVE  told' \in [Report -> SUBSET Failure] /\ lost' \subseteq Report
<1>1. told[r] \cup {failure} \subseteq Failure
  BY DEF TypeOK
<1>2. CASE told' = [told EXCEPT ![r] = @ \cup {failure}] /\ UNCHANGED lost
  BY <1>1, <1>2, Zenon DEF TypeOK
<1>3. CASE lost' = lost \cup {r} /\ UNCHANGED told
  BY <1>3 DEF TypeOK
<1>4. CASE UNCHANGED <<told, lost>>
  BY <1>4 DEF TypeOK
<1> QED
  BY <1>2, <1>3, <1>4 DEF LogLastError

(* Every variable keeps its type, and only a report that is writing its    *)
(* dump, or was stopped while it did, has its dump file open.              *)
THEOREM TypesKept == Spec => []TypeOK
<1> USE DEF context, files, output, library
<1>1. Init => TypeOK
  BY DEF Init, TypeOK, Location, Library, Pointers
<1>2. TypeOK /\ [Next]_vars => TypeOK'
  <2> SUFFICES ASSUME TypeOK, [Next]_vars
               PROVE  TypeOK'
    OBVIOUS
  <2> USE DEF TypeOK, Location, WithSymbols, Over, Library, Pointers, Part, Failure
  <2>1. ASSUME NEW r \in Report, NEW g \in Given, NEW s \in now..MaxTime, GenerateErrorReport(r, g, s)
        PROVE  TypeOK'
    BY <2>1 DEF GenerateErrorReport, Goto, GetExceptionPointers
  <2>2. ASSUME NEW r \in Report, ReportStep(r)
        PROVE  TypeOK'
    <3>1. CASE ConstructBegins(r)
      BY <3>1 DEF ConstructBegins
    <3>2. CASE ConstructEnds(r)
      <4>1. told' \in [Report -> SUBSET Failure] /\ lost' \subseteq Report
        BY <3>2, Logged DEF ConstructEnds
      <4>2. dll' \in [Process -> Library]
        <5>1. PICK l \in Library : dll' = [dll EXCEPT ![processOf[r]] = l]
          BY <3>2 DEF ConstructEnds
        <5> QED
          BY <5>1, Zenon
      <4>3. builders' \subseteq Report /\ UNCHANGED <<pc, context, files, text, symbols>>
        BY <3>2 DEF ConstructEnds
      <4> QED
        BY <4>1, <4>2, <4>3
    <3>3. CASE CreateDumpFile(r)
      BY <3>3 DEF CreateDumpFile, Goto
    <3>4. CASE CreateDumpFileFails(r)
      <4>1. told' \in [Report -> SUBSET Failure] /\ lost' \subseteq Report
        BY <3>4, Logged DEF CreateDumpFileFails
      <4> QED
        BY <3>4, <4>1 DEF CreateDumpFileFails, Goto
    <3>5. CASE WriteDump(r)
      <4>1. open' \subseteq {q \in Report : q # r /\ pc[q] \in {"write", "crashed", "faulted", "cut"}}
        BY <3>5 DEF WriteDump, Closed
      <4> QED
        BY <3>5, <4>1 DEF WriteDump, Goto
    <3>6. CASE PrintExceptInfo(r)
      BY <3>6 DEF PrintExceptInfo, Goto, AddToReport
    <3>7. CASE SymInitialize(r)
      BY <3>7 DEF SymInitialize, Goto, AddToReport
    <3>8. CASE SymInitializeFails(r)
      <4>1. told' \in [Report -> SUBSET Failure] /\ lost' \subseteq Report
        BY <3>8, Logged DEF SymInitializeFails
      <4> QED
        BY <3>8, <4>1 DEF SymInitializeFails, Goto, AfterSymFailure
    <3>9. CASE WalkStack(r)
      BY <3>9, SMTT(60) DEF WalkStack, Goto
    <3>10. CASE PrintSystemInfo(r)
      BY <3>10 DEF PrintSystemInfo, Goto, AddToReport
    <3>11. CASE SymCleanup(r)
      <4>1. told' \in [Report -> SUBSET Failure] /\ lost' \subseteq Report
        BY <3>11, Logged DEF SymCleanup
      <4> QED
        BY <3>11, <4>1 DEF SymCleanup, Goto
    <3>12. CASE LibraryCrashes(r)
      BY <3>12 DEF LibraryCrashes, Goto, CallCrashes
    <3>13. CASE Faults(r)
      BY <3>13 DEF Faults, Goto
    <3> QED
      BY <2>2, <3>1, <3>2, <3>3, <3>4, <3>5, <3>6, <3>7, <3>8, <3>9, <3>10, <3>11, <3>12, <3>13 DEF ReportStep
  <2>3. ASSUME NEW p \in Process, Exit(p)
        PROVE  TypeOK'
    <3>1. symbols' \subseteq Process /\ UNCHANGED <<pc, processOf, now, given, excptr, magic, files, output, builders>>
      BY <2>3 DEF Exit
    <3>2. process' \in [Process -> {"running", "exiting", "crashing", "ended"}]
      BY <2>3 DEF Exit
    <3>3. dll' \in [Process -> Library]
      BY <2>3 DEF Exit
    <3> QED
      BY <3>1, <3>2, <3>3
  <2>4. ASSUME NEW p \in Process, ProcessEnds(p)
        PROVE  TypeOK'
    BY <2>4 DEF ProcessEnds, OfProcess, Over
  <2>5. CASE Finished \/ UNCHANGED vars
    BY <2>5 DEF Finished, vars
  <2> QED
    BY <2>1, <2>2, <2>3, <2>4, <2>5 DEF Next
<1> QED
  BY <1>1, <1>2, PTL DEF Spec

(* The symbol handler of a process serves one report at a time, however    *)
(* many reports crExceptionFilter() generates next to each other outside   *)
(* the critical section, until the process exits.                          *)
THEOREM SymbolsOfOneReport == Spec => []SymbolsExclusive
<1> USE DEF context, files, output, library
<1>1. Init => SymbolsExclusive
  BY DEF Init, SymbolsExclusive, WithSymbols
<1>2. TypeOK /\ SymbolsExclusive /\ [Next]_vars => SymbolsExclusive'
  <2> SUFFICES ASSUME TypeOK, SymbolsExclusive, [Next]_vars
               PROVE  SymbolsExclusive'
    OBVIOUS
  <2> DEFINE Functions == /\ pc \in [Report -> Location]
                          /\ processOf \in [Report -> Process]
                          /\ process \in [Process -> {"running", "exiting", "crashing", "ended"}]
  <2> Functions
    BY DEF TypeOK
  <2> HIDE DEF Functions
  <2> USE DEF SymbolsExclusive, WithSymbols, Location
  <2>1. ASSUME NEW r \in Report, NEW g \in Given, NEW s \in now..MaxTime, GenerateErrorReport(r, g, s)
        PROVE  SymbolsExclusive'
    BY <2>1 DEF GenerateErrorReport, Goto, Functions
  <2>2. ASSUME NEW r \in Report, ReportStep(r)
        PROVE  SymbolsExclusive'
    <3>1. CASE ConstructBegins(r)
      BY <3>1 DEF ConstructBegins, Goto, Functions
    <3>2. CASE ConstructEnds(r)
      BY <3>2 DEF ConstructEnds, Goto, Functions
    <3>3. CASE CreateDumpFile(r)
      BY <3>3 DEF CreateDumpFile, Goto, Functions
    <3>4. CASE CreateDumpFileFails(r)
      BY <3>4 DEF CreateDumpFileFails, Goto, Functions
    <3>5. CASE WriteDump(r)
      BY <3>5 DEF WriteDump, Goto, Functions
    <3>6. CASE PrintExceptInfo(r)
      BY <3>6 DEF PrintExceptInfo, Goto, Functions
    <3>7. CASE SymInitialize(r)
      BY <3>7 DEF SymInitialize, Goto, Functions, MayInitialize
    <3>8. CASE SymInitializeFails(r)
      BY <3>8 DEF SymInitializeFails, Goto, Functions, AfterSymFailure
    <3>9. CASE WalkStack(r)
      BY <3>9 DEF WalkStack, Goto, Functions
    <3>10. CASE PrintSystemInfo(r)
      BY <3>10 DEF PrintSystemInfo, Goto, Functions
    <3>11. CASE SymCleanup(r)
      BY <3>11 DEF SymCleanup, Goto, Functions
    <3>12. CASE LibraryCrashes(r)
      BY <3>12 DEF LibraryCrashes, Goto, Functions, CallCrashes
    <3>13. CASE Faults(r)
      BY <3>13 DEF Faults, Goto, Functions
    <3> QED
      BY <2>2, <3>1, <3>2, <3>3, <3>4, <3>5, <3>6, <3>7, <3>8, <3>9, <3>10, <3>11, <3>12, <3>13 DEF ReportStep
  <2>3. ASSUME NEW p \in Process, Exit(p)
        PROVE  SymbolsExclusive'
    BY <2>3 DEF Exit, Functions
  <2>4. ASSUME NEW p \in Process, ProcessEnds(p)
        PROVE  SymbolsExclusive'
    BY <2>4 DEF ProcessEnds, OfProcess, Over, Functions
  <2>5. CASE Finished \/ UNCHANGED vars
    BY <2>5 DEF Finished, vars
  <2> QED
    BY <2>1, <2>2, <2>3, <2>4, <2>5 DEF Next
<1> QED
  BY <1>1, <1>2, TypesKept, PTL DEF Spec

(* What DumpNotShared rests on: a report that has its file open has        *)
(* created it, so that it does not choose another name.                    *)
Opens ==
  \A r \in open :
    /\ dumps[name[r]] = r
    /\ pc[r] \notin {"idle", "create"}

(* The file that a report is writing its dump to is its own until it       *)
(* closes it, for any number of processes that write to the directory.     *)
THEOREM DumpsNotShared == Spec => []DumpNotShared
<1> USE DEF context, files, output, library
<1>1. Init => Opens
  BY DEF Init, Opens
<1>2. TypeOK /\ Opens /\ [Next]_vars => Opens'
  <2> SUFFICES ASSUME TypeOK, Opens, [Next]_vars
               PROVE  Opens'
    OBVIOUS
  <2> DEFINE Functions == /\ pc \in [Report -> Location]
                          /\ name \in [Report -> 0..MaxTime]
                          /\ dumps \in [0..MaxTime -> Report \cup {NoReport}]
                          /\ open \subseteq Report
  <2> Functions
    BY DEF TypeOK
  <2> HIDE DEF Functions
  <2> USE DEF Opens
  <2>1. ASSUME NEW r \in Report, NEW g \in Given, NEW s \in now..MaxTime, GenerateErrorReport(r, g, s)
        PROVE  Opens'
    BY <2>1 DEF GenerateErrorReport, Goto, Functions
  <2>2. ASSUME NEW r \in Report, ReportStep(r)
        PROVE  Opens'
    <3>1. CASE ConstructBegins(r)
      BY <3>1 DEF ConstructBegins, Goto, Functions
    <3>2. CASE ConstructEnds(r)
      BY <3>2 DEF ConstructEnds, Goto, Functions
    <3>3. CASE CreateDumpFile(r)
      BY <3>3 DEF CreateDumpFile, Goto, Functions, Shared
    <3>4. CASE CreateDumpFileFails(r)
      BY <3>4 DEF CreateDumpFileFails, Goto, Functions
    <3>5. CASE WriteDump(r)
      BY <3>5 DEF WriteDump, Goto, Functions, Closed
    <3>6. CASE PrintExceptInfo(r)
      BY <3>6 DEF PrintExceptInfo, Goto, Functions
    <3>7. CASE SymInitialize(r)
      BY <3>7 DEF SymInitialize, Goto, Functions
    <3>8. CASE SymInitializeFails(r)
      BY <3>8 DEF SymInitializeFails, Goto, Functions, AfterSymFailure
    <3>9. CASE WalkStack(r)
      BY <3>9 DEF WalkStack, Goto, Functions
    <3>10. CASE PrintSystemInfo(r)
      BY <3>10 DEF PrintSystemInfo, Goto, Functions
    <3>11. CASE SymCleanup(r)
      BY <3>11 DEF SymCleanup, Goto, Functions
    <3>12. CASE LibraryCrashes(r)
      BY <3>12 DEF LibraryCrashes, Goto, Functions, CallCrashes
    <3>13. CASE Faults(r)
      BY <3>13 DEF Faults, Goto, Functions
    <3> QED
      BY <2>2, <3>1, <3>2, <3>3, <3>4, <3>5, <3>6, <3>7, <3>8, <3>9, <3>10, <3>11, <3>12, <3>13 DEF ReportStep
  <2>3. ASSUME NEW p \in Process, Exit(p)
        PROVE  Opens'
    BY <2>3 DEF Exit, Functions
  <2>4. ASSUME NEW p \in Process, ProcessEnds(p)
        PROVE  Opens'
    BY <2>4 DEF ProcessEnds, OfProcess, Over, Functions
  <2>5. CASE Finished \/ UNCHANGED vars
    BY <2>5 DEF Finished, vars
  <2> QED
    BY <2>1, <2>2, <2>3, <2>4, <2>5 DEF Next
<1>3. Opens => DumpNotShared
  BY DEF Opens, DumpNotShared
<1> QED
  BY <1>1, <1>2, <1>3, TypesKept, PTL DEF Spec

(* What LossTold rests on: what a report that has not lost a line must     *)
(* have written and logged at each of its locations.                       *)
Handed(r) ==
  /\ pc[r] = "write" => dump[r] # "none"
  /\ pc[r] \in {"exception", "init", "returned"} \cup WithSymbols /\ r \notin lost =>
       dump[r] # "none" \/ "dump" \in told[r]
  /\ pc[r] = "init" => "exception" \in text[r]
  /\ pc[r] \in WithSymbols => {"exception", "callstack"} \subseteq text[r]
  /\ pc[r] = "cleanup" => text[r] = Part
  /\ pc[r] = "returned" /\ r \notin lost => text[r] = Part \/ "symbols" \in told[r]

(* A report that comes back without its dump or without its call stack has *)
(* logged the failure, unless the log could not be written to.             *)
THEOREM LossesTold == Spec => []LossTold
<1> USE DEF context, files, output, library
<1> DEFINE Inv == \A r \in Report : Handed(r)
<1>1. Init => Inv
  BY DEF Init, Handed, WithSymbols
<1>2. TypeOK /\ Inv /\ [Next]_vars => Inv'
  <2> SUFFICES ASSUME TypeOK, Inv, [Next]_vars
               PROVE  Inv'
    OBVIOUS
  <2> DEFINE Functions == /\ pc \in [Report -> Location]
                          /\ dump \in [Report -> {"none", "empty", "complete"}]
                          /\ text \in [Report -> SUBSET Part]
                          /\ told \in [Report -> SUBSET Failure]
  <2> Functions
    BY DEF TypeOK
  <2> HIDE DEF Functions
  <2> USE DEF Handed, WithSymbols, Part
  <2>1. ASSUME NEW r \in Report, NEW g \in Given, NEW s \in now..MaxTime, GenerateErrorReport(r, g, s)
        PROVE  Inv'
    BY <2>1 DEF GenerateErrorReport, Goto, Functions
  <2>2. ASSUME NEW r \in Report, ReportStep(r)
        PROVE  Inv'
    <3>1. CASE ConstructBegins(r)
      BY <3>1 DEF ConstructBegins, Goto, Functions
    <3>2. CASE ConstructEnds(r)
      BY <3>2 DEF ConstructEnds, Goto, Functions, LogLastError
    <3>3. CASE CreateDumpFile(r)
      BY <3>3 DEF CreateDumpFile, Goto, Functions
    <3>4. CASE CreateDumpFileFails(r)
      BY <3>4 DEF CreateDumpFileFails, Goto, Functions, LogLastError
    <3>5. CASE WriteDump(r)
      BY <3>5 DEF WriteDump, Goto, Functions
    <3>6. CASE PrintExceptInfo(r)
      BY <3>6 DEF PrintExceptInfo, Goto, Functions, AddToReport
    <3>7. CASE SymInitialize(r)
      BY <3>7 DEF SymInitialize, Goto, Functions, AddToReport
    <3>8. CASE SymInitializeFails(r)
      BY <3>8 DEF SymInitializeFails, Goto, Functions, AfterSymFailure, LogLastError
    <3>9. CASE WalkStack(r)
      BY <3>9 DEF WalkStack, Goto, Functions
    <3>10. CASE PrintSystemInfo(r)
      BY <3>10 DEF PrintSystemInfo, Goto, Functions, AddToReport
    <3>11. CASE SymCleanup(r)
      BY <3>11 DEF SymCleanup, Goto, Functions, LogLastError
    <3>12. CASE LibraryCrashes(r)
      BY <3>12 DEF LibraryCrashes, Goto, Functions, CallCrashes
    <3>13. CASE Faults(r)
      BY <3>13 DEF Faults, Goto, Functions
    <3> QED
      BY <2>2, <3>1, <3>2, <3>3, <3>4, <3>5, <3>6, <3>7, <3>8, <3>9, <3>10, <3>11, <3>12, <3>13 DEF ReportStep
  <2>3. ASSUME NEW p \in Process, Exit(p)
        PROVE  Inv'
    BY <2>3 DEF Exit, Functions
  <2>4. ASSUME NEW p \in Process, ProcessEnds(p)
        PROVE  Inv'
    BY <2>4 DEF ProcessEnds, OfProcess, Over, Functions
  <2>5. CASE Finished \/ UNCHANGED vars
    BY <2>5 DEF Finished, vars
  <2> QED
    BY <2>1, <2>2, <2>3, <2>4, <2>5 DEF Next
<1>3. Inv => LossTold
  BY DEF Handed, LossTold
<1> QED
  BY <1>1, <1>2, <1>3, TypesKept, PTL DEF Spec

(* What CrashExplained rests on: a wrapper is half-built only while some   *)
(* report constructs it or has died of that, a missing library has been    *)
(* logged, and a freed one belongs to a process that is exiting.           *)
LogOf(q) == "dll" \in told[q] \/ q \in lost

Loader ==
  /\ \A b \in builders : pc[b] \in {"write", "init", "faulted"}
  /\ \A p \in Process :
       /\ dll[p] = "building" => \E b \in builders : processOf[b] = p
       /\ dll[p] = "missing" => \E q \in Report : processOf[q] = p /\ LogOf(q)
       /\ dll[p] = "freed" => process[p] # "running"

Explained(r) ==
  \/ \E q \in Report : processOf[q] = processOf[r] /\ LogOf(q)
  \/ process[processOf[r]] # "running"
  \/ ~magic /\ \E q \in Report : processOf[q] = processOf[r] /\ q # r /\ pc[q] # "idle"

(* A report that crashes at a call into dbghelp.dll finds a library that   *)
(* the FATAL log has told of, a process that is exiting, or a compiler     *)
(* without a lock for static locals and another report constructing.       *)
THEOREM CrashesExplained == Spec => []CrashExplained
<1> USE DEF context, files, output, library
<1> DEFINE Inv == Loader /\ \A r \in Report : pc[r] = "crashed" => Explained(r)
<1>1. Init => Inv
  BY DEF Init, Loader
<1>2. TypeOK /\ Inv /\ [Next]_vars => Inv'
  <2> SUFFICES ASSUME TypeOK, Inv, [Next]_vars
               PROVE  Inv'
    OBVIOUS
  <2> DEFINE Functions == /\ pc \in [Report -> Location]
                          /\ processOf \in [Report -> Process]
                          /\ dll \in [Process -> Library]
                          /\ builders \subseteq Report
                          /\ process \in [Process -> {"running", "exiting", "crashing", "ended"}]
                          /\ told \in [Report -> SUBSET Failure]
  <2> Functions
    BY DEF TypeOK
  <2> HIDE DEF Functions
  <2> USE DEF Loader, Explained, LogOf, WithSymbols
  <2>1. ASSUME NEW r \in Report, NEW g \in Given, NEW s \in now..MaxTime, GenerateErrorReport(r, g, s)
        PROVE  Inv'
    BY <2>1 DEF GenerateErrorReport, Goto, Functions
  <2>2. ASSUME NEW r \in Report, ReportStep(r)
        PROVE  Inv'
    <3>1. CASE ConstructBegins(r)
      BY <3>1 DEF ConstructBegins, Goto, Functions
    <3>2. CASE ConstructEnds(r)
      BY <3>2 DEF ConstructEnds, Goto, Functions, LogLastError
    <3>3. CASE CreateDumpFile(r)
      BY <3>3 DEF CreateDumpFile, Goto, Functions
    <3>4. CASE CreateDumpFileFails(r)
      BY <3>4 DEF CreateDumpFileFails, Goto, Functions, LogLastError
    <3>5. CASE WriteDump(r)
      BY <3>5 DEF WriteDump, Goto, Functions, Arrives, HalfBuilt, Closed
    <3>6. CASE PrintExceptInfo(r)
      BY <3>6 DEF PrintExceptInfo, Goto, Functions, AddToReport
    <3>7. CASE SymInitialize(r)
      BY <3>7 DEF SymInitialize, Goto, Functions, AddToReport, Arrives, HalfBuilt
    <3>8. CASE SymInitializeFails(r)
      BY <3>8 DEF SymInitializeFails, Goto, Functions, AfterSymFailure, LogLastError, Arrives, HalfBuilt
    <3>9. CASE WalkStack(r)
      BY <3>9 DEF WalkStack, Goto, Functions
    <3>10. CASE PrintSystemInfo(r)
      BY <3>10 DEF PrintSystemInfo, Goto, Functions, AddToReport
    <3>11. CASE SymCleanup(r)
      BY <3>11 DEF SymCleanup, Goto, Functions, LogLastError
    <3>12. CASE LibraryCrashes(r)
      BY <3>12 DEF LibraryCrashes, Goto, Functions, CallCrashes, Arrives, HalfBuilt
    <3>13. CASE Faults(r)
      BY <3>13 DEF Faults, Goto, Functions
    <3> QED
      BY <2>2, <3>1, <3>2, <3>3, <3>4, <3>5, <3>6, <3>7, <3>8, <3>9, <3>10, <3>11, <3>12, <3>13 DEF ReportStep
  <2>3. ASSUME NEW p \in Process, Exit(p)
        PROVE  Inv'
    BY <2>3 DEF Exit, Functions
  <2>4. ASSUME NEW p \in Process, ProcessEnds(p)
        PROVE  Inv'
    BY <2>4 DEF ProcessEnds, OfProcess, Over, Functions
  <2>5. CASE Finished \/ UNCHANGED vars
    BY <2>5 DEF Finished, vars
  <2> QED
    BY <2>1, <2>2, <2>3, <2>4, <2>5 DEF Next
<1>3. TypeOK /\ Inv => CrashExplained
  BY DEF Explained, LogOf, CrashExplained, OfProcess
<1> QED
  BY <1>1, <1>2, <1>3, TypesKept, PTL DEF Spec

-----------------------------------------------------------------------------
(* The refinement of ReportText.                                           *)

(* The parts that a report has where it is.                                *)
Stage(r) ==
  /\ pc[r] \in {"idle", "create", "write", "exception"} => text[r] = {}
  /\ pc[r] = "init" => text[r] = {"exception"}
  /\ pc[r] \in {"walk", "system"} => text[r] = {"exception", "callstack"}
  /\ pc[r] = "cleanup" => text[r] = Part
  /\ pc[r] = "returned" => text[r] \in {{"exception"}, Part}

Stages == TypeOK /\ SymbolsExclusive /\ \A r \in Report : Stage(r)

(* Every step keeps it.                                                    *)
LEMMA StageStep ==
  ASSUME TypeOK, \A q \in Report : Stage(q), [Next]_vars
  PROVE  \A q \in Report : Stage(q)'
<1> USE DEF context, files, output, library
<1> DEFINE Inv == \A q \in Report : Stage(q)
<1> DEFINE Functions == /\ pc \in [Report -> Location]
                        /\ text \in [Report -> SUBSET Part]
<1> Functions
  BY DEF TypeOK
<1> HIDE DEF Functions
<1> USE DEF Stage, WithSymbols, Part
<1>1. ASSUME NEW r \in Report, NEW g \in Given, NEW s \in now..MaxTime, GenerateErrorReport(r, g, s)
      PROVE  Inv'
  BY <1>1 DEF GenerateErrorReport, Goto, Functions
<1>2. ASSUME NEW r \in Report, ReportStep(r)
      PROVE  Inv'
  <2>1. CASE ConstructBegins(r) \/ ConstructEnds(r)
    BY <2>1 DEF ConstructBegins, ConstructEnds
  <2>2. CASE CreateDumpFile(r) \/ CreateDumpFileFails(r)
    BY <2>2 DEF CreateDumpFile, CreateDumpFileFails, Goto, Functions
  <2>3. CASE WriteDump(r) \/ WalkStack(r)
    BY <2>3 DEF WriteDump, WalkStack, Goto, Functions
  <2>4. CASE PrintExceptInfo(r)
    BY <2>4 DEF PrintExceptInfo, AddToReport, Goto, Functions
  <2>5. CASE SymInitialize(r)
    BY <2>5 DEF SymInitialize, AddToReport, Goto, Functions
  <2>6. CASE SymInitializeFails(r)
    BY <2>6 DEF SymInitializeFails, AfterSymFailure, Goto, Functions
  <2>7. CASE PrintSystemInfo(r)
    BY <2>7 DEF PrintSystemInfo, AddToReport, Goto, Functions
  <2>8. CASE SymCleanup(r)
    BY <2>8 DEF SymCleanup, Goto, Functions
  <2>9. CASE LibraryCrashes(r) \/ Faults(r)
    BY <2>9 DEF LibraryCrashes, Faults, CallCrashes, Goto, Functions
  <2> QED
    BY <1>2, <2>1, <2>2, <2>3, <2>4, <2>5, <2>6, <2>7, <2>8, <2>9 DEF ReportStep
<1>3. ASSUME NEW p \in Process, Exit(p)
      PROVE  Inv'
  BY <1>3 DEF Exit
<1>4. ASSUME NEW p \in Process, ProcessEnds(p)
      PROVE  Inv'
  BY <1>4 DEF ProcessEnds, OfProcess, Over, Functions
<1>5. CASE Finished \/ UNCHANGED vars
  BY <1>5 DEF Finished, vars
<1> QED
  BY <1>1, <1>2, <1>3, <1>4, <1>5 DEF Next

(* What ReportText sees of the reports.                                    *)
PhaseOf == [r \in Report |-> Phase(pc[r])]
Up == {p \in Process : process[p] = "running"}

(* A step of one report is a step of its phase only.                       *)
LEMMA PhaseMoves ==
  ASSUME pc \in [Report -> Location], NEW r \in Report, NEW l, Goto(r, l)
  PROVE  PhaseOf' = [PhaseOf EXCEPT ![r] = Phase(l)]
BY DEF PhaseOf, Goto

(* A step from place to place in the middle of a report is none.           *)
LEMMA PhaseStays ==
  ASSUME pc \in [Report -> Location], NEW r \in Report, NEW l, Goto(r, l), Phase(l) = Phase(pc[r])
  PROVE  PhaseOf' = PhaseOf
BY PhaseMoves DEF PhaseOf

(* Every step of ErrorReport is one of ReportText or leaves what it sees.  *)
LEMMA TextStep ==
  ASSUME Stages, [Next]_vars
  PROVE  [Text!Next]_(Text!vars)
<1> USE DEF context, files, output, library
<1> DEFINE Functions == /\ pc \in [Report -> Location]
                        /\ processOf \in [Report -> Process]
                        /\ text \in [Report -> SUBSET Part]
                        /\ process \in [Process -> {"running", "exiting", "crashing", "ended"}]
                        /\ symbols \subseteq Process
           Seen == <<processOf, PhaseOf, text, symbols, Up>>
<1>1. Functions /\ \A r \in Report : Stage(r)
  BY DEF Stages, TypeOK
<1> HIDE DEF Functions
<1>2. ASSUME UNCHANGED Seen
      PROVE  UNCHANGED Text!vars
  BY <1>2 DEF Text!vars, PhaseOf, Up
<1>3. ASSUME NEW r \in Report, NEW g \in Given, NEW s \in now..MaxTime, GenerateErrorReport(r, g, s)
      PROVE  Text!Begin(r)
  <2>1. PhaseOf' = [PhaseOf EXCEPT ![r] = "writing"] /\ PhaseOf[r] = "idle"
    BY <1>1, <1>3, PhaseMoves DEF GenerateErrorReport, Functions, Phase, PhaseOf
  <2> QED
    BY <1>3, <2>1 DEF GenerateErrorReport, Text!Begin, PhaseOf
<1>4. ASSUME NEW r \in Report, ReportStep(r)
      PROVE  \/ Text!WriteException(r) \/ Text!WriteCallStack(r) \/ Text!WriteSystem(r)
             \/ Text!Return(r) \/ Text!Die(r)
             \/ UNCHANGED Seen
  <2> DEFINE Writing == PhaseOf[r] = "writing"
             Stays == PhaseOf' = PhaseOf
             Dies == Writing /\ PhaseOf' = [PhaseOf EXCEPT ![r] = "dead"]
             Returns == Writing /\ PhaseOf' = [PhaseOf EXCEPT ![r] = "returned"]
             Same == UNCHANGED <<processOf, text, symbols, process>>
  <2>1. ASSUME pc[r] \notin {"idle", "cut"} \cup Over
        PROVE  /\ Writing
               /\ \A l \in Location \ ({"idle", "cut"} \cup Over) : Goto(r, l) => Stays
               /\ Goto(r, "crashed") \/ Goto(r, "faulted") => Dies
               /\ Goto(r, "returned") => Returns
    BY <1>1, <2>1, PhaseMoves, PhaseStays DEF Functions, Over, Phase, PhaseOf
  <2>3. ASSUME Stays, Same
        PROVE  UNCHANGED Seen
    BY <2>3 DEF Up
  <2>4. CASE ConstructBegins(r) \/ ConstructEnds(r)
    BY <2>4 DEF ConstructBegins, ConstructEnds, PhaseOf, Up
  <2>5. CASE CreateDumpFile(r) \/ CreateDumpFileFails(r) \/ WriteDump(r) \/ WalkStack(r)
    <3>1. Stays
      BY <2>5, <2>1 DEF CreateDumpFile, CreateDumpFileFails, WriteDump, WalkStack, Location, WithSymbols, Over
    <3>2. Same
      BY <2>5 DEF CreateDumpFile, CreateDumpFileFails, WriteDump, WalkStack
    <3> QED
      BY <3>1, <3>2, <2>3
  <2>6. CASE LibraryCrashes(r) \/ Faults(r)
    <3>1. Dies
      BY <2>6, <2>1 DEF LibraryCrashes, Faults, CallCrashes, WithSymbols, Over
    <3>2. UNCHANGED <<processOf, text, process>>
      BY <2>6 DEF LibraryCrashes, Faults
    <3>3. \/ UNCHANGED symbols
          \/ text[r] = {"exception"} /\ symbols' = symbols \cup {processOf[r]}
      BY <1>1, <2>6 DEF LibraryCrashes, Faults, Stage
    <3> QED
      BY <3>1, <3>2, <3>3 DEF Text!Die, Text!Opened, PhaseOf, Up
  <2>7. CASE PrintExceptInfo(r)
    <3>1. Writing /\ Stays
      BY <2>7, <2>1 DEF PrintExceptInfo, Location, Over
    <3>2. text[r] = {} /\ text' = [text EXCEPT ![r] = {"exception"}]
      BY <1>1, <2>7 DEF PrintExceptInfo, AddToReport, Stage
    <3>3. UNCHANGED <<processOf, symbols, process>>
      BY <2>7 DEF PrintExceptInfo
    <3>4. Text!WriteException(r)
      BY <3>1, <3>2, <3>3 DEF Text!WriteException, Text!Blank, Text!Opened, PhaseOf, Up
    <3> QED
      BY <3>4
  <2>8. CASE SymInitialize(r)
    <3>1. Writing /\ Stays
      BY <2>8, <2>1 DEF SymInitialize, Location, WithSymbols, Over
    <3>2. text[r] = {"exception"} /\ text' = [text EXCEPT ![r] = {"exception", "callstack"}]
      <4>1. text[r] = {"exception"} /\ text' = [text EXCEPT ![r] = @ \cup {"callstack"}]
        BY <1>1, <2>8 DEF SymInitialize, AddToReport, Stage
      <4>2. {"exception"} \cup {"callstack"} = {"exception", "callstack"}
        OBVIOUS
      <4> QED
        BY <4>1, <4>2
    <3>3. processOf[r] \notin symbols /\ symbols' = symbols \cup {processOf[r]}
      BY <2>8 DEF SymInitialize, MayInitialize
    <3>4. UNCHANGED <<processOf, process>>
      BY <2>8 DEF SymInitialize
    <3>5. Text!WriteCallStack(r)
      BY <3>1, <3>2, <3>3, <3>4 DEF Text!WriteCallStack, Text!Opened, Text!Walking, PhaseOf, Up
    <3> QED
      BY <3>5
  <2>9. CASE SymInitializeFails(r)
    <3>1. Returns
      BY <2>9, <2>1 DEF SymInitializeFails, AfterSymFailure, Over
    <3>2. text[r] = {"exception"}
      BY <1>1, <2>9 DEF SymInitializeFails, Stage
    <3>3. Same
      BY <2>9 DEF SymInitializeFails
    <3>4. Text!Return(r)
      BY <3>1, <3>2, <3>3 DEF Text!Return, Text!Opened, PhaseOf, Up
    <3> QED
      BY <3>4
  <2>10. CASE PrintSystemInfo(r)
    <3>1. Writing /\ Stays
      BY <2>10, <2>1 DEF PrintSystemInfo, Location, WithSymbols, Over
    <3>2. /\ text[r] = {"exception", "callstack"}
          /\ text' = [text EXCEPT ![r] = {"exception", "callstack", "system"}]
      <4>1. text[r] = {"exception", "callstack"} /\ text' = [text EXCEPT ![r] = @ \cup {"system"}]
        BY <1>1, <2>10 DEF PrintSystemInfo, AddToReport, Stage
      <4>2. {"exception", "callstack"} \cup {"system"} = {"exception", "callstack", "system"}
        OBVIOUS
      <4> QED
        BY <4>1, <4>2
    <3>3. processOf[r] \in Up => processOf[r] \in symbols
      BY <2>10 DEF PrintSystemInfo, Stages, SymbolsExclusive, WithSymbols, Up
    <3>4. UNCHANGED <<processOf, symbols, process>>
      BY <2>10 DEF PrintSystemInfo
    <3>5. Text!WriteSystem(r)
      BY <3>1, <3>2, <3>3, <3>4 DEF Text!WriteSystem, Text!Walking, Text!Whole, PhaseOf, Up
    <3> QED
      BY <3>5
  <2>11. CASE SymCleanup(r)
    <3>1. Returns
      BY <2>11, <2>1 DEF SymCleanup, Over
    <3>2. text[r] = {"exception", "callstack", "system"}
      BY <1>1, <2>11 DEF SymCleanup, Stage, Part
    <3>3. symbols' \in {symbols, symbols \ {processOf[r]}}
      BY <2>11 DEF SymCleanup
    <3>4. UNCHANGED <<processOf, text, process>>
      BY <2>11 DEF SymCleanup
    <3>5. Text!Return(r)
      BY <3>1, <3>2, <3>3, <3>4 DEF Text!Return, Text!Whole, PhaseOf, Up
    <3> QED
      BY <3>5
  <2> QED
    BY <1>4, <2>4, <2>5, <2>6, <2>7, <2>8, <2>9, <2>10, <2>11 DEF ReportStep
<1>5. ASSUME NEW p \in Process, Exit(p)
      PROVE  Text!Exit(p)
  <2>1. p \in Up /\ Up' = Up \ {p}
    BY <1>1, <1>5 DEF Exit, Up, Functions
  <2>2. symbols' \in {symbols, symbols \ {p}}
    BY <1>5 DEF Exit
  <2>3. UNCHANGED <<processOf, PhaseOf, text>>
    BY <1>5 DEF Exit, PhaseOf
  <2> QED
    BY <2>1, <2>2, <2>3 DEF Text!Exit, PhaseOf, Up
<1>6. ASSUME NEW p \in Process, ProcessEnds(p)
      PROVE  Text!End(p)
  <2>1. Up' = Up \ {p}
    BY <1>1, <1>6 DEF ProcessEnds, Up, Functions
  <2>2. p \in Up => \E r \in Report : processOf[r] = p /\ PhaseOf[r] \in {"returned", "dead"}
    BY <1>6 DEF ProcessEnds, OfProcess, Up, PhaseOf, Phase, Over
  <2>3. PhaseOf' = [r \in Report |-> IF processOf[r] = p /\ PhaseOf[r] # "returned"
                                       THEN "dead" ELSE PhaseOf[r]]
    BY <1>6 DEF ProcessEnds, OfProcess, PhaseOf, Phase, Over
  <2>4. symbols' = symbols \ {p} /\ UNCHANGED <<processOf, text>>
    BY <1>6 DEF ProcessEnds
  <2> QED
    BY <2>1, <2>2, <2>3, <2>4 DEF Text!End, PhaseOf, Up
<1>7. CASE Finished \/ UNCHANGED vars
  <2>1. UNCHANGED Seen
    BY <1>7 DEF Finished, vars, PhaseOf, Up
  <2> QED
    BY <2>1, <1>2
<1> QED
  BY <1>2, <1>3, <1>4, <1>5, <1>6, <1>7 DEF Next, Text!Next

(* Whatever fails and however reports and exits meet, in any number of     *)
(* processes, what a reader finds is a behaviour of ReportText.            *)
THEOREM ImplementsText == Spec => TextSpec
<1>1. Init => Text!Init
  <2> SUFFICES ASSUME Init
               PROVE  Text!Init
    OBVIOUS
  <2>1. PhaseOf = [r \in Report |-> "idle"]
    BY DEF Init, PhaseOf, Phase
  <2>2. Up = Process
    BY DEF Init, Up
  <2> QED
    BY <2>1, <2>2 DEF Init, Text!Init, Text!Blank, PhaseOf, Up
<1>2. Init => \A r \in Report : Stage(r)
  BY DEF Init, Stage
<1>3. /\ TypeOK /\ SymbolsExclusive /\ TypeOK' /\ SymbolsExclusive'
      /\ \A r \in Report : Stage(r)
      /\ [Next]_vars
      => (\A r \in Report : Stage(r))' /\ [Text!Next]_(Text!vars)
  BY StageStep, TextStep DEF Stages
<1> QED
  BY <1>1, <1>2, <1>3, TypesKept, SymbolsOfOneReport, PTL DEF Spec, TextSpec, Text!Spec
=============================================================================
