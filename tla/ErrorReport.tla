---------------------------- MODULE ErrorReport ----------------------------
(***************************************************************************)
(* What GenerateErrorReport() of src/src/CrashHandler.cpp produces once it *)
(* has decided to report: the minidump of CreateMiniDump() and the text of *)
(* CreateReport() (src/src/Report.cpp), with every call to the system that *)
(* may fail.                                                               *)
(*                                                                         *)
(* Reports run next to each other: two processes of one application write  *)
(* to the same directory, and in one process crExceptionFilter() generates *)
(* reports outside the critical section and may be followed by more.       *)
(* Reports of a process share dbghelp.dll and its symbol handler.  The     *)
(* library is loaded by the first report that calls it, and freed when the *)
(* process exits, whatever the other threads are doing.                    *)
(***************************************************************************)
EXTENDS Integers, FiniteSets

CONSTANTS
  Report,      \* the reports generated
  Process,     \* the processes of the application
  Given,       \* whether the callers pass exception pointers
  MaxTime,     \* bound: the last second of the clock
  NoReport

ASSUME ErrorReportAssumption ==
  /\ Given \subseteq BOOLEAN
  /\ MaxTime \in Nat
  /\ NoReport \notin Report

VARIABLES
  processOf, \* the process that generates each report
  now,      \* time(NULL) in seconds, as it was last read
  pc,       \* where each report is
  given,    \* the caller passed exception pointers
  excptr,   \* what GenerateErrorReport()'s own exception pointers point to
  name,     \* the second in the name of each report's dump
  dumps,    \* the report whose dump the file of each second holds
  open,     \* the reports that have their dump file open
  dump,     \* each report's dump: "none", "empty" or "complete"
  text,     \* the parts of its text that each report has handed on to be written
  told,     \* the failures of each report in the FATAL log
  lost,     \* reports a line of which could not be written to a log file
  magic,    \* the build constructs static locals under a lock
  dll,      \* the library and its wrapper in each process
  builders, \* the reports that construct a wrapper
  symbols,  \* processes whose symbol handler is initialised
  process   \* each process: "running", "exiting", "crashing" as it exits, "ended"

library == <<dll, builders>>
files == <<name, dumps, open, dump>>
output == <<text, told, lost>>
context == <<processOf, now, given, excptr, magic, process>>
vars == <<pc, context, files, output, library, symbols>>

Part == {"exception", "callstack", "system"}
Failure == {"dump", "dll", "symbols", "cleanup"}
Library == {"unloaded", "building", "loaded", "missing", "freed"}
Pointers == {"none", "zeroed", "captured", "given"}

(* Locations between SymInitialize() and SymCleanup().                     *)
WithSymbols == {"walk", "system", "cleanup"}
Location == {"idle", "create", "write", "exception", "init"}
            \cup WithSymbols \cup {"returned", "crashed", "faulted", "cut"}

(* A report is over once it has returned, has crashed at a call into the   *)
(* library, or has died of a fault of its own.                             *)
Over == {"returned", "crashed", "faulted"}

TypeOK ==
  /\ processOf \in [Report -> Process]
  /\ now \in 0..MaxTime
  /\ pc \in [Report -> Location]
  /\ given \in [Report -> BOOLEAN]
  /\ excptr \in [Report -> Pointers]
  /\ name \in [Report -> 0..MaxTime]
  /\ dumps \in [0..MaxTime -> Report \cup {NoReport}]
  /\ open \subseteq {r \in Report : pc[r] \in {"write", "crashed", "faulted", "cut"}}
  /\ dump \in [Report -> {"none", "empty", "complete"}]
  /\ text \in [Report -> SUBSET Part]
  /\ told \in [Report -> SUBSET Failure]
  /\ lost \subseteq Report
  /\ magic \in BOOLEAN
  /\ dll \in [Process -> Library]
  /\ builders \subseteq Report
  /\ symbols \subseteq Process
  /\ process \in [Process -> {"running", "exiting", "crashing", "ended"}]

Init ==
  /\ processOf \in [Report -> Process]
  /\ now = 0
  /\ pc = [r \in Report |-> "idle"]
  /\ given = [r \in Report |-> FALSE]
  /\ excptr = [r \in Report |-> "none"]
  /\ name = [r \in Report |-> 0]
  /\ dumps = [s \in 0..MaxTime |-> NoReport]
  /\ open = {}
  /\ dump = [r \in Report |-> "none"]
  /\ text = [r \in Report |-> {}]
  /\ told = [r \in Report |-> {}]
  /\ lost = {}
  /\ magic \in BOOLEAN
  /\ dll = [p \in Process |-> "unloaded"]
  /\ builders = {}
  /\ symbols = {}
  /\ process = [p \in Process |-> "running"]

-----------------------------------------------------------------------------
(* Utilities.                                                              *)

Goto(r, l) == pc' = [pc EXCEPT ![r] = l]

(* WriteTextToFile() opens the day's file for every line; if that fails    *)
(* the line is gone.                                                       *)
AddToReport(r, part) ==
  /\ text' = [text EXCEPT ![r] = @ \cup {part}]
  /\ UNCHANGED lost \/ lost' = lost \cup {r}

(* Mutant: the error is not logged.                                        *)
LogNothing(r, failure) == UNCHANGED <<told, lost>>

LogLastError(r, failure) ==
  \/ told' = [told EXCEPT ![r] = @ \cup {failure}] /\ UNCHANGED lost
  \/ lost' = lost \cup {r} /\ UNCHANGED told

-----------------------------------------------------------------------------
(* GetDbghelpDll(): the wrapper of the library is a static local, which    *)
(* the first call in a process constructs.  A compiler before Visual C++   *)
(* 2015 does not lock it: two reports may both have found it unset.        *)
ConstructBegins(r) ==
  /\ pc[r] \in {"write", "init"} /\ r \notin builders
  /\ dll[processOf[r]] = "unloaded" \/ (~magic /\ dll[processOf[r]] = "building")
  /\ dll' = [dll EXCEPT ![processOf[r]] = "building"]
  /\ builders' = builders \cup {r}
  /\ UNCHANGED <<pc, context, files, output, symbols>>

(* LoadLibraryA() and GetProcAddress() of every function, or the error     *)
(* logged.  A second construction that fails leaves the functions that the *)
(* first one has found.                                                    *)
ConstructEnds(r) ==
  LET before == dll[processOf[r]]
  IN /\ r \in builders /\ pc[r] \in {"write", "init"}
     /\ builders' = builders \ {r}
     /\ \/ dll' = [dll EXCEPT ![processOf[r]] = "loaded"] /\ UNCHANGED <<told, lost>>
        \/ /\ dll' = [dll EXCEPT ![processOf[r]] =
                                  IF before = "loaded" THEN "loaded" ELSE "missing"]
           /\ LogLastError(r, "dll")
     /\ UNCHANGED <<pc, context, files, text, symbols>>

(* Mutant: no compiler makes the other threads wait.                       *)
HalfBuiltAlways(r) == dll[processOf[r]] = "building"

(* Another thread is still constructing the wrapper, and nothing makes     *)
(* this one wait.                                                          *)
HalfBuilt(r) == dll[processOf[r]] = "building" /\ ~magic

(* A call through the wrapper arrives.  A half-built one may have that     *)
(* function already, the library may miss another one only, and one that   *)
(* is freed may have been loaded by others, too.                           *)
Arrives(r) ==
  r \notin builders /\ (dll[processOf[r]] \in {"loaded", "missing", "freed"} \/ HalfBuilt(r))

(* Or it crashes: through a null pointer, or into memory that is gone.     *)
CallCrashes(r) ==
  /\ r \notin builders
  /\ dll[processOf[r]] \in {"missing", "freed"} \/ HalfBuilt(r)
  /\ Goto(r, "crashed")

-----------------------------------------------------------------------------
(* GetExceptionPointers(): the context of the caller and a record with the *)
(* code of the exception and the caller's address.                         *)
GetExceptionPointers == "captured"

(* GenerateErrorReport() up to the name that CreateMiniDump() makes from   *)
(* the second: its own exception pointers are zeroed, and filled in from   *)
(* the CPU state only if the caller gave none.  They are what the dump and *)
(* the text are made from.                                                 *)
GenerateErrorReport(r, g, s) ==
  /\ pc[r] = "idle"
  /\ now' = s
  /\ given' = [given EXCEPT ![r] = g]
  /\ excptr' = [excptr EXCEPT ![r] = IF g THEN "zeroed" ELSE GetExceptionPointers]
  /\ name' = [name EXCEPT ![r] = s]
  /\ Goto(r, "create")
  /\ UNCHANGED <<processOf, magic, process, dumps, open, dump, output, library, symbols>>

(* Mutant: the file is opened with FILE_SHARE_WRITE.                       *)
SharedFreely(r) == FALSE

(* CreateFile(): CREATE_ALWAYS empties an existing file, unless it is open *)
(* and therefore not shared; creating it may fail for other reasons.       *)
Shared(r) == \E q \in open : name[q] = name[r]

CreateDumpFile(r) ==
  /\ pc[r] = "create"
  /\ ~Shared(r)
  /\ dumps' = [dumps EXCEPT ![name[r]] = r]
  /\ dump' = [dump EXCEPT ![r] = "empty"]
  /\ open' = open \cup {r}
  /\ Goto(r, "write")
  /\ UNCHANGED <<context, name, output, library, symbols>>

CreateDumpFileFails(r) ==
  /\ pc[r] = "create"
  /\ LogLastError(r, "dump")
  /\ Goto(r, "exception")
  /\ UNCHANGED <<context, files, text, library, symbols>>

(* Mutant: CloseHandle() is forgotten.                                     *)
LeftOpen(r) == open

Closed(r) == open \ {r}

(* MiniDumpWriteDump(), whose result is ignored, and CloseHandle().        *)
WriteDump(r) ==
  /\ pc[r] = "write"
  /\ Arrives(r)
  /\ \E d \in {"empty", "complete"} : dump' = [dump EXCEPT ![r] = d]
  /\ open' = Closed(r)
  /\ Goto(r, "exception")
  /\ UNCHANGED <<context, name, dumps, output, library, symbols>>

-----------------------------------------------------------------------------
(* CreateReport().                                                         *)

(* "Exception report created at" and PrintExceptInfo().                    *)
PrintExceptInfo(r) ==
  /\ pc[r] = "exception"
  /\ AddToReport(r, "exception")
  /\ Goto(r, "init")
  /\ UNCHANGED <<context, files, told, library, symbols>>

(* SymInitialize() succeeds at most once until SymCleanup().               *)
MayInitialize(p) == p \notin symbols

(* The head of the call stack follows.                                     *)
SymInitialize(r) ==
  /\ pc[r] = "init"
  /\ Arrives(r)
  /\ MayInitialize(processOf[r])
  /\ symbols' = symbols \cup {processOf[r]}
  /\ AddToReport(r, "callstack")
  /\ Goto(r, "walk")
  /\ UNCHANGED <<context, files, told, library>>

(* Mutant: the early return is missing.                                    *)
GoesOn == "walk"

(* Where CreateReport() goes when SymInitialize() has failed.              *)
AfterSymFailure == "returned"

SymInitializeFails(r) ==
  /\ pc[r] = "init"
  /\ Arrives(r)
  /\ LogLastError(r, "symbols")
  /\ Goto(r, AfterSymFailure)
  /\ UNCHANGED <<context, files, text, library, symbols>>

(* WalkStack(): its lines, some of which may be lost.                      *)
WalkStack(r) ==
  /\ pc[r] = "walk"
  /\ UNCHANGED lost \/ lost' = lost \cup {r}
  /\ Goto(r, "system")
  /\ UNCHANGED <<context, files, text, told, library, symbols>>

PrintSystemInfo(r) ==
  /\ pc[r] = "system"
  /\ AddToReport(r, "system")
  /\ Goto(r, "cleanup")
  /\ UNCHANGED <<context, files, told, library, symbols>>

SymCleanup(r) ==
  /\ pc[r] = "cleanup"
  /\ Arrives(r)
  /\ \/ symbols' = symbols \ {processOf[r]} /\ UNCHANGED <<told, lost>>
     \/ LogLastError(r, "cleanup") /\ UNCHANGED symbols
  /\ Goto(r, "returned")
  /\ UNCHANGED <<context, files, text, library>>

-----------------------------------------------------------------------------
(* The report crashes in turn.  A dump that it was writing stays open.     *)

(* It calls a function of the library that is not there.                   *)
LibraryCrashes(r) ==
  /\ pc[r] \in {"write", "init", "walk", "cleanup"}
  /\ CallCrashes(r)
  /\ UNCHANGED <<context, files, output, library, symbols>>

(* It dies of anything else: memory runs out, what it reads of the crashed *)
(* process is gone, or a function of the library faults.  From the return  *)
(* of SymInitialize() on it has the symbol handler.                        *)
Faults(r) ==
  /\ pc[r] \in {"create", "write", "exception", "init"} \cup WithSymbols
  /\ pc[r] \in {"write", "init", "cleanup"} => r \in builders \/ Arrives(r)
  /\ Goto(r, "faulted")
  /\ \/ UNCHANGED symbols
     \/ /\ pc[r] = "init" /\ Arrives(r) /\ MayInitialize(processOf[r])
        /\ symbols' = symbols \cup {processOf[r]}
  /\ UNCHANGED <<context, files, output, library>>

-----------------------------------------------------------------------------
(* The end of a process.                                                   *)

(* main() returns, and static objects are destroyed while other threads    *)
(* run on: the wrapper, if it has been constructed, calls SymCleanup() and *)
(* frees the library.  If that function is missing the call crashes.       *)
Exit(p) ==
  /\ process[p] = "running"
  /\ \/ /\ dll[p] \in {"loaded", "missing"}
        /\ process' = [process EXCEPT ![p] = "exiting"]
        /\ dll' = [dll EXCEPT ![p] = "freed"]
        /\ symbols' = symbols \ {p}
     \/ /\ dll[p] = "missing"
        /\ process' = [process EXCEPT ![p] = "crashing"]
        /\ UNCHANGED <<dll, symbols>>
     \/ /\ dll[p] \in {"unloaded", "building"}
        /\ process' = [process EXCEPT ![p] = "exiting"]
        /\ UNCHANGED <<dll, symbols>>
  /\ UNCHANGED <<pc, processOf, now, given, excptr, magic, files, output, builders>>

OfProcess(p) == {r \in Report : processOf[r] = p}

(* The process is gone once it has exited, or by the TerminateProcess() of *)
(* a handler whose report has returned or crashed: what it has open is     *)
(* closed, what it has loaded unloaded, and its reports are cut off where  *)
(* they are.                                                               *)
ProcessEnds(p) ==
  /\ \/ process[p] \in {"exiting", "crashing"}
     \/ /\ process[p] = "running"
        /\ \E r \in OfProcess(p) : pc[r] \in Over
  /\ process' = [process EXCEPT ![p] = "ended"]
  /\ pc' = [r \in Report |-> IF r \in OfProcess(p) /\ pc[r] \notin Over
                               THEN "cut" ELSE pc[r]]
  /\ open' = open \ OfProcess(p)
  /\ builders' = builders \ OfProcess(p)
  /\ dll' = [dll EXCEPT ![p] = "unloaded"]
  /\ symbols' = symbols \ {p}
  /\ UNCHANGED <<processOf, now, given, excptr, magic, name, dumps, dump, output>>

-----------------------------------------------------------------------------
ReportStep(r) ==
  \/ ConstructBegins(r) \/ ConstructEnds(r)
  \/ CreateDumpFile(r) \/ CreateDumpFileFails(r) \/ WriteDump(r)
  \/ PrintExceptInfo(r)
  \/ SymInitialize(r) \/ SymInitializeFails(r)
  \/ WalkStack(r)
  \/ PrintSystemInfo(r)
  \/ SymCleanup(r)
  \/ LibraryCrashes(r) \/ Faults(r)

Finished ==
  /\ \A r \in Report : pc[r] \in Over \cup {"cut"}
  /\ UNCHANGED vars

Next ==
  \/ \E r \in Report : \/ \E g \in Given, s \in now..MaxTime : GenerateErrorReport(r, g, s)
                        \/ ReportStep(r)
  \/ \E p \in Process : Exit(p) \/ ProcessEnds(p)
  \/ Finished

Spec == Init /\ [][Next]_vars

-----------------------------------------------------------------------------
(* Properties.                                                             *)

(* The symbol handler of a process serves one report at a time, although   *)
(* nothing locks it for reports of crExceptionFilter(): a report whose     *)
(* SymInitialize() fails does not go on to the call stack.  While a report *)
(* is walking the stack no other report's SymCleanup() takes its symbols,  *)
(* only that of the process's exit does.                                   *)
SymbolsExclusive ==
  \A r \in Report : pc[r] \in WithSymbols /\ process[processOf[r]] = "running" =>
    /\ processOf[r] \in symbols
    /\ \A q \in Report : processOf[q] = processOf[r] /\ pc[q] \in WithSymbols => q = r

(* A report that crashes at a call into dbghelp.dll, wherever it makes it, *)
(* meets one of three things: a library or a function of it that could not *)
(* be loaded, which the FATAL log says of a report of its process unless   *)
(* the log itself failed; the exit of its process; or, from a compiler     *)
(* that does not lock static locals, another report constructing the       *)
(* wrapper.  A report that is alone in a running process never crashes     *)
(* there without a line that says why.                                     *)
CrashExplained ==
  \A r \in Report : pc[r] = "crashed" =>
    LET others == OfProcess(processOf[r]) \ {r}
    IN \/ \E q \in others \cup {r} : "dll" \in told[q] \/ q \in lost
       \/ process[processOf[r]] # "running"
       \/ ~magic /\ \E q \in others : pc[q] # "idle"

(* A report that comes back without its dump or without its call stack has *)
(* said so in the FATAL log, unless a log file could not be written to:    *)
(* GenerateErrorReport() returns 0 all the same.                           *)
LossTold ==
  \A r \in Report : pc[r] = "returned" /\ r \notin lost =>
    /\ dump[r] = "none" => "dump" \in told[r]
    /\ text[r] = Part \/ "symbols" \in told[r]

(* The file that a report is writing its dump to is its own until it       *)
(* closes it: no report of its process or of another, named in the same    *)
(* second, empties it or writes into it, not even after the first one has  *)
(* crashed with the file open.                                             *)
DumpNotShared == \A r \in open : dumps[name[r]] = r

(* "pexcptrs: Should contain the exception pointers.  If this parameter is *)
(* NULL, the current CPU state is used" (src/src/CrashRpt.h:248-251):      *)
(* pointers that are given are those the dump is made from.                *)
GivenPointersUsed ==
  \A r \in Report : given[r] /\ dump[r] = "complete" => excptr[r] = "given"

(* The reports implement ReportText: whatever calls fail and however the   *)
(* reports of a process and its exit meet, what the reader finds is one of *)
(* its behaviours.  The symbol handler is the resource that its reports    *)
(* share; a report is over when it has returned, died or been cut off.      *)
Phase(l) ==
  CASE l = "idle" -> "idle"
    [] l = "returned" -> "returned"
    [] l \in {"crashed", "faulted", "cut"} -> "dead"
    [] OTHER -> "writing"

Text == INSTANCE ReportText WITH
  phase <- [r \in Report |-> Phase(pc[r])],
  taken <- symbols,
  up <- {p \in Process : process[p] = "running"}

TextSpec == Text!Spec
=============================================================================
