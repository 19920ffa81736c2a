---------------------------- MODULE CrashHandler ----------------------------
(***************************************************************************)
(* The crash handlers of src/src/CrashHandler.cpp at run time: what the    *)
(* threads of a process do from the moment a crash is delivered to one of  *)
(* the handlers installed by crInstall() until the process is terminated.  *)
(*                                                                         *)
(* A handler enters the process-wide critical section, calls               *)
(* GenerateErrorReport() and terminates the process.  A stack overflow is  *)
(* reported by a helper thread.  crExceptionFilter() calls                 *)
(* GenerateErrorReport() without the critical section and may give the     *)
(* thread back to the application.  A crash may happen at any time in any  *)
(* application thread, and again while a report is being generated.        *)
(*                                                                         *)
(* No handler ever returns into the code below it on its stack: it         *)
(* terminates the process, or (crExceptionFilter) unwinds to the guarded   *)
(* scope, or passes the exception on to SehHandler.  The top frame of each *)
(* thread, and how deep it is, is therefore all of the stack that matters. *)
(***************************************************************************)
EXTENDS Integers, Sequences

CONSTANTS
  AppThread,     \* the threads of the application
  HelperThread,  \* the threads SehHandler may create (bounds their number)
  MainThread,    \* the application thread that called crInstall()
  Guarded,       \* application threads inside a __try whose filter is crExceptionFilter()
  AppCrash,      \* the kinds of crash the application's own code may have
  NestedCrash,   \* the kinds of crash generating a report may have
  MaxNesting,    \* bound: crashes on top of each other on one stack
  MaxChance,     \* bound: no more crashes once excpt_chance has reached it
  NoThread

Thread == AppThread \cup HelperThread

(* The kinds of crash, each named after the handler that it is delivered   *)
(* to.  SEH exceptions are dispatched through the scopes of the thread's   *)
(* stack; "StackOverflow" is the SEH exception SehHandler treats apart.    *)
SehCrash == {"Seh", "StackOverflow"}
CppErrorHandlers == {"Terminate", "Unexpected", "PureCall", "Security"}
CrtErrorHandlers == {"InvalidParameter", "New"}
SignalHandlers == {"Sigabrt", "Sigfpe", "Sigint", "Sigill", "Sigsegv", "Sigterm"}
Crash == SehCrash \cup CppErrorHandlers \cup CrtErrorHandlers \cup SignalHandlers

(* Handlers the C run-time keeps separately for each thread: crInstall()   *)
(* sets them for the thread that calls it only.                            *)
PerThreadHandlers == {"Terminate", "Unexpected", "Sigfpe", "Sigill", "Sigsegv"}

ASSUME CrashHandlerAssumption ==
  /\ AppThread \cap HelperThread = {}
  /\ MainThread \in AppThread
  /\ Guarded \subseteq AppThread
  /\ AppCrash \subseteq Crash
  /\ NestedCrash \subseteq Crash
  /\ MaxNesting \in Nat
  /\ MaxChance \in Nat
  /\ NoThread \notin Thread

VARIABLES
  process,             \* "up", or how the process came to its end
  pc,                  \* where each thread is
  kind,                \* the crash each thread is handling
  inFilter,            \* threads whose top frame is crExceptionFilter()
  nesting,             \* how many crashes of the thread interrupted an earlier one
  critsec,             \* CurrentProcessCrashHandler::critsec
  bContinueExecution,  \* CurrentProcessCrashHandler::bContinueExecution
  excpt_chance,        \* the static counter of GenerateErrorReport()
  seen,                \* the value of ++excpt_chance each thread computes
  armed,               \* signals whose handler is in place (the CRT resets it on delivery)
  output               \* what has been written to the dump and the log file, in order

vars == <<process, pc, kind, inFilter, nesting, critsec, bContinueExecution,
          excpt_chance, seen, armed, output>>

(* Where a thread can be.  "load" to "walk" are inside                     *)
(* GenerateErrorReport(), "dump" inside CreateMiniDump(), "head" and       *)
(* "walk" inside CreateReport() before and after SymInitialize().          *)
Reporting == {"dump", "head", "walk"}
Generating == {"load", "store", "test"} \cup Reporting
Returned == {"done", "failed"}
Location == {"run", "lock", "spawn", "wait", "free"} \cup Generating \cup Returned

Part == {"dump", "head", "tail"}
Event == [by : Thread, what : Part]

TypeOK ==
  /\ process \in {"up", "terminated", "exited", "killed"}
  /\ pc \in [Thread -> Location]
  /\ kind \in [Thread -> Crash \cup {"none"}]
  /\ inFilter \subseteq Guarded
  /\ nesting \in [Thread -> 0..MaxNesting]
  /\ critsec \in [owner : Thread \cup {NoThread}, count : Nat]
  /\ bContinueExecution \in BOOLEAN
  /\ excpt_chance \in Nat
  /\ seen \in [Thread -> Nat]
  /\ armed \subseteq SignalHandlers
  /\ output \in Seq(Event)

Init ==
  /\ process = "up"
  /\ pc = [t \in Thread |-> IF t \in AppThread THEN "run" ELSE "free"]
  /\ kind = [t \in Thread |-> "none"]
  /\ inFilter = {}
  /\ nesting = [t \in Thread |-> 0]
  /\ critsec = [owner |-> NoThread, count |-> 0]
  /\ bContinueExecution = FALSE
  /\ excpt_chance = 0
  /\ seen = [t \in Thread |-> 0]
  /\ armed = SignalHandlers
  /\ output = <<>>

-----------------------------------------------------------------------------
(* Delivery of a crash by the system.                                      *)

(* A handler for crash c is in place for thread t.                         *)
Handled(t, c) ==
  /\ c \in PerThreadHandlers => t = MainThread
  /\ c \in SignalHandlers => c \in armed

(* Mutant: the filter runs for every thread.                               *)
FilteredEverywhere(t, c) == c \in SehCrash

(* The scopes of the thread's own stack see an SEH exception before the    *)
(* top-level filter does, also when it is raised by a filter or by a       *)
(* handler above them.                                                     *)
Filtered(t, c) == t \in Guarded /\ c \in SehCrash

(* SehHandler hands a stack overflow to a helper thread and every other    *)
(* exception to the common path of all handlers.                           *)
FirstStop(c) == IF c = "StackOverflow" THEN "spawn" ELSE "lock"

Deliver(t, c) ==
  /\ process = "up"
  /\ excpt_chance < MaxChance
  /\ Handled(t, c)
  /\ pc' = [pc EXCEPT ![t] = IF Filtered(t, c) THEN "load" ELSE FirstStop(c)]
  /\ kind' = [kind EXCEPT ![t] = c]
  /\ inFilter' = IF Filtered(t, c) THEN inFilter \cup {t} ELSE inFilter \ {t}
  /\ armed' = armed \ {c}
  /\ UNCHANGED <<process, critsec, bContinueExecution, excpt_chance, seen, output>>

AppCrashes(t, c) ==
  /\ pc[t] = "run"
  /\ c \in AppCrash
  /\ Deliver(t, c)
  /\ UNCHANGED nesting

ReportCrashes(t, c) ==
  /\ pc[t] \in Reporting
  /\ c \in NestedCrash
  /\ nesting[t] < MaxNesting
  /\ nesting' = [nesting EXCEPT ![t] = @ + 1]
  /\ Deliver(t, c)

(* A signal whose handler has been used up, or was never set in the        *)
(* thread, gets the default action, which ends the process.  (A hardware   *)
(* fault has SehHandler behind the CRT's default action: that is a "Seh"   *)
(* crash.)                                                                 *)
DefaultSignal(t, c) ==
  /\ process = "up"
  /\ c \in SignalHandlers
  /\ ~Handled(t, c)
  /\ \/ pc[t] = "run" /\ c \in AppCrash
     \/ pc[t] \in Reporting /\ c \in NestedCrash
  /\ process' = "killed"
  /\ UNCHANGED <<pc, kind, inFilter, nesting, critsec, bContinueExecution,
                 excpt_chance, seen, armed, output>>

(* The application comes to its normal end, whatever its other threads do. *)
AppExits ==
  /\ process = "up"
  /\ pc[MainThread] = "run"
  /\ process' = "exited"
  /\ UNCHANGED <<pc, kind, inFilter, nesting, critsec, bContinueExecution,
                 excpt_chance, seen, armed, output>>

-----------------------------------------------------------------------------
(* SehHandler, the stack overflow branch.                                  *)

(* CreateThread() succeeds and the crashing thread waits for the helper.   *)
SpawnHelper(t, h) ==
  /\ process = "up"
  /\ pc[t] = "spawn"
  /\ h \in HelperThread
  /\ pc[h] = "free"
  /\ pc' = [pc EXCEPT ![t] = "wait", ![h] = "lock"]
  /\ kind' = [kind EXCEPT ![h] = "StackOverflow"]
  /\ UNCHANGED <<process, inFilter, nesting, critsec, bContinueExecution,
                 excpt_chance, seen, armed, output>>

(* CreateThread() fails: the wait on the null handle fails at once and the *)
(* process is terminated without a report.                                 *)
SpawnFails(t) ==
  /\ process = "up"
  /\ pc[t] = "spawn"
  /\ process' = "terminated"
  /\ UNCHANGED <<pc, kind, inFilter, nesting, critsec, bContinueExecution,
                 excpt_chance, seen, armed, output>>

-----------------------------------------------------------------------------
(* The common path of the handlers and GenerateErrorReport().              *)

(* Mutants: no critical section, and one that is not reentrant.            *)
EnterUnlocked(t) == TRUE
EnterOnce(t) == critsec.owner = NoThread

(* EnterCriticalSection() is reentrant: it blocks only on another owner.   *)
MayEnter(t) == critsec.owner \in {NoThread, t}

(* Mutant: crashes are not critical by default.                            *)
ContinueByDefault == TRUE

(* "Treat this type of crash critical by default"                          *)
ContinueAfterCrash == FALSE

EnterHandler(t) ==
  /\ process = "up"
  /\ pc[t] = "lock"
  /\ MayEnter(t)
  /\ critsec' = [owner |-> t, count |-> critsec.count + 1]
  /\ bContinueExecution' = ContinueAfterCrash
  /\ pc' = [pc EXCEPT ![t] = "load"]
  /\ UNCHANGED <<process, kind, inFilter, nesting, excpt_chance, seen, armed, output>>

(* ++excpt_chance is a load and a store: crExceptionFilter() runs it       *)
(* without the critical section, so it races with other threads.           *)
LoadChance(t) ==
  /\ process = "up"
  /\ pc[t] = "load"
  /\ seen' = [seen EXCEPT ![t] = excpt_chance + 1]
  /\ pc' = [pc EXCEPT ![t] = "store"]
  /\ UNCHANGED <<process, kind, inFilter, nesting, critsec, bContinueExecution,
                 excpt_chance, armed, output>>

StoreChance(t) ==
  /\ process = "up"
  /\ pc[t] = "store"
  /\ excpt_chance' = seen[t]
  /\ pc' = [pc EXCEPT ![t] = "test"]
  /\ UNCHANGED <<process, kind, inFilter, nesting, critsec, bContinueExecution,
                 seen, armed, output>>

(* Mutants: the first exception is dropped, and none is.                   *)
GivesUpAtOnce(n) == n >= 1
GivesUpNever(n) == FALSE

(* The one value of the counter that makes GenerateErrorReport() give up.  *)
GivesUp(n) == n = 2

(* The comparison uses the value in the register or, in an unoptimised     *)
(* build, reads the counter again.                                         *)
TestChance(t) ==
  /\ process = "up"
  /\ pc[t] = "test"
  /\ \E n \in {seen[t], excpt_chance} :
       pc' = [pc EXCEPT ![t] = IF GivesUp(n) THEN "failed" ELSE "dump"]
  /\ UNCHANGED <<process, kind, inFilter, nesting, critsec, bContinueExecution,
                 excpt_chance, seen, armed, output>>

Write(t, what) == output' = Append(output, [by |-> t, what |-> what])

(* CreateMiniDump(): the file is written or cannot be created; the caller  *)
(* ignores which.                                                          *)
CreateMiniDump(t) ==
  /\ process = "up"
  /\ pc[t] = "dump"
  /\ pc' = [pc EXCEPT ![t] = "head"]
  /\ Write(t, "dump") \/ UNCHANGED output
  /\ UNCHANGED <<process, kind, inFilter, nesting, critsec, bContinueExecution,
                 excpt_chance, seen, armed>>

(* CreateReport() up to SymInitialize(), whose failure ends the report     *)
(* without an error for the caller.                                        *)
CreateReportHead(t) ==
  /\ process = "up"
  /\ pc[t] = "head"
  /\ Write(t, "head")
  /\ \E next \in {"walk", "done"} : pc' = [pc EXCEPT ![t] = next]
  /\ UNCHANGED <<process, kind, inFilter, nesting, critsec, bContinueExecution,
                 excpt_chance, seen, armed>>

(* CreateReport() from SymInitialize() on: call stack, system information, *)
(* SymCleanup().                                                           *)
CreateReportTail(t) ==
  /\ process = "up"
  /\ pc[t] = "walk"
  /\ Write(t, "tail")
  /\ pc' = [pc EXCEPT ![t] = "done"]
  /\ UNCHANGED <<process, kind, inFilter, nesting, critsec, bContinueExecution,
                 excpt_chance, seen, armed>>

Leave == [owner |-> IF critsec.count = 1 THEN NoThread ELSE critsec.owner,
          count |-> critsec.count - 1]

(* After GenerateErrorReport(), whatever it returned, a handler terminates *)
(* the process unless bContinueExecution is set; then it would leave the   *)
(* critical section, and a helper's end would have its creator terminate   *)
(* the process.                                                            *)
HandlerEnds(t) ==
  /\ process = "up"
  /\ pc[t] \in Returned
  /\ t \notin inFilter
  /\ IF ~bContinueExecution
       THEN process' = "terminated" /\ UNCHANGED <<pc, critsec>>
       ELSE /\ critsec' = Leave
            /\ pc' = [pc EXCEPT ![t] = IF t \in HelperThread THEN "free" ELSE "run"]
            /\ process' = IF t \in HelperThread THEN "terminated" ELSE process
  /\ UNCHANGED <<kind, inFilter, nesting, bContinueExecution, excpt_chance, seen,
                 armed, output>>

-----------------------------------------------------------------------------
(* crExceptionFilter()                                                     *)

(* It returns EXCEPTION_EXECUTE_HANDLER: the stack is unwound to the       *)
(* application's __except block, over whatever handler was interrupted.    *)
FilterHandles(t) ==
  /\ process = "up"
  /\ pc[t] = "done"
  /\ t \in inFilter
  /\ pc' = [pc EXCEPT ![t] = "run"]
  /\ kind' = [kind EXCEPT ![t] = "none"]
  /\ inFilter' = inFilter \ {t}
  /\ nesting' = [nesting EXCEPT ![t] = 0]
  /\ UNCHANGED <<process, critsec, bContinueExecution, excpt_chance, seen, armed, output>>

(* It returns EXCEPTION_CONTINUE_SEARCH and the exception reaches          *)
(* SehHandler.                                                             *)
FilterDeclines(t) ==
  /\ process = "up"
  /\ pc[t] = "failed"
  /\ t \in inFilter
  /\ pc' = [pc EXCEPT ![t] = FirstStop(kind[t])]
  /\ inFilter' = inFilter \ {t}
  /\ UNCHANGED <<process, kind, nesting, critsec, bContinueExecution,
                 excpt_chance, seen, armed, output>>

-----------------------------------------------------------------------------
(* The steps of a thread that is handling a crash.                         *)
HandlerStep(t) ==
  \/ \E h \in HelperThread : SpawnHelper(t, h)
  \/ SpawnFails(t)
  \/ EnterHandler(t)
  \/ LoadChance(t)
  \/ StoreChance(t)
  \/ TestChance(t)
  \/ CreateMiniDump(t)
  \/ CreateReportHead(t)
  \/ CreateReportTail(t)
  \/ HandlerEnds(t)
  \/ FilterHandles(t)
  \/ FilterDeclines(t)

(* The application goes on, or the process has ended.  Without this step   *)
(* being possible a deadlock is a process that hangs in its handlers.      *)
Idle ==
  /\ process = "up" => \E t \in AppThread : pc[t] = "run"
  /\ UNCHANGED vars

Next ==
  \/ \E t \in Thread, c \in Crash : AppCrashes(t, c) \/ ReportCrashes(t, c) \/ DefaultSignal(t, c)
  \/ AppExits
  \/ \E t \in Thread : HandlerStep(t)
  \/ Idle

Spec == Init /\ [][Next]_vars

(* Windows schedules every thread that can run, and the calls a handler    *)
(* makes return.  Nothing forces a crash, nor the application's end.       *)
Fairness == \A t \in Thread : WF_vars(HandlerStep(t))

FairSpec == Spec /\ Fairness

-----------------------------------------------------------------------------
(* Properties                                                              *)

(* A handler is inside GenerateErrorReport(), or about to terminate the    *)
(* process, only while its thread owns the critical section: the handlers  *)
(* of two threads are never inside together, however crashes nest, and     *)
(* also when crExceptionFilter() unwinds a handler that owns the section.  *)
HandlersExclusive ==
  \A t \in Thread :
    t \notin inFilter /\ pc[t] \in Generating \cup Returned => critsec.owner = t

(* The critical section never changes hands and is never given back: the   *)
(* UNLOCK_HANDLER() after TerminateProcess() is never reached.             *)
NeverUnlocked ==
  [][/\ critsec.owner # NoThread => critsec'.owner = critsec.owner
     /\ critsec'.count > critsec.count]_critsec

(* Without crExceptionFilter(), everything ever written to the dump and    *)
(* the log comes from one thread and is one report at most, in order: the  *)
(* handlers of other threads and nested crashes never write into it.       *)
Order == [dump |-> 1, head |-> 2, tail |-> 3]
SingleReport ==
  \A i, j \in 1..Len(output) :
    /\ output[i].by = output[j].by
    /\ i < j => Order[output[i].what] < Order[output[j].what]

(* Without crExceptionFilter(), a handler terminates the process only      *)
(* after the report has been started, unless generating it crashed in turn *)
(* or a stack overflow found no helper thread.                             *)
NoSilentTermination ==
  process = "terminated" =>
    \/ \E i \in 1..Len(output) : output[i].what = "head"
    \/ \E t \in Thread : nesting[t] > 0 \/ pc[t] = "spawn"

(* With crExceptionFilter(), GenerateErrorReport() gives up on a crash only *)
(* if another one has been counted before: one that its own report had,    *)
(* one that another thread is still handling, or one that has been         *)
(* reported and after which the filter let its thread, this one or         *)
(* another, go on.  So the first crash of the process has its report       *)
(* unless a second one meets it at the counter, where both may be lost; a  *)
(* later one, which the last case is about, may be dropped though it comes *)
(* alone.                                                                  *)
Reported == {output[i].by : i \in {j \in 1..Len(output) : output[j].what = "head"}}
DropNeedsAnother ==
  \A t \in Thread : pc[t] = "failed" =>
    \/ nesting[t] > 0
    \/ \E u \in Thread \ {t} : seen[u] > 0 /\ pc[u] # "run"
    \/ \E u \in Reported : u = t \/ pc[u] = "run"

(* A thread that has crashed brings the process to its end: no handler     *)
(* hangs, and none gives the thread back to the application.               *)
CrashEnds ==
  \A t \in Thread : (pc[t] \notin {"run", "free"}) ~> (process # "up")

(* With crExceptionFilter(), a thread that has crashed ends the process,   *)
(* or goes on in its __except block, or hangs for one reason only (as long *)
(* as generating a report does not itself overflow the stack): the         *)
(* filter has unwound a handler, whose thread went on with the critical    *)
(* section locked and is still running, or has since overflowed its stack  *)
(* and waits for a helper that waits for it.                               *)
CrashResolved ==
  \A t \in Thread : (pc[t] \notin {"run", "free"}) ~>
    \/ process # "up"
    \/ pc[t] = "run"
    \/ critsec.owner # NoThread /\ pc[critsec.owner] \in {"run", "wait"}

(* "Avoid other threads (if exist) to crash while we are inside"           *)
(* (src/src/CrashHandler.h:66): two threads are never generating a report  *)
(* at the same time.  crExceptionFilter() does not enter the critical      *)
(* section.                                                                *)
InsideAlone ==
  \A t, u \in Thread : pc[t] \in Reporting /\ pc[u] \in Reporting => t = u

(* The handlers implement CrashGuard: the owner of the critical section is *)
(* the writer.                                                             *)
Guard == INSTANCE CrashGuard WITH
  phase <- IF process # "up" THEN "ended"
           ELSE IF critsec.owner = NoThread THEN "up" ELSE "caught",
  writer <- critsec.owner,
  report <- output

GuardSpec == Guard!Spec
GuardEnds == Guard!Ends
=============================================================================
