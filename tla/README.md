# calmdump in TLA+

calmdump is a crash reporter for Windows C++ services. `crInstall()` installs handlers for structured
exceptions, C++ and C run-time errors and signals. When one of them is called it writes a minidump and a text
report of the crash and terminates the process. This directory models what the handlers do when crashes meet
each other, what an installation leaves behind, what becomes of a report when the system fails it, and what
its text says of variables and of the system. It holds TLA+ modules, configurations that TLC checks, and
theorems that TLAPS checks.

Paths such as `CrashHandler.cpp` are below `src/src/`.

## The system

| Component | State it keeps | Operations | What makes it correct |
|---|---|---|---|
| Crash handlers (`CrashHandler.cpp` 28-461, `CrashHandler.h`) | one critical section and `bContinueExecution` for the process | 13 handlers, the helper thread of a stack overflow | handlers exclude each other; one report, whole and in order; the process ends |
| Report generation (`CrashHandler.cpp` 500-528) | the static counter `excpt_chance` | `GenerateErrorReport()` | a crash inside a report does not report again; the caller's exception pointers are used |
| Minidump (`CrashHandler.cpp` 466-497) | a file named by the second | `CreateMiniDump()` | nobody writes into the dump that another has open; a missing dump is told |
| Text report (`Report.cpp` 31-264) | the day's log file; the symbol handler of dbghelp.dll | `CreateReport()`, `PrintExceptInfo()`, `WalkStack()` | the symbol handler serves one report at a time; a missing part is told |
| Symbol dump (`Report.cpp` 84-141, 200-513, `Report.h`) | the text of one symbol; the guard page of the stack | `FormatSymbolValue()`, `DumpTypeIndex()`, `GetBasicType()`, `FormatOutputValue()` | the recursion ends; an overflow of the stack is survived once; lines are whole; values are read at the right address and named by the right type |
| System information (`Report.cpp` 515-866) | one uninitialised array of characters that processor and version share | `GetProcessorName()`, `GetWindowsVersion()`, `PrintSystemInfo()` | neither text gets into the other; every version has its own name; nothing else than a missing function or a bad array crashes it |
| Handler installation (`CrashHandler.cpp` 531-650) | handler slots of the C run-time and the system, some for each thread | `SetProcessExceptionHanlders()` | each flag controls its handler |
| Public API (`CrashRpt.cpp`, `CrashRpt.h`) | none | `crInstall()`, `crUninstall()`, `crExceptionFilter()`, `crEmulateCrash()` | what the doc comments say |
| Loader (`DbgHlp.cpp`, `Dbghlp.h`, `DllHandle` in `Utility.h`) | a static object with the library handle and its function pointers | `GetDbghelpDll()`, destructor at exit | a call finds a function behind its pointer, or the log says why not |
| Utilities (`Utility.cpp`, `Utility.h`) | none | logging, formatting, file names, sizes, `GetExceptionPointers()` | text is not cut; a lost line does no harm; logs have the application's name |

How they interact: Windows and the C run-time call the handlers, in the crashing thread, at any point of the
application or of the library itself. A handler enters the critical section and calls `GenerateErrorReport()`,
which calls `CreateMiniDump()` and `CreateReport()`, which call the loader and write through the utilities;
dbghelp.dll calls back for every symbol of a frame. `crExceptionFilter()` is called by the application's own
`__try`/`__except` and goes to `GenerateErrorReport()` directly, without the critical section; when it says so,
the stack is unwound. At process exit the loader's destructor runs under whatever other threads do.

What is hard: crashes of several threads at once; a crash inside a report, on the same thread, below which
nothing ever returns; a reentrant lock and a second thread (the helper) that does part of the first one's
work; filters that run outside the lock and unwind whatever is above them; signals that the run-time resets on
delivery; handlers that exist for each thread; the application exiting under a report; corrupted debug
information, which is likely after a crash; every call to the system failing just then. None of it is tested in
the repository: the only program beside the library, `example/`, makes one crash in one thread.

`PROJECT.json` lists the hazards at their lines, with the properties that would catch them going wrong.

## The modules

| Module | Models |
|---|---|
| `CrashGuard` | abstract: the first thread whose crash is caught is the only writer of the only report, then the process ends |
| `CrashHandler` | the handlers, `GenerateErrorReport()`'s gate and `crExceptionFilter()` at run time, thread by thread; implements `CrashGuard` |
| `HandlerInstall` | `SetProcessExceptionHanlders()`, `crInstall()`, `crUninstall()`, and where each type of `crEmulateCrash()` ends |
| `ReportText` | abstract: what a reader of the text reports may rely on, and the symbol handler that the reports of a process share |
| `ErrorReport` | one or more reports being generated: dump, text, library, symbol handler, the exit of their process, each failing call; implements `ReportText` |
| `SymbolDump` | the call stack of one report: frames, symbols, the recursion over their types, each failing query |
| `TextUtilities` | operators: `StringAppendV()`, `GetAppName()`, `FileSizeToStr()` |
| `SystemInfo` | the last part of one report's text, with the operators of `TextUtilities` |
| `MC...` | the same with model values or small data, for TLC |
| `...Proofs` | the theorems and their proofs |

The three scales fit together as follows. In `CrashHandler` a report is three parts that can crash in between. In
`ErrorReport` it is a sequence of calls that can fail or be seen by another report, its walk of the stack and its
system information one step each. `SymbolDump` and `SystemInfo` are those two steps.

### CrashHandler

State and code: `critsec` and `bContinueExecution` are the members of `CurrentProcessCrashHandler`,
`excpt_chance` is the static of `GenerateErrorReport()` and `seen` a thread's register copy of it, since
`++excpt_chance` is a load and a store and the comparison may read again. `pc[t]` is the place of thread `t`
in the topmost handler on its stack, `kind[t]` the crash that handler was called for, `inFilter` says that it is
`crExceptionFilter()`. `armed` are the signals whose handler the C run-time has not yet reset. `output` is what
the dump and the log file hold, by whom and in which order.

The top of each stack is enough because no handler returns into what it interrupted: it terminates the
process, or it is the filter, which unwinds to the application, or passes the exception on to `SehHandler`,
which is again the top. `nesting` bounds how many crashes are on a stack.

All handlers but the stack overflow branch of `SehHandler` have the same body (lock, clear
`bContinueExecution`, generate, terminate), so they are one set of actions for a thread with a `kind`; which kind
decides how it is delivered: SEH exceptions through the filter of a guarded thread, errors of
`PerThreadHandlers` in the installing thread only, signals while armed. `SpawnHelper`, `SpawnFails` and the
helper's own pass through the common path are the overflow branch and `StackOverflowThreadFunction()`.

`CreateReport()` is divided at `SymInitialize()`; `ErrorReport` has the rest of its detail. A crash inside the
symbol dump is swallowed by the `__except` of `EnumSymbolsProcCallback()` (see `SymbolDump`); the crashes of this
model are those of all other parts of a report.

### HandlerInstall

`Program` is `SetProcessExceptionHanlders()` as data: its statements in order, with the flag that guards each
and the slot it sets. `Compiled` are the `_MSC_VER` conditions, `InstallStep` executes one statement, so that the
threads that install and the application, which sets handlers too (`AppSets`), interleave. `handler` tells for
every slot, or every slot and thread, who set it last. `Raises` is what
`crEmulateCrash()` and its helper functions do for each type of crash; `SlotsOf` is external: the slots that
Windows and the C run-time try for it, in order.

### ErrorReport

Every report runs from `GenerateErrorReport()` on, in a process of its own or together with others, which is
what `crExceptionFilter()` allows. Each action is a stretch of code up to the next call that can fail or be
seen by another report. `dumps` is the directory of dump files by second, shared by all processes of the
application; `symbols` the processes between `SymInitialize()` and `SymCleanup()`; `told` what has been
written to the FATAL log; `lost` marks reports of which a line could not be written.

A report that crashes in turn does so in one of two ways. `LibraryCrashes` is a call into dbghelp.dll that finds no
function there (`"crashed"`). `Faults` is everything else, at any place from the creation of the dump to
`SymCleanup()`: memory runs out in `AddToReport()`, a function of the library faults on what it reads of the crashed
process, `GetWindowsVersion()` calls a null pointer (`"faulted"`). A fault in `SymInitialize()` may leave the symbol
handler taken. A file that the report had open stays open until its process ends.

`dll` is the static object of `GetDbghelpDll()` in each process. The first call constructs it
(`ConstructBegins`, `ConstructEnds`). If the compiler locks the construction of static locals (`magic`; Visual C++
does since 2015) other calls wait for it. If not, they construct it a second time or go on with what is there.
Where the library is `"missing"`, it or any of its functions: a call goes through a null pointer, or it arrives
because another function is the missing one. `Exit` is `main()` returning: the destructor calls
`SymCleanup()` and frees the library while other threads run on. `ProcessEnds` is the end of that exit or a
handler's `TerminateProcess()`; it cuts all other reports off.

`ReportText` has of all this only the parts of each report's text and whether a process's symbol handler is taken.
`ErrorReport` implements it with `symbols` as the handlers taken and the places of a report as four phases.

External assumptions, from the Windows documentation: a second `SymInitialize()` of a process fails until
`SymCleanup()` (`MayInitialize`); a file opened without sharing cannot be opened again until it is closed or its
process ends.

### SymbolDump

`WalkStack()`'s loop over frames, with `DumpSymbolName()`, `DumpSymbolParam()` and the callback for each symbol.
`DumpTypeIndex()` is recursive; its activations are `stack`, so that depth is part of the state, and one round of
its loop is one action (`EnterMember`, `PrintMember`). `buffer` is the text under construction and `line` the
line written, as a sequence of entries: the level of indentation, the index, the name of its type, the format and
the address that the value is read from. What dbghelp.dll answers is external: `children` is chosen at the start
among all that `Children` allows, which includes types that contain themselves, and every query may fail
(`failing`). The results of the queries for offset, type and length are not looked at in the code, so a failure
leaves `Wild` or any format. An exception while a value is read loses the line; a stack overflow does, too,
and it takes the guard page with it (`guard`), which nothing puts back, so the next one ends the process. The walk may
begin without the guard page (`overflown`): `crExceptionFilter()` reports a stack overflow on the thread that had it,
and an earlier report on the same thread may have swallowed one.

`BasicType` and `rgBaseType` are the numbers of `cvconst.h` and the table of `Report.h` that is indexed with them.

### TextUtilities and SystemInfo

`vsnprintf()` is modelled for three C run-times by what it returns and how much of the text it leaves, which is
what `StringAppendV()` tells apart; a text is its length there. Paths are sequences of separators, dots and
other characters. `FileSizeToStr()` is the number it shows in tenths, with its rounding. Two things are assumed:
`GetModuleFileNameA()` succeeds and ends what it cuts, as it does since Windows Vista; and the `float` of a size is
exact, where it is rounded above 16 MB. That rounding keeps the order of sizes, which is all a property says of them.

`SystemInfo` steps through `PrintSystemInfo()`. `sString` is the array that `GetProcessorName()` and
`GetWindowsVersion()` share, as a sequence of pieces; it starts with `"garbage"`, and `room` says whether what is
in it ends early enough for `strcat_s()`. `processor` is the length of the name found in the registry: `strncpy()`
writes no terminator behind one that fills the array, and then `"beyond"`, whatever follows on the stack, is printed
with it. A version 6 whose `kernel32.dll` lacks `GetProductInfo()` crashes the report, as the code calls what
`GetProcAddress()` returns without a look at it. A line may be lost or be written in part only, since nothing looks at
the result of `fwrite()`. The names and editions of Windows are pieces in the order in which the
code appends them; the edition follows an uninitialised `dwType` when `GetProductInfo()` fails, so every edition
is possible then.

## What TLC checks

| Run | Shows |
|---|---|
| `handlers` | no filter in use: `SingleReport`, `NoSilentTermination`, `CrashEnds`, and that the handlers implement `CrashGuard` |
| `filters` | filters around both threads: `HandlersExclusive`, `NeverUnlocked`, `DropNeedsAnother`, which says after what a crash may be dropped without a report, and `CrashResolved`, which names the only way left to hang |
| `install` | flags, threads and application interleaved: `FlagsHonoured`, `InstallerIntercepts`, `OthersProtected` |
| `error_report` | two reports in one or two processes: `SymbolsExclusive`, `LossTold`, `DumpNotShared`, `CrashExplained`, which says what a report has met that crashes at a call into the library, and that the reports implement `ReportText` |
| `symbol_dump` | debug information that may be corrupted, on a stack that may have overflowed before: `LineWhole`, `ValuesRight`, `OverflowsCorrupted`, `DiesOfSecond`, `WalkReturns` |
| `system_info` | texts, paths, sizes, processor names and versions at their boundaries: `TextWhole`, `AppNamed`, `MemoryOrdered`, `NamesSeparate`, `SystemNamed`, `CrashHasReason`, which says what alone `GetWindowsVersion()` crashes of |
| `nested_overflow` | violated: the process ends once a crash is caught. A stack overflow inside a report deadlocks |
| `filter_unlocked` | violated: nobody else is inside while a report is generated |
| `sigterm` | violated: `CR_INST_SIGTERM_HANDLER` installs the SIGTERM handler |
| `uninstall` | violated: `crUninstall()` restores the handlers |
| `given_pointers` | violated: the exception pointers given are those used |
| `embedding` | violated: `MAX_DUMP_DEPTH` limits the levels of embedded fields |

Each passing run checks its module's `TypeOK` as well, but for `filters`, whose module has it in `handlers`. The
violated ones state a comment or doc of the repository that the code does not keep; `PROJECT.json` quotes them
under "findings".

Further observations that the properties had to be worded around:

- `DumpTypeIndex()` passes a nested structure the offset of the one around it (`Report.cpp` 456-479). From the
  second level on, members are read at their offset in the innermost structure but from the variable's address.
  `ValuesRight` therefore speaks of the variable and its direct members.
- Windows XP for Itanium is called a server: nothing in the branch of version 5.2 asks for the product type there.
  `SystemNamed` excepts it. What a system reports of itself may not fit together either (a workstation with a
  server's suite), so `SystemNamed` asks for a system that `Exists` before it tells servers from clients.
- `excpt_chance` is never reset. After `crExceptionFilter()` has reported one crash and its thread has gone on, the
  next crash of the process gets the value 2 and is dropped though it comes alone. `DropNeedsAnother` therefore
  protects only the first crash of the process, and of that only one that no second crash meets at the counter.
- Two dumps in the same second have one name, and a finished one is replaced by the next. `DumpNotShared` speaks of
  files that are open.
- Where `GetDbghelpDll()` found no library, the destructor at process exit calls `SymCleanup()` through a null
  pointer (`Exit` to `"crashing"` in `ErrorReport`).

### Bounds

- `handlers`, `filters`: two application threads and one helper are enough for an owner, a waiter and a helper
  that waits for either. In `handlers` a crash inside a report is dropped by the counter and its handler does not
  crash again, so the bound on nesting is never met; with filters the value 2 may have gone to another thread, and
  the crash inside a report is reported again. `MaxChance` stops new crashes once the counter has passed 2 by one, so that all three
  cases (first, second, later) occur. The kinds chosen have one of each way of delivery: SEH, stack overflow,
  per thread, per process, signal.
- `filters` keeps of `output` only who has written the head of a report (`OutputReduced`): no guard reads it, and of the
  run's properties only `DropNeedsAnother`, which asks just that.
- `install`: two threads, one with all handlers, one with some, and one slot of the application; Visual C++
  2005, where the conditions on the version have their boundary. The theorems cover the other versions.
- `error_report`: two reports, two processes, two seconds: every pair of steps of two reports meets, in the same
  second and in different ones, with the library loaded by either and freed under either. All reports and all
  processes are alike, so TLC uses symmetry; all its properties are safety properties. The view `OutputReduced` of
  `MCErrorReport` keeps what guards and properties still read: of a report that has died, only whether it or its log
  tells of the library; the second in the name of a dump while that file is to be created or is open; the clock while a
  report has still to begin. What the view drops of a report that has ended changes nothing that any property says of
  it: `LossTold` is about reports that returned, whose output is kept whole.
- `symbol_dump`: four indices, two of them with several possibilities for their children: none, values only, a
  structure twice, the index itself, its parent. Two frames with two symbols each, so that a second overflow may
  come in the same frame or in the next. Room for three activations: one more than the deepest type without a
  cycle needs.
- `embedding`: the same types with `MAX_DUMP_DEPTH` 1, so that only a type that contains itself is deeper.
- `system_info`: paths of up to ten characters where the code cuts at `MaxFName` 8, with the dot before, after or
  without the separator; sizes around the units and around a tenth of a KB; lines one shorter than, as long as and
  one longer than the first buffer; processor names about the length that leaves no room for the sentence appended to
  them, and one that fills the array; versions 4.0 to 10.0 with the suites and architectures that the branches of the
  code tell apart.

### Fairness

`CrashEnds`, `CrashResolved` and `GuardEnds` assume weak fairness of each thread's handler steps: Windows
schedules every thread that can run and the calls that a handler makes return. A blocked thread is not
assumed to get the critical section before another one, nothing forces a crash, and nothing forces the
application to exit. `filters` and `nested_overflow` switch off deadlock checking because the process can really
stop there; `CrashResolved` says when. `WalkReturns` assumes weak fairness of `Step` as a whole: the walk is
sequential code of one thread that is scheduled, and the calls of dbghelp.dll return. Which step is taken, and
whether it fails, is left open.

## What is proved

TLAPS proves, for every value of the constants:

| Module | Theorem | States | Argument |
|---|---|---|---|
| `CrashHandlerProofs` | `TypeCorrect` | `Spec => []TypeOK` | inductive together with what the critical section's owner and count say of each other |
| | `Exclusion` | `Spec => []HandlersExclusive` | `EnterHandler` is the only way in, and asks for the owner; the section is never given back because `bContinueExecution` is false in every state |
| | `Unlocked` | `Spec => NeverUnlocked` | the same invariant |
| `CrashGuardProofs` | `OneReport` | without filters, `Spec => []SingleReport` | `NoFilterInv`: only the owner of the critical section has touched the counter, the counter tells how often it has been through the gate, and what has been written tells where the owner is |
| | `ImplementsGuard` | without filters, `Spec => GuardSpec` | each action is `Catch`, `WritePart`, `End` or a stutter under the same invariant |
| `NoSilentTerminationProofs` | `NeverSilent` | without filters, `Spec => []NoSilentTermination` | on top of `NoFilterInv`: the owner comes to a second pass through the gate only by crashing in the first, and a report at its call stack has its head |
| | `DropsNeedAnother` | `Spec => []DropNeedsAnother`, with filters or without | `DropInv`: while nothing is reported and nothing crashes again, a thread that is alone at the counter reads 0, stores 1 and comes to its report; so a thread that gives up is not alone, or not the first |
| `HandlerInstallProofs` | `TypesKept` | `Spec => []TypeOK` | inductive |
| | `FlagsAreHonoured` | `Spec => []FlagsHonoured` | every statement behind `step[t]` whose flag is given has set its slot, unless the application has replaced it |
| | `InstallerProtected`, `OthersAreProtected` | `Spec => []InstallerIntercepts`, `[]OthersProtected` | the invariant of `FlagsHonoured` and `Told`: what has been replaced is the application's, and what came of a crash is what the handlers as they are make of it; then, by cases on the build, a slot that the crash is offered to has a handler of the library |
| `ErrorReportProofs` | `TypesKept`, `SymbolsOfOneReport` | `Spec => []TypeOK`, `[]SymbolsExclusive` | inductive, the second given the first |
| | `CrashesExplained` | `Spec => []CrashExplained` | `Loader`: a half-built wrapper is being constructed by a report, or one has died of that; a missing library has been logged; a freed one belongs to a process that exits |
| | `LossesTold` | `Spec => []LossTold` | `Handed`: what a report must have written and logged by each of its locations |
| | `DumpsNotShared` | `Spec => []DumpNotShared` | `Opens`: a report that has a file open has created it and chooses no other name |
| | `ImplementsText` | `Spec => TextSpec` | each action is one of `ReportText`'s or a stutter, given `SymbolsExclusive` and `Stage`: which parts a report has at each of its locations |
| `SymbolDumpProofs` | `TypesKept` | `Spec => []TypeOK` | `nLevel` stays below its bound inside a frame (`WithinFrame`) |
| | `OverflowIsCorruption` | `Spec => []OverflowsCorrupted` | `Sinking`: with types that can be ranked, the rank of an activation's index sinks with its depth, so there is no activation below rank 0 |
| | `SecondIsFatal` | `Spec => []DiesOfSecond` | `Guarded`: the guard page is in place as long as nothing has overflowed, before the walk or in it, and the walk goes on until the second overflow |
| | `ValuesAreRight` | `Spec => []ValuesRight` | `Faithful`: the text under construction is right already, and every activation carries the variable's address |
| `SymbolLineProofs` | `LinesAreWhole` | `Spec => []LineWhole` | `Whole`: the text under construction shows every entry above the stack's activations with all its members, and those on the stack with the members before the next one |
| `SystemInfoProofs` | `AppendsWhole` | `StringAppendV()` keeps all of a text of any length; a run-time older than Visual C++ 8.0 none of one that is longer than the buffer | cases on the run-time and the boundary |
| | `SizesOrdered` | `FileSizeToStr()` is monotonic | rounding is monotonic, and each unit ends at or below where the next begins |
| | `LinesWhole`, `MemoryIsOrdered` | `Spec => []TextWhole`, `[]MemoryOrdered` | every line comes from `AddToReport`; by the two theorems above |
| | `AppNameIs` | `GetAppName()` gives what stands between the directories of a path and its last extension, for a path of any length that is not cut | the first and last place of a character exist because the numbers are well-founded (`WFMin` of the library) |
| | `AppsAreNamed` | `Spec => []AppNamed` | by `AppNameIs` |
| | `TypesKept` | `Spec => []TypeOK` | `Held`: what the array holds at each place of the code, and what each line was made of |
| | `NamesAreSeparate` | `Spec => []NamesSeparate` | `Held`: a known version is never appended to the array before "Microsoft" has been copied to its start |
| | `SystemsAreNamed` | `Spec => []SystemNamed` | `Held` and `OneName`: of the pieces appended for a version exactly one is the name of a system |
| | `CrashesHaveReasons` | `Spec => []CrashHasReason` | `Ended`: the name of the processor tells whether the array has room |

`HandlersExclusive` is not inductive: nothing in it keeps a handler from leaving. The strengthening is that
`bContinueExecution` is false whenever somebody reads it. `SingleReport` needs more: two nested crashes on
one thread exclude each other only through the counter. `ValuesRight` speaks of a finished line and has to be
carried through its construction, and so does `LineWhole`, which says of a finished line what is on the stack only
while it is built. `DropNeedsAnother` speaks of a thread that has given up and rests on what the counter said before
that: a thread alone at it, with nothing reported yet, is the first. Each proof has one step per action. The only assumptions are the named ones on
the constants of the modules, and for `OneReport`, `ImplementsGuard` and `NeverSilent` that no filter is in use.

Only model-checked: liveness (`CrashEnds`, `CrashResolved`, `WalkReturns`), which is beyond this prover, as it is not
able to reason about fairness with ENABLED. Every safety property of the passing runs has its theorem.

## Not modelled

- The layout of the stack: `szBuffer` has 2048 characters and the array of children 1025 elements, and nothing
  counts what goes in. What happens beyond is not defined by the code.
- The words of a report, and the functions that only look words up: `GetErrorMessage()`, `GetExceptionString()`,
  the modules and addresses of frames. `CreateReport()` passes the text `szOperation` where `"%d"` is printed
  (`Report.cpp` 224); the number printed is not modelled.
- The day in a log file's name, so a report at midnight.
- Which registers `GetExceptionPointers()` fills in, for each machine.
- Basic types that are newer than the table of `Report.h`; the rest of `cvconst.h`, constants nothing uses.
- `crInstallToCurrentThread2()` and `crUninstallFromCurrentThread()`, which have no definition in the source.
- Debug builds: `assert()` is taken as compiled out.
- The example program, which calls `crInstall()` and `crEmulateCrash()` once.

## What is left

`ErrorReport` implements `ReportText`, but its reports run freely, where those of `CrashHandler` are called by
handlers and have three parts. A module that composes both would show which failures of a call meet which
interleaving of handlers, at the price of a state space that is the product of the two.
