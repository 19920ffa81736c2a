--------------------------- MODULE HandlerInstall ---------------------------
(***************************************************************************)
(* Installing the handlers: SetProcessExceptionHanlders() of               *)
(* src/src/CrashHandler.cpp, reached through crInstall(), crUninstall() of *)
(* src/src/CrashRpt.cpp, and which handler crEmulateCrash() then comes to  *)
(* in which thread.                                                        *)
(*                                                                         *)
(* The handlers are slots of the C run-time and of the system.  Some are   *)
(* kept once for the process, some for each thread, and the application    *)
(* may set any of them, too, while the handlers are being installed and    *)
(* later.                                                                  *)
(***************************************************************************)
EXTENDS Integers, Sequences, FiniteSets

CONSTANTS
  Thread,    \* the threads of the application
  MscVer,    \* _MSC_VER of the build
  FlagSets,  \* the values of dwFlags to install with
  AppSlots,  \* the slots the application sets
  Process    \* in the place of a thread: kept once for the process

Flag == {"SEH", "TERMINATE", "UNEXPECTED", "PURE_CALL", "NEW_OPERATOR_ERROR",
         "SECURITY_ERROR", "INVALID_PARAMETER", "SIGABRT", "SIGFPE", "SIGILL",
         "SIGINT", "SIGSEGV", "SIGTERM"}
OtherFlag == {"NO_GUI", "APP_RESTART"}  \* two of those above 0x1FFF, nowhere tested

PerThread == {"Terminate", "Unexpected", "Sigfpe", "Sigill", "Sigsegv"}
PerProcess == {"Seh", "ErrorMode", "PureCall", "NewMode", "New", "InvalidParameter",
               "Security", "AbortBehavior", "Sigabrt", "Sigint", "Sigterm"}
Slot == PerThread \cup PerProcess

(* Where the slot is kept that thread t sees.                              *)
Place(t, s) == <<s, IF s \in PerThread THEN t ELSE Process>>
Places == {Place(t, s) : t \in Thread, s \in Slot}

ASSUME HandlerInstallAssumption ==
  /\ Thread # {}
  /\ Process \notin Thread
  /\ MscVer \in Nat
  /\ FlagSets \subseteq SUBSET (Flag \cup OtherFlag)
  /\ AppSlots \subseteq Slot

VARIABLES
  handler,   \* who has set each place last: "default" (nobody), "app" or "cr"
  flags,     \* dwFlags of each thread's call
  step,      \* the statement of Program each thread is about to execute
  replaced,  \* history: places the application has set over a handler of ours
  before,    \* history: handler as it was when crInstall() was first called
  emulated   \* the call of crEmulateCrash() and what came of it

vars == <<handler, flags, step, replaced, before, emulated>>

-----------------------------------------------------------------------------
(* SetProcessExceptionHanlders().                                          *)

(* Mutant: 0 installs nothing.                                             *)
EffectiveAsGiven(f) == f

(* "If 0 is specified as dwFlags, assume all handlers should be installed":*)
(* also when none of the flags given is a handler's.                       *)
Effective(f) == IF f \cap Flag = {} THEN f \cup Flag ELSE f

(* Its statements in order: the flag that guards each ("" for none) and    *)
(* what it sets.                                                           *)
Program ==
  << [flag |-> "SEH", sets |-> "Seh"],
     [flag |-> "", sets |-> "ErrorMode"],
     [flag |-> "PURE_CALL", sets |-> "PureCall"],
     [flag |-> "NEW_OPERATOR_ERROR", sets |-> "NewMode"],
     [flag |-> "NEW_OPERATOR_ERROR", sets |-> "New"],
     [flag |-> "INVALID_PARAMETER", sets |-> "InvalidParameter"],
     [flag |-> "SECURITY_ERROR", sets |-> "Security"],
     [flag |-> "SIGABRT", sets |-> "AbortBehavior"],
     [flag |-> "SIGABRT", sets |-> "Sigabrt"],
     [flag |-> "SIGINT", sets |-> "Sigint"],
     [flag |-> "TERMINATE", sets |-> "Sigterm"],
     [flag |-> "SIGFPE", sets |-> "Sigfpe"],
     [flag |-> "SIGILL", sets |-> "Sigill"],
     [flag |-> "SIGSEGV", sets |-> "Sigsegv"],
     [flag |-> "TERMINATE", sets |-> "Terminate"],
     [flag |-> "UNEXPECTED", sets |-> "Unexpected"] >>

(* Mutant: "> 1400" in the place of ">= 1400".                             *)
CompiledAfter2005(s) ==
  CASE s \in {"PureCall", "NewMode", "New"}            -> MscVer >= 1300
    [] s \in {"InvalidParameter", "AbortBehavior"}     -> MscVer > 1400
    [] s = "Security"                                  -> MscVer \in 1300..1400
    [] OTHER                                           -> TRUE

(* The statements that the preprocessor leaves in the build.               *)
Compiled(s) ==
  CASE s \in {"PureCall", "NewMode", "New"}            -> MscVer >= 1300
    [] s \in {"InvalidParameter", "AbortBehavior"}     -> MscVer >= 1400
    [] s = "Security"                                  -> MscVer \in 1300..1399
    [] OTHER                                           -> TRUE

(* Mutant: the flags compared with the sum of all, not tested one by one.  *)
RunsForAllFlags(stmt, f) ==
  Compiled(stmt.sets) /\ (stmt.flag = "" \/ Flag \subseteq Effective(f))

Runs(stmt, f) == Compiled(stmt.sets) /\ (stmt.flag = "" \/ stmt.flag \in Effective(f))

(* crEmulateCrash()'s types of crash, "Unknown" for every other number, and *)
(* what may come of it: a report, a call of the application's handler, the *)
(* death of the process without either, or the return to its caller.       *)
Type == {"SEH", "TERMINATE", "UNEXPECTED", "PURE_CALL", "NEW_OPERATOR_ERROR",
         "SECURITY_ERROR", "INVALID_PARAMETER", "SIGABRT", "SIGFPE", "SIGILL",
         "SIGINT", "SIGSEGV", "SIGTERM", "NONCONTINUABLE", "THROW",
         "STACK_OVERFLOW", "Unknown"}
Result == {"reported", "app", "died", "returned"}
NotEmulated == [thread |-> Process, type |-> "Unknown", result |-> "returned"]

NotCalled == 0
Installed == Len(Program) + 1
Uninstalled == Installed + 1

TypeOK ==
  /\ handler \in [Places -> {"default", "app", "cr"}]
  /\ flags \in [Thread -> SUBSET (Flag \cup OtherFlag)]
  /\ step \in [Thread -> NotCalled..Uninstalled]
  /\ replaced \subseteq Places
  /\ before \in [Places -> {"default", "app", "cr"}]
  /\ emulated \in [thread : Thread, type : Type, result : Result] \cup {NotEmulated}

Init ==
  /\ handler = [p \in Places |-> "default"]
  /\ flags = [t \in Thread |-> {}]
  /\ step = [t \in Thread |-> NotCalled]
  /\ replaced = {}
  /\ before = handler
  /\ emulated = NotEmulated

(* crInstall() calls it with 0; the library's own callers may pass flags.  *)
CrInstall(t, f) ==
  /\ emulated = NotEmulated
  /\ step[t] = NotCalled
  /\ flags' = [flags EXCEPT ![t] = f]
  /\ step' = [step EXCEPT ![t] = 1]
  /\ before' = IF \A u \in Thread : step[u] = NotCalled THEN handler ELSE before
  /\ UNCHANGED <<handler, replaced, emulated>>

InstallStep(t) ==
  /\ emulated = NotEmulated
  /\ step[t] \in 1..Len(Program)
  /\ LET stmt == Program[step[t]]
         place == Place(t, stmt.sets)
     IN IF Runs(stmt, flags[t])
          THEN handler' = [handler EXCEPT ![place] = "cr"] /\ replaced' = replaced \ {place}
          ELSE UNCHANGED <<handler, replaced>>
  /\ step' = [step EXCEPT ![t] = @ + 1]
  /\ UNCHANGED <<flags, before, emulated>>

(* Mutant: it also runs a second time.                                     *)
CrUninstallAgain(t) ==
  /\ emulated = NotEmulated
  /\ step[t] >= Installed
  /\ step' = [step EXCEPT ![t] = @ + 1]
  /\ UNCHANGED <<handler, flags, replaced, before, emulated>>

(* crUninstall() returns 0 and does nothing else.                          *)
CrUninstall(t) ==
  /\ emulated = NotEmulated
  /\ step[t] = Installed
  /\ step' = [step EXCEPT ![t] = Uninstalled]
  /\ UNCHANGED <<handler, flags, replaced, before, emulated>>

(* The application sets a handler of its own.                              *)
AppSets(t, s) ==
  /\ emulated = NotEmulated
  /\ s \in AppSlots
  /\ handler' = [handler EXCEPT ![Place(t, s)] = "app"]
  /\ replaced' = IF handler[Place(t, s)] = "cr" THEN replaced \cup {Place(t, s)} ELSE replaced
  /\ UNCHANGED <<flags, step, before, emulated>>

-----------------------------------------------------------------------------
(* crEmulateCrash().                                                       *)

(* What its statements and helper functions do for each type: a pointer    *)
(* and a floating-point division fault, the destructor of a base class     *)
(* calls a function that is no longer overridden, "new" asks for memory    *)
(* until there is none, a text is copied over the end of its buffer, and   *)
(* printf() gets no format.  The rest call terminate(), unexpected(),      *)
(* abort() and raise(), or end in an exception: the one it raises, the one *)
(* it throws, that of the recursion without end.                           *)
Raises(type) ==
  CASE type = "SEH"                                        -> "access violation"
    [] type = "SIGFPE"                                     -> "division by zero"
    [] type = "PURE_CALL"                                  -> "pure call"
    [] type = "NEW_OPERATOR_ERROR"                         -> "out of memory"
    [] type = "SECURITY_ERROR"                             -> "buffer overrun"
    [] type = "INVALID_PARAMETER"                          -> "no format"
    [] type \in {"TERMINATE", "UNEXPECTED", "SIGABRT",
                 "SIGILL", "SIGINT", "SIGSEGV", "SIGTERM"} -> type
    [] OTHER                                               -> "exception"

(* The slots that each is offered to, in order.  Those after the first are *)
(* what the system and the C run-time fall back to while that one has its  *)
(* default: a hardware fault goes to the run-time's signal action and to   *)
(* the top-level filter, terminate() and a pure call end in abort(), a     *)
(* failed new throws.                                                      *)
SlotsOf(event) ==
  CASE event = "access violation" -> <<"Sigsegv", "Seh">>
    [] event = "division by zero" -> <<"Sigfpe", "Seh">>
    [] event = "pure call"        -> <<"PureCall", "Sigabrt">>
    [] event = "out of memory"    -> <<"New", "Seh">>
    [] event = "buffer overrun"   -> <<"Security">>
    [] event = "no format"        -> <<"InvalidParameter">>
    [] event = "TERMINATE"        -> <<"Terminate", "Sigabrt">>
    [] event = "UNEXPECTED"       -> <<"Unexpected", "Terminate", "Sigabrt">>
    [] event = "SIGABRT"          -> <<"Sigabrt">>
    [] event = "SIGILL"           -> <<"Sigill">>
    [] event = "SIGINT"           -> <<"Sigint">>
    [] event = "SIGSEGV"          -> <<"Sigsegv">>
    [] event = "SIGTERM"          -> <<"Sigterm">>
    [] OTHER                      -> <<"Seh">>

Offered(type) == SlotsOf(Raises(type))

(* What comes of a crash of that type in thread t.                         *)
Outcome(t, type) ==
  LET slots == Offered(type)
      set == {i \in 1..Len(slots) : handler[Place(t, slots[i])] # "default"}
      first == CHOOSE i \in set : \A j \in set : i <= j
  IN IF set = {} THEN "died"
     ELSE IF handler[Place(t, slots[first])] = "cr" THEN "reported" ELSE "app"

(* sigfpe_test() returns if the division does not trap; an unknown type    *)
(* does nothing.                                                           *)
Returns(type) == type \in {"SIGFPE", "Unknown"}

CrEmulateCrash(t, type) ==
  /\ emulated = NotEmulated
  /\ \E result \in (IF type = "Unknown" THEN {} ELSE {Outcome(t, type)})
                   \cup (IF Returns(type) THEN {"returned"} ELSE {}) :
       emulated' = [thread |-> t, type |-> type, result |-> result]
  /\ UNCHANGED <<handler, flags, step, replaced, before>>

-----------------------------------------------------------------------------
(* The process has ended, or goes on with no part of the library.          *)
Rest == emulated # NotEmulated /\ UNCHANGED vars

Next ==
  \/ \E t \in Thread :
       \/ \E f \in FlagSets : CrInstall(t, f)
       \/ InstallStep(t)
       \/ CrUninstall(t)
       \/ \E s \in Slot : AppSets(t, s)
       \/ \E type \in Type : CrEmulateCrash(t, type)
  \/ Rest

Spec == Init /\ [][Next]_vars

-----------------------------------------------------------------------------
(* Properties.                                                             *)

(* What CrashRpt.h:73-86 says of each flag: the handler that it installs.  *)
FlagOf(s) ==
  CASE s = "Seh" -> "SEH"
    [] s = "Terminate" -> "TERMINATE"
    [] s = "Unexpected" -> "UNEXPECTED"
    [] s = "PureCall" -> "PURE_CALL"
    [] s = "New" -> "NEW_OPERATOR_ERROR"
    [] s = "Security" -> "SECURITY_ERROR"
    [] s = "InvalidParameter" -> "INVALID_PARAMETER"
    [] s = "Sigabrt" -> "SIGABRT"
    [] s = "Sigfpe" -> "SIGFPE"
    [] s = "Sigill" -> "SIGILL"
    [] s = "Sigint" -> "SIGINT"
    [] s = "Sigsegv" -> "SIGSEGV"
    [] s = "Sigterm" -> "SIGTERM"
Documented == Slot \ {"ErrorMode", "NewMode", "AbortBehavior"}

(* dwFlags asks for all handlers, or for that of slot s.                   *)
AsksAll(f) == f \cap Flag \in {{}, Flag}
Asks(f, s) == AsksAll(f) \/ FlagOf(s) \in f

(* When a call has returned, each handler in S that it was asked for and   *)
(* that the build has is in place, unless the application has replaced it; *)
(* and no handler is in place that no call has asked for.                  *)
HonoursFlags(S) ==
  \A t \in Thread, s \in S :
    /\ step[t] >= Installed /\ Asks(flags[t], s) /\ Compiled(s) =>
         handler[Place(t, s)] = "cr" \/ Place(t, s) \in replaced
    /\ handler[Place(t, s)] = "cr" =>
         \E u \in Thread : /\ s \in PerThread => u = t
                           /\ step[u] > NotCalled
                           /\ Asks(flags[u], s)

(* Each flag controls its own handler, whatever other threads install and  *)
(* the application sets meanwhile: all of them but SIGTERM's.              *)
FlagsHonoured == HonoursFlags(Documented \ {"Sigterm"})

(* The same of CR_INST_SIGTERM_HANDLER, "Install SIGTERM signal handler"   *)
(* (src/src/CrashRpt.h:86): the code tests CR_INST_TERMINATE_HANDLER.      *)
SigtermFlagHonoured == HonoursFlags({"Sigterm"})

NoAppHandlers == \A p \in Places : handler[p] # "app"

(* The types that the build has no handler for.                            *)
Unsupported ==
  (IF MscVer \in 1300..1399 THEN {} ELSE {"SECURITY_ERROR"})
  \cup (IF MscVer >= 1400 THEN {} ELSE {"INVALID_PARAMETER"})

Emulating(t) == emulated.thread = t /\ emulated.type \notin Unsupported

(* "CrashRpt will intercept an error or exception if crInstall() [was]     *)
(* previously called" (src/src/CrashRpt.h:381): in the thread that called  *)
(* crInstall() every type of crash is reported.                            *)
InstallerIntercepts ==
  \A t \in Thread :
    Emulating(t) /\ step[t] = Installed /\ AsksAll(flags[t]) /\ NoAppHandlers
      => emulated.result \in {"reported", "returned"}

(* A thread that has not called crInstall() is protected by the call of    *)
(* another for every type of crash but two, raise(SIGILL) and              *)
(* raise(SIGSEGV): the rest end in a handler of the process even when the  *)
(* handler they aim at is missing in the thread.                           *)
OthersProtected ==
  \A t, u \in Thread :
    (/\ Emulating(t) /\ step[t] = NotCalled
     /\ step[u] = Installed /\ AsksAll(flags[u]) /\ NoAppHandlers)
      => (emulated.result = "died" <=> emulated.type \in {"SIGILL", "SIGSEGV"})

(* "After function call, the exception handlers are restored to states     *)
(* they had before calling crInstall()" (src/src/CrashRpt.h:139-140).      *)
UninstallRestores ==
  \A t \in Thread : step[t] = Uninstalled /\ (\A u \in Thread \ {t} : step[u] = NotCalled)
    => handler = before
=============================================================================
