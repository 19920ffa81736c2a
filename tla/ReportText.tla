----------------------------- MODULE ReportText -----------------------------
(***************************************************************************)
(* What a reader of the text reports may rely on, with no word on dumps,   *)
(* on the library being loaded or on the calls that fail: a report has its *)
(* exception first, then its call stack, then the system.  Only a report   *)
(* that has got its process's symbol handler goes on to its call stack,    *)
(* and one that dies with the handler leaves the later reports of the      *)
(* running process with their first part.  A report that comes back has    *)
(* all its parts or that first one.                                        *)
(***************************************************************************)
CONSTANTS Report, Process

VARIABLES
  processOf, \* the process of each report
  phase,     \* each report: "idle", "writing", "returned" or "dead"
  text,      \* the parts it has
  taken,     \* the processes whose symbol handler is taken
  up         \* the processes that have not begun to exit

vars == <<processOf, phase, text, taken, up>>

(* A report with some parts, in the order in which they come.              *)
Blank == {}
Opened == {"exception"}
Walking == {"exception", "callstack"}
Whole == {"exception", "callstack", "system"}

Init ==
  /\ processOf \in [Report -> Process]
  /\ phase = [r \in Report |-> "idle"]
  /\ text = [r \in Report |-> Blank]
  /\ taken = {}
  /\ up = Process

Begin(r) ==
  /\ phase[r] = "idle"
  /\ phase' = [phase EXCEPT ![r] = "writing"]
  /\ UNCHANGED <<processOf, text, taken, up>>

WriteException(r) ==
  /\ phase[r] = "writing" /\ text[r] = Blank
  /\ text' = [text EXCEPT ![r] = Opened]
  /\ UNCHANGED <<processOf, phase, taken, up>>

(* The handler is free.                                                    *)
WriteCallStack(r) ==
  /\ phase[r] = "writing" /\ text[r] = Opened
  /\ processOf[r] \notin taken
  /\ taken' = taken \cup {processOf[r]}
  /\ text' = [text EXCEPT ![r] = Walking]
  /\ UNCHANGED <<processOf, phase, up>>

(* Nobody has taken the handler from it, unless the process exits.         *)
WriteSystem(r) ==
  /\ phase[r] = "writing" /\ text[r] = Walking
  /\ processOf[r] \in up => processOf[r] \in taken
  /\ text' = [text EXCEPT ![r] = Whole]
  /\ UNCHANGED <<processOf, phase, taken, up>>

(* The handler is given back by its report only, and not always.           *)
Return(r) ==
  /\ phase[r] = "writing"
  /\ \/ text[r] = Opened /\ UNCHANGED taken
     \/ text[r] = Whole /\ taken' \in {taken, taken \ {processOf[r]}}
  /\ phase' = [phase EXCEPT ![r] = "returned"]
  /\ UNCHANGED <<processOf, text, up>>

(* It may have got the handler before it could say so.                     *)
Die(r) ==
  /\ phase[r] = "writing"
  /\ phase' = [phase EXCEPT ![r] = "dead"]
  /\ \/ UNCHANGED taken
     \/ text[r] = Opened /\ taken' = taken \cup {processOf[r]}
  /\ UNCHANGED <<processOf, text, up>>

Exit(p) ==
  /\ p \in up
  /\ up' = up \ {p}
  /\ taken' \in {taken, taken \ {p}}
  /\ UNCHANGED <<processOf, phase, text>>

(* A process is gone after its exit, or once one of its reports is over.   *)
End(p) ==
  /\ p \in up => \E r \in Report : processOf[r] = p /\ phase[r] \in {"returned", "dead"}
  /\ up' = up \ {p}
  /\ taken' = taken \ {p}
  /\ phase' = [r \in Report |-> IF processOf[r] = p /\ phase[r] # "returned"
                                  THEN "dead" ELSE phase[r]]
  /\ UNCHANGED <<processOf, text>>

Next ==
  \/ \E r \in Report : \/ Begin(r)
                        \/ WriteException(r) \/ WriteCallStack(r) \/ WriteSystem(r)
                        \/ Return(r) \/ Die(r)
  \/ \E p \in Process : Exit(p) \/ End(p)

Spec == Init /\ [][Next]_vars
=============================================================================
