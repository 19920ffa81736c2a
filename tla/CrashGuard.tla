----------------------------- MODULE CrashGuard -----------------------------
(***************************************************************************)
(* What the crash handlers promise to the process they are installed in,   *)
(* with no word on threads blocking, on nested crashes or on the counter:  *)
(* the first thread whose crash is caught becomes the only writer of the   *)
(* only report, the parts of that report are written in order, none of     *)
(* them twice, and once a crash has been caught the process ends.  The     *)
(* process may end at any time for reasons of its own.                     *)
(***************************************************************************)
EXTENDS Naturals, Sequences

CONSTANTS Thread, NoThread

VARIABLES
  phase,   \* "up", "caught" from the first caught crash on, "ended"
  writer,  \* the thread that caught it
  report   \* the parts written so far

vars == <<phase, writer, report>>

Part == {"dump", "head", "tail"}

(* The parts that cannot be written any more once what has been.           *)
Bars(what) == CASE what = "dump" -> {"dump"}
                [] what = "head" -> {"dump", "head"}
                [] what = "tail" -> Part

Init ==
  /\ phase = "up"
  /\ writer = NoThread
  /\ report = <<>>

Catch(t) ==
  /\ phase = "up"
  /\ phase' = "caught"
  /\ writer' = t
  /\ UNCHANGED report

WritePart(what) ==
  /\ phase = "caught"
  /\ \A i \in 1..Len(report) : what \notin Bars(report[i].what)
  /\ report' = Append(report, [by |-> writer, what |-> what])
  /\ UNCHANGED <<phase, writer>>

End ==
  /\ phase # "ended"
  /\ phase' = "ended"
  /\ UNCHANGED <<writer, report>>

Next ==
  \/ \E t \in Thread : Catch(t)
  \/ \E what \in Part : WritePart(what)
  \/ End

Spec == Init /\ [][Next]_vars

(* A caught crash is the end of the process.                               *)
Ends == (phase = "caught") ~> (phase = "ended")
=============================================================================
