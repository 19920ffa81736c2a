--------------------------- MODULE MCCrashHandler ---------------------------
(* CrashHandler with the threads as model values, for TLC.                 *)
EXTENDS CrashHandler, TLC
CONSTANTS a1, a2, h1

(* Of output, which no guard reads, one property asks who has written the  *)
(* head of a report, and no other property of that run anything.           *)
OutputReduced == <<process, pc, kind, inFilter, nesting, critsec,
                   bContinueExecution, excpt_chance, seen, armed, Reported>>
=============================================================================
