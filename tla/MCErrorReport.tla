--------------------------- MODULE MCErrorReport ---------------------------
(* ErrorReport with the reports and the processes as model values, for TLC.*)
EXTENDS ErrorReport, TLC
CONSTANTS r1, r2, p1, p2

(* Reports are all alike, and so are processes.                            *)
Symmetry == Permutations({r1, r2}) \cup Permutations({p1, p2})

(* What guards and properties still read: of a report that has died only   *)
(* whether it has told of the library, of a name only while the file of a  *)
(* dump is to be created or is open, of a dump whether there is one, of a  *)
(* file whether it holds the dump that is being written to it, and of the  *)
(* clock nothing once all reports have begun.                              *)
TextOf(r) ==
  IF pc[r] \in {"crashed", "faulted", "cut"} THEN "dll" \in told[r] \/ r \in lost
  ELSE <<text[r], told[r], r \in lost, dump[r] = "none">>

DumpOf(r) ==
  IF r \in open THEN <<name[r], dumps[name[r]] = r>>
  ELSE IF pc[r] = "create" THEN <<name[r]>> ELSE <<>>

OutputReduced ==
  <<[r \in Report |-> <<TextOf(r), DumpOf(r)>>],
    IF \E r \in Report : pc[r] = "idle" THEN now ELSE 0,
    pc, processOf, open, magic, library, symbols, process>>
=============================================================================
