------------------------ MODULE HandlerInstallProofs ------------------------
(***************************************************************************)
(* The types, FlagsHonoured and who is protected by whose crInstall(), for *)
(* any number of threads that install with any flags, in any build, while  *)
(* the application sets handlers of its own.                               *)
(***************************************************************************)
EXTENDS HandlerInstall, TLAPS

(* What the proof needs of the types.                                      *)
TypeInv ==
  /\ handler \in [Places -> {"default", "app", "cr"}]
  /\ flags \in [Thread -> SUBSET (Flag \cup OtherFlag)]
  /\ step \in [Thread -> Int]
  /\ replaced \subseteq Places

(* A statement that thread t has executed and that its flags ask for.      *)
Done(t, i) == i < step[t] /\ Runs(Program[i], flags[t])

(* The statements executed so far have had their effect, unless the        *)
(* application has set the place since: induction goes over the statements *)
(* and not over the calls, for those of two threads interleave.            *)
Effected ==
  \A t \in Thread : \A i \in 1..Len(Program) : Done(t, i) =>
    LET place == Place(t, Program[i].sets) IN handler[place] = "cr" \/ place \in replaced

(* Every handler of ours goes back to a statement that set it.             *)
Asked ==
  \A t \in Thread, s \in Slot : handler[Place(t, s)] = "cr" =>
    \E u \in Thread : \E i \in 1..Len(Program) :
      Done(u, i) /\ Program[i].sets = s /\ Place(u, s) = Place(t, s)

IInv == TypeInv /\ Effected /\ Asked

-----------------------------------------------------------------------------
(* The statements of SetProcessExceptionHanlders(), written out.           *)
LEMMA ProgramStatements ==
  /\ Len(Program) = 16
  /\ Program[1].sets = "Seh" /\ Program[1].flag = "SEH"
  /\ Program[2].sets = "ErrorMode" /\ Program[2].flag = ""
  /\ Program[3].sets = "PureCall" /\ Program[3].flag = "PURE_CALL"
  /\ Program[4].sets = "NewMode" /\ Program[4].flag = "NEW_OPERATOR_ERROR"
  /\ Program[5].sets = "New" /\ Program[5].flag = "NEW_OPERATOR_ERROR"
  /\ Program[6].sets = "InvalidParameter" /\ Program[6].flag = "INVALID_PARAMETER"
  /\ Program[7].sets = "Security" /\ Program[7].flag = "SECURITY_ERROR"
  /\ Program[8].sets = "AbortBehavior" /\ Program[8].flag = "SIGABRT"
  /\ Program[9].sets = "Sigabrt" /\ Program[9].flag = "SIGABRT"
  /\ Program[10].sets = "Sigint" /\ Program[10].flag = "SIGINT"
  /\ Program[11].sets = "Sigterm" /\ Program[11].flag = "TERMINATE"
  /\ Program[12].sets = "Sigfpe" /\ Program[12].flag = "SIGFPE"
  /\ Program[13].sets = "Sigill" /\ Program[13].flag = "SIGILL"
  /\ Program[14].sets = "Sigsegv" /\ Program[14].flag = "SIGSEGV"
  /\ Program[15].sets = "Terminate" /\ Program[15].flag = "TERMINATE"
  /\ Program[16].sets = "Unexpected" /\ Program[16].flag = "UNEXPECTED"
  BY DEF Program

(* The table of documented flags, entry by entry.                          *)
LEMMA SlotFlags ==
  /\ FlagOf("Seh") = "SEH"
  /\ FlagOf("Terminate") = "TERMINATE"
  /\ FlagOf("Unexpected") = "UNEXPECTED"
  /\ FlagOf("PureCall") = "PURE_CALL"
  /\ FlagOf("New") = "NEW_OPERATOR_ERROR"
  /\ FlagOf("Security") = "SECURITY_ERROR"
  /\ FlagOf("InvalidParameter") = "INVALID_PARAMETER"
  /\ FlagOf("Sigabrt") = "SIGABRT"
  /\ FlagOf("Sigfpe") = "SIGFPE"
  /\ FlagOf("Sigill") = "SIGILL"
  /\ FlagOf("Sigint") = "SIGINT"
  /\ FlagOf("Sigsegv") = "SIGSEGV"
  /\ "ErrorMode" \notin Documented /\ "NewMode" \notin Documented
  /\ "AbortBehavior" \notin Documented
  BY DEF FlagOf, Documented

(* Every statement sets a slot and, SIGTERM's apart, tests the flag that is *)
(* documented for it.                                                      *)
LEMMA StatementCases ==
  ASSUME NEW i \in 1..16
  PROVE  /\ Program[i].sets \in Slot
         /\ Program[i].sets \in Documented \ {"Sigterm"} =>
              Program[i].flag = FlagOf(Program[i].sets)
<1>1. CASE i = 1
  BY <1>1, ProgramStatements, SlotFlags, ZenonT(60) DEF Slot, PerThread, PerProcess
<1>2. CASE i = 2
  BY <1>2, ProgramStatements, SlotFlags, ZenonT(60) DEF Slot, PerThread, PerProcess
<1>3. CASE i = 3
  BY <1>3, ProgramStatements, SlotFlags, ZenonT(60) DEF Slot, PerThread, PerProcess
<1>4. CASE i = 4
  BY <1>4, ProgramStatements, SlotFlags, ZenonT(60) DEF Slot, PerThread, PerProcess
<1>5. CASE i = 5
  BY <1>5, ProgramStatements, SlotFlags, ZenonT(60) DEF Slot, PerThread, PerProcess
<1>6. CASE i = 6
  BY <1>6, ProgramStatements, SlotFlags, ZenonT(60) DEF Slot, PerThread, PerProcess
<1>7. CASE i = 7
  BY <1>7, ProgramStatements, SlotFlags, ZenonT(60) DEF Slot, PerThread, PerProcess
<1>8. CASE i = 8
  BY <1>8, ProgramStatements, SlotFlags, ZenonT(60) DEF Slot, PerThread, PerProcess
<1>9. CASE i = 9
  BY <1>9, ProgramStatements, SlotFlags, ZenonT(60) DEF Slot, PerThread, PerProcess
<1>10. CASE i = 10
  BY <1>10, ProgramStatements, SlotFlags, ZenonT(60) DEF Slot, PerThread, PerProcess
<1>11. CASE i = 11
  BY <1>11, ProgramStatements, SlotFlags, ZenonT(60) DEF Slot, PerThread, PerProcess
<1>12. CASE i = 12
  BY <1>12, ProgramStatements, SlotFlags, ZenonT(60) DEF Slot, PerThread, PerProcess
<1>13. CASE i = 13
  BY <1>13, ProgramStatements, SlotFlags, ZenonT(60) DEF Slot, PerThread, PerProcess
<1>14. CASE i = 14
  BY <1>14, ProgramStatements, SlotFlags, ZenonT(60) DEF Slot, PerThread, PerProcess
<1>15. CASE i = 15
  BY <1>15, ProgramStatements, SlotFlags, ZenonT(60) DEF Slot, PerThread, PerProcess
<1>16. CASE i = 16
  BY <1>16, ProgramStatements, SlotFlags, ZenonT(60) DEF Slot, PerThread, PerProcess
<1>. QED
  BY <1>1, <1>2, <1>3, <1>4, <1>5, <1>6, <1>7, <1>8,
     <1>9, <1>10, <1>11, <1>12, <1>13, <1>14, <1>15, <1>16

(* Every statement sets a slot.                                            *)
LEMMA ProgramSets ==
  /\ Len(Program) = 16
  /\ \A i \in 1..16 : Program[i].sets \in Slot
  BY ProgramStatements, StatementCases

(* Every slot of a thread has its place.                                   *)
LEMMA PlaceType ==
  ASSUME NEW t \in Thread, NEW s \in Slot
  PROVE  Place(t, s) \in Places
  BY DEF Places

(* No flag has been given at first.                                        *)
LEMMA IInvInit == Init => IInv
<1>. SUFFICES ASSUME Init PROVE IInv
  OBVIOUS
<1>1. TypeInv
  BY DEF Init, TypeInv, NotCalled
<1>2. \A t \in Thread, i \in 1..Len(Program) : ~Done(t, i)
  BY DEF Init, Done, NotCalled
<1>3. \A t \in Thread, s \in Slot : handler[Place(t, s)] # "cr"
  BY PlaceType DEF Init
<1>. QED BY <1>1, <1>2, <1>3 DEF IInv, Effected, Asked

(* A statement that runs was asked for, and sets its slot.                 *)
LEMMA InstallStepIInv ==
  ASSUME IInv, NEW t \in Thread, InstallStep(t)
  PROVE  IInv'
<1>. DEFINE n == step[t]
            s == Program[n].sets
            place == Place(t, s)
<1>1. /\ n \in 1..Len(Program) /\ flags' = flags
      /\ step' = [step EXCEPT ![t] = n + 1]
      /\ IF Runs(Program[n], flags[t])
           THEN handler' = [handler EXCEPT ![place] = "cr"] /\ replaced' = replaced \ {place}
           ELSE UNCHANGED <<handler, replaced>>
  BY DEF InstallStep
<1>2. s \in Slot /\ place \in Places
  BY <1>1, ProgramSets, PlaceType
<1>3. TypeInv'
  BY <1>1, <1>2, SMTT(60) DEF IInv, TypeInv
<1>4. \A u \in Thread, i \in 1..Len(Program) :
        Done(u, i)' <=> Done(u, i) \/ (u = t /\ i = n /\ Runs(Program[n], flags[t]))
  <2>1. \A u \in Thread : step'[u] = IF u = t THEN n + 1 ELSE step[u]
    BY <1>1 DEF IInv, TypeInv
  <2>2. n \in Int /\ Len(Program) = 16
    BY ProgramSets DEF IInv, TypeInv
  <2>3. \A u \in Thread, i \in 1..Len(Program) :
          (i < step'[u]) <=> (i < step[u] \/ (u = t /\ i = n))
    BY <2>1, <2>2
  <2>4. \A u \in Thread, i \in 1..Len(Program) :
          Runs(Program[i], flags[u])' <=> Runs(Program[i], flags[u])
    BY <1>1
  <2>. QED BY <1>1, <2>3, <2>4 DEF Done
<1>5. Effected'
  <2>. SUFFICES ASSUME NEW u \in Thread, NEW i \in 1..Len(Program), Done(u, i)'
                PROVE  \/ handler'[Place(u, Program[i].sets)] = "cr"
                       \/ Place(u, Program[i].sets) \in replaced'
    BY DEF Effected
  <2>1. Place(u, Program[i].sets) \in Places
    BY ProgramSets, PlaceType
  <2>2. CASE Done(u, i)
    <3>1. \/ handler[Place(u, Program[i].sets)] = "cr"
          \/ Place(u, Program[i].sets) \in replaced
      BY <2>2 DEF IInv, Effected
    <3>. QED BY <1>1, <1>2, <2>1, <3>1 DEF IInv, TypeInv
  <2>3. CASE u = t /\ i = n /\ Runs(Program[n], flags[t])
    BY <1>1, <1>2, <2>3 DEF IInv, TypeInv
  <2>. QED BY <1>4, <2>2, <2>3
<1>6. Asked'
  <2>. SUFFICES ASSUME NEW u \in Thread, NEW r \in Slot, handler'[Place(u, r)] = "cr"
                PROVE  \E v \in Thread : \E i \in 1..Len(Program) :
                         Done(v, i)' /\ Program[i].sets = r /\ Place(v, r) = Place(u, r)
    BY DEF Asked
  <2>1. CASE handler[Place(u, r)] = "cr"
    BY <1>4, <2>1 DEF IInv, Asked
  <2>2. CASE handler[Place(u, r)] # "cr"
    <3>1. Runs(Program[n], flags[t]) /\ Place(u, r) = place
      BY <1>1, <1>2, <2>2, PlaceType DEF IInv, TypeInv
    <3>2. r = s
      BY <3>1 DEF Place
    <3>. QED BY <1>1, <1>4, <3>1, <3>2
  <2>. QED BY <2>1, <2>2
<1>. QED BY <1>3, <1>5, <1>6 DEF IInv

(* What the application sets over a handler of ours is recorded.           *)
LEMMA AppSetsIInv ==
  ASSUME IInv, NEW t \in Thread, NEW s \in Slot, AppSets(t, s)
  PROVE  IInv'
<1>. DEFINE place == Place(t, s)
<1>1. /\ handler' = [handler EXCEPT ![place] = "app"]
      /\ replaced' = IF handler[place] = "cr" THEN replaced \cup {place} ELSE replaced
      /\ UNCHANGED <<flags, step>>
      /\ place \in Places
  BY PlaceType DEF AppSets
<1>2. TypeInv'
  BY <1>1 DEF IInv, TypeInv
<1>3. \A u \in Thread, i \in 1..Len(Program) : Done(u, i)' <=> Done(u, i)
  BY <1>1 DEF Done
<1>4. Effected'
  <2>. SUFFICES ASSUME NEW u \in Thread, NEW i \in 1..Len(Program), Done(u, i)
                PROVE  \/ handler'[Place(u, Program[i].sets)] = "cr"
                       \/ Place(u, Program[i].sets) \in replaced'
    BY <1>3 DEF Effected
  <2>1. Place(u, Program[i].sets) \in Places
    BY ProgramSets, PlaceType
  <2>2. \/ handler[Place(u, Program[i].sets)] = "cr"
        \/ Place(u, Program[i].sets) \in replaced
    BY DEF IInv, Effected
  <2>. QED BY <1>1, <2>1, <2>2 DEF IInv, TypeInv
<1>5. \A p \in Places : handler'[p] = "cr" => handler[p] = "cr"
  BY <1>1 DEF IInv, TypeInv
<1>6. Asked'
  BY <1>3, <1>5, PlaceType DEF IInv, Asked
<1>. QED BY <1>2, <1>4, <1>6 DEF IInv

(* The call of crInstall() that gives a thread its flags comes before any  *)
(* statement of it.                                                        *)
LEMMA CrInstallIInv ==
  ASSUME IInv, NEW t \in Thread, NEW f \in FlagSets, CrInstall(t, f)
  PROVE  IInv'
<1>1. /\ step[t] = 0 /\ step' = [step EXCEPT ![t] = 1]
      /\ flags' = [flags EXCEPT ![t] = f]
      /\ UNCHANGED <<handler, replaced>>
  BY DEF CrInstall, NotCalled
<1>2. f \in SUBSET (Flag \cup OtherFlag)
  BY HandlerInstallAssumption
<1>3. TypeInv'
  BY <1>1, <1>2 DEF IInv, TypeInv
<1>4. \A u \in Thread, i \in 1..Len(Program) : Done(u, i)' <=> Done(u, i)
  <2>1. \A i \in 1..Len(Program) : ~Done(t, i) /\ ~Done(t, i)'
    BY <1>1, ProgramSets DEF Done, IInv, TypeInv
  <2>2. \A u \in Thread \ {t} : step'[u] = step[u] /\ flags'[u] = flags[u]
    BY <1>1 DEF IInv, TypeInv
  <2>. QED BY <2>1, <2>2 DEF Done
<1>5. Effected' /\ Asked'
  BY <1>1, <1>4 DEF IInv, Effected, Asked
<1>. QED BY <1>3, <1>5 DEF IInv

(* No step breaks the promise of the flags.                                *)
LEMMA IInvStep ==
  ASSUME IInv, [Next]_vars
  PROVE  IInv'
<1>1. ASSUME NEW t \in Thread, CrUninstall(t)
      PROVE  IInv'
  <2>1. /\ step[t] = 17 /\ step' = [step EXCEPT ![t] = 18]
        /\ UNCHANGED <<handler, flags, replaced>>
    BY <1>1, ProgramSets DEF CrUninstall, Installed, Uninstalled
  <2>2. TypeInv'
    BY <2>1 DEF IInv, TypeInv
  <2>3. \A u \in Thread, i \in 1..Len(Program) : Done(u, i)' <=> Done(u, i)
    BY <2>1, ProgramSets DEF Done, IInv, TypeInv
  <2>. QED BY <2>1, <2>2, <2>3 DEF IInv, Effected, Asked
<1>2. ASSUME UNCHANGED <<handler, flags, step, replaced>>
      PROVE  IInv'
  BY <1>2 DEF IInv, TypeInv, Effected, Asked, Done
<1>3. ASSUME NEW t \in Thread, NEW type \in Type, CrEmulateCrash(t, type)
      PROVE  UNCHANGED <<handler, flags, step, replaced>>
  BY <1>3 DEF CrEmulateCrash
<1>4. Rest \/ UNCHANGED vars => UNCHANGED <<handler, flags, step, replaced>>
  BY DEF Rest, vars
<1>. QED
  BY <1>1, <1>2, <1>3, <1>4, CrInstallIInv, InstallStepIInv, AppSetsIInv DEF Next

-----------------------------------------------------------------------------
(* From the statements to the flags: the documented flag of a slot is the  *)
(* one its statement tests.                                                *)

(* Every documented handler but SIGTERM's has a statement under its own    *)
(* flag,                                                                   *)
LEMMA SlotStatement ==
  ASSUME NEW s \in Documented \ {"Sigterm"}
  PROVE  \E i \in 1..Len(Program) : Program[i].sets = s /\ Program[i].flag = FlagOf(s)
<1>1. \/ s = "Seh" \/ s = "PureCall" \/ s = "New" \/ s = "InvalidParameter"
      \/ s = "Security" \/ s = "Sigabrt" \/ s = "Sigint" \/ s = "Sigfpe"
      \/ s = "Sigill" \/ s = "Sigsegv" \/ s = "Terminate" \/ s = "Unexpected"
  BY DEF Documented, Slot, PerThread, PerProcess
<1>2. \A i \in 1..16 : i \in 1..Len(Program)
  BY ProgramSets
<1>3. CASE s = "Seh"
  <2>1. Program[1].sets = s /\ Program[1].flag = FlagOf(s)
    BY <1>3, ProgramStatements, SlotFlags
  <2>. QED BY <1>2, <2>1
<1>4. CASE s = "PureCall"
  <2>1. Program[3].sets = s /\ Program[3].flag = FlagOf(s)
    BY <1>4, ProgramStatements, SlotFlags
  <2>. QED BY <1>2, <2>1
<1>5. CASE s = "New"
  <2>1. Program[5].sets = s /\ Program[5].flag = FlagOf(s)
    BY <1>5, ProgramStatements, SlotFlags
  <2>. QED BY <1>2, <2>1
<1>6. CASE s = "InvalidParameter"
  <2>1. Program[6].sets = s /\ Program[6].flag = FlagOf(s)
    BY <1>6, ProgramStatements, SlotFlags
  <2>. QED BY <1>2, <2>1
<1>7. CASE s = "Security"
  <2>1. Program[7].sets = s /\ Program[7].flag = FlagOf(s)
    BY <1>7, ProgramStatements, SlotFlags
  <2>. QED BY <1>2, <2>1
<1>8. CASE s = "Sigabrt"
  <2>1. Program[9].sets = s /\ Program[9].flag = FlagOf(s)
    BY <1>8, ProgramStatements, SlotFlags
  <2>. QED BY <1>2, <2>1
<1>9. CASE s = "Sigint"
  <2>1. Program[10].sets = s /\ Program[10].flag = FlagOf(s)
    BY <1>9, ProgramStatements, SlotFlags
  <2>. QED BY <1>2, <2>1
<1>10. CASE s = "Sigfpe"
  <2>1. Program[12].sets = s /\ Program[12].flag = FlagOf(s)
    BY <1>10, ProgramStatements, SlotFlags
  <2>. QED BY <1>2, <2>1
<1>11. CASE s = "Sigill"
  <2>1. Program[13].sets = s /\ Program[13].flag = FlagOf(s)
    BY <1>11, ProgramStatements, SlotFlags
  <2>. QED BY <1>2, <2>1
<1>12. CASE s = "Sigsegv"
  <2>1. Program[14].sets = s /\ Program[14].flag = FlagOf(s)
    BY <1>12, ProgramStatements, SlotFlags
  <2>. QED BY <1>2, <2>1
<1>13. CASE s = "Terminate"
  <2>1. Program[15].sets = s /\ Program[15].flag = FlagOf(s)
    BY <1>13, ProgramStatements, SlotFlags
  <2>. QED BY <1>2, <2>1
<1>14. CASE s = "Unexpected"
  <2>1. Program[16].sets = s /\ Program[16].flag = FlagOf(s)
    BY <1>14, ProgramStatements, SlotFlags
  <2>. QED BY <1>2, <2>1
<1>. QED
  BY <1>1, <1>3, <1>4, <1>5, <1>6, <1>7, <1>8,
     <1>9, <1>10, <1>11, <1>12, <1>13, <1>14

(* and no statement under another's.                                       *)
LEMMA StatementFlag ==
  ASSUME NEW i \in 1..Len(Program), Program[i].sets \in Documented \ {"Sigterm"}
  PROVE  Program[i].flag = FlagOf(Program[i].sets)
  BY ProgramSets, StatementCases

(* The flag of a documented handler is one of the flags.                   *)
LEMMA FlagOfType ==
  ASSUME NEW s \in Documented
  PROVE  FlagOf(s) \in Flag
<1>1. \/ s = "Seh" \/ s = "PureCall" \/ s = "New" \/ s = "InvalidParameter"
      \/ s = "Security" \/ s = "Sigabrt" \/ s = "Sigint" \/ s = "Sigfpe"
      \/ s = "Sigill" \/ s = "Sigsegv" \/ s = "Terminate" \/ s = "Unexpected"
      \/ s = "Sigterm"
  BY DEF Documented, Slot, PerThread, PerProcess
<1>. QED BY <1>1 DEF FlagOf, Flag

(* 0 asks for everything: the flags tested are those asked for.            *)
LEMMA AsksEffective ==
  ASSUME NEW f \in SUBSET (Flag \cup OtherFlag), NEW s \in Documented
  PROVE  Asks(f, s) <=> FlagOf(s) \in Effective(f)
<1>1. FlagOf(s) \in Flag
  BY FlagOfType
<1>2. CASE f \cap Flag = {}
  BY <1>1, <1>2 DEF Asks, AsksAll, Effective
<1>3. CASE f \cap Flag = Flag
  BY <1>1, <1>3 DEF Asks, AsksAll, Effective
<1>4. CASE f \cap Flag # {} /\ f \cap Flag # Flag
  BY <1>1, <1>4 DEF Asks, AsksAll, Effective
<1>. QED BY <1>2, <1>3, <1>4

(* What has been asked for and what is in place agree.                     *)
LEMMA IInvImplies == IInv => FlagsHonoured
<1>. SUFFICES ASSUME IInv,
                     NEW t \in Thread, NEW s \in Documented \ {"Sigterm"}
              PROVE  /\ step[t] >= Installed /\ Asks(flags[t], s) /\ Compiled(s) =>
                          handler[Place(t, s)] = "cr" \/ Place(t, s) \in replaced
                     /\ handler[Place(t, s)] = "cr" =>
                          \E u \in Thread : /\ s \in PerThread => u = t
                                            /\ step[u] > NotCalled
                                            /\ Asks(flags[u], s)
  BY DEF FlagsHonoured, HonoursFlags
<1>1. flags \in [Thread -> SUBSET (Flag \cup OtherFlag)] /\ step \in [Thread -> Int]
  BY DEF IInv, TypeInv
<1>2. ASSUME step[t] >= Installed, Asks(flags[t], s), Compiled(s)
      PROVE  handler[Place(t, s)] = "cr" \/ Place(t, s) \in replaced
  <2>1. PICK i \in 1..Len(Program) : Program[i].sets = s /\ Program[i].flag = FlagOf(s)
    BY SlotStatement
  <2>2. Runs(Program[i], flags[t])
    BY <1>1, <1>2, <2>1, AsksEffective DEF Runs
  <2>3. i < step[t]
    BY <1>1, <1>2, ProgramSets DEF Installed
  <2>. QED BY <2>1, <2>2, <2>3 DEF IInv, Effected, Done
<1>3. ASSUME handler[Place(t, s)] = "cr"
      PROVE  \E u \in Thread : /\ s \in PerThread => u = t
                               /\ step[u] > NotCalled
                               /\ Asks(flags[u], s)
  <2>1. s \in Slot
    BY DEF Documented
  <2>2. PICK u \in Thread : \E i \in 1..Len(Program) :
          Done(u, i) /\ Program[i].sets = s /\ Place(u, s) = Place(t, s)
    BY <1>3, <2>1 DEF IInv, Asked
  <2>3. PICK i \in 1..Len(Program) :
          Done(u, i) /\ Program[i].sets = s /\ Place(u, s) = Place(t, s)
    BY <2>2
  <2>4. s \in PerThread => u = t
    BY <2>3 DEF Place
  <2>5. step[u] > NotCalled
    BY <1>1, <2>3, ProgramSets DEF Done, NotCalled
  <2>6. FlagOf(s) \in Effective(flags[u])
    <3>1. Program[i].flag = FlagOf(s)
      BY <2>3, StatementFlag
    <3>2. FlagOf(s) # ""
      BY FlagOfType DEF Flag
    <3>. QED BY <2>3, <3>1, <3>2 DEF Done, Runs
  <2>. QED BY <1>1, <2>4, <2>5, <2>6, AsksEffective
<1>. QED BY <1>2, <1>3

(* Each flag but SIGTERM's controls its own handler, in every build and    *)
(* however the installing threads and the application interleave.          *)
THEOREM FlagsAreHonoured == Spec => []FlagsHonoured
<1>1. IInv /\ [Next]_vars => IInv'
  BY IInvStep
<1>. QED BY <1>1, IInvInit, IInvImplies, PTL DEF Spec

-----------------------------------------------------------------------------
(* Crashes.                                                                *)

(* What the first handler of a thread is: "reported" and "app" are results *)
(* of a handler that is set, "died" of none.                               *)
LEMMA OutcomeType ==
  ASSUME NEW t \in Thread, NEW type \in Type
  PROVE  Outcome(t, type) \in Result
BY DEF Outcome, Result

(* Every variable keeps its type.                                          *)
THEOREM TypesKept == Spec => []TypeOK
<1>1. Init => TypeOK
  BY ProgramSets DEF Init, TypeOK, NotCalled, Installed, Uninstalled
<1>2. TypeOK /\ [Next]_vars => TypeOK'
  <2> SUFFICES ASSUME TypeOK, [Next]_vars
               PROVE  TypeOK'
    OBVIOUS
  <2>1. NotCalled..Uninstalled = 0..18 /\ Installed = 17 /\ Uninstalled = 18 /\ NotCalled = 0
    BY ProgramSets DEF NotCalled, Installed, Uninstalled
  <2>2. ASSUME NEW t \in Thread, NEW f \in FlagSets, CrInstall(t, f)
        PROVE  TypeOK'
    <3>1. f \in SUBSET (Flag \cup OtherFlag)
      BY HandlerInstallAssumption
    <3> QED
      BY <2>1, <2>2, <3>1 DEF CrInstall, TypeOK
  <2>3. ASSUME NEW t \in Thread, InstallStep(t)
        PROVE  TypeOK'
    <3>1. step[t] \in 1..16 /\ Program[step[t]].sets \in Slot
      BY <2>3, ProgramSets DEF InstallStep
    <3>2. Place(t, Program[step[t]].sets) \in Places
      BY <3>1, PlaceType
    <3>3. handler' \in [Places -> {"default", "app", "cr"}] /\ replaced' \subseteq Places
      BY <2>3, <3>2 DEF InstallStep, TypeOK
    <3>4. step' \in [Thread -> NotCalled..Uninstalled]
      <4>1. step \in [Thread -> 0..18]
        BY <2>1 DEF TypeOK
      <4>2. step' = [step EXCEPT ![t] = step[t] + 1]
        BY <2>3 DEF InstallStep
      <4>3. step' \in [Thread -> 0..18]
        BY <3>1, <4>1, <4>2
      <4> QED
        BY <2>1, <4>3
    <3>5. UNCHANGED <<flags, before, emulated>>
      BY <2>3 DEF InstallStep
    <3> QED
      BY <3>3, <3>4, <3>5 DEF TypeOK
  <2>4. ASSUME NEW t \in Thread, CrUninstall(t)
        PROVE  TypeOK'
    BY <2>1, <2>4 DEF CrUninstall, TypeOK
  <2>5. ASSUME NEW t \in Thread, NEW s \in Slot, AppSets(t, s)
        PROVE  TypeOK'
    BY <2>5, PlaceType DEF AppSets, TypeOK
  <2>6. ASSUME NEW t \in Thread, NEW type \in Type, CrEmulateCrash(t, type)
        PROVE  TypeOK'
    <3>1. PICK result \in Result : emulated' = [thread |-> t, type |-> type, result |-> result]
      BY <2>6, OutcomeType DEF CrEmulateCrash, Result
    <3> QED
      BY <2>6, <3>1 DEF CrEmulateCrash, TypeOK
  <2>7. CASE Rest \/ UNCHANGED vars
    BY <2>7 DEF Rest, vars, TypeOK
  <2> QED
    BY <2>2, <2>3, <2>4, <2>5, <2>6, <2>7 DEF Next
<1> QED
  BY <1>1, <1>2, PTL DEF Spec

(* A handler that has been replaced is the application's, and what came of *)
(* a crash is what the handlers as they are make of it: nothing changes    *)
(* after the crash.                                                        *)
Told ==
  /\ \A p \in replaced : handler[p] = "app"
  /\ emulated.thread \in Thread =>
       /\ emulated.type \in Type
       /\ \/ emulated.result = "returned" /\ Returns(emulated.type)
          \/ emulated.type # "Unknown" /\ emulated.result = Outcome(emulated.thread, emulated.type)

(* Nothing has been emulated at first.                                     *)
LEMMA ToldInit == Init => Told
<1>1. NotEmulated.thread = Process
  BY DEF NotEmulated
<1> QED
  BY <1>1, HandlerInstallAssumption DEF Init, Told

(* What came of the emulated crash remains what the handlers in place make *)
(* of it.                                                                  *)
LEMMA ToldStep ==
  ASSUME IInv, Told, [Next]_vars
  PROVE  Told'
<1>1. NotEmulated.thread \notin Thread
  BY HandlerInstallAssumption DEF NotEmulated
<1>2. ASSUME emulated = NotEmulated, UNCHANGED emulated, \A p \in replaced' : handler'[p] = "app"
      PROVE  Told'
  BY <1>1, <1>2 DEF Told
<1>3. ASSUME NEW t \in Thread, NEW f \in FlagSets, CrInstall(t, f)
      PROVE  Told'
  BY <1>2, <1>3 DEF CrInstall, Told
<1>4. ASSUME NEW t \in Thread, InstallStep(t)
      PROVE  Told'
  <2>1. Place(t, Program[step[t]].sets) \in Places
    BY <1>4, ProgramSets, PlaceType DEF InstallStep
  <2>2. \A p \in replaced' : handler'[p] = "app"
    BY <1>4, <2>1 DEF InstallStep, Told, IInv, TypeInv
  <2> QED
    BY <1>2, <1>4, <2>2 DEF InstallStep
<1>5. ASSUME NEW t \in Thread, CrUninstall(t)
      PROVE  Told'
  BY <1>2, <1>5 DEF CrUninstall, Told
<1>6. ASSUME NEW t \in Thread, NEW s \in Slot, AppSets(t, s)
      PROVE  Told'
  <2>1. Place(t, s) \in Places
    BY PlaceType
  <2>2. \A p \in replaced' : handler'[p] = "app"
    BY <1>6, <2>1 DEF AppSets, Told, IInv, TypeInv
  <2> QED
    BY <1>2, <1>6, <2>2 DEF AppSets
<1>7. ASSUME NEW t \in Thread, NEW type \in Type, CrEmulateCrash(t, type)
      PROVE  Told'
  <2>1. UNCHANGED <<handler, replaced>>
    BY <1>7 DEF CrEmulateCrash
  <2>2. PICK result : /\ emulated' = [thread |-> t, type |-> type, result |-> result]
                      /\ \/ result = "returned" /\ Returns(type)
                         \/ type # "Unknown" /\ result = Outcome(t, type)
    BY <1>7 DEF CrEmulateCrash
  <2>3. Outcome(t, type)' = Outcome(t, type)
    BY <2>1 DEF Outcome
  <2>4. emulated'.thread = t /\ emulated'.type = type /\ emulated'.result = result
    BY <2>2
  <2> QED
    BY <2>1, <2>2, <2>3, <2>4 DEF Told
<1>8. CASE Rest \/ UNCHANGED vars
  BY <1>8 DEF Rest, vars, Told, Outcome
<1> QED
  BY <1>3, <1>4, <1>5, <1>6, <1>7, <1>8 DEF Next

(* Every statement tests a flag or none.                                   *)
LEMMA FlagTested ==
  ASSUME NEW i \in 1..16
  PROVE  Program[i].flag \in Flag \/ Program[i].flag = ""
<1>1. CASE i = 1
  BY <1>1, ProgramStatements DEF Flag
<1>2. CASE i = 2
  BY <1>2, ProgramStatements DEF Flag
<1>3. CASE i = 3
  BY <1>3, ProgramStatements DEF Flag
<1>4. CASE i = 4
  BY <1>4, ProgramStatements DEF Flag
<1>5. CASE i = 5
  BY <1>5, ProgramStatements DEF Flag
<1>6. CASE i = 6
  BY <1>6, ProgramStatements DEF Flag
<1>7. CASE i = 7
  BY <1>7, ProgramStatements DEF Flag
<1>8. CASE i = 8
  BY <1>8, ProgramStatements DEF Flag
<1>9. CASE i = 9
  BY <1>9, ProgramStatements DEF Flag
<1>10. CASE i = 10
  BY <1>10, ProgramStatements DEF Flag
<1>11. CASE i = 11
  BY <1>11, ProgramStatements DEF Flag
<1>12. CASE i = 12
  BY <1>12, ProgramStatements DEF Flag
<1>13. CASE i = 13
  BY <1>13, ProgramStatements DEF Flag
<1>14. CASE i = 14
  BY <1>14, ProgramStatements DEF Flag
<1>15. CASE i = 15
  BY <1>15, ProgramStatements DEF Flag
<1>16. CASE i = 16
  BY <1>16, ProgramStatements DEF Flag
<1>17. \/ i = 1 \/ i = 2 \/ i = 3 \/ i = 4 \/ i = 5 \/ i = 6 \/ i = 7 \/ i = 8
       \/ i = 9 \/ i = 10 \/ i = 11 \/ i = 12 \/ i = 13 \/ i = 14 \/ i = 15 \/ i = 16
  OBVIOUS
<1> QED
  BY <1>1, <1>2, <1>3, <1>4, <1>5, <1>6, <1>7, <1>8,
     <1>9, <1>10, <1>11, <1>12, <1>13, <1>14, <1>15, <1>16, <1>17, Zenon

(* While the application has set nothing, a call with all flags that has   *)
(* returned has set every handler of the build.                            *)
LEMMA AllSet ==
  ASSUME IInv, Told, NoAppHandlers, NEW t \in Thread,
         step[t] = Installed, AsksAll(flags[t]), NEW i \in 1..16, Compiled(Program[i].sets)
  PROVE  handler[Place(t, Program[i].sets)] = "cr"
<1>1. Flag \subseteq Effective(flags[t])
  BY DEF AsksAll, Effective, IInv, TypeInv
<1>2. Program[i].flag \in Flag \/ Program[i].flag = ""
  BY FlagTested
<1>3. Done(t, i)
  <2>1. i < step[t]
    BY ProgramSets DEF Installed
  <2>2. Runs(Program[i], flags[t])
    BY <1>1, <1>2, Zenon DEF Runs
  <2> QED
    BY <2>1, <2>2 DEF Done
<1>4. Place(t, Program[i].sets) \in Places
  BY ProgramSets, PlaceType
<1>5. Place(t, Program[i].sets) \notin replaced
  BY <1>4 DEF Told, NoAppHandlers
<1> QED
  BY <1>3, <1>5, ProgramSets DEF IInv, Effected

(* The handlers that crash in no build for want of a statement.            *)
LEMMA BuildSet ==
  ASSUME IInv, Told, NoAppHandlers, NEW t \in Thread, step[t] = Installed, AsksAll(flags[t])
  PROVE  /\ \A s \in {"Seh", "Sigabrt", "Sigint", "Sigterm", "Sigfpe", "Sigill", "Sigsegv",
                      "Terminate", "Unexpected"} : handler[Place(t, s)] = "cr"
         /\ MscVer \in 1300..1399 => handler[Place(t, "Security")] = "cr"
         /\ MscVer >= 1400 => handler[Place(t, "InvalidParameter")] = "cr"
<1>1. \A i \in 1..16 : Compiled(Program[i].sets) => handler[Place(t, Program[i].sets)] = "cr"
  BY AllSet
<1>2. /\ \A s \in {"Seh", "Sigabrt", "Sigint", "Sigterm", "Sigfpe", "Sigill", "Sigsegv",
                   "Terminate", "Unexpected"} : Compiled(s)
      /\ MscVer \in 1300..1399 => Compiled("Security")
      /\ MscVer >= 1400 => Compiled("InvalidParameter")
  BY DEF Compiled
<1>3. /\ 1 \in 1..16 /\ 9 \in 1..16 /\ 10 \in 1..16 /\ 11 \in 1..16 /\ 12 \in 1..16
      /\ 13 \in 1..16 /\ 14 \in 1..16 /\ 15 \in 1..16 /\ 16 \in 1..16
      /\ 6 \in 1..16 /\ 7 \in 1..16
  OBVIOUS
<1>4. handler[Place(t, "Seh")] = "cr"
  <2>1. Program[1].sets = "Seh"
    BY ProgramStatements
  <2> QED
    BY <1>1, <1>2, <1>3, <2>1
<1>5. handler[Place(t, "Sigabrt")] = "cr"
  <2>1. Program[9].sets = "Sigabrt"
    BY ProgramStatements
  <2> QED
    BY <1>1, <1>2, <1>3, <2>1
<1>6. handler[Place(t, "Sigint")] = "cr"
  <2>1. Program[10].sets = "Sigint"
    BY ProgramStatements
  <2> QED
    BY <1>1, <1>2, <1>3, <2>1
<1>7. handler[Place(t, "Sigterm")] = "cr"
  <2>1. Program[11].sets = "Sigterm"
    BY ProgramStatements
  <2> QED
    BY <1>1, <1>2, <1>3, <2>1
<1>8. handler[Place(t, "Sigfpe")] = "cr"
  <2>1. Program[12].sets = "Sigfpe"
    BY ProgramStatements
  <2> QED
    BY <1>1, <1>2, <1>3, <2>1
<1>9. handler[Place(t, "Sigill")] = "cr"
  <2>1. Program[13].sets = "Sigill"
    BY ProgramStatements
  <2> QED
    BY <1>1, <1>2, <1>3, <2>1
<1>10. handler[Place(t, "Sigsegv")] = "cr"
  <2>1. Program[14].sets = "Sigsegv"
    BY ProgramStatements
  <2> QED
    BY <1>1, <1>2, <1>3, <2>1
<1>11. handler[Place(t, "Terminate")] = "cr"
  <2>1. Program[15].sets = "Terminate"
    BY ProgramStatements
  <2> QED
    BY <1>1, <1>2, <1>3, <2>1
<1>12. handler[Place(t, "Unexpected")] = "cr"
  <2>1. Program[16].sets = "Unexpected"
    BY ProgramStatements
  <2> QED
    BY <1>1, <1>2, <1>3, <2>1
<1>13. MscVer \in 1300..1399 => handler[Place(t, "Security")] = "cr"
  <2>1. Program[7].sets = "Security"
    BY ProgramStatements
  <2> QED
    BY <1>1, <1>2, <1>3, <2>1
<1>14. MscVer >= 1400 => handler[Place(t, "InvalidParameter")] = "cr"
  <2>1. Program[6].sets = "InvalidParameter"
    BY ProgramStatements
  <2> QED
    BY <1>1, <1>2, <1>3, <2>1
<1> QED
  BY <1>4, <1>5, <1>6, <1>7, <1>8, <1>9, <1>10, <1>11, <1>12, <1>13, <1>14

(* The slots that each type of crash is offered to.                        *)
LEMMA OfferedTo ==
  /\ Offered("SEH") = <<"Sigsegv", "Seh">>
  /\ Offered("SIGFPE") = <<"Sigfpe", "Seh">>
  /\ Offered("PURE_CALL") = <<"PureCall", "Sigabrt">>
  /\ Offered("NEW_OPERATOR_ERROR") = <<"New", "Seh">>
  /\ Offered("SECURITY_ERROR") = <<"Security">>
  /\ Offered("INVALID_PARAMETER") = <<"InvalidParameter">>
  /\ Offered("TERMINATE") = <<"Terminate", "Sigabrt">>
  /\ Offered("UNEXPECTED") = <<"Unexpected", "Terminate", "Sigabrt">>
  /\ Offered("SIGABRT") = <<"Sigabrt">>
  /\ Offered("SIGILL") = <<"Sigill">>
  /\ Offered("SIGINT") = <<"Sigint">>
  /\ Offered("SIGSEGV") = <<"Sigsegv">>
  /\ Offered("SIGTERM") = <<"Sigterm">>
  /\ \A type \in {"NONCONTINUABLE", "THROW", "STACK_OVERFLOW", "Unknown"} : Offered(type) = <<"Seh">>
<1>1. /\ Raises("SEH") = "access violation"
      /\ Raises("SIGFPE") = "division by zero"
      /\ Raises("PURE_CALL") = "pure call"
      /\ Raises("NEW_OPERATOR_ERROR") = "out of memory"
      /\ Raises("SECURITY_ERROR") = "buffer overrun"
      /\ Raises("INVALID_PARAMETER") = "no format"
      /\ Raises("TERMINATE") = "TERMINATE"
      /\ Raises("UNEXPECTED") = "UNEXPECTED"
      /\ Raises("SIGABRT") = "SIGABRT"
      /\ Raises("SIGILL") = "SIGILL"
      /\ Raises("SIGINT") = "SIGINT"
      /\ Raises("SIGSEGV") = "SIGSEGV"
      /\ Raises("SIGTERM") = "SIGTERM"
      /\ \A type \in {"NONCONTINUABLE", "THROW", "STACK_OVERFLOW", "Unknown"} : Raises(type) = "exception"
  BY DEF Raises
<1>2. /\ SlotsOf("access violation") = <<"Sigsegv", "Seh">>
      /\ SlotsOf("division by zero") = <<"Sigfpe", "Seh">>
      /\ SlotsOf("pure call") = <<"PureCall", "Sigabrt">>
      /\ SlotsOf("out of memory") = <<"New", "Seh">>
      /\ SlotsOf("buffer overrun") = <<"Security">>
      /\ SlotsOf("no format") = <<"InvalidParameter">>
      /\ SlotsOf("TERMINATE") = <<"Terminate", "Sigabrt">>
      /\ SlotsOf("UNEXPECTED") = <<"Unexpected", "Terminate", "Sigabrt">>
      /\ SlotsOf("SIGABRT") = <<"Sigabrt">>
      /\ SlotsOf("SIGILL") = <<"Sigill">>
      /\ SlotsOf("SIGINT") = <<"Sigint">>
      /\ SlotsOf("SIGSEGV") = <<"Sigsegv">>
      /\ SlotsOf("SIGTERM") = <<"Sigterm">>
      /\ SlotsOf("exception") = <<"Seh">>
  BY DEF SlotsOf
<1> QED
  BY <1>1, <1>2 DEF Offered

(* Whether a crash ends in a handler of ours: if one of those it is        *)
(* offered to is ours and none is the application's.                       *)
LEMMA Reported ==
  ASSUME IInv, NoAppHandlers, NEW t \in Thread, NEW type \in Type,
         NEW i \in 1..Len(Offered(type)), handler[Place(t, Offered(type)[i])] = "cr"
  PROVE  Outcome(t, type) = "reported"
<1> DEFINE slots == Offered(type)
           set == {j \in 1..Len(slots) : handler[Place(t, slots[j])] # "default"}
           first == CHOOSE j \in set : \A k \in set : j <= k
<1>1. /\ Len(slots) \in 1..3
      /\ \A j \in 1..Len(slots) : slots[j] \in Slot
  <2>1. CASE type \in {"SEH", "SIGFPE", "PURE_CALL", "NEW_OPERATOR_ERROR", "TERMINATE"}
    <3>1. Len(slots) = 2 /\ slots[1] \in Slot /\ slots[2] \in Slot
      BY <2>1, OfferedTo DEF Slot, PerThread, PerProcess
    <3> QED
      BY <3>1
  <2>2. CASE type = "UNEXPECTED"
    <3>1. Len(slots) = 3 /\ slots[1] \in Slot /\ slots[2] \in Slot /\ slots[3] \in Slot
      BY <2>2, OfferedTo DEF Slot, PerThread, PerProcess
    <3> QED
      BY <3>1
  <2>3. CASE type \notin {"SEH", "SIGFPE", "PURE_CALL", "NEW_OPERATOR_ERROR", "TERMINATE",
                          "UNEXPECTED"}
    <3>1. Len(slots) = 1 /\ slots[1] \in Slot
      BY <2>3, OfferedTo DEF Type, Slot, PerThread, PerProcess
    <3> QED
      BY <3>1
  <2> HIDE DEF slots
  <2> QED
    BY <2>1, <2>2, <2>3
<1>2. i \in set /\ set \subseteq 1..3
  BY <1>1
<1>3. \E j \in set : \A k \in set : j <= k
  <2> HIDE DEF set
  <2>1. CASE 1 \in set
    BY <1>2, <2>1
  <2>2. CASE 1 \notin set /\ 2 \in set
    BY <1>2, <2>2
  <2>3. CASE 1 \notin set /\ 2 \notin set
    BY <1>2, <2>3
  <2> QED
    BY <2>1, <2>2, <2>3
<1>4. first \in set
  <2> HIDE DEF set
  <2> QED
    BY <1>3
<1>5. Place(t, slots[first]) \in Places
  BY <1>1, <1>4, PlaceType
<1>6. handler[Place(t, slots[first])] = "cr"
  BY <1>4, <1>5 DEF NoAppHandlers, IInv, TypeInv
<1> QED
  BY <1>2, <1>6 DEF Outcome

(* The types of crash that end in a handler of the process, in whatever    *)
(* thread, and the others.                                                 *)
ProcessHandled == {"SEH", "TERMINATE", "UNEXPECTED", "PURE_CALL", "NEW_OPERATOR_ERROR",
                   "SIGABRT", "SIGFPE", "SIGINT", "SIGTERM", "NONCONTINUABLE", "THROW",
                   "STACK_OVERFLOW"}

(* What the handlers of the process catch is reported in every thread.     *)
LEMMA ProcessReported ==
  ASSUME IInv, Told, NoAppHandlers, NEW t \in Thread, NEW u \in Thread,
         step[u] = Installed, AsksAll(flags[u]), NEW type \in Type,
         \/ type \in ProcessHandled
         \/ type = "SECURITY_ERROR" /\ MscVer \in 1300..1399
         \/ type = "INVALID_PARAMETER" /\ MscVer >= 1400
  PROVE  Outcome(t, type) = "reported"
<1> DEFINE P(s) == handler[Place(t, s)]
<1>1. \A s \in PerProcess : Place(t, s) = Place(u, s)
  BY DEF Place, PerProcess, PerThread
<1>2. /\ P("Seh") = "cr" /\ P("Sigabrt") = "cr" /\ P("Sigint") = "cr" /\ P("Sigterm") = "cr"
      /\ MscVer \in 1300..1399 => P("Security") = "cr"
      /\ MscVer >= 1400 => P("InvalidParameter") = "cr"
  BY <1>1, BuildSet DEF PerProcess
<1> HIDE DEF P
<1>3. \E i \in 1..Len(Offered(type)) : P(Offered(type)[i]) = "cr"
  <2>1. CASE type \in {"NONCONTINUABLE", "THROW", "STACK_OVERFLOW"}
    <3>1. Len(Offered(type)) = 1 /\ Offered(type)[1] = "Seh"
      BY <2>1, OfferedTo
    <3> QED
      BY <1>2, <3>1
  <2>2. CASE type \in {"SEH", "NEW_OPERATOR_ERROR", "SIGFPE"}
    <3>1. Len(Offered(type)) = 2 /\ Offered(type)[2] = "Seh"
      BY <2>2, OfferedTo
    <3> QED
      BY <1>2, <3>1
  <2>3. CASE type \in {"TERMINATE", "PURE_CALL"}
    <3>1. Len(Offered(type)) = 2 /\ Offered(type)[2] = "Sigabrt"
      BY <2>3, OfferedTo
    <3> QED
      BY <1>2, <3>1
  <2>4. CASE type = "UNEXPECTED"
    <3>1. Len(Offered(type)) = 3 /\ Offered(type)[3] = "Sigabrt"
      BY <2>4, OfferedTo
    <3> QED
      BY <1>2, <3>1
  <2>5. CASE type \in {"SIGABRT", "SIGINT", "SIGTERM", "SECURITY_ERROR", "INVALID_PARAMETER"}
    <3>1. /\ Len(Offered(type)) = 1
          /\ Offered(type)[1] = CASE type = "SIGABRT" -> "Sigabrt" [] type = "SIGINT" -> "Sigint"
                                  [] type = "SIGTERM" -> "Sigterm"
                                  [] type = "SECURITY_ERROR" -> "Security"
                                  [] OTHER -> "InvalidParameter"
      BY <2>5, OfferedTo
    <3> QED
      BY <1>2, <2>5, <3>1 DEF ProcessHandled
  <2> QED
    BY <2>1, <2>2, <2>3, <2>4, <2>5 DEF ProcessHandled
<1> QED
  BY <1>3, Reported DEF P

(* With all its handlers in place a thread's crashes are reported.         *)
LEMMA InterceptsFrom == IInv /\ Told => InstallerIntercepts
<1> SUFFICES ASSUME IInv, Told, NoAppHandlers, NEW t \in Thread, Emulating(t),
                    step[t] = Installed, AsksAll(flags[t])
             PROVE  emulated.result \in {"reported", "returned"}
  BY DEF InstallerIntercepts
<1> DEFINE type == emulated.type
<1>1. emulated.thread = t /\ type \in Type /\ type \notin Unsupported
  BY DEF Emulating, Told
<1>2. SUFFICES ASSUME type # "Unknown"
               PROVE  Outcome(t, type) = "reported"
  BY <1>1 DEF Told
<1>3. CASE type \in {"SIGILL", "SIGSEGV"}
  <2>1. 1 \in 1..Len(Offered(type)) /\ Offered(type)[1] \in {"Sigill", "Sigsegv"}
    BY <1>3, OfferedTo
  <2>2. handler[Place(t, Offered(type)[1])] = "cr"
    BY <2>1, BuildSet
  <2> QED
    BY <1>1, <2>1, <2>2, Reported
<1>4. CASE type \notin {"SIGILL", "SIGSEGV"}
  <2>1. \/ type \in ProcessHandled
        \/ type = "SECURITY_ERROR" /\ MscVer \in 1300..1399
        \/ type = "INVALID_PARAMETER" /\ MscVer >= 1400
    BY <1>1, <1>2, <1>4 DEF Type, Unsupported, ProcessHandled
  <2> QED
    BY <1>1, <2>1, ProcessReported
<1> QED
  BY <1>3, <1>4

(* In the thread that has called crInstall() every type of crash that the  *)
(* build has a handler for is reported, in every build, if the application *)
(* sets no handlers.                                                       *)
THEOREM InstallerProtected == Spec => []InstallerIntercepts
<1>1. IInv /\ Told /\ [Next]_vars => IInv' /\ Told'
  BY IInvStep, ToldStep
<1> QED
  BY <1>1, IInvInit, ToldInit, InterceptsFrom, PTL DEF Spec

(* With those of the process in place others' are, all but two.            *)
LEMMA ProtectedFrom == IInv /\ Told => OthersProtected
<1> SUFFICES ASSUME IInv, Told, NoAppHandlers, NEW t \in Thread, NEW u \in Thread, Emulating(t),
                    step[t] = NotCalled, step[u] = Installed, AsksAll(flags[u])
             PROVE  emulated.result = "died" <=> emulated.type \in {"SIGILL", "SIGSEGV"}
  BY DEF OthersProtected
<1> DEFINE type == emulated.type
<1>1. emulated.thread = t /\ type \in Type /\ type \notin Unsupported
  BY DEF Emulating, Told
<1>2. CASE type \in {"SIGILL", "SIGSEGV"}
  <2> DEFINE s == Offered(type)[1]
  <2>1. Len(Offered(type)) = 1 /\ s \in PerThread /\ s \in Slot
    BY <1>2, OfferedTo DEF PerThread, Slot
  <2> HIDE DEF s
  <2>2. handler[Place(t, s)] # "cr"
    <3>1. SUFFICES ASSUME handler[Place(t, s)] = "cr"
                   PROVE  FALSE
      OBVIOUS
    <3>2. PICK v \in Thread : \E i \in 1..Len(Program) :
            Done(v, i) /\ Program[i].sets = s /\ Place(v, s) = Place(t, s)
      BY <2>1, <3>1 DEF IInv, Asked
    <3>3. v = t
      BY <2>1, <3>2 DEF Place
    <3> QED
      BY <3>2, <3>3, ProgramSets DEF Done, NotCalled
  <2>3. handler[Place(t, s)] = "default"
    BY <2>1, <2>2, PlaceType DEF NoAppHandlers, IInv, TypeInv
  <2>4. \A j \in 1..Len(Offered(type)) : handler[Place(t, Offered(type)[j])] = "default"
    BY <2>1, <2>3 DEF s
  <2>5. Outcome(t, type) = "died"
    BY <2>4 DEF Outcome
  <2>6. ~Returns(type) /\ type # "Unknown"
    BY <1>2 DEF Returns
  <2> QED
    BY <1>1, <1>2, <2>5, <2>6 DEF Told
<1>3. CASE type \notin {"SIGILL", "SIGSEGV"}
  <2>1. CASE type = "Unknown"
    BY <1>1, <1>3, <2>1 DEF Told
  <2>2. CASE type # "Unknown"
    <3>1. \/ type \in ProcessHandled
          \/ type = "SECURITY_ERROR" /\ MscVer \in 1300..1399
          \/ type = "INVALID_PARAMETER" /\ MscVer >= 1400
      BY <1>1, <1>3, <2>2 DEF Type, Unsupported, ProcessHandled
    <3>2. Outcome(t, type) = "reported"
      BY <1>1, <3>1, ProcessReported
    <3> QED
      BY <1>1, <1>3, <3>2 DEF Told
  <2> QED
    BY <2>1, <2>2
<1> QED
  BY <1>2, <1>3

(* A thread that has not called crInstall() is protected by the call of    *)
(* another against everything but raise(SIGILL) and raise(SIGSEGV), for    *)
(* any number of threads and in every build.                               *)
THEOREM OthersAreProtected == Spec => []OthersProtected
<1>1. IInv /\ Told /\ [Next]_vars => IInv' /\ Told'
  BY IInvStep, ToldStep
<1> QED
  BY <1>1, IInvInit, ToldInit, ProtectedFrom, PTL DEF Spec
=============================================================================
