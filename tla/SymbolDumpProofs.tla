-------------------------- MODULE SymbolDumpProofs --------------------------
(***************************************************************************)
(* Proofs about SymbolDump, for every debug information, every depth of    *)
(* the stack and every number of frames and symbols.                       *)
(***************************************************************************)
EXTENDS SymbolDump, TLAPS

-----------------------------------------------------------------------------
(* What the dump of a symbol is made from.                                 *)

(* The bounds are numbers, and the stack has room for one activation.      *)
LEMMA Bounds == MaxDumpDepth \in Nat /\ MaxSymbols \in Nat /\ MaxStack \in Nat /\ MaxStack >= 1
BY SymbolDumpAssumption

(* Every type has a name: that of a basic type, of none at the worst.      *)
LEMMA TypesNamed ==
  ASSUME NEW index \in Index, NEW failing
  PROVE  TypeName(GetBasicType(index, failing)) \in TypeNames
<1>1. "btNoType" \in DOMAIN BasicType
  BY DEF BasicType
<1>2. Basic[index] \in DOMAIN BasicType
  BY SymbolDumpAssumption
<1> QED
  BY <1>1, <1>2 DEF GetBasicType, TypeNames

(* FormatOutputValue() knows no other formats.                             *)
LEMMA Formats ==
  ASSUME NEW basicType, NEW length
  PROVE  FormatOutputValue(basicType, length) \subseteq Format
BY DEF FormatOutputValue, Format

(* Members have no other formats, either.                                  *)
LEMMA FormatsOfMembers ==
  ASSUME NEW index, NEW failing
  PROVE  MemberFormats(index, failing) \subseteq Format
BY Formats DEF MemberFormats

(* A line that is written is a sequence of entries.                        *)
LEMMA LineTypes ==
  ASSUME NEW entries \in Seq(Entry), WriteLine(entries)
  PROVE  /\ line' \in Seq(Entry) /\ buffer' \in Seq(Entry)
         /\ stack' = <<>> /\ pc' = "enum"
BY DEF WriteLine

(* No line is the empty one.                                               *)
LEMMA NoLineTypes ==
  ASSUME NoLine
  PROVE  /\ line' \in Seq(Entry) /\ buffer' \in Seq(Entry)
         /\ stack' = <<>> /\ pc' = "enum"
<1>1. <<>> \in Seq(Entry)
  OBVIOUS
<1> QED
  BY <1>1, LineTypes DEF NoLine

(* The pointers of the model are numbers.                                  *)
LEMMA VariableType ==
  ASSUME NEW s \in Symbol, NEW level \in 0..MaxDumpDepth
  PROVE  Variable(s, level) \in Nat
BY SymbolDumpAssumption DEF Variable, SymbolInfo

-----------------------------------------------------------------------------
(* What the types rest on: the callback is called within a frame, and      *)
(* every activation is about to look at a child or past the last one.      *)
WithinFrame ==
  /\ pc \in {"name", "param", "enum", "format", "end"} => nLevel < MaxDumpDepth
  /\ pc = "format" => symbol \in Symbol /\ stack # <<>>
  /\ \A k \in 1..Len(stack) : stack[k].i >= 1

(* An activation that has another child has one in the debug information.  *)
LEMMA NextMemberType ==
  ASSUME TypeOK, WithinFrame, pc = "format", HasNext
  PROVE  NextMember \in Index
<1>1. Len(stack) \in 1..Len(stack) /\ Top = stack[Len(stack)] /\ Top \in Activation
  BY DEF TypeOK, WithinFrame, Top
<1>2. Top.index \in Index /\ Top.i \in Nat /\ Top.i >= 1
  BY <1>1 DEF Activation, WithinFrame
<1>3. children[Top.index] \in Seq(Index)
  BY <1>2, SymbolDumpAssumption DEF TypeOK
<1> QED
  BY <1>2, <1>3 DEF HasNext, NextMember

(* The next round of one activation.                                       *)
LEMMA NextRound ==
  ASSUME NEW a \in Activation
  PROVE  /\ [a EXCEPT !.i = a.i + 1] \in Activation
         /\ [a EXCEPT !.i = a.i + 1].index = a.index
         /\ [a EXCEPT !.i = a.i + 1].i = a.i + 1
<1>1. [a EXCEPT !.i = a.i + 1] \in Activation
  BY DEF Activation
<1>2. [a EXCEPT !.i = a.i + 1].index = a.index
  BY DEF Activation
<1>3. [a EXCEPT !.i = a.i + 1].i = a.i + 1
  BY DEF Activation
<1> QED
  BY <1>1, <1>2, <1>3

(* A round of the loop leaves the other activations alone.                 *)
LEMMA AdvancedTypes ==
  ASSUME TypeOK, WithinFrame, pc = "format"
  PROVE  /\ Advanced \in Seq(Activation) /\ Len(Advanced) = Len(stack)
         /\ \A k \in 1..Len(stack) : /\ Advanced[k].i >= 1
                                     /\ Advanced[k].index = stack[k].index
         /\ Top \in Activation
<1>1. stack \in Seq(Activation) /\ Len(stack) \in 1..Len(stack)
  BY DEF TypeOK, WithinFrame
<1>2. Top \in Activation /\ Top = stack[Len(stack)]
  BY <1>1 DEF Top
<1> DEFINE top == [stack[Len(stack)] EXCEPT !.i = stack[Len(stack)].i + 1]
<1>3. top \in Activation /\ top.index = Top.index /\ top.i = Top.i + 1
  BY <1>2, NextRound
<1>4. Advanced = [stack EXCEPT ![Len(stack)] = top]
  BY <1>1 DEF Advanced
<1> HIDE DEF top
<1>5. Advanced \in Seq(Activation) /\ Len(Advanced) = Len(stack)
  BY <1>1, <1>3, <1>4
<1>6. \A k \in 1..Len(stack) : Advanced[k] = IF k = Len(stack) THEN top ELSE stack[k]
  BY <1>1, <1>4
<1>7. Top.i >= 1 /\ Top.i \in Nat
  BY <1>1, <1>2 DEF WithinFrame, Activation
<1> QED
  BY <1>2, <1>3, <1>5, <1>6, <1>7 DEF WithinFrame

(* The entries for symbol s, with members and without, and for a member    *)
(* without any.                                                            *)
WholeEntry(s) ==
  [level |-> 0, index |-> s.index, type |-> "", format |-> "members",
   at |-> Variable(s, nLevel)]
ValueEntry(s, failing, f) ==
  [level |-> 0, index |-> s.index, type |-> TypeName(GetBasicType(s.index, failing)),
   format |-> f, at |-> Variable(s, nLevel)]
MemberEntry(failing, f) ==
  [level |-> Len(stack), index |-> NextMember,
   type |-> TypeName(GetBasicType(NextMember, failing)), format |-> f,
   at |-> MemberAddress(Top.offset, NextMember, failing)]

(* The callback writes no line, begins with the members, or writes a line  *)
(* with the value alone.                                                   *)
Callback(s, failing) ==
  /\ failed' = (failing # {})
  /\ \/ NoLine
     \/ /\ stack' = <<[index |-> s.index, i |-> 1, offset |-> Variable(s, nLevel)]>>
        /\ buffer' = <<WholeEntry(s)>>
        /\ line' = <<>>
        /\ pc' = "format"
     \/ /\ ~HasMembers(s.index, failing)
        /\ \E f \in FormatOutputValue(GetBasicType(s.index, failing), Length[s.index]) :
             WriteLine(<<ValueEntry(s, failing, f)>>)

(* That is all that a call of the callback does.                           *)
LEMMA Called ==
  ASSUME NEW s \in Symbol, EnumSymbolsProcCallback(s)
  PROVE  /\ pc = "enum" /\ callbacks < MaxSymbols /\ callbacks' = callbacks + 1
         /\ symbol' = s
         /\ \E failing \in SUBSET {"children", "basetype"} : Callback(s, failing)
         /\ UNCHANGED <<children, overflown, nLevel, guard, overflows>>
<1>1. /\ pc = "enum" /\ callbacks < MaxSymbols /\ callbacks' = callbacks + 1 /\ symbol' = s
      /\ UNCHANGED <<children, overflown, nLevel, guard, overflows>>
  BY DEF EnumSymbolsProcCallback
<1>2. \E failing \in SUBSET {"children", "basetype"} : Callback(s, failing)
  BY DEF EnumSymbolsProcCallback, Callback, WholeEntry, ValueEntry
<1> QED
  BY <1>1, <1>2

-----------------------------------------------------------------------------
(* Types and frames are kept together.                                     *)
LEMMA FramesKept == Spec => [](TypeOK /\ WithinFrame)
<1> USE Bounds
<1> DEFINE Inv == TypeOK /\ WithinFrame
<1>1. Init => Inv
  <2> SUFFICES ASSUME Init
               PROVE  TypeOK /\ WithinFrame
    OBVIOUS
  <2>1. /\ stack = <<>> /\ buffer = <<>> /\ line = <<>> /\ overflows = <<>>
        /\ pc = "walk" /\ nLevel = 0 /\ callbacks = 0
        /\ symbol = NoSymbol /\ failed = FALSE /\ overflown \in BOOLEAN /\ guard = ~overflown
        /\ \A index \in Index : children[index] \in Children[index]
    BY DEF Init
  <2>2. Len(stack) = 0 /\ stack \in Seq(Activation)
    BY <2>1
  <2>3. buffer \in Seq(Entry) /\ line \in Seq(Entry) /\ overflows \in Seq(Symbol)
    BY <2>1
  <2>4. guard \in BOOLEAN /\ failed \in BOOLEAN
    BY <2>1, Zenon
  <2>5. TypeOK
    BY <2>1, <2>2, <2>3, <2>4 DEF TypeOK, Location
  <2> QED
    BY <2>1, <2>2, <2>5 DEF WithinFrame
<1>2. Inv /\ [Next]_vars => Inv'
  <2> SUFFICES ASSUME TypeOK, WithinFrame, [Next]_vars
               PROVE  TypeOK' /\ WithinFrame'
    OBVIOUS
  <2> USE DEF Location, dump
  <2>1. CASE WalkFrame
    BY <2>1 DEF WalkFrame, WithinDepth, TypeOK, WithinFrame
  <2>2. CASE WalkEnds
    BY <2>2 DEF WalkEnds, TypeOK, WithinFrame
  <2>3. CASE DumpSymbolName
    BY <2>3 DEF DumpSymbolName, TypeOK, WithinFrame
  <2>4. CASE DumpSymbolParam
    BY <2>4 DEF DumpSymbolParam, TypeOK, WithinFrame
  <2>5. CASE EnumEnds
    BY <2>5 DEF EnumEnds, TypeOK, WithinFrame
  <2>6. CASE FrameEnds
    <3>1. nLevel' \in 0..MaxDumpDepth
      BY <2>6 DEF FrameEnds, NextLevel, TypeOK, WithinFrame
    <3>2. line' \in Seq(Entry)
      BY <2>6 DEF FrameEnds
    <3>3. TypeOK'
      BY <2>6, <3>1, <3>2 DEF FrameEnds, TypeOK
    <3> QED
      BY <2>6, <3>3 DEF FrameEnds, WithinFrame
  <2>7. ASSUME NEW s \in Symbol, EnumSymbolsProcCallback(s)
        PROVE  TypeOK' /\ WithinFrame'
    <3>1. Variable(s, nLevel) \in Nat /\ s.index \in Index
      BY VariableType, SymbolDumpAssumption DEF TypeOK, SymbolInfo
    <3>2. /\ pc = "enum" /\ nLevel < MaxDumpDepth
          /\ callbacks' \in 0..MaxSymbols /\ symbol' = s
          /\ UNCHANGED <<children, overflown, nLevel, guard, overflows>>
      BY <2>7, Called DEF TypeOK, WithinFrame
    <3>3. PICK failing \in SUBSET {"children", "basetype"} : Callback(s, failing)
      BY <2>7, Called
    <3>4. failed' \in BOOLEAN /\ WholeEntry(s) \in Entry
      BY <3>1, <3>3 DEF Callback, WholeEntry, Entry, Format
    <3> USE DEF Callback
    <3>5. CASE NoLine
      <4>1. line' \in Seq(Entry) /\ buffer' \in Seq(Entry) /\ stack' = <<>> /\ pc' = "enum"
        BY <3>5, NoLineTypes
      <4> QED
        BY <3>2, <3>4, <4>1 DEF TypeOK, WithinFrame
    <3>6. ASSUME NEW f \in FormatOutputValue(GetBasicType(s.index, failing), Length[s.index]),
                 WriteLine(<<ValueEntry(s, failing, f)>>)
          PROVE  TypeOK' /\ WithinFrame'
      <4>1. ValueEntry(s, failing, f) \in Entry
        BY <3>1, Formats, TypesNamed DEF ValueEntry, Entry
      <4>2. <<ValueEntry(s, failing, f)>> \in Seq(Entry)
        BY <4>1
      <4>3. line' \in Seq(Entry) /\ buffer' \in Seq(Entry) /\ stack' = <<>> /\ pc' = "enum"
        BY <3>6, <4>2, LineTypes
      <4> QED
        BY <3>2, <3>4, <4>3 DEF TypeOK, WithinFrame
    <3>7. CASE /\ stack' = <<[index |-> s.index, i |-> 1, offset |-> Variable(s, nLevel)]>>
               /\ buffer' = <<WholeEntry(s)>>
               /\ line' = <<>>
               /\ pc' = "format"
      <4> DEFINE a == [index |-> s.index, i |-> 1, offset |-> Variable(s, nLevel)]
      <4>1. a \in Activation /\ a.i = 1
        BY <3>1 DEF Activation
      <4>2. stack' = <<a>>
        BY <3>7
      <4> HIDE DEF a
      <4>3. stack' \in Seq(Activation) /\ Len(stack') = 1 /\ stack'[1] = a
        BY <4>1, <4>2
      <4>4. buffer' \in Seq(Entry) /\ line' \in Seq(Entry)
        BY <3>4, <3>7
      <4> QED
        BY <3>2, <3>4, <3>7, <4>1, <4>3, <4>4 DEF TypeOK, WithinFrame
    <3> QED
      BY <3>3, <3>5, <3>6, <3>7
  <2>8. CASE EnterMember
    <3>1. /\ pc = "format" /\ HasNext /\ Len(stack) < MaxStack /\ failed' \in BOOLEAN
          /\ \E failing \in SUBSET {"basetype"} :
               buffer' = Append(buffer, [level |-> Len(stack), index |-> NextMember,
                                         type |-> TypeName(GetBasicType(NextMember, failing)),
                                         format |-> "members", at |-> Top.offset])
          /\ stack' = Append(Advanced, [index |-> NextMember, i |-> 1, offset |-> Top.offset])
          /\ UNCHANGED <<children, overflown, pc, nLevel, callbacks, symbol, line, guard, overflows>>
      BY <2>8 DEF EnterMember, TypeOK
    <3>2. NextMember \in Index /\ Top.offset \in Nat /\ Len(stack) \in Nat
      BY <3>1, NextMemberType, AdvancedTypes DEF Activation, TypeOK
    <3> DEFINE a == [index |-> NextMember, i |-> 1, offset |-> Top.offset]
               e(word) == [level |-> Len(stack), index |-> NextMember, type |-> word,
                           format |-> "members", at |-> Top.offset]
    <3>3. a \in Activation /\ a.i = 1 /\ \A word \in TypeNames : e(word) \in Entry
      BY <3>2 DEF Activation, Entry, Format
    <3>4. /\ stack' = Append(Advanced, a)
          /\ \E word \in TypeNames : buffer' = Append(buffer, e(word))
      BY <3>1, <3>2, TypesNamed
    <3> HIDE DEF a, e
    <3>5. /\ stack' \in Seq(Activation) /\ Len(stack') = Len(stack) + 1
          /\ \A k \in 1..Len(stack') : stack'[k] = IF k <= Len(stack) THEN Advanced[k] ELSE a
      BY <3>1, <3>3, <3>4, AdvancedTypes
    <3>6. buffer' \in Seq(Entry)
      BY <3>3, <3>4 DEF TypeOK
    <3>7. \A k \in 1..Len(stack') : stack'[k].i >= 1
      BY <3>1, <3>3, <3>5, AdvancedTypes DEF TypeOK
    <3>8. Len(stack') <= MaxStack /\ stack' # <<>>
      BY <3>1, <3>5, SMTT(60) DEF TypeOK
    <3> QED
      BY <3>1, <3>5, <3>6, <3>7, <3>8 DEF TypeOK, WithinFrame
  <2>9. CASE PrintMember
    <3>0. PICK failing \in SUBSET Query :
            /\ failed' = (failed \/ failing # {})
            /\ \E f \in MemberFormats(NextMember, failing) : buffer' = Append(buffer, MemberEntry(failing, f))
      BY <2>9 DEF PrintMember, MemberEntry
    <3>1. PICK f \in MemberFormats(NextMember, failing) : buffer' = Append(buffer, MemberEntry(failing, f))
      BY <3>0
    <3>2. /\ pc = "format" /\ HasNext /\ stack' = Advanced
          /\ UNCHANGED <<children, overflown, pc, nLevel, callbacks, symbol, line, guard, overflows>>
      BY <2>9 DEF PrintMember
    <3>3. NextMember \in Index /\ Top.offset \in Nat /\ Len(stack) \in Nat /\ f \in Format
      BY <3>2, NextMemberType, AdvancedTypes, FormatsOfMembers DEF Activation, TypeOK
    <3>4. MemberAddress(Top.offset, NextMember, failing) \in Nat \cup {Wild}
      BY <3>3, SymbolDumpAssumption DEF MemberAddress
    <3>5. MemberEntry(failing, f) \in Entry
      BY <3>3, <3>4, TypesNamed DEF MemberEntry, Entry
    <3>6. buffer' \in Seq(Entry) /\ failed' \in BOOLEAN
      BY <3>0, <3>1, <3>5 DEF TypeOK
    <3>7. /\ stack' \in Seq(Activation) /\ Len(stack') = Len(stack)
          /\ \A k \in 1..Len(stack') : stack'[k].i >= 1
      BY <3>2, AdvancedTypes
    <3>8. stack' # <<>>
      BY <3>2, <3>7 DEF TypeOK, WithinFrame
    <3> QED
      BY <3>2, <3>6, <3>7, <3>8 DEF TypeOK, WithinFrame
  <2>10. CASE MembersDone
    <3>1. /\ pc = "format"
          /\ UNCHANGED <<children, overflown, nLevel, callbacks, symbol, failed, guard, overflows>>
      BY <2>10 DEF MembersDone
    <3>2. CASE Len(stack) = 1
      <4>1. line' \in Seq(Entry) /\ buffer' \in Seq(Entry) /\ stack' = <<>> /\ pc' = "enum"
        BY <2>10, <3>2, LineTypes DEF MembersDone, TypeOK
      <4> QED
        BY <3>1, <4>1 DEF TypeOK, WithinFrame
    <3>3. CASE Len(stack) # 1
      <4>1. stack' = SubSeq(stack, 1, Len(stack) - 1) /\ UNCHANGED <<pc, buffer, line>>
        BY <2>10, <3>3 DEF MembersDone
      <4>2. stack \in Seq(Activation) /\ Len(stack) \in Nat /\ Len(stack) > 1
        <5>1. stack \in Seq(Activation) /\ Len(stack) \in 1..Len(stack)
          BY <3>1 DEF TypeOK, WithinFrame
        <5>2. Len(stack) \in Nat /\ Len(stack) >= 1
          BY <5>1
        <5>3. \A n \in Nat : n >= 1 /\ n # 1 => n > 1
          OBVIOUS
        <5> QED
          BY <3>3, <5>1, <5>2, <5>3
      <4>3. /\ stack' \in Seq(Activation) /\ Len(stack') = Len(stack) - 1
            /\ \A k \in 1..Len(stack') : stack'[k] = stack[k]
        BY <4>1, <4>2
      <4>4. stack' # <<>> /\ Len(stack') <= MaxStack
        BY <4>2, <4>3 DEF TypeOK
      <4> QED
        BY <3>1, <4>1, <4>2, <4>3, <4>4 DEF TypeOK, WithinFrame
    <3> QED
      BY <3>2, <3>3
  <2>11. CASE ValueFaults
    <3>1. line' \in Seq(Entry) /\ buffer' \in Seq(Entry) /\ stack' = <<>> /\ pc' = "enum"
      BY <2>11, NoLineTypes DEF ValueFaults
    <3> QED
      BY <2>11, <3>1 DEF ValueFaults, TypeOK, WithinFrame
  <2>12. CASE StackOverflows
    <3>1. /\ pc = "format" /\ symbol \in Symbol /\ overflows' = Append(overflows, symbol)
          /\ UNCHANGED <<children, overflown, nLevel, callbacks, symbol, failed>>
      BY <2>12 DEF StackOverflows, WithinFrame
    <3>2. overflows' \in Seq(Symbol)
      BY <3>1 DEF TypeOK
    <3>3. CASE Swallowed
      <4>1. line' \in Seq(Entry) /\ buffer' \in Seq(Entry) /\ stack' = <<>> /\ pc' = "enum"
        BY <2>12, <3>3, NoLineTypes DEF StackOverflows
      <4>2. guard' = FALSE
        BY <2>12, <3>3 DEF StackOverflows
      <4>3. TypeOK'
        <5>1. Len(stack') = 0 /\ stack' \in Seq(Activation)
          BY <4>1
        <5>2. UNCHANGED <<children, overflown, nLevel, callbacks, symbol, failed>>
          BY <3>1
        <5>3. guard' \in BOOLEAN
          BY <4>2, Zenon
        <5> QED
          BY <3>2, <4>1, <5>1, <5>2, <5>3 DEF TypeOK
      <4>4. WithinFrame'
        BY <3>1, <4>1 DEF WithinFrame
      <4> QED
        BY <4>3, <4>4
    <3>4. CASE ~Swallowed
      BY <2>12, <3>1, <3>2, <3>4 DEF StackOverflows, TypeOK, WithinFrame
    <3> QED
      BY <3>3, <3>4
  <2>13. CASE Finished \/ UNCHANGED vars
    BY <2>13 DEF Finished, vars, TypeOK, WithinFrame
  <2> QED
    BY <2>1, <2>2, <2>3, <2>4, <2>5, <2>6, <2>7, <2>8, <2>9, <2>10, <2>11, <2>12, <2>13
       DEF Next, Step
<1> QED
  BY <1>1, <1>2, PTL DEF Spec

(* Every variable keeps its type; the stack never grows past its bound and *)
(* the walk never beyond MAX_DUMP_DEPTH frames.                            *)
THEOREM TypesKept == Spec => []TypeOK
BY FramesKept, PTL

-----------------------------------------------------------------------------
(* Ranks of the indices below which the members are ranked.                *)
Rank == {rank \in [Index -> 0..MaxStack - 1] : Ranked(rank)}

(* A member is ranked below the type around it.                            *)
LEMMA MemberBelow ==
  ASSUME TypeOK, WithinFrame, pc = "format", HasNext, NEW rank \in Rank
  PROVE  rank[NextMember] < rank[Top.index]
<1>1. Top \in Activation /\ Top = stack[Len(stack)] /\ Len(stack) \in 1..Len(stack)
  BY DEF TypeOK, WithinFrame, Top
<1>2. Top.index \in Index /\ Top.i \in Nat /\ Top.i >= 1
  BY <1>1 DEF Activation, WithinFrame
<1>3. children[Top.index] \in Seq(Index)
  BY <1>2, SymbolDumpAssumption DEF TypeOK
<1>4. Top.i \in DOMAIN children[Top.index]
  BY <1>2, <1>3 DEF HasNext
<1> QED
  BY <1>2, <1>4 DEF Rank, Ranked, NextMember

(* An activation at depth k is about a type of rank MaxStack - k at most:  *)
(* the types in the stack have ever lower ranks.                           *)
Sinking ==
  \A rank \in Rank :
    /\ overflows = <<>>
    /\ \A k \in 1..Len(stack) : rank[stack[k].index] + k <= MaxStack

(* If the types can be ranked within the room of the stack, that is if no  *)
(* type contains itself and none is nested too deep, no dump overflows it. *)
THEOREM OverflowIsCorruption == Spec => []OverflowsCorrupted
<1> USE Bounds
<1>1. Init => Sinking
  <2> SUFFICES ASSUME Init
               PROVE  Sinking
    OBVIOUS
  <2>1. overflows = <<>> /\ Len(stack) = 0
    BY DEF Init
  <2> QED
    BY <2>1 DEF Sinking
<1>2. TypeOK /\ WithinFrame /\ Sinking /\ [Next]_vars => Sinking'
  <2> SUFFICES ASSUME TypeOK, WithinFrame, Sinking, [Next]_vars
               PROVE  Sinking'
    OBVIOUS
  <2>1. children' = children
    BY DEF Next, Step, Finished, vars, WalkFrame, WalkEnds, DumpSymbolName, DumpSymbolParam,
           EnumEnds, FrameEnds, EnumSymbolsProcCallback, EnterMember, PrintMember, MembersDone,
           ValueFaults, StackOverflows
  <2> DEFINE Sunk(rank) == /\ overflows = <<>>
                           /\ \A k \in 1..Len(stack) : rank[stack[k].index] + k <= MaxStack
  <2> SUFFICES ASSUME NEW rank \in Rank, Sunk(rank)
               PROVE  Sunk(rank)'
    BY <2>1 DEF Sinking, Rank, Ranked
  <2>2. \A index \in Index : rank[index] \in 0..MaxStack - 1
    BY DEF Rank
  <2>3. stack \in Seq(Activation) /\ Len(stack) \in Nat
    BY DEF TypeOK
  <2>4. ASSUME stack' = <<>>, UNCHANGED overflows
        PROVE  Sunk(rank)'
    <3>1. Len(stack') = 0
      BY <2>4
    <3> QED
      BY <2>4, <3>1
  <2>5. ASSUME UNCHANGED <<stack, overflows>>
        PROVE  Sunk(rank)'
    BY <2>5
  <2> HIDE DEF Sunk
  <2>6. CASE WalkFrame \/ WalkEnds \/ DumpSymbolName \/ DumpSymbolParam \/ EnumEnds \/ FrameEnds
    BY <2>5, <2>6
       DEF WalkFrame, WalkEnds, DumpSymbolName, DumpSymbolParam, EnumEnds, FrameEnds, dump
  <2>7. ASSUME NEW s \in Symbol, EnumSymbolsProcCallback(s)
        PROVE  Sunk(rank)'
    <3> DEFINE at == Variable(s, nLevel)
    <3>1. UNCHANGED overflows /\ s.index \in Index
      BY <2>7, SymbolDumpAssumption DEF EnumSymbolsProcCallback, SymbolInfo
    <3>2. stack' = <<>> \/ stack' = <<[index |-> s.index, i |-> 1, offset |-> at]>>
      BY <2>7 DEF EnumSymbolsProcCallback, NoLine, WriteLine
    <3> HIDE DEF at
    <3>3. CASE stack' = <<[index |-> s.index, i |-> 1, offset |-> at]>>
      <4>1. Len(stack') = 1 /\ stack'[1].index = s.index
        BY <3>3
      <4>2. rank[s.index] \in 0..MaxStack - 1
        BY <2>2, <3>1
      <4> QED
        BY <3>1, <4>1, <4>2 DEF Sunk
    <3> QED
      BY <2>4, <3>1, <3>2, <3>3
  <2>8. CASE EnterMember
    <3>1. /\ pc = "format" /\ HasNext /\ UNCHANGED overflows
          /\ stack' = Append(Advanced, [index |-> NextMember, i |-> 1, offset |-> Top.offset])
      BY <2>8 DEF EnterMember
    <3> DEFINE a == [index |-> NextMember, i |-> 1, offset |-> Top.offset]
    <3>2. NextMember \in Index /\ Top \in Activation /\ Top.offset \in Nat
      BY <3>1, NextMemberType, AdvancedTypes DEF Activation
    <3>3. a \in Activation /\ a.index = NextMember /\ stack' = Append(Advanced, a)
      BY <3>1, <3>2 DEF Activation
    <3> HIDE DEF a
    <3>4. /\ Len(stack') = Len(stack) + 1 /\ stack'[Len(stack) + 1] = a
          /\ \A k \in 1..Len(stack) : stack'[k].index = stack[k].index
      BY <2>3, <3>1, <3>3, AdvancedTypes
    <3>5. rank[NextMember] < rank[Top.index] /\ Top.index \in Index
      BY <3>1, <3>2, MemberBelow DEF Activation
    <3>6. Top = stack[Len(stack)] /\ Len(stack) \in 1..Len(stack)
      BY <2>3, <3>1 DEF Top, WithinFrame
    <3>7. rank[NextMember] + Len(stack) + 1 <= MaxStack
      BY <2>2, <2>3, <3>2, <3>5, <3>6 DEF Sunk
    <3>8. \A k \in 1..Len(stack') : k \in 1..Len(stack) \/ k = Len(stack) + 1
      BY <2>3, <3>4
    <3>9. \A k \in 1..Len(stack') : rank[stack'[k].index] + k <= MaxStack
      <4> SUFFICES ASSUME NEW k \in 1..Len(stack')
                   PROVE  rank[stack'[k].index] + k <= MaxStack
        OBVIOUS
      <4>1. CASE k \in 1..Len(stack)
        <5>1. rank[stack[k].index] + k <= MaxStack
          BY <4>1 DEF Sunk
        <5>2. stack'[k].index = stack[k].index
          BY <3>4, <4>1
        <5> QED
          BY <5>1, <5>2
      <4>2. CASE k = Len(stack) + 1
        <5>1. stack'[k].index = NextMember
          BY <3>3, <3>4, <4>2
        <5>2. rank[NextMember] \in 0..MaxStack - 1
          BY <2>2, <3>2
        <5> QED
          BY <2>3, <3>7, <4>2, <5>1, <5>2
      <4> QED
        BY <3>8, <4>1, <4>2
    <3> QED
      BY <3>1, <3>9 DEF Sunk
  <2>9. CASE PrintMember
    <3>1. pc = "format" /\ stack' = Advanced /\ UNCHANGED overflows
      BY <2>9 DEF PrintMember
    <3>2. Len(stack') = Len(stack) /\ \A k \in 1..Len(stack) : stack'[k].index = stack[k].index
      BY <3>1, AdvancedTypes
    <3> QED
      BY <3>1, <3>2 DEF Sunk
  <2>10. CASE MembersDone
    <3>1. pc = "format" /\ UNCHANGED overflows
      BY <2>10 DEF MembersDone
    <3>2. CASE Len(stack) = 1
      BY <2>4, <2>10, <3>1, <3>2 DEF MembersDone, WriteLine
    <3>3. CASE Len(stack) # 1
      <4>1. stack' = SubSeq(stack, 1, Len(stack) - 1)
        BY <2>10, <3>3 DEF MembersDone
      <4>2. Len(stack) \in 1..Len(stack)
        BY <2>3, <3>1 DEF WithinFrame
      <4>3. \A n \in Nat : n \in 1..n /\ n # 1 => n > 1
        OBVIOUS
      <4>4. Len(stack) > 1
        BY <2>3, <3>3, <4>2, <4>3
      <4>5. Len(stack') = Len(stack) - 1 /\ \A k \in 1..Len(stack') : stack'[k] = stack[k]
        BY <2>3, <4>1, <4>4
      <4> QED
        BY <2>3, <3>1, <4>5 DEF Sunk
    <3> QED
      BY <3>2, <3>3
  <2>11. CASE ValueFaults
    BY <2>4, <2>11 DEF ValueFaults, NoLine, WriteLine
  <2>12. CASE StackOverflows
    <3>1. pc = "format" /\ HasNext /\ Len(stack) = MaxStack
      BY <2>12 DEF StackOverflows
    <3>2. NextMember \in Index /\ Top \in Activation /\ Top = stack[Len(stack)]
      BY <3>1, NextMemberType, AdvancedTypes DEF Top
    <3>3. rank[NextMember] < rank[Top.index] /\ Top.index \in Index
      BY <3>1, <3>2, MemberBelow DEF Activation
    <3>4. rank[Top.index] + MaxStack <= MaxStack
      BY <2>3, <3>1, <3>2 DEF Sunk
    <3>5. FALSE
      BY <2>2, <3>2, <3>3, <3>4
    <3> QED
      BY <3>5
  <2>13. CASE Finished \/ UNCHANGED vars
    BY <2>5, <2>13 DEF Finished, vars
  <2> QED
    BY <2>6, <2>7, <2>8, <2>9, <2>10, <2>11, <2>12, <2>13 DEF Next, Step
<1>3. Sinking => OverflowsCorrupted
  BY DEF Sinking, OverflowsCorrupted, Nestable, Rank
<1> QED
  BY <1>1, <1>2, <1>3, FramesKept, PTL DEF Spec

-----------------------------------------------------------------------------
(* The guard page is there until the first overflow of the stack, and the  *)
(* walk until the second.                                                  *)
Guarded ==
  /\ Overflows \in 0..2
  /\ guard <=> Overflows = 0
  /\ pc = "dead" <=> Overflows = 2

(* Whatever the debug information, the process dies of the second overflow *)
(* of the thread's stack and of nothing else, be the first that of an      *)
(* earlier symbol, of an earlier report or the one that is reported.       *)
THEOREM SecondIsFatal == Spec => []DiesOfSecond
<1> USE DEF Overflows
<1>1. Init => Guarded
  <2> SUFFICES ASSUME Init
               PROVE  Guarded
    OBVIOUS
  <2>1. Len(overflows) = 0 /\ pc = "walk" /\ overflown \in BOOLEAN /\ guard = ~overflown
    BY DEF Init
  <2>2. CASE overflown = TRUE
    <3>1. guard = FALSE
      BY <2>1, <2>2, Zenon
    <3>2. (IF overflown THEN 1 ELSE 0) = 1
      BY <2>2, Zenon
    <3>3. Overflows = 1
      BY <2>1, <3>2
    <3> HIDE DEF Overflows
    <3> QED
      BY <2>1, <3>1, <3>3 DEF Guarded
  <2>3. CASE overflown = FALSE
    <3>1. guard = TRUE
      BY <2>1, <2>3, Zenon
    <3>2. (IF overflown THEN 1 ELSE 0) = 0
      BY <2>3, Zenon
    <3>3. Overflows = 0
      BY <2>1, <3>2
    <3> HIDE DEF Overflows
    <3> QED
      BY <2>1, <3>1, <3>3 DEF Guarded
  <2> QED
    BY <2>1, <2>2, <2>3
<1>2. TypeOK /\ WithinFrame /\ Guarded /\ [Next]_vars => Guarded'
  <2> SUFFICES ASSUME TypeOK, WithinFrame, Guarded, [Next]_vars
               PROVE  Guarded'
    OBVIOUS
  <2> USE DEF Guarded
  <2>1. ASSUME NEW s \in Symbol, EnumSymbolsProcCallback(s)
        PROVE  Guarded'
    BY <2>1 DEF EnumSymbolsProcCallback, NoLine, WriteLine
  <2>2. CASE WalkFrame \/ WalkEnds \/ DumpSymbolName \/ DumpSymbolParam \/ EnumEnds \/ FrameEnds
    BY <2>2 DEF WalkFrame, WalkEnds, DumpSymbolName, DumpSymbolParam, EnumEnds, FrameEnds
  <2>3. CASE EnterMember \/ PrintMember \/ MembersDone \/ ValueFaults
    BY <2>3 DEF EnterMember, PrintMember, MembersDone, ValueFaults, NoLine, WriteLine
  <2>4. CASE StackOverflows
    <3>1. overflows \in Seq(Symbol) /\ symbol \in Symbol /\ overflows' = Append(overflows, symbol)
      BY <2>4 DEF StackOverflows, TypeOK, WithinFrame
    <3>2. Len(overflows) \in Nat /\ Len(overflows') = Len(overflows) + 1
      BY <3>1
    <3>3. pc = "format" /\ UNCHANGED overflown
      BY <2>4 DEF StackOverflows
    <3>4. Overflows \in Nat /\ Overflows' = Overflows + 1
      BY <3>2, <3>3
    <3>5. CASE Swallowed
      <4>1. guard' = FALSE /\ pc' = "enum"
        BY <2>4, <3>5 DEF StackOverflows, NoLine, WriteLine
      <4>2. Overflows = 0
        BY <3>5 DEF Swallowed
      <4> HIDE DEF Overflows
      <4>3. Overflows' = 1
        BY <3>4, <4>2
      <4> QED
        BY <4>1, <4>3
    <3>6. CASE ~Swallowed
      <4>1. pc' = "dead" /\ guard' = guard
        BY <2>4, <3>6 DEF StackOverflows
      <4>2. Overflows = 1
        BY <3>3, <3>6 DEF Swallowed
      <4> HIDE DEF Overflows
      <4>3. Overflows' = 2
        BY <3>4, <4>2
      <4>4. guard' = FALSE
        BY <3>6, <4>1 DEF Swallowed, TypeOK
      <4> QED
        BY <4>1, <4>3, <4>4
    <3> QED
      BY <3>5, <3>6
  <2>5. CASE Finished \/ UNCHANGED vars
    BY <2>5 DEF Finished, vars
  <2> QED
    BY <2>1, <2>2, <2>3, <2>4, <2>5 DEF Next, Step
<1>3. Guarded => DiesOfSecond
  <2> HIDE DEF Overflows
  <2> SUFFICES ASSUME Guarded
               PROVE  pc = "dead" <=> Overflows >= 2
    BY DEF DiesOfSecond
  <2> QED
    BY DEF Guarded
<1> QED
  BY <1>1, <1>2, <1>3, FramesKept, PTL DEF Spec

-----------------------------------------------------------------------------
(* The values of the members.                                              *)

(* The table of Report.h and the numbers of cvconst.h agree.               *)
LEMMA Named == \A basicType \in DOMAIN BasicType : TypeName(basicType) = CommentOf[basicType]
<1>1. DOMAIN BasicType =
        {"btNoType", "btVoid", "btChar", "btWChar", "btInt", "btUInt", "btFloat", "btBCD",
         "btBool", "btLong", "btULong", "btCurrency", "btDate", "btVariant", "btComplex",
         "btBit", "btBSTR", "btHresult"}
  BY DEF BasicType
<1>2. /\ TypeName("btNoType") = CommentOf["btNoType"]
      /\ TypeName("btVoid") = CommentOf["btVoid"]
      /\ TypeName("btChar") = CommentOf["btChar"]
      /\ TypeName("btWChar") = CommentOf["btWChar"]
      /\ TypeName("btInt") = CommentOf["btInt"]
      /\ TypeName("btUInt") = CommentOf["btUInt"]
  <2>1. /\ BasicType["btNoType"] + 1 = 1 /\ BasicType["btVoid"] + 1 = 2
        /\ BasicType["btChar"] + 1 = 3 /\ BasicType["btWChar"] + 1 = 4
        /\ BasicType["btInt"] + 1 = 7 /\ BasicType["btUInt"] + 1 = 8
    BY DEF BasicType
  <2>2. /\ rgBaseType[1] = "<user defined>" /\ rgBaseType[2] = "void"
        /\ rgBaseType[3] = "char*" /\ rgBaseType[4] = "wchar_t*"
        /\ rgBaseType[7] = "int" /\ rgBaseType[8] = "unsigned int"
    BY DEF rgBaseType
  <2>3. /\ CommentOf["btNoType"] = "<user defined>" /\ CommentOf["btVoid"] = "void"
        /\ CommentOf["btChar"] = "char*" /\ CommentOf["btWChar"] = "wchar_t*"
        /\ CommentOf["btInt"] = "int" /\ CommentOf["btUInt"] = "unsigned int"
    BY DEF CommentOf
  <2> QED
    BY <2>1, <2>2, <2>3, Zenon DEF TypeName
<1>3. /\ TypeName("btFloat") = CommentOf["btFloat"]
      /\ TypeName("btBCD") = CommentOf["btBCD"]
      /\ TypeName("btBool") = CommentOf["btBool"]
      /\ TypeName("btLong") = CommentOf["btLong"]
      /\ TypeName("btULong") = CommentOf["btULong"]
      /\ TypeName("btCurrency") = CommentOf["btCurrency"]
  <2>1. /\ BasicType["btFloat"] + 1 = 9 /\ BasicType["btBCD"] + 1 = 10
        /\ BasicType["btBool"] + 1 = 11 /\ BasicType["btLong"] + 1 = 14
        /\ BasicType["btULong"] + 1 = 15 /\ BasicType["btCurrency"] + 1 = 26
    BY DEF BasicType
  <2>2. /\ rgBaseType[9] = "float" /\ rgBaseType[10] = "<BCD>"
        /\ rgBaseType[11] = "bool" /\ rgBaseType[14] = "long"
        /\ rgBaseType[15] = "unsigned long" /\ rgBaseType[26] = "<currency>"
    BY DEF rgBaseType
  <2>3. /\ CommentOf["btFloat"] = "float" /\ CommentOf["btBCD"] = "<BCD>"
        /\ CommentOf["btBool"] = "bool" /\ CommentOf["btLong"] = "long"
        /\ CommentOf["btULong"] = "unsigned long" /\ CommentOf["btCurrency"] = "<currency>"
    BY DEF CommentOf
  <2> QED
    BY <2>1, <2>2, <2>3, Zenon DEF TypeName
<1>4. /\ TypeName("btDate") = CommentOf["btDate"]
      /\ TypeName("btVariant") = CommentOf["btVariant"]
      /\ TypeName("btComplex") = CommentOf["btComplex"]
      /\ TypeName("btBit") = CommentOf["btBit"]
      /\ TypeName("btBSTR") = CommentOf["btBSTR"]
      /\ TypeName("btHresult") = CommentOf["btHresult"]
  <2>1. /\ BasicType["btDate"] + 1 = 27 /\ BasicType["btVariant"] + 1 = 28
        /\ BasicType["btComplex"] + 1 = 29 /\ BasicType["btBit"] + 1 = 30
        /\ BasicType["btBSTR"] + 1 = 31 /\ BasicType["btHresult"] + 1 = 32
    BY DEF BasicType
  <2>2. /\ rgBaseType[27] = "<date>" /\ rgBaseType[28] = "VARIANT"
        /\ rgBaseType[29] = "<complex>" /\ rgBaseType[30] = "<bit>"
        /\ rgBaseType[31] = "BSTR" /\ rgBaseType[32] = "HRESULT"
    BY DEF rgBaseType
  <2>3. /\ CommentOf["btDate"] = "<date>" /\ CommentOf["btVariant"] = "VARIANT"
        /\ CommentOf["btComplex"] = "<complex>" /\ CommentOf["btBit"] = "<bit>"
        /\ CommentOf["btBSTR"] = "BSTR" /\ CommentOf["btHresult"] = "HRESULT"
    BY DEF CommentOf
  <2> QED
    BY <2>1, <2>2, <2>3, ZenonT(60) DEF TypeName
<1> QED
  BY <1>1, <1>2, <1>3, <1>4, Zenon

(* What ValuesRight says of one entry.                                     *)
Right(e) ==
  e.format # "members" =>
    /\ e.type = CommentOf[Basic[e.index]]
    /\ e.format \in FormatOutputValue(Basic[e.index], Length[e.index])
    /\ e.level = 0 => e.at = Variable(symbol, nLevel)
    /\ e.level = 1 => e.at = Variable(symbol, nLevel) + Offset[e.index]

(* The text is right while it is made, too; and all activations have the   *)
(* address of the whole variable.                                          *)
Faithful ==
  /\ pc = "format" => \A k \in 1..Len(stack) : stack[k].offset = Variable(symbol, nLevel)
  /\ ~failed /\ pc = "format" => \A k \in 1..Len(buffer) : Right(buffer[k])
  /\ ~failed => \A k \in 1..Len(line) : Right(line[k])

(* A variable without members.                                             *)
LEMMA ValueIsRight ==
  ASSUME NEW s \in Symbol, s.index \in Index, symbol' = s, nLevel' = nLevel,
         NEW f \in FormatOutputValue(GetBasicType(s.index, {}), Length[s.index])
  PROVE  Right(ValueEntry(s, {}, f))'
<1>1. GetBasicType(s.index, {}) = Basic[s.index] /\ Basic[s.index] \in DOMAIN BasicType
  BY SymbolDumpAssumption DEF GetBasicType
<1>2. TypeName(Basic[s.index]) = CommentOf[Basic[s.index]]
  BY <1>1, Named
<1>3. Variable(s, nLevel) = Variable(symbol, nLevel)'
  BY DEF Variable
<1> DEFINE e == ValueEntry(s, {}, f)
<1>4. /\ e.level = 0 /\ e.index = s.index /\ e.format = f
      /\ e.type = CommentOf[Basic[s.index]] /\ e.at = Variable(s, nLevel)
  BY <1>1, <1>2 DEF ValueEntry
<1>5. f \in FormatOutputValue(Basic[s.index], Length[s.index])
  BY <1>1
<1> QED
  BY <1>3, <1>4, <1>5 DEF Right, ValueEntry

(* A member without members, if no query about it fails.                   *)
LEMMA MemberIsRight ==
  ASSUME TypeOK, WithinFrame, pc = "format", HasNext,
         \A k \in 1..Len(stack) : stack[k].offset = Variable(symbol, nLevel),
         NEW f \in MemberFormats(NextMember, {})
  PROVE  Right(MemberEntry({}, f))
<1>1. NextMember \in Index /\ Top.offset = Variable(symbol, nLevel)
  <2>1. Len(stack) \in 1..Len(stack) /\ Top = stack[Len(stack)]
    BY DEF TypeOK, WithinFrame, Top
  <2> QED
    BY <2>1, NextMemberType
<1>2. /\ GetBasicType(NextMember, {}) = Basic[NextMember]
      /\ Basic[NextMember] \in DOMAIN BasicType
  BY <1>1, SymbolDumpAssumption DEF GetBasicType
<1>3. TypeName(Basic[NextMember]) = CommentOf[Basic[NextMember]]
  BY <1>2, Named
<1>4. f \in FormatOutputValue(Basic[NextMember], Length[NextMember])
  BY <1>2 DEF MemberFormats
<1>5. MemberAddress(Top.offset, NextMember, {}) = Variable(symbol, nLevel) + Offset[NextMember]
  BY <1>1 DEF MemberAddress
<1>6. Len(stack) # 0
  BY DEF TypeOK, WithinFrame
<1> DEFINE e == MemberEntry({}, f)
<1>7. /\ e.level = Len(stack) /\ e.index = NextMember /\ e.format = f
      /\ e.type = CommentOf[Basic[NextMember]]
      /\ e.at = Variable(symbol, nLevel) + Offset[NextMember]
  BY <1>2, <1>3, <1>5 DEF MemberEntry
<1> HIDE DEF e
<1>8. Right(e)
  BY <1>4, <1>6, <1>7 DEF Right
<1> QED
  BY <1>8 DEF e

(* A round of the loop leaves the addresses alone.                         *)
LEMMA OffsetsKept ==
  ASSUME TypeOK, WithinFrame, pc = "format"
  PROVE  /\ \A k \in 1..Len(stack) : Advanced[k].offset = stack[k].offset
         /\ Top = stack[Len(stack)] /\ Len(stack) \in 1..Len(stack)
<1>1. stack \in Seq(Activation) /\ Len(stack) \in 1..Len(stack)
  BY DEF TypeOK, WithinFrame
<1>2. \A a \in Activation : [a EXCEPT !.i = a.i + 1].offset = a.offset
  BY DEF Activation
<1>3. \A k \in 1..Len(stack) :
        Advanced[k] = IF k = Len(stack) THEN [stack[k] EXCEPT !.i = stack[k].i + 1]
                                        ELSE stack[k]
  BY <1>1 DEF Advanced
<1>4. \A k \in 1..Len(stack) : stack[k] \in Activation
  BY <1>1
<1> QED
  BY <1>1, <1>2, <1>3, <1>4 DEF Top

(* Whatever the debug information, the values of a variable and its direct *)
(* members are those at its address and at their offsets in it.            *)
THEOREM ValuesAreRight == Spec => []ValuesRight
<1> USE Bounds
<1>1. Init => Faithful
  <2> SUFFICES ASSUME Init
               PROVE  Faithful
    OBVIOUS
  <2>1. pc = "walk" /\ Len(line) = 0
    BY DEF Init
  <2> QED
    BY <2>1 DEF Faithful
<1>2. TypeOK /\ WithinFrame /\ Faithful /\ [Next]_vars => Faithful'
  <2> SUFFICES ASSUME TypeOK, WithinFrame, Faithful, [Next]_vars
               PROVE  Faithful'
    OBVIOUS
  <2>1. stack \in Seq(Activation) /\ Len(stack) \in Nat /\ buffer \in Seq(Entry)
        /\ Len(buffer) \in Nat
    BY DEF TypeOK
  <2>2. ASSUME UNCHANGED <<nLevel, symbol, failed, line, stack, buffer>>, pc # "format",
               pc' # "format"
        PROVE  Faithful'
    BY <2>2 DEF Faithful, Right
  <2>3. ASSUME line' = <<>>, pc' # "format"
        PROVE  Faithful'
    BY <2>3 DEF Faithful
  <2>13. ASSUME UNCHANGED <<nLevel, symbol, line>>, ~failed' => ~failed,
                \A k \in 1..Len(stack') : stack'[k].offset = Variable(symbol, nLevel),
                ~failed' => \A k \in 1..Len(buffer') : Right(buffer'[k])
         PROVE  Faithful'
    BY <2>13 DEF Faithful, Right
  <2>4. CASE WalkFrame \/ WalkEnds \/ DumpSymbolName \/ DumpSymbolParam \/ EnumEnds
    BY <2>2, <2>4 DEF WalkFrame, WalkEnds, DumpSymbolName, DumpSymbolParam, EnumEnds, dump
  <2>5. CASE FrameEnds
    BY <2>3, <2>5 DEF FrameEnds
  <2>6. ASSUME NEW s \in Symbol, EnumSymbolsProcCallback(s)
        PROVE  Faithful'
    <3>1. symbol' = s /\ nLevel' = nLevel /\ s.index \in Index
      BY <2>6, Called, SymbolDumpAssumption DEF SymbolInfo
    <3>2. PICK failing \in SUBSET {"children", "basetype"} : Callback(s, failing)
      BY <2>6, Called
    <3>3. CASE NoLine
      BY <2>3, <3>3 DEF NoLine, WriteLine
    <3>4. CASE /\ stack' = <<[index |-> s.index, i |-> 1, offset |-> Variable(s, nLevel)]>>
               /\ buffer' = <<WholeEntry(s)>>
               /\ line' = <<>>
               /\ pc' = "format"
      <4> DEFINE e == WholeEntry(s)
                 a == [index |-> s.index, i |-> 1, offset |-> Variable(s, nLevel)]
      <4>1. e.format = "members" /\ a.offset = Variable(s, nLevel)
        BY DEF WholeEntry
      <4>2. buffer' = <<e>> /\ stack' = <<a>>
        BY <3>4
      <4>3. Variable(s, nLevel) = Variable(symbol, nLevel)'
        BY <3>1 DEF Variable
      <4> HIDE DEF e, a
      <4>4. \A k \in 1..Len(buffer') : buffer'[k].format = "members"
        BY <4>1, <4>2
      <4>5. \A k \in 1..Len(stack') : stack'[k].offset = Variable(s, nLevel)
        BY <4>1, <4>2
      <4> QED
        BY <3>4, <4>3, <4>4, <4>5 DEF Faithful, Right
    <3>5. ASSUME NEW f \in FormatOutputValue(GetBasicType(s.index, failing), Length[s.index]),
                 WriteLine(<<ValueEntry(s, failing, f)>>)
          PROVE  Faithful'
      <4>1. line' = <<ValueEntry(s, failing, f)>> /\ pc' = "enum"
        BY <3>5 DEF WriteLine
      <4>2. ~failed' => failing = {}
        BY <3>2 DEF Callback
      <4>3. ASSUME ~failed'
            PROVE  \A k \in 1..Len(line') : Right(line[k])'
        <5>1. Right(ValueEntry(s, {}, f))'
          BY <3>1, <3>5, <4>2, <4>3, ValueIsRight
        <5>2. line' = <<ValueEntry(s, {}, f)>>
          BY <4>1, <4>2, <4>3
        <5>3. \A k \in 1..Len(line') : line'[k] = ValueEntry(s, {}, f)
          BY <5>2
        <5>4. ValueEntry(s, {}, f)' = ValueEntry(s, {}, f)
          BY <3>1 DEF ValueEntry, Variable
        <5>5. \A k \in 1..Len(line') : line'[k] = ValueEntry(s, {}, f)'
          BY <5>3, <5>4
        <5> QED
          BY <5>1, <5>5 DEF Right
      <4> QED
        BY <4>1, <4>3 DEF Faithful
    <3> QED
      BY <3>2, <3>3, <3>4, <3>5 DEF Callback
  <2>7. CASE EnterMember
    <3>1. /\ pc = "format" /\ HasNext /\ pc' = "format" /\ (~failed' => ~failed)
          /\ stack' = Append(Advanced, [index |-> NextMember, i |-> 1, offset |-> Top.offset])
          /\ UNCHANGED <<nLevel, symbol, line>>
          /\ \E failing \in SUBSET {"basetype"} :
               buffer' = Append(buffer, [level |-> Len(stack), index |-> NextMember,
                                         type |-> TypeName(GetBasicType(NextMember, failing)),
                                         format |-> "members", at |-> Top.offset])
      BY <2>7 DEF EnterMember
    <3> DEFINE a == [index |-> NextMember, i |-> 1, offset |-> Top.offset]
    <3>2. stack' = Append(Advanced, a) /\ a.offset = Top.offset
      BY <3>1
    <3>3. \E e : buffer' = Append(buffer, e) /\ e.format = "members"
      BY <3>1
    <3> HIDE DEF a
    <3>4. Advanced \in Seq(Activation) /\ Len(Advanced) = Len(stack)
      BY <3>1, AdvancedTypes
    <3>5. \A k \in 1..Len(stack') : stack'[k].offset = Variable(symbol, nLevel)
      BY <2>1, <3>1, <3>2, <3>4, OffsetsKept DEF Faithful
    <3>6. ~failed => \A k \in 1..Len(buffer') : Right(buffer'[k])
      BY <2>1, <3>1, <3>3 DEF Faithful, Right
    <3> QED
      BY <2>13, <3>1, <3>5, <3>6
  <2>8. CASE PrintMember
    <3>1. /\ pc = "format" /\ HasNext /\ pc' = "format" /\ stack' = Advanced
          /\ UNCHANGED <<nLevel, symbol, line>>
      BY <2>8 DEF PrintMember
    <3>2. PICK failing \in SUBSET Query :
            /\ failed' = (failed \/ failing # {})
            /\ \E f \in MemberFormats(NextMember, failing) :
                 buffer' = Append(buffer, MemberEntry(failing, f))
      BY <2>8 DEF PrintMember, MemberEntry
    <3>3. \A k \in 1..Len(stack') : stack'[k].offset = Variable(symbol, nLevel)
      BY <3>1, AdvancedTypes, OffsetsKept DEF Faithful
    <3>4. ASSUME ~failed'
          PROVE  \A k \in 1..Len(buffer') : Right(buffer'[k])
      <4>1. failing = {} /\ ~failed
        BY <3>2, <3>4
      <4>2. PICK f \in MemberFormats(NextMember, {}) : buffer' = Append(buffer, MemberEntry({}, f))
        BY <3>2, <4>1
      <4>3. Right(MemberEntry({}, f))
        BY <3>1, MemberIsRight DEF Faithful
      <4> QED
        BY <2>1, <3>1, <4>1, <4>2, <4>3 DEF Faithful
    <3> QED
      BY <2>13, <3>1, <3>2, <3>3, <3>4
  <2>9. CASE MembersDone
    <3>1. pc = "format" /\ UNCHANGED <<nLevel, symbol, failed>>
      BY <2>9 DEF MembersDone
    <3>2. CASE Len(stack) = 1
      <4>1. line' = buffer /\ pc' = "enum"
        BY <2>9, <3>2 DEF MembersDone, WriteLine
      <4> QED
        BY <3>1, <4>1 DEF Faithful, Right
    <3>3. CASE Len(stack) # 1
      <4>1. stack' = SubSeq(stack, 1, Len(stack) - 1) /\ UNCHANGED <<pc, buffer, line>>
        BY <2>9, <3>3 DEF MembersDone
      <4>2. Len(stack) \in 1..Len(stack)
        BY <2>1, <3>1 DEF WithinFrame
      <4>3. \A k \in 1..Len(stack') : k \in 1..Len(stack) /\ stack'[k] = stack[k]
        BY <2>1, <4>1, <4>2
      <4> QED
        BY <3>1, <4>1, <4>3 DEF Faithful, Right
    <3> QED
      BY <3>2, <3>3
  <2>10. CASE ValueFaults
    BY <2>3, <2>10 DEF ValueFaults, NoLine, WriteLine
  <2>11. CASE StackOverflows
    <3>1. CASE Swallowed
      BY <2>3, <2>11, <3>1 DEF StackOverflows, NoLine, WriteLine
    <3>2. CASE ~Swallowed
      BY <2>11, <3>2 DEF StackOverflows, Faithful, Right
    <3> QED
      BY <3>1, <3>2
  <2>12. CASE Finished \/ UNCHANGED vars
    BY <2>12 DEF Finished, vars, Faithful, Right
  <2> QED
    BY <2>4, <2>5, <2>6, <2>7, <2>8, <2>9, <2>10, <2>11, <2>12 DEF Next, Step
<1>3. Faithful => ValuesRight
  BY DEF Faithful, ValuesRight, Right
<1> QED
  BY <1>1, <1>2, <1>3, FramesKept, PTL DEF Spec
=============================================================================
