----------------------------- MODULE SymbolDump -----------------------------
(***************************************************************************)
(* The call stack of a report: WalkStack() of src/src/Report.cpp with the  *)
(* parameters and local variables that it dumps of every frame.            *)
(*                                                                         *)
(* What is known of a variable is what SymGetTypeInfo() of dbghelp.dll     *)
(* answers: of each type index its children, its basic type, its length    *)
(* and its offset in the type around it.  The debug information may be     *)
(* corrupted, so that a type is among its own descendants, and every query *)
(* may fail.  DumpTypeIndex() is recursive: its activations are a stack.   *)
(* An exception inside the dump of one symbol is swallowed by the          *)
(* __except of EnumSymbolsProcCallback(), a stack overflow as well.        *)
(***************************************************************************)
EXTENDS Integers, Sequences

CONSTANTS
  Index,         \* type indices of the debug information
  Children,      \* the sequences of children each index may have
  Offset,        \* TI_GET_OFFSET of each index
  Length,        \* TI_GET_LENGTH of the type of each index
  Basic,         \* basic type of each index, "btNoType" of a user defined one
  Symbol,        \* the symbols that SymEnumSymbols() may come to
  AddrFrame,     \* sf.AddrFrame.Offset of the frame of each level
  MaxDumpDepth,  \* MAX_DUMP_DEPTH
  MaxStack,      \* bound: activations of DumpTypeIndex() that the stack has room for
  MaxSymbols,    \* bound: symbols of one frame
  Wild           \* the value of an uninitialised variable

(* The basic types that the debug information knows, and their numbers.    *)
BasicType ==
  [btNoType |-> 0, btVoid |-> 1, btChar |-> 2, btWChar |-> 3, btInt |-> 6, btUInt |-> 7,
   btFloat |-> 8, btBCD |-> 9, btBool |-> 10, btLong |-> 13, btULong |-> 14,
   btCurrency |-> 25, btDate |-> 26, btVariant |-> 27, btComplex |-> 28, btBit |-> 29,
   btBSTR |-> 30, btHresult |-> 31]

(* What the report calls them, by their numbers.                           *)
rgBaseType ==
  <<"<user defined>", "void", "char*", "wchar_t*", "signed char", "unsigned char", "int",
    "unsigned int", "float", "<BCD>", "bool", "short", "unsigned short", "long",
    "unsigned long", "__int8", "__int16", "__int32", "__int64", "__int128",
    "unsigned __int8", "unsigned __int16", "unsigned __int32", "unsigned __int64",
    "unsigned __int128", "<currency>", "<date>", "VARIANT", "<complex>", "<bit>", "BSTR",
    "HRESULT">>

TypeName(basicType) == rgBaseType[BasicType[basicType] + 1]
TypeNames == {TypeName(basicType) : basicType \in DOMAIN BasicType}

(* A SYMBOL_INFO: its flags, whether its tag is SymTagFunction, where      *)
(* Address says it is.                                                     *)
SymbolInfo ==
  [flag : {"parameter", "local", "other"}, function : BOOLEAN,
   place : {"frame", "register", "global"}, address : Nat, index : Index]

ASSUME SymbolDumpAssumption ==
  /\ Children \in [Index -> SUBSET Seq(Index)]
  /\ Offset \in [Index -> Nat]
  /\ Length \in [Index -> Nat]
  /\ Basic \in [Index -> DOMAIN BasicType]
  /\ Symbol \subseteq SymbolInfo
  /\ AddrFrame \in [0..MaxDumpDepth -> Nat \ {0}]
  /\ MaxDumpDepth \in Nat
  /\ MaxStack \in Nat \ {0}
  /\ MaxSymbols \in Nat
  /\ Wild \notin Nat

VARIABLES
  children,   \* TI_FINDCHILDREN of each index
  overflown,  \* the thread's stack had overflowed before the walk began
  pc,         \* where the walk is
  nLevel,     \* the frame
  callbacks,  \* symbols of the frame that the callback has been called with
  symbol,     \* pSymInfo of the last call
  stack,      \* activations of DumpTypeIndex() that iterate through children
  buffer,     \* szBuffer: an entry for the symbol and for each of its members
  failed,     \* a query about the symbol has failed
  line,       \* the line written of the last symbol, <<>> if there is none
  guard,      \* the guard page at the end of the stack is in place
  overflows   \* the symbols whose dump has overflowed the stack, in order

vars == <<children, overflown, pc, nLevel, callbacks, symbol, stack, buffer, failed,
          line, guard, overflows>>

NoSymbol == [flag |-> "other", function |-> FALSE, place |-> "global", address |-> 0]

Location == {"walk", "name", "param", "enum", "format", "end", "done", "dead"}
Format == {"members", "none", "hex", "float", "string"}
Query == {"children", "basetype", "offset", "typeid", "length"}

(* An entry of the text: the level of its indentation, the index it is     *)
(* about, what its type is called ("" if it is not), and the value as it   *)
(* is shown and the address it is read from.                               *)
Entry == [level : Nat, index : Index, type : TypeNames \cup {""}, format : Format,
          at : Nat \cup {Wild}]
Activation == [index : Index, i : Nat, offset : Nat]

TypeOK ==
  /\ \A index \in Index : children[index] \in Children[index]
  /\ overflown \in BOOLEAN
  /\ pc \in Location
  /\ nLevel \in 0..MaxDumpDepth
  /\ callbacks \in 0..MaxSymbols
  /\ symbol \in Symbol \cup {NoSymbol}
  /\ stack \in Seq(Activation) /\ Len(stack) <= MaxStack
  /\ buffer \in Seq(Entry)
  /\ failed \in BOOLEAN
  /\ line \in Seq(Entry)
  /\ guard \in BOOLEAN
  /\ overflows \in Seq(Symbol)

(* crExceptionFilter() reports a stack overflow on the stack that has      *)
(* overflowed, and the dump of an earlier report may have swallowed one.   *)
Init ==
  /\ children \in {c \in [Index -> UNION {Children[index] : index \in Index}] :
                    \A index \in Index : c[index] \in Children[index]}
  /\ overflown \in BOOLEAN
  /\ pc = "walk"
  /\ nLevel = 0
  /\ callbacks = 0
  /\ symbol = NoSymbol
  /\ stack = <<>>
  /\ buffer = <<>>
  /\ failed = FALSE
  /\ line = <<>>
  /\ guard = ~overflown
  /\ overflows = <<>>

-----------------------------------------------------------------------------
(* WalkStack(), DumpSymbolName() and DumpSymbolParam().                    *)

(* The variables of one symbol's dump.                                     *)
dump == <<symbol, stack, buffer, failed, line>>

(* Mutant: one round too many.                                             *)
NotBeyondDepth == nLevel <= MaxDumpDepth

(* The condition of the loop.                                              *)
WithinDepth == nLevel < MaxDumpDepth

(* StackWalk() finds a frame, and a valid one.                             *)
WalkFrame ==
  /\ pc = "walk"
  /\ WithinDepth
  /\ pc' = "name"
  /\ UNCHANGED <<children, overflown, nLevel, callbacks, dump, guard, overflows>>

WalkEnds ==
  /\ pc = "walk"
  /\ pc' = "done"
  /\ UNCHANGED <<children, overflown, nLevel, callbacks, dump, guard, overflows>>

(* The line with the function and its source is left out if either is not  *)
(* known; the parameters and local variables follow all the same.          *)
DumpSymbolName ==
  /\ pc = "name"
  /\ pc' = "param"
  /\ UNCHANGED <<children, overflown, nLevel, callbacks, dump, guard, overflows>>

(* SymSetContext() succeeds or fails.                                      *)
DumpSymbolParam ==
  /\ pc = "param"
  /\ callbacks' = 0
  /\ pc' \in {"enum", "end"}
  /\ UNCHANGED <<children, overflown, nLevel, dump, guard, overflows>>

(* SymEnumSymbols() has come to its end, or fails, which is logged.        *)
EnumEnds ==
  /\ pc = "enum"
  /\ pc' = "end"
  /\ UNCHANGED <<children, overflown, nLevel, callbacks, dump, guard, overflows>>

(* Mutant: nLevel is not incremented.                                      *)
SameLevel == nLevel

NextLevel == nLevel + 1

FrameEnds ==
  /\ pc = "end"
  /\ nLevel' = NextLevel
  /\ symbol' = NoSymbol
  /\ failed' = FALSE
  /\ line' = <<>>
  /\ pc' = "walk"
  /\ UNCHANGED <<children, overflown, callbacks, stack, buffer, guard, overflows>>

-----------------------------------------------------------------------------
(* What the queries of one activation give.                                *)

(* DumpTypeIndex() goes through the children if both of its queries say so.*)
HasMembers(index, failing) == children[index] # <<>> /\ "children" \notin failing

(* GetBasicType(): of the index itself, else of its type.                  *)
GetBasicType(index, failing) == IF "basetype" \in failing THEN "btNoType" ELSE Basic[index]

(* FormatOutputValue(): the formats a value of that type and length may be *)
(* shown in.  Four bytes of btChar are the address of a string, which may  *)
(* be readable or not; of any other length nothing is shown.               *)
FormatOutputValue(basicType, length) ==
  CASE length \notin {1, 2, 4, 8}                 -> {"none"}
    [] length \in {4, 8} /\ basicType = "btFloat" -> {"float"}
    [] length = 4 /\ basicType = "btChar"         -> {"string", "hex"}
    [] OTHER                                      -> {"hex"}

(* Mutant: the address of the whole.                                       *)
WholeAddress(offset, index, failing) == IF "offset" \in failing THEN Wild ELSE offset

(* Whether the queries for the offset, the type and the length of a member *)
(* have succeeded is not looked at: without an answer the variable keeps   *)
(* the value it happens to have.                                           *)
MemberAddress(offset, index, failing) ==
  IF "offset" \in failing THEN Wild ELSE offset + Offset[index]

MemberFormats(index, failing) ==
  LET basicType == GetBasicType(index, failing)
  IN IF {"typeid", "length"} \cap failing = {}
       THEN FormatOutputValue(basicType, Length[index])
       ELSE UNION {FormatOutputValue(basicType, length) : length \in {0, 1, 4, 8}}

-----------------------------------------------------------------------------
(* The dump of one symbol.                                                 *)

(* The line is written, or the callback returns without one.               *)
WriteLine(entries) ==
  /\ line' = entries
  /\ stack' = <<>>
  /\ buffer' = <<>>
  /\ pc' = "enum"

NoLine == WriteLine(<<>>)

(* FormatSymbolValue() reports no functions and no variables in registers. *)
Reported(s) == s.flag # "other" /\ ~s.function /\ s.place # "register"

(* pVariable: every place but a register is taken relative to AddrFrame or *)
(* as an address.                                                          *)
Variable(s, level) == IF s.place = "frame" THEN AddrFrame[level] + s.address ELSE s.address

(* EnumSymbolsProcCallback() and FormatSymbolValue(), up to the children.  *)
(* Reading the value may fail.                                             *)
EnumSymbolsProcCallback(s) ==
  /\ pc = "enum"
  /\ callbacks < MaxSymbols
  /\ callbacks' = callbacks + 1
  /\ symbol' = s
  /\ \E failing \in SUBSET {"children", "basetype"} :
       LET at == Variable(s, nLevel)
           basicType == GetBasicType(s.index, failing)
       IN /\ failed' = (failing # {})
          /\ \/ ~Reported(s) /\ NoLine
             \/ /\ Reported(s) /\ HasMembers(s.index, failing)
                /\ stack' = <<[index |-> s.index, i |-> 1, offset |-> at]>>
                /\ buffer' = <<[level |-> 0, index |-> s.index, type |-> "",
                                format |-> "members", at |-> at]>>
                /\ line' = <<>>
                /\ pc' = "format"
             \/ /\ Reported(s) /\ ~HasMembers(s.index, failing)
                /\ \/ NoLine
                   \/ \E f \in FormatOutputValue(basicType, Length[s.index]) :
                        WriteLine(<<[level |-> 0, index |-> s.index,
                                     type |-> TypeName(basicType), format |-> f, at |-> at]>>)
  /\ UNCHANGED <<children, overflown, nLevel, guard, overflows>>

Top == stack[Len(stack)]

(* Mutant: the last child is left out.                                     *)
HasNextButOne == Top.i < Len(children[Top.index])

(* The condition of the loop through the children.                         *)
HasNext == Top.i <= Len(children[Top.index])

(* Mutant: the index of the type in the place of its child's.              *)
NextMemberSame == Top.index

NextMember == children[Top.index][Top.i]

(* The stack with the loop one round further.                              *)
Advanced == [stack EXCEPT ![Len(stack)].i = @ + 1]

(* A round whose child has members of its own: one activation more, with   *)
(* the offset of the one around it, to which the child's is not added.     *)
EnterMember ==
  /\ pc = "format"
  /\ HasNext
  /\ Len(stack) < MaxStack
  /\ \E failing \in SUBSET {"basetype"} :
       /\ HasMembers(NextMember, failing)
       /\ failed' = (failed \/ failing # {})
       /\ buffer' = Append(buffer, [level |-> Len(stack), index |-> NextMember,
                                    type |-> TypeName(GetBasicType(NextMember, failing)),
                                    format |-> "members", at |-> Top.offset])
       /\ stack' = Append(Advanced, [index |-> NextMember, i |-> 1, offset |-> Top.offset])
  /\ UNCHANGED <<children, overflown, pc, nLevel, callbacks, symbol, line, guard, overflows>>

(* A round whose child has none: its value.                                *)
PrintMember ==
  /\ pc = "format"
  /\ HasNext
  /\ Len(stack) < MaxStack
  /\ \E failing \in SUBSET Query :
       /\ ~HasMembers(NextMember, failing)
       /\ failed' = (failed \/ failing # {})
       /\ \E f \in MemberFormats(NextMember, failing) :
            buffer' = Append(buffer, [level |-> Len(stack), index |-> NextMember,
                                      type |-> TypeName(GetBasicType(NextMember, failing)),
                                      format |-> f,
                                      at |-> MemberAddress(Top.offset, NextMember, failing)])
  /\ stack' = Advanced
  /\ UNCHANGED <<children, overflown, pc, nLevel, callbacks, symbol, line, guard, overflows>>

(* The loop has ended: back to the activation below, or to                 *)
(* EnumSymbolsProcCallback(), which writes the line.                       *)
MembersDone ==
  /\ pc = "format"
  /\ ~HasNext
  /\ IF Len(stack) = 1
       THEN WriteLine(buffer)
       ELSE /\ stack' = SubSeq(stack, 1, Len(stack) - 1)
            /\ UNCHANGED <<pc, buffer, line>>
  /\ UNCHANGED <<children, overflown, nLevel, callbacks, symbol, failed, guard, overflows>>

(* Reading a value fails.                                                  *)
ValueFaults ==
  /\ pc = "format"
  /\ NoLine
  /\ UNCHANGED <<children, overflown, nLevel, callbacks, symbol, failed, guard, overflows>>

(* Mutant: "__except" leaves a stack overflow to the handlers.             *)
SwallowedNever == FALSE

(* The exception of a stack overflow takes the guard page with it, and     *)
(* nothing puts it back: without it an overflow ends the process at once.  *)
Swallowed == guard

StackOverflows ==
  /\ pc = "format"
  /\ HasNext
  /\ Len(stack) = MaxStack
  /\ overflows' = Append(overflows, symbol)
  /\ IF Swallowed
       THEN guard' = FALSE /\ NoLine
       ELSE pc' = "dead" /\ UNCHANGED <<stack, buffer, line, guard>>
  /\ UNCHANGED <<children, overflown, nLevel, callbacks, symbol, failed>>

-----------------------------------------------------------------------------
Step ==
  \/ WalkFrame \/ WalkEnds
  \/ DumpSymbolName \/ DumpSymbolParam
  \/ EnumEnds \/ FrameEnds
  \/ \E s \in Symbol : EnumSymbolsProcCallback(s)
  \/ EnterMember \/ PrintMember \/ MembersDone
  \/ ValueFaults \/ StackOverflows

Finished == pc \in {"done", "dead"} /\ UNCHANGED vars

Next == Step \/ Finished

Spec == Init /\ [][Next]_vars

(* The walk is sequential code of a thread that is scheduled, and the      *)
(* calls of dbghelp.dll return.                                            *)
FairSpec == Spec /\ WF_vars(Step)

-----------------------------------------------------------------------------
(* Properties.                                                             *)

(* Where the members of the entry at k stand: one level below it, before   *)
(* the next entry that is not below it.                                    *)
Members(l, k) ==
  {j \in k + 1..Len(l) : /\ l[j].level = l[k].level + 1
                         /\ \A m \in k + 1..j : l[m].level > l[k].level}

(* These are n, in the order of the indices that they are about.           *)
Shows(l, k, indices, n) ==
  \E place \in [1..n -> Members(l, k)] :
    /\ Members(l, k) = {place[a] : a \in 1..n}
    /\ \A a, b \in 1..n : a < b => place[a] < place[b]
    /\ \A a \in 1..n : l[place[a]].index = indices[a]

(* The entry at k, of a type with those children, has all of them below    *)
(* it; or it has none, as the type has none or some query has failed.      *)
EntryWhole(l, k, indices, failing) ==
  \/ l[k].format = "members" /\ Shows(l, k, indices, Len(indices))
  \/ /\ l[k].format # "members"
     /\ k < Len(l) => l[k + 1].level <= l[k].level
     /\ indices = <<>> \/ failing

(* The line of a symbol is whole: it is about that symbol and below each   *)
(* type stand, in order and one level further in, its children and nothing *)
(* else; a type without them stands there only if it has none or a query   *)
(* has failed.  No exception leaves half a line behind and no line holds a *)
(* part of an earlier one.                                                 *)
LineWhole ==
  line # <<>> =>
    /\ line[1].level = 0 /\ line[1].index = symbol.index
    /\ \A k \in 2..Len(line) : line[k].level \in 1..line[k - 1].level + 1
    /\ \A k \in 1..Len(line) : EntryWhole(line, k, children[line[k].index], failed)

CommentOf ==
  [btNoType |-> "<user defined>", btVoid |-> "void", btChar |-> "char*", btWChar |-> "wchar_t*",
   btInt |-> "int", btUInt |-> "unsigned int", btFloat |-> "float", btBCD |-> "<BCD>",
   btBool |-> "bool", btLong |-> "long", btULong |-> "unsigned long",
   btCurrency |-> "<currency>", btDate |-> "<date>", btVariant |-> "VARIANT",
   btComplex |-> "<complex>", btBit |-> "<bit>", btBSTR |-> "BSTR", btHresult |-> "HRESULT"]

(* Unless a query has failed, the value of a variable and those of its     *)
(* direct members are shown as their types ask for, read at the variable   *)
(* and at the members' offsets in it.  Members nested deeper are read at   *)
(* their offset in the type around them, but from the variable's address.  *)
(* The types are called what the comments of src/src/Report.h:25-56 say,   *)
(* though the numbers of src/src/cvconst.h have gaps.                      *)
ValuesRight ==
  ~failed =>
    \A k \in 1..Len(line) : line[k].format # "members" =>
      /\ line[k].type = CommentOf[Basic[line[k].index]]
      /\ line[k].format \in FormatOutputValue(Basic[line[k].index], Length[line[k].index])
      /\ line[k].level = 0 => line[k].at = Variable(symbol, nLevel)
      /\ line[k].level = 1 => line[k].at = Variable(symbol, nLevel) + Offset[line[k].index]

(* The types do not contain themselves, and not deeper than the stack has  *)
(* room for: their indices can be ranked below those of the types around   *)
(* them.                                                                   *)
Ranked(rank) ==
  \A index \in Index : \A n \in DOMAIN children[index] :
    rank[children[index][n]] < rank[index]
Nestable == \E rank \in [Index -> 0..MaxStack - 1] : Ranked(rank)

(* The dump of a symbol overflows the stack only if the debug information  *)
(* is corrupted.                                                           *)
OverflowsCorrupted == overflows # <<>> => ~Nestable

(* A stack that overflows once is survived, and no more: one symbol that   *)
(* overflows it costs its own line only, the second one the process, and   *)
(* the process dies of nothing else.  If the report is of a stack overflow *)
(* itself, or follows a dump that has swallowed one on the same thread,    *)
(* the first symbol is that second one.                                    *)
Overflows == Len(overflows) + (IF overflown THEN 1 ELSE 0)

DiesOfSecond == pc = "dead" <=> Overflows >= 2

(* Whatever the debug information, the walk ends, by the death of the      *)
(* process if need be: a type that contains itself does not keep the       *)
(* handler from terminating the process.                                   *)
WalkReturns == <>(pc \in {"done", "dead"})

(* "To prevent recursion which could result from corrupted data we limit   *)
(* ourselves to that many levels of embedded fields inside structs"        *)
(* (src/src/Report.h:14-16).                                               *)
EmbeddingLimited == Len(stack) - 1 <= MaxDumpDepth
=============================================================================
