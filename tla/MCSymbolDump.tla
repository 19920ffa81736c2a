---------------------------- MODULE MCSymbolDump ----------------------------
(* SymbolDump with small debug information, for TLC.                       *)
EXTENDS SymbolDump, TLC

(* Two user defined types and two of values.                               *)
MCIndex == {"outer", "inner", "number", "text"}
MCChildren ==
  ("outer" :> {<<"number", "inner">>, <<"inner", "inner">>}) @@
  ("inner" :> {<<>>, <<"number", "text">>, <<"text", "inner">>, <<"outer">>}) @@
  ("number" :> {<<>>}) @@ ("text" :> {<<>>})
MCOffset == ("outer" :> 0) @@ ("inner" :> 8) @@ ("number" :> 2) @@ ("text" :> 4)
MCLength == ("outer" :> 16) @@ ("inner" :> 8) @@ ("number" :> 8) @@ ("text" :> 4)
MCBasic == ("outer" :> "btNoType") @@ ("inner" :> "btNoType") @@ ("number" :> "btFloat")
           @@ ("text" :> "btChar")
MCAddrFrame == [level \in 0..MaxDumpDepth |-> 100 * (level + 1)]

Sym(flag, function, place, index) ==
  [flag |-> flag, function |-> function, place |-> place, address |-> 1000, index |-> index]
MCSymbol ==
  {Sym("parameter", FALSE, "frame", "outer"), Sym("local", FALSE, "global", "inner"),
   Sym("local", FALSE, "frame", "text"), Sym("local", FALSE, "register", "number"),
   Sym("local", TRUE, "global", "number"), Sym("other", FALSE, "global", "outer")}
=============================================================================
