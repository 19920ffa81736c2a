--------------------------- MODULE TextUtilities ----------------------------
(***************************************************************************)
(* The functions of src/src/Utility.cpp that make texts.  A text is its    *)
(* length, a path the sequence of its characters as far as the functions   *)
(* tell them apart.  Their results depend on the C run-time.               *)
(***************************************************************************)
EXTENDS Integers, SequencesExt

(* That of C99, of Visual C++ 8.0 and later, and of those before.          *)
Runtime == {"c99", "msvc8", "msvc7"}

-----------------------------------------------------------------------------
(* vsnprintf() of a text of length n to a buffer of size characters: its   *)
(* result, and how many characters are then in the buffer.                 *)
vsnprintf(runtime, n, size) ==
  CASE n < size                                -> [result |-> n, kept |-> n]
    [] n >= size /\ runtime = "c99"            -> [result |-> n, kept |-> size - 1]
    [] n >= size /\ runtime # "c99" /\ size = 0 ->
         [result |-> IF runtime = "msvc8" THEN n ELSE -1, kept |-> 0]
    [] OTHER                                   ->
         [result |-> IF n = size THEN n ELSE -1, kept |-> size]

kSpaceLength == 1024

(* Mutant: "<=" in the place of "<".                                       *)
FitsExactly(result) == result \in 0..kSpaceLength

(* Mutant: an error is not told from a length.                             *)
FitsSigned(result) == result < kSpaceLength

(* The first attempt has succeeded.                                        *)
Fits(result) == result \in 0..kSpaceLength - 1

(* StringAppendV(): how many characters it appends for a text of length n, *)
(* and how many of them are the text's.  The second attempt is to a buffer *)
(* of the length that the first one, or one more question, has given.      *)
StringAppendV(runtime, n) ==
  LET first    == vsnprintf(runtime, n, kSpaceLength)
      required == IF first.result < 0 THEN vsnprintf(runtime, n, 0).result ELSE first.result
      second   == vsnprintf(runtime, n, required + 1)
      appended(attempt) == [length |-> attempt.result,
                            kept |-> IF attempt.kept < attempt.result THEN attempt.kept
                                                                      ELSE attempt.result]
      nothing  == [length |-> 0, kept |-> 0]
  IN IF Fits(first.result) THEN appended(first)
     ELSE IF required >= 0 /\ second.result \in 0..required THEN appended(second)
     ELSE nothing

-----------------------------------------------------------------------------
(* Names.                                                                  *)

Character == {"sep", "dot", "other"}

(* Mutant: find_first_of().                                                *)
FindFirstOf(s, c) == SelectInSeq(s, LAMBDA x : x = c)

(* std::string::find_last_of(): 0 if there is none.                        *)
FindLastOf(s, c) == SelectLastInSeq(s, LAMBDA x : x = c)

(* GetModuleName(): GetModuleFileNameA() cuts the path at the size it is   *)
(* given.  It is taken to succeed, and to end what it cuts, as Windows has *)
(* since Vista; the code checks neither.                                   *)
GetModuleName(path, size) ==
  LET cut == SubSeq(path, 1, IF Len(path) < size THEN Len(path) ELSE size - 1)
  IN SubSeq(cut, FindLastOf(cut, "sep") + 1, Len(cut))

(* GetAppName(): without what follows the last dot, if there is a dot.     *)
GetAppName(path, size) ==
  LET name == GetModuleName(path, size)
      end  == FindLastOf(name, "dot")
  IN IF end = 0 THEN name ELSE SubSeq(name, 1, end - 1)

-----------------------------------------------------------------------------
(* Sizes.                                                                  *)

KB == 1024
MB == 1024 * 1024

(* "%0.1f" of n / unit, in tenths: to the nearest, ties up or to even.     *)
(* The conversion to float is taken as exact.  It rounds sizes above 16 MB *)
(* and keeps their order.                                                  *)
Tenths(runtime, n, unit) ==
  LET rest   == 10 * (n % unit)
      floor  == 10 * (n \div unit) + rest \div unit
      twice  == 2 * (rest % unit)
      up     == twice > unit \/ (twice = unit /\ (runtime # "c99" \/ floor % 2 = 1))
  IN IF up THEN floor + 1 ELSE floor

(* Mutant: bytes under the name of kilobytes.                              *)
FileSizeUndivided(runtime, n) ==
  IF n < MB THEN [tenths |-> 10 * n, unit |-> KB]
            ELSE [tenths |-> Tenths(runtime, n, MB), unit |-> MB]

(* FileSizeToStr(): the number shown, in tenths, and its unit.             *)
FileSizeToStr(runtime, n) ==
  CASE n = 0               -> [tenths |-> 0, unit |-> KB]
    [] n \in 1..KB - 1     -> [tenths |-> Tenths(runtime, n, KB), unit |-> KB]
    [] n \in KB..MB - 1    -> [tenths |-> 10 * (n \div KB), unit |-> KB]
    [] OTHER               -> [tenths |-> Tenths(runtime, n, MB), unit |-> MB]

(* What is shown, in tenths of a KB.                                       *)
Shown(text) == text.tenths * (text.unit \div KB)
=============================================================================
