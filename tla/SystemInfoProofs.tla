-------------------------- MODULE SystemInfoProofs --------------------------
(***************************************************************************)
(* Proofs about TextUtilities and SystemInfo: what the functions of        *)
(* Utility.cpp give for every length, path and size, which texts           *)
(* GetWindowsVersion() makes, and what this means for the lines of         *)
(* PrintSystemInfo().                                                      *)
(***************************************************************************)
EXTENDS SystemInfo, SequenceTheorems, WellFoundedInduction, TLAPS

-----------------------------------------------------------------------------
(* What StringAppendV() keeps of a text that fits at the first attempt,    *)
(* and of one whose length it has got to know.                             *)
LEMMA FirstAttempt ==
  ASSUME NEW r, NEW n \in Nat,
         n < kSpaceLength,
         vsnprintf(r, n, kSpaceLength) = [result |-> n, kept |-> n]
  PROVE  StringAppendV(r, n).kept = n
<1>1. Fits(n)
  BY DEF Fits, kSpaceLength
<1> QED
  BY <1>1 DEF StringAppendV

LEMMA SecondAttempt ==
  ASSUME NEW r, NEW n \in Nat, NEW result \in Int, NEW kept,
         n >= kSpaceLength,
         vsnprintf(r, n, kSpaceLength) = [result |-> result, kept |-> kept],
         result = n \/ (result = -1 /\ vsnprintf(r, n, 0).result = n),
         vsnprintf(r, n, n + 1) = [result |-> n, kept |-> n]
  PROVE  StringAppendV(r, n).kept = n
<1>1. ~Fits(result) /\ n >= 0 /\ n \in 0..n
  BY DEF Fits, kSpaceLength
<1>2. (IF result < 0 THEN vsnprintf(r, n, 0).result ELSE result) = n
  OBVIOUS
<1> QED
  BY <1>1, <1>2 DEF StringAppendV

(* StringAppendV() appends all of a text, of any length and whatever       *)
(* vsnprintf() returns at the size of the buffer; a run-time older than    *)
(* Visual C++ 8.0 appends nothing of a longer one.                         *)
THEOREM AppendsWhole ==
  ASSUME NEW r \in Runtime, NEW n \in Nat
  PROVE  \/ StringAppendV(r, n).kept = n
         \/ r = "msvc7" /\ n > kSpaceLength /\ StringAppendV(r, n).kept = 0
<1> USE DEF Runtime, kSpaceLength
<1>1. CASE n < kSpaceLength
  <2>1. vsnprintf(r, n, kSpaceLength) = [result |-> n, kept |-> n]
    BY <1>1 DEF vsnprintf
  <2> QED
    BY <1>1, <2>1, FirstAttempt
<1>2. CASE n >= kSpaceLength
  <2>1. vsnprintf(r, n, n + 1) = [result |-> n, kept |-> n]
    BY DEF vsnprintf
  <2>2. CASE r = "c99"
    <3>1. vsnprintf(r, n, kSpaceLength) = [result |-> n, kept |-> kSpaceLength - 1]
      BY <1>2, <2>2 DEF vsnprintf
    <3> QED
      BY <1>2, <2>1, <3>1, SecondAttempt
  <2>3. CASE r # "c99" /\ n = kSpaceLength
    <3>1. vsnprintf(r, n, kSpaceLength) = [result |-> n, kept |-> kSpaceLength]
      BY <2>3 DEF vsnprintf
    <3> QED
      BY <1>2, <2>1, <3>1, SecondAttempt
  <2>4. CASE r # "c99" /\ n > kSpaceLength
    <3>1. vsnprintf(r, n, kSpaceLength) = [result |-> -1, kept |-> kSpaceLength]
      BY <2>4 DEF vsnprintf
    <3>2. CASE r = "msvc8"
      <4>1. vsnprintf(r, n, 0) = [result |-> n, kept |-> 0]
        BY <1>2, <3>2 DEF vsnprintf
      <4> QED
        BY <1>2, <2>1, <3>1, <4>1, SecondAttempt
    <3>3. CASE r = "msvc7"
      <4>1. vsnprintf(r, n, 0) = [result |-> -1, kept |-> 0]
        BY <1>2, <3>3 DEF vsnprintf
      <4>2. ~Fits(-1) /\ -1 < 0 /\ ~(-1 >= 0)
        BY DEF Fits
      <4>3. StringAppendV(r, n) = [length |-> 0, kept |-> 0]
        BY <3>1, <4>1, <4>2 DEF StringAppendV
      <4> QED
        BY <2>4, <3>3, <4>3
    <3> QED
      BY <2>4, <3>2, <3>3
  <2> QED
    BY <1>2, <2>2, <2>3, <2>4
<1> QED
  BY <1>1, <1>2

-----------------------------------------------------------------------------
(* FileSizeToStr().                                                        *)

(* The units are numbers, a megabyte not less than a kilobyte.             *)
LEMMA Units == KB \in Nat /\ MB \in Nat /\ 1 <= KB /\ KB <= MB
BY DEF KB, MB

(* Division by the two units.                                              *)
LEMMA Divided ==
  ASSUME NEW n \in Nat, NEW unit \in {KB, MB}
  PROVE  /\ n \div unit \in Nat /\ n % unit \in Nat /\ n % unit < unit
         /\ n = unit * (n \div unit) + (n % unit)
<1>1. CASE unit = KB
  BY <1>1, SMT DEF KB
<1>2. CASE unit = MB
  BY <1>2, SMT DEF MB
<1> QED
  BY <1>1, <1>2

(* Tenths() rounds to the nearest, whichever way ties go.                  *)
LEMMA Rounded ==
  ASSUME NEW r, NEW n \in Nat, NEW unit \in {KB, MB}
  PROVE  /\ Tenths(r, n, unit) \in Nat
         /\ 20 * n <= 2 * (unit * Tenths(r, n, unit)) + unit
         /\ 2 * (unit * Tenths(r, n, unit)) <= 20 * n + unit
<1> DEFINE q == n \div unit
           m == n % unit
           a == (10 * m) \div unit
           b == (10 * m) % unit
           up == 2 * b > unit \/ (2 * b = unit /\ (r # "c99" \/ (10 * q + a) % 2 = 1))
<1>1. q \in Nat /\ m \in Nat /\ n = unit * q + m
  BY Divided
<1>2. a \in Nat /\ b \in Nat /\ b < unit /\ 10 * m = unit * a + b
  <2>1. 10 * m \in Nat
    BY <1>1
  <2> HIDE DEF m
  <2>2. \A x \in Nat : /\ x \div unit \in Nat /\ x % unit \in Nat /\ x % unit < unit
                      /\ x = unit * (x \div unit) + (x % unit)
    BY Divided
  <2> QED
    BY <2>1, <2>2, Zenon
<1>3. Tenths(r, n, unit) = IF up THEN 10 * q + a + 1 ELSE 10 * q + a
  BY DEF Tenths
<1>4. up => 2 * b >= unit
  BY <1>2 DEF KB, MB
<1>5. ~up => 2 * b <= unit
  BY <1>2 DEF KB, MB
<1> HIDE DEF q, m, a, b, up
<1>6. CASE unit = KB
  BY <1>1, <1>2, <1>3, <1>4, <1>5, <1>6 DEF KB
<1>7. CASE unit = MB
  BY <1>1, <1>2, <1>3, <1>4, <1>5, <1>7 DEF MB
<1> QED
  BY <1>6, <1>7

(* It never shows the larger of two sizes as the smaller number.           *)
LEMMA TenthsOrdered ==
  ASSUME NEW r, NEW n \in Nat, NEW k \in Nat, n <= k, NEW unit \in {KB, MB}
  PROVE  Tenths(r, n, unit) <= Tenths(r, k, unit)
<1>1. CASE n = k
  BY <1>1, Rounded
<1>2. CASE n < k
  <2> DEFINE x == Tenths(r, n, unit)
             y == Tenths(r, k, unit)
  <2>1. x \in Nat /\ y \in Nat /\ 2 * (unit * x) <= 20 * n + unit /\ 20 * k <= 2 * (unit * y) + unit
    BY Rounded
  <2> HIDE DEF x, y
  <2>2. CASE unit = KB
    <3>1. x <= y
      BY <1>2, <2>1, <2>2 DEF KB
    <3> QED
      BY <3>1 DEF x, y
  <2>3. CASE unit = MB
    <3>1. x <= y
      BY <1>2, <2>1, <2>3 DEF MB
    <3> QED
      BY <3>1 DEF x, y
  <2> QED
    BY <2>2, <2>3
<1> QED
  BY <1>1, <1>2

(* What FileSizeToStr() shows, case by case, in tenths of a KB.            *)
LEMMA ShownBy ==
  ASSUME NEW r, NEW n \in Nat
  PROVE  Shown(FileSizeToStr(r, n)) =
           IF n = 0 THEN 0
           ELSE IF n < KB THEN Tenths(r, n, KB)
           ELSE IF n < MB THEN 10 * (n \div KB)
           ELSE 1024 * Tenths(r, n, MB)
<1>1. CASE n = 0
  BY <1>1 DEF FileSizeToStr, Shown, KB
<1>2. CASE n # 0 /\ n < KB
  <2>1. FileSizeToStr(r, n) = [tenths |-> Tenths(r, n, KB), unit |-> KB]
    BY <1>2 DEF FileSizeToStr, KB
  <2>2. Tenths(r, n, KB) \in Nat
    BY Rounded
  <2> QED
    BY <1>2, <2>1, <2>2 DEF Shown, KB
<1>3. CASE n >= KB /\ n < MB
  <2>1. n # 0 /\ n \notin 1..KB - 1 /\ n \in KB..MB - 1
    BY <1>3, Units
  <2>2. FileSizeToStr(r, n) = [tenths |-> 10 * (n \div KB), unit |-> KB]
    BY <2>1, Zenon DEF FileSizeToStr
  <2> QED
    BY <1>3, <2>1, <2>2 DEF Shown, KB
<1>4. CASE n >= MB
  <2>1. n # 0 /\ n \notin 1..KB - 1 /\ n \notin KB..MB - 1
    BY <1>4, Units
  <2>2. FileSizeToStr(r, n) = [tenths |-> Tenths(r, n, MB), unit |-> MB]
    BY <2>1, Zenon DEF FileSizeToStr
  <2>3. Tenths(r, n, MB) \in Nat
    BY Rounded
  <2>4. MB \div KB = 1024
    BY DEF KB, MB
  <2>5. Shown(FileSizeToStr(r, n)) = 1024 * Tenths(r, n, MB)
    BY <2>2, <2>3, <2>4 DEF Shown
  <2> QED
    BY <1>4, <2>5, Units
<1> QED
  BY <1>1, <1>2, <1>3, <1>4 DEF KB, MB

(* FileSizeToStr() keeps the order of all sizes, where it rounds and where *)
(* it changes the unit.                                                    *)
THEOREM SizesOrdered ==
  ASSUME NEW r, NEW n \in Nat, NEW k \in Nat, n <= k
  PROVE  Shown(FileSizeToStr(r, n)) <= Shown(FileSizeToStr(r, k))
<1> DEFINE N == Shown(FileSizeToStr(r, n))
           K == Shown(FileSizeToStr(r, k))
<1>1. /\ Tenths(r, n, KB) \in Nat /\ Tenths(r, k, KB) \in Nat
      /\ Tenths(r, n, MB) \in Nat /\ Tenths(r, k, MB) \in Nat
  BY Rounded
<1>2. Tenths(r, n, KB) <= Tenths(r, k, KB) /\ Tenths(r, n, MB) <= Tenths(r, k, MB)
  BY TenthsOrdered
<1>3. n < KB => Tenths(r, n, KB) <= 10
  BY <1>1, Rounded DEF KB
<1>4. k >= KB => k \div KB >= 1
  BY DEF KB
<1>5. n < MB => n \div KB <= 1023
  BY DEF KB, MB
<1>6. k >= MB => Tenths(r, k, MB) >= 10
  BY <1>1, Rounded DEF MB
<1>7. n \div KB <= k \div KB /\ n \div KB \in Nat /\ k \div KB \in Nat
  BY DEF KB
<1>8. N = IF n = 0 THEN 0
          ELSE IF n < KB THEN Tenths(r, n, KB)
          ELSE IF n < MB THEN 10 * (n \div KB)
          ELSE 1024 * Tenths(r, n, MB)
  BY ShownBy
<1>9. K = IF k = 0 THEN 0
          ELSE IF k < KB THEN Tenths(r, k, KB)
          ELSE IF k < MB THEN 10 * (k \div KB)
          ELSE 1024 * Tenths(r, k, MB)
  BY ShownBy
<1> HIDE DEF N, K
<1> DEFINE nk == Tenths(r, n, KB)
           nm == Tenths(r, n, MB)
           kk == Tenths(r, k, KB)
           km == Tenths(r, k, MB)
           nd == n \div KB
           kd == k \div KB
<1> HIDE DEF nk, nm, kk, km, nd, kd
<1>10. /\ N = IF n = 0 THEN 0 ELSE IF n < KB THEN nk ELSE IF n < MB THEN 10 * nd ELSE 1024 * nm
       /\ K = IF k = 0 THEN 0 ELSE IF k < KB THEN kk ELSE IF k < MB THEN 10 * kd ELSE 1024 * km
       /\ nk \in Nat /\ nm \in Nat /\ kk \in Nat /\ km \in Nat /\ nd \in Nat /\ kd \in Nat
       /\ nk <= kk /\ nm <= km /\ nd <= kd
       /\ n < KB => nk <= 10
       /\ k >= KB => kd >= 1
       /\ n < MB => nd <= 1023
       /\ k >= MB => km >= 10
  BY <1>1, <1>2, <1>3, <1>4, <1>5, <1>6, <1>7, <1>8, <1>9 DEF nk, nm, kk, km, nd, kd
<1>11. N <= K
  BY <1>10 DEF KB, MB
<1> QED
  BY <1>11 DEF N, K

-----------------------------------------------------------------------------
(* GetModuleName() and GetAppName().                                       *)

(* Every set of numbers that is not empty has a smallest.                  *)
LEMMA Smallest ==
  ASSUME NEW T \in SUBSET Nat, T # {}
  PROVE  \E x \in T : \A y \in T : x <= y
<1>1. \E x \in T : \A y \in T : ~(<<y, x>> \in OpToRel(<, Nat))
  BY WFMin, NatLessThanWellFounded
<1>2. PICK x \in T : \A y \in T : ~(<<y, x>> \in OpToRel(<, Nat))
  BY <1>1
<1>3. ASSUME NEW y \in T
      PROVE  x <= y
  <2>1. ~(y < x)
    BY <1>2 DEF OpToRel
  <2> QED
    BY <2>1
<1> QED
  BY <1>3

(* A set of numbers up to n has a largest.                                 *)
LEMMA Largest ==
  ASSUME NEW n \in Nat, NEW T \in SUBSET (1..n), T # {}
  PROVE  \E x \in T : \A y \in T : x >= y
<1> DEFINE R == {n - x : x \in T}
<1>1. R \in SUBSET Nat /\ R # {}
  <2>1. \A x \in T : n - x \in Nat
    OBVIOUS
  <2>2. PICK x \in T : TRUE
    OBVIOUS
  <2>3. n - x \in R
    OBVIOUS
  <2>4. R \subseteq Nat
    BY <2>1
  <2> QED
    BY <2>3, <2>4
<1>2. PICK z \in R : \A y \in R : z <= y
  BY <1>1, Smallest
<1>3. PICK x \in T : z = n - x
  BY <1>2
<1>4. ASSUME NEW y \in T
      PROVE  x >= y
  <2>1. n - x <= n - y
    BY <1>2, <1>3
  <2> QED
    BY <2>1
<1> QED
  BY <1>4

(* FindLastOf() finds the last, or nothing if there is none.               *)
LEMMA LastFound ==
  ASSUME NEW s, Len(s) \in Nat, NEW c
  PROVE  \/ FindLastOf(s, c) = 0 /\ \A k \in 1..Len(s) : s[k] # c
         \/ /\ FindLastOf(s, c) \in 1..Len(s) /\ s[FindLastOf(s, c)] = c
            /\ \A k \in FindLastOf(s, c) + 1..Len(s) : s[k] # c
<1> DEFINE I == {i \in 1..Len(s) : s[i] = c}
<1>1. FindLastOf(s, c) = IF I # {} THEN Max(I) ELSE 0
  BY DEF FindLastOf, SelectLastInSeq
<1>2. CASE I = {}
  BY <1>1, <1>2
<1>3. CASE I # {}
  <2>1. \E x \in I : \A y \in I : x >= y
    BY <1>3, Largest
  <2>2. Max(I) \in I /\ \A y \in I : Max(I) >= y
    BY <2>1 DEF Max
  <2>3. FindLastOf(s, c) = Max(I)
    BY <1>1, <1>3
  <2>4. Max(I) \in 1..Len(s) /\ s[Max(I)] = c
    BY <2>2
  <2>5. \A k \in Max(I) + 1..Len(s) : s[k] # c
    <3> SUFFICES ASSUME NEW k \in Max(I) + 1..Len(s), s[k] = c
                 PROVE  FALSE
      OBVIOUS
    <3>1. k \in I
      BY <2>4
    <3> QED
      BY <2>2, <2>4, <3>1
  <2> QED
    BY <2>3, <2>4, <2>5
<1> QED
  BY <1>2, <1>3

(* A part of a path is made of its characters.                             *)
LEMMA PartOfPath ==
  ASSUME NEW p \in Seq(Character), NEW i \in Nat \ {0}, NEW j \in Nat, j <= Len(p)
  PROVE  /\ SubSeq(p, i, j) \in Seq(Character)
         /\ Len(SubSeq(p, i, j)) = IF i <= j THEN j - i + 1 ELSE 0
         /\ \A k \in 1..j - i + 1 : SubSeq(p, i, j)[k] = p[i + k - 1]
<1>1. \A k \in i..j : p[k] \in Character
  OBVIOUS
<1> QED
  BY <1>1, SubSeqProperties

(* GetModuleName() gives what follows the last separator.                  *)
LEMMA ModuleName ==
  ASSUME NEW p \in Seq(Character), NEW size \in Nat \ {0}
  PROVE  /\ GetModuleName(p, size) \in Seq(Character)
         /\ Len(p) < size => GetModuleName(p, size) = SubSeq(p, FindLastOf(p, "sep") + 1, Len(p))
<1> DEFINE cut == SubSeq(p, 1, IF Len(p) < size THEN Len(p) ELSE size - 1)
<1>1. GetModuleName(p, size) = SubSeq(cut, FindLastOf(cut, "sep") + 1, Len(cut))
  BY DEF GetModuleName
<1>2. cut \in Seq(Character)
  BY PartOfPath
<1>3. Len(p) < size => cut = p
  BY SubSeqFull
<1> HIDE DEF cut
<1>4. FindLastOf(cut, "sep") \in Nat /\ Len(cut) \in Nat
  BY <1>2, LastFound
<1>5. SubSeq(cut, FindLastOf(cut, "sep") + 1, Len(cut)) \in Seq(Character)
  BY <1>2, <1>4, PartOfPath
<1> QED
  BY <1>1, <1>3, <1>5

(* GetAppName() gives characters of the path, cut or not.                  *)
LEMMA AppNameType ==
  ASSUME NEW p \in Seq(Character), NEW size \in Nat \ {0}
  PROVE  GetAppName(p, size) \in Seq(Character)
<1> DEFINE name == GetModuleName(p, size)
           end == FindLastOf(name, "dot")
<1>1. GetAppName(p, size) = IF end = 0 THEN name ELSE SubSeq(name, 1, end - 1)
  BY DEF GetAppName
<1>2. name \in Seq(Character)
  BY ModuleName
<1> HIDE DEF name
<1>3. end \in 0..Len(name)
  BY <1>2, LastFound
<1> HIDE DEF end
<1>4. end # 0 => SubSeq(name, 1, end - 1) \in Seq(Character)
  BY <1>2, <1>3, PartOfPath
<1> QED
  BY <1>1, <1>2, <1>4

(* Of every path that is not cut, GetAppName() gives what stands between   *)
(* the directories and the last extension, if there is one.                *)
THEOREM AppNameIs ==
  ASSUME NEW p \in Seq(Character), NEW size \in Nat, Len(p) < size
  PROVE  \E i \in 1..Len(p) + 1, j \in 0..Len(p) :
           /\ GetAppName(p, size) = SubSeq(p, i, j)
           /\ i = 1 \/ p[i - 1] = "sep"
           /\ \A k \in i..Len(p) : p[k] # "sep"
           /\ IF j = Len(p) THEN \A k \in i..j : p[k] # "dot"
                            ELSE p[j + 1] = "dot" /\ \A k \in j + 2..Len(p) : p[k] # "dot"
<1> DEFINE n == Len(p)
           last == FindLastOf(p, "sep")
           name == SubSeq(p, last + 1, n)
           end == FindLastOf(name, "dot")
<1>1. n \in Nat
  OBVIOUS
<1>2. \/ last = 0 /\ \A k \in 1..n : p[k] # "sep"
      \/ last \in 1..n /\ p[last] = "sep" /\ \A k \in last + 1..n : p[k] # "sep"
  BY LastFound
<1>3. last \in 0..n
  BY <1>1, <1>2
<1>4. GetAppName(p, size) = IF end = 0 THEN name ELSE SubSeq(name, 1, end - 1)
  <2>1. size \in Nat \ {0}
    BY <1>1
  <2>2. GetModuleName(p, size) = name
    BY <2>1, ModuleName
  <2> HIDE DEF name
  <2> QED
    BY <2>2 DEF GetAppName
<1> HIDE DEF last
<1>5. /\ name \in Seq(Character) /\ Len(name) = n - last
      /\ \A k \in 1..n - last : name[k] = p[last + k]
  <2>1. /\ name \in Seq(Character)
        /\ Len(name) = IF last + 1 <= n THEN n - (last + 1) + 1 ELSE 0
        /\ \A k \in 1..n - (last + 1) + 1 : name[k] = p[last + 1 + k - 1]
    BY <1>1, <1>3, PartOfPath
  <2> HIDE DEF name, n
  <2>2. Len(name) = n - last
    BY <1>1, <1>3, <2>1
  <2>3. ASSUME NEW k \in 1..n - last
        PROVE  name[k] = p[last + k]
    <3>1. k \in 1..n - (last + 1) + 1 /\ last + 1 + k - 1 = last + k
      BY <1>1, <1>3
    <3> QED
      BY <2>1, <3>1
  <2> QED
    BY <2>1, <2>2, <2>3
<1> HIDE DEF name
<1>6. \/ end = 0 /\ \A k \in 1..n - last : name[k] # "dot"
      \/ /\ end \in 1..n - last /\ name[end] = "dot"
         /\ \A k \in end + 1..n - last : name[k] # "dot"
  BY <1>5, LastFound
<1> HIDE DEF n, end
<1>7. ASSUME NEW j \in 0..n, GetAppName(p, size) = SubSeq(p, last + 1, j),
             \/ j = n /\ \A k \in last + 1..n : p[k] # "dot"
             \/ j # n /\ p[j + 1] = "dot" /\ \A k \in j + 2..n : p[k] # "dot"
      PROVE  \E i \in 1..n + 1, m \in 0..n :
               /\ GetAppName(p, size) = SubSeq(p, i, m)
               /\ i = 1 \/ p[i - 1] = "sep"
               /\ \A k \in i..n : p[k] # "sep"
               /\ IF m = n THEN \A k \in i..m : p[k] # "dot"
                          ELSE p[m + 1] = "dot" /\ \A k \in m + 2..n : p[k] # "dot"
  <2> DEFINE i == last + 1
  <2>1. i \in 1..n + 1 /\ (i = 1 \/ p[i - 1] = "sep")
    BY <1>1, <1>2, <1>3
  <2>2. \A k \in i..n : p[k] # "sep"
    BY <1>1, <1>2
  <2> HIDE DEF i
  <2> QED
    BY <1>7, <2>1, <2>2 DEF i
<1>8. CASE end = 0
  <2>1. GetAppName(p, size) = SubSeq(p, last + 1, n)
    BY <1>4, <1>8 DEF name
  <2>2. \A k \in last + 1..n : p[k] # "dot"
    <3> SUFFICES ASSUME NEW k \in last + 1..n
                 PROVE  p[k] # "dot"
      OBVIOUS
    <3>1. k - last \in 1..n - last /\ last + (k - last) = k
      BY <1>1, <1>3
    <3>2. name[k - last] = p[k] /\ name[k - last] # "dot"
      BY <1>3, <1>5, <1>6, <1>8, <3>1
    <3> QED
      BY <3>2
  <2>3. n \in 0..n
    BY <1>1
  <2> QED
    BY <1>7, <2>1, <2>2, <2>3, Zenon DEF n
<1>9. CASE end # 0
  <2> DEFINE j == last + end - 1
  <2>1. /\ end \in 1..n - last /\ name[end] = "dot"
        /\ \A k \in end + 1..n - last : name[k] # "dot"
    BY <1>6, <1>9
  <2>2. j \in 0..n /\ j # n
    BY <1>1, <1>3, <2>1
  <2>3. GetAppName(p, size) = SubSeq(p, last + 1, j)
    <3> DEFINE a == SubSeq(name, 1, end - 1)
               b == SubSeq(p, last + 1, j)
    <3>1. end - 1 \in Nat /\ end - 1 <= Len(name) /\ last + 1 \in Nat \ {0} /\ j \in Nat /\ j <= Len(p)
      BY <1>1, <1>3, <1>5, <2>1, <2>2 DEF n
    <3>2. /\ a \in Seq(Character) /\ Len(a) = IF 1 <= end - 1 THEN end - 1 - 1 + 1 ELSE 0
          /\ \A k \in 1..end - 1 - 1 + 1 : a[k] = name[1 + k - 1]
      BY <1>5, <3>1, PartOfPath
    <3>3. /\ b \in Seq(Character) /\ Len(b) = IF last + 1 <= j THEN j - (last + 1) + 1 ELSE 0
          /\ \A k \in 1..j - (last + 1) + 1 : b[k] = p[last + 1 + k - 1]
      BY <3>1, PartOfPath
    <3> HIDE DEF a, b
    <3>4. Len(a) = end - 1 /\ Len(b) = end - 1
      BY <1>1, <1>3, <2>1, <3>2, <3>3
    <3>5. ASSUME NEW k \in 1..end - 1
          PROVE  a[k] = b[k]
      <4>1. /\ k \in 1..end - 1 - 1 + 1 /\ 1 + k - 1 = k /\ k \in 1..n - last
            /\ k \in 1..j - (last + 1) + 1 /\ last + 1 + k - 1 = last + k
        BY <1>1, <1>3, <2>1
      <4>2. a[k] = name[k] /\ b[k] = p[last + k] /\ name[k] = p[last + k]
        BY <1>5, <3>2, <3>3, <4>1
      <4> QED
        BY <4>2
    <3>6. a = b
      BY <3>2, <3>3, <3>4, <3>5, SeqEqual
    <3> QED
      BY <1>4, <1>9, <3>6 DEF a, b
  <2>4. p[j + 1] = "dot"
    <3>1. j + 1 = last + end
      BY <1>3, <2>1
    <3>2. name[end] = p[last + end]
      BY <1>5, <2>1
    <3> QED
      BY <2>1, <3>1, <3>2
  <2>5. \A k \in j + 2..n : p[k] # "dot"
    <3> SUFFICES ASSUME NEW k \in j + 2..n
                 PROVE  p[k] # "dot"
      OBVIOUS
    <3>1. /\ k - last \in 1..n - last /\ k - last \in end + 1..n - last
          /\ last + (k - last) = k
      BY <1>1, <1>3, <2>1
    <3>2. name[k - last] = p[k] /\ name[k - last] # "dot"
      BY <1>5, <2>1, <3>1
    <3> QED
      BY <3>2
  <2> HIDE DEF j
  <2> QED
    BY <1>7, <2>2, <2>3, <2>4, <2>5, Zenon DEF n
<1> QED
  BY <1>8, <1>9 DEF n

-----------------------------------------------------------------------------
(* The texts of GetWindowsVersion().                                       *)

(* The first suite found is one of those looked for.                       *)
LEMMA FirstFound ==
  ASSUME NEW v, NEW suites, Len(suites) \in Nat, NEW otherwise
  PROVE  \/ FirstOf(v, suites, otherwise) = otherwise
         \/ \E i \in 1..Len(suites) : FirstOf(v, suites, otherwise) = <<suites[i]>>
<1> DEFINE I == {i \in 1..Len(suites) : suites[i] \in v.suite}
           i == IF I # {} THEN Min(I) ELSE 0
<1>1. FirstOf(v, suites, otherwise) = IF i = 0 THEN otherwise ELSE <<suites[i]>>
  BY DEF FirstOf, SelectInSeq
<1>2. CASE I = {}
  BY <1>1, <1>2
<1>3. CASE I # {}
  <2>1. I \subseteq Nat
    OBVIOUS
  <2>2. \E x \in I : \A y \in I : x <= y
    BY <1>3, <2>1, Smallest
  <2>3. Min(I) \in I
    BY <2>2 DEF Min
  <2>4. i \in 1..Len(suites)
    BY <1>3, <2>3
  <2> QED
    BY <1>1, <2>4
<1> QED
  BY <1>2, <1>3

(* An edition, or none, is a text of editions only.                        *)
LEMMA FirstIsEdition ==
  ASSUME NEW v, NEW suites \in Seq(Suite), NEW otherwise \in Seq(EditionName)
  PROVE  FirstOf(v, suites, otherwise) \in Seq(EditionName)
<1>1. Len(suites) \in Nat /\ \A i \in 1..Len(suites) : suites[i] \in Suite
  OBVIOUS
<1>2. \A e \in EditionName : <<e>> \in Seq(EditionName)
  OBVIOUS
<1>3. Suite \subseteq EditionName
  BY Zenon DEF EditionName
<1> QED
  BY <1>1, <1>2, <1>3, FirstFound, Zenon

(* What GetWindowsVersion() appends for the edition.                       *)
EditionOf(v, dwType) ==
  CASE v.major = 6                    -> Edition6(dwType)
    [] v.major = 5 /\ v.minor = 2     -> Edition52(v)
    [] v.major = 5 /\ v.minor = 1     -> Edition51(v)
    [] v.major = 5 /\ v.minor = 0     -> Edition50(v)
    [] OTHER                          -> <<>>

(* What it appends for the name.                                           *)
NameOf(v) ==
  CASE v.major = 6                    -> Name6(v)
    [] v.major = 5 /\ v.minor = 2     -> Name52(v)
    [] v.major = 5 /\ v.minor = 1     -> <<"XP">>
    [] v.major = 5 /\ v.minor = 0     -> <<"2000">>
    [] OTHER                          -> <<>>

(* The edition is made of the names of editions only.                      *)
LEMMA EditionIs ==
  ASSUME NEW v \in VersionInfo, NEW dwType \in Product
  PROVE  EditionOf(v, dwType) \in Seq(EditionName)
<1>1. /\ <<"DATACENTER", "ENTERPRISE">> \in Seq(Suite)
      /\ <<"COMPUTE_SERVER", "DATACENTER", "ENTERPRISE", "BLADE">> \in Seq(Suite)
  BY DEF Suite
<1>2. /\ <<>> \in Seq(EditionName) /\ <<"Standard Edition">> \in Seq(EditionName)
      /\ <<"Server">> \in Seq(EditionName) /\ <<"Professional">> \in Seq(EditionName)
      /\ <<"Home Edition">> \in Seq(EditionName) /\ <<"Enterprise Edition">> \in Seq(EditionName)
      /\ <<"Datacenter Edition">> \in Seq(EditionName) /\ <<dwType>> \in Seq(EditionName)
  <2>1. <<>> \in Seq(EditionName) /\ \A e \in EditionName : <<e>> \in Seq(EditionName)
    OBVIOUS
  <2> QED
    BY <2>1, Zenon DEF EditionName
<1>3. Edition6(dwType) \in Seq(EditionName)
  BY <1>2, Zenon DEF Edition6
<1>4. Edition52(v) \in Seq(EditionName)
  <2>1. /\ FirstOf(v, <<"DATACENTER", "ENTERPRISE">>, <<>>) \in Seq(EditionName)
        /\ FirstOf(v, <<"DATACENTER", "ENTERPRISE">>, <<"Standard Edition">>) \in Seq(EditionName)
        /\ FirstOf(v, <<"COMPUTE_SERVER", "DATACENTER", "ENTERPRISE", "BLADE">>,
                   <<"Standard Edition">>) \in Seq(EditionName)
    BY <1>1, <1>2, FirstIsEdition
  <2> QED
    BY <1>2, <2>1, Zenon DEF Edition52
<1>5. Edition51(v) \in Seq(EditionName)
  BY <1>2, Zenon DEF Edition51
<1>6. Edition50(v) \in Seq(EditionName)
  BY <1>1, <1>2, FirstIsEdition, Zenon DEF Edition50
<1> QED
  BY <1>2, <1>3, <1>4, <1>5, <1>6, Zenon DEF EditionOf

(* Name and edition follow each other; the name is one of a system's.      *)
LEMMA NamesAre ==
  ASSUME NEW v \in VersionInfo, NEW dwType \in Product
  PROVE  /\ Names(v, dwType) = NameOf(v) \o EditionOf(v, dwType)
         /\ NameOf(v) \in Seq(SystemName)
<1>1. NameOf(v) \in Seq(SystemName)
  <2>1. \A name \in SystemName : <<name>> \in Seq(SystemName)
    OBVIOUS
  <2>2. <<>> \in Seq(SystemName)
    OBVIOUS
  <2>3. Name6(v) \in Seq(SystemName)
    BY <2>1, <2>2 DEF Name6, SystemName, ClientNames, ServerNames
  <2>4. Name52(v) \in Seq(SystemName)
    BY <2>1, <2>2 DEF Name52, SystemName, ClientNames, ServerNames
  <2>5. <<"XP">> \in Seq(SystemName) /\ <<"2000">> \in Seq(SystemName)
    BY <2>1 DEF SystemName, ClientNames
  <2> QED
    BY <2>2, <2>3, <2>4, <2>5, Zenon DEF NameOf
<1>2. <<>> \o <<>> = <<>>
  OBVIOUS
<1>3. Names(v, dwType) = NameOf(v) \o EditionOf(v, dwType)
  <2>1. CASE v.major = 6
    BY <2>1 DEF Names, NameOf, EditionOf
  <2>2. CASE v.major = 5 /\ v.minor = 2
    BY <2>2 DEF Names, NameOf, EditionOf
  <2>3. CASE v.major = 5 /\ v.minor = 1
    BY <2>3 DEF Names, NameOf, EditionOf
  <2>4. CASE v.major = 5 /\ v.minor = 0
    BY <2>4 DEF Names, NameOf, EditionOf
  <2>5. CASE v.major # 6 /\ ~(v.major = 5 /\ v.minor \in {0, 1, 2})
    <3>1. Names(v, dwType) = <<>> /\ NameOf(v) = <<>> /\ EditionOf(v, dwType) = <<>>
      BY <2>5 DEF Names, NameOf, EditionOf
    <3> QED
      BY <1>2, <3>1
  <2> QED
    BY <2>1, <2>2, <2>3, <2>4, <2>5
<1> QED
  BY <1>1, <1>3

(* Every version from 5.0 to 6.2 has one name.                             *)
LEMMA OneName ==
  ASSUME NEW v \in VersionInfo, v.major \in {5, 6}, v.minor \in {0, 1, 2}
  PROVE  \E name \in SystemName :
           /\ NameOf(v) = <<name>>
           /\ name # "2000" /\ Exists(v) =>
                \/ name \in ServerNames <=> ~v.workstation
                \/ v.major = 5 /\ v.minor = 2 /\ v.workstation /\ v.arch # "AMD64"
<1> DEFINE RightName(name) ==
      name # "2000" /\ Exists(v) =>
        \/ name \in ServerNames <=> ~v.workstation
        \/ v.major = 5 /\ v.minor = 2 /\ v.workstation /\ v.arch # "AMD64"
<1>1. v.workstation \in BOOLEAN /\ v.r2 \in BOOLEAN
  BY DEF VersionInfo
<1> SUFFICES \E name \in SystemName : NameOf(v) = <<name>> /\ RightName(name)
  OBVIOUS
<1>2. ClientNames \cap ServerNames = {}
  BY DEF ClientNames, ServerNames
<1>3. ASSUME NEW name, name \in ClientNames /\ Exists(v) => v.workstation,
             name \notin ClientNames => name \in ServerNames /\ ~v.workstation,
             NameOf(v) = <<name>>
      PROVE  \E x \in SystemName : NameOf(v) = <<x>> /\ RightName(x)
  BY <1>1, <1>2, <1>3, Zenon DEF SystemName
<1>4. CASE v.major = 6
  <2>1. NameOf(v) = Name6(v)
    BY <1>4 DEF NameOf
  <2>2. CASE v.workstation
    <3>1. Name6(v) \in {<<"Vista">>, <<"7">>, <<"8">>}
      BY <2>2 DEF Name6
    <3>2. {"Vista", "7", "8"} \subseteq ClientNames
      BY DEF ClientNames
    <3> QED
      BY <1>3, <2>1, <2>2, <3>1, <3>2, Zenon
  <2>3. CASE ~v.workstation
    <3>1. Name6(v) \in {<<"Server 2008">>, <<"Server 2008 R2">>, <<"Server 2012">>}
      BY <2>3 DEF Name6
    <3>2. {"Server 2008", "Server 2008 R2", "Server 2012"} \subseteq ServerNames
      BY DEF ServerNames
    <3> QED
      BY <1>2, <1>3, <2>1, <2>3, <3>1, <3>2, Zenon
  <2> QED
    BY <2>2, <2>3
<1>5. CASE v.major = 5 /\ v.minor = 2
  <2>1. NameOf(v) = Name52(v)
    BY <1>5 DEF NameOf
  <2>2. CASE v.workstation /\ v.arch = "AMD64" /\ Name52(v) = <<"XP x64">>
    <3>1. "XP x64" \in ClientNames
      BY DEF ClientNames
    <3> QED
      BY <1>3, <2>1, <2>2, <3>1, Zenon
  <2>3. CASE \E name \in {"Server 2003 R2", "Storage Server 2003", "Home Server", "Server 2003"} :
               Name52(v) = <<name>>
    <3>1. PICK name \in {"Server 2003 R2", "Storage Server 2003", "Home Server", "Server 2003"} :
            Name52(v) = <<name>>
      BY <2>3
    <3>2. name \in ServerNames /\ name \in SystemName
      BY DEF ServerNames, SystemName
    <3>3. ~v.workstation => RightName(name)
      BY <1>1, <3>2
    <3>4. v.workstation /\ v.arch # "AMD64" => RightName(name)
      BY <1>5
    <3>5. v.workstation /\ v.arch = "AMD64" /\ Exists(v) => FALSE
      <4> SUFFICES ASSUME v.workstation, v.arch = "AMD64", Exists(v)
                   PROVE  FALSE
        OBVIOUS
      <4>1. ~v.r2 /\ "STORAGE_SERVER" \notin v.suite /\ "WH_SERVER" \notin v.suite
        BY DEF Exists
      <4>2. Name52(v) = <<"XP x64">>
        BY <4>1 DEF Name52
      <4>3. \A x, y : <<x>> = <<y>> => x = y
        OBVIOUS
      <4>4. name = "XP x64"
        BY <3>1, <4>2, <4>3, Zenon
      <4> QED
        BY <4>4
    <3> QED
      BY <1>1, <2>1, <3>1, <3>2, <3>3, <3>4, <3>5
  <2> QED
    <3>1. \/ v.workstation /\ v.arch = "AMD64" /\ Name52(v) = <<"XP x64">>
          \/ Name52(v) \in {<<"Server 2003 R2">>, <<"Storage Server 2003">>, <<"Home Server">>,
                            <<"Server 2003">>}
      BY DEF Name52
    <3> QED
      BY <2>2, <2>3, <3>1
<1>6. CASE v.major = 5 /\ v.minor = 1
  <2>1. NameOf(v) = <<"XP">> /\ "XP" \in ClientNames
    BY <1>6 DEF NameOf, ClientNames
  <2>2. Exists(v) => v.workstation
    BY <1>6 DEF Exists
  <2> QED
    BY <1>3, <2>1, <2>2, Zenon
<1>7. CASE v.major = 5 /\ v.minor = 0
  <2>1. NameOf(v) = <<"2000">> /\ "2000" \in SystemName
    BY <1>7 DEF NameOf, SystemName
  <2> QED
    BY <2>1
<1> QED
  BY <1>4, <1>5, <1>6, <1>7

(* Service pack, build and word size.                                      *)
LEMMA DetailsAre ==
  ASSUME NEW v
  PROVE  Details(v) \in Seq(Detail)
<1> DEFINE pack == IF v.servicePack THEN <<"Service Pack">> ELSE <<>>
           bits == CASE v.major >= 6 /\ v.arch = "AMD64" -> <<"64-bit">>
                     [] v.major >= 6 /\ v.arch = "INTEL" -> <<"32-bit">>
                     [] OTHER                            -> <<>>
<1>1. /\ <<>> \in Seq(Detail) /\ <<"Service Pack">> \in Seq(Detail) /\ <<"build">> \in Seq(Detail)
      /\ <<"64-bit">> \in Seq(Detail) /\ <<"32-bit">> \in Seq(Detail)
  BY DEF Detail
<1>2. pack \in Seq(Detail)
  BY <1>1, Zenon
<1>3. bits \in Seq(Detail)
  BY <1>1, Zenon
<1>4. Details(v) = pack \o <<"build">> \o bits
  BY DEF Details
<1> HIDE DEF pack, bits
<1>5. pack \o <<"build">> \in Seq(Detail)
  BY <1>1, <1>2, ConcatProperties
<1>6. (pack \o <<"build">>) \o bits \in Seq(Detail)
  BY <1>3, <1>5, ConcatProperties
<1> QED
  BY <1>4, <1>6, Zenon

(* What four texts give one after the other, the first of one piece.       *)
LEMMA Joined ==
  ASSUME NEW S, NEW first \in S, NEW a \in Seq(S), NEW b \in Seq(S), NEW c \in Seq(S),
         NEW whole, whole = (<<first>> \o (a \o b)) \o c
  PROVE  /\ whole \in Seq(S)
         /\ Len(whole) = 1 + Len(a) + Len(b) + Len(c)
         /\ whole[1] = first
         /\ \A i \in 1..Len(a) : whole[1 + i] = a[i]
         /\ \A i \in 1..Len(b) : whole[1 + Len(a) + i] = b[i]
         /\ \A i \in 1..Len(c) : whole[1 + Len(a) + Len(b) + i] = c[i]
<1> DEFINE d == a \o b
           f == <<first>>
           e == f \o d
           t == e \o c
<1>1. /\ d \in Seq(S) /\ Len(d) = Len(a) + Len(b)
      /\ \A i \in 1..Len(d) : d[i] = IF i <= Len(a) THEN a[i] ELSE b[i - Len(a)]
  BY ConcatProperties
<1> HIDE DEF d
<1>2. f \in Seq(S) /\ Len(f) = 1 /\ f[1] = first
  OBVIOUS
<1> HIDE DEF f
<1>3. /\ e \in Seq(S) /\ Len(e) = 1 + Len(d)
      /\ \A i \in 1..Len(e) : e[i] = IF i <= 1 THEN f[i] ELSE d[i - 1]
  <2>1. d \in Seq(S) /\ f \in Seq(S)
    BY <1>1, <1>2
  <2>2. /\ e \in Seq(S) /\ Len(e) = Len(f) + Len(d)
        /\ \A i \in 1..Len(f) + Len(d) : e[i] = IF i <= Len(f) THEN f[i] ELSE d[i - Len(f)]
    BY <2>1, ConcatProperties, Zenon
  <2> QED
    BY <1>2, <2>2, Zenon
<1> HIDE DEF e
<1>4. /\ t \in Seq(S) /\ Len(t) = Len(e) + Len(c)
      /\ \A i \in 1..Len(t) : t[i] = IF i <= Len(e) THEN e[i] ELSE c[i - Len(e)]
  <2>1. /\ t \in Seq(S) /\ Len(t) = Len(e) + Len(c)
        /\ \A i \in 1..Len(e) + Len(c) : t[i] = IF i <= Len(e) THEN e[i] ELSE c[i - Len(e)]
    BY <1>3, ConcatProperties, Zenon
  <2> QED
    BY <2>1, Zenon
<1> HIDE DEF t
<1>5. Len(a) \in Nat /\ Len(b) \in Nat /\ Len(c) \in Nat
  OBVIOUS
<1>6. Len(t) = 1 + Len(a) + Len(b) + Len(c)
  BY <1>1, <1>3, <1>4, <1>5
<1>7. t[1] = first
  <2>1. 1 \in 1..Len(t) /\ 1 <= Len(e) /\ 1 \in 1..Len(e)
    BY <1>1, <1>3, <1>5, <1>6
  <2> QED
    BY <1>2, <1>3, <1>4, <2>1
<1>8. ASSUME NEW i \in 1..Len(a)
      PROVE  t[1 + i] = a[i]
  <2>1. /\ 1 + i \in 1..Len(t) /\ 1 + i <= Len(e) /\ 1 + i \in 1..Len(e) /\ ~(1 + i <= 1)
        /\ 1 + i - 1 = i /\ i \in 1..Len(d) /\ i <= Len(a)
    BY <1>1, <1>3, <1>5, <1>6
  <2>2. t[1 + i] = e[1 + i] /\ e[1 + i] = d[1 + i - 1] /\ d[i] = a[i]
    BY <1>1, <1>3, <1>4, <2>1
  <2> QED
    BY <2>1, <2>2
<1>9. ASSUME NEW i \in 1..Len(b)
      PROVE  t[1 + Len(a) + i] = b[i]
  <2> DEFINE k == 1 + Len(a) + i
  <2>1. /\ k \in 1..Len(t) /\ k <= Len(e) /\ k \in 1..Len(e) /\ ~(k <= 1)
        /\ k - 1 \in 1..Len(d) /\ ~(k - 1 <= Len(a)) /\ k - 1 - Len(a) = i
    <3>1. /\ Len(d) = Len(a) + Len(b) /\ Len(e) = 1 + Len(d)
          /\ Len(t) = 1 + Len(a) + Len(b) + Len(c)
      BY <1>1, <1>3, <1>6
    <3> QED
      BY <1>5, <3>1
  <2> HIDE DEF k
  <2>2. t[k] = e[k] /\ e[k] = d[k - 1] /\ d[k - 1] = b[k - 1 - Len(a)]
    BY <1>1, <1>3, <1>4, <2>1
  <2>3. t[k] = b[i]
    BY <2>1, <2>2
  <2> QED
    BY <2>3 DEF k
<1>10. ASSUME NEW i \in 1..Len(c)
       PROVE  t[1 + Len(a) + Len(b) + i] = c[i]
  <2> DEFINE k == 1 + Len(a) + Len(b) + i
  <2>1. k \in 1..Len(t) /\ ~(k <= Len(e)) /\ k - Len(e) = i
    BY <1>1, <1>3, <1>5, <1>6
  <2> HIDE DEF k
  <2>2. t[k] = c[k - Len(e)]
    BY <1>4, <2>1
  <2>3. t[k] = c[i]
    BY <2>1, <2>2
  <2> QED
    BY <2>3 DEF k
<1>11. whole = t
  BY DEF t, e, f, d
<1> QED
  BY <1>4, <1>6, <1>7, <1>8, <1>9, <1>10, <1>11

(* The whole text of a known system.                                       *)
SystemText(v, dwType) == (<<"Microsoft">> \o Names(v, dwType)) \o Details(v)

(* What GetWindowsVersion() writes to the array for it, ended where it was *)
(* not.                                                                    *)
LEMMA SystemTextIs ==
  ASSUME NEW v \in VersionInfo, NEW dwType \in Product
  PROVE  /\ SystemText(v, dwType) \in Seq(Piece)
         /\ SystemText(v, dwType) # <<>>
         /\ Head(SystemText(v, dwType)) = "Microsoft"
         /\ \A i \in DOMAIN SystemText(v, dwType) :
              SystemText(v, dwType)[i] \notin {"garbage", "processor", "beyond"}
         /\ \A i \in DOMAIN SystemText(v, dwType) :
              SystemText(v, dwType)[i] \in SystemName <=> i \in 2..Len(NameOf(v)) + 1
         /\ \A i \in 1..Len(NameOf(v)) :
              i + 1 \in DOMAIN SystemText(v, dwType) /\ SystemText(v, dwType)[i + 1] = NameOf(v)[i]
<1> DEFINE a == NameOf(v)
           b == EditionOf(v, dwType)
           c == Details(v)
           t == SystemText(v, dwType)
<1>1. a \in Seq(SystemName) /\ b \in Seq(EditionName) /\ c \in Seq(Detail)
  BY NamesAre, EditionIs, DetailsAre
<1>2. t = (<<"Microsoft">> \o (a \o b)) \o c
  BY NamesAre DEF SystemText
<1> HIDE DEF a, b, c, t
<1>3. /\ SystemName \subseteq Piece /\ EditionName \subseteq Piece /\ Detail \subseteq Piece
      /\ "Microsoft" \in Piece
  BY Zenon DEF Piece
<1>4. /\ a \in Seq(Piece) /\ b \in Seq(Piece) /\ c \in Seq(Piece)
      /\ Len(a) \in Nat /\ Len(b) \in Nat /\ Len(c) \in Nat
      /\ \A i \in 1..Len(a) : a[i] \in SystemName
      /\ \A i \in 1..Len(b) : b[i] \in EditionName
      /\ \A i \in 1..Len(c) : c[i] \in Detail
  <2>1. \A S, T : S \subseteq T => Seq(S) \subseteq Seq(T)
    OBVIOUS
  <2>2. a \in Seq(Piece) /\ b \in Seq(Piece) /\ c \in Seq(Piece)
    BY <1>1, <1>3, <2>1, Zenon
  <2> QED
    BY <1>1, <2>2
<1>5. /\ t \in Seq(Piece)
      /\ Len(t) = 1 + Len(a) + Len(b) + Len(c)
      /\ t[1] = "Microsoft"
      /\ \A i \in 1..Len(a) : t[1 + i] = a[i]
      /\ \A i \in 1..Len(b) : t[1 + Len(a) + i] = b[i]
      /\ \A i \in 1..Len(c) : t[1 + Len(a) + Len(b) + i] = c[i]
  BY <1>2, <1>3, <1>4, Joined, SMTT(60)
<1>6. "Microsoft" \notin SystemName \cup {"garbage", "processor", "beyond"}
  BY DEF SystemName, ClientNames, ServerNames
<1>7. \A x \in SystemName : x \notin {"garbage", "processor", "beyond"}
  BY DEF SystemName, ClientNames, ServerNames
<1>8. \A x \in EditionName \cup Detail : x \notin SystemName \cup {"garbage", "processor", "beyond"}
  <2> DEFINE None(x) == x \notin SystemName \cup {"garbage", "processor", "beyond"}
  <2>1. \A x \in Product : None(x)
    BY DEF Product, SystemName, ClientNames, ServerNames
  <2>2. \A x \in Suite : None(x)
    BY DEF Suite, SystemName, ClientNames, ServerNames
  <2>3. \A x \in {"Enterprise Edition", "Datacenter Edition", "Standard Edition",
                  "Home Edition", "Professional", "Server"} : None(x)
    BY DEF SystemName, ClientNames, ServerNames
  <2>4. \A x \in Detail : None(x)
    BY DEF Detail, SystemName, ClientNames, ServerNames
  <2> HIDE DEF None
  <2>5. \A x \in EditionName \cup Detail : None(x)
    BY <2>1, <2>2, <2>3, <2>4, Zenon DEF EditionName
  <2> QED
    BY <2>5 DEF None
<1>9. \A i \in DOMAIN t : i \in Nat /\ (i = 1 \/ i \in 2..Len(a) + 1 \/ i > Len(a) + 1)
  BY <1>4, <1>5
<1>10. ASSUME NEW i \in 2..Len(a) + 1
       PROVE  i \in DOMAIN t /\ t[i] \in SystemName
  <2>1. i - 1 \in 1..Len(a) /\ 1 + (i - 1) = i /\ i \in 1..Len(t)
    BY <1>4, <1>5
  <2>2. t[i] = a[i - 1]
    BY <1>5, <2>1
  <2> QED
    BY <1>4, <1>5, <2>1, <2>2
<1>11. ASSUME NEW i \in DOMAIN t, i > Len(a) + 1
       PROVE  t[i] \in EditionName \cup Detail
  <2>1. i \in 1..Len(t)
    BY <1>5
  <2>2. CASE i <= Len(a) + 1 + Len(b)
    <3>1. \A x, y \in Nat, k \in Nat :
            k > x + 1 /\ k <= x + 1 + y => k - x - 1 \in 1..y /\ 1 + x + (k - x - 1) = k
      OBVIOUS
    <3>2. i - Len(a) - 1 \in 1..Len(b) /\ 1 + Len(a) + (i - Len(a) - 1) = i
      BY <1>4, <1>9, <1>11, <2>2, <3>1, Zenon
    <3>3. t[i] = b[i - Len(a) - 1]
      BY <1>5, <3>2
    <3> QED
      BY <1>4, <3>2, <3>3
  <2>3. CASE i > Len(a) + 1 + Len(b)
    <3>1. /\ i - Len(a) - 1 - Len(b) \in 1..Len(c)
          /\ 1 + Len(a) + Len(b) + (i - Len(a) - 1 - Len(b)) = i
      BY <1>4, <1>5, <2>1, <2>3
    <3>2. t[i] = c[i - Len(a) - 1 - Len(b)]
      BY <1>5, <3>1
    <3> QED
      BY <1>4, <3>1, <3>2
  <2> QED
    BY <1>4, <2>1, <2>2, <2>3
<1>12. ASSUME NEW i \in DOMAIN t
       PROVE  /\ t[i] \notin {"garbage", "processor", "beyond"}
              /\ t[i] \in SystemName <=> i \in 2..Len(a) + 1
  <2>1. CASE i = 1
    <3>1. i \notin 2..Len(a) + 1
      BY <2>1, <1>4
    <3> QED
      BY <1>5, <1>6, <2>1, <3>1, Zenon
  <2>2. CASE i \in 2..Len(a) + 1
    BY <1>7, <1>10, <2>2, Zenon
  <2>3. CASE i > Len(a) + 1
    <3>1. i \notin 2..Len(a) + 1
      BY <1>4, <1>9, <2>3
    <3> QED
      BY <1>8, <1>11, <2>3, <3>1, Zenon
  <2> QED
    BY <1>9, <2>1, <2>2, <2>3
<1>13. ASSUME NEW i \in 1..Len(a)
       PROVE  i + 1 \in DOMAIN t /\ t[i + 1] = a[i]
  <2>1. i + 1 \in 2..Len(a) + 1 /\ 1 + i = i + 1
    BY <1>4
  <2>2. t[1 + i] = a[i]
    BY <1>5
  <2> QED
    BY <1>10, <2>1, <2>2, Zenon
<1>14. t # <<>> /\ Head(t) = "Microsoft"
  BY <1>4, <1>5
<1> QED
  BY <1>5, <1>12, <1>13, <1>14, Zenon DEF a, t

-----------------------------------------------------------------------------
(* The lines.                                                              *)

(* What GetWindowsVersion() finds in the array: it has room behind the     *)
(* name of the processor, unless that is too long.                         *)
Ended ==
  /\ processor \in Int
  /\ pc \in {"separator", "processor"} => processor = NoName
  /\ pc \in {"hardware", "version"} /\ processor # NoName =>
       (room <=> processor + Sentence < Countof)
  /\ CrashHasReason

(* Whatever the lengths of names and whatever the systems, a report        *)
(* crashes in GetWindowsVersion() for one of the two reasons only.         *)
THEOREM CrashesHaveReasons == Spec => []CrashHasReason
<1> USE DEF CrashHasReason, NoName
<1>1. Init => Ended
  BY DEF Init, Ended
<1>2. Ended /\ [Next]_vars => Ended'
  <2> SUFFICES ASSUME Ended, [Next]_vars
               PROVE  Ended'
    OBVIOUS
  <2> USE DEF Ended
  <2>1. CASE PrintSeparator
    BY <2>1 DEF PrintSeparator
  <2>2. ASSUME NEW n \in Length, GetProcessorName(n)
        PROVE  Ended'
    <3>1. n \in Int
      BY SystemInfoAssumption
    <3>2. /\ room' = (n + Sentence < Countof) /\ processor' = n /\ pc' = "hardware"
          /\ UNCHANGED version
      BY <2>2 DEF GetProcessorName
    <3> QED
      BY <3>1, <3>2
  <2>9. CASE GetProcessorNameFails
    BY <2>9 DEF GetProcessorNameFails
  <2>3. ASSUME NEW n \in Width, NEW total \in Size, NEW available \in Size,
               PrintHardware(n, total, available)
        PROVE  Ended'
    BY <2>3 DEF PrintHardware
  <2>4. ASSUME NEW v \in Version, NEW dwType \in ProductTypes(v), GetWindowsVersion(v, dwType)
        PROVE  Ended'
    BY <2>4 DEF GetWindowsVersion
  <2>5. ASSUME NEW v \in Version, GetWindowsVersionCrashes(v)
        PROVE  Ended'
    <3>1. /\ pc = "version" /\ pc' = "crashed" /\ version' = v
          /\ UNCHANGED <<room, processor>>
          /\ (~Known(v) /\ ~room) \/ (v.nt /\ v.major = 6 /\ ~v.hasProductInfo)
      BY <2>5 DEF GetWindowsVersionCrashes, Appends, CallsNull, Known
    <3>2. CASE v.nt /\ v.major = 6 /\ ~v.hasProductInfo
      BY <3>1, <3>2
    <3>3. CASE ~Known(v) /\ ~room
      <4>1. processor # NoName => ~(processor + Sentence < Countof)
        BY <3>1, <3>3
      <4>2. processor # NoName => processor + Sentence >= Countof
        BY <4>1 DEF Sentence, Countof
      <4> QED
        BY <3>1, <3>3, <4>2 DEF Known
    <3> QED
      BY <3>1, <3>2, <3>3
  <2>6. ASSUME NEW n \in Width, PrintSystem(n)
        PROVE  Ended'
    BY <2>6 DEF PrintSystem
  <2>7. CASE Finished \/ UNCHANGED vars
    BY <2>7 DEF Finished, vars, Known
  <2> QED
    BY <2>1, <2>2, <2>3, <2>4, <2>5, <2>6, <2>7, <2>9 DEF Next
<1>3. Ended => CrashHasReason
  BY DEF Ended
<1> QED
  BY <1>1, <1>2, <1>3, PTL DEF Spec

(* Of a line that has been written: how much of it there is, and what is   *)
(* shown of the sizes, is what the utilities give.                         *)
Written ==
  /\ runtime \in Runtime
  /\ line # NoLine =>
       /\ line.length \in Nat /\ line.kept = StringAppendV(runtime, line.length).kept
       /\ line.sizes \in Seq(Nat)
       /\ line.shown = [i \in DOMAIN line.sizes |-> FileSizeToStr(runtime, line.sizes[i])]

(* AddToReport() writes no other line.                                     *)
LEMMA AddsWritten ==
  ASSUME Written, UNCHANGED runtime, NEW what, NEW n \in Nat, NEW text, NEW sizes \in Seq(Nat),
         AddToReport(what, n, text, sizes)
  PROVE  Written'
<1> DEFINE shown == [i \in DOMAIN sizes |-> FileSizeToStr(runtime, sizes[i])]
           l == [file |-> GetAppName(path, MaxFName), what |-> what, length |-> n,
                 kept |-> StringAppendV(runtime, n).kept, text |-> text, sizes |-> sizes,
                 shown |-> shown]
<1>1. line' = l \/ line' = NoLine
  BY DEF AddToReport, WriteTextToFile
<1>2. /\ l.length = n /\ l.kept = StringAppendV(runtime, n).kept
      /\ l.sizes = sizes /\ l.shown = shown
  OBVIOUS
<1> HIDE DEF l
<1>3. CASE line' = NoLine
  BY <1>3 DEF Written
<1>4. CASE line' = l
  BY <1>2, <1>4 DEF Written
<1> QED
  BY <1>1, <1>3, <1>4

(* Every line is written by AddToReport().                                 *)
LEMMA LinesWritten == Spec => []Written
<1>1. Init => Written
  BY DEF Init, Written
<1>2. Written /\ [Next]_vars => Written'
  <2> SUFFICES ASSUME Written, [Next]_vars
               PROVE  Written'
    OBVIOUS
  <2>1. ASSUME UNCHANGED runtime, line' = NoLine
        PROVE  Written'
    BY <2>1 DEF Written
  <2>2. CASE PrintSeparator
    <3>1. UNCHANGED runtime /\ AddToReport("separator", 55, <<>>, <<>>)
      BY <2>2 DEF PrintSeparator
    <3>2. 55 \in Nat /\ <<>> \in Seq(Nat)
      OBVIOUS
    <3> QED
      BY <3>1, <3>2, AddsWritten
  <2>3. CASE (\E n \in Length : GetProcessorName(n)) \/ GetProcessorNameFails
    BY <2>1, <2>3 DEF GetProcessorName, GetProcessorNameFails
  <2>4. ASSUME NEW n \in Width, NEW total \in Size, NEW available \in Size,
               PrintHardware(n, total, available)
        PROVE  Written'
    <3>1. n \in Nat /\ total \in Nat /\ available \in Nat
      BY SystemInfoAssumption
    <3>2. <<total, available>> \in Seq(Nat)
      BY <3>1
    <3>3. UNCHANGED runtime
          /\ AddToReport("hardware", n, IF processor # NoName THEN sString ELSE <<"<unknown>">>,
                         <<total, available>>)
      BY <2>4 DEF PrintHardware
    <3> QED
      BY <3>1, <3>2, <3>3, AddsWritten
  <2>5. ASSUME NEW v \in Version, NEW dwType \in ProductTypes(v), GetWindowsVersion(v, dwType)
        PROVE  Written'
    BY <2>1, <2>5 DEF GetWindowsVersion
  <2>6. ASSUME NEW v \in Version, GetWindowsVersionCrashes(v)
        PROVE  Written'
    BY <2>1, <2>6 DEF GetWindowsVersionCrashes
  <2>7. ASSUME NEW n \in Width, PrintSystem(n)
        PROVE  Written'
    <3>1. n \in Nat /\ <<>> \in Seq(Nat)
      BY SystemInfoAssumption
    <3>2. UNCHANGED runtime
          /\ AddToReport("system", n, IF Known(version) THEN sString ELSE <<"<unknown>">>, <<>>)
      BY <2>7 DEF PrintSystem
    <3> QED
      BY <3>1, <3>2, AddsWritten
  <2>8. CASE Finished \/ UNCHANGED vars
    BY <2>8 DEF Finished, vars, Written
  <2> QED
    BY <2>2, <2>3, <2>4, <2>5, <2>6, <2>7, <2>8 DEF Next
<1> QED
  BY <1>1, <1>2, PTL DEF Spec

(* No line of the report, of any length, is cut at StringAppendV()'s       *)
(* buffer.                                                                 *)
THEOREM LinesWhole == Spec => []TextWhole
<1>1. Written => TextWhole
  BY AppendsWhole DEF Written, TextWhole
<1> QED
  BY <1>1, LinesWritten, PTL

(* Of any two sizes in a line the larger is not shown as the smaller.      *)
THEOREM MemoryIsOrdered == Spec => []MemoryOrdered
<1>1. Written => MemoryOrdered
  <2> SUFFICES ASSUME Written, line # NoLine, NEW i \in DOMAIN line.sizes, NEW j \in DOMAIN line.sizes,
                      line.sizes[i] <= line.sizes[j]
               PROVE  Shown(line.shown[i]) <= Shown(line.shown[j])
    BY DEF MemoryOrdered
  <2>1. line.sizes[i] \in Nat /\ line.sizes[j] \in Nat
    BY DEF Written
  <2>2. /\ line.shown[i] = FileSizeToStr(runtime, line.sizes[i])
        /\ line.shown[j] = FileSizeToStr(runtime, line.sizes[j])
    BY DEF Written
  <2> QED
    BY <2>1, <2>2, SizesOrdered
<1> QED
  BY <1>1, LinesWritten, PTL

-----------------------------------------------------------------------------
(* The names in the lines.                                                 *)

(* The array once GetProcessorName() has copied a name of length n to it.  *)
ProcessorText(n) == IF n < Countof THEN <<"processor">> ELSE <<"processor", "beyond">>

(* What the array holds at each point, and what a line has been made from. *)
Held ==
  /\ path \in Path
  /\ processor \in Int
  /\ pc \in {"separator", "processor"} => sString = <<"garbage">> /\ processor = NoName
  /\ pc \in {"hardware", "version"} =>
       sString = IF processor # NoName THEN ProcessorText(processor) ELSE <<"garbage">>
  /\ pc = "system" /\ Known(version) =>
       version \in Version /\ \E dwType \in Product : sString = SystemText(version, dwType)
  /\ line # NoLine => line.file = GetAppName(path, MaxFName)
  /\ line.what = "hardware" =>
       line.text = IF processor # NoName THEN ProcessorText(processor) ELSE <<"<unknown>">>
  /\ line.what = "system" =>
       IF Known(version)
         THEN version \in Version /\ \E dwType \in Product : line.text = SystemText(version, dwType)
         ELSE line.text = <<"<unknown>">>

(* What one call of AddToReport() gives the invariant to keep.             *)
LEMMA AddsNamed ==
  ASSUME NEW what, NEW n, NEW text, NEW sizes, AddToReport(what, n, text, sizes)
  PROVE  \/ line' = NoLine
         \/ line'.file = GetAppName(path, MaxFName) /\ line'.what = what /\ line'.text = text
<1> DEFINE l == [file |-> GetAppName(path, MaxFName), what |-> what, length |-> n,
                 kept |-> StringAppendV(runtime, n).kept, text |-> text, sizes |-> sizes,
                 shown |-> [i \in DOMAIN sizes |-> FileSizeToStr(runtime, sizes[i])]]
<1>1. line' = l \/ line' = NoLine
  BY DEF AddToReport, WriteTextToFile
<1>2. l.file = GetAppName(path, MaxFName) /\ l.what = what /\ l.text = text
  OBVIOUS
<1> HIDE DEF l
<1> QED
  BY <1>1, <1>2, Zenon

(* The array holds what PrintSystemInfo() relies on.                       *)
LEMMA ArrayHeld == Spec => []Held
<1>1. Init => Held
  BY DEF Init, Held, Known, NoLine, NoName
<1>2. Held /\ [Next]_vars => Held'
  <2> SUFFICES ASSUME Held, [Next]_vars
               PROVE  Held'
    OBVIOUS
  <2> USE DEF Held
  <2>0. NoLine.what = "none"
    BY DEF NoLine
  <2>1. CASE PrintSeparator
    <3>1. /\ AddToReport("separator", 55, <<>>, <<>>)
          /\ pc = "separator" /\ pc' = "processor" /\ UNCHANGED <<path, sString, processor, version>>
      BY <2>1 DEF PrintSeparator
    <3>2. \/ line' = NoLine
          \/ line'.file = GetAppName(path, MaxFName) /\ line'.what = "separator"
      BY <3>1, AddsNamed
    <3> QED
      BY <2>0, <3>1, <3>2
  <2>2. ASSUME NEW n \in Length, GetProcessorName(n)
        PROVE  Held'
    <3>1. n # NoName /\ n \in Int
      BY SystemInfoAssumption DEF NoName
    <3>2. /\ sString' = ProcessorText(n) /\ processor' = n /\ pc' = "hardware"
          /\ line' = NoLine /\ UNCHANGED <<path, version>>
      BY <2>2 DEF GetProcessorName, ProcessorText
    <3> QED
      BY <2>0, <3>1, <3>2
  <2>3. CASE GetProcessorNameFails
    BY <2>0, <2>3 DEF GetProcessorNameFails
  <2>4. ASSUME NEW n \in Width, NEW total \in Size, NEW available \in Size,
               PrintHardware(n, total, available)
        PROVE  Held'
    <3> DEFINE text == IF processor # NoName THEN sString ELSE <<"<unknown>">>
    <3>1. /\ AddToReport("hardware", n, text, <<total, available>>)
          /\ pc = "hardware" /\ pc' = "version" /\ UNCHANGED <<path, sString, processor, version>>
      BY <2>4 DEF PrintHardware
    <3>2. text = IF processor # NoName THEN ProcessorText(processor) ELSE <<"<unknown>">>
      BY <3>1
    <3> HIDE DEF text
    <3>3. \/ line' = NoLine
          \/ line'.file = GetAppName(path, MaxFName) /\ line'.what = "hardware" /\ line'.text = text
      BY <3>1, AddsNamed
    <3> QED
      BY <2>0, <3>1, <3>2, <3>3
  <2>5. ASSUME NEW v \in Version, NEW dwType \in ProductTypes(v), GetWindowsVersion(v, dwType)
        PROVE  Held'
    <3>1. v \in VersionInfo
      BY SystemInfoAssumption
    <3>2. dwType \in Product
      BY <3>1 DEF ProductTypes, VersionInfo
    <3>3. /\ pc' = "system" /\ version' = v /\ line' = NoLine /\ UNCHANGED <<path, processor>>
          /\ Known(v) => sString' = <<>> \o SystemText(v, dwType)
      BY <2>5, Zenon DEF GetWindowsVersion, Appends, SystemText
    <3>4. <<>> \o SystemText(v, dwType) = SystemText(v, dwType)
      BY <3>1, <3>2, SystemTextIs
    <3> QED
      BY <2>0, <3>2, <3>3, <3>4, Zenon DEF Known
  <2>6. ASSUME NEW v \in Version, GetWindowsVersionCrashes(v)
        PROVE  Held'
    BY <2>0, <2>6 DEF GetWindowsVersionCrashes
  <2>7. ASSUME NEW n \in Width, PrintSystem(n)
        PROVE  Held'
    <3> DEFINE text == IF Known(version) THEN sString ELSE <<"<unknown>">>
    <3>1. /\ AddToReport("system", n, text, <<>>)
          /\ pc = "system" /\ pc' = "returned" /\ UNCHANGED <<path, sString, processor, version>>
      BY <2>7 DEF PrintSystem
    <3>2. IF Known(version)
            THEN version \in Version /\ \E dwType \in Product : text = SystemText(version, dwType)
            ELSE text = <<"<unknown>">>
      BY <3>1, Zenon
    <3> HIDE DEF text
    <3>3. \/ line' = NoLine
          \/ line'.file = GetAppName(path, MaxFName) /\ line'.what = "system" /\ line'.text = text
      BY <3>1, AddsNamed
    <3> QED
      BY <2>0, <3>1, <3>2, <3>3 DEF Known
  <2>8. CASE Finished \/ UNCHANGED vars
    BY <2>8 DEF Finished, vars, Known
  <2> QED
    BY <2>1, <2>2, <2>3, <2>4, <2>5, <2>6, <2>7, <2>8 DEF Next
<1> QED
  BY <1>1, <1>2, PTL DEF Spec

(* The log of every application, started from any path that is not cut,    *)
(* has its name.                                                           *)
THEOREM AppsAreNamed == Spec => []AppNamed
<1>1. Held => AppNamed
  <2> SUFFICES ASSUME Held, line # NoLine, Len(path) < MaxFName
               PROVE  AppNamed
    BY DEF AppNamed
  <2>1. path \in Seq(Character) /\ MaxFName \in Nat
    BY SystemInfoAssumption DEF Held
  <2>2. line.file = GetAppName(path, MaxFName)
    BY DEF Held
  <2> QED
    BY <2>1, <2>2, AppNameIs DEF AppNamed
<1> QED
  BY <1>1, ArrayHeld, PTL

(* Of no system is anything else that went through the array printed.      *)
THEOREM NamesAreSeparate == Spec => []NamesSeparate
<1>1. Held => NamesSeparate
  <2> SUFFICES ASSUME Held
               PROVE  NamesSeparate
    OBVIOUS
  <2>1. ASSUME line.what = "system", Known(version)
        PROVE  /\ Head(line.text) = "Microsoft"
               /\ \A i \in DOMAIN line.text : line.text[i] \notin {"garbage", "processor", "beyond"}
    <3>1. PICK dwType \in Product : version \in Version /\ line.text = SystemText(version, dwType)
      BY <2>1 DEF Held
    <3>2. version \in VersionInfo
      BY <3>1, SystemInfoAssumption
    <3> QED
      BY <3>1, <3>2, SystemTextIs, Zenon
  <2>2. line.what = "system" /\ ~Known(version) => line.text = <<"<unknown>">>
    BY DEF Held
  <2>3. line.what = "hardware" =>
          \/ line.text \in {<<"<unknown>">>, <<"processor">>}
          \/ line.text = <<"processor", "beyond">> /\ ~(processor < Countof)
    BY Zenon DEF Held, ProcessorText
  <2>4. ~(processor < Countof) => processor >= Countof
    BY DEF Held, Countof
  <2> QED
    BY <2>1, <2>2, <2>3, <2>4, Zenon DEF NamesSeparate
<1> QED
  BY <1>1, ArrayHeld, PTL

(* Whatever a system of version 5.0 to 6.2 says of itself, and whatever    *)
(* dwType holds, the text has one name, the right one.                     *)
THEOREM SystemsAreNamed == Spec => []SystemNamed
<1>1. Held => SystemNamed
  <2> SUFFICES ASSUME Held, line.what = "system", Known(version), version.major <= 6,
                      version.minor <= 2
               PROVE  SystemNamed
    BY DEF SystemNamed
  <2>1. PICK dwType \in Product : version \in Version /\ line.text = SystemText(version, dwType)
    BY DEF Held
  <2>2. version \in VersionInfo
    BY <2>1, SystemInfoAssumption
  <2>3. version.major \in {5, 6} /\ version.minor \in {0, 1, 2}
    <3>1. version.major \in Nat /\ version.minor \in Nat /\ version.major > 4
      BY <2>2 DEF VersionInfo, Known
    <3> QED
      BY <3>1
  <2>4. PICK name \in SystemName :
          /\ NameOf(version) = <<name>>
          /\ name # "2000" /\ Exists(version) =>
               \/ name \in ServerNames <=> ~version.workstation
               \/ version.major = 5 /\ version.minor = 2 /\ version.workstation
                  /\ version.arch # "AMD64"
    BY <2>2, <2>3, OneName
  <2> DEFINE t == SystemText(version, dwType)
  <2>5. /\ \A i \in DOMAIN t : t[i] \in SystemName <=> i \in 2..Len(NameOf(version)) + 1
        /\ \A i \in 1..Len(NameOf(version)) : i + 1 \in DOMAIN t /\ t[i + 1] = NameOf(version)[i]
    BY <2>2, SystemTextIs, Zenon
  <2> HIDE DEF t
  <2>6. /\ Len(NameOf(version)) = 1 /\ NameOf(version)[1] = name
        /\ 1 \in 1..1 /\ 1 + 1 = 2 /\ \A i : i \in 2..2 <=> i = 2
    BY <2>4
  <2>7. 2 \in DOMAIN t /\ t[2] = name
    BY <2>5, <2>6
  <2>8. \A i \in DOMAIN t : t[i] \in SystemName <=> i = 2
    BY <2>5, <2>6
  <2>9. line.text = t
    BY <2>1 DEF t
  <2> QED
    BY <2>4, <2>7, <2>8, <2>9, Zenon DEF SystemNamed
<1> QED
  BY <1>1, ArrayHeld, PTL

-----------------------------------------------------------------------------
(* Types.                                                                  *)

(* The number shown is a whole number of tenths of one of the two units.   *)
LEMMA SizeShown ==
  ASSUME NEW r, NEW n \in Nat
  PROVE  FileSizeToStr(r, n) \in [tenths : Nat, unit : {KB, MB}]
<1>1. Tenths(r, n, KB) \in Nat /\ Tenths(r, n, MB) \in Nat
  BY Rounded
<1>2. 10 * (n \div KB) \in Nat
  BY DEF KB
<1> QED
  BY <1>1, <1>2, Zenon DEF FileSizeToStr

(* AddToReport() of a text gives a line, or none.                          *)
LEMMA AddsLine ==
  ASSUME runtime \in Runtime, path \in Path, lost \in BOOLEAN,
         NEW what \in {"separator", "hardware", "system"}, NEW n \in Nat, NEW text \in Seq(Piece),
         NEW sizes \in Seq(Nat), AddToReport(what, n, text, sizes)
  PROVE  line' \in Line \cup {NoLine} /\ lost' \in BOOLEAN
<1> DEFINE file == GetAppName(path, MaxFName)
           kept == StringAppendV(runtime, n).kept
           shown == [i \in DOMAIN sizes |-> FileSizeToStr(runtime, sizes[i])]
           l == [file |-> file, what |-> what, length |-> n, kept |-> kept, text |-> text,
                 sizes |-> sizes, shown |-> shown]
<1>1. file \in Seq(Character)
  BY AppNameType, SystemInfoAssumption
<1>2. kept \in Nat
  BY AppendsWhole
<1>3. shown \in Seq([tenths : Nat, unit : {KB, MB}])
  <2>1. DOMAIN sizes = 1..Len(sizes) /\ Len(sizes) \in Nat /\ \A i \in 1..Len(sizes) : sizes[i] \in Nat
    OBVIOUS
  <2>2. \A i \in 1..Len(sizes) : FileSizeToStr(runtime, sizes[i]) \in [tenths : Nat, unit : {KB, MB}]
    BY <2>1, SizeShown
  <2> DEFINE T == [tenths : Nat, unit : {KB, MB}]
  <2>3. \A i \in 1..Len(sizes) : FileSizeToStr(runtime, sizes[i]) \in T
    BY <2>2
  <2> HIDE DEF T
  <2>4. shown = [i \in 1..Len(sizes) |-> FileSizeToStr(runtime, sizes[i])]
    BY <2>1, Zenon
  <2>5. shown \in [1..Len(sizes) -> T]
    BY <2>3, <2>4, Zenon
  <2> HIDE DEF shown
  <2>6. \A U, f : \A k \in Nat : f \in [1..k -> U] => f \in Seq(U)
    OBVIOUS
  <2>7. shown \in Seq(T)
    BY <2>1, <2>5, <2>6, Zenon
  <2> QED
    BY <2>7, Zenon DEF T
<1>4. \/ line' = l /\ lost' \in {lost, TRUE}
      \/ line' = NoLine /\ lost' = TRUE
  <2>1. WriteTextToFile(l)
    BY DEF AddToReport
  <2> HIDE DEF l
  <2> QED
    BY <2>1, Zenon DEF WriteTextToFile
<1> HIDE DEF file, kept, shown
<1>5. l \in Line
  BY <1>1, <1>2, <1>3, Zenon DEF Line
<1> HIDE DEF l
<1> QED
  BY <1>4, <1>5, Zenon

(* The variables have their types.                                         *)
THEOREM TypesKept == Spec => []TypeOK
<1>0. \A x \in Piece : <<x>> \in Seq(Piece)
  OBVIOUS
<1>4. <<"processor", "beyond">> \in Seq(Piece)
  <2>1. "processor" \in Piece /\ "beyond" \in Piece
    BY Zenon DEF Piece
  <2> QED
    BY <2>1
<1>1. /\ <<>> \in Seq(Piece) /\ <<"garbage">> \in Seq(Piece) /\ <<"processor">> \in Seq(Piece)
      /\ <<"<unknown>">> \in Seq(Piece) /\ <<"unsupported">> \in Seq(Piece)
  <2>1. <<>> \in Seq(Piece)
    OBVIOUS
  <2> QED
    BY <1>0, <2>1, Zenon DEF Piece
<1>2. Init => TypeOK
  BY <1>1 DEF Init, TypeOK
<1>3. TypeOK /\ [Next]_vars => TypeOK'
  <2> SUFFICES ASSUME TypeOK, [Next]_vars
               PROVE  TypeOK'
    OBVIOUS
  <2> USE DEF TypeOK
  <2>1. CASE PrintSeparator
    <3>1. /\ AddToReport("separator", 55, <<>>, <<>>) /\ pc' = "processor"
          /\ UNCHANGED <<runtime, path, sString, room, hKey, processor, version>>
      BY <2>1 DEF PrintSeparator
    <3>2. 55 \in Nat /\ <<>> \in Seq(Nat)
      OBVIOUS
    <3>3. line' \in Line \cup {NoLine} /\ lost' \in BOOLEAN
      BY <1>1, <3>1, <3>2, AddsLine
    <3> QED
      BY <3>1, <3>3
  <2>2. ASSUME NEW n \in Length, GetProcessorName(n)
        PROVE  TypeOK'
    <3>1. sString' \in Seq(Piece)
      BY <1>1, <1>4, <2>2, Zenon DEF GetProcessorName
    <3>2. /\ processor' = n /\ room' = (n + Sentence < Countof) /\ pc' = "hardware"
          /\ line' = NoLine /\ UNCHANGED <<runtime, path, hKey, version, lost>>
      BY <2>2 DEF GetProcessorName
    <3>3. room' \in BOOLEAN
      <4>1. (n + Sentence < Countof) \in BOOLEAN
        OBVIOUS
      <4> QED
        BY <3>2, <4>1, Zenon
    <3>4. processor' \in Length
      BY <3>2
    <3> HIDE DEF TypeOK
    <3> QED
      BY <3>1, <3>2, <3>3, <3>4, Zenon DEF TypeOK
  <2>3. CASE GetProcessorNameFails
    BY <2>3 DEF GetProcessorNameFails
  <2>4. ASSUME NEW n \in Width, NEW total \in Size, NEW available \in Size,
               PrintHardware(n, total, available)
        PROVE  TypeOK'
    <3> DEFINE text == IF processor # NoName THEN sString ELSE <<"<unknown>">>
    <3>1. /\ AddToReport("hardware", n, text, <<total, available>>) /\ pc' = "version"
          /\ UNCHANGED <<runtime, path, sString, room, hKey, processor, version>>
      BY <2>4 DEF PrintHardware
    <3>2. n \in Nat /\ total \in Nat /\ available \in Nat
      BY SystemInfoAssumption
    <3>3. <<total, available>> \in Seq(Nat)
      BY <3>2
    <3>4. text \in Seq(Piece)
      BY <1>1, Zenon
    <3> HIDE DEF text
    <3>5. line' \in Line \cup {NoLine} /\ lost' \in BOOLEAN
      BY <3>1, <3>2, <3>3, <3>4, AddsLine
    <3> QED
      BY <3>1, <3>5
  <2>5. ASSUME NEW v \in Version, NEW dwType \in ProductTypes(v), GetWindowsVersion(v, dwType)
        PROVE  TypeOK'
    <3>1. v \in VersionInfo
      BY SystemInfoAssumption
    <3>2. dwType \in Product
      BY <3>1 DEF ProductTypes, VersionInfo
    <3>3. SystemText(v, dwType) \in Seq(Piece)
      BY <3>1, <3>2, SystemTextIs
    <3>4. sString' = (IF Appends(v) THEN sString ELSE <<>>)
                     \o (IF Known(v) THEN SystemText(v, dwType) ELSE <<"unsupported">>)
      BY <2>5, Zenon DEF GetWindowsVersion, SystemText
    <3>5. sString' \in Seq(Piece)
      BY <1>1, <3>3, <3>4, ConcatProperties
    <3>6. /\ pc' = "system" /\ version' = v /\ line' = NoLine /\ room' = TRUE
          /\ UNCHANGED <<runtime, path, hKey, processor, lost>>
      BY <2>5 DEF GetWindowsVersion
    <3> QED
      BY <3>5, <3>6
  <2>6. ASSUME NEW v \in Version, GetWindowsVersionCrashes(v)
        PROVE  TypeOK'
    <3>1. v \in VersionInfo
      BY SystemInfoAssumption
    <3>2. ASSUME CallsNull(v)
          PROVE  <<"Microsoft">> \o Name6(v) \in Seq(Piece)
      <4>1. NameOf(v) = Name6(v)
        BY <3>2 DEF CallsNull, NameOf
      <4>2. Name6(v) \in Seq(SystemName)
        BY <3>1, <4>1, NamesAre DEF VersionInfo
      <4>3. SystemName \subseteq Piece /\ "Microsoft" \in Piece
        BY Zenon DEF Piece
      <4>4. Name6(v) \in Seq(Piece) /\ <<"Microsoft">> \in Seq(Piece)
        BY <4>2, <4>3
      <4> QED
        BY <4>4, ConcatProperties
    <3>3. sString' \in Seq(Piece)
      BY <2>6, <3>2, Zenon DEF GetWindowsVersionCrashes
    <3>4. /\ pc' = "crashed" /\ version' = v /\ line' = NoLine
          /\ UNCHANGED <<runtime, path, room, hKey, processor, lost>>
      BY <2>6 DEF GetWindowsVersionCrashes
    <3> QED
      BY <3>3, <3>4
  <2>7. ASSUME NEW n \in Width, PrintSystem(n)
        PROVE  TypeOK'
    <3> DEFINE text == IF Known(version) THEN sString ELSE <<"<unknown>">>
    <3>1. /\ AddToReport("system", n, text, <<>>) /\ pc' = "returned"
          /\ UNCHANGED <<runtime, path, sString, room, hKey, processor, version>>
      BY <2>7 DEF PrintSystem
    <3>2. n \in Nat /\ <<>> \in Seq(Nat)
      BY SystemInfoAssumption
    <3>3. text \in Seq(Piece)
      BY <1>1, Zenon
    <3> HIDE DEF text
    <3>4. line' \in Line \cup {NoLine} /\ lost' \in BOOLEAN
      BY <3>1, <3>2, <3>3, AddsLine
    <3> QED
      BY <3>1, <3>4
  <2>8. CASE Finished \/ UNCHANGED vars
    BY <2>8 DEF Finished, vars
  <2> QED
    BY <2>1, <2>2, <2>3, <2>4, <2>5, <2>6, <2>7, <2>8 DEF Next
<1> QED
  BY <1>2, <1>3, PTL DEF Spec
=============================================================================
