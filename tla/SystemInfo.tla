----------------------------- MODULE SystemInfo -----------------------------
(***************************************************************************)
(* The last part of a report's text: PrintSystemInfo() of                  *)
(* src/src/Report.cpp with GetProcessorName() and GetWindowsVersion().     *)
(*                                                                         *)
(* Processor and version go through one array of characters on the stack,  *)
(* sString.  It is not initialised, each function writes to it, or fails,  *)
(* and a later one may append to what an earlier one has left.             *)
(***************************************************************************)
EXTENDS TextUtilities

CONSTANTS
  Path,     \* paths the application may have been started from
  MaxFName, \* _MAX_FNAME
  Size,     \* sizes of memory
  Width,    \* lengths of the lines with a name in them
  Length,   \* lengths that the name of the processor may have
  Version   \* what the system may say of itself, as below

Product ==
  {"ULTIMATE", "PROFESSIONAL", "HOME_PREMIUM", "HOME_BASIC", "ENTERPRISE", "BUSINESS", "STARTER",
   "CLUSTER_SERVER", "DATACENTER_SERVER", "DATACENTER_SERVER_CORE", "ENTERPRISE_SERVER",
   "ENTERPRISE_SERVER_CORE", "ENTERPRISE_SERVER_IA64", "SMALLBUSINESS_SERVER",
   "SMALLBUSINESS_SERVER_PREMIUM", "STANDARD_SERVER", "STANDARD_SERVER_CORE", "WEB_SERVER",
   "UNLISTED"}
Suite == {"STORAGE_SERVER", "WH_SERVER", "DATACENTER", "ENTERPRISE", "COMPUTE_SERVER", "BLADE",
          "PERSONAL"}

(* OSVERSIONINFOEX, SYSTEM_INFO, SM_SERVERR2, whether kernel32.dll has      *)
(* GetProductInfo() and what it says.                                      *)
VersionInfo ==
  [nt : BOOLEAN, major : Nat, minor : Nat, workstation : BOOLEAN, suite : SUBSET Suite,
   servicePack : BOOLEAN, arch : {"INTEL", "AMD64", "IA64"}, r2 : BOOLEAN,
   hasProductInfo : BOOLEAN, product : Product]

ASSUME SystemInfoAssumption ==
  /\ Path \subseteq Seq(Character)
  /\ MaxFName \in Nat \ {0}
  /\ Size \subseteq Nat
  /\ Width \subseteq Nat
  /\ Length \subseteq Nat
  /\ Version \subseteq VersionInfo

-----------------------------------------------------------------------------
(* GetWindowsVersion(): the names and other pieces it appends, in order.   *)

(* Mutant: the type of the product is looked at of two versions only.      *)
Name6Short(v) ==
  CASE v.minor = 0 -> IF v.workstation THEN <<"Vista">> ELSE <<"Server 2008">>
    [] v.minor = 1 -> IF v.workstation THEN <<"7">> ELSE <<"Server 2008 R2">>
    [] OTHER       -> <<"8">>

(* Of version 6.                                                           *)
Name6(v) ==
  CASE v.minor = 0 -> IF v.workstation THEN <<"Vista">> ELSE <<"Server 2008">>
    [] v.minor = 1 -> IF v.workstation THEN <<"7">> ELSE <<"Server 2008 R2">>
    [] v.minor = 2 -> IF v.workstation THEN <<"8">> ELSE <<"Server 2012">>
    [] OTHER       -> <<>>

(* The edition for dwType; several types share one.                        *)
Edition6(dwType) ==
  CASE dwType \in {"ENTERPRISE", "ENTERPRISE_SERVER"} -> <<"Enterprise Edition">>
    [] dwType = "DATACENTER_SERVER"                   -> <<"Datacenter Edition">>
    [] dwType = "STANDARD_SERVER"                     -> <<"Standard Edition">>
    [] dwType = "UNLISTED"                            -> <<>>
    [] OTHER                                          -> <<dwType>>

(* Of version 5.2: whichever is tested first.                              *)
Name52(v) ==
  CASE v.r2                                                  -> <<"Server 2003 R2">>
    [] ~v.r2 /\ "STORAGE_SERVER" \in v.suite                  -> <<"Storage Server 2003">>
    [] ~v.r2 /\ "STORAGE_SERVER" \notin v.suite /\ "WH_SERVER" \in v.suite -> <<"Home Server">>
    [] OTHER -> IF v.workstation /\ v.arch = "AMD64" THEN <<"XP x64">> ELSE <<"Server 2003">>

(* The first of the suites that v has, else the last resort.               *)
FirstOf(v, suites, otherwise) ==
  LET i == SelectInSeq(suites, LAMBDA s : s \in v.suite)
  IN IF i = 0 THEN otherwise ELSE <<suites[i]>>

Edition52(v) ==
  CASE v.workstation                       -> <<>>
    [] ~v.workstation /\ v.arch = "IA64"   -> FirstOf(v, <<"DATACENTER", "ENTERPRISE">>, <<>>)
    [] ~v.workstation /\ v.arch = "AMD64"  ->
         FirstOf(v, <<"DATACENTER", "ENTERPRISE">>, <<"Standard Edition">>)
    [] OTHER ->
         FirstOf(v, <<"COMPUTE_SERVER", "DATACENTER", "ENTERPRISE", "BLADE">>, <<"Standard Edition">>)

Edition51(v) == IF "PERSONAL" \in v.suite THEN <<"Home Edition">> ELSE <<"Professional">>

Edition50(v) ==
  IF v.workstation THEN <<"Professional">>
  ELSE FirstOf(v, <<"DATACENTER", "ENTERPRISE">>, <<"Server">>)

(* Name and edition.  dwType is what GetProductInfo() has stored.          *)
Names(v, dwType) ==
  CASE v.major = 6                    -> Name6(v) \o Edition6(dwType)
    [] v.major = 5 /\ v.minor = 2     -> Name52(v) \o Edition52(v)
    [] v.major = 5 /\ v.minor = 1     -> <<"XP">> \o Edition51(v)
    [] v.major = 5 /\ v.minor = 0     -> <<"2000">> \o Edition50(v)
    [] OTHER                          -> <<>>

(* Service pack, build and word size.                                      *)
Details(v) ==
  (IF v.servicePack THEN <<"Service Pack">> ELSE <<>>)
  \o <<"build">>
  \o (CASE v.major >= 6 /\ v.arch = "AMD64" -> <<"64-bit">>
        [] v.major >= 6 /\ v.arch = "INTEL" -> <<"32-bit">>
        [] OTHER                            -> <<>>)

Known(v) == v.nt /\ v.major > 4

-----------------------------------------------------------------------------
VARIABLES
  runtime,  \* the C run-time of the build
  path,     \* GetModuleFileNameA(NULL)
  pc,       \* where PrintSystemInfo() is
  sString,  \* what is in the array, piece by piece
  room,     \* it ends, and early enough to append a sentence
  hKey,     \* the registry key is open
  processor, \* the length of the name that GetProcessorName() has given, if any
  version,  \* what the system has said of itself
  line,     \* the line that the last step has written, if any
  lost      \* a line could not be written, or not all of it

vars ==
  <<runtime, path, pc, sString, room, hKey, processor, version, line, lost>>

(* What the texts are made of.                                             *)
ClientNames == {"Vista", "7", "8", "XP x64", "XP"}
ServerNames == {"Server 2008", "Server 2008 R2", "Server 2012", "Server 2003 R2",
                "Storage Server 2003", "Home Server", "Server 2003"}
SystemName == ClientNames \cup ServerNames \cup {"2000"}
EditionName ==
  Product \cup Suite \cup {"Enterprise Edition", "Datacenter Edition", "Standard Edition",
                         "Home Edition", "Professional", "Server"}
Detail == {"Service Pack", "build", "64-bit", "32-bit"}
Piece == SystemName \cup EditionName \cup Detail
         \cup {"garbage", "processor", "beyond", "<unknown>", "Microsoft", "unsupported"}

(* A line: the log it is in, what it is about, its length and how much of  *)
(* it is there, the pieces printed with "%s" and the sizes.                *)
NoLine == [what |-> "none"]
Line ==
  [file : Seq(Character), what : {"separator", "hardware", "system"}, length : Nat, kept : Nat,
   text : Seq(Piece), sizes : Seq(Nat), shown : Seq([tenths : Nat, unit : {KB, MB}])]

NoVersion == [nt |-> FALSE]
NoName == -1

TypeOK ==
  /\ runtime \in Runtime
  /\ path \in Path
  /\ pc \in {"separator", "processor", "hardware", "version", "system", "returned", "crashed"}
  /\ sString \in Seq(Piece)
  /\ room \in BOOLEAN
  /\ hKey \in {"closed", "open"}
  /\ processor \in Length \cup {NoName}
  /\ version \in Version \cup {NoVersion}
  /\ line \in Line \cup {NoLine}
  /\ lost \in BOOLEAN

Init ==
  /\ runtime \in Runtime
  /\ path \in Path
  /\ pc = "separator"
  /\ sString = <<"garbage">>
  /\ room \in BOOLEAN
  /\ hKey = "closed"
  /\ processor = NoName
  /\ version = NoVersion
  /\ line = NoLine
  /\ lost = FALSE

(* WriteTextToFile() opens the day's file for every line; if that fails    *)
(* the line is gone, and nothing looks at whether fwrite() writes it all.  *)
WriteTextToFile(l) ==
  \/ line' = l /\ lost' \in {lost, TRUE}
  \/ line' = NoLine /\ lost' = TRUE

(* AddToReport() of a line of n characters.                                *)
AddToReport(what, n, text, sizes) ==
  WriteTextToFile(
    [file |-> GetAppName(path, MaxFName), what |-> what, length |-> n,
     kept |-> StringAppendV(runtime, n).kept, text |-> text, sizes |-> sizes,
     shown |-> [i \in DOMAIN sizes |-> FileSizeToStr(runtime, sizes[i])]])

PrintSeparator ==
  /\ pc = "separator"
  /\ AddToReport("separator", 55, <<>>, <<>>)
  /\ pc' = "processor"
  /\ UNCHANGED <<runtime, path, sString, room, hKey, processor, version>>

-----------------------------------------------------------------------------
(* GetProcessorName().                                                     *)

(* _countof(sString), and the length of what GetWindowsVersion() appends.  *)
Countof == 1024
Sentence == 59

(* strncpy() writes no terminator behind a name that fills the array: what *)
(* is printed then goes on with what lies beyond it on the stack.          *)
GetProcessorName(n) ==
  /\ pc = "processor"
  /\ sString' = IF n < Countof THEN <<"processor">> ELSE <<"processor", "beyond">>
  /\ room' = (n + Sentence < Countof)
  /\ processor' = n
  /\ pc' = "hardware"
  /\ line' = NoLine
  /\ UNCHANGED <<runtime, path, hKey, version, lost>>

(* RegOpenKeyEx() fails, or RegQueryValueEx() with the key open.           *)
GetProcessorNameFails ==
  /\ pc = "processor"
  /\ hKey' \in {"closed", "open"}
  /\ pc' = "hardware"
  /\ line' = NoLine
  /\ UNCHANGED <<runtime, path, sString, room, processor, version, lost>>

(* The sizes are those of the physical memory, all of it and what is       *)
(* available; they are looked up before the first line.                    *)
PrintHardware(n, total, available) ==
  /\ pc = "hardware"
  /\ AddToReport("hardware", n, IF processor # NoName THEN sString ELSE <<"<unknown>">>,
                 <<total, available>>)
  /\ pc' = "version"
  /\ UNCHANGED <<runtime, path, sString, room, hKey, processor, version>>

-----------------------------------------------------------------------------
(* GetWindowsVersion().                                                    *)

(* Mutant: strcat_s() in the place of strcpy_s().                          *)
AppendsAlways(v) == TRUE

(* The first that it does is to append to what is in the array.            *)
Appends(v) == ~Known(v)

(* dwType stays uninitialised if GetProductInfo() fails.                   *)
ProductTypes(v) == {v.product} \cup (IF v.major = 6 THEN Product ELSE {})

(* The function is looked up, and called without a look at the result.     *)
CallsNull(v) == Known(v) /\ v.major = 6 /\ ~v.hasProductInfo

GetWindowsVersion(v, dwType) ==
  /\ pc = "version"
  /\ ~CallsNull(v)
  /\ Appends(v) => room
  /\ sString' = (IF Appends(v) THEN sString ELSE <<>>)
                \o (IF Known(v) THEN <<"Microsoft">> \o Names(v, dwType) \o Details(v)
                                ELSE <<"unsupported">>)
  /\ room' = TRUE
  /\ version' = v
  /\ pc' = "system"
  /\ line' = NoLine
  /\ UNCHANGED <<runtime, path, hKey, processor, lost>>

(* strcat_s() finds no end in the array or no room, and the invalid        *)
(* parameter handler is called; or the call through the null pointer.      *)
GetWindowsVersionCrashes(v) ==
  /\ pc = "version"
  /\ (Appends(v) /\ ~room) \/ CallsNull(v)
  /\ sString' = IF CallsNull(v) THEN <<"Microsoft">> \o Name6(v) ELSE sString
  /\ version' = v
  /\ pc' = "crashed"
  /\ line' = NoLine
  /\ UNCHANGED <<runtime, path, room, hKey, processor, lost>>

PrintSystem(n) ==
  /\ pc = "system"
  /\ AddToReport("system", n, IF Known(version) THEN sString ELSE <<"<unknown>">>, <<>>)
  /\ pc' = "returned"
  /\ UNCHANGED <<runtime, path, sString, room, hKey, processor, version>>

-----------------------------------------------------------------------------
Finished == pc \in {"returned", "crashed"} /\ UNCHANGED vars

Next ==
  \/ PrintSeparator
  \/ \E n \in Length : GetProcessorName(n)
  \/ GetProcessorNameFails
  \/ \E n \in Width, total \in Size : \E available \in {s \in Size : s <= total} :
       PrintHardware(n, total, available)
  \/ \E v \in Version : \/ \E dwType \in ProductTypes(v) : GetWindowsVersion(v, dwType)
                         \/ GetWindowsVersionCrashes(v)
  \/ \E n \in Width : PrintSystem(n)
  \/ Finished

Spec == Init /\ [][Next]_vars

-----------------------------------------------------------------------------
(* Properties.                                                             *)

(* No text is cut at the size of StringAppendV()'s first buffer, whatever  *)
(* vsnprintf() returns there; only a run-time older than Visual C++ 8.0,   *)
(* which cannot say what a longer text needs, loses one, as a whole.       *)
TextWhole ==
  line # NoLine =>
    \/ line.kept = line.length
    \/ (runtime = "msvc7" /\ line.length > kSpaceLength /\ line.kept = 0)

(* The log is named after the application: after what stands between the   *)
(* path's directories and the last extension, with the dots in both the    *)
(* directories and the name left alone, if GetModuleName() sees the whole  *)
(* path.                                                                   *)
AppNamed ==
  line # NoLine /\ Len(path) < MaxFName =>
    \E i \in 1..Len(path) + 1, j \in 0..Len(path) :
      /\ line.file = SubSeq(path, i, j)
      /\ i = 1 \/ path[i - 1] = "sep"
      /\ \A k \in i..Len(path) : path[k] # "sep"
      /\ IF j = Len(path) THEN \A k \in i..j : path[k] # "dot"
                          ELSE path[j + 1] = "dot" /\ \A k \in j + 2..Len(path) : path[k] # "dot"

(* The memory that is available is never shown as more than there is, at   *)
(* the boundaries of rounding and of the units either.                     *)
MemoryOrdered ==
  line # NoLine => \A i, j \in DOMAIN line.sizes :
    line.sizes[i] <= line.sizes[j] => Shown(line.shown[i]) <= Shown(line.shown[j])

(* Although both names go through one array, neither the processor nor     *)
(* what was on the stack before is ever printed for the system, or that    *)
(* for the processor.  Only a name that fills the array is followed by     *)
(* what lies beyond it.                                                    *)
NamesSeparate ==
  /\ line.what = "system" =>
       \/ line.text = <<"<unknown>">>
       \/ /\ Head(line.text) = "Microsoft"
          /\ \A i \in DOMAIN line.text : line.text[i] \notin {"garbage", "processor", "beyond"}
  /\ line.what = "hardware" =>
       \/ line.text \in {<<"<unknown>">>, <<"processor">>}
       \/ line.text = <<"processor", "beyond">> /\ processor >= Countof

(* What goes together: only servers have an R2 or the suites of servers,   *)
(* and there is none of version 5.1.                                       *)
Exists(v) ==
  /\ v.workstation => ~v.r2 /\ {"STORAGE_SERVER", "WH_SERVER"} \cap v.suite = {}
  /\ v.major = 5 /\ v.minor = 1 => v.workstation

(* Of every version from 5.0 to 6.2 the text has exactly one name: that of *)
(* a server for a server and for it only.  Of one system it is wrong, as   *)
(* nothing asks for it: Windows XP for Itanium is called a server.         *)
SystemNamed ==
  line.what = "system" /\ Known(version) /\ version.major <= 6 /\ version.minor <= 2 =>
    \E i \in DOMAIN line.text :
      /\ \A j \in DOMAIN line.text : line.text[j] \in SystemName <=> j = i
      /\ line.text[i] # "2000" /\ Exists(version) =>
           \/ line.text[i] \in ServerNames <=> ~version.workstation
           \/ version.major = 5 /\ version.minor = 2 /\ version.workstation /\ version.arch # "AMD64"

(* GetWindowsVersion() crashes the report in two cases only: a version 6   *)
(* without GetProductInfo(), or one that is not known after a processor    *)
(* whose name could not be read or leaves no room in the array for the     *)
(* sentence on it.  Every other known version is safe, be the name of the  *)
(* processor too long for the array.                                       *)
CrashHasReason ==
  pc = "crashed" =>
    \/ version.nt /\ version.major = 6 /\ ~version.hasProductInfo
    \/ ~Known(version) /\ (processor # NoName => processor + Sentence >= Countof)
=============================================================================
