---------------------------- MODULE MCSystemInfo ----------------------------
(* SystemInfo with paths, sizes and systems around the boundaries, for TLC. *)
EXTENDS SystemInfo

(* a.b.c   a\b.c   a.b\c   a.b\c.d   a\.b   a\bbbb\c.d (cut)               *)
MCPath ==
  {<<"other", "dot", "other", "dot", "other">>,
   <<"other", "sep", "other", "dot", "other">>,
   <<"other", "dot", "other", "sep", "other">>,
   <<"other", "dot", "other", "sep", "other", "dot", "other">>,
   <<"other", "sep", "dot", "other">>,
   <<"other", "sep", "other", "other", "other", "other", "sep", "other", "dot", "other">>}

MCSize == {0, 51, 52, 1023, 1024, MB - 1, MB, 1023 * MB}
MCLength == {40, Countof - Sentence - 1, Countof - Sentence, Countof - 1, Countof}
MCWidth == {kSpaceLength - 1, kSpaceLength, kSpaceLength + 1}

Ver(major, minor, workstation, suite, arch, r2, product) ==
  [nt |-> TRUE, major |-> major, minor |-> minor, workstation |-> workstation, suite |-> suite,
   servicePack |-> workstation, arch |-> arch, r2 |-> r2, hasProductInfo |-> major >= 6,
   product |-> product]

Version5 ==
  {Ver(5, minor, workstation, suite, arch, r2, "UNLISTED") :
     minor \in 0..2, workstation \in BOOLEAN, suite \in {{}} \cup {{s} : s \in Suite},
     arch \in {"INTEL", "AMD64", "IA64"}, r2 \in BOOLEAN}
Version6 ==
  {Ver(6, minor, workstation, {}, IF workstation THEN "INTEL" ELSE "AMD64", FALSE,
       IF workstation THEN "ULTIMATE" ELSE "ENTERPRISE_SERVER") :
     minor \in 0..3, workstation \in BOOLEAN}

(* SM_SERVERR2 and the architectures are those of version 5.2, suites but  *)
(* PERSONAL those of servers; 4.0 and a system that is not NT are unknown, *)
(* and one of version 6 lacks GetProductInfo().                            *)
MCVersion ==
  {v \in Version5 : /\ v.r2 => v.minor = 2 /\ ~v.workstation
                    /\ v.minor # 2 => v.arch = "INTEL"
                    /\ v.minor = 1 => v.workstation
                    /\ v.workstation => v.suite \subseteq {"PERSONAL"}}
  \cup Version6
  \cup {Ver(4, 0, TRUE, {}, "INTEL", FALSE, "UNLISTED"),
        [Ver(5, 0, TRUE, {}, "INTEL", FALSE, "UNLISTED") EXCEPT !.nt = FALSE],
        [Ver(6, 0, TRUE, {}, "INTEL", FALSE, "UNLISTED") EXCEPT !.hasProductInfo = FALSE],
        Ver(10, 0, TRUE, {}, "AMD64", FALSE, "UNLISTED")}
=============================================================================
