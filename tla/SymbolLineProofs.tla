-------------------------- MODULE SymbolLineProofs --------------------------
(***************************************************************************)
(* Proof that every line SymbolDump writes about a symbol is whole, for    *)
(* every debug information and however deep its types are nested.  The     *)
(* line is made entry by entry, by activations of DumpTypeIndex() that are *)
(* each half way through their children: the invariant says of every entry *)
(* whether it is complete or which activation is at work on it.            *)
(***************************************************************************)
EXTENDS SymbolDumpProofs

-----------------------------------------------------------------------------
(* A text to which one entry is appended.                                  *)

(* The entry at k is over: one that is not below it has followed, or       *)
(* nothing at its level or deeper will come at the given depth.            *)
Over(l, k, depth) ==
  \/ l[k].level >= depth
  \/ \E j \in k + 1..Len(l) : l[j].level <= l[k].level

(* Activation a is at work on the entry at k, which is for the d-th: the   *)
(* text from there on is about its members, and those before a.i are       *)
(* there.                                                                  *)
AtWork(l, k, a, d, indices) ==
  /\ l[k].format = "members" /\ l[k].index = a.index /\ l[k].level = d - 1
  /\ \A j \in k + 1..Len(l) : l[j].level >= d
  /\ Shows(l, k, indices, a.i - 1)

(* Entries that are not at work on are complete, and stay so.              *)
Complete(l, k, depth, indices, failing) ==
  Over(l, k, depth) /\ EntryWhole(l, k, indices, failing)

(* The text begins with the symbol's own entry, and each other entry is    *)
(* below one before it.                                                    *)
Begun(l, index) ==
  /\ l # <<>> /\ l[1].level = 0 /\ l[1].index = index
  /\ \A k \in 2..Len(l) : l[k].level \in 1..l[k - 1].level + 1

(* The entries at work on are at place, one for each activation of s.      *)
Placed(l, s, place, types) ==
  \A d \in 1..Len(s) : AtWork(l, place[d], s[d], d, types[s[d].index])

(* What a text is like, of which the activations of s are at work.         *)
Growing(l, s, index, types, failing) ==
  /\ Begun(l, index)
  /\ l[Len(l)].level >= Len(s) - 1
  /\ \A d \in 1..Len(s) : s[d].i <= Len(types[s[d].index]) + 1
  /\ \E place \in [1..Len(s) -> 1..Len(l)] :
       /\ Placed(l, s, place, types)
       /\ \A k \in 1..Len(l) :
            \/ \E d \in 1..Len(s) : k = place[d]
            \/ Complete(l, k, Len(s), types[l[k].index], failing)

(* Of a text to which e has been appended after a round, what holds of all *)
(* entries but the new one.                                                *)
Extended(l, e, t, index, types, failing) ==
  /\ Begun(Append(l, e), index)
  /\ \A d \in 1..Len(t) : t[d].i <= Len(types[t[d].index]) + 1
  /\ \E place \in [1..Len(t) -> 1..Len(l)] :
       /\ Placed(Append(l, e), t, place, types)
       /\ \A k \in 1..Len(l) :
            \/ \E d \in 1..Len(t) : k = place[d]
            \/ \A depth \in Nat :
                 Complete(Append(l, e), k, depth, types[Append(l, e)[k].index], failing)

(* The buffer while it is made, and the line that has been written.        *)
Whole ==
  /\ pc = "format" => Growing(buffer, stack, symbol.index, children, failed)
  /\ LineWhole

-----------------------------------------------------------------------------
(* The last number of a range, and those before it.                        *)
LEMMA LastOfRange ==
  ASSUME NEW k \in Nat, NEW n \in Nat
  PROVE  \A j \in k + 1..n + 1 : j = n + 1 \/ j \in k + 1..n
OBVIOUS

(* An append leaves the entries before it alone.                           *)
LEMMA Appended ==
  ASSUME NEW l \in Seq(Entry), NEW e \in Entry
  PROVE  /\ Append(l, e) \in Seq(Entry) /\ Len(l) \in Nat
         /\ Len(Append(l, e)) = Len(l) + 1
         /\ \A j \in 1..Len(l) : Append(l, e)[j] = l[j]
         /\ Append(l, e)[Len(l) + 1] = e
         /\ \A j \in 1..Len(l) : l[j].level \in Nat
         /\ e.level \in Nat
<1>1. \A x \in Entry : x.level \in Nat
  BY DEF Entry
<1> QED
  BY <1>1

(* An entry that is too deep, or comes after an entry is over, is not one  *)
(* of its members.                                                         *)
LEMMA MembersKept ==
  ASSUME NEW l \in Seq(Entry), NEW e \in Entry, NEW k \in 1..Len(l),
         \/ e.level # l[k].level + 1
         \/ \E j \in k + 1..Len(l) : l[j].level <= l[k].level
  PROVE  Members(Append(l, e), k) = Members(l, k)
<1> DEFINE m == Append(l, e)
<1>1. /\ Len(l) \in Nat /\ Len(m) = Len(l) + 1
      /\ \A j \in 1..Len(l) : m[j] = l[j] /\ l[j].level \in Nat
      /\ m[Len(l) + 1] = e
  BY Appended
<1> HIDE DEF m
<1>2. \A j \in k + 1..Len(l) : j \in Members(m, k) <=> j \in Members(l, k)
  BY <1>1, SMTT(60) DEF Members
<1>3. Len(l) + 1 \notin Members(m, k)
  BY <1>1 DEF Members
<1>4. Members(m, k) \subseteq k + 1..Len(l) + 1 /\ Members(l, k) \subseteq k + 1..Len(l)
  BY <1>1 DEF Members
<1>5. \A j \in k + 1..Len(l) + 1 : j = Len(l) + 1 \/ j \in k + 1..Len(l)
  <2>1. k \in Nat /\ Len(l) \in Nat
    BY <1>1
  <2> QED
    BY <2>1, LastOfRange, Zenon
<1> QED
  BY <1>2, <1>3, <1>4, <1>5 DEF m

(* The next entry one level below k is a member, if k is not over.         *)
LEMMA MembersMore ==
  ASSUME NEW l \in Seq(Entry), NEW e \in Entry, NEW k \in 1..Len(l),
         e.level = l[k].level + 1,
         \A j \in k + 1..Len(l) : l[j].level > l[k].level
  PROVE  Members(Append(l, e), k) = Members(l, k) \cup {Len(l) + 1}
<1> DEFINE m == Append(l, e)
<1>1. /\ Len(l) \in Nat /\ Len(m) = Len(l) + 1
      /\ \A j \in 1..Len(l) : m[j] = l[j] /\ l[j].level \in Nat
      /\ m[Len(l) + 1] = e /\ e.level \in Nat
  BY Appended
<1> HIDE DEF m
<1>2. \A j \in k + 1..Len(l) : j \in Members(m, k) <=> j \in Members(l, k)
  BY <1>1, SMTT(60) DEF Members
<1>3. Len(l) + 1 \in Members(m, k)
  <2>1. m[Len(l) + 1].level = m[k].level + 1
    BY <1>1
  <2>2. \A j \in k + 1..Len(l) + 1 : m[j].level > m[k].level
    <3>1. m[Len(l) + 1].level > m[k].level
      BY <1>1
    <3>2. \A j \in k + 1..Len(l) : m[j].level > m[k].level
      BY <1>1
    <3>3. k \in Nat /\ Len(l) \in Nat
      BY <1>1
    <3>4. \A j \in k + 1..Len(l) + 1 : j = Len(l) + 1 \/ j \in k + 1..Len(l)
      BY <3>3, LastOfRange, Zenon
    <3> QED
      BY <3>1, <3>2, <3>4, Zenon
  <2>3. Len(l) + 1 \in k + 1..Len(m)
    BY <1>1
  <2> QED
    BY <2>1, <2>2, <2>3 DEF Members
<1>4. Members(m, k) \subseteq k + 1..Len(l) + 1 /\ Members(l, k) \subseteq k + 1..Len(l)
  BY <1>1 DEF Members
<1>5. \A j \in k + 1..Len(l) + 1 : j = Len(l) + 1 \/ j \in k + 1..Len(l)
  <2>1. k \in Nat /\ Len(l) \in Nat
    BY <1>1
  <2> QED
    BY <2>1, LastOfRange, Zenon
<1> QED
  BY <1>2, <1>3, <1>4, <1>5 DEF m

(* What an entry shows is kept by an entry that is not its member.         *)
LEMMA ShowsKept ==
  ASSUME NEW l \in Seq(Entry), NEW e \in Entry, NEW k \in 1..Len(l), NEW indices, NEW n \in Nat,
         Shows(l, k, indices, n), Members(Append(l, e), k) = Members(l, k)
  PROVE  Shows(Append(l, e), k, indices, n)
<1> DEFINE m == Append(l, e)
<1>1. \A j \in 1..Len(l) : m[j] = l[j]
  BY Appended
<1>2. Members(m, k) = Members(l, k)
  OBVIOUS
<1>3. Members(l, k) \subseteq 1..Len(l)
  BY Appended DEF Members
<1> HIDE DEF m
<1>4. PICK place \in [1..n -> Members(l, k)] :
        /\ Members(l, k) = {place[a] : a \in 1..n}
        /\ \A a, b \in 1..n : a < b => place[a] < place[b]
        /\ \A a \in 1..n : l[place[a]].index = indices[a]
  BY DEF Shows
<1>5. \A a \in 1..n : m[place[a]].index = indices[a]
  BY <1>1, <1>3, <1>4
<1>6. Shows(m, k, indices, n)
  BY <1>2, <1>4, <1>5 DEF Shows
<1> QED
  BY <1>6 DEF m

(* A member of the next index is the next one that it shows.               *)
LEMMA ShowsMore ==
  ASSUME NEW l \in Seq(Entry), NEW e \in Entry, NEW k \in 1..Len(l), NEW indices, NEW n \in Nat,
         Shows(l, k, indices, n), Members(Append(l, e), k) = Members(l, k) \cup {Len(l) + 1},
         e.index = indices[n + 1]
  PROVE  Shows(Append(l, e), k, indices, n + 1)
<1> DEFINE m == Append(l, e)
<1>1. Len(l) \in Nat /\ (\A j \in 1..Len(l) : m[j] = l[j]) /\ m[Len(l) + 1] = e
  BY Appended
<1>2. Members(m, k) = Members(l, k) \cup {Len(l) + 1}
  OBVIOUS
<1>3. Members(l, k) \subseteq 1..Len(l)
  BY Appended DEF Members
<1> HIDE DEF m
<1>4. PICK place \in [1..n -> Members(l, k)] :
        /\ Members(l, k) = {place[a] : a \in 1..n}
        /\ \A a, b \in 1..n : a < b => place[a] < place[b]
        /\ \A a \in 1..n : l[place[a]].index = indices[a]
  BY DEF Shows
<1> DEFINE next == [a \in 1..n + 1 |-> IF a = n + 1 THEN Len(l) + 1 ELSE place[a]]
<1>5. \A a \in 1..n + 1 : a = n + 1 \/ a \in 1..n
  OBVIOUS
<1>6. /\ next[n + 1] = Len(l) + 1
      /\ \A a \in 1..n : next[a] = place[a] /\ place[a] \in 1..Len(l)
  <2>1. n + 1 \in 1..n + 1 /\ \A a \in 1..n : a \in 1..n + 1 /\ a # n + 1
    OBVIOUS
  <2>2. \A a \in 1..n : place[a] \in 1..Len(l)
    BY <1>3, <1>4, Zenon
  <2> QED
    BY <2>1, <2>2, Zenon
<1>7. next \in [1..n + 1 -> Members(m, k)]
  BY <1>2, <1>4
<1> HIDE DEF next
<1>8. Members(m, k) = {next[a] : a \in 1..n + 1}
  <2>1. {next[a] : a \in 1..n + 1} \subseteq Members(m, k)
    BY <1>7
  <2>2. ASSUME NEW j \in Members(m, k)
        PROVE  \E a \in 1..n + 1 : next[a] = j
    <3>1. CASE j = Len(l) + 1
      BY <1>6, <3>1
    <3>2. CASE j \in Members(l, k)
      <4>1. PICK a \in 1..n : place[a] = j
        BY <1>4, <3>2
      <4>2. next[a] = j
        BY <1>6, <4>1, Zenon
      <4>3. a \in 1..n + 1
        BY <4>1
      <4> QED
        BY <4>2, <4>3, Zenon
    <3> QED
      BY <1>2, <3>1, <3>2
  <2> QED
    BY <2>1, <2>2
<1>9. \A a, b \in 1..n + 1 : a < b => next[a] < next[b]
  <2> SUFFICES ASSUME NEW a \in 1..n + 1, NEW b \in 1..n + 1, a < b
               PROVE  next[a] < next[b]
    OBVIOUS
  <2>1. a \in 1..n
    OBVIOUS
  <2>2. CASE b = n + 1
    BY <1>1, <1>6, <2>1, <2>2
  <2>3. CASE b \in 1..n
    BY <1>4, <1>6, <2>1, <2>3
  <2> QED
    BY <1>5, <2>2, <2>3
<1>10. \A a \in 1..n + 1 : m[next[a]].index = indices[a]
  BY <1>1, <1>4, <1>5, <1>6
<1>11. Shows(m, k, indices, n + 1)
  BY <1>7, <1>8, <1>9, <1>10 DEF Shows
<1> QED
  BY <1>11 DEF m

(* The last entry shows no members.                                        *)
LEMMA ShowsNone ==
  ASSUME NEW l \in Seq(Entry), NEW indices
  PROVE  Shows(l, Len(l), indices, 0)
<1>1. Members(l, Len(l)) = {} /\ 1..0 = {}
  BY DEF Members
<1> DEFINE place == [a \in 1..0 |-> a]
<1>2. place \in [1..0 -> Members(l, Len(l))]
  BY <1>1
<1> QED
  BY <1>1, <1>2 DEF Shows

(* A complete entry stays complete, whatever follows it.                   *)
LEMMA CompleteKept ==
  ASSUME NEW l \in Seq(Entry), NEW e \in Entry, NEW k \in 1..Len(l), NEW depth \in Nat,
         NEW next \in Nat, NEW indices, Len(indices) \in Nat, NEW failing, NEW fails,
         failing => fails, e.level = depth, Complete(l, k, depth, indices, failing)
  PROVE  Complete(Append(l, e), k, next, indices, fails)
<1> DEFINE m == Append(l, e)
<1>1. /\ Len(l) \in Nat /\ Len(m) = Len(l) + 1
      /\ \A j \in 1..Len(l) : m[j] = l[j] /\ l[j].level \in Nat
      /\ m[Len(l) + 1] = e /\ e.level \in Nat
  BY Appended
<1> HIDE DEF m
<1>2. l[k].level >= depth \/ \E j \in k + 1..Len(l) : l[j].level <= l[k].level
  BY DEF Complete, Over
<1>3. \E j \in k + 1..Len(m) : m[j].level <= m[k].level
  <2>1. CASE l[k].level >= depth
    <3>1. m[Len(l) + 1].level <= m[k].level /\ Len(l) + 1 \in k + 1..Len(m)
      BY <1>1, <2>1
    <3> QED
      BY <3>1
  <2>2. CASE \E j \in k + 1..Len(l) : l[j].level <= l[k].level
    BY <1>1, <2>2
  <2> QED
    BY <1>2, <2>1, <2>2
<1>4. CASE l[k].format = "members" /\ Shows(l, k, indices, Len(indices))
  <2>1. e.level # l[k].level + 1 \/ \E j \in k + 1..Len(l) : l[j].level <= l[k].level
    BY <1>1, <1>2
  <2>2. Members(m, k) = Members(l, k)
    BY <2>1, MembersKept DEF m
  <2>3. Shows(m, k, indices, Len(indices))
    BY <1>4, <2>2, ShowsKept DEF m
  <2> QED
    BY <1>1, <1>3, <1>4, <2>3 DEF Complete, Over, EntryWhole, m
<1>5. CASE l[k].format # "members" /\ (k < Len(l) => l[k + 1].level <= l[k].level)
           /\ (indices = <<>> \/ failing)
  <2>1. k < Len(m) => m[k + 1].level <= m[k].level
    <3>1. CASE k < Len(l)
      BY <1>1, <1>5, <3>1
    <3>2. CASE k = Len(l)
      <4>1. l[k].level >= depth
        BY <1>1, <1>2, <3>2
      <4> QED
        BY <1>1, <3>2, <4>1
    <3> QED
      BY <1>1, <3>1, <3>2
  <2> QED
    BY <1>1, <1>3, <1>5, <2>1 DEF Complete, Over, EntryWhole, m
<1> QED
  BY <1>4, <1>5 DEF Complete, EntryWhole
-----------------------------------------------------------------------------
(* The steps of DumpTypeIndex().                                           *)

(* A round of the top activation, which prints the entry of its next       *)
(* child: t are the activations of s with the top one a round further.     *)
LEMMA Round ==
  ASSUME NEW l \in Seq(Entry), NEW e \in Entry, NEW s \in Seq(Activation), NEW t \in Seq(Activation),
         NEW index, NEW types, NEW failing, NEW fails, failing => fails,
         \A i \in Index : types[i] \in Seq(Index),
         s # <<>>, \A d \in 1..Len(s) : s[d].i >= 1,
         Growing(l, s, index, types, failing),
         Len(t) = Len(s), \A d \in 1..Len(s) - 1 : t[d] = s[d],
         t[Len(s)].index = s[Len(s)].index, t[Len(s)].i = s[Len(s)].i + 1,
         e.level = Len(s), e.index = types[s[Len(s)].index][s[Len(s)].i]
  PROVE  /\ Begun(Append(l, e), index)
         /\ \E place \in [1..Len(s) -> 1..Len(l)] :
              /\ Placed(Append(l, e), t, place, types)
              /\ \A k \in 1..Len(l) :
                   \/ \E d \in 1..Len(s) : k = place[d]
                   \/ \A next \in Nat : Complete(Append(l, e), k, next, types[Append(l, e)[k].index], fails)
<1> DEFINE m == Append(l, e)
           n == Len(l)
           D == Len(s)
<1>1. /\ n \in Nat /\ Len(m) = n + 1
      /\ \A j \in 1..n : m[j] = l[j] /\ l[j].level \in Nat
      /\ m[n + 1] = e /\ m \in Seq(Entry)
  BY Appended
<1>2. D \in Nat /\ D >= 1 /\ Len(t) = D /\ e.level = D
  OBVIOUS
<1>3. \A d \in 1..D : s[d].index \in Index /\ s[d].i \in Nat /\ s[d].i >= 1
  <2>1. \A a \in Activation : a.index \in Index /\ a.i \in Nat
    BY DEF Activation
  <2>2. \A d \in 1..D : s[d] \in Activation
    OBVIOUS
  <2> QED
    BY <2>1, <2>2, Zenon
<1>4. Begun(l, index) /\ l[n].level >= D - 1 /\ n >= 1
  BY <1>1 DEF Growing, Begun
<1>5. PICK place \in [1..D -> 1..n] :
        /\ Placed(l, s, place, types)
        /\ \A k \in 1..n : \/ \E d \in 1..D : k = place[d]
                           \/ Complete(l, k, D, types[l[k].index], failing)
  BY DEF Growing
<1>6. Begun(m, index)
  <2> HIDE DEF m, n
  <2>1. m # <<>> /\ m[1].level = 0 /\ m[1].index = index
    BY <1>1, <1>4 DEF Begun
  <2> DEFINE Below(k) == m[k].level \in 1..m[k - 1].level + 1
  <2>2. ASSUME NEW k \in 2..n
        PROVE  Below(k)
    <3>1. m[k] = l[k] /\ m[k - 1] = l[k - 1]
      BY <1>1
    <3>2. l[k].level \in 1..l[k - 1].level + 1
      BY <1>1, <1>4 DEF Begun, n
    <3> QED
      BY <3>1, <3>2, Zenon
  <2>3. ASSUME NEW k \in 2..n + 1, k = n + 1
        PROVE  Below(k)
    <3>1. e.level \in 1..m[n].level + 1
      BY <1>1, <1>2, <1>4
    <3>2. k - 1 = n
      BY <1>1, <2>3
    <3>3. m[k] = e
      BY <1>1, <2>3
    <3>4. m[k - 1] = m[n]
      BY <3>2
    <3> QED
      BY <3>1, <3>3, <3>4, Zenon
  <2>4. \A k \in 2..n + 1 : k = n + 1 \/ k \in 2..n
    BY <1>1
  <2>5. 2..Len(m) = 2..n + 1
    BY <1>1
  <2> HIDE DEF Below
  <2>6. \A k \in 2..Len(m) : Below(k)
    BY <2>2, <2>3, <2>4, <2>5, Zenon
  <2> QED
    BY <2>1, <2>6, Zenon DEF Begun, Below
<1>7. Placed(m, t, place, types)
  <2> SUFFICES ASSUME NEW d \in 1..D
               PROVE  AtWork(m, place[d], t[d], d, types[t[d].index])
    BY <1>2 DEF Placed
  <2> DEFINE p == place[d]
             indices == types[s[d].index]
             c == s[d].i - 1
  <2>1. p \in 1..n /\ m[p] = l[p] /\ t[d].index = s[d].index /\ c \in Nat
    <3>1. d = D \/ d \in 1..D - 1
      BY <1>2
    <3>2. t[d].index = s[d].index
      BY <3>1
    <3> QED
      BY <1>1, <1>3, <1>5, <3>2
  <2>2. AtWork(l, p, s[d], d, indices)
    BY <1>5 DEF Placed
  <2> HIDE DEF p, indices, c
  <2>3. /\ l[p].format = "members" /\ l[p].index = s[d].index /\ l[p].level = d - 1
        /\ (\A j \in p + 1..n : l[j].level >= d) /\ Shows(l, p, indices, c)
    BY <2>2 DEF AtWork, c
  <2>4. \A j \in p + 1..n + 1 : m[j].level >= d
    <3>1. \A j \in p + 1..n : m[j].level >= d
      BY <1>1, <2>1, <2>3
    <3>2. m[n + 1].level >= d
      BY <1>1, <1>2
    <3>3. \A j \in p + 1..n + 1 : j = n + 1 \/ j \in p + 1..n
      BY <1>1, <2>1, LastOfRange
    <3> HIDE DEF m, n
    <3> QED
      BY <3>1, <3>2, <3>3, Zenon
  <2>5. Shows(m, p, indices, t[d].i - 1)
    <3>1. CASE d = D
      <4>1. e.level = l[p].level + 1 /\ \A j \in p + 1..n : l[j].level > l[p].level
        BY <1>1, <1>2, <2>1, <2>3, <3>1
      <4>2. Members(m, p) = Members(l, p) \cup {n + 1}
        BY <2>1, <4>1, MembersMore
      <4>3. e.index = indices[c + 1]
        BY <1>3, <3>1 DEF indices, c
      <4>4. Shows(m, p, indices, c + 1)
        BY <2>1, <2>3, <4>2, <4>3, ShowsMore
      <4>5. t[d].i - 1 = c + 1
        BY <1>3, <3>1 DEF c
      <4> HIDE DEF m, D
      <4> QED
        BY <4>4, <4>5
    <3>2. CASE d # D
      <4>1. t[d] = s[d]
        BY <1>2, <3>2
      <4>2. e.level # l[p].level + 1
        BY <1>2, <2>3, <3>2
      <4>3. Members(m, p) = Members(l, p)
        BY <2>1, <4>2, MembersKept
      <4>4. Shows(m, p, indices, c)
        BY <2>1, <2>3, <4>3, ShowsKept
      <4> QED
        BY <4>1, <4>4 DEF c
    <3> QED
      BY <3>1, <3>2
  <2> HIDE DEF m, n, D
  <2>6. AtWork(m, p, t[d], d, indices)
    BY <1>1, <2>1, <2>3, <2>4, <2>5 DEF AtWork
  <2> QED
    BY <2>1, <2>6 DEF p, indices
<1>8. ASSUME NEW k \in 1..n, Complete(l, k, D, types[l[k].index], failing), NEW next \in Nat
      PROVE  Complete(m, k, next, types[m[k].index], fails)
  <2>1. l[k].index \in Index
    <3>1. \A x \in Entry : x.index \in Index
      BY DEF Entry
    <3>2. l[k] \in Entry
      BY <1>1
    <3> QED
      BY <3>1, <3>2, Zenon
  <2>2. Len(types[l[k].index]) \in Nat
    BY <2>1
  <2>3. m[k] = l[k]
    BY <1>1
  <2>4. Complete(m, k, next, types[l[k].index], fails)
    BY <1>2, <1>8, <2>2, CompleteKept
  <2> QED
    BY <2>3, <2>4
<1> HIDE DEF m, n, D
<1>9. \A k \in 1..n : \/ \E d \in 1..D : k = place[d]
                      \/ \A next \in Nat : Complete(m, k, next, types[m[k].index], fails)
  BY <1>5, <1>8
<1> QED
  BY <1>5, <1>6, <1>7, <1>9 DEF m, n, D
(* What Advanced makes of the activations.                                 *)
LEMMA AdvancedTop ==
  ASSUME TypeOK, WithinFrame, pc = "format"
  PROVE  /\ Advanced \in Seq(Activation) /\ Len(Advanced) = Len(stack)
         /\ \A d \in 1..Len(stack) - 1 : Advanced[d] = stack[d]
         /\ Advanced[Len(stack)].index = stack[Len(stack)].index
         /\ Advanced[Len(stack)].i = stack[Len(stack)].i + 1
         /\ Top = stack[Len(stack)] /\ Top \in Activation
         /\ stack \in Seq(Activation) /\ Len(stack) \in Nat /\ Len(stack) >= 1
         /\ \A d \in 1..Len(stack) : stack[d].i >= 1
<1>1. /\ stack \in Seq(Activation) /\ Len(stack) \in Nat /\ Len(stack) >= 1
      /\ Len(stack) \in 1..Len(stack) /\ \A d \in 1..Len(stack) : stack[d].i >= 1
  BY DEF TypeOK, WithinFrame
<1>2. Advanced \in Seq(Activation) /\ Len(Advanced) = Len(stack) /\ Top \in Activation
  BY AdvancedTypes
<1>3. \A d \in 1..Len(stack) :
        Advanced[d] = IF d = Len(stack) THEN [stack[d] EXCEPT !.i = stack[d].i + 1]
                                        ELSE stack[d]
  BY <1>1 DEF Advanced
<1>4. \A d \in 1..Len(stack) - 1 : Advanced[d] = stack[d]
  <2>1. \A d \in 1..Len(stack) - 1 : d \in 1..Len(stack) /\ d # Len(stack)
    BY <1>1
  <2> QED
    BY <1>3, <2>1, Zenon
<1>5. stack[Len(stack)] \in Activation /\ Top = stack[Len(stack)]
  BY <1>1 DEF Top
<1> DEFINE a == stack[Len(stack)]
<1>6. Advanced[Len(stack)] = [a EXCEPT !.i = a.i + 1]
  BY <1>1, <1>3
<1>7. [a EXCEPT !.i = a.i + 1].index = a.index /\ [a EXCEPT !.i = a.i + 1].i = a.i + 1
  BY <1>5, NextRound
<1> QED
  BY <1>1, <1>2, <1>4, <1>5, <1>6, <1>7

(* What a round of DumpTypeIndex() makes of the text, in either branch.    *)
LEMMA RoundOfStack ==
  ASSUME TypeOK, WithinFrame, pc = "format", HasNext,
         Growing(buffer, stack, symbol.index, children, failed),
         NEW e \in Entry, e.level = Len(stack), e.index = NextMember,
         NEW fails, failed => fails
  PROVE  Extended(buffer, e, Advanced, symbol.index, children, fails)
<1>1. /\ Advanced \in Seq(Activation) /\ Len(Advanced) = Len(stack)
      /\ \A d \in 1..Len(stack) - 1 : Advanced[d] = stack[d]
      /\ Advanced[Len(stack)].index = stack[Len(stack)].index
      /\ Advanced[Len(stack)].i = stack[Len(stack)].i + 1
      /\ Top = stack[Len(stack)]
      /\ stack \in Seq(Activation) /\ Len(stack) \in Nat /\ Len(stack) >= 1
      /\ \A d \in 1..Len(stack) : stack[d].i >= 1
  BY AdvancedTop
<1>2. buffer \in Seq(Entry) /\ \A i \in Index : children[i] \in Seq(Index)
  BY SymbolDumpAssumption DEF TypeOK
<1>3. stack # <<>> /\ e.index = children[stack[Len(stack)].index][stack[Len(stack)].i]
  BY <1>1 DEF NextMember, WithinFrame
<1>4. stack[Len(stack)].i <= Len(children[stack[Len(stack)].index])
  BY <1>1 DEF HasNext
<1>5. \A d \in 1..Len(stack) : stack[d].i <= Len(children[stack[d].index]) + 1
  BY DEF Growing
<1>6. \A d \in 1..Len(stack) : Advanced[d].i <= Len(children[Advanced[d].index]) + 1
  <2>1. stack[Len(stack)].i \in Nat /\ Len(children[stack[Len(stack)].index]) \in Nat
    <3>1. Top.i \in Nat /\ Top.index \in Index
      BY AdvancedTop DEF Activation
    <3> QED
      BY <1>1, <1>2, <3>1
  <2>2. Advanced[Len(stack)].i <= Len(children[Advanced[Len(stack)].index]) + 1
    BY <1>1, <1>4, <2>1
  <2>3. \A d \in 1..Len(stack) : d = Len(stack) \/ d \in 1..Len(stack) - 1
    BY <1>1
  <2> QED
    BY <1>1, <1>5, <2>2, <2>3, Zenon
<1>7. /\ Begun(Append(buffer, e), symbol.index)
      /\ \E place \in [1..Len(stack) -> 1..Len(buffer)] :
           /\ Placed(Append(buffer, e), Advanced, place, children)
           /\ \A k \in 1..Len(buffer) :
                \/ \E d \in 1..Len(stack) : k = place[d]
                \/ \A depth \in Nat :
                     Complete(Append(buffer, e), k, depth, children[Append(buffer, e)[k].index], fails)
  BY <1>1, <1>2, <1>3, Round, ZenonT(60)
<1>8. 1..Len(Advanced) = 1..Len(stack)
  BY <1>1, Zenon
<1> QED
  BY <1>6, <1>7, <1>8, Zenon DEF Extended
(* The text after a round whose child has no members.                      *)
LEMMA Printed ==
  ASSUME NEW l \in Seq(Entry), NEW e \in Entry, NEW t \in Seq(Activation),
         NEW index, NEW types, NEW failing, Extended(l, e, t, index, types, failing),
         e.level = Len(t), e.format # "members", types[e.index] = <<>> \/ failing
  PROVE  Growing(Append(l, e), t, index, types, failing)
<1> DEFINE m == Append(l, e)
           n == Len(l)
           D == Len(t)
<1>1. n \in Nat /\ Len(m) = n + 1 /\ m[n + 1] = e /\ D \in Nat /\ e.level = D
  BY Appended
<1>2. PICK place \in [1..D -> 1..n] :
        /\ Placed(m, t, place, types)
        /\ \A k \in 1..n : \/ \E d \in 1..D : k = place[d]
                           \/ \A depth \in Nat : Complete(m, k, depth, types[m[k].index], failing)
  BY DEF Extended
<1>3. Begun(m, index) /\ \A d \in 1..D : t[d].i <= Len(types[t[d].index]) + 1
  BY DEF Extended
<1>4. e.format # "members" /\ (types[e.index] = <<>> \/ failing)
  OBVIOUS
<1> HIDE DEF m, n, D
<1>5. Complete(m, n + 1, D, types[m[n + 1].index], failing)
  <2>1. Over(m, n + 1, D)
    BY <1>1 DEF Over
  <2>2. ~(n + 1 < Len(m))
    BY <1>1
  <2>3. EntryWhole(m, n + 1, types[e.index], failing)
    BY <1>1, <1>4, <2>2, Zenon DEF EntryWhole
  <2> QED
    BY <1>1, <2>1, <2>3 DEF Complete
<1>6. place \in [1..D -> 1..Len(m)]
  BY <1>1
<1>7. \A k \in 1..Len(m) : \/ \E d \in 1..D : k = place[d]
                          \/ Complete(m, k, D, types[m[k].index], failing)
  <2>1. \A k \in 1..Len(m) : k = n + 1 \/ k \in 1..n
    BY <1>1
  <2> QED
    BY <1>1, <1>2, <1>5, <2>1, Zenon
<1>8. m[Len(m)].level >= D - 1
  BY <1>1
<1>9. Growing(m, t, index, types, failing)
  BY <1>2, <1>3, <1>6, <1>7, <1>8, Zenon DEF Growing, D
<1> QED
  BY <1>9 DEF m

(* The text after a round whose child has members: activation a begins     *)
(* with them.                                                              *)
LEMMA Entered ==
  ASSUME NEW l \in Seq(Entry), NEW e \in Entry, NEW t \in Seq(Activation), NEW a \in Activation,
         NEW index, NEW types, NEW failing, Extended(l, e, t, index, types, failing),
         e.level = Len(t), e.format = "members", e.index = a.index, a.i = 1,
         types[a.index] \in Seq(Index)
  PROVE  Growing(Append(l, e), Append(t, a), index, types, failing)
<1> DEFINE m == Append(l, e)
           n == Len(l)
           s == Append(t, a)
           D == Len(t)
<1>1. /\ n \in Nat /\ Len(m) = n + 1 /\ m[n + 1] = e /\ m \in Seq(Entry)
      /\ D \in Nat /\ e.level = D
  BY Appended
<1>2. Len(s) = D + 1 /\ s[D + 1] = a /\ \A d \in 1..D : s[d] = t[d]
  OBVIOUS
<1>3. PICK place \in [1..D -> 1..n] :
        /\ Placed(m, t, place, types)
        /\ \A k \in 1..n : \/ \E d \in 1..D : k = place[d]
                           \/ \A depth \in Nat : Complete(m, k, depth, types[m[k].index], failing)
  BY DEF Extended
<1>4. Begun(m, index) /\ \A d \in 1..D : t[d].i <= Len(types[t[d].index]) + 1
  BY DEF Extended
<1>5. /\ e.format = "members" /\ e.index = a.index /\ a.i = 1
      /\ Len(types[a.index]) \in Nat
  OBVIOUS
<1> HIDE DEF m, n, s, D
<1> DEFINE next == [d \in 1..D + 1 |-> IF d = D + 1 THEN n + 1 ELSE place[d]]
<1>6. \A d \in 1..D + 1 : d = D + 1 \/ d \in 1..D
  BY <1>1
<1>7. /\ next[D + 1] = n + 1 /\ \A d \in 1..D : d \in 1..D + 1 /\ next[d] = place[d]
      /\ 1..Len(s) = 1..D + 1
  BY <1>1, <1>2
<1>8. next \in [1..Len(s) -> 1..Len(m)]
  BY <1>1, <1>2, <1>3
<1> HIDE DEF next
<1>9. AtWork(m, n + 1, a, D + 1, types[a.index])
  <2> DEFINE p == n + 1
             d == D + 1
             indices == types[a.index]
  <2>1. a.i - 1 = 0 /\ p = Len(m)
    BY <1>1, <1>5
  <2>2. Shows(m, p, indices, a.i - 1)
    BY <1>1, <2>1, ShowsNone
  <2>3. m[p].level = d - 1
    BY <1>1
  <2>4. \A j \in p + 1..Len(m) : m[j].level >= d
    BY <1>1
  <2>5. m[p].format = "members" /\ m[p].index = a.index
    BY <1>1, <1>5, Zenon
  <2> HIDE DEF p, d, indices
  <2>6. AtWork(m, p, a, d, indices)
    BY <2>2, <2>3, <2>4, <2>5, Zenon DEF AtWork
  <2> QED
    BY <2>6 DEF p, d, indices
<1>10. Placed(m, s, next, types)
  <2> SUFFICES ASSUME NEW d \in 1..D + 1
               PROVE  AtWork(m, next[d], s[d], d, types[s[d].index])
    BY <1>7, Zenon DEF Placed
  <2>1. CASE d = D + 1
    <3>1. s[d] = a /\ next[d] = n + 1
      BY <1>2, <1>7, <2>1, Zenon
    <3> QED
      BY <1>9, <2>1, <3>1, Zenon
  <2>2. CASE d \in 1..D
    BY <1>2, <1>3, <1>7, <2>2, Zenon DEF Placed, D
  <2> QED
    BY <1>6, <2>1, <2>2
<1>11. \A k \in 1..Len(m) : \/ \E d \in 1..Len(s) : k = next[d]
                           \/ Complete(m, k, Len(s), types[m[k].index], failing)
  <2>1. \A k \in 1..Len(m) : k = n + 1 \/ k \in 1..n
    BY <1>1
  <2>2. D + 1 \in 1..D + 1 /\ Len(s) \in Nat
    BY <1>1, <1>2
  <2> QED
    BY <1>3, <1>7, <2>1, <2>2, Zenon
<1>12. m[Len(m)].level >= Len(s) - 1
  BY <1>1, <1>2
<1>13. \A d \in 1..Len(s) : s[d].i <= Len(types[s[d].index]) + 1
  <2>1. a.i <= Len(types[a.index]) + 1
    BY <1>5
  <2> QED
    BY <1>2, <1>4, <1>6, <1>7, <2>1, Zenon
<1>14. Growing(m, s, index, types, failing)
  BY <1>4, <1>8, <1>10, <1>11, <1>12, <1>13, Zenon DEF Growing
<1> QED
  BY <1>14 DEF m, s

(* The text when the top activation has no more children: its entry is     *)
(* complete.                                                               *)
LEMMA Finishes ==
  ASSUME NEW l \in Seq(Entry), NEW s \in Seq(Activation), NEW index, NEW types, NEW failing,
         Growing(l, s, index, types, failing), s # <<>>,
         s[Len(s)].i - 1 = Len(types[s[Len(s)].index])
  PROVE  \E place \in [1..Len(s) -> 1..Len(l)] :
           /\ Placed(l, s, place, types)
           /\ \A k \in 1..Len(l) :
                \/ \E d \in 1..Len(s) - 1 : k = place[d]
                \/ Complete(l, k, Len(s) - 1, types[l[k].index], failing)
<1> DEFINE D == Len(s)
           n == Len(l)
<1>1. D \in Nat /\ D >= 1 /\ n \in Nat /\ D \in 1..D
  OBVIOUS
<1>2. PICK place \in [1..D -> 1..n] :
        /\ Placed(l, s, place, types)
        /\ \A k \in 1..n : \/ \E d \in 1..D : k = place[d]
                           \/ Complete(l, k, D, types[l[k].index], failing)
  BY DEF Growing
<1>3. AtWork(l, place[D], s[D], D, types[s[D].index])
  BY <1>1, <1>2, Zenon DEF Placed
<1>4. s[D].i - 1 = Len(types[s[D].index])
  OBVIOUS
<1>5. \A k \in 1..n : l[k].level \in Nat
  <2>1. \A x \in Entry : x.level \in Nat
    BY DEF Entry
  <2>2. \A k \in 1..n : l[k] \in Entry
    OBVIOUS
  <2> QED
    BY <2>1, <2>2, Zenon
<1> HIDE DEF D, n
<1>6. Complete(l, place[D], D - 1, types[l[place[D]].index], failing)
  <2>1. /\ l[place[D]].format = "members" /\ l[place[D]].index = s[D].index
        /\ l[place[D]].level = D - 1
        /\ Shows(l, place[D], types[s[D].index], s[D].i - 1)
    BY <1>3 DEF AtWork
  <2>2. Shows(l, place[D], types[s[D].index], Len(types[s[D].index]))
    BY <1>4, <2>1, Zenon
  <2>3. EntryWhole(l, place[D], types[l[place[D]].index], failing)
    BY <2>1, <2>2, Zenon DEF EntryWhole
  <2>4. Over(l, place[D], D - 1)
    BY <1>1, <2>1 DEF Over
  <2> QED
    BY <2>3, <2>4 DEF Complete
<1>7. ASSUME NEW k \in 1..n, Complete(l, k, D, types[l[k].index], failing)
      PROVE  Complete(l, k, D - 1, types[l[k].index], failing)
  <2>1. l[k].level >= D => l[k].level >= D - 1
    BY <1>1, <1>5
  <2> QED
    BY <1>7, <2>1 DEF Complete, Over
<1>8. \A k \in 1..n : \/ \E d \in 1..D - 1 : k = place[d]
                      \/ Complete(l, k, D - 1, types[l[k].index], failing)
  <2>1. \A d \in 1..D : d = D \/ d \in 1..D - 1
    BY <1>1
  <2> QED
    BY <1>2, <1>6, <1>7, <2>1, Zenon
<1> QED
  BY <1>2, <1>8 DEF D, n

(* The text after the return to the activation below.                      *)
LEMMA Left ==
  ASSUME NEW l \in Seq(Entry), NEW s \in Seq(Activation), NEW index, NEW types, NEW failing,
         Growing(l, s, index, types, failing), Len(s) > 1,
         s[Len(s)].i - 1 = Len(types[s[Len(s)].index])
  PROVE  Growing(l, SubSeq(s, 1, Len(s) - 1), index, types, failing)
<1> DEFINE D == Len(s)
           n == Len(l)
           t == SubSeq(s, 1, D - 1)
<1>1. /\ D \in Nat /\ D > 1 /\ Len(t) = D - 1 /\ n \in Nat
      /\ \A d \in 1..D - 1 : d \in 1..D /\ t[d] = s[d]
  OBVIOUS
<1>2. PICK place \in [1..D -> 1..n] :
        /\ Placed(l, s, place, types)
        /\ \A k \in 1..n : \/ \E d \in 1..D - 1 : k = place[d]
                           \/ Complete(l, k, D - 1, types[l[k].index], failing)
  <2>1. s # <<>>
    OBVIOUS
  <2> QED
    BY <2>1, Finishes
<1>3. /\ Begun(l, index) /\ l[n].level >= D - 1
      /\ \A d \in 1..D : s[d].i <= Len(types[s[d].index]) + 1
  BY DEF Growing
<1>4. n >= 1 /\ l[n].level \in Nat
  <2>1. n >= 1
    BY <1>1, <1>3 DEF Begun
  <2>2. l[n] \in Entry
    BY <2>1
  <2> QED
    BY <2>1, <2>2 DEF Entry
<1> HIDE DEF D, n, t
<1> DEFINE below == [d \in 1..D - 1 |-> place[d]]
<1>5. below \in [1..Len(t) -> 1..n] /\ \A d \in 1..D - 1 : below[d] = place[d]
  BY <1>1, <1>2
<1> HIDE DEF below
<1>6. Placed(l, t, below, types)
  BY <1>1, <1>2, <1>5, Zenon DEF Placed, D
<1>7. l[n].level >= Len(t) - 1
  BY <1>1, <1>3, <1>4
<1>8. \A d \in 1..Len(t) : t[d].i <= Len(types[t[d].index]) + 1
  BY <1>1, <1>3, Zenon
<1>9. \A k \in 1..n : \/ \E d \in 1..Len(t) : k = below[d]
                      \/ Complete(l, k, Len(t), types[l[k].index], failing)
  BY <1>1, <1>2, <1>5, Zenon
<1>10. Growing(l, t, index, types, failing)
  BY <1>3, <1>5, <1>6, <1>7, <1>8, <1>9, Zenon DEF Growing, n
<1> QED
  BY <1>10 DEF t, D

(* The text of a variable with members, at its beginning.                  *)
LEMMA Starts ==
  ASSUME NEW e \in Entry, NEW a \in Activation, NEW types, NEW failing,
         e.level = 0, e.format = "members", e.index = a.index, a.i = 1,
         types[a.index] \in Seq(Index)
  PROVE  Growing(<<e>>, <<a>>, e.index, types, failing)
<1> DEFINE l == <<e>>
           s == <<a>>
<1>1. l \in Seq(Entry) /\ Len(l) = 1 /\ l[1] = e /\ Len(s) = 1 /\ s[1] = a /\ l # <<>>
  OBVIOUS
<1>2. /\ e.level = 0 /\ e.format = "members" /\ e.index = a.index /\ a.i = 1
      /\ Len(types[a.index]) \in Nat
  OBVIOUS
<1> HIDE DEF l, s
<1>3. 1..Len(s) = {1} /\ 1..Len(l) = {1} /\ 2..Len(l) = {} /\ 1 + 1..Len(l) = {}
  BY <1>1
<1>4. Begun(l, e.index)
  BY <1>1, <1>2, <1>3, Zenon DEF Begun
<1>5. AtWork(l, 1, a, 1, types[a.index])
  <2>1. Shows(l, 1, types[a.index], 0)
    BY <1>1, ShowsNone
  <2>2. a.i - 1 = 0 /\ l[1].level = 1 - 1
    BY <1>1, <1>2
  <2> QED
    BY <1>1, <1>2, <1>3, <2>1, <2>2, Zenon DEF AtWork
<1> DEFINE place == [d \in 1..Len(s) |-> 1]
<1>6. place \in [1..Len(s) -> 1..Len(l)] /\ place[1] = 1
  BY <1>3
<1> HIDE DEF place
<1>7. Placed(l, s, place, types)
  BY <1>1, <1>3, <1>5, <1>6, Zenon DEF Placed
<1>8. \A k \in 1..Len(l) : \E d \in 1..Len(s) : k = place[d]
  BY <1>3, <1>6
<1>9. l[Len(l)].level >= Len(s) - 1
  BY <1>1, <1>2
<1>10. \A d \in 1..Len(s) : s[d].i <= Len(types[s[d].index]) + 1
  BY <1>1, <1>2, <1>3
<1>11. Growing(l, s, e.index, types, failing)
  BY <1>4, <1>6, <1>7, <1>8, <1>9, <1>10, Zenon DEF Growing
<1> QED
  BY <1>11 DEF l, s
-----------------------------------------------------------------------------
(* Whatever the debug information and whatever queries fail, a line that   *)
(* is written has the symbol, with all children below each type.           *)
THEOREM LinesAreWhole == Spec => []LineWhole
<1> USE Bounds
<1>1. Init => Whole
  BY DEF Init, Whole, LineWhole
<1>2. TypeOK /\ WithinFrame /\ Whole /\ [Next]_vars => Whole'
  <2> SUFFICES ASSUME TypeOK, WithinFrame, Whole, [Next]_vars
               PROVE  Whole'
    OBVIOUS
  <2>1. /\ buffer \in Seq(Entry) /\ \A i \in Index : children[i] \in Seq(Index)
        /\ Len(stack) \in Nat /\ stack \in Seq(Activation)
    BY SymbolDumpAssumption DEF TypeOK
  <2>2. ASSUME UNCHANGED <<children, overflown, symbol, failed, line>>, pc' # "format"
        PROVE  Whole'
    BY <2>2 DEF Whole, LineWhole
  <2>3. ASSUME line' = <<>>, pc' # "format"
        PROVE  Whole'
    BY <2>3 DEF Whole, LineWhole
  <2>4. ASSUME UNCHANGED <<children, overflown, symbol, line>>, pc = "format", pc' = "format",
               failed => failed',
               Growing(buffer', stack', symbol.index, children, failed')
        PROVE  Whole'
    <3>1. LineWhole'
      <4>1. CASE line = <<>>
        BY <2>4, <4>1 DEF LineWhole
      <4>2. CASE line # <<>>
        BY <2>4, <4>2 DEF LineWhole, Whole, EntryWhole
      <4> QED
        BY <4>1, <4>2
    <3> QED
      BY <2>4, <3>1 DEF Whole
  <2>5. CASE WalkFrame \/ WalkEnds \/ DumpSymbolName \/ DumpSymbolParam \/ EnumEnds
    BY <2>2, <2>5 DEF WalkFrame, WalkEnds, DumpSymbolName, DumpSymbolParam, EnumEnds, dump
  <2>6. CASE FrameEnds
    BY <2>3, <2>6 DEF FrameEnds
  <2>7. ASSUME NEW s \in Symbol, EnumSymbolsProcCallback(s)
        PROVE  Whole'
    <3>1. symbol' = s /\ nLevel' = nLevel /\ children' = children /\ s.index \in Index
      BY <2>7, Called, SymbolDumpAssumption DEF SymbolInfo
    <3>2. PICK failing \in SUBSET {"children", "basetype"} : Callback(s, failing)
      BY <2>7, Called
    <3>3. failed' = (failing # {}) /\ Variable(s, nLevel) \in Nat
      BY <3>2, VariableType DEF Callback, TypeOK
    <3>4. CASE NoLine
      BY <2>3, <3>4 DEF NoLine, WriteLine
    <3>5. CASE /\ stack' = <<[index |-> s.index, i |-> 1, offset |-> Variable(s, nLevel)]>>
               /\ buffer' = <<WholeEntry(s)>>
               /\ line' = <<>>
               /\ pc' = "format"
      <4> DEFINE e == WholeEntry(s)
                 a == [index |-> s.index, i |-> 1, offset |-> Variable(s, nLevel)]
      <4>1. e \in Entry /\ e.level = 0 /\ e.format = "members" /\ e.index = s.index
        BY <3>1, <3>3 DEF WholeEntry, Entry, Format
      <4>2. a \in Activation /\ a.i = 1 /\ a.index = s.index
        BY <3>1, <3>3 DEF Activation
      <4>3. buffer' = <<e>> /\ stack' = <<a>>
        BY <3>5
      <4>4. children[a.index] \in Seq(Index)
        BY <2>1, <3>1, <4>2
      <4> HIDE DEF e, a
      <4>5. Growing(<<e>>, <<a>>, e.index, children, failed')
        BY <4>1, <4>2, <4>4, Starts
      <4>6. Growing(buffer', stack', symbol'.index, children', failed')
        BY <3>1, <4>1, <4>3, <4>5
      <4> QED
        BY <3>5, <4>6 DEF Whole, LineWhole
    <3>6. ASSUME ~HasMembers(s.index, failing),
                 NEW f \in FormatOutputValue(GetBasicType(s.index, failing), Length[s.index]),
                 WriteLine(<<ValueEntry(s, failing, f)>>)
          PROVE  Whole'
      <4> DEFINE e == ValueEntry(s, failing, f)
      <4>1. e.level = 0 /\ e.index = s.index /\ e.format = f
        BY DEF ValueEntry
      <4>2. f # "members"
        BY DEF FormatOutputValue
      <4>3. line' = <<e>> /\ pc' = "enum"
        BY <3>6 DEF WriteLine
      <4>4. children[s.index] = <<>> \/ failed'
        BY <3>3, <3>6 DEF HasMembers
      <4> HIDE DEF e
      <4>5. Len(line') = 1 /\ line'[1] = e /\ 2..Len(line') = {} /\ 1..Len(line') = {1}
        BY <4>3
      <4>6. EntryWhole(line', 1, children[s.index], failed')
        BY <4>1, <4>2, <4>4, <4>5 DEF EntryWhole
      <4>7. LineWhole'
        BY <3>1, <4>1, <4>5, <4>6 DEF LineWhole
      <4> QED
        BY <4>3, <4>7 DEF Whole
    <3> QED
      BY <3>2, <3>4, <3>5, <3>6 DEF Callback
  <2>8. CASE EnterMember
    <3>1. PICK failing \in SUBSET {"basetype"} :
            /\ failed' = (failed \/ failing # {})
            /\ buffer' = Append(buffer, [level |-> Len(stack), index |-> NextMember,
                                         type |-> TypeName(GetBasicType(NextMember, failing)),
                                         format |-> "members", at |-> Top.offset])
      BY <2>8 DEF EnterMember
    <3>2. /\ pc = "format" /\ HasNext /\ pc' = "format" /\ (failed => failed')
          /\ stack' = Append(Advanced, [index |-> NextMember, i |-> 1, offset |-> Top.offset])
          /\ UNCHANGED <<children, overflown, symbol, line>>
      BY <2>8 DEF EnterMember
    <3> DEFINE e == [level |-> Len(stack), index |-> NextMember,
                     type |-> TypeName(GetBasicType(NextMember, failing)),
                     format |-> "members", at |-> Top.offset]
               a == [index |-> NextMember, i |-> 1, offset |-> Top.offset]
    <3>3. NextMember \in Index /\ Top.offset \in Nat
      BY <3>2, NextMemberType, AdvancedTypes DEF Activation
    <3>4. /\ e \in Entry /\ e.level = Len(stack) /\ e.format = "members"
          /\ e.index = NextMember
      BY <2>1, <3>3, TypesNamed DEF Entry, Format
    <3>5. a \in Activation /\ a.index = NextMember /\ a.i = 1
      BY <3>3 DEF Activation
    <3>6. buffer' = Append(buffer, e) /\ stack' = Append(Advanced, a)
      BY <3>1, <3>2
    <3> HIDE DEF e, a
    <3>7. Growing(buffer, stack, symbol.index, children, failed)
      BY <3>2 DEF Whole
    <3>8. Extended(buffer, e, Advanced, symbol.index, children, failed')
      BY <3>2, <3>4, <3>7, RoundOfStack
    <3>9. Advanced \in Seq(Activation) /\ Len(Advanced) = Len(stack)
      BY <3>2, AdvancedTypes
    <3>10. children[a.index] \in Seq(Index)
      BY <2>1, <3>3, <3>5
    <3>11. Growing(Append(buffer, e), Append(Advanced, a), symbol.index, children, failed')
      BY <2>1, <3>4, <3>5, <3>8, <3>9, <3>10, Entered
    <3> QED
      BY <2>4, <3>2, <3>6, <3>11
  <2>9. CASE PrintMember
    <3>1. PICK failing \in SUBSET Query :
            /\ ~HasMembers(NextMember, failing)
            /\ failed' = (failed \/ failing # {})
            /\ \E f \in MemberFormats(NextMember, failing) :
                 buffer' = Append(buffer, MemberEntry(failing, f))
      BY <2>9 DEF PrintMember, MemberEntry
    <3>2. PICK f \in MemberFormats(NextMember, failing) : buffer' = Append(buffer, MemberEntry(failing, f))
      BY <3>1
    <3>3. /\ pc = "format" /\ HasNext /\ pc' = "format" /\ stack' = Advanced
          /\ (failed => failed') /\ UNCHANGED <<children, overflown, symbol, line>>
      BY <2>9 DEF PrintMember
    <3>4. NextMember \in Index /\ Top.offset \in Nat /\ f \in Format
      BY <3>3, NextMemberType, AdvancedTypes, FormatsOfMembers DEF Activation
    <3>5. MemberAddress(Top.offset, NextMember, failing) \in Nat \cup {Wild}
      BY <3>4, SymbolDumpAssumption DEF MemberAddress
    <3>6. f # "members"
      BY DEF MemberFormats, FormatOutputValue
    <3> DEFINE e == MemberEntry(failing, f)
    <3>7. e \in Entry /\ e.level = Len(stack) /\ e.index = NextMember /\ e.format # "members"
      BY <2>1, <3>4, <3>5, <3>6, TypesNamed DEF MemberEntry, Entry
    <3>8. children[e.index] = <<>> \/ failed'
      BY <3>1, <3>7 DEF HasMembers
    <3> HIDE DEF e
    <3>9. Growing(buffer, stack, symbol.index, children, failed)
      BY <3>3 DEF Whole
    <3>10. Extended(buffer, e, Advanced, symbol.index, children, failed')
      BY <3>3, <3>7, <3>9, RoundOfStack
    <3>11. Advanced \in Seq(Activation) /\ Len(Advanced) = Len(stack)
      BY <3>3, AdvancedTypes
    <3>12. Growing(Append(buffer, e), Advanced, symbol.index, children, failed')
      BY <2>1, <3>7, <3>8, <3>10, <3>11, Printed
    <3> QED
      BY <2>4, <3>2, <3>3, <3>12 DEF e
  <2>10. CASE MembersDone
    <3>1. pc = "format" /\ ~HasNext /\ UNCHANGED <<children, overflown, symbol, failed>>
      BY <2>10 DEF MembersDone
    <3>2. Growing(buffer, stack, symbol.index, children, failed)
      BY <3>1 DEF Whole
    <3>3. /\ Top = stack[Len(stack)] /\ Top.i \in Nat /\ children[Top.index] \in Seq(Index)
          /\ Len(stack) >= 1 /\ stack # <<>>
      BY <2>1, <3>1, AdvancedTop DEF Activation, WithinFrame
    <3>4. stack[Len(stack)].i - 1 = Len(children[stack[Len(stack)].index])
      <4>1. stack[Len(stack)].i <= Len(children[stack[Len(stack)].index]) + 1
        BY <2>1, <3>2, <3>3 DEF Growing
      <4>2. ~(stack[Len(stack)].i <= Len(children[stack[Len(stack)].index]))
        BY <3>1, <3>3 DEF HasNext
      <4> QED
        BY <3>3, <4>1, <4>2
    <3>5. CASE Len(stack) = 1
      <4>1. line' = buffer /\ pc' = "enum"
        BY <2>10, <3>5 DEF MembersDone, WriteLine
      <4>2. \A k \in 1..Len(buffer) : EntryWhole(buffer, k, children[buffer[k].index], failed)
        <5>1. 1..Len(stack) - 1 = {}
          BY <3>5
        <5> QED
          BY <2>1, <3>2, <3>3, <3>4, <5>1, Finishes DEF Complete
      <4>3. Begun(buffer, symbol.index)
        BY <3>2 DEF Growing
      <4> QED
        BY <3>1, <4>1, <4>2, <4>3 DEF Whole, LineWhole, Begun
    <3>6. CASE Len(stack) # 1
      <4>1. stack' = SubSeq(stack, 1, Len(stack) - 1) /\ UNCHANGED <<pc, buffer, line>>
        BY <2>10, <3>6 DEF MembersDone
      <4>2. Len(stack) > 1
        <5>1. \A n \in Nat : n >= 1 /\ n # 1 => n > 1
          OBVIOUS
        <5> QED
          BY <2>1, <3>3, <3>6, <5>1, Zenon
      <4>3. Growing(buffer, SubSeq(stack, 1, Len(stack) - 1), symbol.index, children, failed)
        BY <2>1, <3>2, <3>4, <4>2, Left
      <4> QED
        BY <2>4, <3>1, <4>1, <4>3
    <3> QED
      BY <3>5, <3>6
  <2>11. CASE ValueFaults
    BY <2>3, <2>11 DEF ValueFaults, NoLine, WriteLine
  <2>12. CASE StackOverflows
    <3>1. CASE Swallowed
      BY <2>3, <2>12, <3>1 DEF StackOverflows, NoLine, WriteLine
    <3>2. CASE ~Swallowed
      BY <2>2, <2>12, <3>2 DEF StackOverflows
    <3> QED
      BY <3>1, <3>2
  <2>13. CASE Finished \/ UNCHANGED vars
    BY <2>13 DEF Finished, vars, Whole, LineWhole
  <2> QED
    BY <2>5, <2>6, <2>7, <2>8, <2>9, <2>10, <2>11, <2>12, <2>13 DEF Next, Step
<1>3. Whole => LineWhole
  BY DEF Whole
<1> QED
  BY <1>1, <1>2, <1>3, FramesKept, PTL DEF Spec
=============================================================================
