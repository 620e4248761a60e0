------------------------ MODULE TailMonitor_proofs -------------------------
(***************************************************************************)
(* What the tail input keeps, for any files, names, monitor threads,       *)
(* configurations and sizes: what is before a record's position has been   *)
(* handed on or waits in its buffer, messages are cut only at marks, and   *)
(* (second part) no unit is handed on twice.                               *)
(***************************************************************************)
EXTENDS TailMonitor, SequenceTheorems, FiniteSetTheorems,
        WellFoundedInduction, TLAPS

-----------------------------------------------------------------------------
(* Numbers *)

\* A nonempty set of natural numbers has a least element.
LEMMA LeastOf ==
    ASSUME NEW T, T \subseteq Nat, T # {}
    PROVE  \E x \in T : \A y \in T : x <= y
  <1> DEFINE R == OpToRel(<, Nat)
  <1>1. IsWellFoundedOn(R, Nat)
    BY NatLessThanWellFounded
  <1>2. \A x, y \in Nat : y < x => <<y, x>> \in R
    BY DEF OpToRel
  <1> HIDE DEF R
  <1>3. PICK x \in T : \A y \in T : ~(<<y, x>> \in R)
    BY <1>1, WFMin
  <1>4. ASSUME NEW y \in T PROVE x <= y
    <2>1. x \in Nat /\ y \in Nat
      OBVIOUS
    <2>2. ~(<<y, x>> \in R)
      BY <1>3
    <2>3. ~(y < x)
      BY <1>2, <2>1, <2>2
    <2> QED
      BY <2>1, <2>3
  <1> QED
    BY <1>4

\* A nonempty set of numbers up to n has a greatest element.
LEMMA GreatestOf ==
    ASSUME NEW n \in Nat, NEW T, T \subseteq 0..n, T # {}
    PROVE  \E x \in T : \A y \in T : x >= y
  <1> DEFINE U == {u \in Nat : \E x \in T : u = n - x}
  <1>1. \A x \in T : n - x \in U
    OBVIOUS
  <1>2. U # {}
    BY <1>1
  <1>3. \A u \in U : \E x \in T : u = n - x
    OBVIOUS
  <1>4. U \subseteq Nat
    OBVIOUS
  <1> HIDE DEF U
  <1>5. PICK u \in U : \A y \in U : u <= y
    BY <1>2, <1>4, LeastOf
  <1>6. PICK x \in T : u = n - x
    BY <1>3
  <1>7. ASSUME NEW y \in T PROVE x >= y
    <2>1. n - x <= n - y
      BY <1>1, <1>5, <1>6
    <2> QED
      BY <2>1
  <1> QED
    BY <1>7

\* What Max of such a set is.
LEMMA MaxOf ==
    ASSUME NEW n \in Nat, NEW T, T \subseteq 0..n, T # {}
    PROVE  Max(T) \in T /\ \A y \in T : Max(T) >= y
  <1>1. \E x \in T : \A y \in T : x >= y
    BY GreatestOf
  <1> QED
    BY <1>1 DEF Max

\* What Min of two numbers is.
LEMMA MinOfTwo ==
    ASSUME NEW a \in Nat, NEW b \in Nat
    PROVE  /\ Min({a, b}) \in Nat
           /\ Min({a, b}) <= a /\ Min({a, b}) <= b
           /\ Min({a, b}) = a \/ Min({a, b}) = b
  <1>1. \E x \in {a, b} : \A y \in {a, b} : x =< y
    OBVIOUS
  <1>2. Min({a, b}) \in {a, b} /\ \A y \in {a, b} : Min({a, b}) =< y
    BY <1>1 DEF Min
  <1> QED
    BY <1>2

-----------------------------------------------------------------------------
(* The inductive invariant *)

\* A message begins at a mark or continues one.
Clean(m) == \A i \in 2..Len(m) : ~m[i].mark

\* The number of a unit tells where it is, and none is ahead of the writer.
UnitsInv ==
    /\ \A f \in Files : \A i \in 1..Len(content[f]) : content[f][i].n <= written
    /\ \A f, g \in Files : \A i \in 1..Len(content[f]) : \A j \in 1..Len(content[g]) :
           content[f][i].n = content[g][j].n => f = g /\ i = j

\* m_buffer is the beginning of a message; there is one only with a regex, and
\* in follow_only_mode only after the first read.
Shaped(r) ==
    /\ r.file \in Files
    /\ Clean(r.buffer)
    /\ r.buffer # <<>> => mode.regex /\ (mode.followOnly => r.firstRead)

ShapesInv == \A k \in DOMAIN table : table[k] = Null \/ Shaped(table[k])

\* A thread inside process() has a record, and in follow_only_mode reads only
\* after the first look at the file.
ReadingInv ==
    \A t \in Monitors :
        /\ pc[t] \in {"read", "save"} => table[CurrentKey(t)] # Null
        /\ pc[t] = "read" => (mode.followOnly => table[CurrentKey(t)].firstRead)

Truncated == "truncate" \in troubles

\* Where nothing was truncated, m_buffer is what ends at the position.
Placed(r) ==
    /\ ~r.bad
    /\ r.pos \in 0..Len(content[r.file])
    /\ Len(r.buffer) <= r.pos
    /\ \A i \in 1..Len(r.buffer) :
           r.buffer[i] = content[r.file][r.pos - Len(r.buffer) + i]

PlacesInv ==
    Truncated \/
    /\ \A k \in DOMAIN disk : disk[k] >= 0
    /\ \A k \in DOMAIN loaded : loaded[k] >= 0
    /\ \A k \in DOMAIN table : table[k] = Null \/ Placed(table[k])
    /\ \A t \in Monitors : pc[t] = "read" =>
           size[t] <= Len(content[table[CurrentKey(t)].file])

\* The unit after the last one of m is there already, and it is a mark.
Followed(m) ==
    \E f \in Files : \E i \in 1..(Len(content[f]) - 1) :
        content[f][i] = m[Len(m)] /\ content[f][i + 1].mark

\* m is somewhere in a file.
Adjacent(m) == \E f \in Files : Within(m, content[f])

SentInv ==
    \A m \in sent :
        /\ m # <<>>
        /\ Clean(m)
        /\ ~mode.regex => ~m[1].mark
        /\ mode.regex => mode.timer \/ Truncated \/ Followed(m)
        /\ Truncated \/ Adjacent(m)

\* No name has got another file.
Kept == troubles \cap {"rename", "overwrite", "unlink"} = {}

KeptInv ==
    Kept => /\ dir = [n \in Names |-> IF n = Live THEN 1 ELSE NoFile]
            /\ \A k \in DOMAIN table : table[k] = Null \/ table[k].file = 1

\* The units of f up to n are in a message, or are newlines.
Handed(f, n) ==
    /\ n <= Len(content[f])
    /\ \A i \in 1..n : \/ content[f][i] \in UnitsOf(sent)
                       \/ content[f][i].mark /\ ~mode.regex

\* Positions, in records and saved, are not ahead of what was handed on.
HandedInv ==
    mode.followOnly \/ Truncated \/
    /\ ~Restarted => loaded = Empty /\ (~up => disk = Empty)
    /\ ~Restarted \/ Kept =>
           \A k \in DOMAIN table :
               table[k] = Null \/ Handed(table[k].file, table[k].pos - Len(table[k].buffer))
    /\ Kept => /\ \A k \in DOMAIN disk : Handed(1, disk[k])
               /\ \A k \in DOMAIN loaded : Handed(1, loaded[k])

IInv ==
    TypeOK /\ UnitsInv /\ ShapesInv /\ ReadingInv /\ PlacesInv /\ SentInv
        /\ KeptInv /\ HandedInv

-----------------------------------------------------------------------------
(* Cutting *)

\* Every part is a stretch of s between cuts.
Stretch(s, cuts, a, b, m) ==
    /\ IsPart(s, cuts, a, b)
    /\ m \in Seq(Units)
    /\ Len(m) = b - a + 1
    /\ \A i \in 1..Len(m) : m[i] = s[a + i - 1]

\* A run of a run.
LEMMA WithinWithin ==
    ASSUME NEW m \in Seq(Units), NEW s \in Seq(Units), NEW t \in Seq(Units),
           Within(m, s), Within(s, t)
    PROVE  Within(m, t)
  <1>1. PICK a \in 0..(Len(s) - Len(m)) : \A i \in 1..Len(m) : m[i] = s[a + i]
    BY DEF Within
  <1>2. PICK c \in 0..(Len(t) - Len(s)) : \A i \in 1..Len(s) : s[i] = t[c + i]
    BY DEF Within
  <1>3. c + a \in 0..(Len(t) - Len(m))
    OBVIOUS
  <1>4. ASSUME NEW i \in 1..Len(m) PROVE m[i] = t[(c + a) + i]
    <2>1. a + i \in 1..Len(s) /\ c + (a + i) = (c + a) + i
      OBVIOUS
    <2>2. s[a + i] = t[c + (a + i)]
      BY <1>2, <2>1
    <2> QED
      BY <1>1, <2>1, <2>2
  <1> QED
    BY <1>3, <1>4 DEF Within

\* What a part is.
LEMMA PartsAre ==
    ASSUME NEW s \in Seq(Units), NEW cuts, NEW m \in Parts(s, cuts)
    PROVE  \E a, b \in 1..Len(s) : Stretch(s, cuts, a, b, m)
  <1>1. PICK a \in 1..Len(s), b \in 1..Len(s) :
            IsPart(s, cuts, a, b) /\ m = SubSeq(s, a, b)
    BY DEF Parts
  <1>2. a <= b
    BY <1>1 DEF IsPart
  <1>3. \A i \in a..b : s[i] \in Units
    OBVIOUS
  <1>4. /\ m \in Seq(Units)
        /\ Len(m) = b - a + 1
        /\ \A i \in 1..(b - a + 1) : m[i] = s[a + i - 1]
    BY <1>1, <1>2, <1>3, SubSeqProperties
  <1> QED
    BY <1>1, <1>4 DEF Stretch

\* Every stretch between cuts is a part.
LEMMA PartIn ==
    ASSUME NEW s, NEW cuts, NEW a \in 1..Len(s), NEW b \in 1..Len(s),
           IsPart(s, cuts, a, b)
    PROVE  SubSeq(s, a, b) \in Parts(s, cuts)
  <1>1. SubSeq(s, a, b)
            \in {SubSeq(s, a, x) : x \in {y \in 1..Len(s) : IsPart(s, cuts, a, y)}}
    BY Zenon
  <1> QED
    BY <1>1, Zenon DEF Parts

\* The parts leave nothing out.
LEMMA PartsCover ==
    ASSUME NEW s \in Seq(Units), NEW cuts, cuts \subseteq 1..Len(s),
           NEW i \in 1..Len(s)
    PROVE  \E a \in 1..i, b \in i..Len(s) :
               /\ IsPart(s, cuts, a, b)
               /\ SubSeq(s, a, b) \in Parts(s, cuts)
               /\ SubSeq(s, a, b)[1] = s[a]
               /\ s[i] \in Range(SubSeq(s, a, b))
  <1> DEFINE A == {1} \cup {c \in cuts : c <= i}
             B == {Len(s)} \cup {b \in i..Len(s) : b + 1 \in cuts}
  <1>0. Len(s) \in Nat /\ i \in Nat /\ i <= Len(s)
    OBVIOUS
  <1>1. A \subseteq 0..i /\ A # {} /\ B \subseteq Nat /\ B # {}
    <2>1. ASSUME NEW c \in A PROVE c \in 0..i
      <3>1. CASE c = 1
        BY <1>0, <3>1
      <3>2. CASE c # 1
        BY <1>0, <3>2
      <3> QED
        BY <3>1, <3>2
    <2>2. B \subseteq Nat
      BY <1>0
    <2> QED
      BY <2>1, <2>2
  <1>2. /\ \A a \in A : a \in 1..i /\ (a = 1 \/ a \in cuts)
        /\ \A c \in cuts : c <= i => c \in A
        /\ \A b \in B : b \in i..Len(s) /\ (b = Len(s) \/ b + 1 \in cuts)
        /\ \A b \in i..Len(s) : b + 1 \in cuts => b \in B
    OBVIOUS
  <1> HIDE DEF A, B
  <1>3. PICK a \in A : \A c \in A : a >= c
    BY <1>0, <1>1, GreatestOf
  <1>4. PICK b \in B : \A c \in B : b <= c
    BY <1>1, LeastOf
  <1>5. a \in 1..i /\ b \in i..Len(s)
    BY <1>2
  <1>6. ASSUME NEW c \in cuts, a < c, c <= b PROVE FALSE
    <2>1. CASE c <= i
      BY <1>2, <1>3, <1>5, <1>6, <2>1
    <2>2. CASE c > i
      <3>1. c - 1 \in i..Len(s) /\ (c - 1) + 1 = c
        BY <1>5, <1>6, <2>2
      <3>2. c - 1 \in B
        BY <1>2, <3>1
      <3>3. b <= c - 1
        BY <1>4, <3>2
      <3> QED
        BY <1>5, <1>6, <3>3
    <2> QED
      BY <1>5, <2>1, <2>2
  <1>7. IsPart(s, cuts, a, b)
    BY <1>2, <1>5, <1>6 DEF IsPart
  <1>8. SubSeq(s, a, b) \in Parts(s, cuts)
    <2>1. a \in 1..Len(s) /\ b \in 1..Len(s)
      BY <1>0, <1>5
    <2> QED
      BY <1>7, <2>1, PartIn
  <1>9. \A j \in a..b : s[j] \in Units
    BY <1>5
  <1>10. /\ SubSeq(s, a, b) \in Seq(Units)
         /\ Len(SubSeq(s, a, b)) = b - a + 1
         /\ \A j \in 1..(b - a + 1) : SubSeq(s, a, b)[j] = s[a + j - 1]
    BY <1>5, <1>9, SubSeqProperties
  <1>11. i - a + 1 \in DOMAIN SubSeq(s, a, b) /\ SubSeq(s, a, b)[i - a + 1] = s[i]
    BY <1>5, <1>10
  <1>12. s[i] \in Range(SubSeq(s, a, b))
    BY <1>11 DEF Range
  <1>13. SubSeq(s, a, b)[1] = s[a]
    BY <1>5, <1>10
  <1> QED
    BY <1>5, <1>7, <1>8, <1>12, <1>13

\* What processBuffer makes of all, the buffer followed by the new text.
Cut(all, messages, rest) ==
    /\ messages \subseteq Seq(Units)
    /\ \A m \in messages :
           /\ m # <<>>
           /\ Clean(m)
           /\ ~mode.regex => ~m[1].mark
           /\ mode.regex => \E b \in 1..(Len(all) - 1) :
                                all[b] = m[Len(m)] /\ all[b + 1].mark
           /\ Within(m, all)
    /\ rest \in Seq(Units)
    /\ Clean(rest)
    /\ rest # <<>> => mode.regex
    /\ \E c \in 0..Len(all) :
           /\ Len(rest) = Len(all) - c
           /\ \A i \in 1..Len(rest) : rest[i] = all[c + i]
           /\ \A i \in 1..c : all[i] \in UnitsOf(messages) \/ (all[i].mark /\ ~mode.regex)

\* Units in a message of the set.
LEMMA UnitOfMessage ==
    ASSUME NEW messages, NEW m \in messages, NEW u \in Range(m)
    PROVE  u \in UnitsOf(messages)
  BY DEF UnitsOf

\* With a regex messages end before marks, and the text from the last mark on
\* stays in the buffer.
LEMMA RegexCut ==
    ASSUME NEW buffer \in Seq(Units), NEW text \in Seq(Units), Clean(buffer),
           mode.regex
    PROVE  Cut(buffer \o text, RegexMessages(buffer, text), RegexBuffer(buffer, text))
  <1> DEFINE all == buffer \o text
             cuts == MarksIn(buffer, text)
  <1>1. /\ all \in Seq(Units)
        /\ Len(all) = Len(buffer) + Len(text)
        /\ \A i \in 1..Len(all) :
               all[i] = IF i <= Len(buffer) THEN buffer[i] ELSE text[i - Len(buffer)]
    OBVIOUS
  <1>2. /\ cuts \subseteq 2..Len(all)
        /\ \A i \in 2..Len(all) : i \in cuts <=> all[i].mark
    <2>1. cuts \subseteq 2..Len(all)
      BY <1>1 DEF MarksIn
    <2>2. ASSUME NEW i \in 2..Len(all), i > Len(buffer) PROVE i \in cuts <=> all[i].mark
      BY <1>1, <2>2 DEF MarksIn
    <2>3. ASSUME NEW i \in 2..Len(all), i <= Len(buffer) PROVE ~(i \in cuts) /\ ~all[i].mark
      <3>1. i \notin cuts
        BY <2>3 DEF MarksIn
      <3>2. i \in 2..Len(buffer) /\ all[i] = buffer[i]
        BY <1>1, <2>3
      <3> QED
        BY <3>1, <3>2 DEF Clean
    <2> QED
      BY <2>1, <2>2, <2>3
  <1> HIDE DEF cuts
  <1>3. CASE cuts = {}
    <2>1. RegexMessages(buffer, text) = {} /\ RegexBuffer(buffer, text) = all
      BY <1>3 DEF RegexMessages, RegexBuffer, cuts
    <2>2. Clean(all)
      BY <1>2, <1>3 DEF Clean
    <2>3. 0 \in 0..Len(all) /\ Len(all) = Len(all) - 0 /\ \A i \in 1..Len(all) : all[i] = all[0 + i]
      BY <1>1
    <2> HIDE DEF all
    <2> QED
      BY <1>1, <2>1, <2>2, <2>3 DEF Cut, all
  <1>4. CASE cuts # {}
    <2> DEFINE last == Max(cuts)
               done == SubSeq(all, 1, last - 1)
    <2>1. RegexMessages(buffer, text) = Parts(done, cuts)
          /\ RegexBuffer(buffer, text) = SubSeq(all, last, Len(all))
      BY <1>4 DEF RegexMessages, RegexBuffer, cuts
    <2>2. last \in cuts /\ \A c \in cuts : last >= c
      <3>1. cuts \subseteq 0..Len(all) /\ Len(all) \in Nat
        BY <1>1, <1>2
      <3> QED
        BY <1>4, <3>1, MaxOf
    <2> HIDE DEF last, all
    <2>3. last \in 2..Len(all) /\ all[last].mark
      BY <1>2, <2>2
    <2>4. /\ done \in Seq(Units)
          /\ Len(done) = last - 1
          /\ \A i \in 1..(last - 1) : done[i] = all[i]
      <3>1. \A i \in 1..(last - 1) : all[i] \in Units
        BY <1>1, <2>3
      <3> QED
        BY <2>3, <3>1, SubSeqProperties
    <2>5. /\ SubSeq(all, last, Len(all)) \in Seq(Units)
          /\ Len(SubSeq(all, last, Len(all))) = Len(all) - (last - 1)
          /\ \A i \in 1..(Len(all) - (last - 1)) :
                 SubSeq(all, last, Len(all))[i] = all[(last - 1) + i]
      <3>1. \A i \in last..Len(all) : all[i] \in Units
        BY <1>1, <2>3
      <3>2. last <= Len(all) /\ last \in Int /\ Len(all) \in Int
        BY <2>3
      <3>3. /\ SubSeq(all, last, Len(all)) \in Seq(Units)
            /\ Len(SubSeq(all, last, Len(all))) = Len(all) - last + 1
            /\ \A i \in 1..(Len(all) - last + 1) :
                   SubSeq(all, last, Len(all))[i] = all[last + i - 1]
        BY <3>1, <3>2, SubSeqProperties
      <3> QED
        BY <3>2, <3>3
    <2> HIDE DEF done
    <2>6. ASSUME NEW m \in Parts(done, cuts)
          PROVE  /\ m \in Seq(Units) /\ m # <<>> /\ Clean(m) /\ Within(m, all)
                 /\ \E b \in 1..(Len(all) - 1) :
                        all[b] = m[Len(m)] /\ all[b + 1].mark
      <3>0. PICK a \in 1..Len(done), b \in 1..Len(done) : Stretch(done, cuts, a, b, m)
        BY <2>4, PartsAre
      <3>1. /\ IsPart(done, cuts, a, b)
            /\ m \in Seq(Units)
            /\ Len(m) = b - a + 1
            /\ \A i \in 1..Len(m) : m[i] = done[a + i - 1]
        BY <3>0 DEF Stretch
      <3>2. a <= b /\ (b = Len(done) \/ b + 1 \in cuts)
            /\ \A c \in cuts : ~(a < c /\ c <= b)
        BY <3>1 DEF IsPart
      <3>3. m # <<>>
        BY <3>1, <3>2
      <3>4. ASSUME NEW i \in 2..Len(m) PROVE ~m[i].mark
        <4>1. a + i - 1 \in 2..Len(done) /\ a < a + i - 1 /\ a + i - 1 <= b
          BY <3>1, <3>2
        <4>2. a + i - 1 \notin cuts
          BY <3>2, <4>1
        <4>3. a + i - 1 \in 2..Len(all) /\ m[i] = all[a + i - 1]
          BY <3>1, <4>1, <2>3, <2>4
        <4> QED
          BY <1>2, <4>2, <4>3
      <3>5. b + 1 \in cuts
        BY <2>2, <2>3, <2>4, <3>2
      <3>6. b + 1 \in 2..Len(all) /\ all[b + 1].mark
        BY <1>2, <3>5
      <3>7. m[Len(m)] = all[b]
        <4>1. Len(m) \in 1..Len(m) /\ a + Len(m) - 1 = b
          BY <3>1, <3>2
        <4>2. m[Len(m)] = done[b]
          BY <3>1, <4>1
        <4> QED
          BY <2>3, <2>4, <4>2
      <3>8. b \in 1..(Len(all) - 1)
        BY <3>6, <2>3, <2>4
      <3>9. Within(m, all)
        <4>1. a - 1 \in 0..(Len(all) - Len(m))
          BY <3>1, <3>2, <3>8, <2>3
        <4>2. ASSUME NEW i \in 1..Len(m) PROVE m[i] = all[(a - 1) + i]
          <5>1. a + i - 1 \in 1..(last - 1) /\ (a - 1) + i = a + i - 1
            BY <3>1, <3>2, <2>4, <2>3
          <5> QED
            BY <3>1, <2>4, <5>1
        <4> QED
          BY <4>1, <4>2 DEF Within
      <3> QED
        BY <3>1, <3>3, <3>4, <3>6, <3>7, <3>8, <3>9 DEF Clean
    <2>7. Clean(SubSeq(all, last, Len(all)))
      <3>1. ASSUME NEW i \in 2..(Len(all) - (last - 1)) PROVE ~all[(last - 1) + i].mark
        <4>1. (last - 1) + i \in 2..Len(all) /\ (last - 1) + i > last
          BY <2>3
        <4>2. (last - 1) + i \notin cuts
          BY <2>2, <2>3, <4>1
        <4> QED
          BY <1>2, <4>1, <4>2
      <3> QED
        BY <2>3, <2>5, <3>1 DEF Clean
    <2>8. ASSUME NEW i \in 1..(last - 1) PROVE all[i] \in UnitsOf(Parts(done, cuts))
      <3> DEFINE inside == {c \in cuts : c <= Len(done)}
      <3>1. ASSUME NEW c \in inside PROVE c \in 1..Len(done)
        BY <1>2, <2>3, <2>4
      <3>2. PICK a \in 1..i, b \in i..Len(done) :
               /\ IsPart(done, inside, a, b)
               /\ done[i] \in Range(SubSeq(done, a, b))
        BY <2>4, <3>1, PartsCover
      <3>3. a \in 1..Len(done) /\ b \in 1..Len(done) /\ a <= b /\ b <= Len(done)
        BY <2>3, <2>4
      <3>4. IsPart(done, cuts, a, b)
        BY <1>2, <2>3, <2>4, <3>2, <3>3 DEF IsPart
      <3>5. SubSeq(done, a, b) \in Parts(done, cuts)
        BY <3>3, <3>4, PartIn
      <3> QED
        BY <2>4, <3>2, <3>5, UnitOfMessage
    <2>9. last - 1 \in 0..Len(all)
      BY <2>3
    <2> DEFINE rest == SubSeq(all, last, Len(all))
    <2>10. /\ last - 1 \in 0..Len(all)
           /\ Len(rest) = Len(all) - (last - 1)
           /\ \A i \in 1..Len(rest) : rest[i] = all[(last - 1) + i]
           /\ rest \in Seq(Units) /\ Clean(rest)
      BY <2>5, <2>7, <2>9
    <2> HIDE DEF rest
    <2> DEFINE kept == last - 1
               messages == Parts(done, cuts)
    <2>11. /\ kept \in 0..Len(all)
           /\ Len(rest) = Len(all) - kept
           /\ \A i \in 1..Len(rest) : rest[i] = all[kept + i]
           /\ \A i \in 1..kept : all[i] \in UnitsOf(messages)
      BY <2>8, <2>10
    <2>12. \A m \in messages :
               /\ m \in Seq(Units) /\ m # <<>> /\ Clean(m) /\ Within(m, all)
               /\ \E b \in 1..(Len(all) - 1) :
                      all[b] = m[Len(m)] /\ all[b + 1].mark
      BY <2>6
    <2> HIDE DEF kept, messages
    <2>13. \E c \in 0..Len(all) :
           /\ Len(rest) = Len(all) - c
           /\ \A i \in 1..Len(rest) : rest[i] = all[c + i]
           /\ \A i \in 1..c : all[i] \in UnitsOf(messages) \/ (all[i].mark /\ ~mode.regex)
      BY <2>11
    <2>14. Cut(all, messages, rest)
      BY <2>12, <2>13, <2>10 DEF Cut
    <2> QED
      BY <2>1, <2>14 DEF rest, all, messages
  <1> QED
    BY <1>3, <1>4

\* Without one messages are cut out of the new text between newlines.
LEMMA NewlineCut ==
    ASSUME NEW text \in Seq(Units), ~mode.regex
    PROVE  Cut(<<>> \o text, NewlineMessages(text), <<>>)
  <1> DEFINE cuts == {i \in 1..Len(text) :
                         \/ text[i].mark
                         \/ i > 1 /\ text[i - 1].mark
                         \/ (i - 1) % ReadBuffer = 0}
  <1>1. /\ cuts \subseteq 1..Len(text)
        /\ \A i \in 1..Len(text) : text[i].mark => i \in cuts
        /\ \A i \in 1..Len(text) : text[i].mark /\ i + 1 <= Len(text) => i + 1 \in cuts
    <2>1. cuts \subseteq 1..Len(text) /\ \A i \in 1..Len(text) : text[i].mark => i \in cuts
      OBVIOUS
    <2>2. ASSUME NEW i \in 1..Len(text), text[i].mark, i + 1 <= Len(text) PROVE i + 1 \in cuts
      <3>1. i + 1 \in 1..Len(text) /\ i + 1 > 1 /\ (i + 1) - 1 = i
        BY <2>2
      <3> QED
        BY <2>2, <3>1
    <2> QED
      BY <2>1, <2>2
  <1>2. NewlineMessages(text) = {m \in Parts(text, cuts) : ~m[1].mark}
    BY DEF NewlineMessages
  <1> HIDE DEF cuts
  <1>3. ASSUME NEW m \in NewlineMessages(text)
        PROVE  m \in Seq(Units) /\ m # <<>> /\ Clean(m) /\ ~m[1].mark /\ Within(m, text)
    <2>1. m \in Parts(text, cuts) /\ ~m[1].mark
      BY <1>2
    <2>0. PICK a \in 1..Len(text), b \in 1..Len(text) : Stretch(text, cuts, a, b, m)
      BY <2>1, PartsAre
    <2>2. /\ IsPart(text, cuts, a, b)
          /\ m \in Seq(Units)
          /\ Len(m) = b - a + 1
          /\ \A i \in 1..Len(m) : m[i] = text[a + i - 1]
      BY <2>0 DEF Stretch
    <2>3. a <= b /\ \A c \in cuts : ~(a < c /\ c <= b)
      BY <2>2 DEF IsPart
    <2>4. m # <<>>
      BY <2>2, <2>3
    <2>5. ASSUME NEW i \in 2..Len(m) PROVE ~m[i].mark
      <3>1. a + i - 1 \in 1..Len(text) /\ a < a + i - 1 /\ a + i - 1 <= b
        BY <2>2, <2>3
      <3>2. a + i - 1 \notin cuts
        BY <2>3, <3>1
      <3> QED
        BY <1>1, <2>2, <3>1, <3>2
    <2>6. Within(m, text)
      <3>1. a - 1 \in 0..(Len(text) - Len(m))
        BY <2>2, <2>3
      <3>2. ASSUME NEW i \in 1..Len(m) PROVE m[i] = text[(a - 1) + i]
        <4>1. (a - 1) + i = a + i - 1
          BY <2>2
        <4> QED
          BY <2>2, <4>1
      <3> QED
        BY <3>1, <3>2 DEF Within
    <2> QED
      BY <2>1, <2>2, <2>4, <2>5, <2>6 DEF Clean
  <1>4. ASSUME NEW i \in 1..Len(text), ~text[i].mark
        PROVE  text[i] \in UnitsOf(NewlineMessages(text))
    <2>1. PICK a \in 1..i, b \in i..Len(text) :
             /\ IsPart(text, cuts, a, b)
             /\ SubSeq(text, a, b) \in Parts(text, cuts)
             /\ SubSeq(text, a, b)[1] = text[a]
             /\ text[i] \in Range(SubSeq(text, a, b))
      BY <1>1, PartsCover
    <2>2. ~text[a].mark
      <3>1. SUFFICES ASSUME text[a].mark PROVE FALSE
        OBVIOUS
      <3>2. a < i
        BY <1>4, <3>1
      <3>3. a + 1 \in cuts
        BY <1>1, <3>1, <3>2
      <3> QED
        BY <2>1, <3>2, <3>3 DEF IsPart
    <2>3. SubSeq(text, a, b) \in NewlineMessages(text)
      BY <1>2, <2>1, <2>2
    <2> QED
      BY <2>1, <2>3, UnitOfMessage
  <1>5. <<>> \o text = text
    OBVIOUS
  <1>6. Clean(<<>>) /\ <<>> \in Seq(Units) /\ Len(<<>>) = 0
    BY DEF Clean
  <1>7. Len(text) \in 0..Len(text) /\ 0 = Len(text) - Len(text)
    OBVIOUS
  <1>8. \A i \in 1..Len(text) :
            text[i] \in UnitsOf(NewlineMessages(text)) \/ (text[i].mark /\ ~mode.regex)
    BY <1>4
  <1> QED
    BY <1>3, <1>5, <1>6, <1>7, <1>8 DEF Cut

\* What processBuffer does, in either mode.
LEMMA BufferCut ==
    ASSUME NEW buffer \in Seq(Units), NEW text \in Seq(Units), Clean(buffer),
           buffer # <<>> => mode.regex
    PROVE  Cut(buffer \o text, processBuffer(buffer, text).messages,
               processBuffer(buffer, text).buffer)
  <1>1. CASE mode.regex
    BY <1>1, RegexCut DEF processBuffer
  <1>2. CASE ~mode.regex
    <2>1. buffer = <<>>
      BY <1>2
    <2>2. processBuffer(buffer, text).messages = NewlineMessages(text)
          /\ processBuffer(buffer, text).buffer = <<>>
      BY <1>2, <2>1 DEF processBuffer
    <2> QED
      BY <1>2, <2>1, <2>2, NewlineCut
  <1> QED
    BY <1>1, <1>2

-----------------------------------------------------------------------------
(* Types *)

\* The path of a name is a key.
LEMMA KeyIsKey ==
    ASSUME NEW n \in Names
    PROVE  Key(n) \in Keys /\ Key(n).name = n
  BY DEF Key, Keys

\* The fields of an empty pointer.
LEMMA NullIs ==
    /\ Null \in Records
    /\ Null.file = NoFile /\ Null.pos = 0 /\ Null.buffer = <<>>
    /\ ~Null.firstRead /\ ~Null.bad
  <1>1. <<>> \in Seq(Units)
    OBVIOUS
  <1> QED
    BY <1>1 DEF Null, Records

\* Inode 1 exists, NoFile is none.
LEMMA NoFileIsNoFile ==
    NoFile \notin Files /\ 1 \in Files
  BY BoundsAssumption DEF NoFile, Files

\* What the watch sees of a change.
LEMMA SeenType ==
    ASSUME NEW type \in EventTypes, NEW n \in Names
    PROVE  Seen(type, n) \in Seq(Events)
  <1>1. Event(type, n) \in Events
    BY DEF Event, Events
  <1> QED
    BY <1>1 DEF Seen

\* What try_dequeue_bulk takes and leaves.
LEMMA TakenType ==
    ASSUME NEW q \in Seq(Events), q # <<>>
    PROVE  First(q) \in Seq(Events) /\ Rest(q) \in Seq(Events)
  <1> DEFINE n == Min({EventBulk, Len(q)})
  <1>1. n \in Nat /\ n <= Len(q)
    BY BoundsAssumption, MinOfTwo
  <1> HIDE DEF n
  <1>2. SubSeq(q, 1, n) \in Seq(Events) /\ SubSeq(q, n + 1, Len(q)) \in Seq(Events)
    <2>1. \A i \in 1..n : q[i] \in Events
      BY <1>1
    <2>2. \A i \in (n + 1)..Len(q) : q[i] \in Events
      BY <1>1
    <2>3. SubSeq(q, 1, n) \in Seq(Events)
      BY <1>1, <2>1, SubSeqProperties
    <2>4. SubSeq(q, n + 1, Len(q)) \in Seq(Events)
      BY <1>1, <2>2, SubSeqProperties
    <2> QED
      BY <2>3, <2>4
  <1> QED
    BY <1>2 DEF First, Rest, n

\* The event a thread is at.
LEMMA CurrentIs ==
    ASSUME TypeOK, NEW t \in Monitors, bulk[t] # <<>>
    PROVE  /\ Current(t) \in Events
           /\ Current(t).name \in Names
           /\ CurrentKey(t) \in Keys
           /\ CurrentKey(t).name = Current(t).name
  <1>1. bulk[t] \in Seq(Events)
    BY DEF TypeOK
  <1>2. Current(t) \in Events
    BY <1>1 DEF Current
  <1>3. Current(t).name \in Names
    BY <1>2 DEF Events
  <1> QED
    BY <1>2, <1>3, KeyIsKey DEF CurrentKey

\* An entry in process() is not touched by a thread that waited for it.
HoldsEntry ==
    \A t \in Monitors : pc[t] \in {"read", "save"} =>
        bulk[t] # <<>> /\ CurrentKey(t) \in DOMAIN table

\* The last part of the types, for the key a thread is at.
LEMMA TypeHoldsEntry ==
    TypeOK => HoldsEntry
  BY DEF TypeOK, HoldsEntry, CurrentKey, Current

\* The variables of the threads after an event is finished.
LEMMA FinishType ==
    ASSUME TypeOK, NEW t \in Monitors, bulk[t] # <<>>, Finish(t)
    PROVE  /\ bulk' \in [Monitors -> Seq(Events)]
           /\ pc' \in [Monitors -> {"run", "read", "save", "dead"}]
           /\ size' \in [Monitors -> Nat]
           /\ pc'[t] = "run"
           /\ \A s \in Monitors \ {t} :
                  pc'[s] = pc[s] /\ bulk'[s] = bulk[s] /\ size'[s] = size[s]
  <1>1. bulk[t] \in Seq(Events)
    BY DEF TypeOK
  <1>2. Tail(bulk[t]) \in Seq(Events)
    BY <1>1
  <1> QED
    BY <1>2 DEF TypeOK, Finish

\* A text of the file of a record.
LEMMA ReadType ==
    ASSUME NEW s \in Seq(Units), NEW p \in Nat, NEW n \in Nat
    PROVE  LET text == SubSeq(s, p + 1, Min({n, Len(s)})) IN
           /\ text \in Seq(Units)
           /\ p + Len(text) <= Len(s) \/ text = <<>>
           /\ \A i \in 1..Len(text) : text[i] = s[p + i]
  <1> DEFINE m == Min({n, Len(s)})
             text == SubSeq(s, p + 1, m)
  <1>1. m \in Nat /\ m <= Len(s)
    BY MinOfTwo
  <1> HIDE DEF m
  <1>2. \A i \in (p + 1)..m : s[i] \in Units
    BY <1>1
  <1>3. /\ text \in Seq(Units)
        /\ Len(text) = IF p + 1 <= m THEN m - (p + 1) + 1 ELSE 0
        /\ \A i \in 1..(m - (p + 1) + 1) : text[i] = s[(p + 1) + i - 1]
    BY <1>1, <1>2, SubSeqProperties
  <1> HIDE DEF text
  <1>4. /\ text \in Seq(Units)
        /\ p + Len(text) <= Len(s) \/ text = <<>>
        /\ \A i \in 1..Len(text) : text[i] = s[p + i]
    <2>1. CASE p + 1 <= m
      BY <1>1, <1>3, <2>1
    <2>2. CASE ~(p + 1 <= m)
      <3>1. Len(text) = 0
        BY <1>3, <2>2
      <3>2. text = <<>>
        BY <1>3, <3>1
      <3> QED
        BY <1>3, <3>1, <3>2
    <2> QED
      BY <2>1, <2>2
  <1> QED
    BY <1>4 DEF text, m

-----------------------------------------------------------------------------
(* The application and the file system *)

\* Troubles only add to each other.
LEMMA TroublesGrow ==
    ASSUME troubles \subseteq troubles'
    PROVE  /\ Truncated => Truncated'
           /\ Restarted => Restarted'
           /\ Kept' => Kept
  BY DEF Truncated, Restarted, Kept

\* The files and the messages stay.
LEMMA SentStays ==
    ASSUME SentInv, mode' = mode, content' = content, sent' = sent, Truncated => Truncated'
    PROVE  SentInv'
  <1>1. ASSUME NEW m \in sent, Followed(m) PROVE Followed(m)'
    BY <1>1 DEF Followed
  <1>2. ASSUME NEW m \in sent, Adjacent(m) PROVE Adjacent(m)'
    BY <1>2 DEF Adjacent, Within
  <1> QED
    BY <1>1, <1>2 DEF SentInv

\* Files that only grow disturb none of the records.
Grows ==
    /\ content' \in [Files -> Seq(Units)]
    /\ \A f \in Files :
           /\ Len(content[f]) <= Len(content'[f])
           /\ \A i \in 1..Len(content[f]) : content'[f][i] = content[f][i]
    /\ troubles \subseteq troubles'
    /\ UNCHANGED <<mode, posVars, up, threadVars, table, sentVars>>

\* A record keeps its place in a file that grows.
LEMMA PlacedStays ==
    ASSUME TypeOK, Grows, NEW r \in Records, Shaped(r), Placed(r)
    PROVE  Placed(r)'
  <1>1. r.file \in Files /\ r.buffer \in Seq(Units) /\ r.pos \in Int
    BY DEF Shaped, Records
  <1>2. content[r.file] \in Seq(Units) /\ content'[r.file] \in Seq(Units)
    BY <1>1 DEF TypeOK, Grows
  <1>3. /\ Len(content[r.file]) <= Len(content'[r.file])
        /\ \A i \in 1..Len(content[r.file]) : content'[r.file][i] = content[r.file][i]
    BY <1>1 DEF Grows
  <1>4. ASSUME NEW i \in 1..Len(r.buffer)
        PROVE  r.buffer[i] = content'[r.file][r.pos - Len(r.buffer) + i]
    <2>1. r.pos - Len(r.buffer) + i \in 1..Len(content[r.file])
      BY <1>1, <1>2 DEF Placed
    <2> QED
      BY <1>3, <2>1 DEF Placed
  <1> QED
    BY <1>1, <1>2, <1>3, <1>4 DEF Placed

\* What was handed on stays so when files grow.
LEMMA HandedStays ==
    ASSUME TypeOK, Grows, NEW f \in Files, NEW n \in Int, Handed(f, n)
    PROVE  Handed(f, n)'
  <1>1. content[f] \in Seq(Units) /\ content'[f] \in Seq(Units)
    BY DEF TypeOK, Grows
  <1>2. sent' = sent /\ mode' = mode
    BY DEF Grows, sentVars
  <1>3. \A i \in 1..n : content'[f][i] = content[f][i]
    BY <1>1 DEF Grows, Handed
  <1>4. n <= Len(content'[f])
    BY <1>1 DEF Grows, Handed
  <1> QED
    BY <1>2, <1>3, <1>4 DEF Handed, UnitsOf

\* All that concerns records and messages survives growth.
LEMMA GrowthKeeps ==
    ASSUME IInv, Grows
    PROVE  ShapesInv' /\ ReadingInv' /\ PlacesInv' /\ SentInv' /\ HandedInv'
  <1>0. /\ TypeOK /\ ShapesInv /\ ReadingInv /\ PlacesInv /\ SentInv /\ HandedInv
        /\ KeptInv /\ HoldsEntry
    BY TypeHoldsEntry DEF IInv
  <1>1. /\ mode' = mode /\ disk' = disk /\ loaded' = loaded /\ up' = up
        /\ bulk' = bulk /\ pc' = pc /\ size' = size /\ table' = table
        /\ sent' = sent
    BY DEF Grows, posVars, threadVars, sentVars
  <1>2. /\ Truncated => Truncated'
        /\ Restarted => Restarted'
        /\ Kept' => Kept
    BY TroublesGrow DEF Grows
  <1>3. ShapesInv'
    BY <1>0, <1>1 DEF ShapesInv, Shaped
  <1>4. ReadingInv'
    BY <1>0, <1>1 DEF ReadingInv, CurrentKey, Current
  <1>5. PlacesInv'
    <2>1. SUFFICES ASSUME ~Truncated PROVE PlacesInv'
      BY <1>2 DEF PlacesInv
    <2>2. ASSUME NEW k \in DOMAIN table, table[k] # Null PROVE Placed(table[k])'
      <3>1. table[k] \in Records /\ Shaped(table[k]) /\ Placed(table[k])
        BY <1>0, <2>1, <2>2 DEF TypeOK, ShapesInv, PlacesInv
      <3>2. Placed(table[k]) /\ Grows => \A r \in {table[k]} : Placed(r)'
        BY <1>0, <3>1, PlacedStays
      <3> QED
        BY <1>1, <3>1, <3>2 DEF Placed
    <2>3. ASSUME NEW t \in Monitors, pc[t] = "read"
          PROVE  size[t] <= Len(content'[table[CurrentKey(t)].file])
      <3> DEFINE f == table[CurrentKey(t)].file
      <3>1. CurrentKey(t) \in DOMAIN table /\ table[CurrentKey(t)] # Null
        BY <1>0, <2>3 DEF HoldsEntry, ReadingInv
      <3>2. f \in Files
        BY <1>0, <3>1 DEF ShapesInv, Shaped
      <3>3. size[t] <= Len(content[f])
        BY <1>0, <2>1, <2>3 DEF PlacesInv
      <3>4. Len(content[f]) <= Len(content'[f])
        BY <3>2 DEF Grows
      <3>5. Len(content[f]) \in Nat /\ Len(content'[f]) \in Nat /\ size[t] \in Nat
        BY <1>0, <3>2 DEF TypeOK, Grows
      <3> QED
        BY <3>3, <3>4, <3>5
    <2> QED
      BY <1>0, <1>1, <2>1, <2>2, <2>3 DEF PlacesInv, CurrentKey, Current
  <1>6. SentInv'
    <2>1. ASSUME NEW m \in sent, Followed(m) PROVE Followed(m)'
      <3>0. PICK f \in Files : \E i \in 1..(Len(content[f]) - 1) :
               content[f][i] = m[Len(m)] /\ content[f][i + 1].mark
        BY <2>1 DEF Followed
      <3>1. PICK i \in 1..(Len(content[f]) - 1) :
               content[f][i] = m[Len(m)] /\ content[f][i + 1].mark
        BY <3>0
      <3>2. Len(content[f]) \in Nat /\ Len(content'[f]) \in Nat
        BY <1>0 DEF TypeOK, Grows
      <3>3. i \in 1..Len(content[f]) /\ i + 1 \in 1..Len(content[f])
            /\ i \in 1..(Len(content'[f]) - 1)
        BY <3>1, <3>2 DEF Grows
      <3>4. content'[f][i] = content[f][i] /\ content'[f][i + 1] = content[f][i + 1]
        BY <3>3 DEF Grows
      <3> QED
        BY <3>1, <3>3, <3>4 DEF Followed
    <2>2. ASSUME NEW m \in sent, Adjacent(m) PROVE Adjacent(m)'
      <3>1. PICK f \in Files : Within(m, content[f])
        BY <2>2 DEF Adjacent
      <3>2. m \in Seq(Units) /\ content[f] \in Seq(Units) /\ content'[f] \in Seq(Units)
        BY <1>0 DEF TypeOK, Grows
      <3>3. /\ Len(content[f]) <= Len(content'[f])
            /\ \A i \in 1..Len(content[f]) : content'[f][i] = content[f][i]
        BY DEF Grows
      <3>4. PICK s \in Seq(Units) : s = content[f]
        BY <3>2
      <3>5. PICK t \in Seq(Units) : t = content'[f]
        BY <3>2
      <3>6. Within(s, t)
        <4>1. 0 \in 0..(Len(t) - Len(s))
          BY <3>3, <3>4, <3>5
        <4>2. \A i \in 1..Len(s) : s[i] = t[0 + i]
          BY <3>3, <3>4, <3>5
        <4> QED
          BY <4>1, <4>2 DEF Within
      <3>7. Within(m, t)
        BY <3>1, <3>2, <3>4, <3>6, WithinWithin
      <3> QED
        BY <3>5, <3>7 DEF Adjacent, Within
    <2> QED
      BY <1>0, <1>1, <1>2, <2>1, <2>2 DEF SentInv
  <1>7. HandedInv'
    <2>1. SUFFICES ASSUME ~mode.followOnly, ~Truncated PROVE HandedInv'
      BY <1>1, <1>2 DEF HandedInv
    <2>2. ~Restarted' => loaded' = Empty /\ (~up' => disk' = Empty)
      BY <1>0, <1>1, <1>2, <2>1 DEF HandedInv
    <2>3. ASSUME ~Restarted' \/ Kept', NEW k \in DOMAIN table, table[k] # Null
          PROVE  Handed(table[k].file, table[k].pos - Len(table[k].buffer))'
      <3> DEFINE f == table[k].file
                 n == table[k].pos - Len(table[k].buffer)
      <3>1. f \in Files /\ n \in Int
        BY <1>0, <2>3 DEF ShapesInv, Shaped, TypeOK, Records
      <3>2. Handed(f, n)
        BY <1>0, <1>2, <2>1, <2>3 DEF HandedInv
      <3> HIDE DEF f, n
      <3>3. \A g \in Files, i \in Int : Handed(g, i) => Handed(g, i)'
        BY <1>0, HandedStays
      <3> QED
        BY <1>1, <3>1, <3>2, <3>3 DEF Handed, f, n
    <2>4. ASSUME Kept'
          PROVE  /\ \A k \in DOMAIN disk : Handed(1, disk[k])'
                 /\ \A k \in DOMAIN loaded : Handed(1, loaded[k])'
      <3>1. \A i \in Int : Handed(1, i) => Handed(1, i)'
        BY <1>0, HandedStays, NoFileIsNoFile
      <3>2. /\ \A k \in DOMAIN disk : Handed(1, disk[k])
            /\ \A k \in DOMAIN loaded : Handed(1, loaded[k])
        BY <1>0, <1>2, <2>1, <2>4 DEF HandedInv
      <3>3. /\ \A k \in DOMAIN disk : disk[k] \in Int
            /\ \A k \in DOMAIN loaded : loaded[k] \in Int
        BY <1>0 DEF TypeOK
      <3> QED
        BY <1>1, <3>1, <3>2, <3>3 DEF Handed
    <2> QED
      BY <1>1, <2>2, <2>3, <2>4 DEF HandedInv
  <1> QED
    BY <1>3, <1>4, <1>5, <1>6, <1>7

\* The application appends.
LEMMA AppendStep ==
    ASSUME IInv, NEW isMark \in BOOLEAN, Append1(isMark)
    PROVE  IInv'
  <1> DEFINE u == [n |-> written + 1, mark |-> isMark]
  <1>0. TypeOK /\ UnitsInv /\ KeptInv
    BY DEF IInv
  <1>1. /\ written < UnitBound[mode] /\ written' = written + 1
        /\ content' = [content EXCEPT ![appFile] = Append(content[appFile], u)]
        /\ eventQueue' = eventQueue \o
               (IF Linked(appFile) THEN Seen("MODIFY", path[appFile]) ELSE <<>>)
        /\ UNCHANGED <<mode, dir, path, appFile, troubles, posVars, up, initQueue,
                       threadVars, table, sentVars>>
    BY DEF Append1, notify
  <1>2. /\ written \in Nat /\ mode \in Modes /\ UnitBound[mode] \in Nat
        /\ appFile \in Files /\ path[appFile] \in Names /\ eventQueue \in Seq(Events)
        /\ content \in [Files -> Seq(Units)]
    BY <1>0, BoundsAssumption DEF TypeOK
  <1>3. u \in Units
    BY <1>2 DEF Units
  <1>4. u.n = written + 1
    OBVIOUS
  <1> HIDE DEF u
  <1>5. /\ content' \in [Files -> Seq(Units)]
        /\ \A f \in Files \ {appFile} : content'[f] = content[f]
        /\ Len(content'[appFile]) = Len(content[appFile]) + 1
        /\ \A i \in 1..Len(content[appFile]) : content'[appFile][i] = content[appFile][i]
        /\ content'[appFile][Len(content[appFile]) + 1] = u
    <2>1. content[appFile] \in Seq(Units)
      BY <1>2
    <2>2. /\ Append(content[appFile], u) \in Seq(Units)
          /\ Len(Append(content[appFile], u)) = Len(content[appFile]) + 1
          /\ \A i \in 1..Len(content[appFile]) :
                 Append(content[appFile], u)[i] = content[appFile][i]
          /\ Append(content[appFile], u)[Len(content[appFile]) + 1] = u
      BY <1>3, <2>1, AppendProperties
    <2> QED
      BY <1>1, <1>2, <2>2
  <1>6. Grows
    <2>1. ASSUME NEW f \in Files
          PROVE  /\ Len(content[f]) <= Len(content'[f])
                 /\ \A i \in 1..Len(content[f]) : content'[f][i] = content[f][i]
      <3>1. Len(content[f]) \in Nat
        BY <1>2
      <3>2. CASE f = appFile
        BY <1>5, <3>1, <3>2
      <3>3. CASE f # appFile
        BY <1>5, <3>1, <3>3
      <3> QED
        BY <3>2, <3>3
    <2> QED
      BY <1>1, <1>5, <2>1 DEF Grows
  <1>7. TypeOK'
    <2>1. Seen("MODIFY", path[appFile]) \in Seq(Events)
      BY <1>2, SeenType DEF EventTypes
    <2>2. eventQueue' \in Seq(Events)
      <3>1. CASE Linked(appFile)
        BY <1>1, <1>2, <2>1, <3>1
      <3>2. CASE ~Linked(appFile)
        BY <1>1, <1>2, <3>2
      <3> QED
        BY <3>1, <3>2
    <2>3. written' \in 0..UnitBound[mode]
      BY <1>1, <1>2
    <2> QED
      BY <1>0, <1>1, <1>5, <2>2, <2>3 DEF TypeOK, posVars, threadVars, sentVars
  <1>8. UnitsInv'
    <2>1. ASSUME NEW f \in Files, NEW i \in 1..Len(content'[f])
          PROVE  \/ i \in 1..Len(content[f]) /\ content'[f][i] = content[f][i]
                 \/ f = appFile /\ i = Len(content[appFile]) + 1
                    /\ content'[f][i].n = written + 1
      <3>1. Len(content[f]) \in Nat
        BY <1>2
      <3>2. CASE f = appFile
        BY <1>4, <1>5, <3>1, <3>2
      <3>3. CASE f # appFile
        BY <1>5, <3>3
      <3> QED
        BY <3>2, <3>3
    <2>2. \A f \in Files : \A i \in 1..Len(content[f]) :
              content[f][i].n \in Nat /\ content[f][i].n <= written
      <3>1. \A f \in Files : \A i \in 1..Len(content[f]) : content[f][i] \in Units
        BY <1>2
      <3> QED
        BY <1>0, <3>1 DEF UnitsInv, Units
    <2>3. \A f \in Files : \A i \in 1..Len(content'[f]) : content'[f][i].n <= written'
      BY <1>1, <1>2, <2>1, <2>2, SMTT(30)
    <2>4. ASSUME NEW f \in Files, NEW g \in Files,
                 NEW i \in 1..Len(content'[f]), NEW j \in 1..Len(content'[g]),
                 content'[f][i].n = content'[g][j].n
          PROVE  f = g /\ i = j
      <3>1. CASE i \in 1..Len(content[f]) /\ j \in 1..Len(content[g])
        <4>1. content'[f][i] = content[f][i] /\ content'[g][j] = content[g][j]
          BY <1>6, <3>1 DEF Grows
        <4>2. content[f][i].n = content[g][j].n
          BY <2>4, <4>1
        <4> QED
          BY <1>0, <3>1, <4>2 DEF UnitsInv
      <3>2. CASE ~(i \in 1..Len(content[f])) /\ ~(j \in 1..Len(content[g]))
        BY <2>1, <3>2
      <3>3. CASE i \in 1..Len(content[f]) /\ ~(j \in 1..Len(content[g]))
        <4>1. content'[g][j].n = written + 1
          BY <2>1, <3>3
        <4>2. content'[f][i] = content[f][i]
          BY <1>6, <3>3 DEF Grows
        <4> QED
          <5>1. content[f][i].n = written + 1
            BY <2>4, <4>1, <4>2
          <5>2. content[f][i].n <= written
            BY <2>2, <3>3
          <5> QED
            BY <1>2, <5>1, <5>2
      <3>4. CASE ~(i \in 1..Len(content[f])) /\ j \in 1..Len(content[g])
        <4>1. content'[f][i].n = written + 1
          BY <2>1, <3>4
        <4>2. content'[g][j] = content[g][j]
          BY <1>6, <3>4 DEF Grows
        <4> QED
          <5>1. content[g][j].n = written + 1
            BY <2>4, <4>1, <4>2
          <5>2. content[g][j].n <= written
            BY <2>2, <3>4
          <5> QED
            BY <1>2, <5>1, <5>2
      <3> QED
        BY <3>1, <3>2, <3>3, <3>4
    <2> QED
      BY <2>3, <2>4 DEF UnitsInv
  <1>9. KeptInv'
    BY <1>0, <1>1 DEF KeptInv, Kept
  <1> QED
    BY <1>6, <1>7, <1>8, <1>9, GrowthKeeps DEF IInv

\* A file is renamed, created or unlinked.
Renames ==
    /\ dir' \in [Names -> Files \cup {NoFile}]
    /\ path' \in [Files -> Names]
    /\ appFile' \in Files
    /\ troubles \subseteq troubles' /\ troubles' \subseteq Troubles
    /\ ~Kept'
    /\ eventQueue' \in Seq(Events)
    /\ UNCHANGED <<mode, content, written, posVars, up, initQueue, threadVars,
                   table, sentVars>>

\* A change of names disturbs no record.
LEMMA RenamesStep ==
    ASSUME IInv, Renames
    PROVE  IInv'
  <1>1. TypeOK /\ UnitsInv
    BY DEF IInv
  <1>2. content \in [Files -> Seq(Units)]
    BY <1>1 DEF TypeOK
  <1>3. Grows
    BY <1>2 DEF Renames, Grows
  <1>4. TypeOK'
    BY <1>1 DEF TypeOK, Renames, posVars, threadVars, sentVars
  <1>5. UnitsInv'
    BY <1>1 DEF UnitsInv, Renames
  <1>6. KeptInv'
    BY DEF KeptInv, Renames
  <1> QED
    BY <1>3, <1>4, <1>5, <1>6, GrowthKeeps DEF IInv

\* Rotation by renaming.
LEMMA RenameStep ==
    ASSUME IInv, NEW a \in Names, NEW b \in Names, Rename(a, b)
    PROVE  IInv'
  <1>1. TypeOK
    BY DEF IInv
  <1>2. Seen("MOVE", a) \in Seq(Events) /\ Seen("CREATE", b) \in Seq(Events)
    BY SeenType DEF EventTypes
  <1>3. eventQueue' \in Seq(Events)
    BY <1>1, <1>2 DEF TypeOK, Rename, notify
  <1>4. /\ dir' \in [Names -> Files \cup {NoFile}]
        /\ path' \in [Files -> Names]
    BY <1>1 DEF TypeOK, Rename
  <1>5. /\ troubles \subseteq troubles' /\ troubles' \subseteq Troubles
        /\ ~Kept'
    BY <1>1 DEF TypeOK, Rename, Trouble, Troubles, Kept
  <1>6. appFile' \in Files
    BY <1>1 DEF TypeOK, Rename
  <1>7. Renames
    BY <1>3, <1>4, <1>5, <1>6 DEF Renames, Rename
  <1> QED
    BY <1>7, RenamesStep

\* A file is removed.
LEMMA UnlinkStep ==
    ASSUME IInv, NEW n \in Names, Unlink(n)
    PROVE  IInv'
  <1>1. TypeOK
    BY DEF IInv
  <1>2. Seen("DELETE", n) \in Seq(Events)
    BY SeenType DEF EventTypes
  <1>3. eventQueue' \in Seq(Events)
    BY <1>1, <1>2 DEF TypeOK, Unlink, notify
  <1>4. /\ dir' \in [Names -> Files \cup {NoFile}]
        /\ path' \in [Files -> Names] /\ appFile' \in Files
    BY <1>1 DEF TypeOK, Unlink
  <1>5. /\ troubles \subseteq troubles' /\ troubles' \subseteq Troubles
        /\ ~Kept'
    BY <1>1 DEF TypeOK, Unlink, Trouble, Troubles, Kept
  <1>6. Renames
    BY <1>3, <1>4, <1>5 DEF Renames, Unlink
  <1> QED
    BY <1>6, RenamesStep

\* The application creates its log anew, which takes an earlier rename or removal.
LEMMA ReopenStep ==
    ASSUME IInv, Reopen
    PROVE  IInv'
  <1>1. TypeOK /\ KeptInv
    BY DEF IInv
  <1>2. Seen("CREATE", Live) \in Seq(Events)
    BY SeenType, NamesAssumption DEF EventTypes
  <1>3. eventQueue' \in Seq(Events)
    BY <1>1, <1>2 DEF TypeOK, Reopen, notify
  <1>4. appFile' \in Files
    BY <1>1, BoundsAssumption DEF TypeOK, Reopen, Files
  <1>5. /\ dir' \in [Names -> Files \cup {NoFile}]
        /\ path' \in [Files -> Names]
    BY <1>1, <1>4, NamesAssumption DEF TypeOK, Reopen
  <1>6. ~Kept'
    <2>1. dir[Live] = NoFile /\ troubles' = troubles
      BY DEF Reopen
    <2>2. SUFFICES ASSUME Kept PROVE FALSE
      BY <2>1 DEF Kept
    <2>3. dir[Live] = 1
      BY <1>1, <2>2, NamesAssumption DEF KeptInv
    <2> QED
      BY <2>1, <2>3, NoFileIsNoFile
  <1>7. Renames
    BY <1>1, <1>3, <1>4, <1>5, <1>6 DEF Renames, Reopen, TypeOK
  <1> QED
    BY <1>7, RenamesStep

\* Once something was truncated little is left to keep.
LEMMA TruncateStep ==
    ASSUME IInv, Truncate
    PROVE  IInv'
  <1>1. TypeOK /\ UnitsInv /\ ShapesInv /\ ReadingInv /\ SentInv /\ KeptInv
    BY DEF IInv
  <1>2. /\ content' = [content EXCEPT ![appFile] = <<>>]
        /\ troubles' = troubles \cup {"truncate"}
        /\ eventQueue' = eventQueue \o Seen("MODIFY", path[appFile])
        /\ UNCHANGED <<mode, dir, path, written, appFile, posVars, up, initQueue,
                       threadVars, table, sentVars>>
    BY DEF Truncate, notify, Trouble
  <1>3. /\ appFile \in Files /\ path[appFile] \in Names /\ eventQueue \in Seq(Events)
        /\ content \in [Files -> Seq(Units)]
    BY <1>1 DEF TypeOK
  <1>4. eventQueue' \in Seq(Events)
    BY <1>2, <1>3, SeenType DEF EventTypes
  <1>5. TypeOK'
    BY <1>1, <1>2, <1>3, <1>4 DEF TypeOK, Troubles, posVars, threadVars, sentVars
  <1>6. \A f \in Files : content'[f] = content[f] \/ content'[f] = <<>>
    BY <1>2, <1>3
  <1>7. UnitsInv'
    <2>1. \A f \in Files : \A i \in 1..Len(content'[f]) :
              i \in 1..Len(content[f]) /\ content'[f][i] = content[f][i]
      BY <1>6
    <2> QED
      BY <1>1, <1>2, <2>1 DEF UnitsInv
  <1>8. Truncated' /\ (Kept' => Kept)
    BY <1>2 DEF Truncated, Kept
  <1>9. PlacesInv' /\ HandedInv'
    BY <1>8 DEF PlacesInv, HandedInv
  <1>10. SentInv'
    BY <1>1, <1>2, <1>8 DEF SentInv, sentVars
  <1>11. ShapesInv' /\ ReadingInv'
    BY <1>1, <1>2
       DEF ShapesInv, Shaped, ReadingInv, CurrentKey, Current, threadVars
  <1>12. KeptInv'
    BY <1>1, <1>2, <1>8 DEF KeptInv
  <1> QED
    BY <1>5, <1>7, <1>9, <1>10, <1>11, <1>12 DEF IInv

-----------------------------------------------------------------------------
(* The invariant, record by record *)

\* Where the positions of records are known to be right.
Covered == ~mode.followOnly /\ ~Truncated /\ (~Restarted \/ Kept)

Sound(r) ==
    /\ Shaped(r)
    /\ Truncated \/ Placed(r)
    /\ Kept => r.file = 1
    /\ Covered => Handed(r.file, r.pos - Len(r.buffer))

SoundPosition(n) ==
    /\ Truncated \/ n >= 0
    /\ ~mode.followOnly /\ ~Truncated /\ Kept => Handed(1, n)

\* The rest of the invariant.
DirInv == Kept => dir = [n \in Names |-> IF n = Live THEN 1 ELSE NoFile]

SizesInv ==
    \A t \in Monitors : pc[t] = "read" =>
        Truncated \/ size[t] <= Len(content[table[CurrentKey(t)].file])

FreshInv ==
    ~mode.followOnly /\ ~Truncated /\ ~Restarted =>
        loaded = Empty /\ (~up => disk = Empty)

RecordsSound == \A k \in DOMAIN table : table[k] = Null \/ Sound(table[k])
DiskSound == \A k \in DOMAIN disk : SoundPosition(disk[k])
LoadedSound == \A k \in DOMAIN loaded : SoundPosition(loaded[k])

Grouped ==
    /\ TypeOK /\ UnitsInv /\ ReadingInv /\ SentInv /\ DirInv /\ SizesInv /\ FreshInv
    /\ RecordsSound /\ DiskSound /\ LoadedSound

\* Both forms of the invariant are the same.
LEMMA Regrouped ==
    IInv <=> Grouped
  <1>1. ASSUME IInv PROVE Grouped
    <2>1. RecordsSound
      BY <1>1 DEF IInv, RecordsSound, Sound, ShapesInv, PlacesInv, KeptInv, HandedInv,
                  Covered
    <2>2. DiskSound /\ LoadedSound
      BY <1>1 DEF IInv, DiskSound, LoadedSound, SoundPosition, PlacesInv, HandedInv
    <2>3. DirInv /\ SizesInv /\ FreshInv
      BY <1>1 DEF IInv, DirInv, SizesInv, FreshInv, PlacesInv, KeptInv, HandedInv
    <2> QED
      BY <1>1, <2>1, <2>2, <2>3 DEF IInv, Grouped
  <1>2. ASSUME Grouped PROVE IInv
    <2>1. ShapesInv
      BY <1>2 DEF Grouped, RecordsSound, Sound, ShapesInv
    <2>2. PlacesInv
      BY <1>2 DEF Grouped, RecordsSound, DiskSound, LoadedSound, Sound, SoundPosition,
                  PlacesInv, SizesInv
    <2>3. KeptInv
      BY <1>2 DEF Grouped, RecordsSound, Sound, KeptInv, DirInv
    <2>4. HandedInv
      BY <1>2 DEF Grouped, RecordsSound, DiskSound, LoadedSound, Sound, SoundPosition,
                  FreshInv, HandedInv, Covered
    <2> QED
      BY <1>2, <2>1, <2>2, <2>3, <2>4 DEF IInv, Grouped
  <1> QED
    BY <1>1, <1>2

\* Handing on messages takes nothing from a sound record.
Talks == UNCHANGED <<mode, content, troubles>> /\ sent \subseteq sent'

\* More messages: what was handed on stays so.
LEMMA TalkKeepsHanded ==
    ASSUME Talks, NEW f, NEW n, Handed(f, n)
    PROVE  Handed(f, n)'
  <1>1. UnitsOf(sent) \subseteq UnitsOf(sent)'
    BY DEF Talks, UnitsOf
  <1> QED
    BY <1>1 DEF Talks, Handed

\* More messages: a sound record stays sound.
LEMMA TalkKeepsSound ==
    ASSUME Talks, NEW r, Sound(r)
    PROVE  Sound(r)'
  <1>1. /\ Truncated' = Truncated /\ Kept' = Kept /\ Covered' = Covered /\ mode' = mode
        /\ content' = content
    BY DEF Talks, Truncated, Kept, Covered, Restarted
  <1>2. Shaped(r)'
    BY <1>1 DEF Sound, Shaped
  <1>3. Placed(r) => Placed(r)'
    BY <1>1 DEF Placed
  <1>4. Covered => Handed(r.file, r.pos - Len(r.buffer))'
    BY TalkKeepsHanded DEF Sound
  <1> QED
    BY <1>1, <1>2, <1>3, <1>4 DEF Sound

\* More messages: a sound position stays sound.
LEMMA TalkKeepsPosition ==
    ASSUME Talks, NEW n, SoundPosition(n)
    PROVE  SoundPosition(n)'
  <1>1. Truncated' = Truncated /\ Kept' = Kept /\ mode' = mode
    BY DEF Talks, Truncated, Kept
  <1>2. Handed(1, n) => Handed(1, n)'
    BY TalkKeepsHanded
  <1> QED
    BY <1>1, <1>2 DEF SoundPosition

\* A position that is saved is sound.
LEMMA SavedIsSound ==
    ASSUME NEW r \in Records, Sound(r)
    PROVE  SoundPosition(r.pos - Len(r.buffer))
  <1>1. Truncated \/ r.pos - Len(r.buffer) >= 0
    BY DEF Sound, Placed, Records
  <1>2. ~mode.followOnly /\ ~Truncated /\ Kept => Handed(1, r.pos - Len(r.buffer))
    BY DEF Sound, Covered
  <1> QED
    BY <1>1, <1>2 DEF SoundPosition

\* The same after a step.
LEMMA SavedSoundNext ==
    ASSUME NEW r \in Records, Sound(r)'
    PROVE  SoundPosition(r.pos - Len(r.buffer))'
  <1>1. Truncated' \/ r.pos - Len(r.buffer) >= 0
    BY DEF Sound, Placed, Records
  <1>2. ~mode'.followOnly /\ ~Truncated' /\ Kept' => Handed(1, r.pos - Len(r.buffer))'
    BY DEF Sound, Covered
  <1> QED
    BY <1>1, <1>2 DEF SoundPosition

\* The start of every file has been handed on.
LEMMA NothingHanded ==
    ASSUME TypeOK, NEW f \in Files
    PROVE  Handed(f, 0) /\ SoundPosition(0)
  <1>1. \A g \in Files : Len(content[g]) \in Nat
    BY DEF TypeOK
  <1>2. \A g \in Files : Handed(g, 0)
    BY <1>1 DEF Handed
  <1> QED
    BY <1>2, NoFileIsNoFile DEF SoundPosition

-----------------------------------------------------------------------------
(* Start and end of the process *)

\* The first state.
LEMMA InitIInv ==
    Init => IInv
  <1> SUFFICES ASSUME Init PROVE IInv
    OBVIOUS
  <1>1. <<>> \in Seq(Units) /\ <<>> \in Seq(Events)
    OBVIOUS
  <1>2. TypeOK
    <2>1. mode \in Modes /\ UnitBound[mode] \in Nat /\ written \in 0..UnitBound[mode]
      BY BoundsAssumption DEF Init
    <2>2. /\ dir \in [Names -> Files \cup {NoFile}]
          /\ path \in [Files -> Names]
          /\ content \in [Files -> Seq(Units)]
          /\ appFile \in Files
          /\ troubles \subseteq Troubles
      BY <1>1, NoFileIsNoFile, NamesAssumption DEF Init
    <2>3. DOMAIN disk = {} /\ DOMAIN loaded = {} /\ DOMAIN table = {}
      BY DEF Init, Empty
    <2>4. /\ up \in BOOLEAN
          /\ initQueue \in Seq(Events) /\ eventQueue \in Seq(Events)
          /\ bulk \in [Monitors -> Seq(Events)]
          /\ pc \in [Monitors -> {"run", "read", "save", "dead"}]
          /\ size \in [Monitors -> Nat]
          /\ \A t \in Monitors : pc[t] = "run"
          /\ sent \subseteq Seq(Units) /\ again \subseteq Units
      BY <1>1 DEF Init
    <2> QED
      BY <2>1, <2>2, <2>3, <2>4 DEF TypeOK
  <1>3. \A f \in Files : Len(content[f]) = 0
    BY DEF Init
  <1>4. UnitsInv
    BY <1>3 DEF UnitsInv
  <1>5. ReadingInv /\ SentInv /\ DirInv /\ SizesInv /\ FreshInv
    BY DEF Init, ReadingInv, SentInv, DirInv, SizesInv, FreshInv
  <1>6. RecordsSound /\ DiskSound /\ LoadedSound
    BY DEF Init, Empty, RecordsSound, DiskSound, LoadedSound
  <1> QED
    BY <1>2, <1>4, <1>5, <1>6, Regrouped DEF Grouped

\* The scan fills the queue with events.
LEMMA ScanType ==
    ASSUME TypeOK, Scan
    PROVE  initQueue' \in Seq(Events)
  <1> DEFINE found == {n \in Watched : dir[n] \in Files}
  <1>1. found \subseteq Names
    BY NamesAssumption DEF Watched
  <1>2. Cardinality(found) \in Nat
    BY <1>1, NamesAssumption, FS_Subset, FS_CardinalityType
  <1> HIDE DEF found
  <1>3. PICK s \in [1..Cardinality(found) -> found] :
            initQueue' = [i \in DOMAIN s |-> Event("INIT", s[i])]
    BY DEF Scan, found
  <1>4. \A i \in 1..Cardinality(found) : Event("INIT", s[i]) \in Events
    BY <1>1 DEF Event, Events, EventTypes
  <1>5. initQueue' = [i \in 1..Cardinality(found) |-> Event("INIT", s[i])]
    BY <1>3
  <1> QED
    BY <1>2, <1>4, <1>5

\* The start loads what is on disk.
LEMMA StartStep ==
    ASSUME IInv, Start
    PROVE  IInv'
  <1>0. Grouped
    BY Regrouped
  <1>1. TypeOK /\ UnitsInv /\ ReadingInv /\ SentInv /\ DirInv /\ SizesInv /\ FreshInv
        /\ RecordsSound /\ DiskSound /\ LoadedSound
    BY <1>0 DEF Grouped
  <1>2. /\ ~up /\ up' = TRUE /\ loaded' = disk /\ disk' = Empty
        /\ mode' = mode /\ dir' = dir /\ path' = path /\ content' = content
        /\ written' = written /\ appFile' = appFile /\ troubles' = troubles
        /\ eventQueue' = eventQueue /\ bulk' = bulk /\ pc' = pc /\ size' = size
        /\ table' = table /\ sent' = sent /\ again' = again
    BY DEF Start, LoadPositions, fsVars, threadVars, sentVars
  <1>3. initQueue' \in Seq(Events)
    BY <1>1, ScanType DEF Start
  <1>4. DOMAIN disk' = {}
    BY <1>2 DEF Empty
  <1>5. TypeOK'
    BY <1>1, <1>2, <1>3, <1>4 DEF TypeOK
  <1>6. Talks
    BY <1>2 DEF Talks
  <1>7. UnitsInv' /\ ReadingInv' /\ SizesInv'
    BY <1>1, <1>2
       DEF UnitsInv, ReadingInv, SizesInv, CurrentKey, Current, Truncated
  <1>8. SentInv' /\ DirInv'
    <2>1. Truncated' = Truncated
      BY <1>2 DEF Truncated
    <2>2. SentInv'
      BY <1>1, <1>2, <2>1, SentStays
    <2> QED
      BY <1>1, <1>2, <2>2 DEF DirInv, Kept
  <1>9. FreshInv'
    BY <1>1, <1>2 DEF FreshInv, Truncated, Restarted
  <1>10. RecordsSound'
    <2>1. \A k \in DOMAIN table : Sound(table[k]) => \A r \in {table[k]} : Sound(r)'
      BY <1>6, TalkKeepsSound
    <2> QED
      BY <1>1, <1>2, <2>1 DEF RecordsSound
  <1>11. LoadedSound'
    <2>1. \A k \in DOMAIN disk : \A n \in {disk[k]} : SoundPosition(n)'
      BY <1>1, <1>6, TalkKeepsPosition DEF DiskSound
    <2> QED
      BY <1>2, <2>1 DEF LoadedSound
  <1>12. DiskSound'
    BY <1>4 DEF DiskSound
  <1>13. Grouped'
    BY <1>5, <1>7, <1>8, <1>9, <1>10, <1>11, <1>12 DEF Grouped
  <1> QED
    BY <1>13, Regrouped, PTL

\* When the process ends, the files and the positions on disk are what is left.
LEMMA EndsStep ==
    ASSUME IInv, ProcessEnds, troubles \subseteq troubles', troubles' \subseteq Troubles,
           Restarted', DOMAIN disk' \subseteq Keys,
           \A k \in DOMAIN disk' :
               \/ k \in DOMAIN disk /\ disk'[k] = disk[k]
               \/ disk'[k] = 0
    PROVE  IInv'
  <1>0. Grouped
    BY Regrouped
  <1>1. TypeOK /\ UnitsInv /\ SentInv /\ DirInv /\ DiskSound
    BY <1>0 DEF Grouped
  <1>2. /\ up' = FALSE /\ loaded' = Empty /\ table' = Empty
        /\ mode' = mode /\ dir' = dir /\ path' = path /\ content' = content
        /\ written' = written /\ appFile' = appFile
        /\ sent' = sent /\ again' = again
        /\ initQueue' = <<>> /\ eventQueue' = <<>>
        /\ bulk' = [t \in Monitors |-> <<>>]
        /\ pc' = [t \in Monitors |-> "run"]
        /\ size' = [t \in Monitors |-> 0]
    BY DEF ProcessEnds, fsVars, sentVars
  <1>3. /\ Truncated => Truncated'
        /\ Kept' => Kept
    BY TroublesGrow
  <1>4. DOMAIN loaded' = {} /\ DOMAIN table' = {}
    BY <1>2 DEF Empty
  <1>5. \A k \in DOMAIN disk' : disk'[k] \in Int
    BY <1>1 DEF TypeOK
  <1>6. TypeOK'
    <2>1. \A t \in Monitors : pc'[t] = "run"
      BY <1>2
    <2>2. /\ bulk' \in [Monitors -> Seq(Events)]
          /\ pc' \in [Monitors -> {"run", "read", "save", "dead"}]
          /\ size' \in [Monitors -> Nat]
          /\ initQueue' \in Seq(Events) /\ eventQueue' \in Seq(Events)
      BY <1>2
    <2> QED
      BY <1>1, <1>2, <1>4, <1>5, <2>1, <2>2 DEF TypeOK
  <1>7. UnitsInv'
    BY <1>1, <1>2 DEF UnitsInv
  <1>8. ReadingInv' /\ SizesInv'
    BY <1>2 DEF ReadingInv, SizesInv
  <1>9. SentInv'
    BY <1>1, <1>2, <1>3, SentStays
  <1>10. DirInv' /\ FreshInv'
    BY <1>1, <1>2, <1>3 DEF DirInv, FreshInv
  <1>11. RecordsSound' /\ LoadedSound'
    BY <1>4 DEF RecordsSound, LoadedSound
  <1>12. DiskSound'
    <2>1. \A n : SoundPosition(n) => SoundPosition(n)'
      BY <1>2, <1>3 DEF SoundPosition, Handed, UnitsOf
    <2>2. SoundPosition(0)
      BY <1>1, NothingHanded, NoFileIsNoFile
    <2>3. \A k \in DOMAIN disk' : SoundPosition(disk'[k])
      BY <1>1, <2>2 DEF DiskSound
    <2>4. \A k \in DOMAIN disk' : \A n \in {disk'[k]} : SoundPosition(n)'
      BY <2>1, <2>3
    <2> QED
      BY <2>4 DEF DiskSound
  <1>13. Grouped'
    BY <1>6, <1>7, <1>8, <1>9, <1>10, <1>11, <1>12 DEF Grouped
  <1> QED
    BY <1>13, Regrouped, PTL

\* The end of the process adds a stop or a crash, and perhaps positions forgotten.
LEMMA EndTroubles ==
    ASSUME TypeOK, NEW kind \in {"stop", "crash"}, Ends(kind)
    PROVE  /\ troubles \subseteq troubles' /\ troubles' \subseteq Troubles
           /\ Restarted' /\ kind \in troubles'
           /\ troubles' \subseteq troubles \cup {kind, "forget"}
           /\ Unsaved = {} \/ "forget" \in troubles'
  <1>1. troubles' = troubles \cup {kind} \cup (IF Unsaved = {} THEN {} ELSE {"forget"})
    BY DEF Ends
  <1> QED
    BY <1>1 DEF TypeOK, Troubles, Restarted

\* A stop between two bulks.
LEMMA StopStep ==
    ASSUME IInv, Stop
    PROVE  IInv'
  <1>1. TypeOK
    BY DEF IInv
  <1>2. /\ ProcessEnds
        /\ Ends("stop") /\ disk' = disk
    BY DEF Stop
  <1>3. troubles \subseteq troubles' /\ troubles' \subseteq Troubles /\ Restarted'
        /\ DOMAIN disk' \subseteq Keys
    BY <1>1, <1>2, EndTroubles DEF TypeOK
  <1> QED
    BY <1>2, <1>3, EndsStep

\* A crash, perhaps inside a save, which leaves an empty position file.
LEMMA CrashStep ==
    ASSUME IInv, Crash
    PROVE  IInv'
  <1>1. TypeOK
    BY DEF IInv
  <1>2. ProcessEnds /\ Ends("crash")
    BY DEF Crash
  <1>3. troubles \subseteq troubles' /\ troubles' \subseteq Troubles /\ Restarted'
    BY <1>1, <1>2, EndTroubles
  <1>4. /\ DOMAIN disk' \subseteq Keys
        /\ \A k \in DOMAIN disk' :
               \/ k \in DOMAIN disk /\ disk'[k] = disk[k]
               \/ disk'[k] = 0
    <2>1. CASE disk' = disk
      BY <1>1, <2>1 DEF TypeOK
    <2>2. CASE disk' # disk
      <3>1. PICK t \in Monitors : pc[t] = "save" /\ disk' = With(disk, Key(Head(bulk[t]).name), 0)
        BY <2>2 DEF Crash
      <3>2. bulk[t] # <<>>
        BY <1>1, <3>1, TypeHoldsEntry DEF HoldsEntry
      <3>3. CurrentKey(t) \in Keys
        BY <1>1, <3>2, CurrentIs
      <3>4. disk' = With(disk, CurrentKey(t), 0)
        BY <3>1 DEF CurrentKey, Current
      <3>5. /\ DOMAIN disk' = DOMAIN disk \cup {CurrentKey(t)}
            /\ disk'[CurrentKey(t)] = 0
            /\ \A x \in DOMAIN disk : x # CurrentKey(t) => disk'[x] = disk[x]
        BY <3>4 DEF With
      <3> QED
        BY <1>1, <3>3, <3>5 DEF TypeOK
    <2> QED
      BY <2>1, <2>2
  <1> QED
    BY <1>2, <1>3, <1>4, EndsStep

\* The process dies of an empty pointer.
LEMMA EmptyPointerStep ==
    ASSUME IInv, EmptyPointer
    PROVE  IInv'
  <1>1. TypeOK
    BY DEF IInv
  <1>2. /\ ProcessEnds
        /\ Ends("crash") /\ disk' = disk
    BY DEF EmptyPointer
  <1>3. troubles \subseteq troubles' /\ troubles' \subseteq Troubles /\ Restarted'
        /\ DOMAIN disk' \subseteq Keys
    BY <1>1, <1>2, EndTroubles DEF TypeOK
  <1> QED
    BY <1>2, <1>3, EndsStep

-----------------------------------------------------------------------------
(* The monitor threads *)

\* A thread's step hands on messages, changes the table and the positions on
\* disk, and leaves the files and what is loaded alone.
Works ==
    /\ UNCHANGED <<mode, fsVars, troubles, loaded, up>>
    /\ sent \subseteq sent'

\* What is left to show for such a step.
Sane ==
    /\ TypeOK' /\ SentInv' /\ ReadingInv' /\ SizesInv'
    /\ RecordsSound' /\ DiskSound'

\* What a thread's step has to show is enough.
LEMMA WorkStep ==
    ASSUME IInv, up, Works, Sane
    PROVE  IInv'
  <1>0. Grouped
    BY Regrouped
  <1>1. UnitsInv /\ DirInv /\ FreshInv /\ LoadedSound
    BY <1>0 DEF Grouped
  <1>2. /\ mode' = mode /\ dir' = dir /\ content' = content /\ written' = written
        /\ troubles' = troubles /\ loaded' = loaded /\ up' = up
    BY DEF Works, fsVars
  <1>3. UnitsInv'
    BY <1>1, <1>2 DEF UnitsInv
  <1>4. DirInv' /\ FreshInv'
    BY <1>1, <1>2 DEF DirInv, FreshInv, Kept, Truncated, Restarted
  <1>5. LoadedSound'
    <2>1. Talks
      BY <1>2 DEF Talks, Works
    <2>2. \A k \in DOMAIN loaded : \A n \in {loaded[k]} : SoundPosition(n)'
      BY <1>1, <2>1, TalkKeepsPosition DEF LoadedSound
    <2> QED
      BY <1>2, <2>2 DEF LoadedSound
  <1>6. Grouped'
    BY <1>3, <1>4, <1>5 DEF Grouped, Sane
  <1> QED
    BY <1>6, Regrouped, PTL

\* Entries that are kept stay sound.
LEMMA KeptEntries ==
    ASSUME IInv, Works, NEW k \in DOMAIN table, NEW l \in DOMAIN table',
           table'[l] = table[k]
    PROVE  table'[l] = Null \/ Sound(table[l])'
  <1>1. Grouped
    BY Regrouped
  <1>2. Talks
    BY DEF Works, fsVars, Talks
  <1>3. table[k] = Null \/ Sound(table[k])
    BY <1>1 DEF Grouped, RecordsSound
  <1>4. Sound(table[k]) => \A r \in {table[k]} : Sound(r)'
    BY <1>2, TalkKeepsSound
  <1>5. \A r \in {table'[l]} : Sound(r)' => Sound(table[l])'
    OBVIOUS
  <1> QED
    BY <1>3, <1>4, <1>5

\* Positions that are kept stay sound.
LEMMA KeptPositions ==
    ASSUME IInv, Works, NEW k \in DOMAIN disk, disk'[k] = disk[k]
    PROVE  SoundPosition(disk[k])'
  <1>1. Grouped
    BY Regrouped
  <1>2. Talks
    BY DEF Works, fsVars, Talks
  <1>3. SoundPosition(disk[k])
    BY <1>1 DEF Grouped, DiskSound
  <1>4. \A r \in {disk[k]} : SoundPosition(r)'
    BY <1>2, <1>3, TalkKeepsPosition
  <1> QED
    BY <1>4

\* A thread's step does not touch what others hold, and if the thread is inside
\* process() afterwards it holds its own entry.
Yields(t) ==
    /\ \A s \in Monitors \ {t} :
           /\ pc'[s] = pc[s] /\ bulk'[s] = bulk[s] /\ size'[s] = size[s]
           /\ pc[s] \in {"read", "save"} =>
                  /\ CurrentKey(s) \in DOMAIN table'
                  /\ table'[CurrentKey(s)].file = table[CurrentKey(s)].file
                  /\ table[CurrentKey(s)] # Null => table'[CurrentKey(s)] # Null
                  /\ table[CurrentKey(s)].firstRead => table'[CurrentKey(s)].firstRead
    /\ pc'[t] \in {"read", "save"} =>
           /\ bulk'[t] = bulk[t] /\ bulk[t] # <<>>
           /\ CurrentKey(t) \in DOMAIN table'
           /\ table'[CurrentKey(t)] # Null
           /\ pc'[t] = "read" =>
                  /\ Truncated \/ size'[t] <= Len(content[table'[CurrentKey(t)].file])
                  /\ mode.followOnly => table'[CurrentKey(t)].firstRead

\* Every thread inside process() still has its entry.
LEMMA OthersHold ==
    ASSUME IInv, Works, NEW t \in Monitors, Yields(t)
    PROVE  HoldsEntry' /\ ReadingInv' /\ SizesInv'
  <1>0. Grouped /\ TypeOK
    BY Regrouped DEF Grouped
  <1>1. HoldsEntry /\ ReadingInv /\ SizesInv
    BY <1>0, TypeHoldsEntry DEF Grouped
  <1>2. content' = content /\ (Truncated => Truncated') /\ mode' = mode
    BY DEF Works, fsVars, Truncated
  <1>3. ASSUME NEW s \in Monitors, pc'[s] \in {"read", "save"}
        PROVE  /\ bulk'[s] # <<>>
               /\ CurrentKey(s)' \in DOMAIN table'
               /\ table'[CurrentKey(s)'] # Null
               /\ pc'[s] = "read" =>
                      /\ Truncated' \/ size'[s] <= Len(content'[table'[CurrentKey(s)'].file])
                      /\ mode'.followOnly => table'[CurrentKey(s)'].firstRead
    <2>1. bulk'[s] = bulk[s]
      BY <1>3 DEF Yields
    <2>2. CurrentKey(s)' = CurrentKey(s)
      BY <2>1 DEF CurrentKey, Current
    <2>3. CASE s = t
      BY <1>2, <1>3, <2>1, <2>2, <2>3 DEF Yields
    <2>4. CASE s # t
      <3>1. /\ pc'[s] = pc[s] /\ size'[s] = size[s]
            /\ CurrentKey(s) \in DOMAIN table'
            /\ table'[CurrentKey(s)].file = table[CurrentKey(s)].file
            /\ table[CurrentKey(s)] # Null => table'[CurrentKey(s)] # Null
            /\ table[CurrentKey(s)].firstRead => table'[CurrentKey(s)].firstRead
        BY <1>3, <2>4 DEF Yields
      <3> QED
        BY <1>1, <1>2, <1>3, <2>1, <2>2, <3>1 DEF HoldsEntry, ReadingInv, SizesInv
    <2> QED
      BY <2>3, <2>4
  <1>4. HoldsEntry'
    BY <1>3 DEF HoldsEntry
  <1>5. ReadingInv'
    BY <1>3 DEF ReadingInv
  <1>6. SizesInv'
    BY <1>3 DEF SizesInv
  <1> QED
    BY <1>4, <1>5, <1>6

\* The types, from those of what a thread changes.
Typed ==
    /\ initQueue' \in Seq(Events) /\ eventQueue' \in Seq(Events)
    /\ bulk' \in [Monitors -> Seq(Events)]
    /\ pc' \in [Monitors -> {"run", "read", "save", "dead"}]
    /\ size' \in [Monitors -> Nat]
    /\ DOMAIN table' \subseteq Keys
    /\ \A k \in DOMAIN table' : table'[k] \in Records
    /\ DOMAIN disk' \subseteq Keys
    /\ \A k \in DOMAIN disk' : disk'[k] \in Int
    /\ sent' \subseteq Seq(Units) /\ again' \subseteq Units

\* These types make up TypeOK.
LEMMA WorkType ==
    ASSUME TypeOK, Works, Typed, HoldsEntry'
    PROVE  TypeOK'
  BY DEF TypeOK, Works, Typed, HoldsEntry, CurrentKey, Current, fsVars

\* Nothing is handed on.
LEMMA SilentSent ==
    ASSUME IInv, Works, sent' = sent
    PROVE  SentInv'
  <1>1. SentInv
    BY DEF IInv
  <1>2. mode' = mode /\ content' = content /\ Truncated' = Truncated
    BY DEF Works, fsVars, Truncated
  <1> QED
    BY <1>1, <1>2, SentStays

\* A thread that waited for its entry and yields afterwards.
LEMMA LockedYields ==
    ASSUME TypeOK, NEW t \in Monitors, ~Locked(CurrentKey(t)), pc[t] = "run",
           NEW s \in Monitors \ {t}, pc[s] \in {"read", "save"}
    PROVE  CurrentKey(s) # CurrentKey(t) /\ CurrentKey(s) \in DOMAIN table
  <1>1. HoldsEntry
    BY TypeHoldsEntry
  <1> QED
    BY <1>1 DEF Locked, HoldsEntry

\* A thread takes events.
LEMMA TakeStep ==
    ASSUME IInv, NEW t \in Monitors, Take(t)
    PROVE  IInv'
  <1>0. Grouped /\ TypeOK
    BY Regrouped DEF Grouped
  <1>1. /\ up /\ pc[t] = "run" /\ Works /\ sent' = sent /\ again' = again
        /\ pc' = pc /\ size' = size /\ table' = table /\ disk' = disk
    BY DEF Take, Works, fsVars, posVars, sentVars
  <1>2. /\ initQueue' \in Seq(Events) /\ eventQueue' \in Seq(Events)
        /\ bulk' \in [Monitors -> Seq(Events)]
        /\ \A s \in Monitors \ {t} : bulk'[s] = bulk[s]
    <2>1. /\ initQueue \in Seq(Events) /\ eventQueue \in Seq(Events)
          /\ bulk \in [Monitors -> Seq(Events)]
      BY <1>0 DEF TypeOK
    <2>2. CASE initQueue # <<>> /\ bulk' = [bulk EXCEPT ![t] = First(initQueue)]
               /\ initQueue' = Rest(initQueue) /\ eventQueue' = eventQueue
      BY <2>1, <2>2, TakenType
    <2>3. CASE eventQueue # <<>> /\ bulk' = [bulk EXCEPT ![t] = First(eventQueue)]
               /\ eventQueue' = Rest(eventQueue) /\ initQueue' = initQueue
      BY <2>1, <2>3, TakenType
    <2> QED
      BY <2>2, <2>3 DEF Take
  <1>3. Yields(t)
    <2>1. HoldsEntry
      BY <1>0, TypeHoldsEntry
    <2> QED
      BY <1>1, <1>2, <2>1 DEF Yields, HoldsEntry
  <1>4. Typed
    BY <1>0, <1>1, <1>2 DEF Typed, TypeOK
  <1>5. TypeOK' /\ ReadingInv' /\ SizesInv'
    BY <1>0, <1>1, <1>3, <1>4, OthersHold, WorkType
  <1>6. RecordsSound'
    BY <1>1, KeptEntries DEF RecordsSound
  <1>7. DiskSound'
    BY <1>1, KeptPositions DEF DiskSound
  <1> QED
    BY <1>1, <1>5, <1>6, <1>7, SilentSent, WorkStep DEF Sane

\* A thread ends because the file cannot be opened.
LEMMA OpenFailsStep ==
    ASSUME IInv, NEW t \in Monitors, OpenFails(t)
    PROVE  IInv'
  <1> DEFINE k == CurrentKey(t)
  <1>0. Grouped /\ TypeOK
    BY Regrouped DEF Grouped
  <1>1. /\ up /\ pc[t] = "run" /\ bulk[t] # <<>> /\ ~Locked(k)
        /\ k \notin DOMAIN table
        /\ table' = With(table, k, Null)
        /\ bulk' = [bulk EXCEPT ![t] = <<>>]
        /\ pc' = [pc EXCEPT ![t] = "dead"]
        /\ Works /\ sent' = sent /\ again' = again
        /\ size' = size /\ disk' = disk
        /\ initQueue' = initQueue /\ eventQueue' = eventQueue
    BY DEF OpenFails, Working, Works, fsVars, posVars, sentVars, queueVars
  <1>2. k \in Keys
    BY <1>0, <1>1, CurrentIs
  <1> HIDE DEF k
  <1>3. /\ DOMAIN table' = DOMAIN table \cup {k}
        /\ table'[k] = Null
        /\ \A x \in DOMAIN table : table'[x] = table[x]
    BY <1>1 DEF With
  <1>4. Yields(t)
    <2>1. HoldsEntry
      BY <1>0, TypeHoldsEntry
    <2>2. /\ bulk \in [Monitors -> Seq(Events)]
          /\ pc \in [Monitors -> {"run", "read", "save", "dead"}]
      BY <1>0 DEF TypeOK
    <2> QED
      BY <1>1, <1>3, <2>1, <2>2 DEF Yields, HoldsEntry
  <1>5. Typed
    BY <1>0, <1>1, <1>2, <1>3, NullIs DEF Typed, TypeOK
  <1>6. TypeOK' /\ ReadingInv' /\ SizesInv'
    BY <1>0, <1>1, <1>4, <1>5, OthersHold, WorkType
  <1>7. RecordsSound'
    BY <1>1, <1>3, KeptEntries DEF RecordsSound
  <1>8. DiskSound'
    BY <1>1, KeptPositions DEF DiskSound
  <1> QED
    BY <1>1, <1>6, <1>7, <1>8, SilentSent, WorkStep DEF Sane

\* Saving a sound position.
LEMMA SaveKeeps ==
    ASSUME IInv, Works, NEW k \in Keys, NEW r \in Records,
           savePosition(k, r), SoundPosition(r.pos - Len(r.buffer))'
    PROVE  /\ DiskSound'
           /\ DOMAIN disk' \subseteq Keys
           /\ \A x \in DOMAIN disk' : disk'[x] \in Int
  <1> DEFINE n == r.pos - Len(r.buffer)
  <1>1. TypeOK
    BY DEF IInv
  <1>2. n \in Int
    BY DEF Records
  <1> HIDE DEF n
  <1>3. CASE ~mode.saveState
    <2>1. disk' = disk
      BY <1>3 DEF savePosition
    <2> QED
      BY <1>1, <2>1, KeptPositions DEF DiskSound, TypeOK
  <1>4. CASE mode.saveState
    <2>1. disk' = With(disk, k, n)
      BY <1>4 DEF savePosition, n
    <2>2. /\ DOMAIN disk' = DOMAIN disk \cup {k}
          /\ disk'[k] = n
          /\ \A x \in DOMAIN disk : x # k => disk'[x] = disk[x]
      BY <2>1 DEF With
    <2>3. SoundPosition(disk[k])'
      BY <2>2 DEF n
    <2>4. DiskSound'
      BY <2>2, <2>3, KeptPositions DEF DiskSound
    <2> QED
      BY <1>1, <1>2, <2>2, <2>4 DEF TypeOK
  <1> QED
    BY <1>3, <1>4

\* A thread saves the position after a read.
LEMMA SaveStep ==
    ASSUME IInv, NEW t \in Monitors, Save(t)
    PROVE  IInv'
  <1> DEFINE k == CurrentKey(t)
  <1>0. Grouped /\ TypeOK /\ HoldsEntry
    BY Regrouped, TypeHoldsEntry DEF Grouped
  <1>1. /\ up /\ pc[t] = "save" /\ Finish(t)
        /\ savePosition(k, table[k])
        /\ Works /\ sent' = sent /\ again' = again /\ table' = table
        /\ initQueue' = initQueue /\ eventQueue' = eventQueue
    BY DEF Save, Works, fsVars, sentVars, queueVars
  <1>2. bulk[t] # <<>> /\ k \in DOMAIN table /\ table[k] # Null
    BY <1>0, <1>1 DEF HoldsEntry, Grouped, ReadingInv
  <1>3. k \in Keys /\ table[k] \in Records
    BY <1>0, <1>2, CurrentIs DEF TypeOK
  <1> HIDE DEF k
  <1>4. SoundPosition(table[k].pos - Len(table[k].buffer))
    BY <1>0, <1>2, <1>3, SavedIsSound DEF Grouped, RecordsSound
  <1>5. \A n \in {table[k].pos - Len(table[k].buffer)} : SoundPosition(n)'
    BY <1>1, <1>4, TalkKeepsPosition DEF Talks, Works, fsVars
  <1>6. /\ DiskSound'
        /\ DOMAIN disk' \subseteq Keys
        /\ \A x \in DOMAIN disk' : disk'[x] \in Int
    <2>1. \A r \in Records : r = table[k] => SoundPosition(r.pos - Len(r.buffer))'
      BY <1>5
    <2> QED
      BY <1>1, <1>3, <2>1, SaveKeeps
  <1>7. /\ bulk' \in [Monitors -> Seq(Events)]
        /\ pc' \in [Monitors -> {"run", "read", "save", "dead"}]
        /\ size' \in [Monitors -> Nat]
        /\ pc'[t] = "run"
        /\ \A s \in Monitors \ {t} :
               pc'[s] = pc[s] /\ bulk'[s] = bulk[s] /\ size'[s] = size[s]
    BY <1>0, <1>1, <1>2, FinishType
  <1>8. Yields(t)
    BY <1>0, <1>1, <1>7 DEF Yields, HoldsEntry
  <1>9. Typed
    BY <1>0, <1>1, <1>6, <1>7 DEF Typed, TypeOK
  <1>10. TypeOK' /\ ReadingInv' /\ SizesInv'
    BY <1>0, <1>1, <1>8, <1>9, OthersHold, WorkType
  <1>11. RecordsSound'
    BY <1>1, KeptEntries DEF RecordsSound
  <1> QED
    BY <1>1, <1>6, <1>10, <1>11, SilentSent, WorkStep DEF Sane

\* An entry leaves the table or goes under another key.
LEMMA RekeyStep ==
    ASSUME IInv, NEW t \in Monitors, up, pc[t] = "run", bulk[t] # <<>>, Finish(t),
           Works, sent' = sent, again' = again,
           initQueue' = initQueue, eventQueue' = eventQueue,
           DOMAIN table' \subseteq Keys,
           \A l \in DOMAIN table' : \E k \in DOMAIN table : table'[l] = table[k],
           \A k \in DOMAIN table : Locked(k) => k \in DOMAIN table' /\ table'[k] = table[k],
           DOMAIN disk' \subseteq DOMAIN disk, \A k \in DOMAIN disk' : disk'[k] = disk[k]
    PROVE  IInv'
  <1>0. TypeOK /\ HoldsEntry
    BY TypeHoldsEntry DEF IInv
  <1>1. /\ bulk' \in [Monitors -> Seq(Events)]
        /\ pc' \in [Monitors -> {"run", "read", "save", "dead"}]
        /\ size' \in [Monitors -> Nat]
        /\ pc'[t] = "run"
        /\ \A s \in Monitors \ {t} :
               pc'[s] = pc[s] /\ bulk'[s] = bulk[s] /\ size'[s] = size[s]
    BY <1>0, FinishType
  <1>2. Yields(t)
    BY <1>0, <1>1 DEF Yields, HoldsEntry, Locked
  <1>3. Typed
    BY <1>0, <1>1 DEF Typed, TypeOK
  <1>4. TypeOK' /\ ReadingInv' /\ SizesInv'
    BY <1>0, <1>2, <1>3, OthersHold, WorkType
  <1>5. RecordsSound'
    BY KeptEntries DEF RecordsSound
  <1>6. DiskSound'
    BY KeptPositions DEF DiskSound
  <1> QED
    BY <1>4, <1>5, <1>6, SilentSent, WorkStep DEF Sane

\* A record goes under the present name of its file.
LEMMA moveStep ==
    ASSUME IInv, NEW t \in Monitors, move(t)
    PROVE  IInv'
  <1> DEFINE k == CurrentKey(t)
             new == getCurrentFileName(table[k].file)
  <1>0. TypeOK /\ ShapesInv
    BY DEF IInv
  <1>1. /\ up /\ pc[t] = "run" /\ bulk[t] # <<>> /\ ~Locked(k) /\ Finish(t)
        /\ Works /\ sent' = sent /\ again' = again /\ disk' = disk
        /\ initQueue' = initQueue /\ eventQueue' = eventQueue
    BY DEF move, Working, Works, fsVars, posVars, sentVars, queueVars
  <1>2. /\ DOMAIN table' \subseteq Keys
        /\ \A l \in DOMAIN table' : \E x \in DOMAIN table : table'[l] = table[x]
        /\ \A x \in DOMAIN table : Locked(x) => x \in DOMAIN table' /\ table'[x] = table[x]
    <2>1. CASE table' = table
      BY <1>0, <2>1 DEF TypeOK
    <2>2. CASE table' # table
      <3>1. /\ k \in DOMAIN table /\ table[k] # Null
            /\ new # k /\ ~Locked(new)
            /\ table' = IF new \in DOMAIN table THEN Without(table, k)
                        ELSE With(Without(table, k), new, table[k])
        BY <2>2 DEF move
      <3>2. table[k].file \in Files
        BY <1>0, <3>1 DEF ShapesInv, Shaped
      <3>3. new \in Keys
        BY <1>0, <3>2 DEF getCurrentFileName, Keys, TypeOK
      <3> HIDE DEF k, new
      <3>4. CASE new \in DOMAIN table
        <4>1. /\ DOMAIN table' = DOMAIN table \ {k}
              /\ \A x \in DOMAIN table' : table'[x] = table[x]
          BY <3>1, <3>4 DEF Without
        <4> QED
          BY <1>0, <1>1, <4>1 DEF TypeOK
      <3>5. CASE new \notin DOMAIN table
        <4>1. /\ DOMAIN table' = (DOMAIN table \ {k}) \cup {new}
              /\ table'[new] = table[k]
              /\ \A x \in DOMAIN table \ {k} : x # new => table'[x] = table[x]
          BY <3>1, <3>5 DEF Without, With
        <4> QED
          BY <1>0, <1>1, <3>1, <3>3, <3>5, <4>1 DEF TypeOK
      <3> QED
        BY <3>4, <3>5
    <2> QED
      BY <2>1, <2>2
  <1> QED
    BY <1>1, <1>2, RekeyStep

\* A record is dropped with its saved position.
LEMMA removeStep ==
    ASSUME IInv, NEW t \in Monitors, remove(t)
    PROVE  IInv'
  <1> DEFINE k == CurrentKey(t)
  <1>0. TypeOK
    BY DEF IInv
  <1>1. /\ up /\ pc[t] = "run" /\ bulk[t] # <<>> /\ ~Locked(k) /\ Finish(t)
        /\ Works /\ sent' = sent /\ again' = again
        /\ initQueue' = initQueue /\ eventQueue' = eventQueue
    BY DEF remove, Working, Works, fsVars, sentVars, queueVars
  <1>2. \/ table' = table /\ disk' = disk
        \/ table' = Without(table, k) /\ disk' = Without(disk, k)
    BY DEF remove, erasePosition
  <1> HIDE DEF k
  <1>3. /\ DOMAIN table' \subseteq Keys
        /\ \A l \in DOMAIN table' : \E x \in DOMAIN table : table'[l] = table[x]
        /\ \A x \in DOMAIN table : Locked(x) => x \in DOMAIN table' /\ table'[x] = table[x]
        /\ DOMAIN disk' \subseteq DOMAIN disk
        /\ \A x \in DOMAIN disk' : disk'[x] = disk[x]
    <2>1. CASE table' = table /\ disk' = disk
      BY <1>0, <2>1 DEF TypeOK
    <2>2. CASE table' = Without(table, k) /\ disk' = Without(disk, k)
      <3>1. /\ DOMAIN table' = DOMAIN table \ {k}
            /\ \A x \in DOMAIN table' : table'[x] = table[x]
            /\ DOMAIN disk' = DOMAIN disk \ {k}
            /\ \A x \in DOMAIN disk' : disk'[x] = disk[x]
        BY <2>2 DEF Without
      <3> QED
        BY <1>0, <1>1, <3>1 DEF TypeOK
    <2> QED
      BY <1>2, <2>1, <2>2
  <1> QED
    BY <1>1, <1>3, RekeyStep

\* The record process() works on, whether found or created.
Opened(r) ==
    /\ r \in Records
    /\ Shaped(r)
    /\ Kept => r.file = 1
    /\ Truncated \/ (~r.bad /\ r.pos >= 0)
    /\ Sound(r) \/ (r.buffer = <<>> /\ (Covered => Handed(r.file, r.pos)))

\* createRecord: the loaded position is used only while names are kept.
LEMMA CreatedIsOpened ==
    ASSUME IInv, NEW n \in Names, dir[n] \in Files
    PROVE  Opened(createRecord(n))
  <1> DEFINE pos == IF mode.saveState THEN getSavedPosition(Key(n)) ELSE 0
             r == createRecord(n)
  <1>0. Grouped /\ TypeOK
    BY Regrouped DEF Grouped
  <1>1. /\ r.file = dir[n] /\ r.pos = pos /\ r.buffer = <<>> /\ ~r.firstRead /\ ~r.bad
        /\ r = [file |-> dir[n], pos |-> pos, buffer |-> <<>>, firstRead |-> FALSE,
                bad |-> FALSE]
    <2>1. r = [Null EXCEPT !.file = dir[n], !.pos = pos]
      BY DEF createRecord
    <2> HIDE DEF pos, r
    <2>2. r = [file |-> dir[n], pos |-> pos, buffer |-> <<>>, firstRead |-> FALSE,
               bad |-> FALSE]
      BY <2>1 DEF Null
    <2> QED
      BY <2>2
  <1>2. pos = 0 \/ (Key(n) \in DOMAIN loaded /\ pos = loaded[Key(n)])
    BY DEF getSavedPosition
  <1>3. /\ pos \in Int
        /\ Truncated \/ pos >= 0
    BY <1>0, <1>2 DEF TypeOK, Grouped, LoadedSound, SoundPosition
  <1> HIDE DEF pos, r
  <1>4. r \in Records
    <2>1. <<>> \in Seq(Units)
      OBVIOUS
    <2> QED
      BY <1>1, <1>3, <2>1 DEF Records
  <1>5. Shaped(r)
    BY <1>1 DEF Shaped, Clean
  <1>6. Kept => r.file = 1
    BY <1>0, <1>1, NoFileIsNoFile DEF Grouped, DirInv
  <1>7. Covered => Handed(r.file, pos)
    <2>1. CASE pos = 0
      BY <1>0, <1>1, <2>1, NothingHanded
    <2>2. CASE pos # 0
      <3>1. Key(n) \in DOMAIN loaded /\ pos = loaded[Key(n)]
        BY <1>2, <2>2
      <3>2. ASSUME Covered PROVE Kept
        BY <1>0, <3>1, <3>2 DEF Covered, Grouped, FreshInv, Empty
      <3>3. Covered => Handed(1, pos)
        BY <1>0, <3>1, <3>2 DEF Covered, Grouped, LoadedSound, SoundPosition
      <3> QED
        BY <1>6, <3>2, <3>3
    <2> QED
      BY <2>1, <2>2
  <1> QED
    BY <1>1, <1>3, <1>4, <1>5, <1>6, <1>7 DEF Opened, r

\* A record of the table.
LEMMA FoundIsOpened ==
    ASSUME IInv, NEW k \in DOMAIN table, table[k] # Null
    PROVE  Opened(table[k])
  <1>1. Grouped /\ TypeOK
    BY Regrouped DEF Grouped
  <1>2. table[k] \in Records /\ Sound(table[k])
    BY <1>1 DEF Grouped, RecordsSound, TypeOK
  <1> QED
    BY <1>2 DEF Opened, Sound, Placed

\* Records after a change of some fields.
LEMMA MovedRecords ==
    ASSUME NEW r \in Records, NEW p \in Int
    PROVE  /\ [r EXCEPT !.pos = p, !.bad = FALSE] \in Records
           /\ [r EXCEPT !.pos = p, !.firstRead = TRUE] \in Records
  BY Zenon DEF Records

\* The same for a read.
LEMMA ChangedRecord ==
    ASSUME NEW r \in Records, NEW p \in Int, NEW b \in Seq(Units), NEW v \in BOOLEAN
    PROVE  [r EXCEPT !.pos = p, !.buffer = b, !.bad = v] \in Records
  BY Zenon DEF Records

\* The three ways process() sets the position.
LEMMA PositionReset ==
    ASSUME TypeOK, NEW r, Opened(r), r.bad
    PROVE  Sound([r EXCEPT !.pos = 0, !.bad = FALSE])
  <1> DEFINE s == [r EXCEPT !.pos = 0, !.bad = FALSE]
  <1>1. Truncated
    BY DEF Opened
  <1>2. s.file = r.file /\ s.buffer = r.buffer /\ s.firstRead = r.firstRead
    BY DEF Opened, Records
  <1> HIDE DEF s
  <1>3. Shaped(s)
    BY <1>2 DEF Opened, Shaped
  <1>4. Sound(s)
    BY <1>1, <1>2, <1>3 DEF Sound, Opened, Covered
  <1> QED
    BY <1>4 DEF s

\* To the end of the file, at the first look in follow_only_mode.
LEMMA PositionAtEnd ==
    ASSUME TypeOK, NEW r, Opened(r), ~r.bad, mode.followOnly, ~r.firstRead
    PROVE  Sound([r EXCEPT !.pos = Len(content[r.file]), !.firstRead = TRUE])
  <1> DEFINE s == [r EXCEPT !.pos = Len(content[r.file]), !.firstRead = TRUE]
  <1>1. /\ s.file = r.file /\ s.buffer = r.buffer /\ s.bad = r.bad
        /\ s.pos = Len(content[r.file])
    BY DEF Opened, Records
  <1>2. r.buffer = <<>> /\ r.file \in Files
    BY DEF Opened, Shaped
  <1>3. Len(content[r.file]) \in Nat
    BY <1>2 DEF TypeOK
  <1> HIDE DEF s
  <1>4. Shaped(s)
    BY <1>1, <1>2 DEF Opened, Shaped
  <1>5. Placed(s)
    BY <1>1, <1>2, <1>3 DEF Placed
  <1>6. Sound(s)
    BY <1>1, <1>4, <1>5 DEF Sound, Opened, Covered
  <1> QED
    BY <1>6 DEF s

\* To the start if the file has become shorter.
LEMMA PositionChecked ==
    ASSUME TypeOK, NEW r, Opened(r), ~r.bad
    PROVE  Sound([r EXCEPT !.pos = IF Len(content[r.file]) < r.pos THEN 0 ELSE r.pos])
  <1> DEFINE pos == IF Len(content[r.file]) < r.pos THEN 0 ELSE r.pos
             s == [r EXCEPT !.pos = pos]
  <1>1. /\ s.file = r.file /\ s.buffer = r.buffer /\ s.bad = r.bad
        /\ s.firstRead = r.firstRead /\ s.pos = pos
    BY DEF Opened, Records
  <1>2. r.file \in Files /\ r.pos \in Int
    BY DEF Opened, Shaped, Records
  <1>3. Len(content[r.file]) \in Nat
    BY <1>2 DEF TypeOK
  <1> HIDE DEF s
  <1>4. Shaped(s)
    BY <1>1 DEF Opened, Shaped
  <1>5. CASE Truncated
    BY <1>1, <1>4, <1>5 DEF Sound, Opened, Covered, s
  <1>6. CASE ~Truncated /\ Sound(r)
    <2>1. pos = r.pos
      BY <1>2, <1>3, <1>6 DEF Sound, Placed
    <2> HIDE DEF pos
    <2>2. Placed(s)
      BY <1>1, <1>6, <2>1 DEF Sound, Placed
    <2>3. Covered => Handed(s.file, s.pos - Len(s.buffer))
      BY <1>1, <1>6, <2>1 DEF Sound
    <2>4. Sound(s)
      BY <1>1, <1>4, <2>2, <2>3 DEF Sound, Opened
    <2> QED
      BY <2>4 DEF s, pos
  <1>7. CASE ~Truncated /\ ~Sound(r)
    <2>1. r.buffer = <<>> /\ (Covered => Handed(r.file, r.pos)) /\ r.pos >= 0
      BY <1>7 DEF Opened
    <2>2. pos \in 0..Len(content[r.file])
      BY <1>2, <1>3, <2>1
    <2>3. Covered => Handed(r.file, pos)
      BY <1>2, <1>3, <2>1, NothingHanded
    <2> HIDE DEF pos
    <2>4. Len(s.buffer) = 0
      BY <1>1, <2>1
    <2>5. Placed(s)
      BY <1>1, <1>3, <2>2, <2>4 DEF Placed
    <2>6. pos - Len(s.buffer) = pos
      BY <2>2, <2>4
    <2>7. Covered => Handed(s.file, s.pos - Len(s.buffer))
      BY <1>1, <2>3, <2>6
    <2>8. Sound(s)
      BY <1>1, <1>4, <2>5, <2>7 DEF Sound, Opened
    <2> QED
      BY <2>8 DEF s, pos
  <1> QED
    BY <1>5, <1>6, <1>7

\* A thread replaces one record of the table.
LEMMA ReplaceRecord ==
    ASSUME IInv, Works, NEW k \in Keys, NEW r \in Records, table' = With(table, k, r),
           \A x \in {r} : Sound(x)'
    PROVE  /\ DOMAIN table' = DOMAIN table \cup {k}
           /\ table'[k] = r /\ r # Null
           /\ \A x \in DOMAIN table : x # k => table'[x] = table[x]
           /\ DOMAIN table' \subseteq Keys
           /\ \A x \in DOMAIN table' : table'[x] \in Records
           /\ RecordsSound'
  <1>1. TypeOK
    BY DEF IInv
  <1>2. /\ DOMAIN table' = DOMAIN table \cup {k}
        /\ table'[k] = r
        /\ \A x \in DOMAIN table : x # k => table'[x] = table[x]
    BY DEF With
  <1>3. r # Null
    BY NullIs, NoFileIsNoFile DEF Sound, Shaped
  <1>4. Sound(table[k])'
    BY <1>2
  <1>5. RecordsSound'
    BY <1>2, <1>4, KeptEntries DEF RecordsSound
  <1> QED
    BY <1>1, <1>2, <1>3, <1>5 DEF TypeOK

\* process() up to the size of the file.
LEMMA processStep ==
    ASSUME IInv, NEW t \in Monitors, process(t)
    PROVE  IInv'
  <1> DEFINE k == CurrentKey(t)
             r == IF k \in DOMAIN table THEN table[k] ELSE createRecord(k.name)
             length == Len(content[r.file])
             pos == IF length < r.pos THEN 0 ELSE r.pos
             a == [r EXCEPT !.pos = 0, !.bad = FALSE]
             b == [r EXCEPT !.pos = length, !.firstRead = TRUE]
             c == [r EXCEPT !.pos = pos]
  <1>0. Grouped /\ TypeOK /\ HoldsEntry
    BY Regrouped, TypeHoldsEntry DEF Grouped
  <1>1. /\ up /\ pc[t] = "run" /\ bulk[t] # <<>> /\ ~Locked(k)
        /\ k \in DOMAIN table \/ dir[k.name] \in Files
        /\ r # Null
        /\ Works /\ sent' = sent /\ again' = again /\ disk' = disk
        /\ initQueue' = initQueue /\ eventQueue' = eventQueue
    BY DEF process, Working, Works, fsVars, posVars, sentVars, queueVars
  <1>2. \/ r.bad /\ table' = With(table, k, a) /\ Finish(t)
        \/ /\ ~r.bad /\ mode.followOnly /\ ~r.firstRead
           /\ table' = With(table, k, b) /\ Finish(t)
        \/ /\ ~r.bad /\ table' = With(table, k, c)
           /\ mode.followOnly => r.firstRead
           /\ pc' = [pc EXCEPT ![t] = "read"]
           /\ size' = [size EXCEPT ![t] = length]
           /\ bulk' = bulk
        \/ /\ ~r.bad /\ table' = With(table, k, c)
           /\ pc' = [pc EXCEPT ![t] = "save"]
           /\ bulk' = bulk /\ size' = size
    BY DEF process
  <1>3. k \in Keys /\ k.name \in Names
    BY <1>0, <1>1, CurrentIs
  <1> HIDE DEF k
  <1>4. Opened(r)
    <2>1. CASE k \in DOMAIN table
      BY <1>1, <2>1, FoundIsOpened
    <2>2. CASE k \notin DOMAIN table
      BY <1>1, <1>3, <2>2, CreatedIsOpened
    <2> QED
      BY <2>1, <2>2
  <1> HIDE DEF r
  <1>5. r.file \in Files /\ length \in Nat /\ r \in Records /\ pos \in Int
    <2>1. r.file \in Files /\ r \in Records
      BY <1>4 DEF Opened, Shaped
    <2>2. length \in Nat
      BY <1>0, <2>1 DEF TypeOK
    <2> QED
      BY <2>1, <2>2 DEF Records
  <1>6. /\ a \in Records /\ b \in Records /\ c \in Records
        /\ c.file = r.file /\ (r.firstRead => c.firstRead)
    <2> HIDE DEF length, pos
    <2>1. 0 \in Int /\ length \in Int
      BY <1>5
    <2>2. a \in Records /\ b \in Records
      BY <1>5, <2>1, MovedRecords, Zenon
    <2>3. c \in Records /\ c.file = r.file /\ (r.firstRead => c.firstRead)
      BY <1>5 DEF Records
    <2> QED
      BY <2>2, <2>3
  <1>7. /\ r.bad => Sound(a)
        /\ ~r.bad /\ mode.followOnly /\ ~r.firstRead => Sound(b)
        /\ ~r.bad => Sound(c)
    BY <1>0, <1>4, PositionReset, PositionAtEnd, PositionChecked
  <1> HIDE DEF a, b, c, pos
  <1>8. PICK q \in Records :
           /\ Sound(q)
           /\ table' = With(table, k, q)
           /\ \/ Finish(t)
              \/ /\ mode.followOnly => q.firstRead
                 /\ pc' = [pc EXCEPT ![t] = "read"]
                 /\ size' = [size EXCEPT ![t] = Len(content[q.file])]
                 /\ bulk' = bulk
              \/ /\ pc' = [pc EXCEPT ![t] = "save"]
                 /\ bulk' = bulk /\ size' = size
    BY <1>2, <1>6, <1>7
  <1>9. \A x \in {q} : Sound(x)'
    BY <1>1, <1>8, TalkKeepsSound DEF Talks, Works, fsVars
  <1>10. /\ DOMAIN table' = DOMAIN table \cup {k}
         /\ table'[k] = q /\ q # Null
         /\ \A x \in DOMAIN table : x # k => table'[x] = table[x]
         /\ DOMAIN table' \subseteq Keys
         /\ \A x \in DOMAIN table' : table'[x] \in Records
         /\ RecordsSound'
    BY <1>1, <1>3, <1>8, <1>9, ReplaceRecord
  <1>11. /\ bulk' \in [Monitors -> Seq(Events)]
         /\ pc' \in [Monitors -> {"run", "read", "save", "dead"}]
         /\ size' \in [Monitors -> Nat]
         /\ \A s \in Monitors \ {t} :
                pc'[s] = pc[s] /\ bulk'[s] = bulk[s] /\ size'[s] = size[s]
         /\ \/ pc'[t] = "run"
            \/ /\ pc'[t] = "read" /\ bulk'[t] = bulk[t] /\ size'[t] = Len(content[q.file])
               /\ mode.followOnly => q.firstRead
            \/ pc'[t] = "save" /\ bulk'[t] = bulk[t]
    <2>1. Len(content[q.file]) \in Nat
      BY <1>0, <1>8 DEF TypeOK, Sound, Shaped
    <2>2. CASE Finish(t)
      BY <1>0, <1>1, <2>2, FinishType
    <2>3. CASE ~Finish(t)
      BY <1>0, <1>8, <2>1, <2>3, ZenonT(40) DEF TypeOK
    <2> QED
      BY <2>2, <2>3
  <1>12. Yields(t)
    <2>1. \A s \in Monitors \ {t} : pc[s] \in {"read", "save"} =>
              CurrentKey(s) # k /\ CurrentKey(s) \in DOMAIN table
      BY <1>0, <1>1, LockedYields DEF k
    <2>2. Len(content[q.file]) <= Len(content[q.file])
      BY <1>0, <1>8 DEF TypeOK, Sound, Shaped
    <2> QED
      BY <1>1, <1>10, <1>11, <2>1, <2>2 DEF Yields, k
  <1>13. Typed
    BY <1>0, <1>1, <1>10, <1>11 DEF Typed, TypeOK
  <1>14. TypeOK' /\ ReadingInv' /\ SizesInv'
    BY <1>0, <1>1, <1>12, <1>13, OthersHold, WorkType
  <1>15. DiskSound'
    BY <1>1, KeptPositions DEF DiskSound
  <1> QED
    BY <1>1, <1>10, <1>14, <1>15, SilentSent, WorkStep DEF Sane

\* What was sent, and units of it, are of the right types.
LEMMA SentType ==
    ASSUME TypeOK, NEW messages, messages \subseteq Seq(Units), processMessage(messages)
    PROVE  /\ sent \subseteq sent' /\ sent' \subseteq Seq(Units) /\ again' \subseteq Units
           /\ sent' = sent \cup messages
  <1>1. \A m \in messages : Range(m) \subseteq Units
    BY DEF Range
  <1>2. UnitsOf(messages) \subseteq Units
    BY <1>1 DEF UnitsOf
  <1> QED
    BY <1>2 DEF TypeOK, processMessage

\* The text of a read: it is in the file behind the position.
TextAt(r, text) ==
    /\ text \in Seq(Units)
    /\ ~Truncated =>
           /\ r.pos + Len(text) <= Len(content[r.file])
           /\ \A i \in 1..Len(text) : text[i] = content[r.file][r.pos + i]

\* What Read takes from the file.
LEMMA TextIsAt ==
    ASSUME TypeOK, NEW r \in Records, Sound(r), NEW n \in Nat
    PROVE  TextAt(r, IF r.pos < 0 THEN <<>>
                     ELSE SubSeq(content[r.file], r.pos + 1,
                                 Min({n, Len(content[r.file])})))
  <1> DEFINE s == content[r.file]
             text == IF r.pos < 0 THEN <<>>
                     ELSE SubSeq(s, r.pos + 1, Min({n, Len(s)}))
  <1>1. s \in Seq(Units) /\ r.pos \in Int /\ Len(s) \in Nat
    BY DEF TypeOK, Sound, Shaped, Records
  <1>2. ~Truncated => r.pos \in 0..Len(s)
    BY DEF Sound, Placed
  <1> HIDE DEF s
  <1>3. CASE r.pos < 0
    <2>1. text = <<>>
      BY <1>3, Zenon
    <2>2. Truncated
      BY <1>1, <1>2, <1>3
    <2> HIDE DEF text
    <2>3. TextAt(r, text)
      BY <2>1, <2>2 DEF TextAt
    <2> QED
      BY <2>3 DEF s, text
  <1>4. CASE ~(r.pos < 0)
    <2>1. text = SubSeq(s, r.pos + 1, Min({n, Len(s)}))
      BY <1>4, Zenon
    <2> HIDE DEF text
    <2>0. r.pos \in Nat
      BY <1>1, <1>4
    <2>2. /\ text \in Seq(Units)
          /\ r.pos + Len(text) <= Len(s) \/ text = <<>>
          /\ \A i \in 1..Len(text) : text[i] = s[r.pos + i]
      BY <1>1, <2>0, <2>1, ReadType
    <2>3. ~Truncated => r.pos + Len(text) <= Len(s)
      BY <1>1, <1>2, <2>2
    <2>4. TextAt(r, text)
      BY <2>2, <2>3 DEF TextAt, s
    <2> QED
      BY <2>4 DEF s, text
  <1> QED
    BY <1>3, <1>4

\* The buffer and the text are one stretch of the file.
LEMMA OneStretch ==
    ASSUME TypeOK, ~Truncated, NEW r \in Records, Sound(r), NEW text, TextAt(r, text)
    PROVE  LET all == r.buffer \o text
               from == r.pos - Len(r.buffer)
           IN  /\ all \in Seq(Units) /\ Len(all) = Len(r.buffer) + Len(text)
               /\ from \in Nat /\ from + Len(all) <= Len(content[r.file])
               /\ \A i \in 1..Len(all) : all[i] = content[r.file][from + i]
  <1> DEFINE b == r.buffer
             s == content[r.file]
             all == b \o text
             from == r.pos - Len(b)
  <1>1. b \in Seq(Units) /\ text \in Seq(Units) /\ r.pos \in Int /\ s \in Seq(Units)
    BY DEF Records, TextAt, TypeOK, Sound, Shaped
  <1>2. /\ r.pos \in 0..Len(s) /\ Len(b) <= r.pos
        /\ \A i \in 1..Len(b) : b[i] = s[r.pos - Len(b) + i]
        /\ r.pos + Len(text) <= Len(s)
        /\ \A i \in 1..Len(text) : text[i] = s[r.pos + i]
    BY DEF Sound, Placed, TextAt
  <1> HIDE DEF b, s
  <1>3. /\ all \in Seq(Units) /\ Len(all) = Len(b) + Len(text)
        /\ \A i \in 1..Len(all) : all[i] = IF i <= Len(b) THEN b[i] ELSE text[i - Len(b)]
    BY <1>1
  <1>4. from \in Nat /\ from + Len(all) <= Len(s)
    BY <1>1, <1>2, <1>3
  <1> HIDE DEF all
  <1>5. ASSUME NEW i \in 1..Len(all) PROVE all[i] = s[from + i]
    <2>1. CASE i <= Len(b)
      <3>1. i \in 1..Len(b)
        BY <1>1, <2>1
      <3> QED
        BY <1>2, <1>3, <2>1, <3>1
    <2>2. CASE ~(i <= Len(b))
      <3>1. i - Len(b) \in 1..Len(text) /\ r.pos + (i - Len(b)) = from + i
        BY <1>1, <1>3, <2>2
      <3>2. text[i - Len(b)] = s[r.pos + (i - Len(b))]
        BY <1>2, <3>1
      <3> QED
        BY <1>3, <2>2, <3>1, <3>2
    <2> QED
      BY <2>1, <2>2
  <1> QED
    BY <1>3, <1>4, <1>5 DEF b, s, all

\* After a read the record is sound again.
LEMMA ReadIsSound ==
    ASSUME IInv, Works, NEW r \in Records, Sound(r), NEW text, TextAt(r, text),
           NEW messages, NEW rest, Cut(r.buffer \o text, messages, rest),
           mode.followOnly => r.firstRead,
           sent' = sent \cup messages,
           NEW q \in Records, q.file = r.file, q.pos = r.pos + Len(text), q.buffer = rest,
           r.firstRead => q.firstRead, Truncated \/ ~q.bad
    PROVE  Sound(q)'
  <1> DEFINE all == r.buffer \o text
             s == content[r.file]
             from == r.pos - Len(r.buffer)
  <1>1. TypeOK
    BY DEF IInv
  <1>2. /\ Truncated' = Truncated /\ Kept' = Kept /\ Covered' = Covered /\ mode' = mode
        /\ content' = content
    BY DEF Works, fsVars, Truncated, Kept, Covered, Restarted
  <1>3. Shaped(q)'
    BY <1>2 DEF Sound, Shaped, Cut
  <1>4. CASE Truncated
    BY <1>2, <1>3, <1>4 DEF Sound, Covered
  <1>5. CASE ~Truncated
    <2>1. /\ all \in Seq(Units) /\ Len(all) = Len(r.buffer) + Len(text)
          /\ from \in Nat /\ from + Len(all) <= Len(s)
          /\ \A i \in 1..Len(all) : all[i] = s[from + i]
      BY <1>1, <1>5, OneStretch
    <2>2. PICK c \in 0..Len(all) :
             /\ Len(rest) = Len(all) - c
             /\ \A i \in 1..Len(rest) : rest[i] = all[c + i]
             /\ \A i \in 1..c :
                    all[i] \in UnitsOf(messages) \/ (all[i].mark /\ ~mode.regex)
      BY DEF Cut
    <2>3. r.pos \in Int /\ Len(r.buffer) \in Nat /\ Len(text) \in Nat /\ Len(s) \in Nat
      BY <1>1 DEF Records, TextAt, TypeOK, Sound, Shaped
    <2> HIDE DEF all, s
    <2>4. q.pos - Len(rest) = from + c /\ q.pos \in 0..Len(s) /\ Len(rest) <= q.pos
      <3>1. Len(all) \in Nat /\ Len(rest) \in Int /\ q.pos \in Int
            /\ q.pos = r.pos + Len(text)
        BY <2>1, <2>2, <2>3
      <3>2. q.pos - Len(rest) = from + c
        BY <2>1, <2>2, <2>3, <3>1, SMTT(30)
      <3>3. q.pos = from + Len(all)
        BY <2>1, <2>3, <3>1
      <3>4. q.pos \in 0..Len(s)
        BY <2>1, <2>3, <3>1, <3>3
      <3>5. Len(rest) <= q.pos
        BY <2>1, <2>2, <3>1, <3>3
      <3> QED
        BY <3>2, <3>4, <3>5
    <2>5. ASSUME NEW i \in 1..Len(rest) PROVE rest[i] = s[q.pos - Len(rest) + i]
      <3>1. c + i \in 1..Len(all)
        BY <2>1, <2>2
      <3>2. rest[i] = all[c + i]
        BY <2>2
      <3>3. all[c + i] = s[from + (c + i)]
        BY <2>1, <3>1
      <3>4. from + (c + i) = q.pos - Len(rest) + i
        BY <2>1, <2>2, <2>4
      <3> QED
        BY <3>2, <3>3, <3>4
    <2>6. Placed(q)'
      BY <1>2, <1>5, <2>4, <2>5 DEF Placed, s
    <2>7. ASSUME Covered PROVE Handed(q.file, from + c)'
      <3>1. Handed(r.file, from)
        BY <2>7 DEF Sound
      <3>2. ASSUME NEW i \in 1..(from + c)
            PROVE  s[i] \in UnitsOf(sent') \/ (s[i].mark /\ ~mode.regex)
        <4>1. UnitsOf(sent) \subseteq UnitsOf(sent') /\ UnitsOf(messages) \subseteq UnitsOf(sent')
          BY DEF UnitsOf
        <4>2. CASE i <= from
          <5>1. i \in 1..from
            BY <2>1, <4>2
          <5>2. s[i] \in UnitsOf(sent) \/ (s[i].mark /\ ~mode.regex)
            BY <3>1, <5>1 DEF Handed, s
          <5> QED
            BY <4>1, <5>2
        <4>3. CASE ~(i <= from)
          <5>1. i - from \in 1..c /\ i - from \in 1..Len(all) /\ from + (i - from) = i
            BY <2>1, <2>2, <4>3
          <5>2. s[i] = all[i - from]
            BY <2>1, <5>1
          <5>3. all[i - from] \in UnitsOf(messages) \/ (all[i - from].mark /\ ~mode.regex)
            BY <2>2, <5>1
          <5> QED
            BY <4>1, <5>2, <5>3
        <4> QED
          BY <4>2, <4>3
      <3>3. from + c <= Len(s)
        BY <2>1, <2>2, <2>3
      <3>4. UnitsOf(sent)' = UnitsOf(sent')
        BY DEF UnitsOf
      <3> QED
        BY <1>2, <3>2, <3>3, <3>4 DEF Handed, s
    <2>8. Covered => Handed(q.file, q.pos - Len(q.buffer))'
      BY <2>4, <2>7
    <2> QED
      BY <1>2, <1>3, <2>6, <2>8 DEF Sound
  <1> QED
    BY <1>4, <1>5

\* The messages of a read are what messages should be.
LEMMA ReadIsWhole ==
    ASSUME IInv, Works, NEW r \in Records, Sound(r), NEW text, TextAt(r, text),
           NEW messages, NEW rest, Cut(r.buffer \o text, messages, rest),
           sent' = sent \cup messages
    PROVE  SentInv'
  <1> DEFINE all == r.buffer \o text
             s == content[r.file]
             from == r.pos - Len(r.buffer)
  <1>1. TypeOK /\ SentInv
    BY DEF IInv
  <1>2. Truncated' = Truncated /\ mode' = mode /\ content' = content
    BY DEF Works, fsVars, Truncated
  <1>3. ASSUME NEW m \in messages, mode.regex, ~Truncated PROVE Followed(m)'
    <2>1. /\ all \in Seq(Units) /\ Len(all) = Len(r.buffer) + Len(text)
          /\ from \in Nat /\ from + Len(all) <= Len(s)
          /\ \A i \in 1..Len(all) : all[i] = s[from + i]
      BY <1>1, <1>3, OneStretch
    <2>2. PICK b \in 1..(Len(all) - 1) : all[b] = m[Len(m)] /\ all[b + 1].mark
      BY <1>3 DEF Cut
    <2>3. r.file \in Files /\ Len(s) \in Nat
      BY <1>1 DEF TypeOK, Sound, Shaped
    <2> HIDE DEF all, s
    <2>4. b \in 1..Len(all) /\ b + 1 \in 1..Len(all)
      BY <2>1
    <2>5. from + b \in 1..(Len(s) - 1) /\ from + (b + 1) = (from + b) + 1
      <3>1. from \in Nat /\ b \in Nat /\ b >= 1 /\ Len(all) \in Nat /\ Len(s) \in Nat
            /\ b + 1 <= Len(all) /\ from + Len(all) <= Len(s)
        BY <2>1, <2>3, <2>4
      <3> HIDE DEF from
      <3> QED
        BY <3>1
    <2>6. s[from + b] = m[Len(m)] /\ s[(from + b) + 1].mark
      <3>1. all[b] = s[from + b] /\ all[b + 1] = s[from + (b + 1)]
        BY <2>1, <2>4, Zenon
      <3>2. s[from + (b + 1)] = s[(from + b) + 1]
        BY <2>5, Zenon
      <3> QED
        BY <2>2, <3>1, <3>2, Zenon
    <2> QED
      BY <1>2, <2>3, <2>5, <2>6 DEF Followed, s
  <1>4. ASSUME NEW m \in sent, Followed(m) PROVE Followed(m)'
    BY <1>2, <1>4 DEF Followed
  <1>5. ASSUME NEW m \in messages
        PROVE  m # <<>> /\ Clean(m) /\ (~mode.regex => ~m[1].mark)
    BY DEF Cut
  <1>6. ASSUME NEW m \in messages, ~Truncated PROVE Adjacent(m)'
    <2>1. /\ all \in Seq(Units)
          /\ from \in Nat /\ from + Len(all) <= Len(s)
          /\ \A i \in 1..Len(all) : all[i] = s[from + i]
      BY <1>1, <1>6, OneStretch
    <2>2. r.file \in Files /\ s \in Seq(Units)
      BY <1>1 DEF TypeOK, Sound, Shaped
    <2>3. m \in Seq(Units) /\ Within(m, all)
      BY <1>6 DEF Cut
    <2> HIDE DEF all, s, from
    <2>4. from \in 0..(Len(s) - Len(all))
      BY <2>1, <2>2
    <2>5. Within(all, s)
      BY <2>1, <2>4 DEF Within
    <2>6. Within(m, s)
      BY <2>1, <2>2, <2>3, <2>5, WithinWithin
    <2> QED
      BY <1>2, <2>2, <2>6 DEF Adjacent, Within, s
  <1>7. ASSUME NEW m \in sent, Adjacent(m) PROVE Adjacent(m)'
    BY <1>2, <1>7 DEF Adjacent, Within
  <1> QED
    BY <1>1, <1>2, <1>3, <1>4, <1>5, <1>6, <1>7 DEF SentInv

\* The loop of process().
LEMMA ReadStep ==
    ASSUME IInv, NEW t \in Monitors, Read(t)
    PROVE  IInv'
  <1> DEFINE k == CurrentKey(t)
             r == table[k]
             text == IF r.pos < 0 THEN <<>>
                     ELSE SubSeq(content[r.file], r.pos + 1,
                                 Min({size[t], Len(content[r.file])}))
             p == processBuffer(r.buffer, text)
             q == [r EXCEPT !.pos = r.pos + Len(text), !.buffer = p.buffer,
                            !.bad = r.pos < 0 \/ Len(content[r.file]) < size[t]]
  <1>0. Grouped /\ TypeOK /\ HoldsEntry
    BY Regrouped, TypeHoldsEntry DEF Grouped
  <1>1. /\ up /\ pc[t] = "read"
        /\ processMessage(p.messages)
        /\ table' = With(table, k, q)
        /\ pc' = [pc EXCEPT ![t] = "save"]
        /\ size' = [size EXCEPT ![t] = 0]
        /\ bulk' = bulk /\ disk' = disk
        /\ initQueue' = initQueue /\ eventQueue' = eventQueue
        /\ UNCHANGED <<mode, fsVars, troubles, loaded, up>>
    BY DEF Read, posVars, queueVars
  <1>2. /\ bulk[t] # <<>> /\ k \in DOMAIN table /\ r # Null
        /\ mode.followOnly => r.firstRead
        /\ Truncated \/ size[t] <= Len(content[r.file])
    BY <1>0, <1>1 DEF HoldsEntry, Grouped, ReadingInv, SizesInv
  <1>3. k \in Keys /\ r \in Records /\ Sound(r) /\ size[t] \in Nat
    BY <1>0, <1>2, CurrentIs DEF TypeOK, Grouped, RecordsSound
  <1> HIDE DEF k
  <1>4. TextAt(r, text)
    BY <1>0, <1>3, TextIsAt
  <1> HIDE DEF r, text
  <1>5. r.buffer \in Seq(Units) /\ text \in Seq(Units) /\ Clean(r.buffer)
        /\ (r.buffer # <<>> => mode.regex) /\ r.file \in Files /\ r.pos \in Int
    BY <1>3, <1>4 DEF Records, TextAt, Sound, Shaped
  <1>6. Cut(r.buffer \o text, p.messages, p.buffer)
    BY <1>5, BufferCut
  <1> HIDE DEF p
  <1>7. /\ sent \subseteq sent' /\ sent' \subseteq Seq(Units) /\ again' \subseteq Units
        /\ sent' = sent \cup p.messages
    BY <1>0, <1>1, <1>6, SentType DEF Cut
  <1>8. Works
    BY <1>1, <1>7 DEF Works
  <1>9. /\ q \in Records /\ q.file = r.file /\ q.pos = r.pos + Len(text)
        /\ q.buffer = p.buffer /\ (r.firstRead => q.firstRead)
        /\ Truncated \/ ~q.bad
    <2> DEFINE bad == r.pos < 0 \/ Len(content[r.file]) < size[t]
    <2>1. p.buffer \in Seq(Units) /\ r.pos + Len(text) \in Int
      BY <1>5, <1>6 DEF Cut
    <2>2. bad \in BOOLEAN
      OBVIOUS
    <2>3. Truncated \/ ~bad
      <3>1. Len(content[r.file]) \in Nat
        BY <1>0, <1>5 DEF TypeOK
      <3>2. Truncated \/ r.pos >= 0
        BY <1>3, <1>5 DEF Sound, Placed
      <3> QED
        BY <1>2, <1>3, <1>5, <3>1, <3>2 DEF r
    <2> HIDE DEF bad
    <2>4. q = [r EXCEPT !.pos = r.pos + Len(text), !.buffer = p.buffer, !.bad = bad]
      BY Zenon DEF bad
    <2> HIDE DEF q
    <2>5. q \in Records
      BY <1>3, <2>1, <2>2, <2>4, ChangedRecord, Zenon
    <2>6. /\ q.file = r.file /\ q.pos = r.pos + Len(text)
          /\ q.buffer = p.buffer /\ q.firstRead = r.firstRead /\ q.bad = bad
      BY <1>3, <2>4 DEF Records
    <2> QED
      BY <2>3, <2>5, <2>6
  <1> HIDE DEF q
  <1>10. \A x \in {q} : Sound(x)'
    <2>1. mode.followOnly => r.firstRead
      BY <1>2 DEF r
    <2> QED
      BY <1>3, <1>4, <1>6, <1>7, <1>8, <1>9, <2>1, ReadIsSound
  <1>11. SentInv'
    BY <1>3, <1>4, <1>6, <1>7, <1>8, ReadIsWhole
  <1>12. /\ DOMAIN table' = DOMAIN table \cup {k}
         /\ table'[k] = q /\ q # Null
         /\ \A x \in DOMAIN table : x # k => table'[x] = table[x]
         /\ DOMAIN table' \subseteq Keys
         /\ \A x \in DOMAIN table' : table'[x] \in Records
         /\ RecordsSound'
    BY <1>1, <1>3, <1>8, <1>9, <1>10, ReplaceRecord
  <1>13. /\ bulk' \in [Monitors -> Seq(Events)]
         /\ pc' \in [Monitors -> {"run", "read", "save", "dead"}]
         /\ size' \in [Monitors -> Nat]
         /\ pc'[t] = "save"
         /\ \A s \in Monitors \ {t} :
                pc'[s] = pc[s] /\ bulk'[s] = bulk[s] /\ size'[s] = size[s]
    BY <1>0, <1>1 DEF TypeOK
  <1>14. Yields(t)
    <2>1. \A s \in Monitors \ {t} : pc[s] \in {"read", "save"} => CurrentKey(s) \in DOMAIN table
      BY <1>0 DEF HoldsEntry
    <2>2. \A x \in DOMAIN table :
             /\ x \in DOMAIN table'
             /\ table'[x].file = table[x].file
             /\ table[x] # Null => table'[x] # Null
             /\ table[x].firstRead => table'[x].firstRead
      BY <1>9, <1>12 DEF r
    <2>3. table'[CurrentKey(t)] # Null /\ CurrentKey(t) \in DOMAIN table'
      BY <1>12 DEF k
    <2> QED
      BY <1>1, <1>2, <1>13, <2>1, <2>2, <2>3 DEF Yields
  <1>15. Typed
    BY <1>0, <1>1, <1>7, <1>12, <1>13 DEF Typed, TypeOK
  <1>16. TypeOK' /\ ReadingInv' /\ SizesInv'
    BY <1>0, <1>8, <1>14, <1>15, OthersHold, WorkType
  <1>17. DiskSound'
    BY <1>1, <1>8, KeptPositions DEF DiskSound
  <1> QED
    BY <1>1, <1>8, <1>11, <1>12, <1>16, <1>17, WorkStep DEF Sane

-----------------------------------------------------------------------------
(* The timer thread *)

\* A flushed record: its buffer is the last message, the position is right.
LEMMA FlushedIsSound ==
    ASSUME IInv, Works, NEW r \in Records, Sound(r), sent' = sent \cup {r.buffer},
           NEW q \in Records, q.file = r.file, q.pos = r.pos, q.buffer = <<>>,
           r.firstRead => q.firstRead, Truncated \/ ~q.bad
    PROVE  Sound(q)'
  <1> DEFINE s == content[r.file]
             b == r.buffer
  <1>1. TypeOK
    BY DEF IInv
  <1>2. /\ Truncated' = Truncated /\ Kept' = Kept /\ Covered' = Covered /\ mode' = mode
        /\ content' = content
    BY DEF Works, fsVars, Truncated, Kept, Covered, Restarted
  <1>3. r.pos \in Int /\ b \in Seq(Units) /\ Len(s) \in Nat /\ Len(q.buffer) = 0
    BY <1>1 DEF Records, TypeOK, Sound, Shaped
  <1>4. Shaped(q)'
    BY <1>2 DEF Sound, Shaped, Clean
  <1>5. CASE Truncated
    BY <1>2, <1>4, <1>5 DEF Sound, Covered
  <1>6. CASE ~Truncated
    <2>1. /\ r.pos \in 0..Len(s) /\ Len(b) <= r.pos
          /\ \A i \in 1..Len(b) : b[i] = s[r.pos - Len(b) + i]
      BY <1>6 DEF Sound, Placed
    <2>2. Placed(q)'
      BY <1>2, <1>3, <1>6, <2>1 DEF Placed
    <2>3. ASSUME Covered PROVE Handed(q.file, q.pos - Len(q.buffer))'
      <3> HIDE DEF s, b
      <3>1. ASSUME NEW i \in 1..r.pos
            PROVE  s[i] \in UnitsOf(sent') \/ (s[i].mark /\ ~mode.regex)
        <4>1. CASE i <= r.pos - Len(b)
          <5>1. Handed(r.file, r.pos - Len(b))
            BY <2>3 DEF Sound, b
          <5>2. i \in 1..(r.pos - Len(b))
            BY <1>3, <4>1
          <5>3. s[i] \in UnitsOf(sent) \/ (s[i].mark /\ ~mode.regex)
            BY <5>1, <5>2 DEF Handed, s
          <5>4. UnitsOf(sent) \subseteq UnitsOf(sent')
            BY DEF UnitsOf
          <5> QED
            BY <5>3, <5>4
        <4>2. CASE ~(i <= r.pos - Len(b))
          <5> DEFINE j == i - (r.pos - Len(b))
          <5>1. j \in 1..Len(b) /\ r.pos - Len(b) + j = i
            BY <1>3, <2>1, <4>2
          <5> HIDE DEF j
          <5>2. b[j] = s[i]
            BY <2>1, <5>1
          <5>3. s[i] \in Range(b)
            BY <1>3, <5>1, <5>2 DEF Range
          <5>4. b \in sent'
            BY DEF b
          <5>5. s[i] \in UnitsOf(sent')
            BY <5>3, <5>4, UnitOfMessage
          <5> QED
            BY <5>5
        <4> QED
          BY <4>1, <4>2
      <3>2. q.pos - Len(q.buffer) = r.pos /\ r.pos <= Len(s)
        BY <1>3, <2>1
      <3>3. UnitsOf(sent)' = UnitsOf(sent')
        BY DEF UnitsOf
      <3> QED
        BY <1>2, <3>1, <3>2, <3>3 DEF Handed, s
    <2> QED
      BY <1>2, <1>4, <2>2, <2>3 DEF Sound
  <1> QED
    BY <1>5, <1>6

\* The timer sends the buffer of one record.
LEMMA flushStep ==
    ASSUME IInv, NEW k \in Keys, flush(k)
    PROVE  IInv'
  <1>0. Grouped /\ TypeOK /\ HoldsEntry
    BY Regrouped, TypeHoldsEntry DEF Grouped
  <1>1. up /\ mode.timer /\ k \in DOMAIN table /\ ~Locked(k)
    BY DEF flush
  <1>2. CASE table[k] = Null /\ EmptyPointer
    BY <1>2, EmptyPointerStep
  <1>3. CASE FlushRecord(k) /\ table[k] # Null
    <2> DEFINE r == table[k]
               q == [r EXCEPT !.buffer = <<>>]
    <2>1. /\ r.buffer # <<>>
          /\ processMessage({r.buffer})
          /\ table' = [table EXCEPT ![k] = q]
          /\ savePosition(k, q)
      BY <1>3 DEF FlushRecord
    <2>2. /\ UNCHANGED <<mode, fsVars, troubles, loaded, up>>
          /\ bulk' = bulk /\ pc' = pc /\ size' = size
          /\ initQueue' = initQueue /\ eventQueue' = eventQueue
      <3>1. ~(table[k] = Null /\ EmptyPointer)
        BY <1>3
      <3> QED
        BY <3>1 DEF flush, queueVars, threadVars
    <2>3. r \in Records /\ Sound(r)
      BY <1>0, <1>1, <1>3 DEF TypeOK, Grouped, RecordsSound
    <2>4. /\ q \in Records /\ q.file = r.file /\ q.pos = r.pos /\ q.buffer = <<>>
          /\ (r.firstRead => q.firstRead) /\ (Truncated \/ ~q.bad)
      <3>1. <<>> \in Seq(Units)
        OBVIOUS
      <3>2. q \in Records
        BY <2>3, <3>1, Zenon DEF Records
      <3>3. /\ q.file = r.file /\ q.pos = r.pos /\ q.buffer = <<>>
            /\ q.firstRead = r.firstRead /\ q.bad = r.bad
        BY <2>3 DEF Records
      <3>4. Truncated \/ ~r.bad
        BY <2>3 DEF Sound, Placed
      <3> QED
        BY <3>2, <3>3, <3>4
    <2>5. r.buffer \in Seq(Units)
      BY <2>3 DEF Records
    <2> HIDE DEF r, q
    <2>6. /\ sent \subseteq sent' /\ sent' \subseteq Seq(Units) /\ again' \subseteq Units
          /\ sent' = sent \cup {r.buffer}
      BY <1>0, <2>1, <2>5, SentType
    <2>7. Works
      BY <2>2, <2>6 DEF Works
    <2>8. \A x \in {q} : Sound(x)'
      BY <2>3, <2>4, <2>6, <2>7, FlushedIsSound
    <2>9. table' = With(table, k, q)
      <3>1. DOMAIN table \cup {k} = DOMAIN table
        BY <1>1
      <3> QED
        BY <2>1, <3>1 DEF With
    <2>10. /\ DOMAIN table' = DOMAIN table \cup {k}
           /\ table'[k] = q /\ q # Null
           /\ \A x \in DOMAIN table : x # k => table'[x] = table[x]
           /\ DOMAIN table' \subseteq Keys
           /\ \A x \in DOMAIN table' : table'[x] \in Records
           /\ RecordsSound'
      BY <2>4, <2>7, <2>8, <2>9, ReplaceRecord
    <2>11. /\ DiskSound'
           /\ DOMAIN disk' \subseteq Keys
           /\ \A x \in DOMAIN disk' : disk'[x] \in Int
      <3>2. \A x \in Records : Sound(x)' => SoundPosition(x.pos - Len(x.buffer))'
        BY SavedSoundNext
      <3>3. \A x \in {q} : SoundPosition(x.pos - Len(x.buffer))'
        BY <2>4, <2>8, <3>2
      <3> QED
        BY <2>1, <2>4, <2>7, <3>3, SaveKeeps
    <2>12. HoldsEntry' /\ ReadingInv' /\ SizesInv'
      <3>1. ASSUME NEW s \in Monitors, pc[s] \in {"read", "save"}
            PROVE  CurrentKey(s) \in DOMAIN table' /\ table'[CurrentKey(s)] = table[CurrentKey(s)]
        BY <1>0, <1>1, <2>10, <3>1 DEF HoldsEntry, Locked
      <3>2. content' = content /\ Truncated' = Truncated /\ mode' = mode
        BY <2>2 DEF fsVars, Truncated
      <3>3. \A s \in Monitors : CurrentKey(s)' = CurrentKey(s)
        BY <2>2 DEF CurrentKey, Current
      <3>4. HoldsEntry'
        BY <1>0, <2>2, <3>1, <3>3 DEF HoldsEntry
      <3>5. ReadingInv'
        BY <1>0, <2>2, <3>1, <3>2, <3>3 DEF Grouped, ReadingInv
      <3>6. SizesInv'
        BY <1>0, <2>2, <3>1, <3>2, <3>3 DEF Grouped, SizesInv
      <3> QED
        BY <3>4, <3>5, <3>6
    <2>13. TypeOK'
      <3>1. Typed
        BY <1>0, <2>2, <2>6, <2>10, <2>11 DEF Typed, TypeOK
      <3> QED
        BY <1>0, <2>7, <2>12, <3>1, WorkType
    <2>14. SentInv'
      <3>1. mode' = mode /\ content' = content /\ Truncated' = Truncated
        BY <2>2 DEF fsVars, Truncated
      <3>2. mode.regex /\ Clean(r.buffer)
        BY <2>1, <2>3 DEF Sound, Shaped
      <3>3. ASSUME ~Truncated, NEW b \in {r.buffer} PROVE Adjacent(b)'
        <4>1. /\ r.file \in Files /\ r.pos \in Int /\ content[r.file] \in Seq(Units)
              /\ b \in Seq(Units) /\ b = r.buffer
          BY <1>0, <2>3, <2>5 DEF Sound, Shaped, Records, TypeOK
        <4>2. /\ r.pos \in 0..Len(content[r.file]) /\ Len(b) <= r.pos
              /\ \A i \in 1..Len(b) : b[i] = content[r.file][(r.pos - Len(b)) + i]
          BY <2>3, <3>3, <4>1 DEF Sound, Placed
        <4>3. (r.pos - Len(b)) \in 0..(Len(content[r.file]) - Len(b))
          <5>1. PICK p, l, n \in Int : p = r.pos /\ l = Len(b) /\ n = Len(content[r.file])
            BY <4>1
          <5>2. l >= 0 /\ p \in 0..n /\ l <= p
            BY <4>1, <4>2, <5>1
          <5>3. (p - l) \in 0..(n - l)
            BY <5>2
          <5> QED
            BY <5>1, <5>3
        <4>4. Within(b, content[r.file])
          BY <4>2, <4>3 DEF Within
        <4>5. \E f \in Files : Within(b, content[f])
          BY <4>1, <4>4
        <4>6. Adjacent(b)
          BY <4>5 DEF Adjacent
        <4> QED
          BY <3>1, <4>6 DEF Adjacent, Within
      <3>4. ASSUME NEW m \in sent, Adjacent(m) PROVE Adjacent(m)'
        BY <3>1, <3>4 DEF Adjacent, Within
      <3>5. ASSUME NEW m \in sent, Followed(m) PROVE Followed(m)'
        BY <3>1, <3>5 DEF Followed
      <3>6. ASSUME NEW m \in sent'
            PROVE  /\ m # <<>> /\ Clean(m)
                   /\ ~mode.regex => ~m[1].mark
                   /\ Truncated \/ Adjacent(m)'
        <4>1. CASE m \in sent
          BY <1>0, <3>4, <4>1 DEF Grouped, SentInv
        <4>2. CASE m = r.buffer
          BY <2>1, <3>2, <3>3, <4>2
        <4> QED
          BY <2>6, <4>1, <4>2
      <3> QED
        BY <1>1, <3>1, <3>6 DEF SentInv
    <2> QED
      BY <1>1, <2>7, <2>10, <2>11, <2>12, <2>13, <2>14, WorkStep DEF Sane
  <1>4. CASE FlushRecord(k) /\ table[k] = Null
    BY <1>4, NullIs DEF FlushRecord
  <1> QED
    BY <1>2, <1>3, <1>4 DEF flush

-----------------------------------------------------------------------------
(* Theorems *)

\* Every step of a monitor thread keeps the invariant.
LEMMA MonitorStep ==
    ASSUME IInv, NEW t \in Monitors, Monitor(t)
    PROVE  IInv'
  <1>1. CASE FollowEmptyPointer(t)
    BY <1>1, EmptyPointerStep DEF FollowEmptyPointer
  <1> QED
    BY <1>1, TakeStep, OpenFailsStep, processStep, ReadStep, SaveStep, moveStep,
       removeStep DEF Monitor

\* Every step keeps the invariant.
LEMMA NextStep ==
    IInv /\ [Next]_vars => IInv'
  <1> SUFFICES ASSUME IInv, [Next]_vars PROVE IInv'
    OBVIOUS
  <1>1. ASSUME NEW t \in mode.monitors, Monitor(t) PROVE IInv'
    <2>1. t \in Monitors
      BY ModesAssumption DEF IInv, TypeOK, ModeSet
    <2> QED
      BY <1>1, <2>1, MonitorStep
  <1>2. CASE UNCHANGED vars
    <2>1. /\ TypeOK' /\ UnitsInv' /\ ShapesInv' /\ ReadingInv'
      BY <1>2 DEF IInv, vars, TypeOK, UnitsInv, ShapesInv, Shaped, ReadingInv, CurrentKey,
                  Current
    <2>2. Grows
      BY <1>2 DEF IInv, TypeOK, Grows, vars, posVars, threadVars, sentVars
    <2>3. KeptInv'
      BY <1>2 DEF IInv, vars, KeptInv, Kept
    <2> QED
      BY <2>1, <2>2, <2>3, GrowthKeeps DEF IInv
  <1>3. CASE Next
    BY <1>1, <1>3, AppendStep, RenameStep, ReopenStep, UnlinkStep, TruncateStep,
       StartStep, StopStep, CrashStep, flushStep DEF Next
  <1> QED
    BY <1>2, <1>3

\* The inductive invariant holds in every reachable state.
THEOREM Inductive ==
    Spec => []IInv
  BY InitIInv, NextStep, PTL DEF Spec

\* The tail input's variables keep their types, and a thread inside process()
\* has its entry in the table, whatever the other threads, the timer and the
\* file system do.
THEOREM TypeCorrect ==
    Spec => []TypeOK
  <1>1. IInv => TypeOK
    BY DEF IInv
  <1> QED
    BY <1>1, Inductive, PTL

\* Messages are adjacent text of one file and, with startmsg_regex, cut at marks
\* only, for files, reads and writes of any size: processBuffer and m_buffer put
\* together again what reads take apart.
THEOREM OnlyWholeMessages ==
    Spec => []MessagesAreWhole
  <1>1. IInv => MessagesAreWhole
    <2> SUFFICES ASSUME IInv PROVE MessagesAreWhole
      OBVIOUS
    <2>0. TypeOK /\ SentInv /\ UnitsInv
      BY DEF IInv
    <2>1. ASSUME NEW m \in sent, ~Truncated PROVE \E f \in Files : Within(m, content[f])
      BY <2>0, <2>1 DEF SentInv, Adjacent
    <2>2. ASSUME NEW m \in sent, mode.regex PROVE \A i \in 2..Len(m) : ~m[i].mark
      BY <2>0 DEF SentInv, Clean
    <2>3. ASSUME NEW m \in sent, mode.regex, ~mode.timer, ~Truncated,
                 NEW f \in Files, NEW i \in 2..Len(content[f]),
                 content[f][i - 1] = m[Len(m)]
          PROVE  content[f][i].mark
      <3>1. Followed(m)
        BY <2>0, <2>3 DEF SentInv
      <3>2. PICK g \in Files : \E j \in 1..(Len(content[g]) - 1) :
               content[g][j] = m[Len(m)] /\ content[g][j + 1].mark
        BY <3>1 DEF Followed
      <3>3. PICK j \in 1..(Len(content[g]) - 1) :
               content[g][j] = m[Len(m)] /\ content[g][j + 1].mark
        BY <3>2
      <3>4. Len(content[f]) \in Nat /\ Len(content[g]) \in Nat
        BY <2>0 DEF TypeOK
      <3>5. i - 1 \in 1..Len(content[f]) /\ j \in 1..Len(content[g])
        BY <3>4
      <3>6. content[f][i - 1].n = content[g][j].n
        BY <2>3, <3>3
      <3>7. f = g /\ i - 1 = j
        BY <2>0, <3>5, <3>6 DEF UnitsInv
      <3>8. j + 1 = i
        BY <3>4, <3>7
      <3> QED
        BY <3>3, <3>7, <3>8
    <2> QED
      BY <2>1, <2>2, <2>3 DEF MessagesAreWhole, Truncated
  <1> QED
    BY <1>1, Inductive, PTL

\* What lies before a record's position has been handed on or waits in its
\* buffer, also when the position was saved by a process that was stopped or
\* crashed at any point.
THEOREM NoUnitSkipped ==
    Spec => []NothingSkipped
  <1>1. IInv => NothingSkipped
    <2> SUFFICES ASSUME IInv, NEW k \in DOMAIN table, table[k] # Null,
                        ~mode.followOnly, ~Truncated,
                        ~(Restarted /\ (Renamed \/ "unlink" \in troubles)),
                        NEW i \in 1..(table[k].pos - Len(table[k].buffer))
                 PROVE  content[table[k].file][i] \notin Unread
      BY DEF NothingSkipped, Truncated
    <2>1. HandedInv
      BY DEF IInv
    <2>2. ~Restarted \/ Kept
      BY DEF Renamed, Kept
    <2>3. Handed(table[k].file, table[k].pos - Len(table[k].buffer))
      BY <2>1, <2>2 DEF HandedInv
    <2> QED
      BY <2>3 DEF Handed, Unread
  <1> QED
    BY <1>1, Inductive, PTL

-----------------------------------------------------------------------------
(* Nothing twice: the invariant *)

\* What AtMostOnce promises something for.
Good ==
    /\ troubles \subseteq {"rename", "stop"}
    /\ Restarted => ~Renamed /\ mode.saveState
    /\ Renamed => ~(Cardinality(mode.monitors) > 1)

\* A file with a name has one, and it was created before now.
FilesInv ==
    \A n \in Names : /\ dir[n] \in Files => path[dir[n]] = n
                     /\ dir[n] <= appFile

\* The table is gone with the process, and a thread is in process() for a name to read.
IdleInv ==
    /\ ~up => table = Empty
    /\ \A t \in Monitors : pc[t] \in {"read", "save"} => Current(t).type \in Reading

\* Events for the live name that are no move.
Quiet(s) == \A i \in 1..Len(s) : s[i].name = Live /\ s[i].type # "MOVE"

NoDelete(s) == \A i \in 1..Len(s) : s[i].type # "DELETE"

\* No event removes a record, and none is about another name or a move before there
\* was a rename.
EventsInv ==
    /\ NoDelete(initQueue) /\ NoDelete(eventQueue) /\ \A t \in Monitors : NoDelete(bulk[t])
    /\ Kept => /\ Quiet(initQueue) /\ Quiet(eventQueue)
               /\ \A t \in Monitors : Quiet(bulk[t])

\* The next event that is not one for the live name is the move away from it.
MoveAhead(s) ==
    \E i \in 1..Len(s) :
        /\ s[i] = Event("MOVE", Live)
        /\ \A j \in 1..(i - 1) : s[j].name = Live /\ s[j].type # "MOVE"

\* Every record is under the present name of its file ...
AtHome ==
    \A k \in DOMAIN table : table[k] # Null => k = Key(k.name) /\ dir[k.name] = table[k].file

\* ... or the only one is under the old name, and whoever looks at events will meet the
\* move before any event for the new name.
MoveFirst(t) == MoveAhead(bulk[t]) \/ (Quiet(bulk[t]) /\ MoveAhead(eventQueue))

Pending ==
    /\ DOMAIN table = {Key(Live)} /\ table[Key(Live)].file = 1
    /\ \E b \in Names \ {Live} : dir[b] = 1
    /\ Quiet(initQueue)
    /\ \A t \in mode.monitors : MoveFirst(t)

HomeInv ==
    /\ AtHome \/ Pending
    /\ Kept => \A k \in DOMAIN table : table[k] # Null

\* No unit of f behind p was handed on.
Ahead(f, p) == \A i \in 1..Len(content[f]) : i > p => content[f][i] \notin UnitsOf(sent)

\* A file without a record, and where a record of it would begin.
Unopened(f) == \A k \in DOMAIN table : table[k].file # f

StartAt ==
    LET saved == IF up THEN loaded ELSE disk IN
    IF Restarted /\ Key(Live) \in DOMAIN saved THEN saved[Key(Live)] ELSE 0

RecordsAhead ==
    \A k \in DOMAIN table :
        table[k] # Null => Ahead(table[k].file, table[k].pos - Len(table[k].buffer))

UnopenedAhead ==
    \A f \in Files : Unopened(f) /\ (Restarted => f = 1) => Ahead(f, StartAt)

\* Between two events the position on disk is that of the record.
SavedAhead ==
    mode.saveState /\ Kept /\ Key(Live) \in DOMAIN table /\ ~Locked(Key(Live)) =>
        Key(Live) \in DOMAIN disk /\ Ahead(1, disk[Key(Live)])

SentOnce == again = {} /\ \A u \in UnitsOf(sent) : u.n <= written

AheadInv == SentOnce /\ RecordsAhead /\ UnopenedAhead /\ SavedAhead

OnceInv ==
    /\ FilesInv /\ IdleInv
    /\ Good => EventsInv /\ HomeInv /\ AheadInv

\* While the process runs, the disk has a position of the live file only once the
\* file was looked at: the start removed the one it had.
DiskInv ==
    Good /\ Kept /\ up /\ Key(Live) \notin DOMAIN table => Key(Live) \notin DOMAIN disk

-----------------------------------------------------------------------------
(* Nothing twice: queues *)

\* The queue with new events behind it.
LEMMA LongerQueue ==
    ASSUME NEW s \in Seq(Events), NEW e \in Seq(Events)
    PROVE  /\ NoDelete(s) /\ NoDelete(e) => NoDelete(s \o e)
           /\ Quiet(s) /\ Quiet(e) => Quiet(s \o e)
           /\ MoveAhead(s) => MoveAhead(s \o e)
           /\ Quiet(s) /\ MoveAhead(e) => MoveAhead(s \o e)
  <1> DEFINE q == s \o e
             m == Len(s)
             n == Len(e)
  <1>1. /\ m \in Nat /\ n \in Nat /\ Len(q) = m + n
        /\ \A i \in 1..m : q[i] = s[i]
        /\ \A i \in 1..n : q[m + i] = e[i]
    OBVIOUS
  <1> HIDE DEF q, m, n
  <1>2. \A i \in 1..Len(q) : i \in 1..m \/ \E j \in 1..n : i = m + j
    <2> SUFFICES ASSUME NEW i \in 1..Len(q), ~(i \in 1..m)
                 PROVE  i - m \in 1..n /\ i = m + (i - m)
      BY Zenon
    <2> QED
      BY <1>1
  <1>3. NoDelete(s) /\ NoDelete(e) => NoDelete(q)
    BY <1>1, <1>2 DEF NoDelete, m, n
  <1>4. ASSUME Quiet(s), Quiet(e) PROVE Quiet(q)
    <2>1. ASSUME NEW i \in 1..m PROVE q[i].name = Live /\ q[i].type # "MOVE"
      BY <1>1, <1>4 DEF Quiet, m
    <2>2. ASSUME NEW i \in 1..n PROVE q[m + i].name = Live /\ q[m + i].type # "MOVE"
      BY <1>1, <1>4 DEF Quiet, n
    <2> QED
      BY <1>2, <2>1, <2>2 DEF Quiet
  <1>5. ASSUME MoveAhead(s) PROVE MoveAhead(q)
    <2>1. PICK i \in 1..m : /\ s[i] = Event("MOVE", Live)
                            /\ \A j \in 1..(i - 1) : s[j].name = Live /\ s[j].type # "MOVE"
      BY <1>5 DEF MoveAhead, m
    <2>2. i \in 1..Len(q) /\ q[i] = s[i] /\ \A j \in 1..(i - 1) : q[j] = s[j]
      BY <1>1
    <2> QED
      BY <2>1, <2>2 DEF MoveAhead
  <1>6. ASSUME Quiet(s), MoveAhead(e) PROVE MoveAhead(q)
    <2>1. PICK i \in 1..n : /\ e[i] = Event("MOVE", Live)
                            /\ \A j \in 1..(i - 1) : e[j].name = Live /\ e[j].type # "MOVE"
      BY <1>6 DEF MoveAhead, n
    <2>2. m + i \in 1..Len(q) /\ q[m + i] = e[i]
      BY <1>1
    <2>3. ASSUME NEW j \in 1..((m + i) - 1) PROVE q[j].name = Live /\ q[j].type # "MOVE"
      <3>1. CASE j \in 1..m
        BY <1>1, <1>6, <3>1 DEF Quiet, m
      <3>2. CASE ~(j \in 1..m)
        <4>1. j - m \in 1..(i - 1) /\ j - m \in 1..n /\ m + (j - m) = j
          BY <1>1, <3>2
        <4> QED
          BY <1>1, <2>1, <4>1
      <3> QED
        BY <3>1, <3>2
    <2>4. q[m + i] = Event("MOVE", Live)
      BY <2>1, <2>2
    <2> HIDE DEF MoveAhead
    <2> QED
      BY <2>2, <2>3, <2>4 DEF MoveAhead
  <1> QED
    BY <1>3, <1>4, <1>5, <1>6 DEF q

\* A queue without its first event.
LEMMA RestOfEvents ==
    ASSUME NEW s \in Seq(Events), s # <<>>
    PROVE  /\ NoDelete(s) => NoDelete(Tail(s)) /\ Head(s).type # "DELETE"
           /\ Quiet(s) => Quiet(Tail(s)) /\ Head(s).name = Live /\ Head(s).type # "MOVE"
           /\ MoveAhead(s) => Head(s).name = Live
           /\ MoveAhead(s) /\ Head(s).type # "MOVE" => MoveAhead(Tail(s))
  <1> DEFINE q == Tail(s)
             n == Len(s)
  <1>1. /\ n \in Nat \ {0} /\ Len(q) = n - 1 /\ Head(s) = s[1] /\ 1 \in 1..n
        /\ \A i \in 1..(n - 1) : q[i] = s[i + 1] /\ i + 1 \in 1..n
    OBVIOUS
  <1> HIDE DEF q, n
  <1>2. NoDelete(s) => NoDelete(q) /\ Head(s).type # "DELETE"
    BY <1>1 DEF NoDelete, n
  <1>3. Quiet(s) => Quiet(q) /\ Head(s).name = Live /\ Head(s).type # "MOVE"
    BY <1>1 DEF Quiet, n
  <1>4. ASSUME MoveAhead(s)
        PROVE  Head(s).name = Live /\ (Head(s).type # "MOVE" => MoveAhead(q))
    <2>1. PICK i \in 1..n : /\ s[i] = Event("MOVE", Live)
                            /\ \A j \in 1..(i - 1) : s[j].name = Live /\ s[j].type # "MOVE"
      BY <1>4 DEF MoveAhead, n
    <2>2. CASE i = 1
      BY <1>1, <2>1, <2>2 DEF Event
    <2>3. CASE i # 1
      <3>1. 1 \in 1..(i - 1) /\ i - 1 \in 1..(n - 1) /\ (i - 1) + 1 = i
        BY <1>1, <2>3
      <3>2. q[i - 1] = Event("MOVE", Live)
        BY <1>1, <2>1, <3>1
      <3>3. ASSUME NEW j \in 1..((i - 1) - 1) PROVE q[j].name = Live /\ q[j].type # "MOVE"
        <4>1. j + 1 \in 1..(i - 1) /\ j \in 1..(n - 1)
          BY <1>1, <2>3
        <4> QED
          BY <1>1, <2>1, <4>1
      <3>4. i - 1 \in 1..Len(q)
        BY <1>1, <3>1
      <3>5. MoveAhead(q)
        BY <3>2, <3>3, <3>4 DEF MoveAhead
      <3> QED
        BY <1>1, <2>1, <3>1, <3>5
    <2> QED
      BY <2>2, <2>3
  <1> QED
    BY <1>2, <1>3, <1>4 DEF q

\* What a thread takes from a queue, and what it leaves.
LEMMA TakenEvents ==
    ASSUME NEW q \in Seq(Events), q # <<>>
    PROVE  /\ NoDelete(q) => NoDelete(First(q)) /\ NoDelete(Rest(q))
           /\ Quiet(q) => Quiet(First(q)) /\ Quiet(Rest(q))
           /\ MoveAhead(q) => MoveAhead(First(q)) \/ (Quiet(First(q)) /\ MoveAhead(Rest(q)))
  <1> DEFINE n == Min({EventBulk, Len(q)})
             a == First(q)
             b == Rest(q)
             m == Len(q)
  <1>1. n \in Nat /\ n <= m /\ m \in Nat
    BY BoundsAssumption, MinOfTwo
  <1> HIDE DEF n
  <1>2. /\ Len(a) = n /\ \A i \in 1..n : a[i] = q[i]
        /\ Len(b) = m - n /\ \A i \in 1..(m - n) : b[i] = q[n + i] /\ n + i \in 1..m
    <2>1. a = SubSeq(q, 1, n) /\ b = SubSeq(q, n + 1, m)
      BY DEF First, Rest, n
    <2> HIDE DEF a, b
    <2> QED
      BY <1>1, <2>1
  <1> HIDE DEF a, b, m
  <1>3. \A i \in 1..n : i \in 1..m
    BY <1>1
  <1>4. NoDelete(q) => NoDelete(a) /\ NoDelete(b)
    BY <1>2, <1>3 DEF NoDelete, m
  <1>5. ASSUME Quiet(q) PROVE Quiet(a) /\ Quiet(b)
    <2>1. Quiet(a)
      BY <1>2, <1>3, <1>5 DEF Quiet, m
    <2>2. Quiet(b)
      BY <1>2, <1>5 DEF Quiet, m
    <2> QED
      BY <2>1, <2>2
  <1>6. ASSUME MoveAhead(q) PROVE MoveAhead(a) \/ (Quiet(a) /\ MoveAhead(b))
    <2>1. PICK i \in 1..m : /\ q[i] = Event("MOVE", Live)
                            /\ \A j \in 1..(i - 1) : q[j].name = Live /\ q[j].type # "MOVE"
      BY <1>6 DEF MoveAhead, m
    <2>2. CASE i \in 1..n
      <3>1. i \in 1..Len(a) /\ a[i] = q[i] /\ \A j \in 1..(i - 1) : a[j] = q[j]
        BY <1>1, <1>2, <2>2
      <3> QED
        BY <2>1, <3>1 DEF MoveAhead
    <2>3. CASE ~(i \in 1..n)
      <3>1. i - n \in 1..(m - n) /\ n + (i - n) = i /\ \A j \in 1..n : j \in 1..(i - 1)
        BY <1>1, <2>3
      <3>2. Quiet(a)
        BY <1>2, <2>1, <3>1 DEF Quiet
      <3>3. b[i - n] = Event("MOVE", Live) /\ i - n \in 1..Len(b)
        BY <1>2, <2>1, <3>1
      <3>4. ASSUME NEW j \in 1..((i - n) - 1) PROVE b[j].name = Live /\ b[j].type # "MOVE"
        <4>1. j \in 1..(m - n) /\ n + j \in 1..(i - 1)
          BY <1>1, <2>3
        <4> QED
          BY <1>2, <2>1, <4>1
      <3>5. MoveAhead(b)
        BY <3>3, <3>4 DEF MoveAhead
      <3> QED
        BY <3>2, <3>5
    <2> QED
      BY <2>2, <2>3
  <1> QED
    BY <1>4, <1>5, <1>6 DEF a, b

-----------------------------------------------------------------------------
(* Nothing twice: the troubles *)

\* Troubles that were not good do not become so.
LEMMA GoodBefore ==
    ASSUME troubles \subseteq troubles', mode' = mode, Good'
    PROVE  Good
  BY DEF Good, Restarted, Renamed

\* In good times names are kept until a rename, and files only grow.
LEMMA GoodIs ==
    ASSUME Good
    PROVE  /\ ~Truncated
           /\ Kept \/ "rename" \in troubles
           /\ "rename" \in troubles => Renamed /\ ~Restarted
           /\ Restarted => Kept /\ mode.saveState
  BY DEF Good, Truncated, Kept, Restarted, Renamed

\* After a rename there is one monitor thread at most.
LEMMA OneMonitor ==
    ASSUME TypeOK, Good, Renamed, NEW t \in mode.monitors, NEW s \in mode.monitors
    PROVE  s = t
  <1> SUFFICES ASSUME s # t PROVE FALSE
    OBVIOUS
  <1>1. mode.monitors \subseteq Monitors
    BY ModesAssumption DEF TypeOK, ModeSet
  <1>2. IsFiniteSet(mode.monitors)
    BY <1>1, MonitorsAssumption, FS_Subset
  <1>3. Cardinality({s} \cup {t}) = 2
    <2>1. IsFiniteSet({s}) /\ Cardinality({s}) = 1 /\ t \notin {s}
      BY FS_Singleton
    <2>2. Cardinality({s} \cup {t}) = Cardinality({s}) + 1
      BY <2>1, FS_AddElement
    <2> QED
      BY <2>1, <2>2
  <1>4. {s} \cup {t} \subseteq mode.monitors
    OBVIOUS
  <1>5. 2 <= Cardinality(mode.monitors) /\ Cardinality(mode.monitors) \in Nat
    BY <1>2, <1>3, <1>4, FS_Subset, FS_CardinalityType
  <1> QED
    BY <1>5 DEF Good

-----------------------------------------------------------------------------
(* Nothing twice: records and their names *)

\* What of the table a step of a thread or of the timer may change: a record stays
\* under its name, or is a new one under the present name of its file.
Settled ==
    \A k \in DOMAIN table' :
        \/ table'[k] = Null
        \/ /\ k \in DOMAIN table /\ table[k] # Null
           /\ table'[k].file = table[k].file
        \/ k = Key(k.name) /\ dir[k.name] = table'[k].file

\* Where every record is under the present name of its file, it stays so.
LEMMA HomeKept ==
    ASSUME AtHome, Settled, dir' = dir
    PROVE  AtHome'
  BY DEF AtHome, Settled

\* A name has one file, and a file one name.
LEMMA OneName ==
    ASSUME FilesInv, NEW m \in Names, NEW n \in Names, dir[m] = dir[n], dir[m] \in Files
    PROVE  m = n
  BY DEF FilesInv

\* Two records are of two files.
LEMMA Distinct ==
    ASSUME IInv, FilesInv, HomeInv, NEW k \in DOMAIN table, NEW l \in DOMAIN table,
           table[k] # Null, table[l] # Null, table[k].file = table[l].file
    PROVE  k = l
  <1>1. TypeOK /\ ShapesInv
    BY DEF IInv
  <1>2. k \in Keys /\ l \in Keys /\ table[k].file \in Files
    BY <1>1 DEF TypeOK, ShapesInv, Shaped
  <1>3. k.name \in Names /\ l.name \in Names
    BY <1>2 DEF Keys
  <1>4. CASE AtHome
    <2>1. /\ k = Key(k.name) /\ dir[k.name] = table[k].file
          /\ l = Key(l.name) /\ dir[l.name] = table[l].file
      BY <1>4 DEF AtHome
    <2>2. k.name = l.name
      BY <1>2, <1>3, <2>1, OneName
    <2> QED
      BY <2>1, <2>2
  <1>5. CASE Pending
    BY <1>5 DEF Pending
  <1> QED
    BY <1>4, <1>5 DEF HomeInv

\* Before a rename the only record is that of the live name.
LEMMA KeptKey ==
    ASSUME IInv, HomeInv, Kept, NEW k \in DOMAIN table
    PROVE  k = Key(Live) /\ table[k] # Null /\ table[k].file = 1
  <1>1. TypeOK /\ KeptInv
    BY DEF IInv
  <1>2. table[k] # Null
    BY DEF HomeInv
  <1>3. table[k].file = 1 /\ \A n \in Names : dir[n] = 1 => n = Live
    BY <1>1, <1>2, NoFileIsNoFile DEF KeptInv
  <1>4. k \in Keys /\ k.name \in Names
    BY <1>1 DEF TypeOK, Keys
  <1>5. ~Pending
    BY <1>3 DEF Pending
  <1>6. k = Key(k.name) /\ dir[k.name] = 1
    BY <1>2, <1>3, <1>5 DEF HomeInv, AtHome
  <1> QED
    BY <1>2, <1>3, <1>4, <1>6

\* While a move is to come, what a thread is at is the live name.
LEMMA PendingName ==
    ASSUME TypeOK, Pending, NEW t \in Monitors, t \in mode.monitors, bulk[t] # <<>>
    PROVE  /\ Current(t).name = Live /\ CurrentKey(t) = Key(Live)
           /\ CurrentKey(t) \in DOMAIN table
  <1>1. bulk[t] \in Seq(Events) /\ MoveFirst(t)
    BY DEF TypeOK, Pending
  <1>2. Head(bulk[t]).name = Live
    BY <1>1, RestOfEvents DEF MoveFirst
  <1> QED
    BY <1>2 DEF Current, CurrentKey, Pending

\* An event that is no move brings the move nearer.
LEMMA PendingNext ==
    ASSUME TypeOK, Pending, NEW t \in Monitors, t \in mode.monitors, bulk[t] # <<>>,
           Current(t).type # "MOVE", bulk' = [bulk EXCEPT ![t] = Tail(@)],
           eventQueue' = eventQueue, mode' = mode
    PROVE  \A s \in mode'.monitors : MoveFirst(s)'
  <1>1. bulk[t] \in Seq(Events) /\ MoveFirst(t)
    BY DEF TypeOK, Pending
  <1>2. bulk'[t] = Tail(bulk[t]) /\ \A s \in Monitors \ {t} : bulk'[s] = bulk[s]
    BY DEF TypeOK
  <1>3. MoveFirst(t)'
    BY <1>1, <1>2, RestOfEvents DEF MoveFirst, Current
  <1>4. mode.monitors \subseteq Monitors
    BY ModesAssumption DEF TypeOK, ModeSet
  <1>5. ASSUME NEW s \in mode.monitors, s # t PROVE MoveFirst(s)'
    BY <1>2, <1>4, <1>5 DEF MoveFirst, Pending
  <1> QED
    BY <1>3, <1>5

\* What a thread or the timer does to the table leaves the records at home, or the
\* move to come.
LEMMA HomeStep ==
    ASSUME IInv, HomeInv, Settled,
           UNCHANGED <<mode, dir, troubles, initQueue>>,
           Pending => /\ DOMAIN table' = DOMAIN table
                      /\ table'[Key(Live)].file = table[Key(Live)].file
                      /\ \A s \in mode'.monitors : MoveFirst(s)',
           Kept => \A k \in DOMAIN table' : table'[k] # Null
    PROVE  HomeInv'
  <1>1. AtHome => AtHome'
    BY HomeKept
  <1>2. ASSUME Pending PROVE Pending'
    BY <1>2 DEF Pending
  <1>3. Kept' = Kept
    BY DEF Kept
  <1> QED
    BY <1>1, <1>2, <1>3 DEF HomeInv

\* The events that are left are events that were there.
LEMMA EventsStep ==
    ASSUME TypeOK, EventsInv, NEW t \in Monitors,
           UNCHANGED <<troubles, initQueue, eventQueue>>,
           \/ bulk' = bulk
           \/ bulk' = [bulk EXCEPT ![t] = <<>>]
           \/ bulk[t] # <<>> /\ bulk' = [bulk EXCEPT ![t] = Tail(@)]
    PROVE  EventsInv'
  <1>1. bulk[t] \in Seq(Events) /\ Kept' = Kept
    BY DEF TypeOK, Kept
  <1>2. ASSUME NEW s \in Monitors
        PROVE  \/ bulk'[s] = bulk[s] \/ bulk'[s] = <<>>
               \/ s = t /\ bulk[t] # <<>> /\ bulk'[s] = Tail(bulk[t])
    BY DEF TypeOK
  <1>3. NoDelete(<<>>) /\ Quiet(<<>>)
    BY DEF NoDelete, Quiet
  <1>4. ASSUME NEW s \in Monitors
        PROVE  NoDelete(bulk'[s]) /\ (Kept => Quiet(bulk'[s]))
    BY <1>1, <1>2, <1>3, RestOfEvents DEF EventsInv
  <1> QED
    BY <1>1, <1>4 DEF EventsInv

-----------------------------------------------------------------------------
(* Nothing twice: positions *)

\* What was not handed on is not when nothing is.
LEMMA SilentAhead ==
    ASSUME content' = content, sent' = sent, NEW f, NEW p
    PROVE  Ahead(f, p)' <=> Ahead(f, p)
  BY DEF Ahead

\* Further on there is less that could have been.
LEMMA FurtherAhead ==
    ASSUME TypeOK, NEW f \in Files, NEW p \in Int, NEW q \in Int, p <= q, Ahead(f, p)
    PROVE  Ahead(f, q)
  <1>1. Len(content[f]) \in Nat
    BY DEF TypeOK
  <1> QED
    BY <1>1 DEF Ahead

\* The step of a thread or of the timer: what has to be shown for it.
LEMMA OnceWork ==
    ASSUME OnceInv, up, Works,
           \A t \in Monitors : pc'[t] \in {"read", "save"} => Current(t)'.type \in Reading,
           Good => EventsInv' /\ HomeInv' /\ AheadInv'
    PROVE  OnceInv'
  <1>1. /\ mode' = mode /\ dir' = dir /\ path' = path /\ appFile' = appFile
        /\ troubles' = troubles /\ up' = up
    BY DEF Works, fsVars
  <1>2. FilesInv'
    BY <1>1 DEF OnceInv, FilesInv
  <1>3. IdleInv'
    BY <1>1 DEF IdleInv
  <1>4. Good' => Good
    BY <1>1, GoodBefore
  <1> QED
    BY <1>2, <1>3, <1>4 DEF OnceInv

\* A thread that reads or saves is at a name to read.
LEMMA AtReading ==
    ASSUME TypeOK, OnceInv, NEW t \in Monitors,
           \A s \in Monitors \ {t} : pc'[s] = pc[s] /\ bulk'[s] = bulk[s],
           pc'[t] \in {"read", "save"} => Current(t)'.type \in Reading
    PROVE  \A s \in Monitors : pc'[s] \in {"read", "save"} => Current(s)'.type \in Reading
  BY DEF OnceInv, IdleInv, Current

\* If nothing is handed on and no file loses its record, what has no record may still
\* be read from where it would be.
LEMMA SilentUnopened ==
    ASSUME Works, up, sent' = sent, again' = again, SentOnce, UnopenedAhead,
           \A f \in Files : Unopened(f)' => Unopened(f)
    PROVE  SentOnce' /\ UnopenedAhead'
  <1>1. content' = content /\ written' = written /\ troubles' = troubles /\ loaded' = loaded
        /\ up' = up
    BY DEF Works, fsVars
  <1>2. SentOnce'
    BY <1>1 DEF SentOnce
  <1>3. StartAt' = StartAt /\ Restarted' = Restarted
    BY <1>1 DEF StartAt, Restarted
  <1>4. UnopenedAhead'
    BY <1>1, <1>3 DEF UnopenedAhead, Ahead
  <1> QED
    BY <1>2, <1>4

\* The threads in process() are the same.
LEMMA SameLocks ==
    ASSUME \A t \in Monitors :
               /\ pc'[t] \in {"read", "save"} <=> pc[t] \in {"read", "save"}
               /\ pc[t] \in {"read", "save"} => bulk'[t] = bulk[t],
           NEW k
    PROVE  Locked(k)' <=> Locked(k)
  BY DEF Locked, CurrentKey, Current

\* A thread takes events.
LEMMA TakeOnce ==
    ASSUME IInv, OnceInv, NEW t \in Monitors, t \in mode.monitors, Take(t)
    PROVE  OnceInv'
  <1>0. TypeOK
    BY DEF IInv
  <1>1. /\ up /\ pc[t] = "run" /\ bulk[t] = <<>> /\ Works
        /\ sent' = sent /\ again' = again
        /\ pc' = pc /\ table' = table /\ disk' = disk
        /\ mode' = mode /\ dir' = dir /\ troubles' = troubles /\ content' = content
    BY DEF Take, Works, fsVars, posVars, sentVars
  <1>2. \/ /\ initQueue # <<>> /\ bulk' = [bulk EXCEPT ![t] = First(initQueue)]
           /\ initQueue' = Rest(initQueue) /\ eventQueue' = eventQueue
        \/ /\ eventQueue # <<>> /\ bulk' = [bulk EXCEPT ![t] = First(eventQueue)]
           /\ eventQueue' = Rest(eventQueue) /\ initQueue' = initQueue
    BY DEF Take
  <1>3. \A s \in Monitors \ {t} : bulk'[s] = bulk[s]
    BY <1>0, <1>2 DEF TypeOK
  <1>4. initQueue \in Seq(Events) /\ eventQueue \in Seq(Events) /\ t \in DOMAIN bulk
    BY <1>0 DEF TypeOK
  <1>5. \A s \in Monitors : pc'[s] \in {"read", "save"} => Current(s)'.type \in Reading
    BY <1>0, <1>1, <1>3, AtReading
  <1>6. ASSUME Good PROVE EventsInv'
    <2>1. EventsInv /\ Kept' = Kept
      BY <1>1, <1>6 DEF OnceInv, Kept
    <2>2. /\ NoDelete(initQueue') /\ NoDelete(eventQueue') /\ NoDelete(bulk'[t])
          /\ Kept => Quiet(initQueue') /\ Quiet(eventQueue') /\ Quiet(bulk'[t])
      BY <1>2, <1>4, <2>1, TakenEvents DEF EventsInv
    <2> QED
      BY <1>3, <2>1, <2>2 DEF EventsInv
  <1>7. ASSUME Good PROVE HomeInv'
    <2>1. HomeInv
      BY <1>7 DEF OnceInv
    <2>2. AtHome => AtHome'
      BY <1>1 DEF AtHome
    <2>3. ASSUME Pending PROVE Pending'
      <3>1. Renamed
        <4>1. ~Kept
          BY <2>3, NoFileIsNoFile DEF IInv, KeptInv, Pending
        <4> QED
          BY <1>7, <4>1, GoodIs
      <3>2. \A s \in mode.monitors : s = t
        BY <1>0, <1>7, <3>1, OneMonitor
      <3>3. MoveFirst(t) /\ ~MoveAhead(<<>>) /\ Quiet(initQueue)
        BY <2>3 DEF Pending, MoveAhead
      <3>4. MoveAhead(eventQueue)
        BY <1>1, <3>3 DEF MoveFirst
      <3>5. MoveFirst(t)' /\ Quiet(initQueue')
        BY <1>2, <1>4, <3>3, <3>4, TakenEvents DEF MoveFirst
      <3> QED
        BY <1>1, <2>3, <3>2, <3>5 DEF Pending
    <2> QED
      BY <1>1, <2>1, <2>2, <2>3 DEF HomeInv, Kept
  <1>8. ASSUME Good PROVE AheadInv'
    <2>1. AheadInv
      BY <1>8 DEF OnceInv
    <2>2. SentOnce' /\ UnopenedAhead'
      BY <1>1, <2>1, SilentUnopened DEF AheadInv, Unopened
    <2>3. RecordsAhead'
      BY <1>1, <2>1 DEF AheadInv, RecordsAhead, Ahead
    <2>4. Locked(Key(Live))' <=> Locked(Key(Live))
      BY <1>1, <1>3, SameLocks
    <2>5. SavedAhead'
      BY <1>1, <2>1, <2>4 DEF AheadInv, SavedAhead, Kept, Ahead
    <2> QED
      BY <2>2, <2>3, <2>5 DEF AheadInv
  <1> QED
    BY <1>1, <1>5, <1>6, <1>7, <1>8, OnceWork

\* A thread ends because the file cannot be opened: after a rename, and no file
\* loses its record.
LEMMA OpenFailsOnce ==
    ASSUME IInv, OnceInv, NEW t \in Monitors, t \in mode.monitors, OpenFails(t)
    PROVE  OnceInv'
  <1> DEFINE k == CurrentKey(t)
  <1>0. TypeOK
    BY DEF IInv
  <1>1. /\ up /\ bulk[t] # <<>> /\ Works /\ sent' = sent /\ again' = again
        /\ k \notin DOMAIN table /\ dir[Current(t).name] = NoFile
        /\ table' = With(table, k, Null)
        /\ bulk' = [bulk EXCEPT ![t] = <<>>] /\ pc' = [pc EXCEPT ![t] = "dead"]
        /\ initQueue' = initQueue /\ eventQueue' = eventQueue /\ disk' = disk
        /\ mode' = mode /\ dir' = dir /\ troubles' = troubles /\ content' = content
    BY DEF OpenFails, Working, Works, fsVars, posVars, sentVars, queueVars
  <1>2. /\ pc'[t] = "dead"
        /\ \A s \in Monitors \ {t} : pc'[s] = pc[s] /\ bulk'[s] = bulk[s]
    BY <1>0, <1>1 DEF TypeOK
  <1>3. \A s \in Monitors : pc'[s] \in {"read", "save"} => Current(s)'.type \in Reading
    BY <1>0, <1>2, AtReading
  <1> HIDE DEF k
  <1>4. /\ DOMAIN table' = DOMAIN table \cup {k} /\ table'[k] = Null
        /\ \A l \in DOMAIN table : table'[l] = table[l]
    BY <1>1 DEF With
  <1>5. ASSUME Good PROVE ~Kept /\ ~Pending
    <2>1. ASSUME Kept PROVE FALSE
      <3>1. Quiet(bulk[t]) /\ bulk[t] \in Seq(Events)
        BY <1>0, <1>5, <2>1 DEF OnceInv, EventsInv, TypeOK
      <3>2. Current(t).name = Live
        BY <1>1, <3>1, RestOfEvents DEF Current
      <3>3. dir[Live] = 1
        BY <2>1, NamesAssumption DEF IInv, KeptInv
      <3> QED
        BY <1>1, <3>2, <3>3, NoFileIsNoFile
    <2>2. ~Pending
      BY <1>0, <1>1, PendingName DEF k
    <2> QED
      BY <2>1, <2>2
  <1>6. ASSUME Good PROVE EventsInv'
    BY <1>0, <1>1, <1>6, EventsStep DEF OnceInv
  <1>7. ASSUME Good PROVE HomeInv'
    <2>1. Settled
      BY <1>4 DEF Settled
    <2> QED
      BY <1>1, <1>5, <1>7, <2>1, HomeStep DEF OnceInv
  <1>8. ASSUME Good PROVE AheadInv'
    <2>1. AheadInv
      BY <1>8 DEF OnceInv
    <2>2. \A f \in Files : Unopened(f)' => Unopened(f)
      BY <1>4 DEF Unopened
    <2>3. SentOnce' /\ UnopenedAhead'
      BY <1>1, <2>1, <2>2, SilentUnopened DEF AheadInv
    <2>4. RecordsAhead'
      BY <1>1, <1>4, <2>1 DEF AheadInv, RecordsAhead, Ahead
    <2>5. SavedAhead'
      BY <1>1, <1>5, <1>8 DEF SavedAhead, Kept
    <2> QED
      BY <2>3, <2>4, <2>5 DEF AheadInv
  <1> QED
    BY <1>1, <1>3, <1>6, <1>7, <1>8, OnceWork

\* A thread saves the position of its record.
LEMMA SaveOnce ==
    ASSUME IInv, OnceInv, NEW t \in Monitors, t \in mode.monitors, Save(t)
    PROVE  OnceInv'
  <1> DEFINE k == CurrentKey(t)
             p == table[k].pos - Len(table[k].buffer)
  <1>0. TypeOK /\ HoldsEntry
    BY TypeHoldsEntry DEF IInv
  <1>1. /\ up /\ pc[t] = "save" /\ Works /\ sent' = sent /\ again' = again
        /\ disk' = (IF mode.saveState THEN With(disk, k, p) ELSE disk)
        /\ Finish(t) /\ table' = table
        /\ initQueue' = initQueue /\ eventQueue' = eventQueue
        /\ mode' = mode /\ dir' = dir /\ troubles' = troubles /\ content' = content
    BY DEF Save, savePosition, Works, fsVars, sentVars, queueVars
  <1>2. bulk[t] # <<>> /\ k \in DOMAIN table /\ Current(t).type \in Reading
    BY <1>0, <1>1 DEF HoldsEntry, OnceInv, IdleInv
  <1>3. /\ pc'[t] = "run" /\ bulk' = [bulk EXCEPT ![t] = Tail(@)]
        /\ \A s \in Monitors \ {t} : pc'[s] = pc[s] /\ bulk'[s] = bulk[s]
    BY <1>0, <1>1, <1>2, FinishType DEF Finish
  <1>4. \A s \in Monitors : pc'[s] \in {"read", "save"} => Current(s)'.type \in Reading
    BY <1>0, <1>3, AtReading
  <1> HIDE DEF k
  <1>5. ASSUME Good PROVE EventsInv'
    BY <1>0, <1>1, <1>2, <1>3, <1>5, EventsStep DEF OnceInv
  <1>6. ASSUME Good PROVE HomeInv'
    <2>1. Current(t).type # "MOVE"
      BY <1>2 DEF Reading
    <2>2. Pending => \A s \in mode'.monitors : MoveFirst(s)'
      BY <1>0, <1>1, <1>2, <1>3, <2>1, PendingNext
    <2>3. Settled
      BY <1>1 DEF Settled
    <2>4. HomeInv
      BY <1>6 DEF OnceInv
    <2> QED
      BY <1>1, <2>2, <2>3, <2>4, HomeStep DEF HomeInv
  <1>7. ASSUME Good PROVE AheadInv'
    <2>1. AheadInv /\ HomeInv
      BY <1>7 DEF OnceInv
    <2>2. SentOnce' /\ UnopenedAhead'
      BY <1>1, <2>1, SilentUnopened DEF AheadInv, Unopened
    <2>3. RecordsAhead'
      BY <1>1, <2>1 DEF AheadInv, RecordsAhead, Ahead
    <2>4. ASSUME mode.saveState, Kept PROVE Key(Live) \in DOMAIN disk' /\ Ahead(1, disk'[Key(Live)])
      <3>1. k = Key(Live) /\ table[k] # Null /\ table[k].file = 1
        BY <1>2, <2>1, <2>4, KeptKey
      <3>2. Ahead(1, p)
        BY <1>2, <2>1, <3>1 DEF AheadInv, RecordsAhead
      <3>3. k \in DOMAIN disk' /\ disk'[k] = p
        BY <1>1, <2>4 DEF With
      <3> QED
        BY <3>1, <3>2, <3>3
    <2>5. SavedAhead'
      BY <1>1, <2>4 DEF SavedAhead, Kept, Ahead
    <2> QED
      BY <2>2, <2>3, <2>5 DEF AheadInv
  <1> QED
    BY <1>1, <1>4, <1>5, <1>6, <1>7, OnceWork

\* An event that removes a record is not there.
LEMMA removeOnce ==
    ASSUME IInv, OnceInv, NEW t \in Monitors, t \in mode.monitors, remove(t)
    PROVE  OnceInv'
  <1>0. TypeOK
    BY DEF IInv
  <1>1. /\ up /\ bulk[t] # <<>> /\ Current(t).type = "DELETE" /\ Works /\ Finish(t)
    BY DEF remove, Working, Works, fsVars, sentVars
  <1>2. /\ pc'[t] = "run"
        /\ \A s \in Monitors \ {t} : pc'[s] = pc[s] /\ bulk'[s] = bulk[s]
    BY <1>0, <1>1, FinishType
  <1>3. \A s \in Monitors : pc'[s] \in {"read", "save"} => Current(s)'.type \in Reading
    BY <1>0, <1>2, AtReading
  <1>4. ~Good
    <2>1. bulk[t] \in Seq(Events)
      BY <1>0 DEF TypeOK
    <2> QED
      BY <1>1, <2>1, RestOfEvents DEF OnceInv, EventsInv, Current
  <1> QED
    BY <1>1, <1>3, <1>4, OnceWork

\* A record at home has nowhere to go.
LEMMA StaysAtHome ==
    ASSUME IInv, FilesInv, AtHome, NEW k \in DOMAIN table, table[k] # Null
    PROVE  getCurrentFileName(table[k].file) = k
  <1>1. table[k].file \in Files /\ k \in Keys
    BY DEF IInv, TypeOK, ShapesInv, Shaped
  <1>2. k.name \in Names
    BY <1>1 DEF Keys
  <1>3. k = Key(k.name) /\ dir[k.name] = table[k].file
    BY DEF AtHome
  <1>4. path[table[k].file] = k.name /\ Linked(table[k].file)
    BY <1>1, <1>2, <1>3 DEF FilesInv, Linked
  <1> QED
    BY <1>3, <1>4 DEF getCurrentFileName, Key

\* A move: the record follows its file, to a name that has none.
LEMMA moveOnce ==
    ASSUME IInv, OnceInv, NEW t \in Monitors, t \in mode.monitors, move(t)
    PROVE  OnceInv'
  <1> DEFINE k == CurrentKey(t)
             new == getCurrentFileName(table[k].file)
  <1>0. TypeOK /\ FilesInv
    BY DEF IInv, OnceInv
  <1>1. /\ up /\ bulk[t] # <<>> /\ Current(t).type = "MOVE" /\ Works /\ Finish(t)
        /\ sent' = sent /\ again' = again /\ disk' = disk
        /\ initQueue' = initQueue /\ eventQueue' = eventQueue
        /\ mode' = mode /\ dir' = dir /\ troubles' = troubles /\ content' = content
    BY DEF move, Working, Works, fsVars, posVars, sentVars, queueVars
  <1>2. \/ k \notin DOMAIN table /\ table' = table
        \/ k \in DOMAIN table /\ table[k] # Null /\ new = k /\ table' = table
        \/ /\ k \in DOMAIN table /\ table[k] # Null /\ new # k
           /\ table' = IF new \in DOMAIN table THEN Without(table, k)
                       ELSE With(Without(table, k), new, table[k])
    BY DEF move
  <1>3. /\ pc'[t] = "run" /\ bulk' = [bulk EXCEPT ![t] = Tail(@)]
        /\ \A s \in Monitors \ {t} : pc'[s] = pc[s] /\ bulk'[s] = bulk[s]
    BY ZenonT(60), <1>0, <1>1, FinishType DEF Finish
  <1>4. \A s \in Monitors : pc'[s] \in {"read", "save"} => Current(s)'.type \in Reading
    BY <1>0, <1>3, AtReading
  <1> HIDE DEF k
  <1>5. ASSUME Good PROVE EventsInv'
    BY <1>0, <1>1, <1>3, <1>5, EventsStep DEF OnceInv
  <1>6. ASSUME Good PROVE ~Kept
    <2>1. bulk[t] \in Seq(Events)
      BY <1>0 DEF TypeOK
    <2> QED
      BY <1>1, <1>6, <2>1, RestOfEvents DEF OnceInv, EventsInv, Current
  <1>7. ASSUME Good
        PROVE  /\ AtHome'
               /\ \A l \in DOMAIN table' : \E m \in DOMAIN table : table'[l] = table[m]
               /\ \A m \in DOMAIN table : \E l \in DOMAIN table' : table'[l] = table[m]
    <2>1. CASE AtHome
      <3>1. table' = table
        BY <1>0, <1>2, <2>1, StaysAtHome
      <3> QED
        BY <1>1, <2>1, <3>1 DEF AtHome
    <2>2. CASE Pending
      <3>1. k = Key(Live) /\ k \in DOMAIN table /\ DOMAIN table = {k} /\ table[k].file = 1
        BY <1>0, <1>1, <2>2, PendingName DEF k, Pending
      <3>2. PICK b \in Names \ {Live} : dir[b] = 1
        BY <2>2 DEF Pending
      <3>3. new = Key(b) /\ new # k
        <4>1. path[1] = b /\ Linked(1)
          BY <1>0, <3>2, NoFileIsNoFile DEF FilesInv, Linked
        <4> QED
          BY <3>1, <3>2, <4>1 DEF getCurrentFileName, Key
      <3> HIDE DEF new
      <3>4. new \notin DOMAIN table /\ table' = With(Without(table, k), new, table[k])
        BY <1>2, <3>1, <3>3
      <3>5. DOMAIN table' = {new} /\ table'[new] = table[k]
        BY <3>1, <3>4 DEF With, Without
      <3>6. AtHome'
        BY <1>1, <3>1, <3>2, <3>3, <3>5, KeyIsKey DEF AtHome
      <3> QED
        BY <3>1, <3>5, <3>6
    <2> QED
      BY <1>7, <2>1, <2>2 DEF OnceInv, HomeInv
  <1>8. ASSUME Good PROVE HomeInv'
    BY <1>1, <1>6, <1>7, <1>8 DEF HomeInv, Kept
  <1>9. ASSUME Good PROVE AheadInv'
    <2>1. AheadInv
      BY <1>9 DEF OnceInv
    <2>2. \A f \in Files : Unopened(f)' => Unopened(f)
      BY <1>7, <1>9 DEF Unopened
    <2>3. SentOnce' /\ UnopenedAhead'
      BY <1>1, <2>1, <2>2, SilentUnopened DEF AheadInv
    <2>4. RecordsAhead'
      BY <1>1, <1>7, <1>9, <2>1 DEF AheadInv, RecordsAhead, Ahead
    <2>5. SavedAhead'
      BY <1>1, <1>6, <1>9 DEF SavedAhead, Kept
    <2> QED
      BY <2>3, <2>4, <2>5 DEF AheadInv
  <1> QED
    BY <1>1, <1>4, <1>5, <1>8, <1>9, OnceWork

\* A record that is created is the only one of its file, and begins where nothing behind
\* it was handed on.
LEMMA CreatedOnce ==
    ASSUME IInv, OnceInv, Good, up, NEW t \in Monitors, t \in mode.monitors,
           bulk[t] # <<>>, CurrentKey(t) \notin DOMAIN table,
           NEW n \in Names, n = Current(t).name, dir[n] \in Files
    PROVE  /\ Unopened(dir[n])
           /\ createRecord(n).pos = StartAt
           /\ Ahead(dir[n], createRecord(n).pos)
           /\ createRecord(n).pos <= Len(content[dir[n]])
  <1> DEFINE f == dir[n]
             r == createRecord(n)
             pos == IF mode.saveState THEN getSavedPosition(Key(n)) ELSE 0
  <1>0. /\ TypeOK /\ FilesInv /\ HomeInv /\ AheadInv /\ EventsInv /\ KeptInv /\ HandedInv
        /\ Grouped
    BY Regrouped DEF IInv, OnceInv
  <1>1. ~Pending
    BY <1>0, PendingName
  <1>2. AtHome
    BY <1>0, <1>1 DEF HomeInv
  <1>3. ASSUME NEW l \in DOMAIN table, table[l].file = f PROVE FALSE
    <2>1. table[l] # Null
      BY <1>3, NullIs, NoFileIsNoFile
    <2>2. l = Key(l.name) /\ dir[l.name] = f /\ l.name \in Names
      BY <1>0, <1>2, <1>3, <2>1 DEF AtHome, TypeOK, Keys
    <2>3. l.name = n
      BY <1>0, <2>2, OneName
    <2> QED
      BY <2>2, <2>3 DEF CurrentKey
  <1>4. Unopened(f)
    BY <1>3 DEF Unopened
  <1>5. r.pos = pos
    <2>1. r = [Null EXCEPT !.file = dir[n], !.pos = pos]
      BY DEF createRecord
    <2> HIDE DEF r, pos
    <2>2. r = [file |-> dir[n], pos |-> pos, buffer |-> <<>>, firstRead |-> FALSE,
               bad |-> FALSE]
      BY <2>1 DEF Null
    <2> QED
      BY <2>2
  <1>6. ~Truncated /\ (Restarted => Kept /\ mode.saveState)
    BY GoodIs
  <1>7. mode.saveState => ~mode.followOnly
    BY <1>0, ModesAssumption DEF TypeOK
  <1>8. Kept => n = Live /\ f = 1
    <2>1. ASSUME Kept PROVE n = Live
      <3>1. Quiet(bulk[t]) /\ bulk[t] \in Seq(Events)
        BY <1>0, <2>1 DEF EventsInv, TypeOK
      <3> QED
        BY <3>1, RestOfEvents DEF Current
    <2> QED
      BY <1>0, <2>1, NamesAssumption DEF KeptInv
  <1>9. CASE Restarted
    <2>1. pos = getSavedPosition(Key(Live)) /\ f = 1 /\ Kept /\ ~mode.followOnly
      BY <1>6, <1>7, <1>8, <1>9
    <2>2. pos = StartAt
      BY <1>9, <2>1 DEF StartAt, getSavedPosition
    <2>3. Ahead(f, pos)
      BY <1>0, <1>4, <2>1, <2>2 DEF AheadInv, UnopenedAhead
    <2>4. Handed(1, pos)
      <3>1. Handed(1, 0)
        BY <1>0, NoFileIsNoFile, NothingHanded
      <3> QED
        BY <1>0, <1>6, <2>1, <3>1 DEF HandedInv, getSavedPosition
    <2> QED
      BY <1>4, <1>5, <2>1, <2>2, <2>3, <2>4 DEF Handed
  <1>10. CASE ~Restarted
    <2>1. mode.saveState => loaded = Empty
      BY <1>0, <1>6, <1>7, <1>10 DEF HandedInv
    <2>2. pos = 0
      BY <2>1 DEF getSavedPosition, Empty
    <2>3. StartAt = 0
      BY <1>10 DEF StartAt
    <2>4. Ahead(f, 0)
      BY <1>0, <1>4, <1>10, <2>3 DEF AheadInv, UnopenedAhead
    <2>5. Len(content[f]) \in Nat
      BY <1>0 DEF TypeOK
    <2> QED
      BY <1>4, <1>5, <2>2, <2>3, <2>4, <2>5
  <1> QED
    BY <1>9, <1>10

\* The record process() works on: it is in step, whether found or created.
LEMMA OpenedAhead ==
    ASSUME IInv, OnceInv, Good, up, NEW t \in Monitors, t \in mode.monitors,
           bulk[t] # <<>>, NEW k, k = CurrentKey(t),
           NEW r, r = (IF k \in DOMAIN table THEN table[k] ELSE createRecord(k.name)),
           r # Null, k \in DOMAIN table \/ dir[k.name] \in Files
    PROVE  /\ r \in Records /\ r.file \in Files /\ ~r.bad
           /\ r.pos <= Len(content[r.file])
           /\ Ahead(r.file, r.pos - Len(r.buffer))
           /\ mode.followOnly /\ ~r.firstRead => r.buffer = <<>>
           /\ k \in DOMAIN table \/ (k = Key(k.name) /\ dir[k.name] = r.file)
           /\ k \in DOMAIN table => table[k] # Null /\ r.file = table[k].file
  <1>0. /\ TypeOK /\ AheadInv /\ ~Truncated
        /\ k.name = Current(t).name /\ k.name \in Names /\ k = Key(k.name)
    BY CurrentIs, GoodIs DEF IInv, OnceInv, CurrentKey
  <1>1. CASE k \in DOMAIN table
    <2>1. r = table[k] /\ r \in Records
      BY <1>0, <1>1 DEF TypeOK
    <2>2. Shaped(r) /\ Placed(r)
      BY <1>0, <1>1, <2>1 DEF IInv, ShapesInv, PlacesInv
    <2>3. Ahead(r.file, r.pos - Len(r.buffer))
      BY <1>0, <1>1, <2>1 DEF AheadInv, RecordsAhead
    <2>4. content[r.file] \in Seq(Units)
      BY <1>0, <2>2 DEF TypeOK, Shaped
    <2>5. r.pos <= Len(content[r.file])
      BY <2>2, <2>4 DEF Placed
    <2> QED
      BY <1>1, <2>1, <2>2, <2>3, <2>5 DEF Shaped, Placed
  <1>2. CASE k \notin DOMAIN table
    <2>1. r = createRecord(k.name) /\ dir[k.name] \in Files
      BY <1>2
    <2>2. Opened(r)
      BY <1>0, <2>1, CreatedIsOpened
    <2>3. Ahead(dir[k.name], r.pos) /\ r.pos <= Len(content[dir[k.name]])
      BY <1>0, <1>2, <2>1, CreatedOnce
    <2>4. r.file = dir[k.name] /\ r.buffer = <<>>
      <3> DEFINE pos == IF mode.saveState THEN getSavedPosition(Key(k.name)) ELSE 0
      <3>1. r = [Null EXCEPT !.file = dir[k.name], !.pos = pos]
        BY <2>1 DEF createRecord
      <3> HIDE DEF pos
      <3> QED
        BY <3>1 DEF Null
    <2>5. r.pos \in Int /\ r.pos - Len(r.buffer) = r.pos
      BY <2>2, <2>4 DEF Opened, Records
    <2> QED
      BY <1>0, <1>2, <2>1, <2>2, <2>3, <2>4, <2>5 DEF Opened
  <1> QED
    BY <1>1, <1>2

\* process(): the position only moves forward.
LEMMA processOnce ==
    ASSUME IInv, OnceInv, NEW t \in Monitors, t \in mode.monitors, process(t)
    PROVE  OnceInv'
  <1> DEFINE k == CurrentKey(t)
             r == IF k \in DOMAIN table THEN table[k] ELSE createRecord(k.name)
             length == Len(content[r.file])
             pos == IF length < r.pos THEN 0 ELSE r.pos
             a == [r EXCEPT !.pos = 0, !.bad = FALSE]
             b == [r EXCEPT !.pos = length, !.firstRead = TRUE]
             c == [r EXCEPT !.pos = pos]
  <1>0. TypeOK
    BY DEF IInv
  <1>1. /\ up /\ pc[t] = "run" /\ bulk[t] # <<>> /\ Current(t).type \in Reading
        /\ k \in DOMAIN table \/ dir[k.name] \in Files
        /\ r # Null
        /\ Works /\ sent' = sent /\ again' = again /\ disk' = disk
        /\ initQueue' = initQueue /\ eventQueue' = eventQueue
        /\ mode' = mode /\ dir' = dir /\ troubles' = troubles /\ content' = content
    BY DEF process, Working, Works, fsVars, posVars, sentVars, queueVars
  <1>2. \/ r.bad /\ table' = With(table, k, a) /\ Finish(t)
        \/ /\ ~r.bad /\ mode.followOnly /\ ~r.firstRead
           /\ table' = With(table, k, b) /\ Finish(t)
        \/ /\ ~r.bad /\ table' = With(table, k, c)
           /\ pc' \in {[pc EXCEPT ![t] = "read"], [pc EXCEPT ![t] = "save"]}
           /\ bulk' = bulk
    BY DEF process
  <1>3. PICK x \in {a, b, c} : table' = With(table, k, x)
    BY <1>2
  <1>4. /\ bulk' = bulk \/ bulk' = [bulk EXCEPT ![t] = Tail(@)]
        /\ \A s \in Monitors \ {t} : pc'[s] = pc[s] /\ bulk'[s] = bulk[s]
        /\ pc'[t] \in {"read", "save"} => bulk' = bulk
    BY <1>0, <1>1, <1>2, FinishType DEF Finish, TypeOK
  <1>5. \A s \in Monitors : pc'[s] \in {"read", "save"} => Current(s)'.type \in Reading
    BY <1>0, <1>1, <1>4, AtReading DEF Current
  <1>6. ASSUME Good PROVE EventsInv'
    BY <1>0, <1>1, <1>4, <1>6, EventsStep DEF OnceInv
  <1>7. ASSUME Good
        PROVE  /\ r \in Records /\ r.file \in Files /\ ~r.bad
               /\ r.pos <= length
               /\ Ahead(r.file, r.pos - Len(r.buffer))
               /\ mode.followOnly /\ ~r.firstRead => r.buffer = <<>>
               /\ k \in DOMAIN table \/ (k = Key(k.name) /\ dir[k.name] = r.file)
               /\ k \in DOMAIN table => table[k] # Null /\ r.file = table[k].file
    BY <1>1, <1>7, OpenedAhead
  <1> HIDE DEF k, r
  <1>8. ASSUME Good
        PROVE  \E y \in {b, c} : /\ table' = With(table, k, y)
                                 /\ y.file = r.file /\ y.buffer = r.buffer /\ y \in Records
                                 /\ r.pos <= y.pos
                                 /\ \/ ~mode.saveState
                                    \/ pc'[t] \in {"read", "save"} /\ bulk' = bulk
    <2>1. length \in Nat /\ r.pos \in Int /\ pos = r.pos
      BY <1>0, <1>7, <1>8 DEF TypeOK, Records
    <2> HIDE DEF length, pos
    <2>2. /\ b.file = r.file /\ b.buffer = r.buffer /\ b \in Records /\ b.pos = length
          /\ c.file = r.file /\ c.buffer = r.buffer /\ c \in Records /\ c.pos = r.pos
      <3>1. r \in Records /\ length \in Int
        BY <1>7, <1>8, <2>1
      <3>2. b \in Records
        BY <3>1, MovedRecords
      <3>3. c \in Records
        BY <2>1, <3>1, Zenon DEF Records
      <3>4. b.file = r.file /\ b.buffer = r.buffer /\ b.pos = length
        BY <3>1 DEF Records
      <3>5. c.file = r.file /\ c.buffer = r.buffer /\ c.pos = r.pos
        BY <2>1, <3>1 DEF Records
      <3> QED
        BY <3>2, <3>3, <3>4, <3>5
    <2>3. CASE table' = With(table, k, b) /\ mode.followOnly
      <3>1. ~mode.saveState
        BY <1>0, <2>3, ModesAssumption DEF TypeOK
      <3> QED
        BY <1>7, <1>8, <2>2, <2>3, <3>1
    <2>4. CASE /\ table' = With(table, k, c) /\ bulk' = bulk
               /\ pc' \in {[pc EXCEPT ![t] = "read"], [pc EXCEPT ![t] = "save"]}
      <3>1. pc'[t] \in {"read", "save"}
        BY <1>0, <2>4 DEF TypeOK
      <3> QED
        BY <2>1, <2>2, <2>4, <3>1
    <2> QED
      BY <1>2, <1>7, <1>8, <2>3, <2>4
  <1> HIDE DEF a, b, c
  <1>9. ASSUME Good PROVE HomeInv' /\ AheadInv'
    <2>0. HomeInv /\ AheadInv
      BY <1>9 DEF OnceInv
    <2>1. PICK y \in {b, c} : /\ table' = With(table, k, y)
                              /\ y.file = r.file /\ y.buffer = r.buffer /\ y \in Records
                              /\ r.pos <= y.pos
                              /\ \/ ~mode.saveState
                                 \/ pc'[t] \in {"read", "save"} /\ bulk' = bulk
      BY <1>8, <1>9
    <2>2. /\ DOMAIN table' = DOMAIN table \cup {k} /\ table'[k] = y
          /\ \A l \in DOMAIN table \ {k} : table'[l] = table[l]
      BY <2>1 DEF With
    <2>3. y # Null
      BY <1>7, <1>9, <2>1, NullIs, NoFileIsNoFile
    <2>4. Settled
      BY <1>7, <1>9, <2>1, <2>2 DEF Settled
    <2>5. ASSUME Pending
          PROVE  /\ DOMAIN table' = DOMAIN table
                 /\ table'[Key(Live)].file = table[Key(Live)].file
                 /\ \A s \in mode'.monitors : MoveFirst(s)'
      <3>1. k = Key(Live) /\ k \in DOMAIN table
        BY <1>0, <1>1, <2>5, PendingName DEF k
      <3>2. Current(t).type # "MOVE"
        BY <1>1 DEF Reading
      <3>3. \A s \in mode'.monitors : MoveFirst(s)'
        <4>1. CASE bulk' = bulk
          BY <1>1, <2>5, <4>1 DEF Pending, MoveFirst
        <4>2. CASE bulk' = [bulk EXCEPT ![t] = Tail(@)]
          BY <1>0, <1>1, <2>5, <3>2, <4>2, PendingNext
        <4> QED
          BY <1>4, <4>1, <4>2
      <3> QED
        BY <1>7, <1>9, <2>1, <2>2, <3>1, <3>3
    <2>6. Kept => \A l \in DOMAIN table' : table'[l] # Null
      BY <2>0, <2>2, <2>3 DEF HomeInv
    <2>7. HomeInv'
      BY <1>1, <2>0, <2>4, <2>5, <2>6, HomeStep
    <2>8. \A f \in Files : Unopened(f)' => Unopened(f)
      BY <1>7, <1>9, <2>1, <2>2 DEF Unopened
    <2>9. SentOnce' /\ UnopenedAhead'
      BY <1>1, <2>0, <2>8, SilentUnopened DEF AheadInv
    <2>10. RecordsAhead'
      <3>1. /\ r.pos - Len(r.buffer) \in Int /\ y.pos - Len(y.buffer) \in Int
            /\ r.pos - Len(r.buffer) <= y.pos - Len(y.buffer)
        BY <1>7, <1>9, <2>1 DEF Records
      <3>2. Ahead(y.file, y.pos - Len(y.buffer))
        BY <1>0, <1>7, <1>9, <2>1, <3>1, FurtherAhead
      <3>3. ASSUME NEW l \in DOMAIN table', table'[l] # Null
            PROVE  Ahead(table'[l].file, table'[l].pos - Len(table'[l].buffer))
        <4>1. CASE l = k
          BY <2>2, <3>2, <4>1
        <4>2. CASE l # k
          BY <2>0, <2>2, <3>3, <4>2 DEF AheadInv, RecordsAhead
        <4> QED
          BY <4>1, <4>2
      <3> QED
        BY <1>1, <3>3 DEF RecordsAhead, Ahead
    <2>11. SavedAhead'
      <3>1. ASSUME mode.saveState, Kept PROVE Locked(Key(Live))'
        <4>1. Quiet(bulk[t]) /\ bulk[t] \in Seq(Events)
          BY <1>0, <1>9, <3>1 DEF OnceInv, EventsInv, TypeOK
        <4>2. k = Key(Live)
          BY <1>1, <4>1, RestOfEvents DEF k, CurrentKey, Current
        <4>3. pc'[t] \in {"read", "save"} /\ bulk' = bulk
          BY <2>1, <3>1
        <4> QED
          BY <4>2, <4>3 DEF Locked, CurrentKey, Current, k
      <3> QED
        BY <1>1, <3>1 DEF SavedAhead, Kept
    <2> QED
      BY <2>7, <2>9, <2>10, <2>11 DEF AheadInv
  <1> QED
    BY <1>1, <1>5, <1>6, <1>9, OnceWork

-----------------------------------------------------------------------------
(* Nothing twice: what is handed on *)

\* The units of the messages processBuffer makes come before what it keeps.
LEMMA CutFront ==
    ASSUME NEW buffer \in Seq(Units), NEW text \in Seq(Units), Clean(buffer),
           buffer # <<>> => mode.regex,
           NEW m \in processBuffer(buffer, text).messages, NEW u \in Range(m)
    PROVE  \E i \in 1..(Len(buffer \o text) - Len(processBuffer(buffer, text).buffer)) :
               u = (buffer \o text)[i]
  <1> DEFINE all == buffer \o text
             rest == processBuffer(buffer, text).buffer
  <1>1. all \in Seq(Units) /\ Len(all) \in Nat
    OBVIOUS
  <1>2. CASE mode.regex
    <2> DEFINE cuts == MarksIn(buffer, text)
               n == Max(cuts)
               s == SubSeq(all, 1, n - 1)
    <2>1. m \in RegexMessages(buffer, text) /\ rest = RegexBuffer(buffer, text)
      BY <1>2 DEF processBuffer
    <2>2. cuts # {} /\ m \in Parts(s, cuts) /\ rest = SubSeq(all, n, Len(all))
      BY <2>1 DEF RegexMessages, RegexBuffer
    <2>3. cuts \subseteq 0..Len(all) /\ cuts \subseteq 2..Len(all)
      BY DEF MarksIn
    <2>4. n \in 2..Len(all)
      BY <1>1, <2>2, <2>3, MaxOf
    <2> HIDE DEF cuts, n, all
    <2>5. s \in Seq(Units) /\ Len(s) = n - 1 /\ \A i \in 1..(n - 1) : s[i] = all[i]
      BY <1>1, <2>4
    <2>6. Len(rest) = Len(all) - (n - 1)
      <3> HIDE DEF rest
      <3> QED
        BY <1>1, <2>2, <2>4
    <2> HIDE DEF s, rest
    <2>7. PICK a \in 1..Len(s), b \in 1..Len(s) : Stretch(s, cuts, a, b, m)
      BY <2>2, <2>5, PartsAre
    <2>8. PICK i \in 1..Len(m) : u = m[i]
      BY <2>7 DEF Stretch, Range
    <2>9. a + i - 1 \in 1..(n - 1) /\ u = s[a + i - 1]
      BY <2>5, <2>7, <2>8 DEF Stretch, IsPart
    <2>10. Len(all) - Len(rest) = n - 1
      BY <1>1, <2>4, <2>6
    <2> QED
      BY <2>5, <2>9, <2>10 DEF all, rest
  <1>3. CASE ~mode.regex
    <2>1. buffer = <<>> /\ rest = <<>> /\ m \in NewlineMessages(text)
      BY <1>3 DEF processBuffer
    <2>2. Len(all) = Len(text) /\ \A i \in 1..Len(text) : all[i] = text[i]
      BY <2>1
    <2>3. PICK cuts : m \in Parts(text, cuts)
      BY <2>1 DEF NewlineMessages
    <2>4. PICK a \in 1..Len(text), b \in 1..Len(text) : Stretch(text, cuts, a, b, m)
      BY <2>3, PartsAre
    <2>5. PICK i \in 1..Len(m) : u = m[i]
      BY <2>4 DEF Stretch, Range
    <2>6. a + i - 1 \in 1..Len(text) /\ u = text[a + i - 1]
      BY <2>4, <2>5 DEF Stretch, IsPart
    <2> QED
      BY <2>1, <2>2, <2>6
  <1> QED
    BY <1>2, <1>3

\* Handing on the units of f from behind a up to b, none of which was handed on: none
\* is handed on twice, and what is ahead elsewhere and behind b stays ahead.
LEMMA Handing ==
    ASSUME TypeOK, UnitsInv, SentOnce, content' = content, written' = written,
           NEW f \in Files, NEW a \in Nat, NEW b \in Nat, b <= Len(content[f]),
           Ahead(f, a), NEW messages, processMessage(messages),
           \A u \in UnitsOf(messages) : \E i \in (a + 1)..b : u = content[f][i]
    PROVE  /\ SentOnce'
           /\ \A g \in Files : \A p \in Int :
                  Ahead(g, p) /\ (g # f \/ b <= p) => Ahead(g, p)'
  <1>1. /\ sent' = sent \cup messages
        /\ again' = again \cup (UnitsOf(messages) \cap UnitsOf(sent))
    BY DEF processMessage
  <1>2. UnitsOf(sent') = UnitsOf(sent) \cup UnitsOf(messages)
    BY <1>1 DEF UnitsOf
  <1>3. \A g \in Files : content[g] \in Seq(Units) /\ Len(content[g]) \in Nat
    BY DEF TypeOK
  <1>4. ASSUME NEW u \in UnitsOf(messages)
        PROVE  u \notin UnitsOf(sent) /\ u.n <= written
    <2>1. PICK i \in (a + 1)..b : u = content[f][i]
      OBVIOUS
    <2>2. i \in 1..Len(content[f]) /\ i > a
      BY <1>3
    <2> QED
      BY <2>1, <2>2 DEF Ahead, UnitsInv
  <1>5. SentOnce'
    BY <1>1, <1>2, <1>4 DEF SentOnce
  <1>6. ASSUME NEW g \in Files, NEW p \in Int, Ahead(g, p), g # f \/ b <= p,
               NEW j \in 1..Len(content[g]), j > p
        PROVE  content[g][j] \notin UnitsOf(sent')
    <2>1. content[g][j] \notin UnitsOf(sent)
      BY <1>6 DEF Ahead
    <2>2. ASSUME content[g][j] \in UnitsOf(messages) PROVE FALSE
      <3>1. PICK i \in (a + 1)..b : content[g][j] = content[f][i]
        BY <2>2
      <3>2. i \in 1..Len(content[f]) /\ i <= b
        BY <1>3
      <3>3. g = f /\ j = i
        BY <3>1, <3>2 DEF UnitsInv
      <3> QED
        BY <1>3, <1>6, <3>2, <3>3
    <2> QED
      BY <1>2, <2>1, <2>2
  <1>7. ASSUME NEW g \in Files, NEW p \in Int, Ahead(g, p), g # f \/ b <= p
        PROVE  Ahead(g, p)'
    BY <1>6, <1>7 DEF Ahead
  <1> QED
    BY <1>5, <1>7

\* A record k that hands on messages, from where its position was less its buffer to
\* where it is now.
LEMMA HandedOn ==
    ASSUME IInv, OnceInv, Good, up, Works, NEW k \in DOMAIN table, table[k] # Null,
           NEW q \in Records, q.file = table[k].file,
           DOMAIN table' = DOMAIN table, table'[k] = q,
           \A l \in DOMAIN table \ {k} : table'[l] = table[l],
           NEW messages, processMessage(messages),
           q.pos - Len(q.buffer) \in Nat, q.pos - Len(q.buffer) <= Len(content[q.file]),
           \A u \in UnitsOf(messages) :
               \E i \in (table[k].pos - Len(table[k].buffer) + 1)..(q.pos - Len(q.buffer)) :
                   u = content[q.file][i],
           table[k].pos - Len(table[k].buffer) \in Nat,
           table[k].pos - Len(table[k].buffer) <= q.pos - Len(q.buffer)
    PROVE  /\ SentOnce' /\ UnopenedAhead' /\ RecordsAhead'
           /\ Settled /\ Ahead(q.file, q.pos - Len(q.buffer))'
           /\ Kept => \A l \in DOMAIN table' : table'[l] # Null
  <1> DEFINE f == q.file
             a == table[k].pos - Len(table[k].buffer)
             b == q.pos - Len(q.buffer)
  <1>0. /\ TypeOK /\ UnitsInv /\ ShapesInv /\ FilesInv /\ HomeInv /\ AheadInv
    BY DEF IInv, OnceInv
  <1>1. /\ content' = content /\ written' = written /\ troubles' = troubles
        /\ loaded' = loaded /\ up' = up
    BY DEF Works, fsVars
  <1>2. f \in Files
    BY <1>0 DEF ShapesInv, Shaped
  <1>3. Ahead(f, a)
    BY <1>0 DEF AheadInv, RecordsAhead
  <1>4. /\ SentOnce'
        /\ \A g \in Files : \A p \in Int : Ahead(g, p) /\ (g # f \/ b <= p) => Ahead(g, p)'
    <2>1. SentOnce
      BY <1>0 DEF AheadInv
    <2> HIDE DEF a, b, f
    <2>2. /\ a \in Nat /\ b \in Nat /\ b <= Len(content[f])
          /\ \A u \in UnitsOf(messages) : \E i \in (a + 1)..b : u = content[f][i]
      BY DEF a, b, f
    <2> QED
      BY <1>0, <1>1, <1>2, <1>3, <2>1, <2>2, Handing
  <1>5. Ahead(f, b)'
    <2>1. Ahead(f, b)
      BY <1>0, <1>2, <1>3, FurtherAhead
    <2> QED
      BY <1>2, <1>4, <2>1
  <1>6. q # Null
    BY <1>2, NullIs, NoFileIsNoFile
  <1>7. ASSUME NEW l \in DOMAIN table', table'[l] # Null
        PROVE  \A g \in {table'[l].file} : \A p \in {table'[l].pos - Len(table'[l].buffer)} :
                   Ahead(g, p)'
    <2>1. CASE l = k
      <3>1. \A g \in {f} : \A p \in {b} : Ahead(g, p)'
        BY <1>5
      <3> QED
        BY <2>1, <3>1
    <2>2. CASE l # k
      <3>1. l \in DOMAIN table /\ table'[l] = table[l] /\ table[l] # Null
        BY <1>7, <2>2
      <3>2. table[l].file # f
        BY <1>0, <2>2, <3>1, Distinct
      <3>3. table[l].file \in Files /\ table[l].pos - Len(table[l].buffer) \in Int
        BY <1>0, <3>1 DEF ShapesInv, Shaped, TypeOK, Records
      <3>4. Ahead(table[l].file, table[l].pos - Len(table[l].buffer))
        BY <1>0, <3>1 DEF AheadInv, RecordsAhead
      <3>5. \A g \in {table[l].file} : \A p \in {table[l].pos - Len(table[l].buffer)} : Ahead(g, p)'
        BY <1>4, <3>2, <3>3, <3>4
      <3> QED
        BY <3>1, <3>5
    <2> QED
      BY <2>1, <2>2
  <1>8. RecordsAhead'
    BY <1>7 DEF RecordsAhead
  <1>9. UnopenedAhead'
    <2>1. \A g \in Files : Unopened(g)' => Unopened(g) /\ g # f
      BY DEF Unopened
    <2>2. StartAt' = StartAt /\ Restarted' = Restarted
      BY <1>1 DEF StartAt, Restarted
    <2>3. StartAt \in Int
      BY <1>0 DEF StartAt, TypeOK
    <2>4. ASSUME NEW g \in Files, Unopened(g)', Restarted => g = 1 PROVE Ahead(g, StartAt)'
      <3>1. Ahead(g, StartAt) /\ g # f
        BY <1>0, <2>1, <2>4 DEF AheadInv, UnopenedAhead
      <3>2. \A p \in {StartAt} : Ahead(g, p)'
        BY <1>4, <2>3, <3>1
      <3> QED
        BY <2>2, <3>2 DEF Ahead
    <2> QED
      BY <2>2, <2>4 DEF UnopenedAhead
  <1>10. Settled
    BY DEF Settled
  <1>11. Kept => \A l \in DOMAIN table' : table'[l] # Null
    BY <1>0, <1>6 DEF HomeInv
  <1> QED
    BY <1>4, <1>5, <1>8, <1>9, <1>10, <1>11

\* The loop of process().
LEMMA ReadOnce ==
    ASSUME IInv, OnceInv, NEW t \in Monitors, t \in mode.monitors, Read(t)
    PROVE  OnceInv'
  <1> DEFINE k == CurrentKey(t)
             r == table[k]
             text == IF r.pos < 0 THEN <<>>
                     ELSE SubSeq(content[r.file], r.pos + 1,
                                 Min({size[t], Len(content[r.file])}))
             p == processBuffer(r.buffer, text)
             q == [r EXCEPT !.pos = r.pos + Len(text), !.buffer = p.buffer,
                            !.bad = r.pos < 0 \/ Len(content[r.file]) < size[t]]
             all == r.buffer \o text
             from == r.pos - Len(r.buffer)
  <1>0. Grouped /\ TypeOK /\ HoldsEntry
    BY Regrouped, TypeHoldsEntry DEF Grouped
  <1>1. /\ up /\ pc[t] = "read"
        /\ processMessage(p.messages)
        /\ table' = With(table, k, q)
        /\ pc' = [pc EXCEPT ![t] = "save"]
        /\ bulk' = bulk /\ disk' = disk
        /\ initQueue' = initQueue /\ eventQueue' = eventQueue
        /\ UNCHANGED <<mode, fsVars, troubles, loaded, up>>
    BY DEF Read, posVars, queueVars
  <1>2. bulk[t] # <<>> /\ k \in DOMAIN table /\ r # Null /\ Current(t).type \in Reading
    BY <1>0, <1>1 DEF HoldsEntry, Grouped, ReadingInv, OnceInv, IdleInv
  <1>3. r \in Records /\ Sound(r) /\ size[t] \in Nat
    BY <1>0, <1>2 DEF TypeOK, Grouped, RecordsSound
  <1>4. /\ mode' = mode /\ dir' = dir /\ content' = content /\ troubles' = troubles
    BY <1>1 DEF fsVars
  <1>5. TextAt(r, text)
    BY <1>0, <1>3, TextIsAt
  <1> HIDE DEF k, r, text
  <1>6. r.buffer \in Seq(Units) /\ text \in Seq(Units) /\ Clean(r.buffer)
        /\ (r.buffer # <<>> => mode.regex) /\ r.file \in Files /\ r.pos \in Int
    BY <1>3, <1>5 DEF Records, TextAt, Sound, Shaped
  <1>7. Cut(all, p.messages, p.buffer)
    BY <1>6, BufferCut
  <1>8. ASSUME NEW u \in UnitsOf(p.messages)
        PROVE  \E i \in 1..(Len(all) - Len(p.buffer)) : u = all[i]
    <2>1. PICK m \in p.messages : u \in Range(m)
      BY Zenon DEF UnitsOf
    <2> QED
      BY <1>6, <2>1, CutFront
  <1> HIDE DEF p
  <1>9. Works
    BY <1>1 DEF Works, processMessage
  <1>10. q \in Records /\ q.file = r.file /\ q.pos = r.pos + Len(text) /\ q.buffer = p.buffer
    <2> DEFINE bad == r.pos < 0 \/ Len(content[r.file]) < size[t]
    <2>1. p.buffer \in Seq(Units) /\ r.pos + Len(text) \in Int /\ bad \in BOOLEAN
      BY <1>6, <1>7 DEF Cut
    <2> HIDE DEF bad
    <2>2. q \in Records
      BY <1>3, <2>1, ChangedRecord DEF bad
    <2>3. q.file = r.file /\ q.pos = r.pos + Len(text) /\ q.buffer = p.buffer
      BY <1>3 DEF Records
    <2> QED
      BY <2>2, <2>3
  <1> HIDE DEF q
  <1>11. /\ DOMAIN table' = DOMAIN table /\ table'[k] = q
         /\ \A l \in DOMAIN table \ {k} : table'[l] = table[l]
    BY <1>1, <1>2 DEF With
  <1>12. /\ pc'[t] = "save"
         /\ \A s \in Monitors \ {t} : pc'[s] = pc[s] /\ bulk'[s] = bulk[s]
    BY <1>0, <1>1 DEF TypeOK
  <1>13. \A s \in Monitors : pc'[s] \in {"read", "save"} => Current(s)'.type \in Reading
    BY <1>0, <1>1, <1>2, <1>12, AtReading DEF Current
  <1>14. ASSUME Good PROVE EventsInv'
    BY <1>0, <1>1, <1>14, EventsStep DEF OnceInv
  <1>15. ASSUME Good PROVE HomeInv' /\ AheadInv'
    <2>1. /\ all \in Seq(Units) /\ Len(all) = Len(r.buffer) + Len(text)
          /\ from \in Nat /\ from + Len(all) <= Len(content[r.file])
          /\ \A i \in 1..Len(all) : all[i] = content[r.file][from + i]
      BY <1>0, <1>3, <1>5, <1>15, GoodIs, OneStretch
    <2>2. Len(p.buffer) \in Nat /\ Len(p.buffer) <= Len(all) /\ Len(all) \in Nat
      <3>1. PICK c \in 0..Len(all) : Len(p.buffer) = Len(all) - c
        BY <1>7 DEF Cut
      <3>2. Len(all) \in Nat
        BY <2>1
      <3> QED
        BY <3>1, <3>2
    <2>3. /\ Len(r.buffer) \in Nat /\ Len(text) \in Nat
      BY <1>6
    <2> HIDE DEF all, from
    <2>4. q.pos - Len(q.buffer) = from + (Len(all) - Len(p.buffer))
      <3>1. q.pos - Len(q.buffer) = (r.pos + Len(text)) - Len(p.buffer)
        BY <1>10, Zenon
      <3>2. from = r.pos - Len(r.buffer) /\ r.pos \in Int /\ Len(all) = Len(r.buffer) + Len(text)
        BY <1>6, <2>1 DEF from
      <3>3. ASSUME NEW a \in Int, NEW b \in Nat, NEW x \in Nat, NEW y \in Nat
            PROVE  (a + x) - y = (a - b) + ((b + x) - y)
        OBVIOUS
      <3>4. (r.pos + Len(text)) - Len(p.buffer)
                = (r.pos - Len(r.buffer)) + ((Len(r.buffer) + Len(text)) - Len(p.buffer))
        BY <2>2, <2>3, <3>2, <3>3, ZenonT(60)
      <3> QED
        BY <3>1, <3>2, <3>4, Zenon
    <2>5. /\ q.pos - Len(q.buffer) \in Nat /\ q.pos - Len(q.buffer) <= Len(content[q.file])
          /\ from <= q.pos - Len(q.buffer)
      <3>1. Len(content[r.file]) \in Nat
        BY <1>0, <1>6 DEF TypeOK
      <3>2. ASSUME NEW x \in Nat, NEW a \in Nat, NEW b \in Nat, b <= a, NEW c \in Nat, x + a <= c
            PROVE  x + (a - b) \in Nat /\ x + (a - b) <= c /\ x <= x + (a - b)
        BY <3>2
      <3>3. /\ from + (Len(all) - Len(p.buffer)) \in Nat
            /\ from + (Len(all) - Len(p.buffer)) <= Len(content[r.file])
            /\ from <= from + (Len(all) - Len(p.buffer))
        BY <2>1, <2>2, <3>1, <3>2, Zenon
      <3> QED
        BY <1>10, <2>4, <3>3, Zenon
    <2>6. ASSUME NEW u \in UnitsOf(p.messages)
          PROVE  \E i \in (from + 1)..(q.pos - Len(q.buffer)) : u = content[q.file][i]
      <3>1. PICK i \in 1..(Len(all) - Len(p.buffer)) : u = all[i]
        BY <1>8
      <3>2. ASSUME NEW x \in Nat, NEW a \in Nat, NEW b \in Nat, NEW j \in 1..(a - b)
            PROVE  x + j \in (x + 1)..(x + (a - b)) /\ j \in 1..a
        OBVIOUS
      <3>3. /\ from + i \in (from + 1)..(from + (Len(all) - Len(p.buffer)))
            /\ i \in 1..Len(all)
        BY <2>1, <2>2, <3>2, Zenon
      <3> QED
        BY <1>10, <2>1, <2>4, <3>1, <3>3, Zenon
    <2>7. /\ SentOnce' /\ UnopenedAhead' /\ RecordsAhead' /\ Settled
          /\ Kept => \A l \in DOMAIN table' : table'[l] # Null
      BY <1>1, <1>2, <1>9, <1>10, <1>11, <1>15, <2>1, <2>5, <2>6, HandedOn DEF r, from
    <2>8. HomeInv /\ EventsInv
      BY <1>15 DEF OnceInv
    <2>9. ASSUME Pending
          PROVE  /\ table'[Key(Live)].file = table[Key(Live)].file
                 /\ \A s \in mode'.monitors : MoveFirst(s)'
      <3>1. k = Key(Live)
        BY <1>0, <1>2, <2>9, PendingName DEF k
      <3>2. \A s \in mode'.monitors : MoveFirst(s)'
        BY <1>1, <1>4, <2>9 DEF Pending, MoveFirst
      <3> QED
        BY <1>10, <1>11, <3>1, <3>2 DEF r
    <2>10. HomeInv'
      BY <1>1, <1>4, <1>11, <2>7, <2>8, <2>9, HomeStep
    <2>11. SavedAhead'
      <3>1. ASSUME Kept PROVE Locked(Key(Live))'
        <4>1. k = Key(Live)
          BY <1>2, <2>8, <3>1, KeptKey
        <4> QED
          BY <1>1, <1>12, <4>1 DEF Locked, CurrentKey, Current, k
      <3> QED
        BY <1>4, <3>1 DEF SavedAhead, Kept
    <2> QED
      BY <2>7, <2>10, <2>11 DEF AheadInv
  <1> QED
    BY <1>1, <1>9, <1>13, <1>14, <1>15, OnceWork

\* The timer hands on what waits in the buffer of a record.
LEMMA flushOnce ==
    ASSUME IInv, OnceInv, NEW k \in Keys, flush(k), table[k] # Null
    PROVE  OnceInv'
  <1> DEFINE r == table[k]
             flushed == [r EXCEPT !.buffer = <<>>]
  <1>0. Grouped /\ TypeOK
    BY Regrouped DEF Grouped
  <1>a. PICK q : q = flushed
    OBVIOUS
  <1>1. /\ up /\ k \in DOMAIN table /\ ~Locked(k)
        /\ r.buffer # <<>> /\ processMessage({r.buffer})
        /\ table' = [table EXCEPT ![k] = q]
        /\ savePosition(k, q)
        /\ UNCHANGED <<mode, fsVars, troubles, loaded, up>>
        /\ bulk' = bulk /\ pc' = pc
        /\ initQueue' = initQueue /\ eventQueue' = eventQueue
    BY <1>a DEF flush, FlushRecord, queueVars, threadVars
  <1>2. /\ mode' = mode /\ dir' = dir /\ content' = content /\ troubles' = troubles /\ Works
    BY <1>1 DEF fsVars, Works, processMessage
  <1>3. r \in Records /\ Sound(r)
    BY <1>0, <1>1 DEF TypeOK, Grouped, RecordsSound
  <1>4. q \in Records /\ q.file = r.file /\ q.pos = r.pos /\ q.buffer = <<>>
    <2>1. <<>> \in Seq(Units)
      OBVIOUS
    <2>2. q \in Records
      BY <1>a, <1>3, <2>1, Zenon DEF Records
    <2>3. q.file = r.file /\ q.pos = r.pos /\ q.buffer = <<>>
      BY <1>a, <1>3 DEF Records
    <2> QED
      BY <2>2, <2>3
  <1>5. /\ DOMAIN table' = DOMAIN table /\ table'[k] = q
        /\ \A l \in DOMAIN table \ {k} : table'[l] = table[l]
    BY <1>1
  <1>6. disk' = IF mode.saveState THEN With(disk, k, q.pos - Len(q.buffer)) ELSE disk
    BY <1>1 DEF savePosition
  <1> HIDE DEF r
  <1>7. \A s \in Monitors : pc'[s] \in {"read", "save"} => Current(s)'.type \in Reading
    BY <1>1 DEF OnceInv, IdleInv, Current
  <1>8. ASSUME Good PROVE EventsInv' /\ HomeInv' /\ AheadInv'
    <2>1. EventsInv /\ HomeInv /\ AheadInv
      BY <1>8 DEF OnceInv
    <2>2. EventsInv'
      BY <1>1, <1>2, <2>1 DEF EventsInv, Kept
    <2>3. /\ Len(q.buffer) = 0 /\ q.pos - Len(q.buffer) = r.pos /\ r.pos \in Nat
          /\ r.pos <= Len(content[q.file]) /\ Len(content[q.file]) \in Nat
          /\ r.buffer \in Seq(Units) /\ Len(r.buffer) <= r.pos /\ Len(r.buffer) \in Nat
          /\ \A i \in 1..Len(r.buffer) : r.buffer[i] = content[q.file][r.pos - Len(r.buffer) + i]
      <3>1. Placed(r) /\ Shaped(r)
        BY <1>3, <1>8, GoodIs DEF Sound
      <3>2. content[r.file] \in Seq(Units) /\ r.pos \in Int /\ r.buffer \in Seq(Units)
        BY <1>0, <1>3, <3>1 DEF TypeOK, Shaped, Records
      <3>3. Len(content[r.file]) \in Nat /\ Len(r.buffer) \in Nat
        BY <3>2
      <3> QED
        BY <1>4, <3>1, <3>2, <3>3 DEF Placed
    <2>4. ASSUME NEW u \in UnitsOf({r.buffer})
          PROVE  \E i \in (r.pos - Len(r.buffer) + 1)..(q.pos - Len(q.buffer)) :
                     u = content[q.file][i]
      <3>1. u \in Range(r.buffer)
        BY DEF UnitsOf
      <3>2. PICK j \in 1..Len(r.buffer) : u = r.buffer[j]
        BY <2>3, <3>1 DEF Range
      <3>3. r.pos - Len(r.buffer) + j \in (r.pos - Len(r.buffer) + 1)..r.pos
        BY <2>3
      <3> QED
        BY <2>3, <3>2, <3>3
    <2>5. r.pos - Len(r.buffer) \in Nat /\ r.pos - Len(r.buffer) <= q.pos - Len(q.buffer)
      BY <2>3
    <2>6. /\ SentOnce' /\ UnopenedAhead' /\ RecordsAhead' /\ Settled
          /\ Ahead(q.file, q.pos - Len(q.buffer))'
          /\ Kept => \A l \in DOMAIN table' : table'[l] # Null
      <3>1. q.pos - Len(q.buffer) \in Nat /\ q.pos - Len(q.buffer) <= Len(content[q.file])
        BY <2>3
      <3>2. q.file = table[k].file
        BY <1>4 DEF r
      <3>3. \A u \in UnitsOf({r.buffer}) :
               \E i \in (table[k].pos - Len(table[k].buffer) + 1)..(q.pos - Len(q.buffer)) :
                   u = content[q.file][i]
        BY <2>4 DEF r
      <3>4. /\ table[k].pos - Len(table[k].buffer) \in Nat
            /\ table[k].pos - Len(table[k].buffer) <= q.pos - Len(q.buffer)
        BY <2>5 DEF r
      <3>5. processMessage({r.buffer})
        BY <1>1
      <3> QED
        BY <1>1, <1>2, <1>4, <1>5, <1>8, <3>1, <3>2, <3>3, <3>4, <3>5, HandedOn
    <2>7. ASSUME Pending
          PROVE  /\ table'[Key(Live)].file = table[Key(Live)].file
                 /\ \A s \in mode'.monitors : MoveFirst(s)'
      BY <1>1, <1>2, <1>4, <1>5, <2>7 DEF Pending, MoveFirst, r
    <2>8. HomeInv'
      BY <1>1, <1>2, <1>5, <2>1, <2>6, <2>7, HomeStep
    <2>9. SavedAhead'
      <3>1. ASSUME Kept, mode.saveState
            PROVE  Key(Live) \in DOMAIN disk' /\ Ahead(1, disk[Key(Live)])'
        <4>1. k = Key(Live) /\ q.file = 1
          BY <1>1, <1>4, <2>1, <3>1, KeptKey DEF r
        <4>2. k \in DOMAIN disk' /\ disk'[k] = q.pos - Len(q.buffer)
          BY <1>6, <3>1 DEF With
        <4>3. \A p \in {q.pos - Len(q.buffer)} : Ahead(1, p)'
          BY <2>6, <4>1
        <4> QED
          BY <4>1, <4>2, <4>3
      <3> QED
        BY <1>2, <3>1 DEF SavedAhead, Kept
    <2> QED
      BY <2>1, <2>2, <2>6, <2>8, <2>9 DEF AheadInv
  <1> QED
    BY <1>1, <1>2, <1>7, <1>8, OnceWork

-----------------------------------------------------------------------------
(* Nothing twice: the application, the file system and the process *)

\* No record and no queue, before the process starts.
LEMMA EmptyIs ==
    DOMAIN Empty = {} /\ NoDelete(<<>>) /\ Quiet(<<>>)
  BY DEF Empty, NoDelete, Quiet

\* What the watch sees of a change, as far as the order of events goes.
LEMMA SeenOnce ==
    ASSUME NEW type \in EventTypes, NEW n \in Names
    PROVE  /\ type # "DELETE" => NoDelete(Seen(type, n))
           /\ n = Live /\ type # "MOVE" => Quiet(Seen(type, n))
           /\ up /\ n = Live /\ type = "MOVE" => MoveAhead(Seen(type, n))
  <1> DEFINE s == Seen(type, n)
  <1>1. Live \in Watched
    BY NamesAssumption DEF Watched
  <1>2. s = <<>> \/ s = <<Event(type, n)>>
    BY DEF Seen
  <1>3. up /\ n = Live => s = <<Event(type, n)>>
    BY <1>1 DEF Seen
  <1>4. Event(type, n).type = type /\ Event(type, n).name = n
    BY DEF Event
  <1> HIDE DEF s
  <1>5. type # "DELETE" => NoDelete(s)
    BY <1>2, <1>4 DEF NoDelete
  <1>6. n = Live /\ type # "MOVE" => Quiet(s)
    BY <1>2, <1>4 DEF Quiet
  <1>7. ASSUME up, n = Live, type = "MOVE" PROVE MoveAhead(s)
    <2>1. Len(s) = 1 /\ s[1] = Event("MOVE", Live)
      BY <1>3, <1>7
    <2>2. 1 \in 1..Len(s) /\ \A j \in 1..(1 - 1) : FALSE
      BY <2>1
    <2> QED
      BY <2>1, <2>2 DEF MoveAhead
  <1> QED
    BY <1>5, <1>6, <1>7 DEF s

\* Events are added to the queue.
LEMMA NotifyOnce ==
    ASSUME TypeOK, EventsInv, NEW e \in Seq(Events), eventQueue' = eventQueue \o e,
           initQueue' = initQueue, bulk' = bulk, NoDelete(e),
           Kept' => Kept /\ Quiet(e)
    PROVE  /\ EventsInv'
           /\ \A t \in Monitors : MoveFirst(t) => MoveFirst(t)'
  <1>1. eventQueue \in Seq(Events)
    BY DEF TypeOK
  <1>2. NoDelete(eventQueue') /\ (Kept' => Quiet(eventQueue'))
    BY <1>1, LongerQueue DEF EventsInv
  <1>3. EventsInv'
    BY <1>2 DEF EventsInv
  <1>4. MoveAhead(eventQueue) => MoveAhead(eventQueue')
    BY <1>1, LongerQueue
  <1> QED
    BY <1>3, <1>4 DEF MoveFirst

\* The application writes: the new unit was never handed on.
LEMMA AppendOnce ==
    ASSUME IInv, OnceInv, NEW isMark \in BOOLEAN, Append1(isMark)
    PROVE  OnceInv'
  <1> DEFINE u == [n |-> written + 1, mark |-> isMark]
             e == IF Linked(appFile) THEN Seen("MODIFY", path[appFile]) ELSE <<>>
  <1>0. TypeOK /\ KeptInv /\ FilesInv /\ IdleInv
    BY DEF IInv, OnceInv
  <1>1. /\ written' = written + 1
        /\ content' = [content EXCEPT ![appFile] = Append(content[appFile], u)]
        /\ eventQueue' = eventQueue \o e
        /\ mode' = mode /\ dir' = dir /\ path' = path /\ appFile' = appFile
        /\ troubles' = troubles /\ disk' = disk /\ loaded' = loaded /\ up' = up
        /\ initQueue' = initQueue /\ bulk' = bulk /\ pc' = pc /\ table' = table
        /\ sent' = sent /\ again' = again
    BY DEF Append1, notify, posVars, threadVars, sentVars
  <1>2. /\ written \in Nat /\ appFile \in Files /\ path[appFile] \in Names
        /\ content \in [Files -> Seq(Units)]
    <2>1. UnitBound[mode] \in Nat
      BY <1>0, BoundsAssumption DEF TypeOK
    <2> QED
      BY <1>0, <2>1 DEF TypeOK
  <1>3. e \in Seq(Events) /\ NoDelete(e) /\ (Kept => Quiet(e))
    <2>1. Seen("MODIFY", path[appFile]) \in Seq(Events) /\ NoDelete(Seen("MODIFY", path[appFile]))
      BY <1>2, SeenType, SeenOnce DEF EventTypes
    <2>2. ASSUME Kept, Linked(appFile) PROVE path[appFile] = Live
      <3>1. PICK n \in Names : dir[n] = appFile
        BY <2>2 DEF Linked
      <3>2. n = Live
        BY <1>0, <1>2, <2>2, <3>1, NoFileIsNoFile DEF KeptInv
      <3> QED
        BY <1>0, <1>2, <3>1, <3>2 DEF FilesInv
    <2>3. ASSUME Kept, Linked(appFile) PROVE Quiet(Seen("MODIFY", path[appFile]))
      BY <1>2, <2>2, <2>3, SeenOnce DEF EventTypes
    <2>4. <<>> \in Seq(Events)
      OBVIOUS
    <2> QED
      BY <2>1, <2>3, <2>4, EmptyIs
  <1> HIDE DEF e
  <1>4. FilesInv' /\ IdleInv'
    BY <1>0, <1>1 DEF FilesInv, IdleInv, Current
  <1>5. (Good' => Good) /\ Kept' = Kept
    BY <1>1, GoodBefore DEF Kept
  <1>6. ASSUME Good PROVE EventsInv' /\ HomeInv'
    <2>1. EventsInv /\ HomeInv
      BY <1>6 DEF OnceInv
    <2>2. EventsInv' /\ \A t \in Monitors : MoveFirst(t) => MoveFirst(t)'
      BY <1>0, <1>1, <1>3, <1>5, <2>1, NotifyOnce
    <2>3. mode.monitors \subseteq Monitors
      BY <1>0, ModesAssumption DEF TypeOK, ModeSet
    <2>4. AtHome => AtHome'
      BY <1>1 DEF AtHome
    <2>5. Pending => Pending'
      BY <1>1, <2>2, <2>3 DEF Pending
    <2> QED
      BY <1>1, <1>5, <2>1, <2>2, <2>4, <2>5 DEF HomeInv
  <1>7. ASSUME Good PROVE AheadInv'
    <2>1. AheadInv
      BY <1>7 DEF OnceInv
    <2>2. /\ \A f \in Files \ {appFile} : content'[f] = content[f]
          /\ Len(content'[appFile]) = Len(content[appFile]) + 1
          /\ Len(content[appFile]) \in Nat
          /\ \A i \in 1..Len(content[appFile]) : content'[appFile][i] = content[appFile][i]
          /\ content'[appFile][Len(content[appFile]) + 1] = u
      <3> HIDE DEF u
      <3>1. content[appFile] \in Seq(Units)
        BY <1>2
      <3>2. content'[appFile] = Append(content[appFile], u)
        BY <1>1, <1>2
      <3> QED
        BY <1>1, <1>2, <3>1, <3>2
    <2>3. u \notin UnitsOf(sent)
      <3>1. u.n = written + 1
        OBVIOUS
      <3> HIDE DEF u
      <3> QED
        BY <1>2, <2>1, <3>1 DEF AheadInv, SentOnce
    <2> HIDE DEF u
    <2>4. ASSUME NEW f \in Files, NEW p, Ahead(f, p) PROVE Ahead(f, p)'
      <3>1. CASE f = appFile
        <4>1. ASSUME NEW i \in 1..Len(content'[f]), i > p
              PROVE  content'[f][i] \notin UnitsOf(sent)
          <5>1. i \in 1..Len(content[f]) \/ i = Len(content[f]) + 1
            BY <2>2, <3>1
          <5> QED
            BY <2>2, <2>3, <2>4, <3>1, <4>1, <5>1 DEF Ahead
        <4> QED
          BY <1>1, <4>1 DEF Ahead
      <3>2. CASE f # appFile
        BY <1>1, <2>2, <2>4, <3>2 DEF Ahead
      <3> QED
        BY <3>1, <3>2
    <2>5. SentOnce'
      <3>1. ASSUME NEW v \in UnitsOf(sent) PROVE v.n <= written + 1
        <4>1. v.n <= written /\ v \in Units
          BY <1>0, <2>1 DEF AheadInv, SentOnce, UnitsOf, Range, TypeOK
        <4>2. v.n \in Nat
          BY <4>1 DEF Units
        <4> QED
          BY <1>2, <4>1, <4>2
      <3> QED
        BY <1>1, <2>1, <3>1 DEF AheadInv, SentOnce
    <2>6. RecordsAhead'
      <3>1. ASSUME NEW k \in DOMAIN table, table[k] # Null
            PROVE  \A f \in {table[k].file} : \A p \in {table[k].pos - Len(table[k].buffer)} :
                       Ahead(f, p)'
        <4>1. table[k].file \in Files
          BY <3>1 DEF IInv, ShapesInv, Shaped
        <4> QED
          BY <2>1, <2>4, <3>1, <4>1 DEF AheadInv, RecordsAhead
      <3> QED
        BY <1>1, <3>1 DEF RecordsAhead
    <2>7. UnopenedAhead'
      <3>1. StartAt' = StartAt /\ Restarted' = Restarted
        BY <1>1 DEF StartAt, Restarted
      <3>2. \A f \in Files : Unopened(f)' = Unopened(f)
        BY <1>1 DEF Unopened
      <3>3. ASSUME NEW f \in Files, Unopened(f), Restarted => f = 1
            PROVE  \A p \in {StartAt} : Ahead(f, p)'
        BY <2>1, <2>4, <3>3 DEF AheadInv, UnopenedAhead
      <3>4. ASSUME NEW f \in Files, Unopened(f)', (Restarted => f = 1)' PROVE Ahead(f, StartAt)'
        <4>1. \A p \in {StartAt} : Ahead(f, p)'
          BY <3>1, <3>2, <3>3, <3>4
        <4> QED
          BY <3>1, <4>1 DEF Ahead
      <3> QED
        BY <3>4 DEF UnopenedAhead
    <2>8. SavedAhead'
      <3>1. Locked(Key(Live))' <=> Locked(Key(Live))
        BY <1>1, SameLocks
      <3>2. ASSUME SavedAhead, mode.saveState, Kept, Key(Live) \in DOMAIN table,
                   ~Locked(Key(Live))
            PROVE  Key(Live) \in DOMAIN disk /\ \A p \in {disk[Key(Live)]} : Ahead(1, p)'
        BY <2>4, <3>2, NoFileIsNoFile DEF SavedAhead
      <3> QED
        BY <1>1, <1>5, <2>1, <3>1, <3>2 DEF SavedAhead, AheadInv
    <2> QED
      BY <2>5, <2>6, <2>7, <2>8 DEF AheadInv
  <1> QED
    BY <1>4, <1>5, <1>6, <1>7 DEF OnceInv

\* Nothing of what was handed on, or of where it is read from, changes.
LEMMA StillAhead ==
    ASSUME AheadInv, UNCHANGED <<content, written, sent, again, table, loaded, up, mode>>,
           Restarted' <=> Restarted, Kept' => Kept, disk' = disk,
           pc' = pc, bulk' = bulk
    PROVE  AheadInv'
  <1>1. SentOnce' /\ RecordsAhead'
    BY DEF AheadInv, SentOnce, RecordsAhead, Ahead
  <1>2. StartAt' = StartAt
    BY DEF StartAt
  <1>3. UnopenedAhead'
    BY <1>2 DEF AheadInv, UnopenedAhead, Unopened, Ahead
  <1>4. Locked(Key(Live))' <=> Locked(Key(Live))
    BY SameLocks
  <1>5. SavedAhead'
    BY <1>4 DEF AheadInv, SavedAhead, Ahead
  <1> QED
    BY <1>1, <1>3, <1>5 DEF AheadInv

\* A file gets another name: the first event to tell of it is that the record moves.
LEMMA RenameOnce ==
    ASSUME IInv, OnceInv, NEW a \in Names, NEW b \in Names, Rename(a, b)
    PROVE  OnceInv'
  <1> DEFINE e == Seen("MOVE", a) \o Seen("CREATE", b)
             kind == IF dir[b] = NoFile THEN "rename" ELSE "overwrite"
  <1>0. TypeOK /\ KeptInv /\ FilesInv /\ IdleInv
    BY DEF IInv, OnceInv
  <1>1. /\ a # b /\ dir[a] \in Files
        /\ kind \notin troubles /\ troubles' = troubles \cup {kind}
        /\ dir' = [dir EXCEPT ![a] = NoFile, ![b] = dir[a]]
        /\ path' = [path EXCEPT ![dir[a]] = b]
        /\ eventQueue' = eventQueue \o e
        /\ mode' = mode /\ content' = content /\ written' = written /\ appFile' = appFile
        /\ disk' = disk /\ loaded' = loaded /\ up' = up
        /\ initQueue' = initQueue /\ bulk' = bulk /\ pc' = pc /\ table' = table
        /\ sent' = sent /\ again' = again
    BY DEF Rename, Trouble, notify, posVars, threadVars, sentVars
  <1>2. /\ dir'[a] = NoFile /\ dir'[b] = dir[a]
        /\ \A n \in Names \ {a, b} : dir'[n] = dir[n]
        /\ path'[dir[a]] = b /\ \A f \in Files \ {dir[a]} : path'[f] = path[f]
    BY <1>0, <1>1 DEF TypeOK
  <1>3. FilesInv'
    <2>1. NoFile <= appFile
      BY <1>0 DEF TypeOK, Files, NoFile
    <2>2. ASSUME NEW n \in Names
          PROVE  (dir'[n] \in Files => path'[dir'[n]] = n) /\ dir'[n] <= appFile
      <3>1. CASE n = a
        BY <1>2, <2>1, <3>1, NoFileIsNoFile
      <3>2. CASE n = b
        BY <1>0, <1>2, <3>2 DEF FilesInv
      <3>3. CASE n \notin {a, b}
        <4>1. dir'[n] = dir[n] /\ dir[n] <= appFile
          BY <1>0, <1>2, <3>3 DEF FilesInv
        <4>2. ASSUME dir[n] \in Files PROVE path'[dir[n]] = n
          <5>1. dir[n] # dir[a]
            BY <1>0, <1>1, <3>3, OneName
          <5> QED
            BY <1>0, <1>2, <4>2, <5>1 DEF FilesInv
        <4> QED
          BY <4>1, <4>2
      <3> QED
        BY <3>1, <3>2, <3>3
    <2> QED
      BY <1>1, <2>2 DEF FilesInv
  <1>4. IdleInv'
    BY <1>0, <1>1 DEF IdleInv, Current
  <1>5. ASSUME Good' PROVE EventsInv' /\ HomeInv' /\ AheadInv'
    <2>1. Good /\ kind = "rename" /\ ~Restarted' /\ ~Restarted /\ Kept /\ ~Kept'
      <3>1. Good
        BY <1>1, <1>5, GoodBefore
      <3>2. kind = "rename"
        BY <1>1, <1>5 DEF Good
      <3>3. Renamed' /\ ~Kept'
        BY <1>1, <3>2 DEF Renamed, Kept
      <3>4. ~Restarted' /\ troubles' \subseteq {"rename", "stop"}
        BY <1>5, <3>3 DEF Good
      <3>5. ~Restarted /\ Kept
        BY <1>1, <3>2, <3>4 DEF Restarted, Kept
      <3> QED
        BY <3>1, <3>2, <3>3, <3>4, <3>5
    <2>2. EventsInv /\ HomeInv /\ AheadInv
      BY <2>1 DEF OnceInv
    <2>3. a = Live /\ dir[a] = 1
      BY <1>0, <1>1, <2>1, NoFileIsNoFile DEF KeptInv
    <2>4. /\ Seen("MOVE", a) \in Seq(Events) /\ Seen("CREATE", b) \in Seq(Events)
          /\ NoDelete(Seen("MOVE", a)) /\ NoDelete(Seen("CREATE", b))
          /\ up => MoveAhead(Seen("MOVE", a))
      BY <2>3, SeenType, SeenOnce DEF EventTypes
    <2>5. e \in Seq(Events) /\ NoDelete(e) /\ (up => MoveAhead(e))
      <3>1. e \in Seq(Events)
        BY <2>4
      <3> QED
        BY <2>4, <3>1, LongerQueue
    <2> HIDE DEF e, kind
    <2>6. EventsInv'
      BY <1>0, <1>1, <2>1, <2>2, <2>5, NotifyOnce
    <2>7. AheadInv'
      BY <1>1, <2>1, <2>2, StillAhead
    <2>8. \A k \in DOMAIN table : k = Key(Live) /\ table[k] # Null /\ table[k].file = 1
      BY <2>1, <2>2, KeptKey
    <2>9. CASE DOMAIN table = {}
      BY <1>1, <2>1, <2>6, <2>7, <2>9 DEF HomeInv, AtHome
    <2>10. CASE DOMAIN table # {}
      <3>1. up
        BY <1>0, <2>10, EmptyIs DEF IdleInv
      <3>2. DOMAIN table = {Key(Live)} /\ table[Key(Live)].file = 1
        BY <2>8, <2>10
      <3>3. eventQueue \in Seq(Events)
        BY <1>0 DEF TypeOK
      <3>4. MoveAhead(eventQueue')
        BY <1>1, <2>1, <2>2, <2>5, <3>1, <3>3, LongerQueue DEF EventsInv
      <3>5. mode.monitors \subseteq Monitors
        BY <1>0, ModesAssumption DEF TypeOK, ModeSet
      <3>6. \A t \in mode.monitors : MoveFirst(t)'
        BY <1>1, <2>1, <2>2, <3>4, <3>5 DEF EventsInv, MoveFirst
      <3>7. b \in Names \ {Live} /\ dir'[b] = 1
        BY <1>1, <1>2, <2>3
      <3>8. Quiet(initQueue')
        BY <1>1, <2>1, <2>2 DEF EventsInv
      <3>9. Pending'
        BY <1>1, <3>2, <3>6, <3>7, <3>8 DEF Pending
      <3> QED
        BY <2>1, <2>6, <2>7, <3>9 DEF HomeInv
    <2> QED
      BY <2>9, <2>10
  <1> QED
    BY <1>3, <1>4, <1>5 DEF OnceInv

\* The log is created anew, with a number no file had.
LEMMA ReopenOnce ==
    ASSUME IInv, OnceInv, Reopen
    PROVE  OnceInv'
  <1> DEFINE e == Seen("CREATE", Live)
  <1>0. TypeOK /\ KeptInv /\ FilesInv /\ IdleInv
    BY DEF IInv, OnceInv
  <1>1. /\ dir[Live] = NoFile /\ appFile < FileCount /\ appFile' = appFile + 1
        /\ dir' = [dir EXCEPT ![Live] = appFile + 1]
        /\ path' = [path EXCEPT ![appFile + 1] = Live]
        /\ eventQueue' = eventQueue \o e
        /\ mode' = mode /\ content' = content /\ written' = written
        /\ troubles' = troubles /\ disk' = disk /\ loaded' = loaded /\ up' = up
        /\ initQueue' = initQueue /\ bulk' = bulk /\ pc' = pc /\ table' = table
        /\ sent' = sent /\ again' = again
    BY DEF Reopen, notify, posVars, threadVars, sentVars
  <1>2. appFile \in Nat /\ appFile + 1 \in Files /\ Live \in Names
    BY <1>0, <1>1, BoundsAssumption, NamesAssumption DEF TypeOK, Files
  <1>3. /\ dir'[Live] = appFile + 1 /\ \A n \in Names \ {Live} : dir'[n] = dir[n]
        /\ path'[appFile + 1] = Live
        /\ \A f \in Files \ {appFile + 1} : path'[f] = path[f]
    BY <1>0, <1>1, <1>2 DEF TypeOK
  <1>4. FilesInv'
    <2>1. ASSUME NEW n \in Names
          PROVE  (dir'[n] \in Files => path'[dir'[n]] = n) /\ dir'[n] <= appFile + 1
      <3>1. CASE n = Live
        BY <1>2, <1>3, <3>1
      <3>2. CASE n # Live
        <4>1. dir'[n] = dir[n] /\ dir[n] <= appFile /\ dir[n] \in Nat
          BY <1>0, <1>3, <3>2 DEF FilesInv, TypeOK, Files, NoFile
        <4>2. dir[n] # appFile + 1 /\ dir[n] <= appFile + 1
          BY <1>2, <4>1
        <4> QED
          BY <1>0, <1>3, <4>1, <4>2 DEF FilesInv
      <3> QED
        BY <3>1, <3>2
    <2> QED
      BY <1>1, <2>1 DEF FilesInv
  <1>5. IdleInv'
    BY <1>0, <1>1 DEF IdleInv, Current
  <1>6. ~Kept /\ ~Kept' /\ (Restarted' <=> Restarted) /\ (Good' => Good)
    <2>1. ~Kept
      BY <1>0, <1>1, <1>2, NoFileIsNoFile DEF KeptInv
    <2> QED
      BY <1>1, <2>1, GoodBefore DEF Kept, Restarted
  <1>7. ASSUME Good PROVE EventsInv' /\ HomeInv' /\ AheadInv'
    <2>1. EventsInv /\ HomeInv /\ AheadInv
      BY <1>7 DEF OnceInv
    <2>2. e \in Seq(Events) /\ NoDelete(e)
      BY <1>2, SeenType, SeenOnce DEF EventTypes
    <2> HIDE DEF e
    <2>3. EventsInv' /\ \A t \in Monitors : MoveFirst(t) => MoveFirst(t)'
      BY <1>0, <1>1, <1>6, <2>1, <2>2, NotifyOnce
    <2>4. AheadInv'
      BY <1>1, <1>6, <2>1, StillAhead
    <2>5. mode.monitors \subseteq Monitors
      BY <1>0, ModesAssumption DEF TypeOK, ModeSet
    <2>6. Pending => Pending'
      BY <1>1, <1>3, <2>3, <2>5 DEF Pending
    <2>7. ASSUME AtHome PROVE AtHome'
      <3>1. ASSUME NEW k \in DOMAIN table, table[k] # Null
            PROVE  k = Key(k.name) /\ dir'[k.name] = table[k].file
        <4>1. k = Key(k.name) /\ dir[k.name] = table[k].file
          BY <2>7, <3>1 DEF AtHome
        <4>2. table[k].file \in Files /\ k.name \in Names
          BY <1>0, <3>1 DEF IInv, ShapesInv, Shaped, TypeOK, Keys
        <4>3. k.name # Live
          BY <1>1, <4>1, <4>2, NoFileIsNoFile
        <4> QED
          BY <1>3, <4>1, <4>2, <4>3
      <3> QED
        BY <1>1, <3>1 DEF AtHome
    <2> QED
      BY <1>6, <2>1, <2>3, <2>4, <2>6, <2>7 DEF HomeInv
  <1> QED
    BY <1>4, <1>5, <1>6, <1>7 DEF OnceInv

\* After a removal nothing more is promised.
LEMMA UnlinkOnce ==
    ASSUME IInv, OnceInv, NEW n \in Names, Unlink(n)
    PROVE  OnceInv'
  <1>0. TypeOK /\ FilesInv /\ IdleInv
    BY DEF IInv, OnceInv
  <1>1. /\ troubles' = troubles \cup {"unlink"} /\ dir' = [dir EXCEPT ![n] = NoFile]
        /\ path' = path /\ appFile' = appFile /\ up' = up
        /\ bulk' = bulk /\ pc' = pc /\ table' = table
    BY DEF Unlink, Trouble, threadVars
  <1>2. NoFile <= appFile
    BY <1>0 DEF TypeOK, Files, NoFile
  <1>3. FilesInv'
    BY <1>0, <1>1, <1>2, NoFileIsNoFile DEF FilesInv, TypeOK
  <1>4. IdleInv' /\ ~Good'
    BY <1>0, <1>1 DEF IdleInv, Current, Good
  <1> QED
    BY <1>3, <1>4 DEF OnceInv

\* Nor after a truncation.
LEMMA TruncateOnce ==
    ASSUME IInv, OnceInv, Truncate
    PROVE  OnceInv'
  <1>1. /\ troubles' = troubles \cup {"truncate"} /\ dir' = dir
        /\ path' = path /\ appFile' = appFile /\ up' = up
        /\ bulk' = bulk /\ pc' = pc /\ table' = table
    BY DEF Truncate, Trouble, threadVars
  <1>2. FilesInv' /\ IdleInv' /\ ~Good'
    BY <1>1 DEF OnceInv, FilesInv, IdleInv, Current, Good
  <1> QED
    BY <1>2 DEF OnceInv

\* What the scan finds is to be read, and before a rename it is the live name.
LEMMA ScanOnce ==
    ASSUME IInv, Scan
    PROVE  NoDelete(initQueue') /\ (Kept => Quiet(initQueue'))
  <1> DEFINE found == {n \in Watched : dir[n] \in Files}
             c == Cardinality(found)
  <1>0. TypeOK /\ KeptInv
    BY DEF IInv
  <1>1. found \subseteq Names
    BY NamesAssumption DEF Watched
  <1>2. c \in Nat
    BY <1>1, NamesAssumption, FS_Subset, FS_CardinalityType
  <1>3. Kept => \A n \in found : n = Live
    BY <1>0, <1>1, NoFileIsNoFile DEF KeptInv
  <1> HIDE DEF found
  <1>4. PICK s \in [1..c -> found] : initQueue' = [i \in DOMAIN s |-> Event("INIT", s[i])]
    BY DEF Scan, found
  <1> HIDE DEF c
  <1>5. Len(initQueue') = c /\ \A i \in 1..c : initQueue'[i] = Event("INIT", s[i])
    <2>1. initQueue' = [i \in 1..c |-> Event("INIT", s[i])]
      BY <1>4
    <2> QED
      BY <1>2, <2>1
  <1>6. \A i \in 1..c : /\ initQueue'[i].type = "INIT" /\ initQueue'[i].name = s[i]
                        /\ s[i] \in found
    BY <1>5 DEF Event
  <1> QED
    BY <1>3, <1>5, <1>6 DEF NoDelete, Quiet

\* The start: records will begin where the positions on disk say.
LEMMA StartOnce ==
    ASSUME IInv, OnceInv, Start
    PROVE  OnceInv'
  <1>0. TypeOK /\ FilesInv /\ IdleInv
    BY DEF IInv, OnceInv
  <1>1. /\ ~up /\ up' = TRUE /\ Scan /\ loaded' = disk
        /\ mode' = mode /\ dir' = dir /\ path' = path /\ content' = content
        /\ written' = written /\ appFile' = appFile /\ troubles' = troubles
        /\ eventQueue' = eventQueue /\ bulk' = bulk /\ pc' = pc
        /\ table' = table /\ sent' = sent /\ again' = again
    BY DEF Start, LoadPositions, fsVars, threadVars, sentVars
  <1>2. DOMAIN table = {}
    BY <1>0, <1>1, EmptyIs DEF IdleInv
  <1>3. FilesInv' /\ IdleInv'
    BY <1>0, <1>1 DEF FilesInv, IdleInv, Current
  <1>4. (Good' => Good) /\ Kept' = Kept
    BY <1>1, GoodBefore DEF Kept
  <1>5. ASSUME Good PROVE EventsInv' /\ HomeInv' /\ AheadInv'
    <2>1. EventsInv /\ AheadInv
      BY <1>5 DEF OnceInv
    <2>2. EventsInv'
      BY <1>1, <1>4, <2>1, ScanOnce DEF EventsInv
    <2>3. HomeInv'
      BY <1>1, <1>2 DEF HomeInv, AtHome
    <2>4. SentOnce' /\ RecordsAhead' /\ SavedAhead'
      BY <1>1, <1>2, <2>1 DEF AheadInv, SentOnce, RecordsAhead, SavedAhead
    <2>5. UnopenedAhead'
      <3>1. StartAt' = StartAt /\ Restarted' = Restarted
        BY <1>1 DEF StartAt, Restarted
      <3> QED
        BY <1>1, <2>1, <3>1 DEF AheadInv, UnopenedAhead, Unopened, Ahead
    <2> QED
      BY <2>2, <2>3, <2>4, <2>5 DEF AheadInv
  <1> QED
    BY <1>3, <1>4, <1>5 DEF OnceInv

\* When the process ends, no record is left.
LEMMA EndsOnce ==
    ASSUME OnceInv, ProcessEnds, Good' => AheadInv'
    PROVE  OnceInv'
  <1>1. /\ up' = FALSE /\ table' = Empty
        /\ dir' = dir /\ path' = path /\ appFile' = appFile
        /\ initQueue' = <<>> /\ eventQueue' = <<>>
        /\ bulk' = [t \in Monitors |-> <<>>] /\ pc' = [t \in Monitors |-> "run"]
    BY DEF ProcessEnds, fsVars
  <1>2. DOMAIN table' = {} /\ \A t \in Monitors : pc'[t] = "run" /\ bulk'[t] = <<>>
    BY <1>1, EmptyIs
  <1>3. FilesInv' /\ IdleInv'
    BY <1>1, <1>2 DEF OnceInv, FilesInv, IdleInv
  <1>4. EventsInv' /\ HomeInv'
    BY <1>1, <1>2, EmptyIs DEF EventsInv, HomeInv, AtHome
  <1> QED
    BY <1>3, <1>4 DEF OnceInv

\* After a crash nothing more is promised.
LEMMA CrashOnce ==
    ASSUME IInv, OnceInv, Crash \/ EmptyPointer
    PROVE  OnceInv'
  <1>0. TypeOK
    BY DEF IInv
  <1>1. ProcessEnds /\ Ends("crash")
    BY DEF Crash, EmptyPointer
  <1>3. "crash" \in troubles'
    BY <1>0, <1>1, EndTroubles
  <1>2. ~Good'
    BY <1>3 DEF Good
  <1> QED
    BY <1>1, <1>2, EndsOnce

\* The stop: between two bulks the position on disk is that of the record, and a file
\* without a record was not read by this process.  If an earlier one did read it, this
\* stop forgets how far.
LEMMA StopOnce ==
    ASSUME IInv, OnceInv, DiskInv, Stop
    PROVE  OnceInv'
  <1>0. TypeOK
    BY DEF IInv
  <1>1. /\ up /\ ProcessEnds /\ disk' = disk /\ \A t \in Monitors : bulk[t] = <<>>
        /\ Ends("stop")
    BY DEF Stop
  <1>4. /\ troubles \subseteq troubles' /\ Restarted'
        /\ Unsaved = {} \/ "forget" \in troubles'
    BY <1>0, <1>1, EndTroubles
  <1>2. /\ mode' = mode /\ content' = content /\ written' = written
        /\ sent' = sent /\ again' = again /\ up' = FALSE /\ table' = Empty
    BY <1>1 DEF ProcessEnds, fsVars, sentVars
  <1>3. ASSUME Good' PROVE AheadInv'
    <2>1. /\ Good /\ Restarted' /\ Kept /\ mode.saveState /\ ~Truncated
          /\ Unsaved = {}
      <3>1. Good /\ Restarted' /\ ~Renamed' /\ mode'.saveState
        BY <1>2, <1>3, <1>4, GoodBefore DEF Good
      <3>2. troubles' \subseteq {"rename", "stop"} /\ "rename" \notin troubles'
        BY <1>3, <3>1 DEF Good, Renamed
      <3> QED
        BY <1>2, <1>4, <3>1, <3>2 DEF Kept, Truncated
    <2>2. TypeOK /\ HomeInv /\ AheadInv /\ PlacesInv
      BY <2>1 DEF IInv, OnceInv
    <2>3. ~Locked(Key(Live))
      BY <1>1, <2>2, TypeHoldsEntry DEF Locked, HoldsEntry
    <2>4. ASSUME NEW p \in Int, p = (IF Key(Live) \in DOMAIN disk THEN disk[Key(Live)] ELSE 0)
          PROVE  Ahead(1, p)
      <3>1. CASE Key(Live) \in DOMAIN table
        BY <2>1, <2>2, <2>3, <2>4, <3>1 DEF AheadInv, SavedAhead
      <3>2. CASE Key(Live) \notin DOMAIN table
        <4>1. Unopened(1)
          BY <2>1, <2>2, <3>2, KeptKey DEF Unopened
        <4>2. Key(Live) \notin DOMAIN disk /\ p = 0
          BY <1>1, <2>1, <2>4, <3>2 DEF DiskInv
        <4>3. StartAt = 0
          BY <1>1, <2>1, <4>2 DEF StartAt, Unsaved
        <4> QED
          BY <2>1, <2>2, <4>1, <4>2, <4>3, NoFileIsNoFile DEF AheadInv, UnopenedAhead
      <3> QED
        BY <3>1, <3>2
    <2>5. SentOnce' /\ RecordsAhead' /\ SavedAhead'
      BY <1>2, <2>2, EmptyIs DEF AheadInv, SentOnce, RecordsAhead, SavedAhead
    <2>6. UnopenedAhead'
      <3>1. PICK p \in Int : p = (IF Key(Live) \in DOMAIN disk THEN disk[Key(Live)] ELSE 0)
        BY <2>2 DEF TypeOK
      <3>2. StartAt' = p
        BY <1>1, <1>2, <2>1, <3>1 DEF StartAt
      <3>3. Ahead(1, p)'
        BY <1>2, <2>4, <3>1, SilentAhead
      <3> QED
        BY <2>1, <3>2, <3>3 DEF UnopenedAhead, Ahead
    <2> QED
      BY <2>5, <2>6 DEF AheadInv
  <1> QED
    BY <1>1, <1>3, EndsOnce

-----------------------------------------------------------------------------
(* Nothing twice: positions on disk *)

\* Steps of a monitor thread: whoever saves a position has a record.
LEMMA MonitorDisk ==
    ASSUME IInv, OnceInv, DiskInv, NEW t \in Monitors, Monitor(t), Good, Kept, up, up',
           Key(Live) \notin DOMAIN table'
    PROVE  Key(Live) \notin DOMAIN disk'
  <1>0. TypeOK /\ HoldsEntry /\ EventsInv
    BY TypeHoldsEntry DEF IInv, OnceInv
  <1>1. CASE DOMAIN table \subseteq DOMAIN table' /\ disk' = disk
    BY <1>1 DEF DiskInv
  <1>2. CASE Take(t)
    BY <1>1, <1>2 DEF Take, posVars
  <1>3. CASE OpenFails(t)
    BY <1>1, <1>3 DEF OpenFails, posVars, With
  <1>4. CASE process(t)
    <2>1. disk' = disk /\ \E r : table' = With(table, CurrentKey(t), r)
      BY <1>4 DEF process, posVars
    <2> QED
      BY <1>1, <2>1 DEF With
  <1>5. CASE Read(t)
    <2>1. disk' = disk /\ \E r : table' = With(table, CurrentKey(t), r)
      BY <1>5 DEF Read, posVars
    <2> QED
      BY <1>1, <2>1 DEF With
  <1>6. CASE Save(t)
    <2>1. table' = table /\ CurrentKey(t) \in DOMAIN table
      BY <1>0, <1>6 DEF Save, HoldsEntry
    <2>2. DOMAIN disk' \subseteq DOMAIN disk \cup {CurrentKey(t)}
      BY <1>6 DEF Save, savePosition, With
    <2> QED
      BY <2>1, <2>2 DEF DiskInv
  <1>7. CASE move(t) \/ remove(t)
    <2>1. bulk[t] # <<>> /\ Current(t).type \in {"MOVE", "DELETE"}
      BY <1>7 DEF move, remove, Working
    <2>2. bulk[t] \in Seq(Events) /\ 1 \in 1..Len(bulk[t]) /\ Current(t) = bulk[t][1]
      BY <1>0, <2>1 DEF TypeOK, Current
    <2>3. Quiet(bulk[t]) /\ NoDelete(bulk[t])
      BY <1>0 DEF EventsInv
    <2> QED
      BY <2>1, <2>2, <2>3 DEF Quiet, NoDelete
  <1>8. CASE FollowEmptyPointer(t)
    BY <1>8 DEF FollowEmptyPointer, EmptyPointer, ProcessEnds
  <1> QED
    BY <1>2, <1>3, <1>4, <1>5, <1>6, <1>7, <1>8 DEF Monitor

\* The start removes the positions on disk; later they come with records.
LEMMA NextDisk ==
    IInv /\ OnceInv /\ DiskInv /\ [Next]_vars => DiskInv'
  <1> SUFFICES ASSUME IInv, OnceInv, DiskInv, [Next]_vars, Good', Kept', up',
                      Key(Live) \notin DOMAIN table'
               PROVE  Key(Live) \notin DOMAIN disk'
    BY DEF DiskInv, Key
  <1>1. TypeOK
    BY DEF IInv
  <1>2. ASSUME Stop \/ Crash PROVE FALSE
    BY <1>2 DEF Stop, Crash, ProcessEnds
  <1>3. CASE Start
    BY <1>3, EmptyIs DEF Start, LoadPositions
  <1>4. ASSUME up' = up, disk' = disk, table' = table, troubles \subseteq troubles', mode' = mode
        PROVE  Key(Live) \notin DOMAIN disk'
    BY <1>4, GoodBefore, TroublesGrow DEF DiskInv
  <1>5. CASE UNCHANGED vars
    BY <1>4, <1>5 DEF vars
  <1>6. ASSUME NEW isMark \in BOOLEAN, Append1(isMark) PROVE Key(Live) \notin DOMAIN disk'
    BY <1>4, <1>6 DEF Append1, posVars
  <1>7. ASSUME NEW a \in Names, NEW b \in Names, Rename(a, b)
        PROVE  Key(Live) \notin DOMAIN disk'
    BY <1>4, <1>7 DEF Rename, Trouble, posVars
  <1>8. CASE Reopen
    BY <1>4, <1>8 DEF Reopen, posVars
  <1>9. ASSUME NEW n \in Names, Unlink(n) PROVE Key(Live) \notin DOMAIN disk'
    BY <1>4, <1>9 DEF Unlink, Trouble, posVars
  <1>10. CASE Truncate
    BY <1>4, <1>10 DEF Truncate, Trouble, posVars
  <1>11. ASSUME NEW t \in mode.monitors, Monitor(t) PROVE Key(Live) \notin DOMAIN disk'
    <2>1. t \in Monitors
      BY <1>1, ModesAssumption DEF TypeOK, ModeSet
    <2>2. troubles' = troubles /\ mode' = mode /\ up' = up
      <3>1. ~FollowEmptyPointer(t)
        BY DEF FollowEmptyPointer, EmptyPointer, ProcessEnds
      <3> QED
        BY <1>11, <3>1 DEF Monitor, Take, OpenFails, process, Read, Save, move, remove
    <2>3. Good /\ Kept
      BY <2>2, GoodBefore DEF Kept
    <2> QED
      BY <1>11, <2>1, <2>2, <2>3, MonitorDisk
  <1>12. ASSUME NEW k \in Keys, flush(k) PROVE Key(Live) \notin DOMAIN disk'
    <2>1. ~EmptyPointer
      BY DEF EmptyPointer, ProcessEnds
    <2>2. /\ k \in DOMAIN table /\ FlushRecord(k)
          /\ troubles' = troubles /\ mode' = mode /\ up' = up
      BY <1>12, <2>1 DEF flush
    <2>3. DOMAIN table' = DOMAIN table /\ DOMAIN disk' \subseteq DOMAIN disk \cup {k}
      BY <2>2 DEF FlushRecord, savePosition, With
    <2>4. Good /\ Kept
      BY <2>2, GoodBefore DEF Kept
    <2> QED
      BY <2>2, <2>3, <2>4 DEF DiskInv
  <1> QED
    BY <1>2, <1>3, <1>5, <1>6, <1>7, <1>8, <1>9, <1>10, <1>11, <1>12 DEF Next

-----------------------------------------------------------------------------
(* Nothing twice: the theorem *)

\* At first nothing was read.
LEMMA InitOnce ==
    Init => OnceInv
  <1> SUFFICES ASSUME Init PROVE OnceInv
    OBVIOUS
  <1>1. /\ dir = [n \in Names |-> IF n = Live THEN 1 ELSE NoFile] /\ appFile = 1
        /\ path = [f \in Files |-> Live] /\ content = [f \in Files |-> <<>>]
        /\ initQueue = <<>> /\ eventQueue = <<>> /\ DOMAIN table = {} /\ table = Empty
        /\ sent = {} /\ again = {}
        /\ \A t \in Monitors : bulk[t] = <<>> /\ pc[t] = "run"
    BY EmptyIs DEF Init
  <1>2. FilesInv /\ IdleInv
    BY <1>1, NoFileIsNoFile DEF FilesInv, IdleInv, NoFile
  <1>3. EventsInv /\ HomeInv
    BY <1>1, EmptyIs DEF EventsInv, HomeInv, AtHome
  <1>4. UnitsOf(sent) = {}
    BY <1>1 DEF UnitsOf
  <1>5. AheadInv
    BY <1>1, <1>4 DEF AheadInv, SentOnce, RecordsAhead, UnopenedAhead, SavedAhead, Ahead
  <1> QED
    BY <1>2, <1>3, <1>5 DEF OnceInv

\* Every step of a monitor thread keeps it ...
LEMMA MonitorOnce ==
    ASSUME IInv, OnceInv, NEW t \in mode.monitors, Monitor(t)
    PROVE  OnceInv'
  <1>1. t \in Monitors
    BY ModesAssumption DEF IInv, TypeOK, ModeSet
  <1>2. CASE FollowEmptyPointer(t)
    BY <1>2, CrashOnce DEF FollowEmptyPointer
  <1> QED
    BY <1>1, <1>2, TakeOnce, OpenFailsOnce, processOnce, ReadOnce, SaveOnce, moveOnce,
       removeOnce DEF Monitor

\* ... and every other.
LEMMA NextOnce ==
    IInv /\ OnceInv /\ DiskInv /\ [Next]_vars => OnceInv'
  <1> SUFFICES ASSUME IInv, OnceInv, DiskInv, [Next]_vars PROVE OnceInv'
    OBVIOUS
  <1>1. CASE UNCHANGED vars
    <2>1. FilesInv' /\ IdleInv' /\ (Good' => Good)
      BY <1>1, GoodBefore DEF vars, OnceInv, FilesInv, IdleInv, Current
    <2>2. ASSUME Good PROVE EventsInv' /\ HomeInv' /\ AheadInv'
      <3>1. EventsInv /\ HomeInv /\ AheadInv /\ (Kept' <=> Kept) /\ (Restarted' <=> Restarted)
        BY <1>1, <2>2 DEF vars, OnceInv, Kept, Restarted
      <3>2. EventsInv'
        BY <1>1, <3>1 DEF vars, EventsInv
      <3>3. HomeInv'
        BY <1>1, <3>1 DEF vars, HomeInv, AtHome, Pending, MoveFirst
      <3>4. AheadInv'
        BY <1>1, <3>1, StillAhead DEF vars
      <3> QED
        BY <3>2, <3>3, <3>4
    <2> QED
      BY <2>1, <2>2 DEF OnceInv
  <1>2. ASSUME NEW k \in Keys, flush(k) PROVE OnceInv'
    <2>1. CASE table[k] = Null
      <3>1. EmptyPointer
        BY <1>2, <2>1, NullIs DEF flush, FlushRecord
      <3> QED
        BY <3>1, CrashOnce
    <2>2. CASE table[k] # Null
      BY <1>2, <2>2, flushOnce
    <2> QED
      BY <2>1, <2>2
  <1>3. CASE Next
    BY <1>2, <1>3, AppendOnce, RenameOnce, ReopenOnce, UnlinkOnce, TruncateOnce,
       StartOnce, StopOnce, CrashOnce, MonitorOnce DEF Next
  <1> QED
    BY <1>1, <1>3

\* No unit of a file reaches the input queue twice, for any number of names, files,
\* threads and units and buffers of any size: not when the file grows while it is
\* read, not when it is renamed between two events, not over any number of stops and
\* starts, unless one of the stops comes before a file whose position was loaded has
\* been looked at.
THEOREM NothingTwice ==
    Spec => []AtMostOnce
  <1>1. IInv /\ OnceInv => AtMostOnce
    <2> SUFFICES ASSUME IInv, OnceInv,
                        troubles \cap {"crash", "truncate", "unlink", "overwrite",
                                         "forget"} = {},
                        ~(Restarted /\ (Renamed \/ ~mode.saveState)),
                        ~(Renamed /\ Cardinality(mode.monitors) > 1)
                 PROVE  again = {}
      BY DEF AtMostOnce
    <2>1. troubles \subseteq {"rename", "stop"}
      BY DEF IInv, TypeOK, Troubles
    <2>2. Good
      BY <2>1 DEF Good
    <2> QED
      BY <2>2 DEF OnceInv, AheadInv, SentOnce
  <1>2. Init => DiskInv
    BY DEF Init, DiskInv
  <1>3. Spec => [](OnceInv /\ DiskInv)
    BY InitOnce, NextOnce, <1>2, NextDisk, Inductive, PTL DEF Spec
  <1> QED
    BY <1>1, <1>3, Inductive, PTL
=============================================================================
