--------------------------- MODULE Requests_proofs ---------------------------
(***************************************************************************)
(* What the user asks for, and what the peer asks the others for.          *)
(*                                                                         *)
(* The lines that process_user_input hands on are the lines typed, for     *)
(* every size of the buffer, as long as the reads fill it up to its half.  *)
(* The reason is a fact about the bytes that no variable counts: all of    *)
(* them from cur on are '\0', before and after each line.  memmove leaves  *)
(* the last k bytes of the buffer as they are; they were 0 because nothing *)
(* was ever read into the upper half.                                      *)
(*                                                                         *)
(* A round of WHOHAS asks for everything open, in order, for every list,   *)
(* every set of peers and every size of a packet.  Here the reason is that *)
(* form_WhoHas stops at the first place at which the packet is full: the   *)
(* number of hashes copied grows by one at a time, so it meets the size of *)
(* a packet before it exceeds it (CountMeets, from the least place at      *)
(* which it is that large).  And a chunk is only listed for a peer that    *)
(* has it, since an answer names what its peer has, however late it comes. *)
(***************************************************************************)
EXTENDS UserInput, Discovery, FiniteSetTheorems, SequenceTheorems, WellFoundedInduction, TLAPS

-----------------------------------------------------------------------------
(* The line the user types: module UserInput                               *)

HalfFull == 2 * MaxFill <= Size + 1

Types ==
  /\ buf \in [Index -> Chars \cup {NUL}]
  /\ cur \in 0..MaxFill
  /\ pc \in {"select", "loop", "exited"}
  /\ typed \in Seq(Chars)

\* The buffer holds what was typed and has not been handled, and then zeros.
Pending ==
  /\ Len(typed) = cur
  /\ \A i \in 0..(cur - 1) : buf[i] = typed[i + 1]
  /\ \A i \in cur..Size : buf[i] = NUL

IInv == Types /\ Pending

-----------------------------------------------------------------------------
LEMMA InitInv == InputInit => IInv
BY UserInputAssumption DEF InputInit, IInv, Types, Pending, Index, Chars, NUL

(* A read appends to both the buffer and the history.                      *)
LEMMA ReadPreservesInv ==
  ASSUME IInv, NEW s \in Texts, Read(s)
  PROVE  IInv'
<1>1. s \in Seq(Chars) /\ Len(s) \in Nat
  BY DEF Texts
<1>2. CASE cur >= Size - 1
  BY <1>2 DEF Read, IInv, Types, Pending
<1>3. CASE ~(cur >= Size - 1)
  <2>1. /\ cur \in Nat /\ Size \in Nat /\ MaxFill \in 1..Size
        /\ cur + Len(s) <= MaxFill /\ cur' = cur + Len(s)
        /\ typed' = typed \o s /\ pc' = "loop"
        /\ buf' = [i \in Index |-> IF i \in cur..(cur + Len(s) - 1) THEN s[i - cur + 1] ELSE buf[i]]
    BY <1>3, UserInputAssumption DEF Read, IInv, Types
  <2>2. typed' \in Seq(Chars) /\ Len(typed') = cur'
    <3>1. typed \in Seq(Chars) /\ Len(typed) = cur
      BY DEF IInv, Types, Pending
    <3>2. typed \o s \in Seq(Chars) /\ Len(typed \o s) = Len(typed) + Len(s)
      BY <1>1, <3>1, ConcatProperties
    <3> QED  BY <2>1, <3>1, <3>2
  <2>3. ASSUME NEW i \in Index
        PROVE  buf'[i] \in Chars \cup {NUL}
    <3>1. CASE i \in cur..(cur + Len(s) - 1)
      <4>1. i - cur + 1 \in 1..Len(s)
        BY <3>1, <2>1, <1>1 DEF Index
      <4>2. s[i - cur + 1] \in Chars
        BY <4>1, <1>1
      <4>3. buf'[i] = s[i - cur + 1]
        BY <3>1, <2>1
      <4> QED  BY <4>2, <4>3
    <3>2. CASE i \notin cur..(cur + Len(s) - 1)
      BY <3>2, <2>1 DEF IInv, Types
    <3> QED  BY <3>1, <3>2
  <2>4. Types'
    BY <1>1, <2>1, <2>2, <2>3 DEF Types
  <2>5. ASSUME NEW i \in 0..(cur' - 1)
        PROVE  buf'[i] = typed'[i + 1]
    <3>1. i \in Index
      BY <2>1, <1>1 DEF Index
    <3>2. CASE i < cur
      <4>1. buf'[i] = buf[i]
        BY <3>1, <3>2, <2>1
      <4>2. buf[i] = typed[i + 1]
        BY <3>2, <2>1 DEF IInv, Pending
      <4>3. typed'[i + 1] = typed[i + 1]
        BY <3>2, <2>1, <1>1 DEF IInv, Types, Pending
      <4> QED  BY <4>1, <4>2, <4>3
    <3>3. CASE i >= cur
      <4>1. buf'[i] = s[i - cur + 1]
        BY <3>1, <3>3, <2>1, <1>1
      <4>2. typed'[i + 1] = s[(i + 1) - cur]
        BY <3>3, <2>1, <1>1 DEF IInv, Types, Pending
      <4>3. (i + 1) - cur = i - cur + 1
        BY <2>1
      <4> QED  BY <4>1, <4>2, <4>3
    <3>4. i < cur \/ i >= cur
      BY <2>1, <1>1
    <3> QED  BY <3>2, <3>3, <3>4
  <2>6. \A i \in cur'..Size : buf'[i] = NUL
    BY <2>1, <1>1 DEF IInv, Pending, Index
  <2> QED  BY <2>2, <2>4, <2>5, <2>6 DEF IInv, Pending
<1> QED  BY <1>2, <1>3

(* A small number is itself as an unsigned one.                            *)
LEMMA SmallUnsigned ==
  ASSUME NEW w \in Nat \ {0}, NEW x \in 0..(w - 1)
  PROVE  x % w = x
OBVIOUS

(* The newline that strchr finds is the first that was typed.              *)
LEMMA FoundWhereTyped ==
  ASSUME IInv, HasLine
  PROVE  /\ LineEnd \in 0..(cur - 1)
         /\ typed[LineEnd + 1] = NL
         /\ \A i \in 1..LineEnd : typed[i] # NL
<1>1. LineEnd \in Index /\ IsLineEnd(LineEnd)
  BY DEF HasLine, LineEnd
<1>2. cur \in Nat /\ Size \in Nat /\ MaxFill \in 1..Size /\ cur <= MaxFill /\ NL # NUL
  BY UserInputAssumption DEF IInv, Types, NUL
<1>3. LineEnd \in 0..(cur - 1)
  BY <1>1, <1>2 DEF IInv, Pending, IsLineEnd, Index
<1>4. typed[LineEnd + 1] = NL
  BY <1>1, <1>3 DEF IInv, Pending, IsLineEnd
<1>5. ASSUME NEW i \in 1..LineEnd
      PROVE  typed[i] # NL
  <2>1. i - 1 \in 0..(LineEnd - 1) /\ i - 1 \in 0..(cur - 1) /\ (i - 1) + 1 = i
    BY <1>2, <1>3
  <2>2. buf[i - 1] = typed[i]
    BY <2>1 DEF IInv, Pending
  <2> QED  BY <1>1, <2>1, <2>2 DEF IsLineEnd
<1> QED  BY <1>3, <1>4, <1>5

(* What is left in the history begins behind that newline.                 *)
LEMMA LeftBehindLine ==
  ASSUME IInv, HasLine
  PROVE  /\ AfterFirstLine \in Seq(Chars)
         /\ Len(AfterFirstLine) = cur - LineEnd - 1
         /\ \A i \in 1..(cur - LineEnd - 1) : AfterFirstLine[i] = typed[LineEnd + 1 + i]
<1> DEFINE k == LineEnd
           e == CHOOSE i \in Ends : \A j \in Ends : i <= j
<1>1. k \in 0..(cur - 1) /\ typed[k + 1] = NL /\ \A i \in 1..k : typed[i] # NL
  BY FoundWhereTyped
<1>2. cur \in Nat /\ Len(typed) = cur /\ typed \in Seq(Chars) /\ DOMAIN typed = 1..cur
  BY UserInputAssumption DEF IInv, Types, Pending
<1> HIDE DEF k
<1>3. k + 1 \in Ends /\ \A j \in Ends : k + 1 <= j
  BY <1>1, <1>2 DEF Ends
<1>4. e \in Ends /\ \A j \in Ends : e <= j
  BY <1>3
<1>5. e = k + 1
  BY <1>1, <1>2, <1>3, <1>4 DEF Ends
<1>6. AfterFirstLine = SubSeq(typed, (k + 1) + 1, Len(typed))
  BY <1>3, <1>5 DEF AfterFirstLine
<1> HIDE DEF e
<1>7. AfterFirstLine = SubSeq(typed, k + 2, cur)
  BY <1>1, <1>2, <1>6
<1>8. /\ SubSeq(typed, k + 2, cur) \in Seq(Chars)
      /\ Len(SubSeq(typed, k + 2, cur)) = cur - k - 1
      /\ \A i \in 1..(cur - k - 1) : SubSeq(typed, k + 2, cur)[i] = typed[k + 1 + i]
  BY <1>1, <1>2
<1> QED  BY <1>7, <1>8 DEF k

(* memmove brings the rest to the front and leaves only zeros behind it.   *)
LEMMA HandlePreservesInv ==
  ASSUME HalfFull, IInv, HandleLine
  PROVE  IInv'
<1> DEFINE k == LineEnd
           n == cur - k - 1
<1>1. HasLine /\ buf' = Shifted(k) /\ cur' = CurAfter(k) /\ typed' = AfterFirstLine /\ pc' = "loop"
  BY DEF HandleLine
<1>2. k \in 0..(cur - 1)
  BY <1>1, FoundWhereTyped
<1>3. /\ typed' \in Seq(Chars) /\ Len(typed') = n
      /\ \A i \in 1..n : typed'[i] = typed[k + 1 + i]
  BY <1>1, LeftBehindLine
<1> HIDE DEF k
<1>4. /\ cur \in Nat /\ cur <= MaxFill /\ MaxFill \in 1..Size /\ Size \in Nat /\ 2 * MaxFill <= Size + 1
      /\ Wrap \in Nat /\ Wrap > 2 * Size
  BY UserInputAssumption DEF IInv, Types, HalfFull
<1>5. cur' = n
  <2>1. n \in 0..(Wrap - 1) /\ Wrap \in Nat \ {0}
    BY <1>2, <1>4
  <2> QED  BY <1>1, <2>1, SmallUnsigned DEF CurAfter
<1>6. buf' = [i \in Index |-> IF i < Size - k THEN buf[i + k + 1] ELSE IF i = k THEN NUL ELSE buf[i]]
  BY <1>1 DEF Shifted
<1>7. \A i \in Index : i < Size - k => i + k + 1 \in Index
  BY <1>2, <1>4 DEF Index
<1>8. buf' \in [Index -> Chars \cup {NUL}]
  BY <1>6, <1>7 DEF IInv, Types
<1>9. Types'
  BY <1>1, <1>2, <1>3, <1>4, <1>5, <1>8 DEF Types
<1>10. ASSUME NEW i \in 0..(n - 1)
       PROVE  buf'[i] = typed'[i + 1]
  <2>1. i \in Index /\ i < Size - k /\ i + k + 1 \in 0..(cur - 1) /\ i + 1 \in 1..n
        /\ (i + k + 1) + 1 = k + 1 + (i + 1)
    BY <1>2, <1>4 DEF Index
  <2>2. buf'[i] = buf[i + k + 1]
    BY <1>6, <2>1
  <2>3. buf[i + k + 1] = typed[(i + k + 1) + 1]
    BY <2>1 DEF IInv, Pending
  <2>4. typed'[i + 1] = typed[k + 1 + (i + 1)]
    BY <1>3, <2>1
  <2> QED  BY <2>1, <2>2, <2>3, <2>4
<1>11. ASSUME NEW i \in n..Size
       PROVE  buf'[i] = NUL
  <2>1. i \in Index
    BY <1>2, <1>4 DEF Index
  <2>2. CASE i < Size - k
    <3>1. i + k + 1 \in cur..Size
      BY <1>2, <1>4, <2>2
    <3> QED  BY <1>6, <2>1, <2>2, <3>1 DEF IInv, Pending
  <2>3. CASE ~(i < Size - k)
    <3>1. i \in cur..Size
      BY <1>2, <1>4, <2>3
    <3> QED  BY <1>6, <2>1, <2>3, <3>1 DEF IInv, Pending
  <2> QED  BY <2>2, <2>3
<1> QED  BY <1>3, <1>5, <1>9, <1>10, <1>11 DEF IInv, Pending

(* What the reads and the lines handled keep true.                        *)
LEMMA InputInvariance ==
  ASSUME HalfFull
  PROVE  InputSpec => []IInv
<1>1. IInv /\ [InputNext]_inputVars => IInv'
  <2> SUFFICES ASSUME IInv, [InputNext]_inputVars PROVE IInv'
    OBVIOUS
  <2>1. CASE \E s \in Texts : Read(s)
    BY <2>1, ReadPreservesInv
  <2>2. CASE HandleLine
    BY <2>2, HandlePreservesInv
  <2>3. CASE NoMoreLines \/ UNCHANGED inputVars
    BY <2>3 DEF NoMoreLines, inputVars, IInv, Types, Pending
  <2> QED  BY <2>1, <2>2, <2>3 DEF InputNext
<1> QED  BY <1>1, InitInv, PTL DEF InputSpec

-----------------------------------------------------------------------------
(* With reads up to half of the buffer, cur stays below their limit and    *)
(* the byte behind the buffer is '\0', so that strchr stops there.         *)
THEOREM InputTypeCorrect ==
  ASSUME HalfFull
  PROVE  InputSpec => []InputTypeOK
<1>1. IInv => InputTypeOK
  BY UserInputAssumption DEF IInv, Types, Pending, InputTypeOK, Index
<1> QED  BY <1>1, InputInvariance, PTL

(* With reads up to half of the buffer, as from a terminal, each line that *)
(* is handled is the next one typed, whole and unchanged.                  *)
THEOREM LinesAsTyped ==
  ASSUME HalfFull
  PROVE  InputSpec => []LineAsTyped
<1>1. IInv => LineAsTyped
  <2> SUFFICES ASSUME IInv, HasLine
               PROVE  LineEnd < Len(typed) /\ \A i \in 0..LineEnd : typed[i + 1] = buf[i]
    BY DEF LineAsTyped
  <2>1. LineEnd \in 0..(cur - 1) /\ cur \in Int
    BY FoundWhereTyped, UserInputAssumption DEF IInv, Types
  <2>2. 0..LineEnd \subseteq 0..(cur - 1)
    BY <2>1
  <2> QED  BY <2>1, <2>2 DEF IInv, Pending
<1> QED  BY <1>1, InputInvariance, PTL

-----------------------------------------------------------------------------
(* The rounds of WHOHAS: module Discovery                                  *)

\* A set of numbers that is not empty has a least one.
LEMMA Least ==
  ASSUME NEW S \in SUBSET Nat, S # {}
  PROVE  \E m \in S : \A k \in S : m <= k
<1>1. IsWellFoundedOn(OpToRel(<, Nat), Nat)
  BY NatLessThanWellFounded
<1>2. PICK m \in S : \A k \in S : <<k, m>> \notin OpToRel(<, Nat)
  BY <1>1, WFMin, Zenon
<1>3. \A k \in S : ~(k < m)
  BY <1>2, Zenon DEF OpToRel
<1> QED
  BY <1>3

\* The places of the needlist, and sets of them.
LEMMA PlacesFacts ==
  /\ Len(needlist) \in Nat /\ Idle = Len(needlist) + 1 /\ Places = 1..Len(needlist)
  /\ \A js \in SUBSET Places :
       IsFiniteSet(js) /\ Cardinality(js) \in Nat /\ (Cardinality(js) = 0 <=> js = {})
  /\ \A i \in Places : needlist[i] \in Hashes
<1>1. Len(needlist) \in Nat /\ \A i \in Places : needlist[i] \in Hashes
  BY DiscoveryAssumption DEF Places
<1>2. IsFiniteSet(Places)
  BY <1>1, FS_Interval DEF Places
<1>3. \A js \in SUBSET Places : IsFiniteSet(js)
  BY <1>2, FS_Subset
<1>4. \A js \in SUBSET Places : Cardinality(js) \in Nat /\ (Cardinality(js) = 0 <=> js = {})
  BY <1>3, FS_CardinalityType, FS_EmptySet
<1> QED
  BY <1>1, <1>3, <1>4 DEF Places, Idle

\* A count that begins at 0 and grows by one at a time meets each number up to
\* where it gets, at a step that makes it grow.
CountsFrom(c, i) ==
  /\ c \in [Nat -> Nat] /\ i \in Nat \ {0}
  /\ c[i - 1] = 0
  /\ \A j \in Nat : j >= i => c[j] = c[j - 1] \/ c[j] = c[j - 1] + 1

LEMMA CountMeets ==
  ASSUME NEW c, NEW i, CountsFrom(c, i), NEW n \in Nat, i <= n, NEW s \in Nat \ {0}, s <= c[n]
  PROVE  \E j \in Nat : i <= j /\ c[j] = s /\ c[j - 1] = s - 1
<1> USE DEF CountsFrom
<1> DEFINE Reached == {j \in Nat : j >= i /\ c[j] >= s}
<1>1. n \in Reached
  OBVIOUS
<1>2. PICK j \in Reached : \A k \in Reached : j <= k
  <2>1. Reached \in SUBSET Nat
    OBVIOUS
  <2> HIDE DEF Reached
  <2> QED
    BY <1>1, <2>1, Least
<1>3. j \in Nat /\ j >= i /\ c[j] >= s /\ j - 1 \in Nat
  BY <1>2
<1>4. c[j] \in Nat /\ c[j - 1] \in Nat
  BY <1>3
<1>5. c[j - 1] < s
  <2>1. CASE j = i
    BY <2>1
  <2>2. CASE j # i
    <3>1. j - 1 >= i /\ ~(j <= j - 1)
      BY <1>3, <2>2
    <3>2. ~(c[j - 1] >= s)
      BY <1>2, <1>3, <3>1
    <3> QED
      BY <3>2, <1>4
  <2> QED
    BY <2>1, <2>2
<1>6. c[j] = c[j - 1] \/ c[j] = c[j - 1] + 1
  BY <1>3
<1>7. c[j] = s /\ c[j - 1] = s - 1
  BY <1>3, <1>4, <1>5, <1>6
<1> QED
  BY <1>3, <1>7

\* The first of some places, or the end.
LEMMA FirstPlace ==
  ASSUME NEW js \in SUBSET Places
  PROVE  IF js = {} THEN First(js) = Idle
                    ELSE First(js) \in js /\ \A k \in js : First(js) <= k
<1>1. CASE js = {}
  BY <1>1 DEF First
<1>2. CASE js # {}
  <2>1. js \in SUBSET Nat
    BY PlacesFacts
  <2>2. \E j \in js : \A k \in js : j <= k
    BY <1>2, <2>1, Least
  <2> QED
    BY <1>2, <2>2 DEF First
<1> QED
  BY <1>1, <1>2

\* The node at i or behind it: none is passed over.
LEMMA NodeFromFacts ==
  ASSUME need \subseteq Places, NEW i \in Nat, i <= Idle
  PROVE  /\ NodeFrom(i) \in need \cup {Idle} /\ NodeFrom(i) >= i
         /\ \A j \in need : j < NodeFrom(i) <=> j < i
<1> DEFINE later == {j \in need : j >= i}
<1>1. /\ Len(needlist) \in Nat /\ Idle = Len(needlist) + 1 /\ Places = 1..Len(needlist)
      /\ later \in SUBSET Places
  BY PlacesFacts
<1>2. CASE later = {}
  <2>1. NodeFrom(i) = Idle
    BY <1>1, <1>2, FirstPlace DEF NodeFrom
  <2> QED
    BY <1>1, <1>2, <2>1
<1>3. CASE later # {}
  <2>1. NodeFrom(i) \in later /\ \A k \in later : NodeFrom(i) <= k
    BY <1>1, <1>3, FirstPlace DEF NodeFrom
  <2> QED
    BY <1>1, <2>1
<1> QED
  BY <1>2, <1>3

\* What is open from a place on is the later part of all that is open.
LEMMA OpenFacts ==
  ASSUME need \subseteq Places, NEW i \in Nat, i >= 1
  PROVE  /\ Open(1) \subseteq need
         /\ Open(i) = {j \in Open(1) : j >= i}
<1>1. need \subseteq Nat /\ \A j \in need : j >= 1
  BY PlacesFacts
<1>2. \A j \in need : j >= i /\ ~IsListed(needlist[j]) <=> j >= 1 /\ ~IsListed(needlist[j]) /\ j >= i
  BY <1>1, Zenon
<1> QED
  BY <1>2, Zenon DEF Open

\* A round stops at a full packet or at the end of the list: a packet never has
\* more hashes than fit.  Were all open places from i on too many, the first of
\* them by which they are PageSize would fill the packet.
LEMMA PageBounds ==
  ASSUME need \subseteq Places, NEW i \in Places
  PROVE  /\ PageEnd(i) \in (i + 1)..Idle
         /\ PageHashes(i, PageEnd(i)) \subseteq Places
         /\ Cardinality(PageHashes(i, PageEnd(i))) <= PageSize
<1> DEFINE O == Open(i)
           Count(j) == Cardinality(O \cap i..j)
<1>1. Len(needlist) \in Nat /\ Idle = Len(needlist) + 1 /\ Places = 1..Len(needlist)
  BY PlacesFacts
<1>2. O \subseteq i..Len(needlist) /\ O \subseteq Places
  <2>1. O \subseteq need /\ \A j \in O : j >= i
    BY Zenon DEF Open
  <2> HIDE DEF O
  <2> QED
    BY <1>1, <2>1
<1>3. \A j \in Nat : O \cap i..j \in SUBSET Places
  BY <1>2
<1>4. \A j \in Nat : IsFiniteSet(O \cap i..j) /\ Count(j) \in Nat
  BY <1>3, PlacesFacts, Zenon
<1>5. PageSize \in Nat \ {0}
  BY DiscoveryAssumption
<1>6. CASE Filling(i) # {}
  <2> DEFINE f == CHOOSE j \in Filling(i) : TRUE
  <2>1. f \in Filling(i)
    BY <1>6
  <2>2. f \in O /\ Cardinality(O \cap i..f) = PageSize
    BY <2>1 DEF Filling
  <2>3. PageEnd(i) = f + 1
    BY <1>6 DEF PageEnd
  <2> HIDE DEF f
  <2>4. PageHashes(i, PageEnd(i)) = O \cap i..f
    <3>1. \A j \in O : j < f + 1 <=> j \in i..f
      BY <1>1, <1>2, <2>2
    <3> QED
      BY <3>1, <2>3 DEF PageHashes
  <2>5. Cardinality(PageHashes(i, PageEnd(i))) <= PageSize
    BY <2>2, <2>4, <1>5
  <2>6. PageEnd(i) \in (i + 1)..Idle
    BY <1>1, <1>2, <2>2, <2>3
  <2> HIDE DEF O
  <2> QED
    BY <1>2, <2>4, <2>5, <2>6
<1>7. CASE Filling(i) = {}
  <2>1. PageEnd(i) = Idle
    BY <1>7 DEF PageEnd
  <2>2. PageHashes(i, PageEnd(i)) = O /\ O = O \cap i..Len(needlist)
    BY <1>1, <1>2, <2>1 DEF PageHashes
  <2>3. \A j \in O : Cardinality(O \cap i..j) # PageSize
    BY <1>7 DEF Filling
  <2> HIDE DEF O
  <2>4. Cardinality(O \cap i..Len(needlist)) <= PageSize
    <3> DEFINE c == [j \in Nat |-> Cardinality(O \cap i..j)]
    <3>1. c \in [Nat -> Nat]
      BY <1>4
    <3>2. i \in Nat \ {0} /\ Len(needlist) \in Nat /\ i <= Len(needlist)
      BY <1>1
    <3>3. c[i - 1] = 0
      <4>1. i - 1 \in Nat /\ O \cap i..(i - 1) = {}
        BY <3>2
      <4>2. Cardinality(O \cap i..(i - 1)) = 0
        BY <4>1, FS_EmptySet
      <4> QED
        BY <4>1, <4>2
    <3>4. ASSUME NEW j \in Nat, j >= i
          PROVE  c[j] = IF j \in O THEN c[j - 1] + 1 ELSE c[j - 1]
      <4>1. j - 1 \in Nat
        BY <3>2, <3>4
      <4>2. CASE j \in O
        <5>1. O \cap i..j = (O \cap i..(j - 1)) \cup {j} /\ j \notin O \cap i..(j - 1)
          BY <3>2, <3>4, <4>2
        <5>2. Cardinality((O \cap i..(j - 1)) \cup {j}) = Cardinality(O \cap i..(j - 1)) + 1
          BY <5>1, <4>1, <1>4, FS_AddElement
        <5> QED
          BY <4>1, <4>2, <5>1, <5>2
      <4>3. CASE j \notin O
        <5>1. O \cap i..j = O \cap i..(j - 1)
          BY <3>2, <3>4, <4>3
        <5> QED
          BY <4>1, <4>3, <5>1
      <4> QED
        BY <4>2, <4>3
    <3>5. c[Len(needlist)] = Cardinality(O \cap i..Len(needlist))
      BY <1>1
    <3>6. \A j \in O : j \in Nat /\ c[j] # PageSize
      BY <1>1, <1>2, <2>3
    <3> HIDE DEF c
    <3>7. \A j \in Nat : j >= i => c[j] = c[j - 1] \/ c[j] = c[j - 1] + 1
      BY <3>4
    <3>8. ASSUME PageSize <= c[Len(needlist)] PROVE FALSE
      <4>0. CountsFrom(c, i) /\ Len(needlist) \in Nat /\ i <= Len(needlist)
        BY <3>1, <3>2, <3>3, <3>7 DEF CountsFrom
      <4>1. PICK j \in Nat : i <= j /\ c[j] = PageSize /\ c[j - 1] = PageSize - 1
        BY <1>5, <3>8, <4>0, CountMeets
      <4>2. j \notin O
        BY <4>1, <3>6
      <4>3. c[j] = c[j - 1]
        BY <4>1, <4>2, <3>4
      <4> QED
        BY <4>1, <4>3, <1>5
    <3>9. c[Len(needlist)] \in Nat
      BY <3>1, <1>1
    <3> QED
      BY <3>5, <3>8, <3>9, <1>5
  <2>5. Cardinality(PageHashes(i, PageEnd(i))) <= PageSize
    BY <2>2, <2>4, <1>5
  <2>6. PageEnd(i) \in (i + 1)..Idle
    BY <1>1, <2>1
  <2> QED
    BY <1>2, <2>2, <2>5, <2>6
<1> QED
  BY <1>6, <1>7

-----------------------------------------------------------------------------
\* What a packet carries, as long as it may still be sent.
PageFits == page # None => Cardinality(page) <= PageSize

\* What the round has done: everything open before curr is asked for or in hand,
\* what is in hand comes behind what was asked for.
RoundSoFar ==
  ~InLoop =>
    /\ asked \cup InHand = {j \in Open(1) : j < curr}
    /\ \A i \in asked, j \in InHand : i < j

DInv == TypeOK /\ PageFits /\ RoundSoFar

LEMMA DInit == Init => DInv
<1> SUFFICES ASSUME Init PROVE DInv
  OBVIOUS
<1>1. /\ need = Places /\ phase = "recv" /\ curr = Idle /\ DOMAIN listed = {}
      /\ page = None /\ asked = {} /\ net = {}
  BY DEF Init
<1>2. InLoop
  BY DEF Init, InLoop
<1> QED
  BY <1>1, <1>2 DEF DInv, TypeOK, PageFits, RoundSoFar

LEMMA BeginRoundKeeps ==
  ASSUME DInv, BeginRound
  PROVE  DInv'
<1>1. /\ curr' = NodeFrom(1) /\ asked' = {} /\ page' = None /\ phase' = "recv"
      /\ need' = need /\ listed' = listed /\ net' = net
  BY DEF BeginRound, InLoop
<1>2. /\ NodeFrom(1) \in need \cup {Idle}
      /\ \A j \in need : ~(j < NodeFrom(1))
  <2>1. need \subseteq Places /\ 1 <= Idle /\ \A j \in need : ~(j < 1)
    BY PlacesFacts DEF DInv, TypeOK
  <2> QED
    BY <2>1, NodeFromFacts
<1>3. TypeOK'
  BY <1>1, <1>2 DEF DInv, TypeOK
<1>4. Open(1)' \subseteq need
  BY <1>1 DEF Open
<1>5. PageFits' /\ RoundSoFar'
  BY <1>1, <1>2, <1>4 DEF PageFits, RoundSoFar, InHand
<1> QED
  BY <1>3, <1>5 DEF DInv

LEMMA FormWhoHasKeeps ==
  ASSUME DInv, FormWhoHas
  PROVE  DInv'
<1> DEFINE e == PageEnd(curr)
           n == NodeFrom(e)
<1>1. Len(needlist) \in Nat /\ Idle = Len(needlist) + 1 /\ Places = 1..Len(needlist)
  BY PlacesFacts
<1>2. /\ need \subseteq Places /\ curr \in Places /\ page = None
      /\ page' = PageHashes(curr, e) /\ curr' = n
      /\ need' = need /\ listed' = listed /\ phase' = phase /\ asked' = asked /\ net' = net
  BY <1>1 DEF DInv, TypeOK, FormWhoHas, NextPage
<1>3. /\ e \in (curr + 1)..Idle /\ PageHashes(curr, e) \subseteq Places
      /\ Cardinality(PageHashes(curr, e)) <= PageSize
  BY <1>2, PageBounds
<1> HIDE DEF e
<1>4. /\ e \in 1..Idle /\ n \in need \cup {Idle}
      /\ \A j \in need : j < n <=> j < e
  <2>1. e \in 1..Idle
    BY <1>1, <1>2, <1>3
  <2> QED
    BY <1>1, <1>2, <2>1, NodeFromFacts
<1> HIDE DEF n
<1>5. TypeOK'
  BY <1>2, <1>3, <1>4 DEF DInv, TypeOK
<1>6. PageFits'
  BY <1>2, <1>3 DEF PageFits
<1>7. asked = {j \in Open(1) : j < curr}
  <2>1. ~InLoop /\ InHand = {}
    BY <1>1, <1>2 DEF InLoop, InHand
  <2> QED
    BY <2>1 DEF DInv, RoundSoFar
<1>8. Open(1)' = Open(1) /\ InHand' = PageHashes(curr, e)
  <2>1. page' # None
    BY <1>1, <1>2, <1>3, DiscoveryAssumption
  <2> QED
    BY <1>2, <2>1 DEF Open, IsListed, InHand
<1>9. PageHashes(curr, e) = {j \in Open(1) : j >= curr /\ j < e}
  <2>1. Open(curr) = {j \in Open(1) : j >= curr}
    BY <1>1, <1>2, OpenFacts
  <2> QED
    BY <2>1 DEF PageHashes
<1>10. \A j \in Open(1) : j \in Nat /\ (j < n <=> j < e)
  BY <1>1, <1>2, <1>4 DEF Open
<1>11. asked \cup PageHashes(curr, e) = {j \in Open(1) : j < n}
  <2>1. \A j \in Open(1) : j < n <=> j < curr \/ (j >= curr /\ j < e)
    BY <1>1, <1>2, <1>3, <1>4, <1>10
  <2> QED
    BY <1>7, <1>9, <2>1
<1>12. \A i \in asked, j \in PageHashes(curr, e) : i < j
  BY <1>1, <1>2, <1>7, <1>9, <1>10
<1>13. RoundSoFar'
  BY <1>2, <1>8, <1>11, <1>12 DEF RoundSoFar
<1> QED
  BY <1>5, <1>6, <1>13 DEF DInv

LEMMA BroadcastKeeps ==
  ASSUME DInv, Broadcast
  PROVE  DInv'
<1>1. /\ page # None /\ page' = None /\ curr' = curr
      /\ need' = need /\ listed' = listed /\ phase' = phase
      /\ page \subseteq Places /\ Cardinality(page) \in Nat /\ (Cardinality(page) = 0 <=> page = {})
  BY PlacesFacts DEF DInv, TypeOK, Broadcast
<1>2. asked' = asked \cup page
  BY <1>1 DEF Broadcast, Worth
<1>3. \A m \in net' : m \in net \/ (Cardinality(page) # 0 /\ \E p \in Peers : m = WhoHas(p, page))
  BY DEF Broadcast, Worth, Send
<1>4. ASSUME NEW m \in net'
      PROVE  m.type \in {"WHOHAS", "IHAVE"} /\ m.peer \in Peers /\ PageOK(m.hashes)
  <2>1. CASE m \in net
    BY <2>1 DEF DInv, TypeOK
  <2>2. CASE m \notin net
    <3>1. Cardinality(page) # 0 /\ \E p \in Peers : m = WhoHas(p, page)
      BY <1>3, <2>2
    <3>2. Cardinality(page) \in 1..PageSize
      BY <1>1, <3>1, DiscoveryAssumption DEF DInv, PageFits
    <3> QED
      BY <1>1, <3>1, <3>2 DEF WhoHas, PageOK
  <2> QED
    BY <2>1, <2>2
<1>5. TypeOK'
  BY <1>1, <1>2, <1>4 DEF DInv, TypeOK
<1>6. RoundSoFar'
  <2>1. ~InLoop /\ InHand = page /\ InHand' = {} /\ Open(1)' = Open(1)
    BY <1>1 DEF InLoop, InHand, Open, IsListed
  <2>2. asked \cup page = {j \in Open(1) : j < curr}
    BY <2>1 DEF DInv, RoundSoFar
  <2> QED
    BY <1>1, <1>2, <2>1, <2>2 DEF RoundSoFar
<1>7. PageFits'
  BY <1>1 DEF PageFits
<1> QED
  BY <1>5, <1>6, <1>7 DEF DInv

LEMMA AnswerKeeps ==
  ASSUME DInv, NEW m \in net, Answer(m)
  PROVE  DInv'
<1> DEFINE hs == Held(m.peer, m.hashes)
<1>1. /\ need' = need /\ listed' = listed /\ phase' = phase
      /\ curr' = curr /\ page' = page /\ asked' = asked
  BY DEF Answer
<1>2. m.peer \in Peers /\ m.hashes \subseteq Places /\ Cardinality(m.hashes) \in 1..PageSize
  BY DEF DInv, TypeOK, PageOK
<1>3. hs \subseteq m.hashes
  BY DEF Held
<1>4. hs \subseteq Places /\ Cardinality(hs) \in Nat /\ Cardinality(hs) <= PageSize
  <2>1. Cardinality(hs) <= Cardinality(m.hashes)
    BY <1>2, <1>3, PlacesFacts, FS_Subset
  <2>2. hs \in SUBSET Places
    BY <1>2, <1>3
  <2>3. Cardinality(hs) \in Nat
    BY <2>2, PlacesFacts, Zenon
  <2> HIDE DEF hs
  <2> QED
    BY <1>2, <2>1, <2>2, <2>3, DiscoveryAssumption
<1>5. \A k \in net' : k \in net \/ (Cardinality(hs) > 0 /\ k = IHave(m.peer, hs))
  BY DEF Answer, Send
<1> HIDE DEF hs
<1>6. ASSUME NEW k \in net'
      PROVE  k.type \in {"WHOHAS", "IHAVE"} /\ k.peer \in Peers /\ PageOK(k.hashes)
  <2>1. CASE k \in net
    BY <2>1 DEF DInv, TypeOK
  <2>2. CASE k \notin net
    <3>1. Cardinality(hs) \in 1..PageSize /\ k = IHave(m.peer, hs)
      BY <1>4, <1>5, <2>2, DiscoveryAssumption
    <3> QED
      BY <1>2, <1>4, <3>1 DEF IHave, PageOK
  <2> QED
    BY <2>1, <2>2
<1>7. TypeOK'
  BY <1>1, <1>6 DEF DInv, TypeOK
<1>8. PageFits' /\ RoundSoFar'
  BY <1>1 DEF DInv, PageFits, RoundSoFar, InLoop, InHand, Open, IsListed
<1> QED
  BY <1>7, <1>8 DEF DInv

\* Between two rounds nothing is said of listed.
LEMMA HearIHaveKeeps ==
  ASSUME DInv, NEW m \in net, HearIHave(m)
  PROVE  DInv'
<1> DEFINE heard == {needlist[i] : i \in m.hashes} \cap Needed
           new == {h \in heard : ~IsListed(h)}
<1>1. /\ InLoop /\ need' = need /\ phase' = "gets" /\ curr' = curr /\ page' = page /\ asked' = asked /\ net' \subseteq net
      /\ m.peer \in Peers /\ m.hashes \subseteq Places
  BY DEF DInv, TypeOK, PageOK, HearIHave
<1>2. heard \subseteq Hashes
  BY <1>1, PlacesFacts
<1>3. PICK moved \in SUBSET (heard \ new) :
        listed' = [h \in DOMAIN listed \cup new |->
                     IF h \in new \cup moved THEN m.peer ELSE listed[h]]
  BY DEF HearIHave
<1>4. DOMAIN listed' \subseteq Hashes /\ \A h \in DOMAIN listed' : listed'[h] \in Peers
  <2>1. DOMAIN listed \subseteq Hashes /\ \A h \in DOMAIN listed : listed[h] \in Peers
    BY DEF DInv, TypeOK
  <2>2. new \subseteq heard
    OBVIOUS
  <2> HIDE DEF heard, new
  <2> QED
    BY <1>1, <1>2, <1>3, <2>1, <2>2
<1>5. TypeOK'
  BY <1>1, <1>4 DEF DInv, TypeOK
<1>6. InLoop'
  BY <1>1 DEF InLoop
<1> QED
  BY <1>1, <1>5, <1>6 DEF DInv, PageFits, RoundSoFar

LEMMA UnlistKeeps ==
  ASSUME DInv, NEW h \in Hashes, Drop(h) \/ Finish(h)
  PROVE  DInv'
<1>1. /\ InLoop /\ need' \subseteq need /\ phase' = phase /\ curr' = curr /\ page' = page /\ asked' = asked /\ net' = net
      /\ listed' = [g \in DOMAIN listed \ {h} |-> listed[g]]
  BY DEF Drop, Finish, Unlist
<1>2. TypeOK'
  BY <1>1 DEF DInv, TypeOK, InLoop
<1>3. InLoop'
  BY <1>1 DEF InLoop
<1> QED
  BY <1>1, <1>2, <1>3 DEF DInv, PageFits, RoundSoFar

LEMMA DNext == DInv /\ [Next]_vars => DInv'
<1> SUFFICES ASSUME DInv, [Next]_vars PROVE DInv'
  OBVIOUS
<1>1. CASE BeginRound
  BY <1>1, BeginRoundKeeps
<1>0. CASE NoIHave \/ NoRound
  <2>1. /\ InLoop /\ phase' \in {"recv", "gets"} /\ need' = need /\ listed' = listed
        /\ curr' = curr /\ page' = page /\ asked' = asked /\ net' = net
    BY <1>0 DEF NoIHave, NoRound
  <2> QED
    BY <2>1 DEF DInv, TypeOK, PageFits, RoundSoFar, InLoop
<1>2. CASE FormWhoHas
  BY <1>2, FormWhoHasKeeps
<1>3. CASE Broadcast
  BY <1>3, BroadcastKeeps
<1>4. CASE \E m \in net : Answer(m)
  BY <1>4, AnswerKeeps
<1>5. CASE \E m \in net : HearIHave(m)
  BY <1>5, HearIHaveKeeps
<1>6. CASE \E h \in Hashes : Drop(h) \/ Finish(h)
  BY <1>6, UnlistKeeps
<1>7. CASE UNCHANGED vars
  BY <1>7 DEF vars, DInv, TypeOK, PageFits, RoundSoFar, InLoop, InHand, Open, IsListed
<1> QED
  BY <1>0, <1>1, <1>2, <1>3, <1>4, <1>5, <1>6, <1>7 DEF Next

(* What every step of a round, and of what happens between two, keeps true. *)
LEMMA DiscoveryInvariance == Spec => []DInv
<1> QED
  BY DInit, DNext, PTL DEF Spec

(* No packet of WHOHAS has more hashes than fit or none, nor has an answer, *)
(* whatever the list, the peers and the size of a packet (form_WhoHas,      *)
(* form_IHav).                                                              *)
THEOREM DiscoveryTypeCorrect == Spec => []TypeOK
<1>1. DInv => TypeOK
  BY DEF DInv
<1> QED
  BY <1>1, DiscoveryInvariance, PTL

\* What is still to come begins at curr.
LEMMA SoFarIsAll == DInv => RoundAsksAll
<1> SUFFICES ASSUME DInv, ~InLoop PROVE RoundAsksAll
  BY DEF RoundAsksAll
<1>1. need \subseteq Nat /\ curr \in Nat /\ curr >= 1
  BY PlacesFacts DEF DInv, TypeOK
<1>2. asked \cup InHand = {j \in Open(1) : j < curr} /\ \A i \in asked, j \in InHand : i < j
  BY DEF DInv, RoundSoFar
<1>3. Open(1) \subseteq Nat /\ Open(curr) = {j \in Open(1) : j >= curr}
  BY <1>1, OpenFacts DEF DInv, TypeOK
<1>4. {j \in Open(1) : j < curr} \cup {j \in Open(1) : j >= curr} = Open(1)
  BY <1>1, <1>3
<1>5. \A i \in {k \in Open(1) : k < curr}, j \in {k \in Open(1) : k >= curr} : i < j
  BY <1>1, <1>3
<1>6. asked \cup InHand \cup Open(curr) = Open(1)
  BY <1>2, <1>3, <1>4
<1>7. \A i \in asked \cup InHand, j \in Open(curr) : i < j
  BY <1>2, <1>3, <1>5, Zenon
<1> QED
  BY <1>2, <1>6, <1>7 DEF RoundAsksAll

(* Every round asks for all that is open on the needlist, each place once   *)
(* and in order, wherever the packets end (WhoHas_sender, form_WhoHas).     *)
THEOREM RoundsAskForAll == Spec => []RoundAsksAll
<1> QED
  BY SoFarIsAll, DiscoveryInvariance, PTL

-----------------------------------------------------------------------------
\* Every answer, however old, names hashes that its peer has, and a chunk is listed for a peer
\* that named it.
AnswersHeld == \A m \in net : m.type = "IHAVE" => \A i \in m.hashes : needlist[i] \in has[m.peer]
FoundWhereHeld == \A h \in DOMAIN listed : h \in Needed /\ h \in has[listed[h]]

LEMMA AnswersHeldPreserved ==
  ASSUME AnswersHeld, [Next]_vars
  PROVE  AnswersHeld'
<1>1. CASE Broadcast
  <2>1. \A m \in net' : m \in net \/ \E p \in Peers : m = WhoHas(p, page)
    BY <1>1 DEF Broadcast, Send
  <2>2. \A m \in net' : m.type = "IHAVE" => m \in net
    BY <2>1 DEF WhoHas
  <2> QED
    BY <2>2 DEF AnswersHeld
<1>2. ASSUME NEW m \in net, Answer(m) PROVE AnswersHeld'
  <2> DEFINE hs == Held(m.peer, m.hashes)
  <2>1. \A k \in net' : k \in net \/ k = IHave(m.peer, hs)
    BY <1>2 DEF Answer, Send
  <2>2. \A i \in hs : needlist[i] \in has[m.peer]
    BY DEF Held
  <2> HIDE DEF hs
  <2>3. IHave(m.peer, hs).peer = m.peer /\ IHave(m.peer, hs).hashes = hs
    BY DEF IHave
  <2>4. ASSUME NEW k \in net', k.type = "IHAVE", NEW i \in k.hashes
        PROVE  needlist[i] \in has[k.peer]
    <3>1. CASE k \in net
      BY <2>4, <3>1 DEF AnswersHeld
    <3>2. CASE k = IHave(m.peer, hs)
      BY <2>2, <2>3, <2>4, <3>2
    <3> QED
      BY <2>1, <3>1, <3>2
  <2> QED
    BY <2>4 DEF AnswersHeld
<1>3. ASSUME net' \subseteq net PROVE AnswersHeld'
  BY <1>3 DEF AnswersHeld
<1>4. CASE \/ NoIHave \/ BeginRound \/ NoRound \/ FormWhoHas
           \/ (\E h \in Hashes : Drop(h) \/ Finish(h)) \/ UNCHANGED vars
  BY <1>3, <1>4 DEF NoIHave, BeginRound, NoRound, FormWhoHas, Drop, Finish, vars
<1>5. CASE \E m \in net : HearIHave(m)
  BY <1>3, <1>5 DEF HearIHave
<1> QED
  BY <1>1, <1>2, <1>4, <1>5 DEF Next

\* fill_toget_list lists what an answer names, for the peer that answered.
LEMMA HearIHaveHeld ==
  ASSUME AnswersHeld, TypeOK, FoundWhereHeld, NEW m \in net, HearIHave(m)
  PROVE  FoundWhereHeld'
<1> DEFINE heard == {needlist[i] : i \in m.hashes} \cap Needed
           new == {h \in heard : ~IsListed(h)}
<1>1. PICK moved \in SUBSET (heard \ new) :
        listed' = [h \in DOMAIN listed \cup new |->
                     IF h \in new \cup moved THEN m.peer ELSE listed[h]]
  BY DEF HearIHave
<1>2. m.type = "IHAVE" /\ m.hashes \subseteq DOMAIN needlist
  BY PlacesFacts DEF HearIHave, TypeOK, PageOK
<1>3. \A h \in heard : h \in Needed /\ h \in has[m.peer]
  BY <1>2 DEF AnswersHeld
<1>4. new \cup moved \subseteq heard
  OBVIOUS
<1> HIDE DEF heard, new
<1>5. ASSUME NEW h \in DOMAIN listed \cup new
      PROVE  h \in Needed /\ h \in has[listed'[h]]
  <2>1. CASE h \in new \cup moved
    BY <1>1, <1>3, <1>4, <2>1
  <2>2. CASE h \notin new \cup moved
    <3>1. h \in DOMAIN listed /\ listed'[h] = listed[h]
      BY <1>1, <1>5, <2>2
    <3> QED
      BY <3>1 DEF FoundWhereHeld
  <2> QED
    BY <2>1, <2>2
<1>6. DOMAIN listed' = DOMAIN listed \cup new /\ Needed' = Needed
  BY <1>1 DEF HearIHave, Needed
<1> QED
  BY <1>5, <1>6 DEF FoundWhereHeld

LEMMA FoundWhereHeldPreserved ==
  ASSUME AnswersHeld, TypeOK, FoundWhereHeld, [Next]_vars
  PROVE  FoundWhereHeld'
<1>1. CASE \E m \in net : HearIHave(m)
  BY <1>1, HearIHaveHeld
<1>2. ASSUME NEW h \in Hashes, Drop(h) \/ Finish(h) PROVE FoundWhereHeld'
  <2>1. listed' = [g \in DOMAIN listed \ {h} |-> listed[g]]
    BY <1>2 DEF Drop, Finish, Unlist
  <2>2. \A i \in need : needlist[i] # h => i \in need'
    <3>1. CASE Drop(h)
      BY <3>1 DEF Drop
    <3>2. CASE Finish(h)
      <4> DEFINE js == {i \in need : needlist[i] = h}
      <4>1. js # {}
        BY <3>2 DEF Finish, IsListed, FoundWhereHeld, Needed
      <4>2. js \in SUBSET Places
        BY DEF TypeOK
      <4>3. First(js) \in js
        BY <4>1, <4>2, FirstPlace
      <4> QED
        BY <3>2, <4>3 DEF Finish
    <3> QED
      BY <1>2, <3>1, <3>2
  <2>3. \A g \in Needed : g # h => g \in Needed'
    BY <2>2 DEF Needed
  <2> QED
    BY <2>1, <2>3 DEF FoundWhereHeld
<1>3. CASE UNCHANGED <<need, listed>>
  BY <1>3 DEF FoundWhereHeld, Needed
<1>4. CASE \/ NoIHave \/ BeginRound \/ NoRound \/ FormWhoHas \/ Broadcast
           \/ (\E m \in net : Answer(m)) \/ UNCHANGED vars
  BY <1>3, <1>4 DEF NoIHave, BeginRound, NoRound, FormWhoHas, Broadcast, Answer, vars
<1> QED
  BY <1>1, <1>2, <1>4 DEF Next

(* A chunk is only ever listed for a peer that has it, and only if it is    *)
(* wanted, however packets of WHOHAS and IHAVE are lost, repeated and       *)
(* reordered and however often chunks are dropped and found again: a GET    *)
(* never goes to a peer that cannot serve it (form_IHav, fill_toget_list).  *)
THEOREM ListedWhereHeld == Spec => []FoundWhereHeld
<1>1. Init => AnswersHeld /\ FoundWhereHeld
  BY DEF Init, AnswersHeld, FoundWhereHeld
<1>2. TypeOK /\ AnswersHeld /\ FoundWhereHeld /\ [Next]_vars => (AnswersHeld /\ FoundWhereHeld)'
  BY AnswersHeldPreserved, FoundWhereHeldPreserved
<1> QED
  BY <1>1, <1>2, DiscoveryTypeCorrect, PTL DEF Spec
=============================================================================
