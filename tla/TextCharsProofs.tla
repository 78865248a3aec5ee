--------------------------- MODULE TextCharsProofs ---------------------------
(***************************************************************************)
(* For every file, whatever its length and wherever its chunks end: the    *)
(* characters `compute_text_stats` counts are those of the lines of        *)
(* `lossy_lines`.  The counters speak of the whole file, the lines each of *)
(* a piece of it that is decoded alone; no sequence reaches over an LF or a*)
(* CR, so each line has the characters that begin in it, and every         *)
(* character of the file but LF and CR LF begins in one line.              *)
(***************************************************************************)
EXTENDS TextStatsProofs, FunctionTheorems

(* No sequence of the first n bytes goes on behind them.                   *)
Boundary(n) == \A j \in 1 .. n : j + Sequence(text, j).len <= n + 1

CharactersTo(n) == {i \in Characters(text) : i <= n}

(* The CRs of the first n bytes with their LF among them.                  *)
CrLfs(n) == {i \in 1 .. n - 1 : text[i] = "cr" /\ text[i + 1] = "lf"}

(* The counters speak of the first `consumed` bytes.                       *)
Tallied ==
  /\ Boundary(consumed)
  /\ count_chars = Cardinality(CharactersTo(consumed))
  /\ count_crlf = Cardinality(CrLfs(consumed))
  /\ prev_was_cr <=> consumed > 0 /\ text[consumed] = "cr"

----------------------------------------------------------------------------
(* The counters.                                                           *)

LEMMA FiniteCounts ==
  ASSUME text \in Seq(Bytes)
  PROVE  /\ IsFiniteSet(Characters(text)) /\ Cardinality(Characters(text)) \in Nat
         /\ \A n \in Nat : IsFiniteSet(CharactersTo(n)) /\ Cardinality(CharactersTo(n)) \in Nat
         /\ \A n \in Nat : IsFiniteSet(CrLfs(n)) /\ Cardinality(CrLfs(n)) \in Nat
         /\ \A n \in Nat : IsFiniteSet(Newlines(n)) /\ Cardinality(Newlines(n)) \in Nat
  <1>1. /\ Len(text) \in Nat
        /\ \A n \in Nat : IsFiniteSet(1 .. n) /\ IsFiniteSet(1 .. n - 1)
    BY LenProperties, FS_Interval
  <1>2. IsFiniteSet(Characters(text))
    <2>1. Characters(text) \in SUBSET (1 .. Len(text))
      BY DEF Characters
    <2>2. QED
      BY <1>1, <2>1, FS_Subset
  <1>3. ASSUME NEW n \in Nat
        PROVE  IsFiniteSet(CharactersTo(n)) /\ IsFiniteSet(CrLfs(n)) /\ IsFiniteSet(Newlines(n))
    <2>1. /\ CharactersTo(n) \in SUBSET Characters(text)
          /\ CrLfs(n) \in SUBSET (1 .. n - 1) /\ Newlines(n) \in SUBSET (1 .. n)
      BY DEF CharactersTo, CrLfs, Newlines
    <2>2. QED
      BY <1>1, <1>2, <2>1, FS_Subset
  <1>4. QED
    BY <1>2, <1>3, FS_CardinalityType

(* The sequence behind a boundary is one character, and ends at another.   *)
LEMMA NextCharacter ==
  ASSUME text \in Seq(Bytes), NEW m \in Nat, m < Len(text), Boundary(m),
         NEW n \in Nat, n = Sequence(text, m + 1).len, n >= 1, m + n <= Len(text)
  PROVE  /\ Boundary(m + n)
         /\ CharactersTo(m + n) = CharactersTo(m) \cup {m + 1}
         /\ m + 1 \notin CharactersTo(m)
  <1>1. Len(text) \in Nat /\ m + 1 \in 1 .. Len(text)
    BY LenProperties
  <1>2. ASSUME NEW k \in m + 2 .. m + n
        PROVE  Sequence(text, k).len = 1 /\ k \notin Characters(text)
    <2>1. k \in 1 .. Len(text) /\ k \in m + 1 + 1 .. m + 1 + n - 1
      BY <1>1
    <2>2. text[k] = "cont"
      BY <1>1, <2>1, SequencePlain
    <2>3. Sequence(text, k).len = 1
      BY <2>1, <2>2, SequencePlain
    <2>4. m + 1 \in 1 .. k - 1 /\ ~(m + 1 + n <= k)
      BY <1>1
    <2>5. QED
      BY <2>3, <2>4 DEF Characters
  <1>3. Boundary(m + n)
    <2> SUFFICES ASSUME NEW j \in 1 .. m + n
                 PROVE  j + Sequence(text, j).len <= m + n + 1
      BY DEF Boundary
    <2>1. CASE j <= m
      <3>1. j \in 1 .. m /\ j \in 1 .. Len(text)
        BY <2>1, <1>1
      <3>2. Sequence(text, j).len \in 1 .. Len(text) - j + 1
        BY <3>1, SequenceFits
      <3>3. j + Sequence(text, j).len <= m + 1
        BY <3>1 DEF Boundary
      <3>4. QED
        BY <1>1, <3>1, <3>2, <3>3
    <2>2. CASE j = m + 1
      BY <2>2
    <2>3. CASE j >= m + 2
      BY <2>3, <1>2
    <2>4. QED
      BY <2>1, <2>2, <2>3
  <1>4. m + 1 \in Characters(text)
    BY <1>1 DEF Characters, Boundary
  <1>5. CharactersTo(m + n) = CharactersTo(m) \cup {m + 1}
    <2>1. ASSUME NEW i \in Characters(text), i <= m + n
          PROVE  i <= m \/ i = m + 1
      <3>1. i \in Int /\ i \notin m + 2 .. m + n
        BY <1>2 DEF Characters
      <3>2. QED
        BY <2>1, <3>1
    <2>2. \A i \in Characters(text) : i \in Nat
      BY DEF Characters
    <2>3. QED
      BY <1>4, <2>1, <2>2 DEF CharactersTo
  <1>6. QED
    BY <1>3, <1>5 DEF CharactersTo

(* A sequence ends a line only by its last byte, and as its only one.      *)
LEMMA NextCrLf ==
  ASSUME text \in Seq(Bytes), NEW m \in Nat, m < Len(text),
         NEW n \in Nat, n = Sequence(text, m + 1).len, n >= 1, m + n <= Len(text)
  PROVE  /\ \A k \in m + 2 .. m + n : text[k] = "cont"
         /\ text[m + n] \in {"lf", "cr"} => n = 1 /\ Sequence(text, m + 1).kind = "valid"
         /\ CrLfs(m + n) =
              IF n = 1 /\ m > 0 /\ text[m] = "cr" /\ text[m + 1] = "lf"
              THEN CrLfs(m) \cup {m} ELSE CrLfs(m)
         /\ m \notin CrLfs(m)
  <1>1. Len(text) \in Nat /\ m + 1 \in 1 .. Len(text)
    BY LenProperties
  <1>2. ASSUME NEW k \in m + 2 .. m + n PROVE text[k] = "cont"
    <2>1. k \in m + 1 + 1 .. m + 1 + n - 1
      BY <1>1
    <2>2. QED
      BY <1>1, <2>1, SequencePlain
  <1>3. text[m + 1] \in {"lf", "cr"} => Sequence(text, m + 1).kind = "valid" /\ n = 1
    BY <1>1, SequencePlain
  <1>4. text[m + n] \in {"lf", "cr"} => n = 1 /\ Sequence(text, m + 1).kind = "valid"
    <2>1. n = 1 \/ m + n \in m + 2 .. m + n
      OBVIOUS
    <2>2. QED
      BY <1>2, <1>3, <2>1
  <1>5. \A i \in 1 .. m + n - 1 : text[i] = "cr" /\ text[i + 1] = "lf" => i \in 1 .. m
    <2> SUFFICES ASSUME NEW i \in 1 .. m + n - 1, text[i + 1] = "lf", i > m
                 PROVE  FALSE
      OBVIOUS
    <2>1. i + 1 \in m + 2 .. m + n
      OBVIOUS
    <2>2. QED
      BY <1>2, <2>1
  <1>6. \A i \in 1 .. m - 1 : i \in 1 .. m + n - 1
    OBVIOUS
  <1>7. CASE n = 1 /\ m > 0 /\ text[m] = "cr" /\ text[m + 1] = "lf"
    <2>1. m \in 1 .. m + n - 1
      BY <1>7
    <2>2. \A i \in 1 .. m : i = m \/ i \in 1 .. m - 1
      OBVIOUS
    <2>3. CrLfs(m + n) = CrLfs(m) \cup {m}
      BY <1>5, <1>6, <1>7, <2>1, <2>2 DEF CrLfs
    <2>4. QED
      BY <1>2, <1>4, <1>7, <2>3 DEF CrLfs
  <1>8. CASE ~(n = 1 /\ m > 0 /\ text[m] = "cr" /\ text[m + 1] = "lf")
    <2>1. ASSUME NEW i \in 1 .. m + n - 1, text[i] = "cr", text[i + 1] = "lf"
          PROVE  i \in 1 .. m - 1
      <3>1. i \in 1 .. m
        BY <1>5, <2>1
      <3>2. i # m
        <4> SUFFICES ASSUME i = m PROVE FALSE
          OBVIOUS
        <4>1. text[m + 1] = "lf" /\ m > 0 /\ text[m] = "cr"
          BY <2>1
        <4>2. QED
          BY <4>1, <1>3, <1>8
      <3>3. QED
        BY <3>1, <3>2
    <2>2. CrLfs(m + n) = CrLfs(m)
      BY <1>6, <2>1 DEF CrLfs
    <2>3. QED
      BY <1>2, <1>4, <1>8, <2>2 DEF CrLfs
  <1>9. QED
    BY <1>7, <1>8

LEMMA TalliedStart ==
  ASSUME Init
  PROVE  Tallied
  <1>1. consumed = 0
    <2>1. file_offset = 0 /\ pos = 0 /\ Len(data) = 0 /\ Len(carry) = 0
      BY EmptySeq DEF Init
    <2>2. QED
      BY <2>1 DEF consumed
  <1>2. CharactersTo(0) = {} /\ CrLfs(0) = {} /\ Boundary(0)
    BY DEF CharactersTo, Characters, CrLfs, Boundary
  <1>3. ~(consumed > 0) /\ prev_was_cr = FALSE
    BY <1>1 DEF Init
  <1>4. count_chars = Cardinality(CharactersTo(0)) /\ count_crlf = Cardinality(CrLfs(0))
    BY <1>2, FS_EmptySet DEF Init
  <1>5. QED
    BY <1>1, <1>2, <1>3, <1>4 DEF Tallied

LEMMA TalliedStep ==
  ASSUME TypeOK, Aligned, Tallied, Next
  PROVE  Tallied'
  <1>1. /\ text' = text /\ text \in Seq(Bytes) /\ Len(text) \in Nat
        /\ consumed \in Nat /\ consumed <= Len(text)
        /\ count_chars \in Nat /\ count_crlf \in Nat /\ prev_was_cr \in BOOLEAN
    BY Consumption, Places, ConsumedTyped DEF TypeOK
  <1>2. CASE consumed' = consumed /\ UNCHANGED counters
    BY <1>1, <1>2 DEF Tallied, Boundary, CharactersTo, Characters, CrLfs, counters
  <1>3. CASE ~(consumed' = consumed /\ UNCHANGED counters)
    <2> DEFINE m == consumed
               n == Sequence(text, m + 1).len
    <2>1. /\ m < Len(text) /\ n \in Nat /\ n >= 1 /\ m + n <= Len(text)
          /\ consumed' = m + n /\ count_chars' = count_chars + 1
          /\ \/ /\ count_crlf' = count_crlf +
                     (IF text[m + n] = "lf" /\ prev_was_cr THEN 1 ELSE 0)
                /\ prev_was_cr' = (text[m + n] = "cr")
             \/ /\ Sequence(text, m + 1).kind = "invalid"
                /\ count_crlf' = count_crlf /\ prev_was_cr' = FALSE
      BY <1>3, Consumption
    <2>2. /\ Boundary(m) /\ count_chars = Cardinality(CharactersTo(m))
          /\ count_crlf = Cardinality(CrLfs(m))
          /\ prev_was_cr <=> m > 0 /\ text[m] = "cr"
      BY DEF Tallied
    <2>3. m \in Nat
      BY <1>1
    <2> HIDE DEF m
    <2>4. /\ Boundary(m + n)
          /\ CharactersTo(m + n) = CharactersTo(m) \cup {m + 1}
          /\ m + 1 \notin CharactersTo(m)
      BY <1>1, <2>1, <2>2, <2>3, NextCharacter
    <2>5. /\ text[m + n] \in {"lf", "cr"} => n = 1 /\ Sequence(text, m + 1).kind = "valid"
          /\ CrLfs(m + n) =
               IF n = 1 /\ m > 0 /\ text[m] = "cr" /\ text[m + 1] = "lf"
               THEN CrLfs(m) \cup {m} ELSE CrLfs(m)
          /\ m \notin CrLfs(m)
      BY <1>1, <2>1, <2>3, NextCrLf
    <2> HIDE DEF n
    <2>6. count_chars' = Cardinality(CharactersTo(m + n))
      BY <1>1, <2>1, <2>2, <2>3, <2>4, FiniteCounts, FS_AddElement, ZenonT(30)
    <2>7. prev_was_cr' <=> text[m + n] = "cr"
      BY <2>1, <2>5
    <2>8. count_crlf' = count_crlf + (IF text[m + n] = "lf" /\ prev_was_cr THEN 1 ELSE 0)
      BY <1>1, <2>1, <2>5
    <2>9. count_crlf' = Cardinality(CrLfs(m + n))
      <3>1. IsFiniteSet(CrLfs(m)) /\ Cardinality(CrLfs(m)) \in Nat
        BY <1>1, <2>3, FiniteCounts
      <3>2. CASE text[m + n] = "lf" /\ prev_was_cr
        <4>1. CrLfs(m + n) = CrLfs(m) \cup {m}
          BY <2>2, <2>5, <3>2
        <4>2. Cardinality(CrLfs(m + n)) = Cardinality(CrLfs(m)) + 1
          BY <2>5, <3>1, <4>1, FS_AddElement
        <4>3. QED
          BY <2>2, <2>8, <3>2, <4>2
      <3>3. CASE ~(text[m + n] = "lf" /\ prev_was_cr)
        <4>1. CrLfs(m + n) = CrLfs(m)
          BY <2>2, <2>5, <3>3
        <4>2. QED
          BY <2>2, <2>8, <3>1, <3>3, <4>1
      <3>4. QED
        BY <3>2, <3>3
    <2>10. m + n > 0
      BY <2>1, <2>3
    <2>11. QED
      BY <1>1, <2>1, <2>4, <2>6, <2>7, <2>9, <2>10
         DEF Tallied, Boundary, CharactersTo, Characters, CrLfs
  <1>4. QED
    BY <1>2, <1>3

----------------------------------------------------------------------------
(* The lines.                                                              *)

(* A set of numbers that is not empty has a least member.                  *)
LEMMA LeastMember ==
  ASSUME NEW T \in SUBSET Nat, T # {}
  PROVE  \E m \in T : \A k \in T : m <= k
  <1> DEFINE R == StrictSubsetOrdering(Nat)
             S == FiniteSubsetsOf(Nat)
             U == {1 .. k : k \in T}
  <1>1. IsWellFoundedOn(R, S)
    BY FS_StrictSubsetOrderingWellFounded
  <1>2. U \subseteq S /\ U # {}
    <2>1. \A k \in T : 1 .. k \in SUBSET Nat /\ IsFiniteSet(1 .. k)
      BY FS_Interval
    <2>2. QED
      BY <2>1 DEF FiniteSubsetsOf
  <1> HIDE DEF R, S, U
  <1>3. PICK u \in U : \A v \in U : ~(<<v, u>> \in R)
    BY <1>1, <1>2, WFMin
  <1>4. PICK m \in T : u = 1 .. m
    BY <1>3 DEF U
  <1>5. ASSUME NEW k \in T PROVE m <= k
    <2> SUFFICES ASSUME k < m PROVE FALSE
      BY <1>4
    <2>1. m \in Nat /\ k \in Nat
      OBVIOUS
    <2>2. 1 .. k \subseteq 1 .. m /\ m \in 1 .. m /\ m \notin 1 .. k
      BY <2>1
    <2>3. <<1 .. k, 1 .. m>> \in R
      <3>1. 1 .. k \in SUBSET Nat /\ 1 .. m \in SUBSET Nat
        BY <2>1
      <3>2. 1 .. k # 1 .. m
        BY <2>2
      <3>3. QED
        BY <2>2, <3>1, <3>2 DEF R, StrictSubsetOrdering
    <2>4. 1 .. k \in U
      BY DEF U
    <2>5. QED
      BY <1>3, <1>4, <2>3, <2>4
  <1>6. QED
    BY <1>5

(* A line begins behind the last LF before its end.                        *)
LEMMA LineBegins ==
  ASSUME text \in Seq(Bytes), NEW e \in 1 .. Len(text) + 1
  PROVE  /\ LineStart(e) \in 1 .. e
         /\ LineStart(e) = 1 \/ text[LineStart(e) - 1] = "lf"
         /\ \A k \in LineStart(e) .. e - 1 : text[k] # "lf"
  <1> DEFINE T == {i \in 1 .. e : \A k \in i .. e - 1 : text[k] # "lf"}
  <1>1. Len(text) \in Nat /\ e \in Nat /\ e >= 1
    BY LenProperties
  <1>2. T \in SUBSET Nat /\ e \in T
    BY <1>1
  <1>3. PICK i \in T : \A k \in T : i <= k
    BY <1>2, LeastMember
  <1>4. i = 1 \/ text[i - 1] = "lf"
    <2> SUFFICES ASSUME i # 1, text[i - 1] # "lf" PROVE FALSE
      OBVIOUS
    <2>1. i \in 1 .. e /\ i - 1 \in 1 .. e /\ ~(i <= i - 1)
      BY <1>1, <1>2
    <2>2. \A k \in i - 1 .. e - 1 : k = i - 1 \/ k \in i .. e - 1
      BY <2>1
    <2>3. i - 1 \in T
      BY <2>1, <2>2
    <2>4. QED
      BY <1>3, <2>1, <2>3
  <1>5. QED
    BY <1>4 DEF LineStart

LEMMA EndsFit ==
  ASSUME text \in Seq(Bytes), NEW e \in LineEnds
  PROVE  /\ Len(text) \in Nat /\ e \in 1 .. Len(text) + 1
         /\ e <= Len(text) <=> e \in 1 .. Len(text) /\ text[e] = "lf"
  <1>1. Len(text) \in Nat
    BY LenProperties
  <1>2. (e \in 1 .. Len(text) /\ text[e] = "lf") \/ e = Len(text) + 1
    BY DEF LineEnds
  <1>3. QED
    BY <1>1, <1>2

(* Its bytes: no LF, and behind them its end, which no sequence takes in.  *)
LEMMA LineBytes ==
  ASSUME text \in Seq(Bytes), NEW e \in LineEnds
  PROVE  /\ LineStop(e) \in LineStart(e) - 1 .. Len(text) /\ LineStop(e) < e
         /\ LineStop(e) = Len(text) \/ text[LineStop(e) + 1] \in {"lf", "cr"}
         /\ LineTo(e) \in Seq(Bytes) /\ Len(LineTo(e)) = LineStop(e) - LineStart(e) + 1
         /\ \A k \in 1 .. Len(LineTo(e)) : LineTo(e)[k] = text[LineStart(e) - 1 + k]
  <1> DEFINE start == LineStart(e)
             stop == LineStop(e)
  <1>1. /\ Len(text) \in Nat /\ e \in 1 .. Len(text) + 1 /\ start \in 1 .. e
        /\ e <= Len(text) => text[e] = "lf"
    BY EndsFit, LineBegins
  <1>2. stop = IF e <= Len(text) /\ start < e /\ text[e - 1] = "cr" THEN e - 2 ELSE e - 1
    BY DEF LineStop
  <1> HIDE DEF start, stop
  <1>3. stop \in start - 1 .. Len(text) /\ stop < e
    BY <1>1, <1>2
  <1>4. stop = Len(text) \/ text[stop + 1] \in {"lf", "cr"}
    <2>1. CASE stop = e - 2 /\ e <= Len(text) /\ text[e - 1] = "cr"
      <3>1. stop + 1 = e - 1
        BY <1>1, <2>1
      <3>2. QED
        BY <2>1, <3>1
    <2>2. CASE stop = e - 1
      <3>1. stop + 1 = e /\ (stop = Len(text) \/ e <= Len(text))
        BY <1>1, <2>2
      <3>2. QED
        BY <1>1, <3>1
    <2>3. QED
      BY <1>2, <2>1, <2>2
  <1>5. /\ LineTo(e) \in Seq(Bytes) /\ Len(LineTo(e)) = stop - start + 1
        /\ \A k \in 1 .. Len(LineTo(e)) : LineTo(e)[k] = text[start - 1 + k]
    <2> DEFINE m == start - 1
    <2>1. m \in Nat /\ stop \in Nat /\ m <= stop /\ stop <= Len(text) /\ m + 1 = start
          /\ stop - m = stop - start + 1
      BY <1>1, <1>3
    <2> HIDE DEF m
    <2>2. /\ SubSeq(text, m + 1, stop) \in Seq(Bytes)
          /\ Len(SubSeq(text, m + 1, stop)) = stop - m
          /\ \A k \in 1 .. stop - m : SubSeq(text, m + 1, stop)[k] = text[m + k]
      BY <2>1, Stretch
    <2>3. LineTo(e) = SubSeq(text, m + 1, stop)
      BY <2>1 DEF LineTo, start, stop
    <2>4. QED
      BY <2>1, <2>2, <2>3 DEF m
  <1>6. QED
    BY <1>3, <1>4, <1>5 DEF start, stop

(* The same bytes elsewhere, where no continuation byte follows them: each *)
(* sequence is as long there.                                              *)
LEMMA SequenceWithin ==
  ASSUME NEW s \in Seq(Bytes), NEW t \in Seq(Bytes), NEW d \in Nat,
         Len(s) + d <= Len(t), \A k \in 1 .. Len(s) : s[k] = t[k + d],
         Len(s) + d = Len(t) \/ t[Len(s) + d + 1] # "cont",
         NEW i \in 1 .. Len(s)
  PROVE  Sequence(t, i + d).len = Sequence(s, i).len
  <1>1. PICK n \in 0 .. Follow[s[i]] : Most(s, i, n)
    BY MostExists
  <1>2. /\ Follow[s[i]] \in 0 .. 3 /\ Len(s) \in Nat /\ Len(t) \in Nat /\ i \in Nat
    BY BytesAssumption, FollowsFew
  <1>3. i + d \in 1 .. Len(t) /\ t[i + d] = s[i]
    BY <1>2
  <1>4. i + n <= Len(s)
    BY <1>1, SequenceIs
  <1>5. Continued(t, i + d, n)
    <2> SUFFICES ASSUME NEW k \in i + d + 1 .. i + d + n
                 PROVE  k <= Len(t) /\ t[k] = "cont"
      BY DEF Continued
    <2>1. k - d \in i + 1 .. i + n /\ k - d \in 1 .. Len(s) /\ (k - d) + d = k
      BY <1>2, <1>4
    <2>2. s[k - d] = "cont" /\ s[k - d] = t[(k - d) + d]
      BY <2>1, <1>1 DEF Most, Continued
    <2>3. QED
      BY <2>1, <2>2, <1>2, <1>4
  <1>6. Most(t, i + d, n)
    <2>1. CASE n = Follow[s[i]]
      BY <2>1, <1>3, <1>5 DEF Most
    <2>2. CASE i + n = Len(s)
      <3>1. i + d + n = Len(s) + d
        BY <2>2, <1>2, SMTT(20)
      <3>2. QED
        BY <3>1, <1>5 DEF Most
    <2>3. CASE n # Follow[s[i]] /\ i + n # Len(s)
      <3>1. s[i + n + 1] # "cont"
        BY <2>3, <1>1 DEF Most
      <3>2. i + n + 1 \in 1 .. Len(s) /\ i + n + 1 + d = i + d + n + 1
        BY <2>3, <1>2, <1>4
      <3>3. t[i + d + n + 1] # "cont"
        BY <3>1, <3>2
      <3>4. QED
        BY <3>3, <1>5 DEF Most
    <2>4. QED
      BY <2>1, <2>2, <2>3
  <1>7. Sequence(s, i).len = n + 1 /\ Sequence(t, i + d).len = n + 1
    BY <1>1, <1>3, <1>6, SequenceIs
  <1>8. QED
    BY <1>7

(* No sequence takes in another byte than a continuation byte.             *)
LEMMA PlainBegins ==
  ASSUME text \in Seq(Bytes), NEW k \in 1 .. Len(text), text[k] # "cont",
         NEW j \in 1 .. k - 1
  PROVE  j + Sequence(text, j).len <= k
  <1>1. Len(text) \in Nat /\ j \in 1 .. Len(text)
    BY LenProperties
  <1>2. Sequence(text, j).len \in 1 .. Len(text) - j + 1
    BY <1>1, SequenceFits
  <1>3. k \notin j + 1 .. j + Sequence(text, j).len - 1
    BY <1>1, SequencePlain
  <1>4. QED
    BY <1>1, <1>2, <1>3

(* A line has the characters that begin in it.                             *)
LEMMA LineHasItsCharacters ==
  ASSUME text \in Seq(Bytes), NEW e \in LineEnds,
         NEW i \in 1 .. Len(LineTo(e))
  PROVE  i \in Characters(LineTo(e)) <=> LineStart(e) - 1 + i \in Characters(text)
  <1> DEFINE s == LineTo(e)
             d == LineStart(e) - 1
  <1>1. /\ Len(text) \in Nat /\ d \in Nat /\ d <= Len(text)
        /\ d = 0 \/ (d \in 1 .. Len(text) /\ text[d] = "lf")
    <2>1. /\ Len(text) \in Nat /\ LineStart(e) \in 1 .. e /\ e \in 1 .. Len(text) + 1
          /\ LineStart(e) = 1 \/ text[LineStart(e) - 1] = "lf"
      BY EndsFit, LineBegins
    <2>2. d \in Nat /\ d <= Len(text) /\ (d = 0 \/ d \in 1 .. Len(text))
      BY <2>1
    <2>3. d = 0 \/ text[d] = "lf"
      BY <2>1
    <2>4. QED
      BY <2>1, <2>2, <2>3
  <1>2. /\ s \in Seq(Bytes) /\ Len(s) \in Nat /\ Len(s) + d <= Len(text)
        /\ \A k \in 1 .. Len(s) : s[k] = text[k + d]
        /\ Len(s) + d = Len(text) \/ text[Len(s) + d + 1] # "cont"
    <2> DEFINE stop == LineStop(e)
    <2>1. /\ stop \in LineStart(e) - 1 .. Len(text)
          /\ stop = Len(text) \/ text[stop + 1] \in {"lf", "cr"}
          /\ s \in Seq(Bytes) /\ Len(s) = stop - LineStart(e) + 1
          /\ \A k \in 1 .. Len(s) : s[k] = text[LineStart(e) - 1 + k]
      BY LineBytes
    <2>2. LineStart(e) \in Nat
      BY EndsFit, LineBegins
    <2> HIDE DEF s, stop
    <2>3. Len(s) \in Nat /\ Len(s) + d = stop /\ stop <= Len(text)
      BY <2>1, <2>2
    <2>4. \A k \in 1 .. Len(s) : LineStart(e) - 1 + k = k + d
      BY <2>2, <2>3
    <2>5. QED
      BY <2>1, <2>3, <2>4
  <1> HIDE DEF s, d
  <1>3. i \in 1 .. Len(s) /\ i + d \in 1 .. Len(text)
    BY <1>1, <1>2 DEF s
  <1>4. \A j \in 1 .. Len(s) : Sequence(text, j + d).len = Sequence(s, j).len
    BY <1>1, <1>2, SequenceWithin
  <1>5. ASSUME i \in Characters(s), NEW j \in 1 .. (i + d) - 1
        PROVE  j + Sequence(text, j).len <= i + d
    <2>1. CASE j > d
      <3>1. j - d \in 1 .. i - 1 /\ j - d \in 1 .. Len(s) /\ (j - d) + d = j
        BY <1>1, <1>2, <1>3, <2>1
      <3>2. /\ (j - d) + Sequence(s, j - d).len <= i
            /\ Sequence(s, j - d).len \in 1 .. Len(s) - (j - d) + 1
        BY <1>2, <1>5, <3>1, SequenceFits DEF Characters
      <3>3. Sequence(text, j).len = Sequence(s, j - d).len
        BY <1>4, <3>1
      <3>4. QED
        BY <1>1, <1>2, <1>3, <3>1, <3>2, <3>3
    <2>2. CASE j <= d
      <3>1. d \in 1 .. Len(text) /\ text[d] = "lf" /\ j \in 1 .. Len(text)
        BY <1>1, <2>2
      <3>2. Sequence(text, j).len \in 1 .. Len(text) - j + 1
        BY <3>1, SequenceFits
      <3>3. CASE j = d
        BY <1>1, <1>3, <3>1, <3>3, SequencePlain
      <3>4. CASE j # d
        <4>1. j \in 1 .. d - 1
          BY <1>1, <2>2, <3>4
        <4>2. j + Sequence(text, j).len <= d
          BY <3>1, <4>1, PlainBegins
        <4>3. QED
          BY <1>1, <1>3, <3>2, <4>2
      <3>5. QED
        BY <3>3, <3>4
    <2>3. QED
      BY <1>1, <2>1, <2>2
  <1>6. ASSUME i + d \in Characters(text), NEW j \in 1 .. i - 1
        PROVE  j + Sequence(s, j).len <= i
    <2>1. j \in 1 .. Len(s) /\ j + d \in 1 .. (i + d) - 1
      BY <1>1, <1>2, <1>3
    <2>2. (j + d) + Sequence(text, j + d).len <= i + d
      BY <1>6, <2>1 DEF Characters
    <2>3. Sequence(text, j + d).len = Sequence(s, j).len /\ Sequence(s, j).len \in Int
      BY <1>2, <1>4, <2>1, SequenceFits
    <2>4. QED
      BY <1>1, <1>3, <2>1, <2>2, <2>3
  <1>7. i \in Characters(s) <=> i + d \in Characters(text)
    <2>1. ASSUME i \in Characters(s) PROVE i + d \in Characters(text)
      <3>1. \A j \in 1 .. (i + d) - 1 : j + Sequence(text, j).len <= i + d
        BY <1>5, <2>1
      <3>2. QED
        BY <1>3, <3>1 DEF Characters
    <2>2. i + d \in Characters(text) => i \in Characters(s)
      BY <1>3, <1>6 DEF Characters
    <2>3. QED
      BY <2>1, <2>2
  <1>8. LineStart(e) - 1 + i = i + d
    BY <1>1, <1>3 DEF d
  <1>9. QED
    BY <1>7, <1>8 DEF s

----------------------------------------------------------------------------
(* The characters of the file and those of its lines.                      *)

(* Where the characters of the file but LF and CR LF begin.                *)
Letters == Characters(text) \ (Newlines(Len(text)) \cup CrLfs(Len(text)))

(* A character of a line is one of them, between the line's bounds.        *)
LEMMA CharacterIsLetter ==
  ASSUME text \in Seq(Bytes), NEW e \in LineEnds, NEW i \in Characters(LineTo(e))
  PROVE  /\ LineStart(e) - 1 + i \in Letters
         /\ LineStart(e) <= LineStart(e) - 1 + i /\ LineStart(e) - 1 + i < e
  <1> DEFINE start == LineStart(e)
             stop == LineStop(e)
             k == start - 1 + i
  <1>1. /\ Len(text) \in Nat /\ e \in 1 .. Len(text) + 1 /\ start \in 1 .. e
        /\ (e <= Len(text)) => text[e] = "lf"
        /\ \A m \in start .. e - 1 : text[m] # "lf"
    BY EndsFit, LineBegins
  <1>2. stop \in start - 1 .. Len(text) /\ stop < e /\ Len(LineTo(e)) = stop - start + 1
    BY LineBytes
  <1>3. stop = IF e <= Len(text) /\ start < e /\ text[e - 1] = "cr" THEN e - 2 ELSE e - 1
    BY DEF LineStop
  <1>4. i \in 1 .. Len(LineTo(e))
    BY DEF Characters
  <1>5. k \in Characters(text)
    BY <1>4, LineHasItsCharacters
  <1> HIDE DEF start, stop
  <1>6. i \in Int /\ 1 <= i /\ i <= stop - start + 1
    BY <1>1, <1>2, <1>4
  <1>7. k \in start .. stop /\ k \in start .. e - 1
    BY <1>1, <1>2, <1>6
  <1> HIDE DEF k
  <1>8. k \notin Newlines(Len(text))
    BY <1>1, <1>7 DEF Newlines
  <1>9. k \notin CrLfs(Len(text))
    <2> SUFFICES ASSUME k \in 1 .. Len(text) - 1, text[k] = "cr", text[k + 1] = "lf"
                 PROVE  FALSE
      BY DEF CrLfs
    <2>1. k + 1 \notin start .. e - 1
      BY <1>1
    <2>2. k + 1 = e
      BY <1>1, <1>7, <2>1
    <2>3. k = e - 1 /\ e <= Len(text) /\ start < e
      BY <1>1, <1>7, <2>2
    <2>4. stop = e - 2
      BY <1>3, <2>3
    <2>5. QED
      BY <1>1, <1>7, <2>3, <2>4
  <1>10. k \in Letters /\ start <= k /\ k < e
    BY <1>1, <1>5, <1>7, <1>8, <1>9 DEF Letters
  <1>11. QED
    BY <1>10 DEF k, start

(* A place is in one line.                                                 *)
LEMMA LinesApart ==
  ASSUME text \in Seq(Bytes), NEW e \in LineEnds, NEW f \in LineEnds, NEW k \in Int,
         LineStart(e) <= k, k < e, LineStart(f) <= k, k < f
  PROVE  ~(e < f)
  <1> SUFFICES ASSUME e < f PROVE FALSE
    OBVIOUS
  <1>1. /\ Len(text) \in Nat /\ e \in 1 .. Len(text) + 1 /\ f \in 1 .. Len(text) + 1
        /\ (e <= Len(text)) => text[e] = "lf"
    BY EndsFit
  <1>2. LineStart(f) \in 1 .. f /\ \A m \in LineStart(f) .. f - 1 : text[m] # "lf"
    BY <1>1, LineBegins
  <1>3. e \in LineStart(f) .. f - 1 /\ e <= Len(text)
    BY <1>1, <1>2
  <1>4. QED
    BY <1>1, <1>2, <1>3

(* Each of them is a character of a line: the one that ends first behind it*)
LEMMA LetterHasLine ==
  ASSUME text \in Seq(Bytes), NEW k \in Letters
  PROVE  \E e \in LineEnds : k - LineStart(e) + 1 \in Characters(LineTo(e))
  <1>1. /\ Len(text) \in Nat /\ k \in 1 .. Len(text) /\ k \in Characters(text)
        /\ text[k] # "lf"
        /\ k <= Len(text) - 1 => ~(text[k] = "cr" /\ text[k + 1] = "lf")
    <2>1. Len(text) \in Nat /\ k \in Characters(text) /\ k \in 1 .. Len(text)
      BY LenProperties DEF Letters, Characters
    <2>2. k <= Len(text) - 1 => k \in 1 .. Len(text) - 1
      BY <2>1
    <2>3. QED
      BY <2>1, <2>2 DEF Letters, Newlines, CrLfs
  <1> DEFINE T == {e \in LineEnds : k <= e}
  <1>2. T # {}
    <2>1. CASE text[Len(text)] = "lf"
      <3>1. Len(text) \in LineEnds
        BY <1>1, <2>1 DEF LineEnds
      <3>2. QED
        BY <1>1, <3>1
    <2>2. CASE text[Len(text)] # "lf"
      <3>1. text # <<>>
        BY <1>1, EmptySeq
      <3>2. Len(text) + 1 \in LineEnds
        BY <2>2, <3>1 DEF LineEnds
      <3>3. QED
        BY <1>1, <3>2
    <2>3. QED
      BY <2>1, <2>2
  <1>3. T \in SUBSET Nat
    <2>1. \A e \in LineEnds : e \in 1 .. Len(text) + 1
      BY EndsFit
    <2>2. \A e \in LineEnds : e \in Nat
      BY <1>1, <2>1
    <2>3. QED
      BY <2>2
  <1>4. PICK e \in T : \A f \in T : e <= f
    BY <1>2, <1>3, LeastMember
  <1> DEFINE start == LineStart(e)
             stop == LineStop(e)
  <1>5. /\ e \in LineEnds /\ k <= e /\ e \in 1 .. Len(text) + 1 /\ start \in 1 .. e
        /\ (e <= Len(text)) => text[e] = "lf"
        /\ start = 1 \/ text[start - 1] = "lf"
    BY EndsFit, LineBegins
  <1>6. /\ stop = IF e <= Len(text) /\ start < e /\ text[e - 1] = "cr" THEN e - 2 ELSE e - 1
        /\ Len(LineTo(e)) = stop - start + 1
    BY <1>5, LineBytes DEF LineStop
  <1> HIDE DEF start, stop
  <1>7. start <= k
    <2> SUFFICES ASSUME k < start PROVE FALSE
      BY <1>1, <1>5
    <2>1. start - 1 \in 1 .. Len(text) /\ text[start - 1] = "lf" /\ k <= start - 1
      BY <1>1, <1>5
    <2>2. start - 1 \in T
      BY <2>1 DEF LineEnds
    <2>3. QED
      BY <1>4, <1>5, <2>2
  <1>8. k <= e - 1
    BY <1>1, <1>5
  <1>9. k <= stop
    <2>1. CASE stop = e - 1
      BY <1>8, <2>1
    <2>2. CASE stop = e - 2 /\ e <= Len(text) /\ text[e - 1] = "cr"
      <3>1. k # e - 1
        <4> SUFFICES ASSUME k = e - 1 PROVE FALSE
          OBVIOUS
        <4>1. k + 1 = e /\ k <= Len(text) - 1
          BY <1>1, <1>5, <2>2
        <4>2. QED
          BY <1>1, <1>5, <2>2, <4>1
      <3>2. QED
        BY <1>1, <1>5, <1>8, <2>2, <3>1
    <2>3. QED
      BY <1>6, <2>1, <2>2
  <1>10. stop \in Int /\ k \in Int /\ start \in Int
    BY <1>1, <1>5, <1>6
  <1> DEFINE i == k - start + 1
  <1>11. i \in 1 .. Len(LineTo(e)) /\ start - 1 + i = k
    BY <1>6, <1>7, <1>9, <1>10
  <1> HIDE DEF i
  <1>12. i \in Characters(LineTo(e))
    BY <1>1, <1>5, <1>11, LineHasItsCharacters DEF start
  <1>13. QED
    BY <1>5, <1>12 DEF i, start

(* As many as they are, so many characters the lines have.                 *)
LEMMA LettersAreLineCharacters ==
  ASSUME text \in Seq(Bytes)
  PROVE  Cardinality(LineCharacters) = Cardinality(Letters)
  <1> DEFINE place == [p \in LineCharacters |-> LineStart(p[1]) - 1 + p[2]]
  <1>1. ASSUME NEW p \in LineCharacters
        PROVE  \E e \in LineEnds : \E i \in Characters(LineTo(e)) : p = <<e, i>>
    BY DEF LineCharacters
  <1>2. ASSUME NEW p \in LineCharacters
        PROVE  /\ place[p] \in Letters /\ p[1] \in LineEnds /\ p[2] \in Nat
               /\ p = <<p[1], p[2]>> /\ LineStart(p[1]) \in Nat /\ p[1] \in Nat
               /\ place[p] = LineStart(p[1]) - 1 + p[2]
               /\ LineStart(p[1]) <= place[p] /\ place[p] < p[1]
    <2>0. PICK e \in LineEnds : \E i \in Characters(LineTo(e)) : p = <<e, i>>
      BY <1>1
    <2>1. PICK i \in Characters(LineTo(e)) : p = <<e, i>>
      BY <2>0
    <2>2. p[1] = e /\ p[2] = i /\ i \in Nat
      BY <2>1 DEF Characters
    <2>3. LineStart(e) \in Nat /\ e \in Nat
      BY EndsFit, LineBegins
    <2>4. /\ LineStart(e) - 1 + i \in Letters
          /\ LineStart(e) <= LineStart(e) - 1 + i /\ LineStart(e) - 1 + i < e
      BY CharacterIsLetter
    <2>5. QED
      BY <2>1, <2>2, <2>3, <2>4
  <1>3. place \in [LineCharacters -> Letters]
    BY <1>2
  <1>4. ASSUME NEW p \in LineCharacters, NEW q \in LineCharacters, place[p] = place[q]
        PROVE  p = q
    <2> DEFINE k == place[p]
    <2>1. /\ k \in Int /\ LineStart(p[1]) <= k /\ k < p[1]
          /\ LineStart(q[1]) <= k /\ k < q[1] /\ p[1] \in Nat /\ q[1] \in Nat
          /\ p[1] \in LineEnds /\ q[1] \in LineEnds
      BY <1>2, <1>4
    <2> HIDE DEF k, place
    <2>2. p[1] = q[1]
      BY <2>1, LinesApart
    <2>3. p[2] = q[2]
      BY <1>2, <1>4, <2>2
    <2>4. QED
      BY <1>2, <2>2, <2>3
  <1>5. ASSUME NEW k \in Letters
        PROVE  \E p \in LineCharacters : place[p] = k
    <2>1. PICK e \in LineEnds : k - LineStart(e) + 1 \in Characters(LineTo(e))
      BY LetterHasLine
    <2> DEFINE i == k - LineStart(e) + 1
    <2>2. <<e, i>> \in LineCharacters
      BY <2>1 DEF LineCharacters
    <2>3. LineStart(e) \in Nat /\ k \in Nat
      BY EndsFit, LineBegins DEF Letters, Characters
    <2>4. place[<<e, i>>] = LineStart(e) - 1 + (k - LineStart(e) + 1)
      BY <2>2
    <2>5. QED
      BY <2>2, <2>3, <2>4
  <1> HIDE DEF place
  <1>6. place \in Bijection(LineCharacters, Letters)
    BY <1>3, <1>4, <1>5, Fun_IsBij
  <1>7. ExistsBijection(Letters, LineCharacters)
    BY <1>6, Fun_BijInverse DEF ExistsBijection
  <1>8. IsFiniteSet(Letters)
    BY FiniteCounts, FS_Difference DEF Letters
  <1>9. QED
    BY <1>7, <1>8, FS_Bijection

(* What is left of the characters of the file without LF and CR LF.        *)
LEMMA LettersCounted ==
  ASSUME text \in Seq(Bytes)
  PROVE  LET chars == Cardinality(Characters(text))
             ends == Cardinality(Newlines(Len(text))) + Cardinality(CrLfs(Len(text)))
         IN  Cardinality(Letters) = chars - ends /\ ends <= chars
  <1> DEFINE C == Characters(text)
             N == Newlines(Len(text))
             R == CrLfs(Len(text))
  <1>1. /\ Len(text) \in Nat /\ IsFiniteSet(C) /\ IsFiniteSet(N) /\ IsFiniteSet(R)
        /\ Cardinality(C) \in Nat /\ Cardinality(N) \in Nat /\ Cardinality(R) \in Nat
    BY LenProperties, FiniteCounts
  <1>2. N \cup R \subseteq C
    <2>1. ASSUME NEW k \in N \cup R PROVE k \in C
      <3>1. k \in 1 .. Len(text) /\ text[k] # "cont"
        BY <1>1 DEF Newlines, CrLfs
      <3>2. QED
        BY <3>1, PlainBegins DEF Characters
    <2>2. QED
      BY <2>1
  <1>3. N \cap R = {}
    BY DEF Newlines, CrLfs
  <1>4. Letters = C \ (N \cup R)
    BY DEF Letters
  <1> HIDE DEF C, N, R
  <1> DEFINE U == N \cup R
  <1>5. IsFiniteSet(U) /\ Cardinality(U) = Cardinality(N) + Cardinality(R)
    <2>1. IsFiniteSet(N \cup R)
      BY <1>1, FS_Union
    <2>2. Cardinality(N \cup R) = Cardinality(N) + Cardinality(R) - Cardinality(N \cap R)
      BY <1>1, FS_Union
    <2>3. Cardinality(N \cap R) = 0
      BY <1>3, FS_EmptySet
    <2>4. QED
      BY <1>1, <2>1, <2>2, <2>3
  <1> HIDE DEF U
  <1>6. C \cap U = U /\ U \in SUBSET C
    BY <1>2 DEF U
  <1>7. Cardinality(C \ U) = Cardinality(C) - Cardinality(C \cap U)
    BY <1>1, FS_Difference
  <1>8. Cardinality(U) <= Cardinality(C)
    BY <1>1, <1>6, FS_Subset
  <1>9. Letters = C \ U
    BY <1>4 DEF U
  <1>10. Cardinality(Letters) = Cardinality(C) - Cardinality(U)
    BY <1>6, <1>7, <1>9
  <1>11. QED
    BY <1>5, <1>8, <1>10 DEF C, N, R

(* At the end of the file the counters, and one for what is carried over,  *)
(* speak of all of it.                                                     *)
LEMMA TalliedAtEnd ==
  ASSUME TypeOK, Aligned, Counted, Tallied, EndOfFile
  PROVE  /\ Cardinality(Characters(text))
              = IF carry = <<>> THEN count_chars ELSE count_chars + 1
         /\ Cardinality(Newlines(Len(text))) = count_newlines
         /\ Cardinality(CrLfs(Len(text))) = count_crlf
  <1> DEFINE m == consumed
             n == Sequence(text, m + 1).len
  <1>1. /\ text \in Seq(Bytes) /\ Len(text) \in Nat /\ m \in Nat /\ m <= Len(text)
        /\ m + Len(carry) = Len(text) /\ count_chars \in Nat
    BY Places, ConsumedTyped, AtEnd DEF TypeOK
  <1>2. /\ Boundary(m) /\ count_chars = Cardinality(CharactersTo(m))
        /\ count_crlf = Cardinality(CrLfs(m)) /\ count_newlines = Cardinality(Newlines(m))
    BY DEF Tallied, Counted
  <1>3. CharactersTo(Len(text)) = Characters(text)
    <2>1. \A k \in Characters(text) : k <= Len(text)
      BY <1>1 DEF Characters
    <2>2. QED
      BY <2>1 DEF CharactersTo
  <1>4. CASE carry = <<>>
    <2>1. m = Len(text)
      BY <1>1, <1>4, EmptySeq
    <2>2. QED
      BY <1>2, <1>3, <1>4, <2>1
  <1>5. CASE carry # <<>>
    <2>1. /\ Sequence(text, m + 1).kind = "incomplete" /\ n = Len(carry)
          /\ n >= 1 /\ n \in Nat /\ m + n = Len(text) /\ m < Len(text)
      BY <1>1, <1>5, AtEnd, Places
    <2> HIDE DEF m
    <2>2. /\ CharactersTo(m + n) = CharactersTo(m) \cup {m + 1}
          /\ m + 1 \notin CharactersTo(m)
      BY <1>1, <1>2, <2>1, NextCharacter
    <2>3. /\ \A k \in m + 2 .. m + n : text[k] = "cont"
          /\ CrLfs(m + n) = IF n = 1 /\ m > 0 /\ text[m] = "cr" /\ text[m + 1] = "lf"
                            THEN CrLfs(m) \cup {m} ELSE CrLfs(m)
      <3>1. /\ text \in Seq(Bytes) /\ m \in Nat /\ m < Len(text)
            /\ n \in Nat /\ n >= 1 /\ m + n <= Len(text)
        BY <1>1, <2>1
      <3>2. CrLfs(m + n) = IF n = 1 /\ m > 0 /\ text[m] = "cr" /\ text[m + 1] = "lf"
                          THEN CrLfs(m) \cup {m} ELSE CrLfs(m)
        BY <3>1, NextCrLf
      <3>3. \A k \in m + 2 .. m + n : text[k] = "cont"
        BY <3>1, NextCrLf
      <3>4. QED
        BY <3>2, <3>3
    <2>4. text[m + 1] # "lf"
      <3>1. m + 1 \in 1 .. Len(text)
        BY <1>1, <2>1
      <3>2. QED
        BY <1>1, <2>1, <3>1, SequencePlain
    <2> HIDE DEF n
    <2>5. CrLfs(Len(text)) = CrLfs(m)
      BY <2>1, <2>3, <2>4
    <2>6. Newlines(Len(text)) = Newlines(m)
      <3>1. \A k \in 1 .. Len(text) : k \in 1 .. m \/ k = m + 1 \/ k \in m + 2 .. m + n
        BY <1>1, <2>1
      <3>2. \A k \in 1 .. m : k \in 1 .. Len(text)
        BY <1>1
      <3>3. QED
        BY <2>3, <2>4, <3>1, <3>2 DEF Newlines
    <2>7. Cardinality(Characters(text)) = count_chars + 1
      <3>1. IsFiniteSet(CharactersTo(m))
        BY <1>1, FiniteCounts
      <3>2. Characters(text) = CharactersTo(m) \cup {m + 1}
        BY <1>3, <2>1, <2>2
      <3>3. QED
        BY <1>2, <2>2, <3>1, <3>2, FS_AddElement
    <2>8. QED
      BY <1>2, <1>5, <2>5, <2>6, <2>7
  <1>6. QED
    BY <1>4, <1>5

(* Wherever the chunks end, the characters and CR LFs counted are those of *)
(* the bytes consumed, and these end with a whole sequence of the file.    *)
THEOREM Tallying == Spec => []Tallied
  <1>1. Init => Tallied
    BY TalliedStart
  <1>2. Inv /\ Tallied /\ [Next]_vars => Tallied'
    <2>1. Inv /\ Tallied /\ Next => Tallied'
      BY TalliedStep DEF Inv
    <2>2. ASSUME Tallied, UNCHANGED vars PROVE Tallied'
      <3>1. consumed' = consumed
        BY <2>2 DEF vars, consumed
      <3>2. QED
        BY <2>2, <3>1
           DEF vars, counters, Tallied, Boundary, CharactersTo, Characters, CrLfs
    <2>3. QED
      BY <2>1, <2>2
  <1>3. QED
    BY <1>1, <1>2, Invariance, PTL DEF Spec

(* The characters counted are those of the lines of lossy_lines, without   *)
(* their LF or CR LF and with one for each sequence it replaces, wherever  *)
(* the chunks end: in a character, between CR and LF, or in the last line. *)
THEOREM CharactersAreCounted == Spec => []CharsMatch
  <1>1. Init => CharsMatch
    BY DEF Init, CharsMatch, NoCounts
  <1>2. ASSUME Inv, Tallied, CharsMatch, Next
        PROVE  CharsMatch'
    <2>1. TypeOK /\ Aligned /\ Counted /\ text' = text /\ text \in Seq(Bytes)
      BY <1>2, Consumption, Places DEF Inv
    <2>2. LineCharacters' = LineCharacters
      BY <2>1 DEF LineCharacters, LineEnds, LineTo, LineStart, LineStop
    <2>3. CASE EndOfFile /\ ~(strict_utf8 /\ carry # <<>>)
      <3> DEFINE chars == IF carry = <<>> THEN count_chars ELSE count_chars + 1
                 ends == count_newlines + count_crlf
      <3>1. result'.chars = IF chars < ends THEN 0 ELSE chars - ends
        BY <2>3 DEF EndOfFile, Counts
      <3>2. /\ Cardinality(Characters(text)) = chars
            /\ Cardinality(Newlines(Len(text))) = count_newlines
            /\ Cardinality(CrLfs(Len(text))) = count_crlf
        BY <1>2, <2>1, <2>3, TalliedAtEnd
      <3>3. Cardinality(Letters) = chars - ends /\ ends <= chars
        BY <2>1, <3>2, LettersCounted
      <3>4. chars \in Nat /\ ends \in Nat
        <4>1. count_chars \in Nat /\ count_newlines \in Nat /\ count_crlf \in Nat
          BY <2>1 DEF TypeOK
        <4>2. QED
          BY <4>1
      <3> HIDE DEF chars, ends
      <3>5. result'.chars = Cardinality(Letters)
        BY <3>1, <3>3, <3>4
      <3>6. QED
        BY <2>1, <2>2, <3>5, LettersAreLineCharacters DEF CharsMatch
    <2>4. CASE EndOfFile /\ strict_utf8 /\ carry # <<>>
      BY <2>4 DEF EndOfFile, CharsMatch, NoCounts
    <2>5. CASE ReadFails
      BY <2>5 DEF ReadFails, CharsMatch, NoCounts
    <2>6. CASE ReadChunk \/ ValidCharacter \/ InvalidSequence \/ CarryOver
      <3>1. result' = result \/ result' = NoCounts("error")
        BY <2>6 DEF ReadChunk, ValidCharacter, InvalidSequence, CarryOver
      <3>2. QED
        BY <1>2, <2>2, <3>1 DEF CharsMatch, NoCounts
    <2>7. QED
      BY <1>2, <2>3, <2>4, <2>5, <2>6 DEF Next
  <1>3. CharsMatch /\ UNCHANGED vars => CharsMatch'
    BY DEF vars, CharsMatch, LineCharacters, LineEnds, LineTo, LineStart, LineStop
  <1>4. QED
    BY <1>1, <1>2, <1>3, Invariance, Tallying, PTL DEF Spec

(* What it subtracts at the end of the file never exceeds what it counted: *)
(* the saturating subtraction never saturates.                             *)
THEOREM NothingSaturates ==
  Spec => [][EndOfFile => count_newlines + count_crlf
               <= IF carry = <<>> THEN count_chars ELSE count_chars + 1]_vars
  <1>1. ASSUME TypeOK, Aligned, Counted, Tallied, EndOfFile
        PROVE  count_newlines + count_crlf
                 <= IF carry = <<>> THEN count_chars ELSE count_chars + 1
    <2>1. text \in Seq(Bytes)
      BY <1>1, Places
    <2>2. QED
      BY <1>1, <2>1, TalliedAtEnd, LettersCounted
  <1>2. QED
    BY <1>1, Invariance, Tallying, PTL DEF Spec, Inv
============================================================================
