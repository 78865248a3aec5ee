--------------------------- MODULE TextStatsProofs ---------------------------
(***************************************************************************)
(* For every file, whatever its length and wherever its chunks end: the    *)
(* counters of `compute_text_stats` keep their types, what it carries over *)
(* is shorter than a character, in strict mode it fails on exactly the     *)
(* files that are not UTF-8, it counts the lines of `lossy_lines`, and it  *)
(* always returns.                                                         *)
(***************************************************************************)
EXTENDS TextStats, FiniteSetTheorems, SequenceTheorems, TLAPS

(* How many bytes of the file the counters speak of.                       *)
consumed == file_offset - (Len(data) - pos) - Len(carry)

(* What is in the buffers is the stretch of the file before file_offset.   *)
EndsAt(s, at) ==
  Len(s) <= at /\ \A k \in 1 .. Len(s) : s[k] = text[at - Len(s) + k]

(* Nothing is lost or repeated between chunks; what is carried over is one *)
(* incomplete sequence.                                                    *)
Aligned ==
  /\ EndsAt(data, file_offset) /\ EndsAt(carry, file_offset)
  /\ pos < Len(data) => carry = <<>>
  /\ carry # <<>> => Len(carry) <= Len(data)
       /\ Sequence(carry, 1).kind = "incomplete" /\ Sequence(carry, 1).len = Len(carry)

(* In strict mode the file is cut into characters up to here, and whoever  *)
(* cuts all of it into characters cuts here.                               *)
Judged ==
  strict_utf8 =>
    /\ \E places \in SUBSET (0 .. consumed) :
         /\ 0 \in places /\ consumed \in places
         /\ \A i \in places \ {consumed} :
              /\ Sequence(text, i + 1).kind = "valid"
              /\ i + Sequence(text, i + 1).len \in places
    /\ \A places \in SUBSET (0 .. Len(text)) : Cuts(places, text) => consumed \in places

(* The LFs of the first n bytes.                                           *)
Newlines(n) == {i \in 1 .. n : text[i] = "lf"}

Counted ==
  /\ count_newlines = Cardinality(Newlines(consumed))
  /\ last_byte = IF consumed = 0 THEN "lf" ELSE text[consumed]

----------------------------------------------------------------------------
(* Sequences.                                                              *)

(* The n bytes of s behind the place i are continuation bytes.             *)
Continued(s, i, n) == \A k \in i + 1 .. i + n : k <= Len(s) /\ s[k] = "cont"

(* They are all that the first byte asks for, or all there are.            *)
Most(s, i, n) ==
  /\ Continued(s, i, n)
  /\ n = Follow[s[i]] \/ i + n = Len(s) \/ s[i + n + 1] # "cont"

LEMMA FollowsFew ==
  ASSUME NEW b \in AllBytes
  PROVE  /\ Follow[b] \in 0 .. 3
         /\ b \in {"lf", "cr", "ascii", "cont"} => Follow[b] = 0
  BY DEF Follow, AllBytes

LEMMA MostExists ==
  ASSUME NEW s \in Seq(Bytes), NEW i \in 1 .. Len(s)
  PROVE  \E n \in 0 .. Follow[s[i]] : Most(s, i, n)
  <1>1. Follow[s[i]] \in 0 .. 3 /\ Len(s) \in Nat /\ i \in Nat
    BY BytesAssumption, FollowsFew
  <1>2. ASSUME NEW n \in 0 .. 2, n < Follow[s[i]], Continued(s, i, n), i + n <= Len(s),
               ~Most(s, i, n)
        PROVE  Continued(s, i, n + 1) /\ i + n + 1 <= Len(s)
    <2>1. i + n + 1 <= Len(s) /\ s[i + n + 1] = "cont"
      BY <1>1, <1>2 DEF Most
    <2>2. ASSUME NEW k \in i + 1 .. i + (n + 1) PROVE k <= Len(s) /\ s[k] = "cont"
      <3>1. k = i + n + 1 \/ k \in i + 1 .. i + n
        BY <1>1
      <3>2. QED
        BY <3>1, <2>1, <1>2 DEF Continued
    <2>3. QED
      BY <2>1, <2>2 DEF Continued
  <1> SUFFICES ASSUME \A n \in 0 .. Follow[s[i]] : ~Most(s, i, n) PROVE FALSE
    OBVIOUS
  <1>3. Continued(s, i, 0) /\ i + 0 <= Len(s)
    BY <1>1 DEF Continued
  <1>4. \A n \in 0 .. 3 : Continued(s, i, n) => n # Follow[s[i]]
    BY <1>1 DEF Most
  <1>5. \A n \in 0 .. 2 : n <= Follow[s[i]] /\ Continued(s, i, n) /\ i + n <= Len(s)
                        => /\ n + 1 <= Follow[s[i]]
                           /\ Continued(s, i, n + 1) /\ i + n + 1 <= Len(s)
    BY <1>1, <1>2, <1>4
  <1>6. 0 + 1 = 1 /\ 1 + 1 = 2 /\ 2 + 1 = 3 /\ i + 0 + 1 = i + 1
        /\ i + 1 + 1 = i + 2 /\ i + 2 + 1 = i + 3
    BY <1>1
  <1>7. Continued(s, i, 1) /\ 1 <= Follow[s[i]] /\ i + 1 <= Len(s)
    BY <1>1, <1>3, <1>5, <1>6
  <1>8. Continued(s, i, 2) /\ 2 <= Follow[s[i]] /\ i + 2 <= Len(s)
    BY <1>1, <1>7, <1>5, <1>6
  <1>9. Continued(s, i, 3) /\ 3 <= Follow[s[i]]
    BY <1>1, <1>8, <1>5, <1>6
  <1>10. QED
    BY <1>9, <1>1, <1>4

LEMMA MostUnique ==
  ASSUME NEW s \in Seq(Bytes), NEW i \in 1 .. Len(s),
         NEW m \in 0 .. Follow[s[i]], NEW n \in 0 .. Follow[s[i]],
         Most(s, i, m), Most(s, i, n)
  PROVE  m = n
  <1>1. Follow[s[i]] \in 0 .. 3 /\ Len(s) \in Nat /\ i \in Nat
    BY BytesAssumption, FollowsFew
  <1>2. ASSUME NEW a \in 0 .. Follow[s[i]], NEW b \in 0 .. Follow[s[i]],
               Most(s, i, a), Continued(s, i, b), a < b
        PROVE  FALSE
    <2>1. i + a + 1 \in i + 1 .. i + b
      BY <1>1, <1>2
    <2>2. i + a + 1 <= Len(s) /\ s[i + a + 1] = "cont"
      BY <2>1, <1>2 DEF Continued
    <2>3. a # Follow[s[i]] /\ i + a # Len(s)
      BY <2>2, <1>1, <1>2
    <2>4. QED
      BY <2>2, <2>3, <1>2 DEF Most
  <1>3. Continued(s, i, m) /\ Continued(s, i, n)
    BY DEF Most
  <1>4. ~(m < n) /\ ~(n < m)
    BY <1>2, <1>3
  <1>5. QED
    BY <1>1, <1>4

(* The sequence at a place, by the number n of bytes that follow the first.*)
LEMMA SequenceIs ==
  ASSUME NEW s \in Seq(Bytes), NEW i \in 1 .. Len(s),
         NEW n \in 0 .. Follow[s[i]], Most(s, i, n)
  PROVE  /\ Sequence(s, i).len = n + 1
         /\ i + n <= Len(s)
         /\ Sequence(s, i).kind = "valid" <=> s[i] # "cont" /\ n = Follow[s[i]]
         /\ Sequence(s, i).kind = "incomplete" <=> n < Follow[s[i]] /\ i + n = Len(s)
         /\ Sequence(s, i).kind \in {"valid", "invalid", "incomplete"}
  <1>1. /\ Follow[s[i]] \in 0 .. 3 /\ Len(s) \in Nat /\ i \in Nat
        /\ s[i] = "cont" => Follow[s[i]] = 0
    BY BytesAssumption, FollowsFew
  <1>2. n = CHOOSE m \in 0 .. Follow[s[i]] : Most(s, i, m)
    BY MostUnique
  <1>3. Sequence(s, i) =
          [len |-> n + 1,
           kind |-> CASE s[i] = "cont" -> "invalid"
                      [] s[i] # "cont" /\ n = Follow[s[i]] -> "valid"
                      [] s[i] # "cont" /\ n < Follow[s[i]] /\ i + n = Len(s) -> "incomplete"
                      [] OTHER -> "invalid"]
    BY <1>2 DEF Sequence, Most, Continued
  <1>4. i + n <= Len(s)
    <2>1. n = 0 \/ i + n \in i + 1 .. i + n
      BY <1>1
    <2>2. QED
      BY <2>1, <1>1 DEF Most, Continued
  <1>5. QED
    BY <1>1, <1>3, <1>4

(* It ends within s; an incomplete one is short, and the end of s.         *)
LEMMA SequenceFits ==
  ASSUME NEW s \in Seq(Bytes), NEW i \in 1 .. Len(s)
  PROVE  /\ Sequence(s, i).len \in 1 .. Len(s) - i + 1
         /\ Sequence(s, i).kind \in {"valid", "invalid", "incomplete"}
         /\ Sequence(s, i).kind = "incomplete" =>
              Sequence(s, i).len <= 3 /\ i + Sequence(s, i).len = Len(s) + 1
  <1>1. PICK n \in 0 .. Follow[s[i]] : Most(s, i, n)
    BY MostExists
  <1>2. Follow[s[i]] \in 0 .. 3 /\ Len(s) \in Nat /\ i \in Nat
    BY BytesAssumption, FollowsFew
  <1>3. QED
    BY <1>1, <1>2, SequenceIs

(* What follows its first byte are continuation bytes; LF and CR are       *)
(* characters by themselves.                                               *)
LEMMA SequencePlain ==
  ASSUME NEW s \in Seq(Bytes), NEW i \in 1 .. Len(s)
  PROVE  /\ \A k \in i + 1 .. i + Sequence(s, i).len - 1 : s[k] = "cont"
         /\ s[i] \in {"lf", "cr"} => Sequence(s, i).kind = "valid" /\ Sequence(s, i).len = 1
         /\ s[i] = "cont" => Sequence(s, i).len = 1
  <1>1. PICK n \in 0 .. Follow[s[i]] : Most(s, i, n)
    BY MostExists
  <1>2. /\ Follow[s[i]] \in 0 .. 3 /\ Len(s) \in Nat /\ i \in Nat
        /\ s[i] \in {"lf", "cr", "cont"} => Follow[s[i]] = 0
    BY BytesAssumption, FollowsFew
  <1>3. Sequence(s, i).len = n + 1
    BY <1>1, SequenceIs
  <1>4. ASSUME NEW k \in i + 1 .. i + Sequence(s, i).len - 1 PROVE s[k] = "cont"
    <2>1. k \in i + 1 .. i + n
      BY <1>2, <1>3
    <2>2. QED
      BY <2>1, <1>1 DEF Most, Continued
  <1>5. s[i] \in {"lf", "cr"} => Sequence(s, i).kind = "valid"
    BY <1>1, <1>2, SequenceIs
  <1>6. QED
    BY <1>1, <1>2, <1>3, <1>4, <1>5

(* The same bytes elsewhere, with more behind them or not: a sequence that *)
(* does not wait for more is the same there.                               *)
LEMMA SequenceMoves ==
  ASSUME NEW s \in Seq(Bytes), NEW t \in Seq(Bytes), NEW d \in Int,
         NEW i \in 1 .. Len(s), i + d >= 1, Len(s) + d <= Len(t),
         \A k \in i .. Len(s) : s[k] = t[k + d],
         Sequence(s, i).kind # "incomplete" \/ Len(s) + d = Len(t)
  PROVE  /\ Sequence(t, i + d).kind = Sequence(s, i).kind
         /\ Sequence(t, i + d).len = Sequence(s, i).len
  <1>1. PICK n \in 0 .. Follow[s[i]] : Most(s, i, n)
    BY MostExists
  <1>2. /\ Follow[s[i]] \in 0 .. 3 /\ Len(s) \in Nat /\ Len(t) \in Nat /\ i \in Nat
        /\ s[i] = "cont" => Follow[s[i]] = 0
    BY BytesAssumption, FollowsFew
  <1>3. i + d \in 1 .. Len(t) /\ t[i + d] = s[i]
    BY <1>2
  <1>4. i + n <= Len(s)
    BY <1>1, SequenceIs
  <1>5. Continued(t, i + d, n)
    <2> SUFFICES ASSUME NEW k \in i + d + 1 .. i + d + n
                 PROVE  k <= Len(t) /\ t[k] = "cont"
      BY DEF Continued
    <2>1. k - d \in i + 1 .. i + n /\ k - d \in i .. Len(s) /\ (k - d) + d = k
      BY <1>2, <1>4
    <2>2. s[k - d] = "cont" /\ s[k - d] = t[(k - d) + d]
      BY <2>1, <1>1 DEF Most, Continued
    <2>3. QED
      BY <2>1, <2>2, <1>2, <1>4
  <1>6. Most(t, i + d, n)
    <2>1. CASE n = Follow[s[i]]
      BY <2>1, <1>3, <1>5 DEF Most
    <2>2. CASE n # Follow[s[i]] /\ i + n = Len(s)
      <3>1. Sequence(s, i).kind = "incomplete"
        BY <2>2, <1>1, <1>2, SequenceIs, SMTT(20)
      <3>2. i + d + n = Len(t)
        BY <3>1, <2>2, <1>2
      <3>3. QED
        BY <3>2, <1>5 DEF Most
    <2>3. CASE n # Follow[s[i]] /\ i + n # Len(s)
      <3>1. s[i + n + 1] # "cont"
        BY <2>3, <1>1 DEF Most
      <3>2. i + n + 1 \in i .. Len(s) /\ i + n + 1 + d = i + d + n + 1
        BY <2>3, <1>2, <1>4
      <3>3. t[i + d + n + 1] # "cont"
        BY <3>1, <3>2
      <3>4. QED
        BY <3>3, <1>5 DEF Most
    <2>4. QED
      BY <2>1, <2>2, <2>3
  <1>7. /\ Sequence(s, i).len = n + 1 /\ Sequence(t, i + d).len = n + 1
        /\ Sequence(s, i).kind = "valid" <=> s[i] # "cont" /\ n = Follow[s[i]]
        /\ Sequence(t, i + d).kind = "valid" <=> s[i] # "cont" /\ n = Follow[s[i]]
        /\ Sequence(s, i).kind = "incomplete" <=> n < Follow[s[i]] /\ i + n = Len(s)
        /\ Sequence(t, i + d).kind = "incomplete"
             <=> n < Follow[s[i]] /\ i + d + n = Len(t)
        /\ Sequence(s, i).kind \in {"valid", "invalid", "incomplete"}
        /\ Sequence(t, i + d).kind \in {"valid", "invalid", "incomplete"}
    BY <1>1, <1>3, <1>6, SequenceIs
  <1>8. (Sequence(s, i).kind = "incomplete") <=> (Sequence(t, i + d).kind = "incomplete")
    <2>1. n < Follow[s[i]] /\ i + d + n = Len(t) => i + n = Len(s)
      BY <1>2, <1>4
    <2>2. QED
      BY <2>1, <1>2, <1>7
  <1>9. QED
    BY <1>7, <1>8

----------------------------------------------------------------------------
(* The steps.                                                              *)

(* The bytes m + 1 to n of s.                                              *)
LEMMA Stretch ==
  ASSUME NEW s \in Seq(Bytes), NEW m \in Nat, NEW n \in Nat, m <= n, n <= Len(s)
  PROVE  /\ SubSeq(s, m + 1, n) \in Seq(Bytes) /\ Len(SubSeq(s, m + 1, n)) = n - m
         /\ \A k \in 1 .. n - m : SubSeq(s, m + 1, n)[k] = s[m + k]
  <1> DEFINE from == m + 1
             u == SubSeq(s, from, n)
  <1>1. \A i \in from .. n : s[i] \in Bytes
    <2>1. Len(s) \in Nat
      OBVIOUS
    <2>2. \A i \in from .. n : i \in 1 .. Len(s)
      BY <2>1
    <2>3. QED
      BY <2>2, ElementOfSeq
  <1>2. from \in Int /\ n \in Int
    OBVIOUS
  <1> HIDE DEF from
  <1>3. /\ u \in Seq(Bytes) /\ Len(u) = IF from <= n THEN n - from + 1 ELSE 0
        /\ \A i \in 1 .. n - from + 1 : u[i] = s[from + i - 1]
    <2>1. SubSeq(s, from, n) \in Seq(Bytes)
      BY <1>1, <1>2, SubSeqProperties
    <2>2. Len(SubSeq(s, from, n)) = IF from <= n THEN n - from + 1 ELSE 0
      BY <1>1, <1>2, SubSeqProperties
    <2>3. \A i \in 1 .. n - from + 1 : SubSeq(s, from, n)[i] = s[from + i - 1]
      BY <1>1, <1>2, SubSeqProperties
    <2>4. QED
      BY <2>1, <2>2, <2>3
  <1> HIDE DEF u
  <1>4. (from <= n <=> m < n) /\ n - from + 1 = n - m
        /\ \A k \in 1 .. n - m : from + k - 1 = m + k
    BY DEF from
  <1>5. u \in Seq(Bytes) /\ Len(u) = n - m /\ \A k \in 1 .. n - m : u[k] = s[m + k]
    BY <1>3, <1>4
  <1>6. QED
    BY <1>5 DEF u, from

LEMMA InitFiles ==
  ASSUME Init
  PROVE  text \in Seq(Bytes) /\ Bytes \subseteq AllBytes
  <1>1. PICK n \in 0 .. MaxLength : text \in [1 .. n -> Bytes]
    BY DEF Init
  <1>2. n \in Nat
    BY BoundsAssumption
  <1>3. QED
    BY <1>1, <1>2, BytesAssumption

LEMMA Start ==
  ASSUME Init
  PROVE  TypeOK /\ Aligned /\ Judged /\ Counted
  <1>1. TypeOK
    <2>1. <<>> \in Seq(Bytes) /\ Len(<<>>) = 0 /\ Len(text) \in Nat
      BY InitFiles, EmptySeq, LenProperties
    <2>2. file_offset \in 0 .. Len(text) /\ pos \in 0 .. Len(data) /\ Len(carry) <= 3
      BY <2>1 DEF Init
    <2>3. result \in [status : {"none", "ok", "error", "read error"}, lines : Nat, chars : Nat]
      BY DEF Init, NoCounts
    <2>4. QED
      BY <2>1, <2>2, <2>3, InitFiles DEF Init, TypeOK, AllBytes
  <1>2. Aligned
    BY DEF Init, Aligned, EndsAt
  <1>3. consumed = 0 /\ Len(text) \in Nat
    <2>1. file_offset = 0 /\ pos = 0 /\ Len(data) = 0 /\ Len(carry) = 0
      BY EmptySeq DEF Init
    <2>2. consumed = 0
      BY <2>1 DEF consumed
    <2>3. QED
      BY <2>2, InitFiles, LenProperties
  <1>4. Judged
    <2>1. {0} \in SUBSET (0 .. consumed) /\ {0} \ {consumed} = {}
      BY <1>3
    <2>2. \A places : Cuts(places, text) => consumed \in places
      BY <1>3 DEF Cuts
    <2>3. QED
      BY <2>1, <2>2, <1>3 DEF Judged
  <1>5. Counted
    <2>1. Newlines(0) = {}
      BY DEF Newlines
    <2>2. QED
      BY <1>3, <2>1, FS_EmptySet DEF Init, Counted
  <1>6. QED
    BY <1>1, <1>2, <1>4, <1>5

(* A chunk is read: it and what was carried over end at the new offset.    *)
LEMMA ReadKeeps ==
  ASSUME TypeOK, Aligned, ReadChunk
  PROVE  /\ data' \in Seq(Bytes) /\ file_offset' \in 0 .. Len(text)
         /\ Len(data') = Len(carry) + (file_offset' - file_offset)
         /\ EndsAt(data', file_offset')
  <1>1. PICK n \in 1 .. Len(text) - file_offset :
          data' = carry \o Chunk(n) /\ file_offset' = file_offset + n
    BY DEF ReadChunk
  <1>2. text \in Seq(Bytes) /\ file_offset \in 0 .. Len(text) /\ Len(text) \in Nat
        /\ carry \in Seq(Bytes)
    BY LenProperties DEF TypeOK
  <1>3. /\ file_offset \in Nat /\ file_offset + n \in Nat
        /\ file_offset <= file_offset + n /\ file_offset + n <= Len(text)
        /\ file_offset + n - file_offset = n
    BY <1>2
  <1>4. /\ Chunk(n) \in Seq(Bytes) /\ Len(Chunk(n)) = n
        /\ \A k \in 1 .. n : Chunk(n)[k] = text[file_offset + k]
    BY <1>2, <1>3, Stretch DEF Chunk
  <1>5. /\ data' \in Seq(Bytes) /\ Len(data') = Len(carry) + n
        /\ \A k \in 1 .. Len(carry) + n :
             data'[k] = IF k <= Len(carry) THEN carry[k] ELSE Chunk(n)[k - Len(carry)]
    <2> DEFINE chunk == Chunk(n)
    <2> HIDE DEF chunk
    <2>1. /\ carry \o chunk \in Seq(Bytes)
          /\ Len(carry \o chunk) = Len(carry) + Len(chunk)
          /\ \A k \in 1 .. Len(carry) + Len(chunk) : (carry \o chunk)[k] =
               IF k <= Len(carry) THEN carry[k] ELSE chunk[k - Len(carry)]
      BY <1>2, <1>4, ConcatProperties DEF chunk
    <2>2. QED
      BY <1>1, <1>4, <2>1 DEF chunk
  <1>6. EndsAt(data', file_offset')
    <2>1. Len(data') <= file_offset'
      BY <1>1, <1>2, <1>5 DEF Aligned, EndsAt
    <2>2. ASSUME NEW k \in 1 .. Len(data')
          PROVE  data'[k] = text[file_offset' - Len(data') + k]
      <3>1. file_offset' - Len(data') + k = file_offset - Len(carry) + k
        BY <1>1, <1>2, <1>5
      <3>2. CASE k <= Len(carry)
        <4>1. k \in 1 .. Len(carry)
          BY <3>2, <1>2, <1>5
        <4>2. QED
          BY <4>1, <3>1, <1>5 DEF Aligned, EndsAt
      <3>3. CASE ~(k <= Len(carry))
        <4>1. k - Len(carry) \in 1 .. n
              /\ file_offset + (k - Len(carry)) = file_offset - Len(carry) + k
          BY <3>3, <1>2, <1>5
        <4>2. QED
          BY <3>1, <3>3, <4>1, <1>4, <1>5
      <3>4. QED
        BY <3>2, <3>3
    <2>3. QED
      BY <2>1, <2>2 DEF EndsAt
  <1>7. QED
    BY <1>1, <1>2, <1>5, <1>6

(* What TypeOK says of the places.                                         *)
LEMMA Places ==
  ASSUME TypeOK
  PROVE  /\ text \in Seq(Bytes) /\ data \in Seq(Bytes) /\ carry \in Seq(Bytes)
         /\ Len(text) \in Nat /\ Len(data) \in Nat /\ Len(carry) \in Nat
         /\ file_offset \in Nat /\ file_offset <= Len(text)
         /\ pos \in Nat /\ pos <= Len(data)
  <1>1. /\ text \in Seq(Bytes) /\ data \in Seq(Bytes) /\ carry \in Seq(Bytes)
        /\ file_offset \in 0 .. Len(text) /\ pos \in 0 .. Len(data)
    BY DEF TypeOK
  <1>2. Len(text) \in Nat /\ Len(data) \in Nat /\ Len(carry) \in Nat
    BY <1>1, LenProperties
  <1>3. QED
    BY <1>1, <1>2

(* The sequence at pos is the one at that place of the file, unless it is  *)
(* yet to be completed; where the buffers are in the file.                 *)
LEMMA AtPlace ==
  ASSUME TypeOK, Aligned, NEW kind, At(kind)
  PROVE  /\ carry = <<>> /\ Len(data) \in Nat /\ Len(text) \in Nat
         /\ consumed = file_offset - (Len(data) - pos)
         /\ consumed \in 0 .. Len(text) - 1
         /\ pos + 1 \in 1 .. Len(data)
         /\ Sequence(data, pos + 1).kind = kind
         /\ Sequence(data, pos + 1).len \in 1 .. Len(data) - pos
         /\ kind # "incomplete" =>
              /\ Sequence(text, consumed + 1).kind = kind
              /\ Sequence(text, consumed + 1).len = Sequence(data, pos + 1).len
         /\ data[pos + Sequence(data, pos + 1).len]
              = text[consumed + Sequence(data, pos + 1).len]
         /\ data[pos + Sequence(data, pos + 1).len] \in Bytes
  <1>1. /\ carry = <<>> /\ Len(data) \in Nat /\ Len(text) \in Nat /\ Len(carry) = 0
        /\ pos \in Nat /\ pos < Len(data) /\ file_offset \in 0 .. Len(text)
        /\ data \in Seq(Bytes) /\ text \in Seq(Bytes) /\ Len(data) <= file_offset
        /\ Sequence(data, pos + 1).kind = kind
    <2>1. carry = <<>> /\ pos < Len(data) /\ Sequence(data, pos + 1).kind = kind
      BY DEF Aligned, At
    <2>2. Len(carry) = 0 /\ Len(data) <= file_offset
      BY <2>1, EmptySeq DEF Aligned, EndsAt
    <2>3. QED
      BY <2>1, <2>2, Places
  <1>2. /\ consumed = file_offset - (Len(data) - pos)
        /\ consumed \in 0 .. Len(text) - 1 /\ pos + 1 \in 1 .. Len(data)
    BY <1>1 DEF consumed
  <1> DEFINE n == Sequence(data, pos + 1).len
             d == file_offset - Len(data)
  <1>3. n \in 1 .. Len(data) - pos
    <2>1. n \in 1 .. Len(data) - (pos + 1) + 1
      BY <1>1, <1>2, SequenceFits
    <2>2. QED
      BY <2>1, <1>1
  <1>4. \A k \in 1 .. Len(data) : data[k] = text[k + d]
    <2>1. \A k \in 1 .. Len(data) : file_offset - Len(data) + k = k + d
      BY <1>1
    <2>2. QED
      BY <2>1 DEF Aligned, EndsAt
  <1>5. d \in Int /\ d >= 0 /\ Len(data) + d <= Len(text) /\ consumed + 1 = pos + 1 + d
        /\ pos + 1 + d >= 1
    BY <1>1, <1>2
  <1>6. ASSUME kind # "incomplete"
        PROVE  /\ Sequence(text, consumed + 1).kind = kind
               /\ Sequence(text, consumed + 1).len = n
    <2> HIDE DEF d
    <2>1. \A k \in pos + 1 .. Len(data) : data[k] = text[k + d]
      BY <1>1, <1>4
    <2>2. /\ Sequence(text, pos + 1 + d).kind = Sequence(data, pos + 1).kind
          /\ Sequence(text, pos + 1 + d).len = Sequence(data, pos + 1).len
      BY <1>1, <1>2, <1>5, <1>6, <2>1, SequenceMoves
    <2>3. QED
      BY <2>2, <1>1, <1>5
  <1>7. data[pos + n] = text[consumed + n] /\ data[pos + n] \in Bytes
    <2> HIDE DEF n
    <2>1. pos + n \in 1 .. Len(data) /\ pos + n + d = consumed + n
      BY <1>1, <1>2, <1>3
    <2>2. QED
      BY <2>1, <1>1, <1>4
  <1>8. QED
    BY <1>1, <1>2, <1>3, <1>6, <1>7

(* An incomplete sequence is carried over.                                 *)
LEMMA CarryKeeps ==
  ASSUME TypeOK, Aligned, CarryOver
  PROVE  /\ carry' \in Seq(Bytes) /\ Len(carry') = Len(data) - pos /\ Len(carry') \in 1 .. 3
         /\ EndsAt(carry', file_offset)
         /\ Sequence(carry', 1).kind = "incomplete" /\ Sequence(carry', 1).len = Len(carry')
  <1>1. At("incomplete") /\ carry' = SubSeq(data, pos + 1, Len(data))
    BY DEF CarryOver
  <1>2. /\ Len(data) \in Nat /\ pos + 1 \in 1 .. Len(data)
        /\ Sequence(data, pos + 1).kind = "incomplete"
    BY <1>1, AtPlace
  <1>3. /\ data \in Seq(Bytes) /\ pos \in Nat /\ pos < Len(data)
        /\ file_offset \in Nat
        /\ Len(data) <= file_offset
    BY <1>2, Places DEF Aligned, EndsAt
  <1>4. /\ carry' \in Seq(Bytes) /\ Len(carry') = Len(data) - pos
        /\ \A k \in 1 .. Len(data) - pos : carry'[k] = data[pos + k]
    BY <1>1, <1>2, <1>3, Stretch
  <1>5. Sequence(data, pos + 1).len = Len(data) - pos /\ Sequence(data, pos + 1).len <= 3
    <2>1. Sequence(data, pos + 1).len \in 1 .. Len(data) - (pos + 1) + 1
      BY <1>2, <1>3, SequenceFits
    <2>2. pos + 1 + Sequence(data, pos + 1).len = Len(data) + 1
          /\ Sequence(data, pos + 1).len <= 3
      BY <1>2, <1>3, SequenceFits
    <2>3. QED
      BY <2>1, <2>2, <1>2, <1>3
  <1>6. Len(carry') \in 1 .. 3
    BY <1>2, <1>3, <1>4, <1>5
  <1>7. EndsAt(carry', file_offset)
    <2>1. Len(carry') <= file_offset
      BY <1>3, <1>4
    <2>2. ASSUME NEW k \in 1 .. Len(carry')
          PROVE  carry'[k] = text[file_offset - Len(carry') + k]
      <3>1. carry'[k] = data[pos + k] /\ pos + k \in 1 .. Len(data)
        BY <1>2, <1>3, <1>4
      <3>2. data[pos + k] = text[file_offset - Len(data) + (pos + k)]
        BY <3>1 DEF Aligned, EndsAt
      <3>3. file_offset - Len(data) + (pos + k) = file_offset - Len(carry') + k
        BY <1>2, <1>3, <1>4
      <3>4. QED
        BY <3>1, <3>2, <3>3
    <2>3. QED
      BY <2>1, <2>2 DEF EndsAt
  <1>8. Sequence(carry', 1).kind = "incomplete" /\ Sequence(carry', 1).len = Len(carry')
    <2> DEFINE c == carry'
               d == 0 - pos
    <2>1. /\ d \in Int /\ pos + 1 + d = 1 /\ Len(data) + d = Len(c)
          /\ \A k \in pos + 1 .. Len(data) : data[k] = c[k + d]
      <3>1. \A k \in pos + 1 .. Len(data) :
              k + d \in 1 .. Len(data) - pos /\ pos + (k + d) = k
        BY <1>2, <1>3
      <3>2. \A k \in pos + 1 .. Len(data) : data[k] = c[k + d]
        BY <3>1, <1>4
      <3>3. QED
        BY <3>2, <1>2, <1>3, <1>4
    <2>2. c \in Seq(Bytes) /\ Len(c) \in Nat
      BY <1>4, <1>6
    <2> HIDE DEF c, d
    <2>3. /\ Sequence(c, pos + 1 + d).kind = Sequence(data, pos + 1).kind
          /\ Sequence(c, pos + 1 + d).len = Sequence(data, pos + 1).len
      <3>1. /\ data \in Seq(Bytes) /\ c \in Seq(Bytes) /\ d \in Int
            /\ pos + 1 \in 1 .. Len(data) /\ (pos + 1) + d >= 1
            /\ Len(data) + d <= Len(c) /\ Len(data) + d = Len(c)
            /\ \A k \in pos + 1 .. Len(data) : data[k] = c[k + d]
        BY <1>2, <1>3, <2>1, <2>2
      <3> DEFINE i == pos + 1
      <3> HIDE DEF i
      <3>2. /\ Sequence(c, i + d).kind = Sequence(data, i).kind
            /\ Sequence(c, i + d).len = Sequence(data, i).len
        BY <3>1, SequenceMoves DEF i
      <3>3. QED
        BY <3>2 DEF i
    <2>4. Sequence(c, 1).kind = "incomplete" /\ Sequence(c, 1).len = Len(data) - pos
      BY <2>1, <2>3, <1>2, <1>5
    <2>5. QED
      BY <2>4, <1>4 DEF c
  <1>9. QED
    BY <1>4, <1>6, <1>7, <1>8

(* What a step means for the file: nothing is judged, or the sequence that *)
(* comes next.                                                             *)
LEMMA Consumption ==
  ASSUME TypeOK, Aligned, Next
  PROVE  /\ text' = text /\ strict_utf8' = strict_utf8
         /\ \/ consumed' = consumed /\ UNCHANGED counters
            \/ LET n == Sequence(text, consumed + 1).len
               IN  /\ consumed < Len(text)
                   /\ n \in Nat /\ n >= 1 /\ consumed + n <= Len(text)
                   /\ consumed' = consumed + n
                   /\ last_byte' = text[consumed + n]
                   /\ count_chars' = count_chars + 1
                   /\ \/ /\ Sequence(text, consumed + 1).kind = "valid"
                         /\ count_newlines' =
                              count_newlines + (IF text[consumed + n] = "lf" THEN 1 ELSE 0)
                         /\ count_crlf' = count_crlf +
                              (IF text[consumed + n] = "lf" /\ prev_was_cr THEN 1 ELSE 0)
                         /\ prev_was_cr' = (text[consumed + n] = "cr")
                      \/ /\ Sequence(text, consumed + 1).kind = "invalid" /\ ~strict_utf8
                         /\ count_newlines' = count_newlines
                         /\ count_crlf' = count_crlf /\ prev_was_cr' = FALSE
  <1>1. text' = text /\ strict_utf8' = strict_utf8
    BY DEF Next, ReadChunk, ReadFails, EndOfFile, ValidCharacter, InvalidSequence, CarryOver
  <1>2. CASE ReadChunk
    <2>1. /\ Len(data') = Len(carry) + (file_offset' - file_offset)
          /\ file_offset' \in 0 .. Len(text) /\ Len(carry') = 0 /\ pos' = 0 /\ pos = Len(data)
      BY <1>2, ReadKeeps, EmptySeq DEF ReadChunk
    <2>2. consumed' = consumed
      BY <2>1, Places DEF consumed
    <2>3. QED
      BY <1>1, <1>2, <2>2 DEF ReadChunk
  <1>3. CASE ReadFails \/ EndOfFile
    BY <1>1, <1>3 DEF ReadFails, EndOfFile, consumed
  <1>4. CASE CarryOver
    <2>1. /\ Len(carry') = Len(data) - pos /\ carry = <<>> /\ pos' = Len(data)
          /\ data' = data /\ file_offset' = file_offset
      BY <1>4, CarryKeeps, AtPlace DEF CarryOver
    <2>2. consumed' = consumed
      BY <2>1, Places, EmptySeq DEF consumed
    <2>3. QED
      BY <1>1, <1>4, <2>2 DEF CarryOver
  <1> DEFINE n == Sequence(text, consumed + 1).len
  <1>5. ASSUME NEW kind \in {"valid", "invalid"}, At(kind), Skip,
               UNCHANGED <<data, carry, file_offset>>
        PROVE  /\ consumed < Len(text) /\ n \in Nat /\ n >= 1 /\ consumed + n <= Len(text)
               /\ consumed' = consumed + n
               /\ data[pos + n] = text[consumed + n]
               /\ n = Sequence(data, pos + 1).len
               /\ Sequence(text, consumed + 1).kind = kind
    <2>1. /\ carry = <<>> /\ Len(data) \in Nat /\ Len(text) \in Nat
          /\ consumed = file_offset - (Len(data) - pos)
          /\ consumed \in 0 .. Len(text) - 1
          /\ Sequence(data, pos + 1).len \in 1 .. Len(data) - pos
          /\ Sequence(text, consumed + 1).kind = kind
          /\ n = Sequence(data, pos + 1).len
          /\ data[pos + n] = text[consumed + n]
      BY <1>5, AtPlace
    <2> HIDE DEF n
    <2>2. pos' = pos + n /\ data' = data /\ carry' = carry /\ file_offset' = file_offset
      BY <1>5, <2>1 DEF Skip
    <2>3. Len(carry) = 0
      BY <2>1, EmptySeq
    <2>4. consumed' = consumed + n
      BY <2>1, <2>2, <2>3, Places, SMTT(20) DEF consumed
    <2>5. consumed + n <= Len(text)
      BY <2>1, Places
    <2>6. QED
      BY <2>1, <2>4, <2>5, Places, SMTT(20)
  <1>6. CASE ValidCharacter
    <2>1. At("valid") /\ Skip /\ UNCHANGED <<data, carry, file_offset>>
      BY <1>6 DEF ValidCharacter
    <2>2. /\ count_newlines' = count_newlines +
               (IF data[pos + Sequence(data, pos + 1).len] = "lf" THEN 1 ELSE 0)
          /\ count_crlf' = count_crlf +
               (IF data[pos + Sequence(data, pos + 1).len] = "lf" /\ prev_was_cr
                THEN 1 ELSE 0)
          /\ last_byte' = data[pos + Sequence(data, pos + 1).len]
          /\ prev_was_cr' = (data[pos + Sequence(data, pos + 1).len] = "cr")
          /\ count_chars' = count_chars + 1
      BY <1>6 DEF ValidCharacter
    <2>3. QED
      BY <1>1, <2>1, <2>2, <1>5
  <1>7. CASE InvalidSequence /\ strict_utf8
    BY <1>1, <1>7 DEF InvalidSequence, consumed, counters
  <1>8. CASE InvalidSequence /\ ~strict_utf8
    <2>1. /\ At("invalid") /\ Skip /\ UNCHANGED <<data, carry, file_offset>>
          /\ count_newlines' = count_newlines /\ count_crlf' = count_crlf
          /\ last_byte' = data[pos + Sequence(data, pos + 1).len]
          /\ prev_was_cr' = FALSE /\ count_chars' = count_chars + 1
      BY <1>8 DEF InvalidSequence
    <2>2. QED
      BY <1>1, <1>8, <2>1, <1>5
  <1>9. QED
    BY <1>2, <1>3, <1>4, <1>6, <1>7, <1>8 DEF Next

LEMMA AlignedStep ==
  ASSUME TypeOK, Aligned, Next
  PROVE  Aligned'
  <1>1. text' = text
    BY Consumption
  <1>2. CASE ReadChunk
    <2>1. EndsAt(data', file_offset') /\ file_offset' \in 0 .. Len(text)
      BY <1>2, ReadKeeps
    <2>2. carry' = <<>>
      BY <1>2 DEF ReadChunk
    <2>3. QED
      BY <1>1, <2>1, <2>2, Places, EmptySeq DEF Aligned, EndsAt
  <1>3. CASE ReadFails \/ EndOfFile
    BY <1>1, <1>3 DEF Aligned, EndsAt, ReadFails, EndOfFile
  <1>4. CASE CarryOver
    <2>1. /\ EndsAt(carry', file_offset) /\ Len(carry') = Len(data) - pos
          /\ Sequence(carry', 1).kind = "incomplete" /\ Sequence(carry', 1).len = Len(carry')
      BY <1>4, CarryKeeps
    <2>2. pos' = Len(data) /\ data' = data /\ file_offset' = file_offset
      BY <1>4 DEF CarryOver
    <2>3. Len(carry') <= Len(data) /\ ~(pos' < Len(data'))
      BY <2>1, <2>2, Places
    <2>4. QED
      BY <1>1, <2>1, <2>2, <2>3 DEF Aligned, EndsAt
  <1>5. CASE ValidCharacter \/ InvalidSequence
    <2>1. carry = <<>>
      BY <1>5, AtPlace DEF ValidCharacter, InvalidSequence
    <2>2. UNCHANGED <<data, carry, file_offset>>
      BY <1>5 DEF ValidCharacter, InvalidSequence
    <2>3. QED
      BY <1>1, <2>1, <2>2 DEF Aligned, EndsAt
  <1>6. QED
    BY <1>2, <1>3, <1>4, <1>5 DEF Next

Answers == [status : {"none", "ok", "error", "read error"}, lines : Nat, chars : Nat]

LEMMA CountsTyped ==
  ASSUME TypeOK, NEW chars \in Nat, NEW last
  PROVE  /\ Counts(chars, last) \in Answers /\ Counts(chars, last).status = "ok"
         /\ Counts(chars, last).lines = count_newlines + (IF last # "lf" THEN 1 ELSE 0)
  <1> DEFINE ends == count_newlines + count_crlf
             n == IF chars < ends THEN 0 ELSE chars - ends
  <1>1. count_newlines \in Nat /\ count_crlf \in Nat
    BY DEF TypeOK
  <1>2. n \in Nat /\ count_newlines + (IF last # "lf" THEN 1 ELSE 0) \in Nat
    BY <1>1
  <1>3. Counts(chars, last) =
          [status |-> "ok", lines |-> count_newlines + (IF last # "lf" THEN 1 ELSE 0),
           chars |-> n]
    BY DEF Counts
  <1> HIDE DEF n
  <1>4. QED
    BY <1>2, <1>3 DEF Answers

LEMMA TypingStep ==
  ASSUME TypeOK, Aligned, Next
  PROVE  TypeOK'
  <1>1. /\ text' = text /\ strict_utf8' = strict_utf8 /\ Bytes \subseteq AllBytes
    BY Consumption, BytesAssumption
  <1>2. CASE ReadChunk
    <2>1. /\ data' \in Seq(Bytes) /\ file_offset' \in 0 .. Len(text)
          /\ carry' = <<>> /\ pos' = 0 /\ UNCHANGED <<counters, result>>
      BY <1>2, ReadKeeps DEF ReadChunk
    <2>2. carry' \in Seq(Bytes) /\ Len(carry') <= 3 /\ Len(data') \in Nat
      BY <2>1, EmptySeq, LenProperties
    <2>3. pos' \in 0 .. Len(data')
      BY <2>1, <2>2
    <2>4. QED
      BY <1>1, <2>1, <2>2, <2>3 DEF TypeOK, counters
  <1>3. CASE ReadFails
    BY <1>1, <1>3 DEF ReadFails, TypeOK, counters, NoCounts
  <1>4. CASE EndOfFile
    <2>1. /\ Counts(count_chars, last_byte) \in Answers
          /\ Counts(count_chars + 1, carry[Len(carry)]) \in Answers
      <3>1. count_chars \in Nat
        BY DEF TypeOK
      <3>2. count_chars + 1 \in Nat
        BY <3>1
      <3>3. QED
        BY <3>1, <3>2, CountsTyped
    <2>2. NoCounts("error") \in Answers
      BY DEF NoCounts, Answers
    <2>3. result' \in Answers
      BY <1>4, <2>1, <2>2 DEF EndOfFile
    <2>4. QED
      BY <1>1, <1>4, <2>3 DEF EndOfFile, TypeOK, counters, Answers
  <1>5. CASE CarryOver
    <2>1. carry' \in Seq(Bytes) /\ Len(carry') <= 3
      BY <1>5, CarryKeeps
    <2>2. pos' \in 0 .. Len(data)
      BY <1>5, Places DEF CarryOver
    <2>3. QED
      BY <1>1, <1>5, <2>1, <2>2 DEF CarryOver, TypeOK, counters
  <1>6. ASSUME NEW kind, At(kind), Skip
        PROVE  /\ pos' \in 0 .. Len(data)
               /\ data[pos + Sequence(data, pos + 1).len] \in AllBytes
    <2> DEFINE n == Sequence(data, pos + 1).len
    <2>1. n \in 1 .. Len(data) - pos /\ data[pos + n] \in Bytes
      BY <1>6, AtPlace
    <2>2. pos' = pos + n
      BY <1>6 DEF Skip
    <2> HIDE DEF n
    <2>3. pos + n \in 0 .. Len(data)
      BY <2>1, Places
    <2>4. QED
      BY <1>1, <2>1, <2>2, <2>3 DEF n
  <1>7. CASE ValidCharacter
    <2> DEFINE b == data[pos + Sequence(data, pos + 1).len]
    <2>1. /\ count_newlines' = count_newlines + (IF b = "lf" THEN 1 ELSE 0)
          /\ count_crlf' = count_crlf + (IF b = "lf" /\ prev_was_cr THEN 1 ELSE 0)
          /\ last_byte' = b /\ prev_was_cr' = (b = "cr")
          /\ count_chars' = count_chars + 1
          /\ UNCHANGED <<text, strict_utf8, file_offset, data, carry, result>>
      BY <1>7 DEF ValidCharacter
    <2>2. b \in AllBytes /\ pos' \in 0 .. Len(data)
      BY <1>6, <1>7 DEF ValidCharacter
    <2> HIDE DEF b
    <2>3. /\ count_newlines' \in Nat /\ count_crlf' \in Nat /\ count_chars' \in Nat
          /\ prev_was_cr' \in BOOLEAN
      <3>1. count_newlines \in Nat /\ count_crlf \in Nat /\ count_chars \in Nat
        BY DEF TypeOK
      <3>2. count_newlines' \in Nat /\ count_chars' \in Nat
        BY <2>1, <3>1
      <3>3. count_crlf' = count_crlf + 1 \/ count_crlf' = count_crlf + 0
        BY <2>1
      <3>4. count_crlf' \in Nat
        BY <3>1, <3>3
      <3>5. prev_was_cr' \in BOOLEAN
        BY <2>1
      <3>6. QED
        BY <3>2, <3>4, <3>5
    <2>4. QED
      BY <2>1, <2>2, <2>3 DEF TypeOK
  <1>8. CASE InvalidSequence /\ strict_utf8
    <2>1. result' = NoCounts("error") /\ NoCounts("error") \in Answers
      BY <1>8 DEF InvalidSequence, NoCounts, Answers
    <2>2. UNCHANGED <<text, strict_utf8, file_offset, data, pos, carry, count_newlines,
                      count_crlf, count_chars, last_byte, prev_was_cr>>
      BY <1>8 DEF InvalidSequence, counters
    <2>3. QED
      BY <2>1, <2>2 DEF TypeOK, Answers
  <1>9. CASE InvalidSequence /\ ~strict_utf8
    <2>1. /\ last_byte' \in AllBytes /\ pos' \in 0 .. Len(data)
          /\ count_chars' \in Nat /\ prev_was_cr' = FALSE
          /\ UNCHANGED <<count_newlines, count_crlf, result>>
          /\ UNCHANGED <<text, strict_utf8, file_offset, data, carry>>
      <3>1. /\ At("invalid") /\ Skip /\ prev_was_cr' = FALSE
            /\ last_byte' = data[pos + Sequence(data, pos + 1).len]
            /\ count_chars' = count_chars + 1
            /\ UNCHANGED <<count_newlines, count_crlf, result>>
            /\ UNCHANGED <<text, strict_utf8, file_offset, data, carry>>
        BY <1>9 DEF InvalidSequence
      <3>2. count_chars \in Nat
        BY DEF TypeOK
      <3>3. count_chars' \in Nat
        BY <3>1, <3>2
      <3>4. QED
        BY <1>6, <3>1, <3>3
    <2>2. QED
      BY <2>1 DEF TypeOK
  <1>10. QED
    BY <1>2, <1>3, <1>4, <1>5, <1>7, <1>8, <1>9 DEF Next

(* Where the counters stand is a place in the file.                        *)
LEMMA ConsumedTyped ==
  ASSUME TypeOK, Aligned
  PROVE  consumed \in Nat /\ consumed <= Len(text)
  <1>1. /\ Len(data) <= file_offset /\ Len(carry) <= file_offset
        /\ pos < Len(data) => Len(carry) = 0
    BY EmptySeq DEF Aligned, EndsAt
  <1>2. QED
    BY <1>1, Places DEF consumed

LEMMA JudgedStep ==
  ASSUME TypeOK, Aligned, Judged, Next
  PROVE  Judged'
  <1> SUFFICES ASSUME strict_utf8
               PROVE  /\ \E places \in SUBSET (0 .. consumed') :
                           /\ 0 \in places /\ consumed' \in places
                           /\ \A i \in places \ {consumed'} :
                                /\ Sequence(text, i + 1).kind = "valid"
                                /\ i + Sequence(text, i + 1).len \in places
                      /\ \A places \in SUBSET (0 .. Len(text)) :
                           Cuts(places, text) => consumed' \in places
    BY Consumption DEF Judged, Cuts
  <1>1. PICK places \in SUBSET (0 .. consumed) :
          /\ 0 \in places /\ consumed \in places
          /\ \A i \in places \ {consumed} :
               /\ Sequence(text, i + 1).kind = "valid"
               /\ i + Sequence(text, i + 1).len \in places
    BY DEF Judged
  <1>2. \A any \in SUBSET (0 .. Len(text)) : Cuts(any, text) => consumed \in any
    BY DEF Judged
  <1>3. CASE consumed' = consumed
    BY <1>1, <1>2, <1>3
  <1>4. CASE consumed' # consumed
    <2> DEFINE n == Sequence(text, consumed + 1).len
               more == places \cup {consumed'}
    <2>1. /\ consumed < Len(text) /\ n \in Nat /\ n >= 1 /\ consumed + n <= Len(text)
          /\ consumed' = consumed + n /\ Sequence(text, consumed + 1).kind = "valid"
      BY <1>4, Consumption
    <2> HIDE DEF n
    <2>2. more \in SUBSET (0 .. consumed') /\ 0 \in more /\ consumed' \in more
      BY <1>1, <2>1, ConsumedTyped
    <2>3. ASSUME NEW i \in more \ {consumed'}
          PROVE  /\ Sequence(text, i + 1).kind = "valid"
                 /\ i + Sequence(text, i + 1).len \in more
      BY <1>1, <2>1, <2>3 DEF n
    <2>4. ASSUME NEW any \in SUBSET (0 .. Len(text)), Cuts(any, text)
          PROVE  consumed' \in any
      <3>1. consumed \in any \ {Len(text)}
        BY <1>2, <2>1, <2>4, Places, ConsumedTyped
      <3>2. QED
        BY <3>1, <2>1, <2>4 DEF Cuts, n
    <2> HIDE DEF more
    <2>5. QED
      BY <2>2, <2>3, <2>4
  <1>5. QED
    BY <1>3, <1>4

LEMMA CountedStep ==
  ASSUME TypeOK, Aligned, Counted, Next
  PROVE  Counted'
  <1>1. /\ text' = text /\ consumed \in Nat /\ text \in Seq(Bytes)
        /\ \A m : Newlines(m)' = Newlines(m)
    BY Consumption, ConsumedTyped, Places DEF Newlines
  <1>2. CASE consumed' = consumed /\ UNCHANGED counters
    BY <1>1, <1>2 DEF Counted, counters, Newlines
  <1>3. CASE ~(consumed' = consumed /\ UNCHANGED counters)
    <2> DEFINE n == Sequence(text, consumed + 1).len
               b == text[consumed + n]
    <2>1. /\ consumed < Len(text) /\ n \in Nat /\ n >= 1 /\ consumed + n <= Len(text)
          /\ consumed' = consumed + n /\ last_byte' = b
          /\ \/ /\ Sequence(text, consumed + 1).kind = "valid"
                /\ count_newlines' = count_newlines + (IF b = "lf" THEN 1 ELSE 0)
             \/ /\ Sequence(text, consumed + 1).kind = "invalid"
                /\ count_newlines' = count_newlines
      BY <1>3, Consumption
    <2>2. /\ \A k \in consumed + 1 + 1 .. consumed + 1 + n - 1 : text[k] # "lf"
          /\ text[consumed + 1] = "lf"
               => Sequence(text, consumed + 1).kind = "valid" /\ n = 1
      <3>1. consumed + 1 \in 1 .. Len(text)
        BY <1>1, <2>1, Places
      <3>2. QED
        BY <1>1, <3>1, SequencePlain
    <2> HIDE DEF n
    <2>3. \A k \in consumed + 1 .. consumed + n : text[k] = "lf" =>
            k = consumed + n /\ Sequence(text, consumed + 1).kind = "valid"
      <3>1. ASSUME NEW k \in consumed + 1 .. consumed + n, text[k] = "lf"
            PROVE  k = consumed + 1
        BY <1>1, <2>1, <2>2, <3>1
      <3>2. QED
        BY <1>1, <2>1, <2>2, <3>1
    <2>4. Newlines(consumed + n) =
            IF b = "lf" THEN Newlines(consumed) \cup {consumed + n} ELSE Newlines(consumed)
      <3>1. \A k \in 1 .. consumed + n : k \in 1 .. consumed \/ k \in consumed + 1 .. consumed + n
        BY <1>1, <2>1
      <3>2. \A k \in 1 .. consumed : k \in 1 .. consumed + n
        BY <1>1, <2>1
      <3>3. consumed + n \in 1 .. consumed + n /\ consumed + n \in consumed + 1 .. consumed + n
        BY <1>1, <2>1
      <3>4. QED
        BY <2>3, <3>1, <3>2, <3>3 DEF Newlines
    <2>5. /\ IsFiniteSet(Newlines(consumed)) /\ consumed + n \notin Newlines(consumed)
      <3>1. IsFiniteSet(1 .. consumed)
        BY <1>1, FS_Interval
      <3>2. QED
        BY <1>1, <2>1, <3>1, FS_Subset DEF Newlines
    <2>6. Cardinality(Newlines(consumed + n)) =
            Cardinality(Newlines(consumed)) + (IF b = "lf" THEN 1 ELSE 0)
      <3>1. CASE b = "lf"
        BY <2>4, <2>5, <3>1, FS_AddElement
      <3>2. CASE b # "lf"
        <4>1. Cardinality(Newlines(consumed)) \in Nat
          BY <2>5, FS_CardinalityType
        <4>2. QED
          BY <2>4, <3>2, <4>1
      <3>3. QED
        BY <3>1, <3>2
    <2>7. count_newlines' = count_newlines + (IF b = "lf" THEN 1 ELSE 0)
      <3>1. consumed + n \in consumed + 1 .. consumed + n
        BY <1>1, <2>1
      <3>2. b = "lf" => Sequence(text, consumed + 1).kind = "valid"
        BY <2>3, <3>1
      <3>3. count_newlines \in Nat
        BY DEF TypeOK
      <3>4. QED
        BY <2>1, <3>2, <3>3
    <2>8. count_newlines' = Cardinality(Newlines(consumed'))
      BY <2>1, <2>6, <2>7 DEF Counted
    <2>9. consumed' # 0 /\ last_byte' = text[consumed']
      BY <1>1, <2>1
    <2>10. QED
      BY <1>1, <2>8, <2>9 DEF Counted, Newlines
  <1>4. QED
    BY <1>2, <1>3

(* At the end of the file only a sequence carried over is not judged.      *)
LEMMA AtEnd ==
  ASSUME TypeOK, Aligned, EndOfFile
  PROVE  /\ consumed + Len(carry) = Len(text)
         /\ carry # <<>> =>
              /\ Len(carry) >= 1 /\ carry[Len(carry)] = text[Len(text)]
              /\ Sequence(text, consumed + 1).kind = "incomplete"
              /\ Sequence(text, consumed + 1).len = Len(carry)
  <1>1. pos = Len(data) /\ file_offset = Len(text)
    BY DEF EndOfFile
  <1>2. consumed = Len(text) - Len(carry)
    BY <1>1, Places DEF consumed
  <1>3. ASSUME carry # <<>>
        PROVE  /\ Len(carry) >= 1 /\ carry[Len(carry)] = text[Len(text)]
               /\ Sequence(text, consumed + 1).kind = "incomplete"
               /\ Sequence(text, consumed + 1).len = Len(carry)
    <2>1. /\ Len(carry) >= 1 /\ 1 \in 1 .. Len(carry)
          /\ consumed \in Int /\ 1 + consumed >= 1 /\ Len(carry) + consumed = Len(text)
          /\ Len(carry) \in 1 .. Len(carry)
      BY <1>1, <1>2, <1>3, Places, EmptySeq DEF Aligned, EndsAt
    <2>2. \A k \in 1 .. Len(carry) : carry[k] = text[k + consumed]
      <3>1. \A k \in 1 .. Len(carry) : file_offset - Len(carry) + k = k + consumed
        BY <1>1, <1>2, Places
      <3>2. QED
        BY <3>1 DEF Aligned, EndsAt
    <2>3. Sequence(carry, 1).kind = "incomplete" /\ Sequence(carry, 1).len = Len(carry)
      BY <1>3 DEF Aligned
    <2> DEFINE d == consumed
    <2>4. /\ d \in Int /\ 1 + d >= 1 /\ Len(carry) + d = Len(text)
          /\ Len(carry) + d <= Len(text)
          /\ \A k \in 1 .. Len(carry) : carry[k] = text[k + d]
      BY <2>1, <2>2, Places
    <2> HIDE DEF d
    <2>5. /\ Sequence(text, 1 + d).kind = Sequence(carry, 1).kind
          /\ Sequence(text, 1 + d).len = Sequence(carry, 1).len
      BY <2>1, <2>4, Places, SequenceMoves
    <2>6. 1 + d = consumed + 1
      BY <2>1 DEF d
    <2>7. QED
      BY <2>1, <2>2, <2>3, <2>5, <2>6
  <1>4. QED
    BY <1>2, <1>3, Places

Inv == TypeOK /\ Aligned /\ Judged /\ Counted

THEOREM Invariance == Spec => []Inv
  <1>1. Init => Inv
    BY Start DEF Inv
  <1>2. Inv /\ [Next]_vars => Inv'
    <2>1. Inv /\ Next => Inv'
      BY TypingStep, AlignedStep, JudgedStep, CountedStep DEF Inv
    <2>2. Inv /\ UNCHANGED vars => Inv'
      <3> SUFFICES ASSUME Inv, UNCHANGED vars PROVE Inv'
        OBVIOUS
      <3>1. TypeOK'
        BY DEF Inv, vars, counters, TypeOK
      <3>2. Aligned'
        BY DEF Inv, vars, Aligned, EndsAt
      <3>3. consumed' = consumed
        BY DEF vars, consumed
      <3>4. Judged'
        BY <3>3 DEF Inv, vars, Judged, Cuts
      <3>5. Counted'
        BY <3>3 DEF Inv, vars, counters, Counted, Newlines
      <3>6. QED
        BY <3>1, <3>2, <3>4, <3>5 DEF Inv
    <2>3. QED
      BY <2>1, <2>2
  <1>3. QED
    BY <1>1, <1>2, PTL DEF Spec

(* For every file and every way it is cut into chunks, what is carried over*)
(* stays shorter than a character.                                         *)
THEOREM Typing == Spec => []TypeOK
  <1>1. Inv => TypeOK
    BY DEF Inv
  <1>2. QED
    BY <1>1, Invariance, PTL

(* In strict mode it fails on the files that are not UTF-8, and no others, *)
(* wherever their chunks end.                                              *)
THEOREM StrictnessIsExact == Spec => []StrictRejectsInvalid
  <1>1. Init => StrictRejectsInvalid
    BY DEF Init, StrictRejectsInvalid, NoCounts
  <1>2. ASSUME Inv, StrictRejectsInvalid, Next
        PROVE  StrictRejectsInvalid'
    <2>1. TypeOK /\ Aligned /\ text' = text /\ strict_utf8' = strict_utf8
      BY <1>2, Consumption DEF Inv
    <2>2. ASSUME strict_utf8, consumed \in 0 .. Len(text) - 1,
                 Sequence(text, consumed + 1).kind # "valid"
          PROVE  ~ValidUtf8(text)
      <3>1. \A places \in SUBSET (0 .. Len(text)) : Cuts(places, text) => consumed \in places
        BY <1>2, <2>2 DEF Inv, Judged
      <3>2. consumed # Len(text)
        BY <2>1, <2>2, Places
      <3>3. QED
        BY <2>2, <3>1, <3>2 DEF ValidUtf8, Cuts
    <2>3. CASE InvalidSequence
      <3>1. At("invalid") /\ strict_utf8 = strict_utf8
        BY <2>3 DEF InvalidSequence
      <3>2. /\ consumed \in 0 .. Len(text) - 1
            /\ Sequence(text, consumed + 1).kind = "invalid"
        BY <2>1, <3>1, AtPlace
      <3>3. CASE strict_utf8
        <4>1. ~ValidUtf8(text) /\ result' = NoCounts("error")
          BY <2>2, <2>3, <3>2, <3>3 DEF InvalidSequence
        <4>2. QED
          BY <2>1, <3>3, <4>1 DEF StrictRejectsInvalid, NoCounts, ValidUtf8, Cuts
      <3>4. CASE ~strict_utf8
        <4>1. result' = result
          BY <2>3, <3>4 DEF InvalidSequence
        <4>2. QED
          BY <1>2, <2>1, <4>1 DEF StrictRejectsInvalid, ValidUtf8, Cuts
      <3>5. QED
        BY <3>3, <3>4
    <2>4. CASE EndOfFile
      <3>1. CASE strict_utf8 /\ carry = <<>>
        <4>1. consumed = Len(text)
          BY <2>1, <2>4, <3>1, AtEnd, Places, EmptySeq, ConsumedTyped
        <4>2. ValidUtf8(text)
          BY <1>2, <3>1, <4>1 DEF Inv, Judged, ValidUtf8, Cuts
        <4>3. result'.status = "ok"
          <5>1. result' = Counts(count_chars, last_byte) /\ count_chars \in Nat
            BY <2>1, <2>4, <3>1 DEF EndOfFile, TypeOK
          <5>2. QED
            BY <2>1, <5>1, CountsTyped
        <4>4. QED
          BY <2>1, <4>2, <4>3 DEF StrictRejectsInvalid, ValidUtf8, Cuts
      <3>2. CASE strict_utf8 /\ carry # <<>>
        <4>1. /\ consumed \in 0 .. Len(text) - 1
              /\ Sequence(text, consumed + 1).kind = "incomplete"
          BY <2>1, <2>4, <3>2, AtEnd, Places, ConsumedTyped
        <4>2. ~ValidUtf8(text)
          BY <2>2, <3>2, <4>1
        <4>3. result' = NoCounts("error")
          BY <2>4, <3>2 DEF EndOfFile
        <4>4. QED
          BY <2>1, <3>2, <4>2, <4>3 DEF StrictRejectsInvalid, NoCounts, ValidUtf8, Cuts
      <3>3. CASE ~strict_utf8
        <4>1. result'.status = "ok"
          <5>1. result' \in {Counts(count_chars, last_byte),
                             Counts(count_chars + 1, carry[Len(carry)])}
            BY <2>4, <3>3 DEF EndOfFile
          <5>2. count_chars \in Nat
            BY <2>1 DEF TypeOK
          <5>3. count_chars + 1 \in Nat
            BY <5>2
          <5>4. QED
            BY <2>1, <5>1, <5>2, <5>3, CountsTyped
        <4>2. QED
          BY <2>1, <3>3, <4>1 DEF StrictRejectsInvalid
      <3>4. QED
        BY <3>1, <3>2, <3>3
    <2>5. CASE ReadFails
      BY <2>1, <2>5 DEF ReadFails, StrictRejectsInvalid, NoCounts
    <2>6. CASE ReadChunk \/ ValidCharacter \/ CarryOver
      <3>1. result' = result
        BY <2>6 DEF ReadChunk, ValidCharacter, CarryOver
      <3>2. QED
        BY <1>2, <2>1, <3>1 DEF StrictRejectsInvalid, ValidUtf8, Cuts
    <2>7. QED
      BY <1>2, <2>3, <2>4, <2>5, <2>6 DEF Next
  <1>3. StrictRejectsInvalid /\ UNCHANGED vars => StrictRejectsInvalid'
    BY DEF vars, StrictRejectsInvalid, ValidUtf8, Cuts
  <1>4. QED
    BY <1>1, <1>2, <1>3, Invariance, PTL DEF Spec

(* The lines counted are those of lossy_lines, wherever the chunks end and *)
(* whatever the last line ends with.                                       *)
THEOREM LinesAreCounted == Spec => []LinesMatch
  <1>1. Init => LinesMatch
    BY DEF Init, LinesMatch, NoCounts
  <1>2. ASSUME Inv, LinesMatch, Next
        PROVE  LinesMatch'
    <2>1. TypeOK /\ Aligned /\ Counted /\ text' = text /\ text \in Seq(Bytes)
          /\ Len(text) \in Nat /\ LineEnds' = LineEnds
      BY <1>2, Consumption, Places DEF Inv, LineEnds
    <2>2. CASE EndOfFile /\ ~(strict_utf8 /\ carry # <<>>)
      <3> DEFINE last == IF carry = <<>> THEN last_byte ELSE carry[Len(carry)]
                 open == IF text # <<>> /\ text[Len(text)] # "lf"
                         THEN {Len(text) + 1} ELSE {}
      <3>1. result'.status = "ok"
            /\ result'.lines = count_newlines + (IF last # "lf" THEN 1 ELSE 0)
        <4>1. \E n \in {count_chars, count_chars + 1} : result' = Counts(n, last)
          BY <2>2 DEF EndOfFile
        <4>2. count_chars \in Nat
          BY <2>1 DEF TypeOK
        <4>3. \A n \in {count_chars, count_chars + 1} : n \in Nat
          BY <4>2
        <4>4. QED
          BY <2>1, <4>1, <4>3, CountsTyped
      <3>2. last = IF text = <<>> THEN "lf" ELSE text[Len(text)]
        <4>1. text = <<>> <=> Len(text) = 0
          BY <2>1, EmptySeq
        <4>2. CASE carry = <<>>
          <5>1. consumed = Len(text)
            BY <2>1, <2>2, <4>2, AtEnd, EmptySeq, ConsumedTyped
          <5>2. QED
            BY <2>1, <4>1, <4>2, <5>1 DEF Counted
        <4>3. CASE carry # <<>>
          <5>1. Len(carry) >= 1 /\ carry[Len(carry)] = text[Len(text)] /\ Len(text) # 0
            BY <2>1, <2>2, <4>3, AtEnd, ConsumedTyped, Places
          <5>2. QED
            BY <4>1, <4>3, <5>1
        <4>4. QED
          BY <4>2, <4>3
      <3>3. Newlines(Len(text)) = Newlines(consumed)
        <4>1. CASE carry = <<>>
          <5>1. consumed = Len(text)
            BY <2>1, <2>2, <4>1, AtEnd, EmptySeq, ConsumedTyped
          <5>2. QED
            BY <5>1
        <4>2. CASE carry # <<>>
          <5>1. /\ consumed + Len(carry) = Len(text) /\ Len(carry) >= 1
                /\ Sequence(text, consumed + 1).kind = "incomplete"
                /\ Sequence(text, consumed + 1).len = Len(carry)
                /\ consumed \in Nat /\ Len(carry) \in Nat
            BY <2>1, <2>2, <4>2, AtEnd, ConsumedTyped, Places
          <5>2. consumed + 1 \in 1 .. Len(text)
            BY <2>1, <5>1
          <5>3. \A k \in consumed + 1 .. Len(text) : text[k] # "lf"
            <6>1. /\ \A k \in consumed + 1 + 1 .. consumed + 1 + Len(carry) - 1 :
                        text[k] # "lf"
                  /\ text[consumed + 1] # "lf"
              BY <2>1, <5>1, <5>2, SequencePlain
            <6>2. \A k \in consumed + 1 .. Len(text) :
                    k = consumed + 1 \/ k \in consumed + 1 + 1 .. consumed + 1 + Len(carry) - 1
              BY <2>1, <5>1
            <6>3. QED
              BY <6>1, <6>2
          <5>4. \A k \in 1 .. Len(text) : k \in 1 .. consumed \/ k \in consumed + 1 .. Len(text)
            BY <2>1, <5>1
          <5>5. \A k \in 1 .. consumed : k \in 1 .. Len(text)
            BY <2>1, <5>1
          <5>6. QED
            BY <5>3, <5>4, <5>5 DEF Newlines
        <4>3. QED
          BY <4>1, <4>2
      <3>4. LineEnds = Newlines(Len(text)) \cup open
        BY DEF LineEnds, Newlines
      <3>5. /\ IsFiniteSet(Newlines(Len(text))) /\ Len(text) + 1 \notin Newlines(Len(text))
            /\ Cardinality(Newlines(Len(text))) \in Nat
        <4>1. IsFiniteSet(1 .. Len(text))
          BY <2>1, FS_Interval
        <4>2. IsFiniteSet(Newlines(Len(text)))
          BY <4>1, FS_Subset DEF Newlines
        <4>3. QED
          BY <2>1, <4>2, FS_CardinalityType DEF Newlines
      <3>6. Cardinality(LineEnds) =
              Cardinality(Newlines(Len(text))) + (IF last # "lf" THEN 1 ELSE 0)
        <4> HIDE DEF last
        <4>1. CASE last = "lf"
          <5>1. open = {}
            BY <3>2, <4>1
          <5>2. LineEnds = Newlines(Len(text))
            BY <3>4, <5>1
          <5>3. QED
            BY <3>5, <4>1, <5>2
        <4>2. CASE last # "lf"
          <5>1. LineEnds = Newlines(Len(text)) \cup {Len(text) + 1}
            BY <3>2, <3>4, <4>2
          <5>2. QED
            BY <3>5, <4>2, <5>1, FS_AddElement
        <4>3. QED
          BY <4>1, <4>2
      <3>7. QED
        BY <2>1, <3>1, <3>3, <3>6 DEF LinesMatch, Counted
    <2>3. CASE EndOfFile /\ strict_utf8 /\ carry # <<>>
      BY <2>3 DEF EndOfFile, LinesMatch, NoCounts
    <2>4. CASE ReadFails
      BY <2>4 DEF ReadFails, LinesMatch, NoCounts
    <2>5. CASE ReadChunk \/ ValidCharacter \/ InvalidSequence \/ CarryOver
      <3>1. result' = result \/ result' = NoCounts("error")
        BY <2>5 DEF ReadChunk, ValidCharacter, InvalidSequence, CarryOver
      <3>2. QED
        BY <1>2, <2>1, <3>1 DEF LinesMatch, NoCounts
    <2>6. QED
      BY <1>2, <2>2, <2>3, <2>4, <2>5 DEF Next
  <1>3. LinesMatch /\ UNCHANGED vars => LinesMatch'
    BY DEF vars, LinesMatch, LineEnds
  <1>4. QED
    BY <1>1, <1>2, <1>3, Invariance, PTL DEF Spec

----------------------------------------------------------------------------
(* What there is left to do: every byte unread may come back with up to    *)
(* three carried ones, so a byte read is a fifth of one unread.            *)
Rank == 5 * (Len(text) - file_offset) + (Len(data) - pos)

LEMMA RankStep ==
  ASSUME TypeOK, Aligned, Next
  PROVE  result'.status # "none" \/ (Rank' \in Nat /\ Rank' < Rank)
  <1>1. /\ text' = text
        /\ Len(text) \in Nat /\ Len(data) \in Nat /\ Len(carry) \in Nat
        /\ file_offset \in Nat /\ file_offset <= Len(text)
        /\ pos \in Nat /\ pos <= Len(data) /\ Len(carry) <= 3
    <2>1. Len(carry) <= 3
      BY DEF TypeOK
    <2>2. text' = text
      BY Consumption
    <2>3. QED
      BY <2>1, <2>2, Places
  <1>2. CASE ReadChunk
    <2>1. PICK n \in 1 .. Len(text) - file_offset :
            data' = carry \o Chunk(n) /\ file_offset' = file_offset + n
      BY <1>2 DEF ReadChunk
    <2>2. pos = Len(data) /\ pos' = 0
      BY <1>2 DEF ReadChunk
    <2>3. Len(data') = Len(carry) + n
      <3>1. file_offset' - file_offset = n
        BY <1>1, <2>1
      <3>2. QED
        BY <1>2, <3>1, ReadKeeps
    <2>4. /\ Rank = 5 * (Len(text) - file_offset)
          /\ Rank' = 5 * (Len(text) - (file_offset + n)) + (Len(carry) + n)
      BY <1>1, <2>1, <2>2, <2>3 DEF Rank
    <2>5. n \in Nat /\ n >= 1 /\ file_offset + n <= Len(text)
      BY <1>1, <2>1
    <2>6. QED
      BY <1>1, <2>4, <2>5
  <1>3. ASSUME pos' \in pos + 1 .. Len(data), UNCHANGED <<file_offset, data>>
        PROVE  Rank' \in Nat /\ Rank' < Rank
    BY <1>1, <1>3 DEF Rank
  <1>4. ASSUME NEW kind, At(kind), Skip
        PROVE  pos' \in pos + 1 .. Len(data)
    <2> DEFINE n == Sequence(data, pos + 1).len
    <2>1. n \in 1 .. Len(data) - pos
      BY <1>4, AtPlace
    <2>2. pos' = pos + n
      BY <1>4 DEF Skip
    <2> HIDE DEF n
    <2>3. QED
      BY <1>1, <2>1, <2>2
  <1>5. CASE CarryOver
    <2>1. pos' \in pos + 1 .. Len(data)
      BY <1>1, <1>5 DEF CarryOver, At
    <2>2. QED
      BY <1>3, <1>5, <2>1 DEF CarryOver
  <1>6. CASE ValidCharacter
    BY <1>3, <1>4, <1>6 DEF ValidCharacter
  <1>7. CASE InvalidSequence
    BY <1>3, <1>4, <1>7 DEF InvalidSequence, NoCounts
  <1>8. CASE ReadFails
    BY <1>8 DEF ReadFails, NoCounts
  <1>9. CASE EndOfFile
    <2>1. \A chars, last : Counts(chars, last).status = "ok"
      BY DEF Counts
    <2>2. NoCounts("error").status = "error"
      BY DEF NoCounts
    <2>3. QED
      BY <1>9, <2>1, <2>2 DEF EndOfFile
  <1>10. QED
    BY <1>2, <1>5, <1>6, <1>7, <1>8, <1>9 DEF Next

(* compute_text_stats always returns: an incomplete sequence is carried    *)
(* into the next chunk only together with bytes that were not there before,*)
(* so no file and no way to cut it keeps the loop going round.             *)
THEOREM StatsRunOut ==
  Spec => [][result'.status # "none" \/ (Rank' \in Nat /\ Rank' < Rank)]_vars
  <1>1. TypeOK /\ Aligned /\ Next =>
          result'.status # "none" \/ (Rank' \in Nat /\ Rank' < Rank)
    BY RankStep
  <1>2. QED
    BY <1>1, Invariance, PTL DEF Spec, Inv
============================================================================
