----------------------------- MODULE TextStats -----------------------------
(***************************************************************************)
(* `compute_text_stats` of src/src/bin/oneio.rs: count the lines and the   *)
(* characters of a file read chunk by chunk, where a chunk may end inside  *)
(* a character or between CR and LF.  The counts must be those of the line *)
(* iterator of the library, `lossy_lines` of src/src/client.rs, which sees *)
(* whole lines.                                                            *)
(*                                                                         *)
(* A byte is its class: LF, CR, another ASCII character, the first byte of *)
(* a sequence of 2, 3 or 4, or a continuation byte (alone: invalid).       *)
(*                                                                         *)
(* A definition marked "Slip" is no part of the model: it is the definition*)
(* that follows with a plausible mistake, kept to show which property      *)
(* would notice it.                                                        *)
(***************************************************************************)
EXTENDS Integers, Sequences, FiniteSets

CONSTANTS
  Bytes,      \* the classes of bytes a file may have
  MaxLength   \* bound: the length of a file

AllBytes == {"lf", "cr", "ascii", "lead2", "lead3", "lead4", "cont"}

ASSUME BytesAssumption == Bytes \subseteq AllBytes /\ Bytes # {}

ASSUME BoundsAssumption == MaxLength \in Nat

VARIABLES
  text,           \* the file
  strict_utf8,    \* the argument
  file_offset,    \* bytes read so far
  data,           \* `combined`: the carried bytes and the chunk
  pos,            \* how much of it is consumed
  carry,          \* an incomplete sequence at the end of the last chunk
  count_newlines, count_crlf, count_chars,
  last_byte,
  prev_was_cr,
  result          \* what it returned

counters == <<count_newlines, count_crlf, count_chars, last_byte, prev_was_cr>>
vars == <<text, strict_utf8, file_offset, data, pos, carry, counters, result>>

----------------------------------------------------------------------------
(* std::str::from_utf8 and from_utf8_lossy.                                *)

(* How many continuation bytes a first byte asks for.                      *)
Follow == [b \in AllBytes |->
  CASE b = "lead2" -> 1 [] b = "lead3" -> 2 [] b = "lead4" -> 3 [] OTHER -> 0]

(* What the bytes of s from place i on begin with: a character, an invalid *)
(* sequence, or one that the end of s leaves incomplete; and its length.   *)
Sequence(s, i) ==
  LET most == CHOOSE n \in 0 .. Follow[s[i]] :
                /\ \A k \in i + 1 .. i + n : k <= Len(s) /\ s[k] = "cont"
                /\ \/ n = Follow[s[i]] \/ i + n = Len(s) \/ s[i + n + 1] # "cont"
  IN  [len |-> most + 1,
       kind |-> CASE s[i] = "cont" -> "invalid"
                  [] s[i] # "cont" /\ most = Follow[s[i]] -> "valid"
                  [] s[i] # "cont" /\ most < Follow[s[i]] /\ i + most = Len(s) -> "incomplete"
                  [] OTHER -> "invalid"]

(* The characters from_utf8_lossy makes of s, by their first bytes: one for*)
(* each character and one U+FFFD for each invalid or incomplete sequence;  *)
(* a byte that an earlier sequence takes in begins none.                   *)
Characters(s) ==
  {i \in 1 .. Len(s) : \A j \in 1 .. i - 1 : j + Sequence(s, j).len <= i}

(* Whether s can be cut at these places into nothing but characters: a cut *)
(* at i is behind the byte i.                                              *)
Cuts(places, s) ==
  /\ 0 \in places
  /\ \A i \in places \ {Len(s)} :
       Sequence(s, i + 1).kind = "valid" /\ i + Sequence(s, i + 1).len \in places

(* from_utf8 accepts all of s.                                             *)
ValidUtf8(s) == \E places \in SUBSET (0 .. Len(s)) : Cuts(places, s)

----------------------------------------------------------------------------
(* compute_text_stats.                                                     *)

NoCounts(status) == [status |-> status, lines |-> 0, chars |-> 0]

Init ==
  /\ text \in UNION {[1 .. n -> Bytes] : n \in 0 .. MaxLength}
  /\ strict_utf8 \in BOOLEAN
  /\ file_offset = 0 /\ data = <<>> /\ pos = 0 /\ carry = <<>>
  /\ count_newlines = 0 /\ count_crlf = 0 /\ count_chars = 0
  /\ last_byte = "lf" /\ prev_was_cr = FALSE
  /\ result = NoCounts("none")

Running == result.status = "none"

Chunk(n) == SubSeq(text, file_offset + 1, file_offset + n)

(* reader.read gives n bytes; they follow what was carried over.           *)
ReadChunk ==
  /\ Running /\ pos = Len(data)
  /\ \E n \in 1 .. Len(text) - file_offset :
       /\ data' = carry \o Chunk(n)
       /\ file_offset' = file_offset + n
  /\ pos' = 0 /\ carry' = <<>>
  /\ UNCHANGED <<text, strict_utf8, counters, result>>

(* reader.read fails.                                                      *)
ReadFails ==
  /\ Running /\ pos = Len(data)
  /\ result' = NoCounts("read error")
  /\ UNCHANGED <<text, strict_utf8, file_offset, data, pos, carry, counters>>

(* The sequence at pos, if there is one.                                   *)
At(kind) == Running /\ pos < Len(data) /\ Sequence(data, pos + 1).kind = kind

Skip == pos' = pos + Sequence(data, pos + 1).len

(* A valid character, its newline counted as count_eols does.              *)
ValidCharacter ==
  /\ At("valid")
  /\ Skip
  /\ LET b == data[pos + Sequence(data, pos + 1).len]
     IN  /\ count_newlines' = count_newlines + (IF b = "lf" THEN 1 ELSE 0)
         /\ count_crlf' = count_crlf + (IF b = "lf" /\ prev_was_cr THEN 1 ELSE 0)
         /\ last_byte' = b
         /\ prev_was_cr' = (b = "cr")
  /\ count_chars' = count_chars + 1
  /\ UNCHANGED <<text, strict_utf8, file_offset, data, carry, result>>

(* An invalid sequence: an error, or one replacement character.            *)
InvalidSequence ==
  /\ At("invalid")
  /\ IF strict_utf8
     THEN result' = NoCounts("error") /\ UNCHANGED <<pos, counters>>
     ELSE /\ Skip
          /\ count_chars' = count_chars + 1
          /\ last_byte' = data[pos + Sequence(data, pos + 1).len]
          /\ prev_was_cr' = FALSE
          /\ UNCHANGED <<count_newlines, count_crlf, result>>
  /\ UNCHANGED <<text, strict_utf8, file_offset, data, carry>>

(* Slip: the whole chunk is carried over.                                  *)
CarryChunk ==
  /\ At("incomplete")
  /\ carry' = data
  /\ pos' = Len(data)
  /\ UNCHANGED <<text, strict_utf8, file_offset, data, counters, result>>

(* Slip: the incomplete sequence is replaced where the chunk ends.         *)
ReplaceAtChunkEnd ==
  /\ At("incomplete")
  /\ count_chars' = count_chars + 1
  /\ last_byte' = data[Len(data)]
  /\ pos' = Len(data)
  /\ UNCHANGED <<text, strict_utf8, file_offset, data, carry, count_newlines,
                 count_crlf, prev_was_cr, result>>

(* An incomplete sequence at the end of the chunk waits for the next one.  *)
CarryOver ==
  /\ At("incomplete")
  /\ carry' = SubSeq(data, pos + 1, Len(data))
  /\ pos' = Len(data)
  /\ UNCHANGED <<text, strict_utf8, file_offset, data, counters, result>>

(* The two counts from the counters at the end of the file.                *)
Counts(chars, last) ==
  [status |-> "ok",
   lines |-> count_newlines + (IF last # "lf" THEN 1 ELSE 0),
   chars |-> LET ends == count_newlines + count_crlf
             IN  IF chars < ends THEN 0 ELSE chars - ends]

(* Slip: what is carried over at the end of the file is forgotten.         *)
EndOfFileDropsCarry ==
  /\ Running /\ pos = Len(data) /\ file_offset = Len(text)
  /\ result' = Counts(count_chars, last_byte)
  /\ UNCHANGED <<text, strict_utf8, file_offset, data, pos, carry, counters>>

(* Slip: the last byte of the file is taken to be the last one consumed.   *)
EndOfFileKeepsLast ==
  /\ Running /\ pos = Len(data) /\ file_offset = Len(text)
  /\ result' = IF carry = <<>> THEN Counts(count_chars, last_byte)
               ELSE IF strict_utf8 THEN NoCounts("error")
               ELSE Counts(count_chars + 1, last_byte)
  /\ UNCHANGED <<text, strict_utf8, file_offset, data, pos, carry, counters>>

(* reader.read gives 0: settle what is carried over and count.             *)
EndOfFile ==
  /\ Running /\ pos = Len(data) /\ file_offset = Len(text)
  /\ result' = IF carry = <<>> THEN Counts(count_chars, last_byte)
               ELSE IF strict_utf8 THEN NoCounts("error")
               ELSE Counts(count_chars + 1, carry[Len(carry)])
  /\ UNCHANGED <<text, strict_utf8, file_offset, data, pos, carry, counters>>

Next ==
  \/ ReadChunk \/ ReadFails \/ EndOfFile
  \/ ValidCharacter \/ InvalidSequence \/ CarryOver

Spec == Init /\ [][Next]_vars

----------------------------------------------------------------------------
(* lossy_lines.                                                            *)

(* Where its lines end: at each LF, and at the end of the file.            *)
LineEnds ==
  {i \in 1 .. Len(text) : text[i] = "lf"} \cup
  (IF text # <<>> /\ text[Len(text)] # "lf" THEN {Len(text) + 1} ELSE {})

(* Where the line that ends at e begins, and its last byte without LF or  *)
(* CR LF.                                                                  *)
LineStart(e) ==
  CHOOSE i \in 1 .. e : /\ i = 1 \/ text[i - 1] = "lf"
                        /\ \A k \in i .. e - 1 : text[k] # "lf"

LineStop(e) ==
  IF e <= Len(text) /\ LineStart(e) < e /\ text[e - 1] = "cr" THEN e - 2 ELSE e - 1

LineTo(e) == SubSeq(text, LineStart(e), LineStop(e))

(* The characters of its lines: with the line's end, the place in the line.*)
LineCharacters == UNION {{e} \X Characters(LineTo(e)) : e \in LineEnds}

----------------------------------------------------------------------------
(* Type invariant; what is carried over is shorter than a character, as    *)
(* the capacity of `combined` expects.                                     *)
TypeOK ==
  /\ text \in Seq(Bytes) /\ strict_utf8 \in BOOLEAN
  /\ file_offset \in 0 .. Len(text)
  /\ data \in Seq(Bytes) /\ pos \in 0 .. Len(data)
  /\ carry \in Seq(Bytes) /\ Len(carry) <= 3
  /\ count_newlines \in Nat /\ count_crlf \in Nat /\ count_chars \in Nat
  /\ last_byte \in AllBytes /\ prev_was_cr \in BOOLEAN
  /\ result \in [status : {"none", "ok", "error", "read error"}, lines : Nat, chars : Nat]

(* "Matches BufReader::lines() semantics": wherever the chunks end, the    *)
(* lines counted are those of lossy_lines, one without an end among them.  *)
LinesMatch == result.status = "ok" => result.lines = Cardinality(LineEnds)

(* "The same way to_lines_lossy does": the characters counted are those of *)
(* the lines of lossy_lines, without LF or CR LF wherever a chunk ends, and*)
(* with one for each sequence it replaces.                                 *)
CharsMatch ==
  result.status = "ok" => result.chars = Cardinality(LineCharacters)

(* "When strict_utf8 is true, returns Err on the first invalid UTF-8       *)
(* sequence or incomplete sequence at EOF": an error exactly when it is    *)
(* asked for and the file as a whole is not UTF-8.                         *)
StrictRejectsInvalid ==
  /\ result.status = "error" => strict_utf8 /\ ~ValidUtf8(text)
  /\ result.status = "ok" /\ strict_utf8 => ValidUtf8(text)
============================================================================
