------------------------------- MODULE Ascii85 -------------------------------
(***************************************************************************)
(* The encoding of dse/clib/util/ascii85.c: words of four bytes become     *)
(* five digits, or one "z" if they are all zero.  A byte and a digit are   *)
(* numbers below ByteBase and DigitBase, 256 and 85 in the code; smaller   *)
(* ones that stand in the same relations show the same.                    *)
(***************************************************************************)
EXTENDS Integers, Sequences, SequencesExt

CONSTANTS
  ByteBase, DigitBase,
  Z,          (* the "z", a character above the last digit                 *)
  Sources     (* byte sequences to encode                                  *)

(* The words of a uint32_t, and what five digits can tell apart.           *)
Words == ByteBase * ByteBase * ByteBase * ByteBase
ASSUME BasesAssumption ==
  /\ ByteBase \in Nat \ {0} /\ DigitBase \in Nat \ {0} /\ DigitBase <= ByteBase
  /\ Words <= DigitBase * DigitBase * DigitBase * DigitBase * DigitBase
ASSUME ZAssumption == Z \notin 0..DigitBase - 1
ASSUME SourcesAssumption ==
  \A s \in Sources : s \in Seq(0..ByteBase - 1)

VARIABLES
  source,     (* the bytes to encode                                       *)
  ascii,      (* the result of dse_ascii85_encode                          *)
  decoded     (* that of dse_ascii85_decode on it, once it was called      *)

asciiVars == <<source, ascii, decoded>>

Missing(s, unit) == (unit - (Len(s) % unit)) % unit
Padded(s, unit, filler) == s \o [i \in 1..Missing(s, unit) |-> filler]
Without(s, count) == SubSeq(s, 1, Len(s) - count)

(* A word is multiplied together from its first digit on, and taken apart  *)
(* by divisions from its last.                                             *)
Composed(digits, base) ==
  LET value[i \in 0..Len(digits)] == IF i = 0 THEN 0 ELSE value[i - 1] * base + digits[i]
  IN value[Len(digits)]
Digits(x, base, count) ==
  LET rest[i \in 0..count] == IF i = 0 THEN x ELSE rest[i - 1] \div base
  IN [i \in 1..count |-> rest[count - i] % base]

(* dse_ascii85_encode: a word of zeros is short if a whole word follows.   *)
IsShortAlways(x, left) == x = 0
IsShort(x, left) == x = 0 /\ left >= 4
Encode(s) ==
  LET full == Padded(s, 4, 0)
      word(i) == Composed(SubSeq(full, 4 * i - 3, 4 * i), ByteBase)
      code(i) == IF IsShort(word(i), Len(s) - 4 * i) THEN <<Z>>
                 ELSE Digits(word(i), DigitBase, 5)
      codes == FlattenSeq([i \in 1..Len(full) \div 4 |-> code(i)])
  IN Without(codes, Missing(s, 4))

(* dse_ascii85_decode: a "z" is worth five characters of what is filled up *)
(* with "u", the last digit.                                               *)
Worth(char) == IF char = Z THEN <<0, 0, 0, 0, 0>> ELSE <<char>>
Long(chars) == FlattenSeq([i \in 1..Len(chars) |-> Worth(chars[i])])
Decode(chars) ==
  LET full == Padded(Long(chars), 5, DigitBase - 1)
      word(i) == Composed(SubSeq(full, 5 * i - 4, 5 * i), DigitBase) % Words
      bytes == FlattenSeq([i \in 1..Len(full) \div 5 |-> Digits(word(i), ByteBase, 4)])
  IN Without(bytes, Missing(Long(chars), 5))

DseAscii85Encode ==
  /\ ascii' = Encode(source)
  /\ UNCHANGED <<source, decoded>>
DseAscii85Decode ==
  /\ decoded' = <<Decode(ascii)>>
  /\ UNCHANGED <<source, ascii>>

(* The first call encodes, the second decodes what the first returned.     *)
AsciiInit == source \in Sources /\ ascii = <<>> /\ decoded = <<>>
AsciiNext == IF ascii = <<>> THEN DseAscii85Encode ELSE DseAscii85Decode

-----------------------------------------------------------------------------
(* Properties.                                                             *)

(* What was encoded is decoded again, also when it ends in a part of a     *)
(* word, in zeros, or in both (test_ascii85.c).                            *)
RoundTrips == decoded \in {<<>>, <<source>>}

=============================================================================
