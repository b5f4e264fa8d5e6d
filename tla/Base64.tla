-------------------------------- MODULE Base64 --------------------------------
(***************************************************************************)
(* Base64 as webcc/base64.cc has it, over the codes of characters.         *)
(***************************************************************************)
EXTENDS Strings, SequencesExt

\* kAlphabet, A-Z a-z 0-9 + /, and kInverse, which has -1 for other characters.
kAlphabet(i) ==
  CASE i < 26 -> 65 + i [] i \in 26..51 -> 97 + (i - 26) [] i \in 52..61 -> 48 + (i - 52)
    [] i = 62 -> 43 [] i = 63 -> 47
kInverse(c) ==
  CASE c \in 65..90 -> c - 65 [] c \in 97..122 -> 26 + (c - 97) [] c \in 48..57 -> 52 + (c - 48)
    [] c = 43 -> 62 [] c = 47 -> 63 [] OTHER -> -1

Pad == 61

DecodedSize(n) == (n \div 4) * 3

\* One to three bytes.
EncodeGroup(g) ==
  LET Byte(i) == IF i <= Len(g) THEN g[i] ELSE 0
      sextets == <<Byte(1) \div 4,
                   (Byte(1) % 4) * 16 + Byte(2) \div 16,
                   (Byte(2) % 16) * 4 + Byte(3) \div 64,
                   Byte(3) % 64>>
  IN  [i \in 1..4 |-> IF i <= Len(g) + 1 THEN kAlphabet(sextets[i]) ELSE Pad]

Base64Encode(s) ==
  LET groups == pieces(s, 3) IN FlattenSeq([k \in DOMAIN groups |-> EncodeGroup(groups[k])])

\* Two to four characters; one alone gives nothing.
DecodeGroup(c4) ==
  LET C(i) == IF i <= Len(c4) THEN c4[i] ELSE 0
      c3 == <<(C(1) * 4 + C(2) \div 16) % 256,
              (C(2) % 16) * 16 + C(3) \div 4,
              (C(3) % 4) * 64 + C(4)>>
  IN  SubSeq(c3, 1, Len(c4) - 1)

\* The characters up to the first that is padding or not in the alphabet.
Base64Decode(s) ==
  LET stops == {i \in DOMAIN s : kInverse(s[i]) = -1} \cup {Len(s) + 1}
      sextets == [i \in 1..(Min(stops) - 1) |-> kInverse(s[i])]
      groups == pieces(sextets, 4)
  IN  FlattenSeq([k \in DOMAIN groups |-> DecodeGroup(groups[k])])

=============================================================================
