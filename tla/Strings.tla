------------------------------- MODULE Strings -------------------------------
(***************************************************************************)
(* The helpers on strings, webcc/string.h and string.cc.  A string is a    *)
(* sequence: of the codes of its characters in Url and Base64, of tokens   *)
(* in the values of headers, where nothing depends on single characters.   *)
(***************************************************************************)
EXTENDS Integers, Sequences

npos == 0

\* Where t is in s, and the first of these places.
Places(s, t) == {i \in 1..(Len(s) - Len(t) + 1) : SubSeq(s, i, i + Len(t) - 1) = t}
FirstOf(at) == IF at = {} THEN npos ELSE CHOOSE i \in at : \A j \in at : i <= j

find(s, t) == FirstOf(Places(s, t))

\* What is before position i, and what is from there on.
before(s, i) == SubSeq(s, 1, i - 1)
from(s, i) == SubSeq(s, i, Len(s))

ltrim(s, chars) ==
  LET others == {i \in DOMAIN s : s[i] \notin chars}
  IN  IF others = {} THEN <<>> ELSE from(s, CHOOSE i \in others : \A j \in others : i <= j)

\* split(): repeated delimiters count once if compress_token is set, except that
\* the string may begin or end with one.
split(s, delim, compress_token) ==
  LET Skip[p \in 1..(Len(s) + 1)] ==
        IF compress_token /\ p <= Len(s) /\ s[p] = delim THEN Skip[p + 1] ELSE p
      Parts[p \in 1..(Len(s) + 1)] ==
        LET i == find(from(s, p), <<delim>>)
        IN  IF i = npos THEN <<from(s, p)>>
            ELSE <<SubSeq(s, p, p + i - 2)>> \o Parts[Skip[p + i]]
  IN  Parts[1]

\* split_kv(): it fails without a delimiter.
has_kv(s, delim) == find(s, <<delim>>) # npos
split_kv(s, delim) == <<before(s, find(s, <<delim>>)), from(s, find(s, <<delim>>) + 1)>>

\* s cut into pieces of n.
pieces(s, n) ==
  [k \in 1..((Len(s) + n - 1) \div n) |->
     SubSeq(s, n * (k - 1) + 1, IF n * k <= Len(s) THEN n * k ELSE Len(s))]

=============================================================================
