--------------------------------- MODULE Url ---------------------------------
(***************************************************************************)
(* URLs and their queries, webcc/url.cc.  A character is its code.         *)
(***************************************************************************)
EXTENDS Strings, SequencesExt

Percent == 37
Ampersand == 38
Slash == 47
Colon == 58
Equal == 61
Question == 63

-----------------------------------------------------------------------------
(* Percent-encoding *)

IsHex(c) == c \in 48..57 \cup 65..70 \cup 97..102
HexToDecimal(c) ==
  IF c <= 57 THEN c - 48 ELSE IF c <= 70 THEN 10 + (c - 65) ELSE 10 + (c - 97)
kHex(d) == IF d < 10 THEN 48 + d ELSE 65 + (d - 10)

\* Decode() succeeds if two hexadecimal digits follow each '%' and the rest is
\* ASCII.
CanDecode(encoded) ==
  \A i \in DOMAIN encoded :
    IF encoded[i] = Percent
    THEN i + 2 <= Len(encoded) /\ IsHex(encoded[i + 1]) /\ IsHex(encoded[i + 2])
    ELSE encoded[i] <= 127

IsEscaped(encoded, i) == \E j \in {i - 1, i - 2} : j \in DOMAIN encoded /\ encoded[j] = Percent

Decode(encoded) ==
  FlattenSeq([i \in DOMAIN encoded |->
    IF encoded[i] = Percent
    THEN <<16 * HexToDecimal(encoded[i + 1]) + HexToDecimal(encoded[i + 2])>>
    ELSE IF IsEscaped(encoded, i) THEN <<>> ELSE <<encoded[i]>>])

DecodeUnsafe(encoded) == IF CanDecode(encoded) THEN Decode(encoded) ELSE encoded

\* should_encode() is true of all characters but those in plain.
EncodeImpl(raw, plain) ==
  FlattenSeq([i \in DOMAIN raw |->
    IF raw[i] \in plain THEN <<raw[i]>>
    ELSE <<Percent, kHex(raw[i] \div 16), kHex(raw[i] % 16)>>])

AlNum == 48..57 \cup 65..90 \cup 97..122
Unreserved == AlNum \cup {45, 46, 95, 126}                     \* - . _ ~
GenDelim == {58, 47, 63, 35, 91, 93, 64}                       \* : / ? # [ ] @
SubDelim == {33, 36, 38, 39, 40, 41, 42, 43, 44, 59, 61}       \* ! $ & ' ( ) * + , ; =
Reserved == GenDelim \cup SubDelim
PathChar == Unreserved \cup SubDelim \cup {37, 47, 58, 64}     \* % / : @
QueryChar == PathChar \cup {63}                                \* ?

EncodePath(s) == EncodeImpl(s, PathChar \ {37, 43})
EncodeFull(s) == EncodeImpl(s, Unreserved \cup Reserved)

\* Seeded bug: '%' is taken for the beginning of an escape.
EncodeQueryKeepsPercent(s) == EncodeImpl(s, QueryChar \ {43})

EncodeQuery(s) == EncodeImpl(s, QueryChar \ {37, 43})

-----------------------------------------------------------------------------
(* Url *)

\* Parse(): "://" and '/' are looked for in all of the string.
ParseUrl(str) ==
  LET tmp == ltrim(str, {9, 32})
      p == find(tmp, <<Colon, Slash, Slash>>)
      rest == IF p = npos THEN tmp ELSE from(tmp, p + 3)
      slash == find(rest, <<Slash>>)
      tail == IF slash = npos THEN rest ELSE from(rest, slash)
      q == find(tail, <<Question>>)
      front == IF q = npos THEN tail ELSE before(tail, q)
      host == IF slash = npos THEN front ELSE before(rest, slash)
      colon == find(host, <<Colon>>)
  IN  [scheme |-> IF p = npos THEN <<>> ELSE before(tmp, p),
       host |-> IF colon = npos THEN host ELSE before(host, colon),
       port |-> IF colon = npos THEN <<>> ELSE from(host, colon + 1),
       path |-> IF slash = npos THEN <<>> ELSE front,
       query |-> IF q = npos THEN <<>> ELSE from(tail, q + 1)]

NewUrl(str, encode) == ParseUrl(IF encode THEN EncodeFull(str) ELSE str)

\* There is one slash between the path and the piece; a piece of "/" is ignored.
AppendPath(url, piece, encode) ==
  LET kept == IF url.path = <<Slash>> THEN <<>> ELSE url.path
      slashes == (IF kept # <<>> /\ Last(kept) = Slash THEN 1 ELSE 0)
                   + (IF Head(piece) = Slash THEN 1 ELSE 0)
      joined == CASE slashes = 0 -> Append(kept, Slash)
                  [] slashes = 1 -> kept
                  [] slashes = 2 -> Front(kept)
  IN  IF piece \in {<<>>, <<Slash>>} THEN url
      ELSE [url EXCEPT !.path = joined \o (IF encode THEN EncodePath(piece) ELSE piece)]

AppendQuery(url, key, value, encode) ==
  [url EXCEPT !.query =
     (IF @ = <<>> THEN <<>> ELSE Append(@, Ampersand))
       \o (IF encode THEN EncodeQuery(key) \o <<Equal>> \o EncodeQuery(value)
           ELSE key \o <<Equal>> \o value)]

-----------------------------------------------------------------------------
(* UrlQuery: parameters as pairs of a key and a value *)

UrlQuery(encoded_str) ==
  LET pairs == split(encoded_str, Ampersand, FALSE)
      Parameter(kv) == LET p == split_kv(kv, Equal)
                       IN  <<DecodeUnsafe(p[1]), DecodeUnsafe(p[2])>>
  IN  FlattenSeq([i \in DOMAIN pairs |->
        IF has_kv(pairs[i], Equal) THEN <<Parameter(pairs[i])>> ELSE <<>>])

FindParameter(query, key) == {i \in DOMAIN query : query[i][1] = key}

\* Get(), the first value of the key.
GetParameter(query, key) ==
  LET found == FindParameter(query, key)
  IN  IF found = {} THEN <<>> ELSE query[Min(found)][2]

AddParameter(query, key, value) ==
  IF FindParameter(query, key) = {} THEN Append(query, <<key, value>>) ELSE query

RemoveParameter(query, key) ==
  LET found == FindParameter(query, key)
  IN  IF found = {} THEN query ELSE RemoveAt(query, Min(found))

\* ToString() encodes the pairs after they were joined.
QueryToString(query) ==
  EncodeQuery(FlattenSeq([i \in DOMAIN query |->
    (IF i = 1 THEN <<>> ELSE <<Ampersand>>) \o query[i][1] \o <<Equal>> \o query[i][2]]))

=============================================================================
