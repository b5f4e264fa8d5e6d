--------------------------------- MODULE Gzip ---------------------------------
(***************************************************************************)
(* gzip::Compress() and gzip::Decompress(), webcc/gzip.cc: the loops that  *)
(* carry the stream of zlib through a buffer of limited size.  zlib itself *)
(* is external: the stream it makes of some data can be told from data.    *)
(* All sizes fit zlib's uInt, that is, data has less than 4 GiB: the casts *)
(* of longer sizes to uInt are not modelled.                               *)
(***************************************************************************)
EXTENDS Integers, Sequences, FiniteSetsExt

\* zlib: the stream for some data, whether something is one, and its data.
Deflated(data) == <<"gz", data>>
IsStream(s) == s[1] = "gz"
Inflated(s) == s[2]

\* deflate() fails without room: the buffer has half the size of the input.
CanCompress(input) == input = <<>> \/ Len(input) \div 2 > 0

\* Pieces of the size of the buffer until one does not fill it.
Compress(input) ==
  LET stream == Deflated(input)
      size == Len(input) \div 2
      Output[done \in 0..Len(stream)] ==
        LET n == Min({size, Len(stream) - done})
            piece == SubSeq(stream, done + 1, done + n)
        IN  IF n = size THEN piece \o Output[done + n] ELSE piece
  IN  IF input = <<>> THEN <<>> ELSE Output[0]

\* The data that inflate() puts into a buffer that grows by half the size of the
\* input whenever it is full; inflate() fails without room.
DecompressedSize(input) ==
  LET data == Inflated(input)
      Total[p \in Nat \X Nat] ==
        LET total_out == p[1]
            size == p[2]
            room == IF total_out >= size THEN size + Len(input) \div 2 ELSE size
            next == Min({room, Len(data)})
        IN  IF room = total_out THEN -1
            ELSE IF next < room THEN next ELSE Total[<<next, room>>]
  IN  Total[<<0, Len(input)>>]

CanDecompress(input) == input = <<>> \/ (IsStream(input) /\ DecompressedSize(input) # -1)
Decompress(input) ==
  IF input = <<>> THEN <<>> ELSE SubSeq(Inflated(input), 1, DecompressedSize(input))

=============================================================================
