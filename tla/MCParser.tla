------------------------------- MODULE MCParser -------------------------------
(***************************************************************************)
(* Messages for Parser: without content, of fixed length, chunked, answers *)
(* to HEAD, and malformed ones, with sizes at the end of std::size_t too.  *)
(***************************************************************************)
EXTENDS Parser, SequencesExt

MCLengths == [L0 |-> 0, L1 |-> 1, L2 |-> 2, L3 |-> 3, LInvalid |-> kInvalidLength]
MCSizes ==
  [D0 |-> 0, D1 |-> 1, D2 |-> 2, DWhole |-> SizeMax - 3, DZero |-> SizeMax - 2,
   DInvalid |-> kInvalidLength]

Line(text) == <<text>> \o CRLF

Message(lines, payload, body, head, ok) ==
  [bytes |-> FlattenSeq([i \in 1..Len(lines) |-> Line(lines[i])]) \o CRLF \o payload,
   body |-> body, head |-> head, ok |-> ok]

Fixed(length, body) == Message(<<"S", "Other", length>>, body, body, FALSE, TRUE)

Chunk(size, data) == Line(size) \o data \o CRLF

MCMessages ==
  { Message(<<"S">>, <<>>, <<>>, FALSE, TRUE),
    Fixed("L0", <<>>),
    Fixed("L3", <<"a", "CR", "LF">>),
    Message(<<"S", "L2">>, <<>>, <<>>, TRUE, TRUE),
    Message(<<"S", "Chunked">>,
            Chunk("D2", <<"CR", "LF">>) \o Chunk("D1", <<"a">>) \o Line("D0") \o CRLF,
            <<"CR", "LF", "a">>, FALSE, TRUE),
    Message(<<"S", "Chunked">>, Line("Other"), <<>>, FALSE, FALSE),
    Message(<<"S", "Chunked">>, Chunk("DWhole", <<"a">>), <<>>, FALSE, FALSE),
    Message(<<"S", "Chunked">>, Chunk("DZero", <<"a">>), <<>>, FALSE, FALSE),
    Message(<<"S", "Chunked">>, Chunk("DInvalid", <<"a">>) \o Line("D0"), <<>>, FALSE, FALSE),
    Message(<<"S", "LInvalid">>, <<"a">>, <<>>, FALSE, FALSE),
    Message(<<"S", "L1">>, <<"a">>, <<"a">>, FALSE, FALSE),
    Message(<<"S", "Bad">>, <<>>, <<>>, FALSE, FALSE),
    Message(<<"Bad">>, <<>>, <<>>, FALSE, FALSE) }

=============================================================================
