--------------------------------- MODULE Lines ---------------------------------
(***************************************************************************)
(* Lines in the pending data of a parser, Parser::GetNextLine().           *)
(***************************************************************************)
EXTENDS Naturals, Sequences

CRLF == <<"CR", "LF">>

\* The bytes of s without the first n.
Erase(s, n) == SubSeq(s, n + 1, Len(s))

\* Where s has a CRLF.
LineEnds(s) == {i \in 1..(Len(s) - 1) : SubSeq(s, i, i + 1) = CRLF}

\* GetNextLine(): the bytes before the first CRLF, if there is one.
HasLine(s) == LineEnds(s) # {}
LineOf(s) ==
  LET pos == CHOOSE i \in LineEnds(s) : \A j \in LineEnds(s) : i <= j
  IN  SubSeq(s, 1, pos - 1)
AfterLine(s) == Erase(s, Len(LineOf(s)) + 2)

=============================================================================
