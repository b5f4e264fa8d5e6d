----------------------------- MODULE MCExchange -----------------------------
(***************************************************************************)
(* Exchange with URLs, parameters, bodies, headers and credentials small   *)
(* enough for TLC, each with what its conversions have trouble with.       *)
(***************************************************************************)
EXTENDS Exchange

MCUpper(c) ==
  CASE c = "connection" -> "CONNECTION" [] c = "Connection" -> "CONNECTION"
    [] c = "keep-alive" -> "KEEP-ALIVE" [] c = "Keep-Alive" -> "KEEP-ALIVE" [] OTHER -> c

kGet == <<71>>
kPost == <<80>>

\* "s://h" and what follows.
OnHost(target) == <<115, 58, 47, 47, 104>> \o target

\* A session with credentials, a content type and another encoding.
ASession ==
  [SessionAuthBasic(NewSession, <<97>>, <<98>>) EXCEPT
     !.headers = SetHeader(@, "Accept-Encoding", <<"identity">>),
     !.media_type = <<"text/plain">>, !.charset = <<"utf-8">>]

U(session_, method, text, encode, segments, params) ==
  [session |-> session_, method |-> method, text |-> text, encode |-> encode,
   segments |-> segments, params |-> params]

\* A query with one parameter added twice and one removed: a=%.
AQuery ==
  RemoveParameter(AddParameter(AddParameter(AddParameter(<<>>,
    <<98>>, <<>>), <<97>>, <<37>>), <<97>>, <<49>>), <<98>>)

MCUrls ==
  {U(NewSession, kGet, OnHost(<<47>>), FALSE, <<>>, <<>>),
   U(NewSession, kGet, OnHost(<<>>), FALSE, <<>>, <<>>),
   U(ASession, kPost, OnHost(<<47, 97, 32>>), TRUE, << <<97, 32>> >>, <<>>),
   U(NewSession, kPost, OnHost(<<47, 97, 47>>) \o <<63>> \o QueryToString(AQuery), FALSE,
     << <<97>> >>, << <<<<97>>, GetParameter(AQuery, <<97>>)>> >>),
   U(ASession, kHead, OnHost(<<58, 49, 47>>), FALSE, <<>>, <<>>),
   U(NewSession, kGet, <<47>>, FALSE, <<>>, <<>>)}

Text(text, encode) == [text |-> text, encode |-> encode]
\* "/", "/c?" with a byte that is not ASCII and "%", and "%41".
MCPieces ==
  {Text(<<47>>, TRUE), Text(<<47, 99, 63, 195, 37>>, TRUE), Text(<<37, 52, 49>>, FALSE)}

Pair(key, value, encode) == [key |-> key, value |-> value, encode |-> encode]
\* "k=+ %4=", "=s://", "&=" and "%6B=".
MCParams ==
  {Pair(<<107>>, <<43, 32, 37, 52, 61>>, TRUE), Pair(<<>>, <<115, 58, 47, 47>>, TRUE),
   Pair(<<38>>, <<>>, TRUE), Pair(<<37, 54, 66>>, <<>>, FALSE)}

MCBodies == {<<>>, <<"a", "b">>, <<"a", "b", "c">>}
MCFile == <<"f", "g", "h">>

MCFields ==
  {<<"connection", <<"keep-alive">> >>, <<"Connection", <<"Upgrade">> >>, <<"Accept", <<>> >>,
   <<"Authorization", <<"Digest">> >>, <<"Content-Length", <<"1">> >>}

\* Two and four bytes with the colon.
MCLogins == {<< <<>>, <<255>> >>, << <<97>>, <<98, 99>> >>}

MCCodes == {404}

=============================================================================
