--------------------------- MODULE MCRequestParser ---------------------------
(***************************************************************************)
(* Forms, other multipart content and routes for RequestParser.            *)
(***************************************************************************)
EXTENDS RequestParser

MCBoundary == <<"B">>

Data(name, data) ==
  [name |-> name, typed |-> FALSE, data |-> data, path |-> FALSE, file |-> <<>>]
File(name, file) ==
  [name |-> name, typed |-> TRUE, data |-> <<>>, path |-> TRUE, file |-> file]

\* Data that is a line end, lines that are nearly the boundary, an empty file, a
\* name with a semicolon, and a line like the last boundary in the first and in the
\* last part.
MCForms ==
  { <<Data("N1", <<"a">>), File("N2", <<"CR", "LF">>)>>,
    <<File("N1", <<"CR", "LF", "-", "-", "a">>), Data("N2", <<"-", "-", "B", "-", "CR">>)>>,
    <<Data("N1", <<"-", "-", "a", "CR", "LF">>)>>,
    <<Data("N1", <<"a">>), File("N2", <<>>)>>,
    <<Data("N;", <<"a">>)>>,
    <<Data("N1", <<"-", "-", "a", "-", "-">>), Data("N2", <<"a">>)>>,
    <<Data("N1", <<"a">>), Data("N2", <<"-", "-", "a", "-", "-">>)>> }

\* No Content-Length, no boundary, a bad part header, and the last boundary first.
MCForeign ==
  { [bytes |-> AddBoundaryEnd, length |-> FALSE],
    [bytes |-> <<"a">> \o CRLF, length |-> TRUE],
    [bytes |-> AddBoundary \o <<"a">> \o CRLF, length |-> TRUE],
    [bytes |-> AddBoundaryEnd, length |-> TRUE] }

MCLower == [p \in {"/form", "/Form", "/big", "/file"} |-> IF p = "/Form" THEN "/form" ELSE p]

FormView == [name |-> "FormView", stream |-> {}]
BigView == [name |-> "BigView", stream |-> {"POST"}]
AnyView == [name |-> "AnyView", stream |-> {"GET"}]

MCViews == {FormView, BigView, AnyView}

MCRoutes ==
  << [url |-> "/form", url_regex |-> {}, methods |-> {"POST"}, view |-> FormView],
     [url |-> "", url_regex |-> {"/big", "/form"}, methods |-> {"POST"}, view |-> BigView],
     [url |-> "", url_regex |-> {"/big"}, methods |-> {"GET", "POST"}, view |-> AnyView] >>

MCTargets ==
  { [method |-> "POST", path |-> "/Form"], [method |-> "POST", path |-> "/form"],
    [method |-> "POST", path |-> "/big"], [method |-> "POST", path |-> "/file"],
    [method |-> "GET", path |-> "/file"] }

=============================================================================
