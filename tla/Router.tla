-------------------------------- MODULE Router --------------------------------
(***************************************************************************)
(* The table of routes, webcc/router.cc, and the static files of the       *)
(* server.  A view is looked up twice: by the parser at the end of the     *)
(* headers (MatchView), and by a worker for the parsed request (FindView). *)
(*                                                                         *)
(* A regular expression is the set of the paths it matches; the arguments  *)
(* it captures are left out.  Whether a path is a file is asked each time. *)
(***************************************************************************)
EXTENDS Naturals, Sequences, FiniteSetsExt

CONSTANTS
  Paths,    \* the paths of URLs
  Lower,    \* the lower case of a path
  Methods,  \* HTTP methods
  Views,    \* views, with the methods for which the request is streamed
  Routes    \* routes_

\* A view's name stands for the view, and for no other answer.
ASSUME RouterAssumption ==
  /\ Paths \subseteq STRING \ {""} /\ Lower \in [Paths -> STRING]
  /\ "GET" \in Methods
  /\ \A v \in Views : /\ v.stream \subseteq Methods
                      /\ v.name \notin {"", "file", "Not Found", "Bad Request"}
  /\ \A v, w \in Views : v.name = w.name => v = w
  /\ Routes \in Seq([url : Paths \cup {""}, url_regex : SUBSET Paths,
                     methods : SUBSET Methods, view : Views])

iequals(a, b) == Lower[a] = Lower[b]

\* The routes that match in FindView(), in their order.
RoutesFound(method, path) ==
  {i \in DOMAIN Routes :
     /\ method \in Routes[i].methods
     /\ IF Routes[i].url = "" THEN path \in Routes[i].url_regex
        ELSE iequals(Routes[i].url, path)}

HasView(method, path) == RoutesFound(method, path) # {}
FindView(method, path) == Routes[Min(RoutesFound(method, path))].view

\* The routes that match in MatchView().
RoutesMatched(method, path) ==
  {i \in DOMAIN Routes :
     /\ method \in Routes[i].methods
     /\ IF Routes[i].url = "" THEN path \in Routes[i].url_regex
        ELSE iequals(Routes[i].url, path)}

MatchView(method, path) == RoutesMatched(method, path) # {}

\* Seeded bug: the last match decides.
MatchStreamLast(method, path) ==
  /\ MatchView(method, path)
  /\ method \in Routes[Max(RoutesMatched(method, path))].view.stream

\* *stream, as the view of the first match says.
MatchStream(method, path) ==
  /\ MatchView(method, path)
  /\ method \in Routes[Min(RoutesMatched(method, path))].view.stream

MatchViewOrStatic(method, path, is_file) ==
  MatchView(method, path) \/ (method = "GET" /\ is_file)

\* ServeStatic(): a file that cannot be opened is not found.
ServeStatic(is_file) == IF is_file THEN "file" ELSE "Not Found"

\* Handle(): who answers a request.  A view that returns no response is answered
\* for with Bad Request.
Handle(method, path, is_file) ==
  IF HasView(method, path) THEN FindView(method, path).name
  ELSE IF method = "GET" THEN ServeStatic(is_file) ELSE "Bad Request"

=============================================================================
