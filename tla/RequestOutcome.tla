---------------------------- MODULE RequestOutcome ----------------------------
(***************************************************************************)
(* What a call of Client::Request() may leave behind (webcc/client.cc).    *)
(* Client is shown to keep to it; ClientSession relies on it.              *)
(*                                                                         *)
(* An outcome has the code of the error, or "FileError" if reading a file  *)
(* of the request's body threw it; closed_ of the client; whether its      *)
(* socket is open; and how much of the request the server was sent.        *)
(***************************************************************************)

Codes == {"OK", "SyntaxError", "ResolveError", "ConnectError", "SocketWriteError",
          "FileError", "SocketReadError", "ParseError"}

Outcome == [code : Codes, closed : BOOLEAN, open : BOOLEAN, sent : {"none", "part", "all"}]

Outcomes(connect) ==
  {o \in Outcome :
    \/ /\ connect
       /\ o.code \in {"SyntaxError", "ResolveError"}
       /\ ~o.closed /\ ~o.open /\ o.sent = "none"
    \/ /\ connect
       /\ o.code = "ConnectError"
       /\ o.closed /\ ~o.open /\ o.sent = "none"
    \/ /\ o.code = "SocketWriteError"
       /\ o.closed /\ ~o.open /\ o.sent # "all"
    \/ /\ o.code = "FileError"
       /\ ~o.closed /\ o.open /\ o.sent = "part"
    \/ /\ o.code \in {"SocketReadError", "ParseError"}
       /\ o.closed /\ ~o.open /\ o.sent = "all"
    \/ /\ o.code = "OK"
       /\ o.open = ~o.closed /\ o.sent = "all"}

=============================================================================
