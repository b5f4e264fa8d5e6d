------------------------------- MODULE FormBody -------------------------------
(***************************************************************************)
(* A form as a webcc client builds and sends it: FormPart (common.cc),     *)
(* FormBody (body.cc) and the part of RequestBuilder that sets the body.   *)
(* The content is produced part by part while it is written, and the data  *)
(* of a part is freed when the next one is asked for.                      *)
(*                                                                         *)
(* The text of a part header is one byte: the name of the part stands for  *)
(* its Content-Disposition, "Type" for its Content-Type.                   *)
(***************************************************************************)
EXTENDS Lines, Functions, SequencesExt

CONSTANTS
  Boundary,   \* the bytes of the boundary
  Names,      \* the names of parts
  SplitNames  \* those with a semicolon

\* The boundary is letters and digits.
ASSUME BoundaryAssumption ==
  /\ Boundary \in Seq(STRING) /\ Boundary # <<>>
  /\ Range(Boundary) \cap {"CR", "LF", "-"} = {}

ASSUME SplitNamesAssumption == SplitNames \subseteq Names

VARIABLES
  parts,  \* parts_ of the client's body
  index,  \* index_
  sent    \* the content written so far, in bytes

formVars == <<parts, index, sent>>

\* A part has its data, or a path to a file with it.
PartType == [name : Names, typed : BOOLEAN, data : Seq(STRING),
             path : BOOLEAN, file : Seq(STRING)]

-----------------------------------------------------------------------------
(* FormPart *)

SetHeaders(part) == <<part.name>> \o (IF part.typed THEN <<"Type">> ELSE <<>>)

\* Prepare() reads the file if there is no data.
Load(part) ==
  IF part.data = <<>> /\ part.path THEN [part EXCEPT !.data = part.file] ELSE part

Prepare(part) ==
  LET headers == SetHeaders(part)
  IN  FlattenSeq([i \in 1..Len(headers) |-> <<headers[i]>> \o CRLF])
        \o CRLF \o Load(part).data \o CRLF

Free(part) == [part EXCEPT !.data = <<>>]

\* The size of the data, from the file if there is none.
GetDataSize(part) == IF part.data # <<>> THEN Len(part.data) ELSE Len(part.file)

\* Seeded bug: the CRLF after the data is not counted.
PartSizeWithoutEnd(part) == 3 * Len(SetHeaders(part)) + 2 + GetDataSize(part)

PartSize(part) == 3 * Len(SetHeaders(part)) + 2 + GetDataSize(part) + 2

-----------------------------------------------------------------------------
(* FormBody *)

AddBoundary == <<"-", "-">> \o Boundary \o CRLF
AddBoundaryEnd == <<"-", "-">> \o Boundary \o <<"-", "-">> \o CRLF

GetSize(form) ==
  FoldFunction(+, 0, [i \in DOMAIN form |-> Len(Boundary) + 4 + PartSize(form[i])])
    + Len(Boundary) + 6

\* What NextPayload() returns; nothing after the last part.
Payload ==
  IF index < Len(parts)
  THEN AddBoundary \o Prepare(parts[index + 1])
         \o (IF index + 1 = Len(parts) THEN AddBoundaryEnd ELSE <<>>)
  ELSE <<>>

\* NextPayload(true), which frees the part before and loads this one.
NextPayload ==
  /\ parts' = [i \in DOMAIN parts |->
                 IF i = index THEN Free(parts[i])
                 ELSE IF i = index + 1 THEN Load(parts[i]) ELSE parts[i]]
  /\ index' = index + 1

\* The builder makes the body of the parts, and SetBody() sets Content-Length.
Build(form) ==
  [form |-> form, bytes |-> <<>>, content_length |-> GetSize(form), valid |-> TRUE]

=============================================================================
