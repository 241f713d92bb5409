------------------------------ MODULE MtomParts ------------------------------
(***************************************************************************)
(* A multipart response of ArcSuite and how the adapter takes it apart     *)
(* (MtomParser.java).  The state is what the sender has written so far:    *)
(* the response is complete or breaks off before the closing delimiter.    *)
(*                                                                         *)
(* A symbol of the body is CR, LF, the marker ("--" and the boundary),     *)
(* a pair of dashes, a header "name: value" or a byte of something else.   *)
(***************************************************************************)
EXTENDS Naturals, SequencesExt, FiniteSetsExt

CONSTANTS
  MaxParts,   \* bound: parts of a response
  MaxPayload  \* bound: symbols in all of its parts together

VARIABLES
  parts,  \* the payloads written
  frame   \* what stands before the first delimiter, how the response ends, what follows it

vars == <<parts, frame>>

CRLF == <<"CR", "LF">>

Frames == [before : {<<>>, CRLF, <<"x">>}, closed : BOOLEAN, after : {<<>>, CRLF, <<"x">>}]

Init == parts = <<>> /\ frame \in Frames /\ (frame.closed \/ frame.after = <<>>)

\* ArcSuite writes one more symbol of the last part, or starts another part.
WriteSymbol ==
  /\ parts # <<>> /\ Len(FlattenSeq(parts)) < MaxPayload
  /\ \E s \in {"CR", "LF", "marker", "dashes", "x"} :
       parts' = [parts EXCEPT ![Len(parts)] = Append(@, s)]
  /\ UNCHANGED frame

WritePart == Len(parts) < MaxParts /\ parts' = Append(parts, <<>>) /\ UNCHANGED frame

Next == WriteSymbol \/ WritePart

Written(part) == <<"marker", "CR", "LF", "header", "CR", "LF", "CR", "LF">> \o part \o CRLF

Body ==
  frame.before \o FlattenSeq([i \in DOMAIN parts |-> Written(parts[i])])
  \o (IF frame.closed THEN <<"marker", "dashes">> \o frame.after ELSE <<>>)

-----------------------------------------------------------------------------
(* The parser.  A result is the set of what is returned: empty if the body is refused. *)

\* startsWith, indexOf
At(body, i, s) == i > 0 /\ i + Len(s) - 1 <= Len(body) /\ SubSeq(body, i, i + Len(s) - 1) = s

First(S) == IF S = {} THEN 0 ELSE Min(S)

\* Faulty: a marker is taken for a delimiter wherever it stands.
IsDelimiterAnywhere(body, i) ==
  body[i] = "marker" /\ (At(body, i + 1, <<"dashes">>) \/ At(body, i + 1, CRLF))

\* A delimiter starts a line, and ends it or the response.
IsDelimiter(body, i) ==
  /\ body[i] = "marker"
  /\ i = 1 \/ At(body, i - 2, CRLF)
  /\ At(body, i + 1, <<"dashes">>) \/ At(body, i + 1, CRLF)

BoundaryAt(body, from) == First({i \in from..Len(body) : IsDelimiter(body, i)})

\* Every line of a header block has a name and a colon.
ValidHeaders(block) ==
  \A i \in {1} \cup {j + 2 : j \in {k \in DOMAIN block : At(block, k, CRLF)}} :
    \E j \in i..Len(block) : block[j] = "header" /\ \A k \in i..j : ~At(block, k, CRLF)

\* The loop of split, from the end of a marker: the parts that follow.
Split(body) ==
  LET rest[at \in 1..Len(body) + 1] ==
        IF At(body, at, <<"dashes">>)
        THEN IF \A i \in at + 1..Len(body) : body[i] \in {"CR", "LF"} THEN {<<>>} ELSE {}
        ELSE LET headers == at + 2
                 end == First({i \in headers..Len(body) : At(body, i, CRLF \o CRLF)})
                 data == end + 4
                 next == BoundaryAt(body, data)
             IN IF /\ At(body, at, CRLF)
                   /\ end > 0 /\ ValidHeaders(SubSeq(body, headers, end - 1))
                   /\ next >= data + 2 /\ At(body, next - 2, CRLF)
                THEN {<<SubSeq(body, data, next - 3)>> \o later : later \in rest[next + 1]}
                ELSE {}
      first == BoundaryAt(body, 1)
  IN  IF first = 1 \/ (first = 3 /\ At(body, 1, CRLF)) THEN rest[first + 1] ELSE {}

\* A response without parts is refused.
Parse(body) == Split(body) \ {<<>>}

-----------------------------------------------------------------------------
(* The property. *)

\* What the choice of a boundary owes to the receiver: no line of a payload is a delimiter.
Unambiguous ==
  \A n \in DOMAIN parts :
    LET lines == CRLF \o parts[n] \o CRLF
    IN  \A i \in DOMAIN lines, end \in {CRLF, <<"dashes">>} : ~At(lines, i, CRLF \o <<"marker">> \o end)

\* MtomParser.java:67: every part is returned byte for byte, line ends and stray markers included;
\* and a response that breaks off, has anything else before it than one CR LF, or bytes after it, is
\* refused and never returned in part.
PartsExact ==
  Unambiguous =>
    Parse(Body) =
      IF parts # <<>> /\ frame.closed /\ frame.before # <<"x">> /\ frame.after # <<"x">>
      THEN {parts} ELSE {}
=============================================================================
