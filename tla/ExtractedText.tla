---------------------------- MODULE ExtractedText ----------------------------
(***************************************************************************)
(* The normalisation of extracted text (normalizeExtractedText in          *)
(* src/content/contentBridge.ts): a single pass with a limit, compared     *)
(* with what it is to compute.  The state is one input.                    *)
(***************************************************************************)
EXTENDS Naturals, SequencesExt

CONSTANTS
  Limits,    \* values of maxExtractedChars
  MaxLength  \* bound: characters of an input

VARIABLES
  text,   \* what an extractor returned
  limit   \* maxExtractedChars

vars == <<text, limit>>

\* Characters: a letter, a blank or tab, other white space, line ends, a control character.
Char == {"x", "blank", "wide", "CR", "LF", "control"}
WhiteSpace == {"blank", "wide", "CR", "LF"}

Init == text = <<>> /\ limit \in Limits

Extend == Len(text) < MaxLength /\ \E c \in Char : text' = Append(text, c) /\ UNCHANGED limit

Next == Extend

-----------------------------------------------------------------------------
(* The code. *)

\* The beginning of s up to the last character outside S.
TrimRight(s, S) == SubSeq(s, 1, SelectLastInSeq(s, LAMBDA c : c \notin S))

Trim(s) == Reverse(TrimRight(Reverse(TrimRight(s, WhiteSpace)), WhiteSpace))

\* append, and the break that follows once there is no room.
Put(output, c) == [output |-> Append(output, c), started |-> TRUE, full |-> Len(output) + 1 >= limit]

\* Faulty: each of CR and LF ends a line.
EndsLineEach(i) == text[i] \in {"CR", "LF"}

\* CR LF ends one line.
EndsLine(i) == text[i] = "CR" \/ (text[i] = "LF" /\ ~(i > 1 /\ text[i - 1] = "CR"))

\* One turn of the loop.  Blanks at the end of a line are given back, and the room they took.
Turn(pass, i) ==
  IF pass.full THEN pass
  ELSE IF EndsLine(i)
       THEN IF pass.started THEN Put(TrimRight(pass.output, {"blank"}), "LF") ELSE pass
  ELSE IF text[i] \in {"LF", "control"} \/ (~pass.started /\ text[i] \in WhiteSpace) THEN pass
  ELSE Put(pass.output, text[i])

Normalize ==
  LET pass[i \in 0..Len(text)] ==
        IF i = 0 THEN [output |-> <<>>, started |-> FALSE, full |-> FALSE] ELSE Turn(pass[i - 1], i)
  IN  Trim(pass[Len(text)].output)

-----------------------------------------------------------------------------
(* What it is to compute, character by character. *)

\* Character i is a blank with only blanks, or characters that go anyway, before the end of its line.
TrailsLine(i) ==
  /\ text[i] = "blank"
  /\ \E j \in i + 1..Len(text) :
       text[j] \in {"CR", "LF"} /\ \A k \in i..j - 1 : text[k] \in {"blank", "control"}

\* The characters that are left.
Kept ==
  {i \in DOMAIN text :
     text[i] # "control" /\ ~TrailsLine(i) /\ ~(text[i] = "LF" /\ i > 1 /\ text[i - 1] = "CR")}

Clean ==
  LET clean[i \in 0..Len(text)] ==
        IF i = 0 THEN <<>>
        ELSE IF i \in Kept THEN Append(clean[i - 1], text[i]) ELSE clean[i - 1]
  IN  clean[Len(text)]

Expected == Trim(ReplaceAll(Clean, "CR", "LF"))

-----------------------------------------------------------------------------
(* The property. *)

\* contentBridge.ts:347: the single pass gives the text with its line ends unified, without control
\* characters and without blanks at line ends, or a beginning of it within the limit.  Nothing is
\* missing from an input within the limit, which is when the answer carries no warning (204).
NormalizedTrue ==
  LET normalized == Normalize
  IN  /\ Len(normalized) <= limit
      /\ IsPrefix(normalized, Expected)
      /\ Len(text) <= limit => normalized = Expected
=============================================================================
