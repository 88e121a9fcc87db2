---------------------------- MODULE HeadlineFilter ----------------------------
(***************************************************************************)
(* The QwenPaw engine takes the kernel's headline lines out of a reply     *)
(* twice: line by line from the chunks it streams to a WebSocket client,   *)
(* and from the whole text that is logged and returned.  A text is a       *)
(* sequence of symbols: the end of a line, the opening and the closing     *)
(* mark of a headline (each with the blanks and the comment sign next to   *)
(* it), and any other word.  Blank lines are layout and left out.          *)
(***************************************************************************)
EXTENDS Sequences, SequencesExt, Integers

CONSTANT MaxText   \* for TLC: how long the texts are that StreamIsReply tries

ASSUME MaxTextAssumption == MaxText \in Nat

Symbols == {"nl", "open", "close", "word"}
Text == Seq(Symbols)

Bare(line) == IF line # <<>> /\ Last(line) = "nl" THEN Front(line) ELSE line

IsHeadlineLine(line) ==
    LET l == Bare(line) IN Len(l) >= 2 /\ l[1] = "open" /\ Last(l) = "close"

(* What a line leaves of itself.  Empty lines do not reach the client, and *)
(* are trimmed or folded in the reply.                                     *)
Shown(line) == IF IsHeadlineLine(line) \/ Bare(line) = <<>> THEN <<>> ELSE <<Bare(line)>>

(* Where the first line of s ends, 0 if it does not; what follows it. *)
EndOfLine(s) == SelectInSeq(s, LAMBDA x : x = "nl")
FirstLine(s) == SubSeq(s, 1, EndOfLine(s))
OtherLines(s) == SubSeq(s, EndOfLine(s) + 1, Len(s))

(* The regular expression is anchored to lines. *)
StripHeadlineText[s \in Text] ==
    IF EndOfLine(s) = 0 THEN Shown(s) ELSE Shown(FirstLine(s)) \o StripHeadlineText[OtherLines(s)]

(* rest is the part of its argument that Write has not looked at yet. *)
Filter == [buffer : Text, out : Seq(Text), rest : Text]
EmptyFilter == [buffer |-> <<>>, out |-> <<>>, rest |-> <<>>]

(* Mutant: what has just come in is judged, not the line it completes. *)
EmitJudgesChunk(f, line) ==
    [f EXCEPT !.buffer = <<>>,
              !.out = IF IsHeadlineLine(line) THEN @ ELSE Append(@, Bare(f.buffer \o line))]

(* line completes what is in the buffer. *)
Emit(f, line) == [f EXCEPT !.buffer = <<>>, !.out = @ \o Shown(f.buffer \o line)]

(* The loop of Write: a last, unfinished line is kept in the buffer. *)
WriteLoop[f \in Filter] ==
    IF EndOfLine(f.rest) = 0 THEN [f EXCEPT !.buffer = @ \o f.rest, !.rest = <<>>]
    ELSE WriteLoop[[Emit(f, FirstLine(f.rest)) EXCEPT !.rest = OtherLines(f.rest)]]

Write(f, s) == WriteLoop[[f EXCEPT !.rest = s]]

Flush(f) == IF f.buffer = <<>> THEN f ELSE Emit(f, <<>>)

(* Engine.Chat: the reply and the filter after these chunks. *)
Heard[chunks \in Seq(Text)] ==
    IF chunks = <<>> THEN [reply |-> <<>>, filter |-> EmptyFilter]
    ELSE [reply |-> Heard[Front(chunks)].reply \o Last(chunks),
          filter |-> Write(Heard[Front(chunks)].filter, Last(chunks))]

(* What the client sees, and what is logged and returned. *)
Streamed(chunks) == Flush(Heard[chunks].filter).out
Returned(chunks) == StripHeadlineText[Heard[chunks].reply]

(* Every text of up to MaxText symbols, in three chunks. *)
Cuts(text) == {<<SubSeq(text, 1, ab[1]), SubSeq(text, ab[1] + 1, ab[2]), SubSeq(text, ab[2] + 1, Len(text))>> :
                  ab \in {ab \in (0..Len(text)) \X (0..Len(text)) : ab[1] <= ab[2]}}

Chunkings == UNION {Cuts(text) : text \in UNION {[1..n -> Symbols] : n \in 0..MaxText}}
===============================================================================
