----------------------------- MODULE SseFrames -----------------------------
(***************************************************************************)
(* The framing of the event streams and the two clients' parsers of it     *)
(* (cli/src/lib/sse.ts, frontend/lib/sse.ts).  A text is a sequence of the *)
(* lines' contents and of the characters that end a line.                  *)
(***************************************************************************)
EXTENDS Naturals, Sequences

LF == <<"lf">>
CR == <<"cr">>

(* event: <type>, data: <json>, and an empty line. *)
Wire(event, job, eol) == << <<"event", event>> >> \o eol \o << <<"data", job>> >> \o eol \o eol

StartsPair(text, k) == text[k] = CR /\ k < Len(text) /\ text[k + 1] = LF

(* replace(/\r\n/g, "\n") *)
Paired(text) ==
    LET upTo[k \in 0 .. Len(text)] ==
            IF k = 0 THEN <<>>
            ELSE IF StartsPair(text, k) THEN upTo[k - 1] ELSE Append(upTo[k - 1], text[k])
    IN  upTo[Len(text)]

(* replace(/\r\n|\r/g, "\n") *)
LinesEnded(text) == LET t == Paired(text) IN [i \in DOMAIN t |-> IF t[i] = CR THEN LF ELSE t[i]]

(* The frame up to the first empty line, and what is left in the buffer:    *)
(* bound: a text holds one frame at most, for the wire holds one.           *)
CutFrames(text) ==
    LET empty == {i \in 1..(Len(text) - 1) : text[i] = LF /\ text[i + 1] = LF}
        first == CHOOSE i \in empty : \A j \in empty : i <= j
    IN  IF empty = {} THEN [raw |-> <<>>, rest |-> text]
        ELSE [raw |-> <<SubSeq(text, 1, first - 1)>>, rest |-> SubSeq(text, first + 2, Len(text))]

HasData(raw) == \E i \in DOMAIN raw : raw[i][1] = "data"
LastOf(raw, kind) ==
    LET at == {i \in DOMAIN raw : raw[i][1] = kind}
    IN  raw[CHOOSE i \in at : \A j \in at : j <= i][2]

(* parseFrame *)
Parsed(raw) ==
    [event |-> IF \E i \in DOMAIN raw : raw[i][1] = "event" THEN LastOf(raw, "event") ELSE "message",
     job |-> LastOf(raw, "data")]

(* A frame without data is no event. *)
Frames(raws) == IF raws # <<>> /\ HasData(raws[1]) THEN <<Parsed(raws[1])>> ELSE <<>>

(* What the buffer becomes with a chunk: the command line normalises the    *)
(* whole of it again, the web client only the chunk.  The result is a set   *)
(* of one, for a bound variable is evaluated once.                          *)

(* Mutant: the command line's parser looks at the new chunk only. *)
CliBufferPerChunk(buffer, chunk) ==
    {CutFrames(text) : text \in {buffer \o t : t \in {Paired(c) : c \in {chunk}}}}

CliBuffer(buffer, chunk) == {CutFrames(text) : text \in {Paired(t) : t \in {buffer \o chunk}}}
WebBuffer(buffer, chunk) ==
    {CutFrames(text) : text \in {buffer \o t : t \in {LinesEnded(c) : c \in {chunk}}}}
=============================================================================
