---------------------------- MODULE StreamParser ----------------------------
(***************************************************************************)
(* streamParser (internal/proxy/stream.go): it is fed a streamed answer in *)
(* chunks, cut wherever the network cut them, and reports what to bill.    *)
(*                                                                         *)
(* An answer is a sequence of lines, and on the wire each line is two      *)
(* halves, with a line feed between a line and the next, so that a chunk   *)
(* can end within a line, between a line and its line feed, and anywhere   *)
(* between events.  A document (the JSON of one event, or of one bare      *)
(* line) is represented by what UsageExtraction finds in it.  A carriage   *)
(* return before a line feed is trimmed with it and left out.              *)
(*                                                                         *)
(* The parser keeps two texts, the answer's and the raw one.  What is kept *)
(* is bounded in bytes and cut between any two of them; what is billed is  *)
(* estimated from its characters.  So a text here has both, and a constant *)
(* says how many characters its first bytes make.                          *)
(***************************************************************************)
EXTENDS Integers, Sequences, SequencesExt

CONSTANTS
    Models,  \* the names a request or an answer may give its model
    NoModel, \* no name: the empty string
    MaxText, \* maxBufferedStreamText, in bytes
    Runes(_, _) \* Runes(text, n): the characters that the first n bytes of a text count as

ASSUME ParserAssumption == NoModel \notin Models /\ MaxText \in Nat \ {0}

\* A text in UTF-8, which neither begins nor ends with white space, or nothing.
Text == {t \in [chars : Nat, bytes : Nat] : t.bytes \in t.chars..4 * t.chars}
\* How a text may be cut: a part of it begins with a character, or with as many bytes of one as
\* were left, each of which counts as a character (utf8.RuneCountInString); white space that
\* is last in the part does not count.
CutsWell(text) ==
    /\ Runes(text, 0) = 0 /\ Runes(text, text.bytes) = text.chars
    /\ \A n \in 1..text.bytes : Runes(text, n) \in 1..n

Names == Models \cup {NoModel}

\* ResponseUsage; nil and a report of nothing at all are treated alike everywhere.
Usage == [in : Nat, out : Nat, model : Names]
NoUsage == [in |-> 0, out |-> 0, model |-> NoModel]

\* What one document reports, and the text it holds.
Payload == [in : Nat, out : Nat, model : Names, text : Text]

\* The kinds of line processLine tells apart: a data: line with part `part` of `of` of a
\* document, a bare JSON line with a whole one, a blank line, anything else (event:, id:, a
\* comment).  A line has `bytes` bytes, and sanitizeChunk makes of its two halves the texts
\* `whole`, or `cut` if they come in two chunks: if the halves meet inside a character, each of
\* its bytes is then replaced by a character of three.
Line == [kind : {"data", "json", "blank", "other"}, payload : Payload, part : Nat, of : Nat,
         bytes : Nat, whole : [1..2 -> Text], cut : [1..2 -> Text]]

\* RequestInfo: the model and the characters of the prompt, or neither, when the request
\* could not be parsed.
Request == [model : Names, chars : Nat]

LineFeed == [line |-> 0, half |-> 0]
Halves(i) == <<[line |-> i, half |-> 1], [line |-> i, half |-> 2]>>

\* The bytes of an answer, as far as the parser tells them apart.
Wire(answer) ==
    FlattenSeq([i \in 1..Len(answer) |->
        (IF i = 1 THEN <<>> ELSE <<LineFeed>>)
            \o (IF answer[i].kind = "blank" THEN <<>> ELSE Halves(i))])

\* Of outputText and rawText the parser's state has the bytes (textLen, rawLen) and the
\* characters (text, raw); gap is the white space rawText ends with.
NewParser == [pending |-> <<>>, event |-> <<>>, usage |-> NoUsage, text |-> 0, textLen |-> 0,
              raw |-> 0, gap |-> 0, rawLen |-> 0, size |-> 0]

Larger(x, y) == IF x >= y THEN x ELSE y
Smaller(x, y) == IF x <= y THEN x ELSE y

\* estimateTokens: a token for every four characters, rounded up.
Estimate(chars) == (chars + 3) \div 4

-----------------------------------------------------------------------------
\* Mutant: what is reported later replaces what was reported before.
MergeUsage_Latest(current, next) ==
    [in |-> IF next.in # 0 THEN next.in ELSE current.in,
     out |-> IF next.out # 0 THEN next.out ELSE current.out,
     model |-> IF next.model # NoModel THEN next.model ELSE current.model]

\* Of each count the largest that was reported, and the first name of a model.
MergeUsage(current, next) ==
    [in |-> Larger(current.in, next.in), out |-> Larger(current.out, next.out),
     model |-> IF current.model = NoModel THEN next.model ELSE current.model]

\* Mutant: the text is bounded in characters.
ProcessPayload_CapsCharacters(p, payload) ==
    [p EXCEPT !.usage = MergeUsage(@, payload),
              !.text = @ + Smaller(payload.text.chars, MaxText - p.text),
              !.textLen = @ + payload.text.bytes]

\* processPayload: of the text as many bytes are kept as there is room for.
ProcessPayload(p, payload) ==
    LET kept == Smaller(payload.text.bytes, MaxText - p.textLen)
    IN [p EXCEPT !.usage = MergeUsage(@, payload),
                 !.text = @ + Runes(payload.text, kept), !.textLen = @ + kept]

\* The lines gathered are the whole of one document, or do not parse as JSON.
IsDocument(event) ==
    /\ Len(event) = event[1].line.of
    /\ \A i \in DOMAIN event : /\ event[i].whole
                               /\ event[i].line.payload = event[1].line.payload
                               /\ event[i].line.part = i

FlushEvent(p) ==
    LET flushed == [p EXCEPT !.event = <<>>] IN
    IF p.event # <<>> /\ IsDocument(p.event)
    THEN ProcessPayload(flushed, p.event[1].line.payload)
    ELSE flushed

\* p.pending, up to a line feed or the end of the stream, is one line or the first half of one.
ProcessLine(p, answer) ==
    LET rest == [p EXCEPT !.pending = <<>>]
        line == answer[Head(p.pending).line]
        whole == Len(p.pending) = 2
    IN
    IF p.pending = <<>> THEN FlushEvent(rest)
    ELSE IF line.kind = "data" THEN [rest EXCEPT !.event = Append(@, [line |-> line, whole |-> whole])]
    ELSE IF line.kind = "json" /\ whole THEN ProcessPayload(rest, line.payload)
    ELSE rest

\* Append's loop, for one symbol of the wire.
Feed(p, symbol, answer) ==
    IF symbol = LineFeed THEN ProcessLine(p, answer)
    ELSE [p EXCEPT !.pending = Append(@, symbol)]

\* appendRawText: of a text as many bytes are kept as there is room for.  White space before
\* it counts if there is a character before that (TrimSpace), but takes its room anyway.
KeepRaw(p, text) ==
    LET kept == Smaller(text.bytes, MaxText - p.rawLen)
    IN IF kept = 0 THEN p
       ELSE [p EXCEPT !.raw = (IF @ = 0 THEN 0 ELSE @ + p.gap) + Runes(text, kept),
                      !.gap = 0, !.rawLen = @ + kept]
\* A line feed is one byte of white space.
KeepSpace(p) == IF p.rawLen = MaxText THEN p ELSE [p EXCEPT !.gap = @ + 1, !.rawLen = @ + 1]

\* The bytes of a half on the wire, and what sanitizeChunk makes of it.
BytesOf(line, half) ==
    IF half = 1 THEN line.bytes - line.bytes \div 2 ELSE line.bytes \div 2
Sanitized(line, half, alone) == IF alone THEN line.cut[half] ELSE line.whole[half]

\* Symbol i of a chunk.
Take(p, chunk, i, answer) ==
    LET symbol == chunk[i]
        line == answer[symbol.line]
        alone == i = IF symbol.half = 1 THEN Len(chunk) ELSE 1
        kept == IF symbol = LineFeed THEN KeepSpace(p)
                ELSE KeepRaw(p, Sanitized(line, symbol.half, alone))
        bytes == IF symbol = LineFeed THEN 1 ELSE BytesOf(line, symbol.half)
    IN Feed([kept EXCEPT !.size = @ + bytes], symbol, answer)

\* Append: whole lines are processed, the rest of the chunk waits for the next one.
AppendChunk(p, chunk, answer) ==
    FoldLeftDomain(LAMBDA q, i : Take(q, chunk, i, answer), p, chunk)

\* Finalize: what is pending is the last line and the last event; a name or a count that was
\* never reported is the request's, or is estimated: the input from the prompt, the output
\* from the text or, without any, from the raw text or, without that, from the bytes.
Finalize(p, request, answer) ==
    LET last == IF p.pending = <<>> THEN p ELSE ProcessLine(p, answer)
        q == FlushEvent(last)
        text == Estimate(IF q.text # 0 THEN q.text ELSE q.raw)
    IN [in |-> IF q.usage.in # 0 THEN q.usage.in ELSE Estimate(request.chars),
        out |-> IF q.usage.out # 0 THEN q.usage.out
                ELSE IF text # 0 THEN text ELSE Estimate(q.size),
        model |-> IF q.usage.model # NoModel THEN q.usage.model ELSE request.model]
=============================================================================
