-------------------------- MODULE ResponseCapture --------------------------
(***************************************************************************)
(* One proxied exchange, from the upstream's answer to the end of the      *)
(* handler (internal/proxy/handler.go, stream.go): who reads the answer,   *)
(* who forwards it, and when its usage is handed to the tracker.           *)
(*                                                                         *)
(* A buffered answer is read whole, tracked, and only then sent on.  A     *)
(* streamed one is read, parsed and sent on part by part by the reverse    *)
(* proxy's copy loop; streamingBody.Read at the end of the stream, or else *)
(* Close, hands what the parser has gathered to the tracker, under a       *)
(* sync.Once and on the handler's own goroutine.                           *)
(*                                                                         *)
(* httputil.ReverseProxy and net/http are external: the loop that reads a  *)
(* part and writes it on, the Close on every way out, and the request's    *)
(* context, which is cancelled when the client leaves or a write fails     *)
(* (net/http cancels the connection's context on a write error, and        *)
(* proxy.write_timeout, 60 s by default, makes writes fail).               *)
(***************************************************************************)
EXTENDS StreamParser, Totals

CONSTANTS
    Answers,   \* what the upstream may stream: sequences of lines
    Bodies,    \* what ExtractResponseUsage may find in an answer that is not streamed
    Requests,  \* what ExtractRequestInfo may find in the request
    Priced,    \* the models with a price
    MayFail    \* whether storing a usage row may fail for reasons of its own

\* found is FALSE for a body without usage and for one that does not parse.
Body == [found : BOOLEAN, usage : Usage]

ASSUME AnswersAssumption == Answers \subseteq Seq(Line) /\ Bodies \subseteq Body
\* Nothing at all is one blank line; a part is one of its document's, and a bare line is a
\* whole document; a character comes from a byte at least, and cutting a line takes none away.
ASSUME LinesAssumption ==
    \A a \in Answers : a # <<>> /\ \A i \in DOMAIN a :
        /\ a[i].kind = "data" => a[i].part \in 1..a[i].of
        /\ a[i].kind = "json" => a[i].part = 1 /\ a[i].of = 1
        /\ CutsWell(a[i].payload.text)
        /\ \A half \in 1..2 :
              /\ CutsWell(a[i].whole[half]) /\ CutsWell(a[i].cut[half])
              /\ a[i].whole[half].chars <= a[i].cut[half].chars
              /\ a[i].cut[half].chars <= BytesOf(a[i], half)
ASSUME RequestsAssumption == Requests \subseteq Request
ASSUME PricedAssumption == Priced \subseteq Models /\ MayFail \in BOOLEAN

VARIABLES
    answer,   \* this exchange's answer, if it is streamed
    request,  \* this exchange's request
    mode,     \* how the answer is captured, once its headers are there
    pc,       \* where the handler is
    resume,   \* where it goes on after the tracker
    read,     \* symbols of the answer taken from the upstream
    eof,      \* whether the end of the answer has been read
    written,  \* symbols the client has been sent
    parser,   \* the streamParser
    finished, \* streamingBody.once
    ctx,      \* the request's context
    calls,    \* calls of TrackWithTokens
    billed,   \* the counts and the model of the last one
    stored    \* usage rows written

inputs == <<answer, request>>
tracking == <<finished, calls, billed, resume>>
vars == <<inputs, mode, pc, read, eof, written, parser, ctx, stored, tracking>>

wire == Wire(answer)

Symbols == {LineFeed} \cup {[line |-> i, half |-> h] : i \in 1..Len(answer), h \in {1, 2}}

ParserOK ==
    /\ parser.pending \in Seq(Symbols) /\ Len(parser.pending) <= 2
    /\ \A i \in DOMAIN parser.event : parser.event[i].line \in ToSet(answer)
    /\ parser.usage \in Usage
    /\ parser.textLen \in 0..MaxText /\ parser.text \in 0..parser.textLen
    /\ parser.rawLen \in 0..MaxText /\ parser.raw + parser.gap \in 0..parser.rawLen

TypeOK ==
    /\ answer \in Answers /\ request \in Requests
    /\ mode \in {"unknown", "buffered", "streaming"}
    /\ pc \in {"roundtrip", "readall", "copy", "write", "close", "track", "reply", "done"}
    /\ resume \in {"write", "close", "done", "reply"}
    /\ read \in 0..Len(wire) /\ written \in 0..read
    /\ eof \in BOOLEAN /\ finished \in BOOLEAN /\ ctx \in {"live", "cancelled"}
    /\ ParserOK
    /\ calls \in 0..1 /\ stored \in 0..calls
    /\ billed \in Usage

Init ==
    /\ answer \in Answers /\ request \in Requests
    /\ mode = "unknown" /\ pc = "roundtrip" /\ resume = "done"
    /\ read = 0 /\ eof = FALSE /\ written = 0
    /\ parser = NewParser /\ finished = FALSE
    /\ ctx = "live" /\ calls = 0 /\ billed = NoUsage /\ stored = 0

-----------------------------------------------------------------------------
(* Tracking *)

NothingToBill(bill) == bill.model = NoModel \/ bill.in + bill.out = 0

\* Mutant: no sync.Once, every caller of finish records.
FinishWith_EveryTime(p, next) ==
    LET bill == Finalize(p, request, answer) IN
    /\ finished' = TRUE
    /\ IF NothingToBill(bill)
       THEN pc' = next /\ UNCHANGED <<resume, calls, billed>>
       ELSE pc' = "track" /\ resume' = next /\ calls' = calls + 1 /\ billed' = bill

\* streamingBody.finish and recordStreamingUsage: the first caller hands the parser's result
\* to the tracker, if there is anything to count and a model to count it for.
FinishWith(p, next) ==
    LET bill == Finalize(p, request, answer) IN
    /\ finished' = TRUE
    /\ IF finished \/ NothingToBill(bill)
       THEN pc' = next /\ UNCHANGED <<resume, calls, billed>>
       ELSE pc' = "track" /\ resume' = next /\ calls' = calls + 1 /\ billed' = bill

TrackFails == billed.model \notin Priced \/ ctx = "cancelled" \/ MayFail

\* Mutant: a failed write of the usage row is repeated until it succeeds.
TrackEnds_Retry ==
    /\ pc = "track"
    /\ \/ billed.model \in Priced /\ ctx = "live" /\ stored' = stored + 1 /\ pc' = resume
       \/ TrackFails /\ UNCHANGED <<stored, pc>>
    /\ UNCHANGED <<inputs, mode, read, eof, written, parser, ctx, tracking>>

\* TrackWithTokens returns: the row is stored, or the model has no price, the request's
\* context is cancelled, or storage fails, which is logged.
TrackEnds ==
    /\ pc = "track"
    /\ \/ billed.model \in Priced /\ ctx = "live" /\ stored' = stored + 1
       \/ TrackFails /\ UNCHANGED stored
    /\ pc' = resume
    /\ UNCHANGED <<inputs, mode, read, eof, written, parser, ctx, tracking>>

-----------------------------------------------------------------------------
(* The upstream *)

\* ModifyResponse, on the headers: a request or a content type that streams is parsed on the
\* way through, anything else is read first.
Respond ==
    /\ pc = "roundtrip" /\ ctx = "live"
    /\ \/ mode' = "streaming" /\ pc' = "copy"
       \/ mode' = "buffered" /\ pc' = "readall"
    /\ UNCHANGED <<inputs, read, eof, written, parser, ctx, stored, tracking>>

\* No answer (502): refused, timed out, or the request was cancelled.
NoAnswer ==
    /\ pc = "roundtrip"
    /\ pc' = "done"
    /\ UNCHANGED <<inputs, mode, read, eof, written, parser, ctx, stored, tracking>>

\* io.ReadAll and ExtractResponseUsage: usage is read from the whole body, and tracked even
\* if it reports nothing, under the model it names or else the request's; an answer whose
\* usage cannot be read is sent on untracked.
ReadAll ==
    /\ pc = "readall" /\ ctx = "live"
    /\ read' = Len(wire) /\ eof' = TRUE
    /\ \E body \in Bodies :
          IF body.found
          THEN /\ pc' = "track" /\ resume' = "reply" /\ calls' = calls + 1
               /\ billed' = [body.usage EXCEPT !.model = IF @ = NoModel THEN request.model ELSE @]
          ELSE pc' = "reply" /\ UNCHANGED <<resume, calls, billed>>
    /\ UNCHANGED <<inputs, mode, written, parser, ctx, stored, finished>>

\* The body breaks off (502).
ReadAllFails ==
    /\ pc = "readall"
    /\ pc' = "done"
    /\ UNCHANGED <<inputs, mode, read, eof, written, parser, ctx, stored, tracking>>

\* Mutant: the end of the stream is noticed before the bytes that came with it are parsed.
ReadChunk_FinishFirst ==
    /\ pc = "copy" /\ ctx = "live"
    /\ \E n \in read + 1..Len(wire) :
          /\ read' = n
          /\ parser' = AppendChunk(parser, SubSeq(wire, read + 1, n), answer)
          /\ \/ eof' = FALSE /\ pc' = "write" /\ UNCHANGED tracking
             \/ n = Len(wire) /\ eof' = TRUE /\ FinishWith(parser, "write")
    /\ UNCHANGED <<inputs, mode, written, ctx, stored>>

\* Read returns a chunk, cut anywhere, the last one perhaps together with io.EOF.
ReadChunk ==
    /\ pc = "copy" /\ ctx = "live"
    /\ \E n \in read + 1..Len(wire) :
          /\ read' = n
          /\ parser' = AppendChunk(parser, SubSeq(wire, read + 1, n), answer)
          /\ \/ eof' = FALSE /\ pc' = "write" /\ UNCHANGED tracking
             \/ n = Len(wire) /\ eof' = TRUE /\ FinishWith(parser', "write")
    /\ UNCHANGED <<inputs, mode, written, ctx, stored>>

\* Read returns io.EOF alone.
ReadEnd ==
    /\ pc = "copy" /\ ctx = "live" /\ read = Len(wire)
    /\ eof' = TRUE
    /\ FinishWith(parser, "close")
    /\ UNCHANGED <<inputs, mode, read, written, parser, ctx, stored>>

\* Read returns another error: the upstream broke off, or the context is cancelled.
ReadBreaks ==
    /\ pc = "copy"
    /\ pc' = "close"
    /\ UNCHANGED <<inputs, mode, read, eof, written, parser, ctx, stored, tracking>>

-----------------------------------------------------------------------------
(* The client *)

Write ==
    /\ pc = "write"
    /\ written' = read
    /\ pc' = IF eof THEN "close" ELSE "copy"
    /\ UNCHANGED <<inputs, mode, read, eof, parser, ctx, stored, tracking>>

\* The connection is gone, or the server's write deadline has passed.
WriteFails ==
    /\ pc = "write"
    /\ pc' = "close" /\ ctx' = "cancelled"
    /\ UNCHANGED <<inputs, mode, read, eof, written, parser, stored, tracking>>

\* The buffered answer goes out, or its client is not there any more.
Reply ==
    /\ pc = "reply"
    /\ written' \in {written, read}
    /\ pc' = "done"
    /\ UNCHANGED <<inputs, mode, read, eof, parser, ctx, stored, tracking>>

\* Mutant: only Read notices the end of the stream.
Close_OnlyCloses ==
    /\ pc = "close"
    /\ pc' = "done"
    /\ UNCHANGED <<inputs, mode, read, eof, written, parser, ctx, stored, tracking>>

\* The reverse proxy closes the streamed body, however its copy loop ended.
Close ==
    /\ pc = "close"
    /\ FinishWith(parser, "done")
    /\ UNCHANGED <<inputs, mode, read, eof, written, parser, ctx, stored>>

ClientLeaves ==
    /\ pc # "done" /\ ctx = "live"
    /\ ctx' = "cancelled"
    /\ UNCHANGED <<inputs, mode, pc, read, eof, written, parser, stored, tracking>>

Done == pc = "done" /\ UNCHANGED vars

\* What the handler does without waiting for the upstream: a call that has a cancelled
\* context returns its error.
Handler ==
    \/ TrackEnds \/ Write \/ WriteFails \/ Reply \/ Close
    \/ ctx = "cancelled" /\ (NoAnswer \/ ReadAllFails \/ ReadBreaks)

Upstream == Respond \/ NoAnswer \/ ReadAll \/ ReadAllFails \/ ReadChunk \/ ReadEnd \/ ReadBreaks

Next == Handler \/ Upstream \/ ClientLeaves \/ Done

Spec == Init /\ [][Next]_vars

\* The handler's goroutine runs; the upstream may be silent for ever (no timeout is set on
\* the transport), and the client may stay for ever.
FairSpec == Spec /\ WF_vars(Handler)

-----------------------------------------------------------------------------
(* Properties *)

\* What the first n symbols of an answer hold, told from the wire alone: the lines that end
\* there, and the documents that do.
LinesIn(a, n) == {i \in DOMAIN a : \E m \in 1..n : Wire(a)[m] = [line |-> i, half |-> 2]}
DocumentsIn(a, n) ==
    {i \in LinesIn(a, n) : /\ a[i].kind \in {"data", "json"} /\ a[i].part = 1
                           /\ \A j \in i..i + a[i].of - 1 : j \in LinesIn(a, n)}
\* The text of some documents, one after the other, in bytes; and in characters what its
\* first MaxText bytes are.
TextBytes(a, D) == Total([i \in DOMAIN a |-> a[i].payload.text.bytes], D)
TextKept(a, D) ==
    Total([i \in DOMAIN a |->
              LET text == a[i].payload.text
                  room == Larger(MaxText - TextBytes(a, {j \in D : j < i}), 0)
              IN Runes(text, Smaller(text.bytes, room))], D)

\* The first n symbols: the least characters and the most bytes sanitizeChunk may make of
\* them, and their own bytes.
SymbolChars(a, symbol) == IF symbol = LineFeed THEN 0 ELSE a[symbol.line].whole[symbol.half].chars
SymbolRaw(a, symbol) ==
    IF symbol = LineFeed THEN 1
    ELSE Larger(a[symbol.line].whole[symbol.half].bytes, a[symbol.line].cut[symbol.half].bytes)
SymbolBytes(a, symbol) == IF symbol = LineFeed THEN 1 ELSE BytesOf(a[symbol.line], symbol.half)
CharsIn(a, n) == Total([m \in DOMAIN Wire(a) |-> SymbolChars(a, Wire(a)[m])], 1..n)
RawIn(a, n) == Total([m \in DOMAIN Wire(a) |-> SymbolRaw(a, Wire(a)[m])], 1..n)
BytesIn(a, n) == Total([m \in DOMAIN Wire(a) |-> SymbolBytes(a, Wire(a)[m])], 1..n)

\* What was read of this answer.
DocumentsRead == DocumentsIn(answer, read)
TextRead == TextKept(answer, DocumentsRead)
Reported(counts) == Max(counts \cup {0})
InputsRead == {answer[i].payload.in : i \in DocumentsRead}
OutputsRead == {answer[i].payload.out : i \in DocumentsRead}
NamesRead == {i \in DocumentsRead : answer[i].payload.model # NoModel}

\* Each event of an answer ends with a blank line, as server-sent events do, and the lines
\* of one document follow each other.
WellFormed(a) ==
    \A i \in DOMAIN a :
        /\ a[i].kind = "data" /\ a[i].part = a[i].of /\ i < Len(a) => a[i + 1].kind = "blank"
        /\ a[i].part < a[i].of => i < Len(a) /\ a[i + 1] = [a[i] EXCEPT !.part = @ + 1]

\* Both Read and Close may come to finish, the tracker may fail, and the handler goes on from
\* several places after it (stream.go:43-63, handler.go:162-177): whatever the way, a streamed
\* answer whose handler is done has been looked at for usage, no answer has been handed to
\* the tracker twice, and none has two rows.
BilledOnce ==
    /\ mode = "streaming" /\ pc = "done" => finished
    /\ calls <= 1 /\ stored <= calls

\* A stream is cut into chunks anywhere, broken off anywhere, and its end is seen by Read,
\* with data or alone, by Close after it, or by Close only (stream.go:43-63).  However that
\* went, when the handler is done it has been billed at most once, for exactly the documents
\* that were wholly read: their largest counts, their first name, or the estimate of the
\* characters in the first MaxText bytes of their text (stream.go:195-200), half a character
\* being as many as it has bytes.  Only where there was no text at all do the cuts show, for a
\* character cut in two counts twice (stream.go:476): if all of it surely fits (stream.go:143-156)
\* the estimate lies between that of the characters and that of the bytes, and otherwise it
\* is of something, and of no more than the bytes there were or there is room for.
BilledAsRead ==
    pc = "done" /\ mode = "streaming" /\ WellFormed(answer) =>
        LET in == IF Reported(InputsRead) # 0 THEN Reported(InputsRead) ELSE Estimate(request.chars)
            model == IF NamesRead # {} THEN answer[Min(NamesRead)].payload.model ELSE request.model
        IN
        IF calls = 0 THEN model = NoModel \/ (in = 0 /\ OutputsRead \subseteq {0} /\ BytesIn(answer, read) = 0)
        ELSE /\ billed.in = in /\ billed.model = model
             /\ IF Reported(OutputsRead) # 0 THEN billed.out = Reported(OutputsRead)
                ELSE IF TextRead # 0 THEN billed.out = Estimate(TextRead)
                ELSE IF RawIn(answer, read) <= MaxText
                THEN billed.out \in Estimate(CharsIn(answer, read))..Estimate(BytesIn(answer, read))
                ELSE billed.out \in 1..Estimate(Larger(BytesIn(answer, read), MaxText))

\* A provider reports its counts once, or several times as they grow.  Then, when the report
\* that ends the stream was read, the exchange is billed exactly that report, whatever the
\* documents before it said and wherever they were cut (README.md:462: "LCG records exact
\* tokens").
TerminalUsageIsExact ==
    LET reports == {i \in DOMAIN answer : answer[i].payload.out # 0}
        Grow == \A i \in reports : \A j \in reports :
                    i <= j => answer[i].payload.out <= answer[j].payload.out
    IN
    pc = "done" /\ mode = "streaming" /\ calls = 1 /\ WellFormed(answer) /\ Grow /\ reports # {}
      /\ Max(reports) \in DocumentsRead =>
            /\ billed.out = answer[Max(reports)].payload.out
            /\ InputsRead # {0} => billed.in \in InputsRead

\* The upstream may be silent for ever and nothing bounds the wait but the client: once the
\* client has gone, or a write to it has failed, the handler ends.
LeavingEndsTheHandler == ctx = "cancelled" ~> pc = "done"

\* README.md:462: a streaming request "still writes the final usage row": a stream of a
\* priced model whose every byte, and there were some, had been sent on to a client that was
\* still there when the end of the stream was read, has its row when its handler is done, as
\* long as storage works.  (The end is then read alone, and resume says so.)
StreamHasRow ==
    pc = "done" /\ mode = "streaming" /\ eof /\ wire # <<>> /\ written = Len(wire)
      /\ resume = "close" /\ calls = 1 /\ billed.model \in Priced =>
        stored = 1

\* docs/architecture.md:63: "If a provider stream does not expose terminal usage, LLM Cost
\* Guardian falls back to prompt/output estimation": the text of a stream whose terminal
\* report was never read is billed at its estimate at least.
FallbackCoversText ==
    pc = "done" /\ mode = "streaming" /\ stored = 1 /\ read < Len(wire) =>
        billed.out >= Estimate(TextRead)
=============================================================================
