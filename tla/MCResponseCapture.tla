------------------------- MODULE MCResponseCapture -------------------------
(* Answers as the providers stream them, with the documents of the tests in *)
(* internal/proxy/handler_test.go, cut anywhere.                            *)
EXTENDS DocumentCapture, TLC

MCModels == {"gpt-4o", "claude", "gemini", "gpt-4o-dated"}

Counts(inKey, in, outKey, out) == Obj(inKey :> Num(in) @@ outKey :> Num(out))

OpenAIDelta == Obj("model" :> Str("gpt-4o", 6) @@ "choices" :>
    Arr(<<Obj("delta" :> Obj("role" :> Str("assistant", 9) @@ "content" :> Str("Hello", 5)))>>))
OpenAIFinal == Obj("model" :> Str("gpt-4o", 6) @@ "choices" :> Arr(<<>>)
    @@ "usage" :> Counts("prompt_tokens", 18, "completion_tokens", 6))
OpenAIDated == Obj("model" :> Str("gpt-4o-dated", 12) @@ "choices" :> Arr(<<>>))
AnthropicStart == Obj("type" :> Str("message_start", 13) @@ "message" :>
    Obj("model" :> Str("claude", 6) @@ "usage" :> Counts("input_tokens", 21, "output_tokens", 1)))
AnthropicDelta == Obj("type" :> Str("content_block_delta", 19) @@ "delta" :>
    Obj("type" :> Str("text_delta", 10) @@ "text" :> Str("Hello from", 10)))
AnthropicStop == Obj("type" :> Str("message_delta", 13)
    @@ "usage" :> Obj("output_tokens" :> Num(9)))
VertexPart == Obj("candidates" :> Arr(<<Obj("content" :> Obj("parts" :>
    Arr(<<Obj("text" :> Str("Hello", 5))>>)))>>)
    @@ "usageMetadata" :> Counts("promptTokenCount", 7, "candidatesTokenCount", 2)
    @@ "modelVersion" :> Str("gemini", 6))
\* A Bedrock metadata event with a guardrail's own usage beside the model's.
BedrockMetadata == Obj("usage" :> Obj("inputTokens" :> Digits(7, 1) @@ "outputTokens" :> Num(3))
    @@ "trace" :> Obj("usage" :> Counts("inputTokens", 5, "outputTokens", 2)))
BedrockWrapped == Obj("metadata" :> BedrockMetadata)
\* An error instead of an answer, and two models in one document.
ErrorBody == Obj("error" :> Obj("message" :> Str("Overloaded", 10)))
TwoModels == Obj("a" :> Obj("model" :> Str("gpt-4o", 6)) @@ "b" :> Obj("modelId" :> Str("claude", 6)))

VertexArray == Arr(<<VertexPart, ErrorBody>>)

MCDocuments == {OpenAIDelta, OpenAIFinal, OpenAIDated, AnthropicStart, AnthropicDelta,
                AnthropicStop, VertexPart, BedrockMetadata, BedrockWrapped, ErrorBody, TwoModels,
                VertexArray}

\* A text's characters are as even in width as they can be; what is left of the last one
\* counts as many as it has bytes.
MCRunes(text, n) ==
    LET End(k) == (k * text.bytes) \div text.chars
        fit == Max({k \in 0..text.chars : k = 0 \/ End(k) <= n})
    IN fit + IF fit = text.chars THEN 0 ELSE n - (IF fit = 0 THEN 0 ELSE End(fit))

Ascii(n) == [chars |-> n, bytes |-> n]
NoPayload == [in |-> 0, out |-> 0, model |-> NoModel, text |-> Ascii(0)]
LineWith(kind, payload, part, of, chars) ==
    LET halves == <<Ascii(chars - chars \div 2), Ascii(chars \div 2)>>
    IN [kind |-> kind, payload |-> payload, part |-> part, of |-> of, bytes |-> chars,
        whole |-> halves, cut |-> halves]
Blank == LineWith("blank", NoPayload, 0, 0, 0)
Other == LineWith("other", NoPayload, 0, 0, 7)
\* Eight characters, the fifth one of two bytes; and two bytes that are no characters.
Wide == [Other EXCEPT !.bytes = 9,
            !.whole = <<[chars |-> 5, bytes |-> 6], Ascii(3)>>,
            !.cut = <<[chars |-> 5, bytes |-> 7], [chars |-> 4, bytes |-> 6]>>]
Control == [LineWith("other", NoPayload, 0, 0, 0) EXCEPT !.bytes = 2]
\* OpenAI's answer is in characters of two bytes.
Found(doc, provider) ==
    LET width == IF doc = OpenAIDelta THEN 2 ELSE 1
    IN CHOOSE p \in PayloadsOf(doc, provider) : p.text.bytes = width * p.text.chars
Data(doc, provider) == LineWith("data", Found(doc, provider), 1, 1, 10)
Part(doc, provider, i, n) == LineWith("data", Found(doc, provider), i, n, 5)
Json(doc, provider) == LineWith("json", Found(doc, provider), 1, 1, 12)
\* The end-of-stream event, data: [DONE].
Ended == LineWith("data", NoPayload, 1, 1, 12)

MCAnswers == {
    \* The counts in the last document only.
    << Data(OpenAIDelta, "openai"), Blank, Data(OpenAIFinal, "openai"), Blank, Ended, Blank, Blank >>,
    \* The input count first, growing output counts, and an event: line before each.
    << Other, Data(AnthropicStart, "anthropic"), Blank, Data(AnthropicDelta, "anthropic"), Blank,
       Other, Data(AnthropicStop, "anthropic"), Blank >>,
    \* Bare JSON lines, the last one without a line feed, and a document over two data lines.
    << Json(VertexPart, "vertex-ai"), Json(BedrockWrapped, "bedrock") >>,
    << Part(VertexPart, "vertex-ai", 1, 2), Part(VertexPart, "vertex-ai", 2, 2), Blank >>,
    \* Text without any counts, more than is kept, cut within a character; an error; a model
    \* without a price.
    << Data(AnthropicDelta, "anthropic"), Blank, Data(OpenAIDelta, "openai"), Blank >>,
    << Json(ErrorBody, "openai") >>,
    << Json(TwoModels, "bedrock"), Json(VertexArray, "vertex-ai") >>,
    << Data(OpenAIDated, "openai"), Blank >>,
    \* Two events without the blank line between them.
    << Data(OpenAIDelta, "openai"), Data(OpenAIFinal, "openai"), Blank >>,
    \* No JSON at all, with a character that can be cut, as much as is kept, and more, after
    \* a blank line; bytes without characters; nothing.
    << Wide >>,
    << Blank, Wide, Other >>,
    << Control, Blank >>,
    << Blank >> }

MCBodies == {ExtractResponseUsage(OpenAIFinal, "openai"), ExtractResponseUsage(ErrorBody, "bedrock"),
             ExtractResponseUsage(ErrorBody, "openai")}

Message(content) == Obj("role" :> Str("user", 4) @@ "content" :> content)
ChatRequest == Obj("model" :> Str("gpt-4o", 6) @@ "messages" :>
    Arr(<<Message(Str("Hi", 2)), Message(Null), Message(Str("there", 5))>>))
\* Content that is not a string cannot be read.
PartsRequest == Obj("model" :> Str("gpt-4o", 6)
    @@ "messages" :> Arr(<<Message(Arr(<<Obj("text" :> Str("Hi", 2))>>))>>))
TextRequest == Obj("contents" :> Arr(<<Obj("parts" :> Arr(<<Obj("text" :> Str("Hi", 2))>>))>>))
MCRequests == {ExtractRequestInfo(ChatRequest, "openai", NoModel),
               ExtractRequestInfo(PartsRequest, "openai", NoModel),
               ExtractRequestInfo(TextRequest, "vertex-ai", "gemini")}

-----------------------------------------------------------------------------
(* Everything that is read, with its parts. *)
RECURSIVE PartsOf(_), DepthOf(_)
PartsOf(value) ==
    {value} \cup UNION (CASE value.kind = "obj" -> {PartsOf(value.fields[k]) : k \in DOMAIN value.fields}
                         [] value.kind = "arr" -> {PartsOf(value.items[i]) : i \in DOMAIN value.items}
                         [] OTHER -> {})
DepthOf(value) ==
    CASE value.kind = "obj" -> 1 + Reported({DepthOf(value.fields[k]) : k \in DOMAIN value.fields})
      [] value.kind = "arr" -> 1 + Reported({DepthOf(value.items[i]) : i \in DOMAIN value.items})
      [] OTHER -> 0

MCValues == {Null} \cup UNION {PartsOf(v) : v \in MCDocuments \cup {ChatRequest, PartsRequest, TextRequest}}
MCDepth == [v \in MCValues |-> DepthOf(v)]
=============================================================================
