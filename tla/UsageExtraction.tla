-------------------------- MODULE UsageExtraction --------------------------
(***************************************************************************)
(* What the proxy finds in a JSON document (internal/proxy/extractor.go    *)
(* and the second half of stream.go): the token counts and the model, by   *)
(* each provider's own layout or else by searching the whole document, and *)
(* the text.  A JSON value is a tree, without the booleans, which no       *)
(* layout reads; a text is a number of characters, of which the first and  *)
(* the last are not blank, each of one to four bytes.  What walks a        *)
(* document is a recursive function on JSON values.                        *)
(***************************************************************************)
EXTENDS StreamParser, FiniteSets

CONSTANTS
    Values, \* JSON values, with all their parts
    Depth   \* how deep each of them is nested

OpenAILike == {"openai", "azure-openai"}
Providers == OpenAILike \cup {"anthropic", "bedrock", "vertex-ai"}

\* encoding/json refuses what is nested deeper.
MaxDepth == 10000

Null == [kind |-> "null"]
Num(n) == [kind |-> "num", n |-> n]
Str(s, chars) == [kind |-> "str", s |-> s, chars |-> chars]
\* A string of digits, which firstInt reads as a number; no model is named by one.
Digits(n, chars) == [kind |-> "digits", n |-> n, chars |-> chars]
Arr(items) == [kind |-> "arr", items |-> items]
Obj(fields) == [kind |-> "obj", fields |-> fields]

\* A null, a number, a text, an array, or an object with any fields.
ASSUME ValuesAssumption ==
    /\ Null \in Values
    /\ \A v \in Values :
          \/ v = Null
          \/ v.kind = "num" /\ v = Num(v.n) /\ v.n \in Nat
          \/ v.kind = "str" /\ v = Str(v.s, v.chars) /\ v.chars \in Nat
          \/ v.kind = "digits" /\ v = Digits(v.n, v.chars) /\ v.n \in Nat /\ v.chars \in Nat \ {0}
          \/ v.kind = "arr" /\ v = Arr(v.items) /\ v.items \in Seq(Values)
          \/ /\ v.kind = "obj" /\ v = Obj(v.fields) /\ IsFiniteSet(DOMAIN v.fields)
             /\ v.fields \in [DOMAIN v.fields -> Values]
\* What is part of a value is not as deep as the value.
ASSUME DepthAssumption ==
    /\ Depth \in [Values -> 0..MaxDepth]
    /\ \A v \in Values :
          /\ v.kind = "arr" => \A i \in DOMAIN v.items : Depth[v.items[i]] < Depth[v]
          /\ v.kind = "obj" => \A k \in DOMAIN v.fields : Depth[v.fields[k]] < Depth[v]

Has(value, key) == value.kind = "obj" /\ key \in DOMAIN value.fields
\* decoded[key]; a key that is not there reads as null.
Field(value, key) == IF Has(value, key) THEN value.fields[key] ELSE Null
Items(value) == IF value.kind = "arr" THEN value.items ELSE <<>>

\* int64Value and stringValue.
IntOf(value) == IF value.kind = "num" THEN value.n ELSE 0
NameOf(value) == IF value.kind = "str" THEN value.s ELSE NoModel

-----------------------------------------------------------------------------
(* The providers' own layouts *)

\* json.Unmarshal into a struct fails on a value of another kind than the field's.
Fits(value, kind) == value.kind \in {kind, "null"} \/ (kind = "str" /\ value.kind = "digits")

Strict(found, usage) == [found |-> found, usage |-> usage]
Nothing == Strict(FALSE, NoUsage)

\* extractOpenAIResponse and extractAnthropicResponse: a top-level model and a usage object
\* with two counts, and for OpenAI their total, which nothing reads; every other field is
\* ignored, and none of these has to be there.
StructUsage(doc, inKey, outKey, others) ==
    LET usage == Field(doc, "usage")
        in == Field(usage, inKey)
        out == Field(usage, outKey)
        model == Field(doc, "model")
    IN
    IF /\ Fits(doc, "obj") /\ Fits(usage, "obj") /\ Fits(model, "str")
       /\ \A key \in {inKey, outKey} \cup others : Fits(Field(usage, key), "num")
    THEN Strict(TRUE, [in |-> IntOf(in), out |-> IntOf(out), model |-> NameOf(model)])
    ELSE Nothing

\* extractBedrockResponse and extractVertexAIResponse: without the usage object there is
\* nothing, and what is of another kind counts as 0.
MapUsage(doc, usageKey, inKey, outKey, modelKey) ==
    LET usage == Field(doc, usageKey) IN
    IF usage.kind = "obj"
    THEN Strict(TRUE, [in |-> IntOf(Field(usage, inKey)), out |-> IntOf(Field(usage, outKey)),
                       model |-> NameOf(Field(doc, modelKey))])
    ELSE Nothing

ExtractResponseUsage(doc, provider) ==
    CASE provider \in OpenAILike ->
            StructUsage(doc, "prompt_tokens", "completion_tokens", {"total_tokens"})
      [] provider = "anthropic" -> StructUsage(doc, "input_tokens", "output_tokens", {})
      [] provider = "bedrock" -> MapUsage(doc, "usage", "inputTokens", "outputTokens", "modelId")
      [] provider = "vertex-ai" ->
            MapUsage(doc, "usageMetadata", "promptTokenCount", "candidatesTokenCount",
                     "modelVersion")
      [] OTHER -> Nothing

-----------------------------------------------------------------------------
(* The search of a whole document *)

InputKeys == <<"prompt_tokens", "input_tokens", "inputTokens", "promptTokenCount",
               "inputTokenCount">>
OutputKeys == <<"completion_tokens", "output_tokens", "outputTokens", "candidatesTokenCount",
                "outputTokenCount">>
ModelKeys == <<"model", "modelId", "modelVersion">>

\* firstInt and firstString: the first of the keys that holds a value of the kind.
FirstInt(value, keys) ==
    LET held == {i \in DOMAIN keys : Field(value, keys[i]).kind \in {"num", "digits"}}
    IN IF held = {} THEN 0 ELSE Field(value, keys[Min(held)]).n
FirstString(value, keys) ==
    LET held == {i \in DOMAIN keys : Field(value, keys[i]).kind = "str" /\ Field(value, keys[i]).chars > 0}
    IN IF held = {} THEN NoModel ELSE Field(value, keys[Min(held)]).s

OwnUsage(value) == [in |-> FirstInt(value, InputKeys), out |-> FirstInt(value, OutputKeys),
                    model |-> FirstString(value, ModelKeys)]

\* Every report that merging one of `found` into each of `sofar` can give.
MergeEach(sofar, found) == {MergeUsage(u, f) : u \in sofar, f \in found}

\* recursiveUsage: all it may report, for Go ranges over a map in any order.
RecursiveUsage[value \in Values] ==
    CASE value.kind = "obj" ->
            UNION {FoldLeft(MergeEach, {OwnUsage(value)},
                            [i \in DOMAIN order |-> RecursiveUsage[value.fields[order[i]]]]) :
                   order \in SetToSeqs(DOMAIN value.fields)}
      [] value.kind = "arr" ->
            FoldLeft(MergeEach, {NoUsage},
                     [i \in DOMAIN value.items |-> RecursiveUsage[value.items[i]]])
      [] OTHER -> {NoUsage}

\* extractStreamUsage: the provider's layout if it reports anything, the search otherwise.
ExtractStreamUsage(doc, provider) ==
    LET strict == ExtractResponseUsage(doc, provider) IN
    IF strict.found /\ strict.usage # NoUsage THEN {strict.usage} ELSE RecursiveUsage[doc]

-----------------------------------------------------------------------------
(* Text *)

Chars(value) == IF value.kind \in {"str", "digits"} THEN value.chars ELSE 0

\* appendContentText
ContentText[value \in Values] ==
    CASE value.kind = "obj" ->
            Chars(Field(value, "text")) + Chars(Field(value, "outputText"))
                 + ContentText[Field(value, "content")] + ContentText[Field(value, "parts")]
                 + ContentText[Field(value, "delta")]
      [] value.kind = "arr" -> SumFunction([i \in DOMAIN value.items |-> ContentText[value.items[i]]])
      [] OTHER -> Chars(value)

\* appendRecursiveText: every string of the document, and what is content once more at every
\* level above it.
RecursiveText[value \in Values] ==
    CASE value.kind = "obj" ->
            ContentText[value]
              + SumFunction([k \in DOMAIN value.fields |-> RecursiveText[value.fields[k]]])
      [] value.kind = "arr" -> SumFunction([i \in DOMAIN value.items |-> RecursiveText[value.items[i]]])
      [] OTHER -> Chars(value)

\* The content of some fields of a document.
TextUnder(doc, keys) == SumFunction([k \in keys |-> ContentText[Field(doc, k)]])

\* The fields each provider's extractor looks at.
OwnText(doc, provider) ==
    LET choices == Items(Field(doc, "choices")) IN
    CASE provider \in OpenAILike ->
            SumFunction([i \in DOMAIN choices |-> ContentText[Field(choices[i], "delta")]
                                                  + ContentText[Field(choices[i], "message")]])
      [] provider = "anthropic" -> TextUnder(doc, {"delta", "content_block", "message"})
      [] provider = "vertex-ai" -> TextUnder(doc, {"candidates", "content"})
      [] provider = "bedrock" -> TextUnder(doc, {"delta", "output", "chunk"})
      [] OTHER -> 0

\* extractStreamText: with no text where the provider puts it, every string is text.
ExtractStreamText(doc, provider) ==
    IF doc.kind # "obj" THEN 0
    ELSE IF OwnText(doc, provider) # 0 THEN OwnText(doc, provider)
    ELSE RecursiveText[doc]

\* What processPayload makes of a document, of a text with as many bytes as that may have.
PayloadsOf(doc, provider) ==
    LET chars == ExtractStreamText(doc, provider) IN
    {[in |-> u.in, out |-> u.out, model |-> u.model, text |-> [chars |-> chars, bytes |-> bytes]] :
        u \in ExtractStreamUsage(doc, provider), bytes \in chars..4 * chars}

-----------------------------------------------------------------------------
(* Requests *)

\* A text and the line feed after it; a blank text is left out.
LineOf(chars) == IF chars = 0 THEN 0 ELSE chars + 1

\* appendTextContent: every text on a line of its own, a number as fmt.Sprint writes it.
PromptText[value \in Values] ==
    CASE value.kind = "obj" ->
            MapThenSumSet(LAMBDA k : PromptText[Field(value, k)],
                          {"text", "content", "parts", "inlineData"})
      [] value.kind = "arr" -> SumFunction([i \in DOMAIN value.items |-> PromptText[value.items[i]]])
      [] value.kind = "num" -> LineOf(Len(ToString(value.n)))
      [] OTHER -> LineOf(Chars(value))

\* strings.TrimSpace of texts with a line feed after each: between the first and the last
\* that is not empty, the line feeds stay.
Trimmed(texts) ==
    LET written == {i \in DOMAIN texts : texts[i] > 0}
    IN IF written = {} THEN 0 ELSE SumFunction(texts) + Max(written) - Min(written)

ReadAs(model, chars) == [model |-> model, chars |-> chars]
Unread == ReadAs(NoModel, 0)

\* extractOpenAIRequest and extractAnthropicRequest: every message has a string for content,
\* or the request cannot be read at all.
StructRequest(body, systemKey) ==
    LET messages == Items(Field(body, "messages"))
        fits == /\ Fits(body, "obj") /\ Fits(Field(body, "messages"), "arr")
                /\ Fits(Field(body, "model"), "str") /\ Fits(Field(body, systemKey), "str")
                /\ \A i \in DOMAIN messages :
                      /\ Fits(messages[i], "obj")
                      /\ \A key \in {"role", "content"} : Fits(Field(messages[i], key), "str")
        texts == <<Chars(Field(body, systemKey))>>
                   \o [i \in DOMAIN messages |-> Chars(Field(messages[i], "content"))]
    IN IF fits THEN ReadAs(NameOf(Field(body, "model")), Trimmed(texts)) ELSE Unread

\* ExtractRequestInfo: Bedrock and Vertex AI name the model in the path.
ExtractRequestInfo(body, provider, pathModel) ==
    LET Read(keys) ==
            LET lines == MapThenSumSet(LAMBDA k : PromptText[Field(body, k)], keys)
            IN IF Fits(body, "obj") THEN ReadAs(pathModel, Larger(lines - 1, 0)) ELSE Unread
    IN
    CASE provider \in OpenAILike -> StructRequest(body, "")
      [] provider = "anthropic" -> StructRequest(body, "system")
      [] provider = "bedrock" -> Read({"system", "messages", "inputText", "prompt"})
      [] provider = "vertex-ai" -> Read({"systemInstruction", "contents"})
      [] OTHER -> Unread

-----------------------------------------------------------------------------
\* The documents a value contains, itself included.
Within[value \in Values] ==
    CASE value.kind = "obj" -> {value} \cup UNION {Within[value.fields[k]] : k \in DOMAIN value.fields}
      [] value.kind = "arr" -> UNION {Within[value.items[i]] : i \in DOMAIN value.items}
      [] OTHER -> {}

\* Reading a document again, its objects in any order, gives the same counts, and the same
\* model unless two of its objects name different ones.
ReadsTheSame(doc, provider) ==
    LET names == {FirstString(v, ModelKeys) : v \in Within[doc]} \ {NoModel} IN
    \A p, q \in PayloadsOf(doc, provider) :
        /\ p.in = q.in /\ p.out = q.out
        /\ (\A a, b \in names : a = b) => p.model = q.model
=============================================================================
