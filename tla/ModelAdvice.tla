---------------------------- MODULE ModelAdvice ----------------------------
(***************************************************************************)
(* Prices and what is advised from them: the pricing files and the         *)
(* registry built of them (pkg/providers, bootstrap.NewRegistry), the cost *)
(* of a call (tracker/cost.go) and RecommendModels (tracker/               *)
(* intelligence.go).  Prices are whole numbers of one small unit a token.  *)
(***************************************************************************)
EXTENDS Integers, Sequences, SequencesExt, FiniteSets, FiniteSetsExt

CONSTANTS Models, \* the names of models
          Words   \* by model, the words normalizeModelFamily knows that its name contains

ASSUME WordsAssumption == DOMAIN Words = Models

Supported == {"openai", "anthropic", "azure-openai", "bedrock", "vertex-ai"}
ModelPricing == [model : Models, in : Nat, out : Nat]

\* Mutant: nobody looks whether a file lists a model.
Loads_Empty(file) == file.provider \in Supported

\* LoadPricing and NewProvider: a file without a known provider or without a model is an error.
Loads(file) == file.provider \in Supported /\ file.models # <<>>

\* NewRegistry: the program starts when every file loads and Register meets no name twice.
Starts(files) ==
    /\ \A i \in DOMAIN files : Loads(files[i])
    /\ \A i, j \in DOMAIN files : files[i].provider = files[j].provider => i = j

\* By provider, the models of its file as they are listed.
NewRegistry(files) ==
    [p \in {files[i].provider : i \in DOMAIN files} |->
        (CHOOSE file \in ToSet(files) : file.provider = p).models]

\* StaticProvider.models: of a model listed twice the last entry counts, though Models()
\* returns both.
Entries(registry, provider, model) ==
    {i \in DOMAIN registry[provider] : registry[provider][i].model = model}
SupportsModel(registry, provider, model) ==
    provider \in DOMAIN registry /\ Entries(registry, provider, model) # {}
PricePerToken(registry, provider, model) ==
    registry[provider][Max(Entries(registry, provider, model))]

\* CostCalculator.Calculate, of a model that has a price.
Calculate(registry, provider, model, in, out) ==
    LET price == PricePerToken(registry, provider, model) IN in * price.in + out * price.out

-----------------------------------------------------------------------------
(* RecommendModels *)

FamilyNames == << <<{"gpt-4o"}, "gpt-4o">>, <<{"gpt-4.1"}, "gpt-4.1">>, <<{"sonnet"}, "sonnet">>,
                  <<{"haiku"}, "haiku">>, <<{"opus"}, "opus">>,
                  <<{"gemini", "flash"}, "gemini-flash">>, <<{"gemini", "pro"}, "gemini-pro">>,
                  <<{"nova-lite"}, "nova-lite">>, <<{"nova-pro"}, "nova-pro">> >>

\* The first line of the switch that fits: gpt-4o-mini is of the family of gpt-4o.
NormalizeModelFamily(model) ==
    LET fitting == SelectSeq(FamilyNames, LAMBDA line : line[1] \subseteq Words[model])
    IN IF fitting = <<>> THEN "" ELSE Head(fitting)[2]

\* Every model of every provider, the providers in the order Go's map gives them in.
Candidates(registry, order) ==
    FlattenSeq([i \in DOMAIN order |->
        [j \in DOMAIN registry[order[i]] |->
            [provider |-> order[i], model |-> registry[order[i]][j].model]]])

\* Mutant: a candidate that costs the same replaces the best one so far.
Best_OrEqual(registry, own, in, out, order) ==
    LET Cost(c) == Calculate(registry, c.provider, c.model, in, out)
        Better(best, c) == /\ NormalizeModelFamily(c.model) = NormalizeModelFamily(own.model)
                           /\ Cost(c) <= Cost(best)
    IN FoldLeft(LAMBDA best, c : IF Better(best, c) THEN c ELSE best,
                own, Candidates(registry, order))

\* The loop over the candidates, which starts from the model in use.
Best(registry, own, in, out, order) ==
    LET Cost(c) == Calculate(registry, c.provider, c.model, in, out)
        Better(best, c) == /\ NormalizeModelFamily(c.model) = NormalizeModelFamily(own.model)
                           /\ Cost(c) < Cost(best)
    IN FoldLeft(LAMBDA best, c : IF Better(best, c) THEN c ELSE best,
                own, Candidates(registry, order))

\* Mutant: the averages are rounded up.
Average_Up(tokens, count) == (tokens + count - 1) \div count

\* avgInput and avgOutput: Go's division of whole numbers, which rounds towards zero.
Average(tokens, count) == IF tokens >= 0 THEN tokens \div count ELSE -((-tokens) \div count)

\* What may come of a group of records of one model: for each order of the providers the
\* model found and the saving claimed; the model in use, and no saving, is no recommendation.
RecommendModels(registry, own, count, in, out) ==
    LET avgIn == Average(in, count)
        avgOut == Average(out, count)
        Cost(c) == Calculate(registry, c.provider, c.model, avgIn, avgOut)
        found == {Best(registry, own, avgIn, avgOut, order) : order \in SetToSeqs(DOMAIN registry)}
    IN
    IF /\ SupportsModel(registry, own.provider, own.model)
       /\ NormalizeModelFamily(own.model) # ""
    THEN {[to |-> best, savings |-> (Cost(own) - Cost(best)) * count] : best \in found}
    ELSE {[to |-> own, savings |-> 0]}
=============================================================================
