------------------------------- MODULE Usage -------------------------------
(***************************************************************************)
(* What the provider adapters (src/internal/proxy/adapter.go) read of an   *)
(* answer for billing, whole or streamed line by line, and what            *)
(* CreateSpendRecord (src/internal/spend/spend.go) makes of it.            *)
(*                                                                         *)
(* A JSON object is a function on those of its fields that are there; one  *)
(* that cannot be read, and a line that is no data, have none.             *)
(***************************************************************************)
EXTENDS Integers, SequencesExt

CONSTANTS
    Price,    \* ModelPrice of the model group: of a prompt token, of a completion token
    NoSpend   \* no record is made

ASSUME PriceAssumption == Price \in Seq(Int) /\ NoSpend \notin Int

(* What was read up to some line: the request id, whether there was any    *)
(* usage, and the counts in spend.TokenUsage.                              *)
Nothing == [id |-> "", found |-> FALSE, tokens |-> [prompt |-> 0, completion |-> 0, total |-> 0]]

WithField(json, field, otherwise) == IF field \in DOMAIN json THEN json[field] ELSE otherwise

(* mutant: what earlier lines said is forgotten *)
normalizedTokenUsageAnew(source, base) ==
    LET prompt == WithField(source, "input_tokens", WithField(source, "prompt_tokens", 0))
        completion == WithField(source, "output_tokens", WithField(source, "completion_tokens", 0))
    IN [prompt |-> prompt, completion |-> completion,
        total |-> WithField(source, "total_tokens", prompt + completion)]

(* A count that the source has not is left as it was; of two names for the *)
(* same count the second wins.                                             *)
normalizedTokenUsage(source, base) ==
    LET prompt == WithField(source, "input_tokens",
                            WithField(source, "prompt_tokens", base.prompt))
        completion == WithField(source, "output_tokens",
                                WithField(source, "completion_tokens", base.completion))
        total == IF DOMAIN source = {} THEN base.total ELSE prompt + completion
    IN [prompt |-> prompt, completion |-> completion,
        total |-> WithField(source, "total_tokens", total)]

mergeUsage(read, json, field) ==
    IF field \in DOMAIN json
    THEN [read EXCEPT !.found = TRUE, !.tokens = normalizedTokenUsage(json[field], @)]
    ELSE read

(* buildSpendPayloadFromEnvelope, of a whole answer *)
BuildSpendPayload(json) ==
    mergeUsage([Nothing EXCEPT !.id = WithField(json, "messageID", WithField(json, "ID", ""))],
               json, IF "messageUsage" \in DOMAIN json THEN "messageUsage" ELSE "usage")

parseSpendStreamLine(read, json, anthropic) ==
    LET atMessage == anthropic /\ WithField(json, "type", "") = "message_start"
    IN mergeUsage([read EXCEPT !.id = WithField(json, "ID", WithField(json, "messageID", @))],
                  json, IF atMessage THEN "messageUsage" ELSE "usage")

(* streamToClient, of the lines of a stream *)
StreamPayload(lines, anthropic) ==
    FoldLeft(LAMBDA read, json : parseSpendStreamLine(read, json, anthropic), Nothing, lines)

(* CreateSpendRecord; forwardOnce hands over nothing if there was no usage *)
SpendOf(payload) ==
    IF \/ ~payload.found
       \/ \A count \in DOMAIN payload.tokens : payload.tokens[count] <= 0
       \/ Len(Price) < 2
    THEN NoSpend
    ELSE Price[1] * payload.tokens.prompt + Price[2] * payload.tokens.completion

-----------------------------------------------------------------------------
(* The answers of the providers, each in its two forms (the examples are   *)
(* those of adapter_test.go, proxy_test.go and docs/agents/evals): whole,  *)
(* and as a stream whose reports are cumulative.                           *)

OpenAIUsage(p, c) == [prompt_tokens |-> p, completion_tokens |-> c, total_tokens |-> p + c]

(* The usage comes last, or never, or with every chunk. *)
OpenAIAnswers(p, c) ==
    {[format |-> "openai", prompt |-> p, completion |-> c,
      whole |-> [ID |-> "id", usage |-> OpenAIUsage(p, c)],
      lines |-> <<[ID |-> "id"]>> \o before \o <<[ID |-> "id", usage |-> OpenAIUsage(p, c)], <<>> >>]
        : before \in {<<>>} \cup {<<[ID |-> "id", usage |-> OpenAIUsage(p, d)]>> : d \in 0..c}}

(* The input is counted in message_start, the output in the deltas. *)
AnthropicAnswers(p, c) ==
    {[format |-> "anthropic", prompt |-> p, completion |-> c,
      whole |-> [ID |-> "id", type |-> "message",
                 usage |-> [input_tokens |-> p, output_tokens |-> c]],
      lines |-> <<[type |-> "message_start", messageID |-> "id", messageUsage |-> start],
                  [type |-> "content_block_delta"]>> \o before \o
                <<[type |-> "message_delta", usage |-> [output_tokens |-> c]], <<>> >>]
        : start \in {[input_tokens |-> p]}
                        \cup {[input_tokens |-> p, output_tokens |-> d] : d \in 0..c},
          before \in {<<>>} \cup {<<[type |-> "message_delta", usage |-> [output_tokens |-> d]]>>
                                     : d \in 0..c}}

(* Without usage: an error below 500, or a stream that was not asked for it. *)
WithoutUsage(json) == {"usage", "messageUsage"} \cap DOMAIN json = {}

SilentAnswer(a) ==
    /\ a.format = "none" /\ a.prompt = 0 /\ a.completion = 0
    /\ WithoutUsage(a.whole)
    /\ \A line \in ToSet(a.lines) : WithoutUsage(line)

Provided(a) ==
    \/ SilentAnswer(a)
    \/ /\ a.prompt \in Nat /\ a.completion \in Nat
       /\ a \in OpenAIAnswers(a.prompt, a.completion) \cup AnthropicAnswers(a.prompt, a.completion)
=============================================================================
