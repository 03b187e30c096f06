----------------------------- MODULE Forwarding -----------------------------
(***************************************************************************)
(* Forwarding a request to the upstreams of its model group: HandleRequest *)
(* and forwardOnce in src/internal/proxy/proxy.go, with the latency        *)
(* strategy of Balancer, whose statistics the concurrent handlers of the   *)
(* group share, and with what Usage reads of an answer for billing.        *)
(*                                                                         *)
(* A handler chooses a first upstream, lists the others behind it, and     *)
(* tries each a number of times until one of them answers or an error may  *)
(* not be retried.  What an attempt does to the client's connection is its *)
(* own handler's business, so an attempt is one step and the report of its *)
(* latency to the balancer another.                                        *)
(***************************************************************************)
EXTENDS Balancer, Usage

CONSTANTS
    Requests,    \* the requests, each with its handler
    Streams,     \* those that ask for a stream
    Anthropic,   \* the upstreams of the type that SelectAdapter knows by this name
    Answers,     \* what an upstream may answer, whole or as a stream
    Counts,      \* how many tokens of a kind the answers of StreamedAsWhole use
    RetryTimes,  \* retry_times of an upstream
    Latencies    \* how long an attempt may take, in nanoseconds

maxPerUpstreamRetryTimes == 3

MaxTries == maxPerUpstreamRetryTimes + 2   \* bound: `tries` counts no further

ASSUME StreamAssumption == Streams \subseteq Requests
ASSUME AdapterAssumption == Anthropic \subseteq Models
ASSUME CountAssumption == Counts \subseteq Nat
ASSUME RetryAssumption == RetryTimes \in [Models -> Int]
ASSUME LatencyAssumption == Latencies \subseteq Nat

(* A stream is a sequence of lines, and what is read of an answer costs a  *)
(* number.                                                                 *)
ASSUME AnswerAssumption ==
    \A a \in Answers :
        /\ a.lines \in Seq(ToSet(a.lines))
        /\ SpendOf(BuildSpendPayload(a.whole)) \in Int \cup {NoSpend}
        /\ \A own \in BOOLEAN : SpendOf(StreamPayload(a.lines, own)) \in Int \cup {NoSpend}

VARIABLES
    req,      \* the handlers
    tries,    \* history: how often a request was sent to an upstream
    answers,  \* history: how many answers a client was sent, or part of one
    success   \* history: the latencies of the successful attempts at an upstream

vars == <<req, stats, index, tries, answers, success>>
balancer == <<stats, index, success>>

(* What the client has got of an answer (`end`), which it is, the lines    *)
(* that were passed on if it is a stream, and the amount that is billed.   *)
NoAnswer == [end |-> "none", of |-> {}, lines |-> <<>>, billed |-> NoSpend]

(* At the start of an attempt cands[1] is the upstream; `result` is what   *)
(* the last one returned: no error, an error, or one that may be retried.  *)
NewReq ==
    [pc |-> "new", cands |-> <<>>, attempt |-> 1, result |-> "none", latency |-> 0,
     answer |-> NoAnswer]

Init ==
    /\ req = [r \in Requests |-> NewReq]
    /\ BalancerInit
    /\ tries = [r \in Requests |-> [m \in Models |-> 0]]
    /\ answers = [r \in Requests |-> 0]
    /\ success = [m \in Models |-> {}]

-----------------------------------------------------------------------------
(* The choice of upstreams.                                                *)

(* mutant: the others are those listed after the first *)
CandidatesAfter(primary) == SubSeq(Group, Place(primary), Len(Group))

(* distinctRetryCandidates: the others follow in turn, and the `seen` map  *)
(* keeps out the first when it comes round again.                          *)
Candidates(primary) ==
    [o \in DOMAIN Group |-> Group[((Place(primary) + o - 2) % Len(Group)) + 1]]

perUpstreamAttempts(m) ==
    IF RetryTimes[m] <= 0 THEN 1
    ELSE IF RetryTimes[m] > maxPerUpstreamRetryTimes THEN maxPerUpstreamRetryTimes + 1
    ELSE RetryTimes[m] + 1

Begin(r) ==
    /\ req[r].pc = "new"
    /\ \E m \in Models :
          /\ NextByLatency(m)
          /\ req' = [req EXCEPT ![r].pc = "call", ![r].cands = Candidates(m)]
    /\ UNCHANGED <<stats, tries, answers, success>>

-----------------------------------------------------------------------------
(* forwardOnce.                                                            *)

Upstream(r) == Head(req[r].cands)

(* The upstream is called, and answers or fails after some time. *)
Called(r, result, answer) ==
    /\ req[r].pc = "call"
    /\ \E l \in Latencies :
          req' = [req EXCEPT ![r] = [@ EXCEPT !.pc = "observe", !.result = result,
                                              !.latency = l, !.answer = answer]]
    /\ tries' = [tries EXCEPT ![r][Upstream(r)] = IF @ < MaxTries THEN @ + 1 ELSE @]
    /\ answers' = IF answer.end = "none" THEN answers ELSE [answers EXCEPT ![r] = @ + 1]
    /\ UNCHANGED balancer

(* prepareUpstreamBody or BuildRequest fails: no call, and no retry *)
Unprepared(r) ==
    /\ req[r].pc = "call"
    /\ req' = [req EXCEPT ![r].pc = "observe", ![r].result = "final", ![r].latency = 0]
    /\ UNCHANGED <<tries, answers, balancer>>

(* No answer, a status of 500 or more, or an answer that breaks off and is *)
(* not streamed                                                            *)
Fails(r) == Called(r, "retry", NoAnswer)

(* An answer is passed on whole, and what the adapter reads of it goes to  *)
(* CreateSpendRecord: the whole body ...                                   *)
Succeeds(r) ==
    \E a \in Answers :
        Called(r, "ok", [end |-> "whole", of |-> {a}, lines |-> <<>>,
                         billed |-> SpendOf(BuildSpendPayload(a.whole))])

SpendOfStream(r, lines) == SpendOf(StreamPayload(lines, Upstream(r) \in Anthropic))

(* ... or the lines, if the client asked for a stream and got one          *)
StreamEnds(r) ==
    r \in Streams /\ \E a \in Answers :
        Called(r, "ok", [end |-> "whole", of |-> {a}, lines |-> a.lines,
                         billed |-> SpendOfStream(r, a.lines)])

(* What may have been passed on of a stream that breaks off, at either     *)
(* side; where a write fails that is a part, even of nothing.              *)
Broken(a) ==
    {[end |-> "part", of |-> {a}, lines |-> SubSeq(a.lines, 1, n), billed |-> NoSpend]
        : n \in 0..Len(a.lines)} \cup {NoAnswer}

(* mutant: the error of a stream may be retried *)
StreamBreaksRetried(r) ==
    r \in Streams /\ \E a \in Answers : \E part \in Broken(a) : Called(r, "retry", part)

(* mutant: the usage is handed over before the error is looked at *)
StreamBreaksBilled(r) ==
    r \in Streams /\ \E a \in Answers : \E part \in Broken(a) :
        Called(r, "final", [part EXCEPT !.billed = SpendOfStream(r, part.lines)])

(* streamToClient drops the usage of a stream that breaks off. *)
StreamBreaks(r) ==
    r \in Streams /\ \E a \in Answers : \E part \in Broken(a) : Called(r, "final", part)

-----------------------------------------------------------------------------
(* Back in HandleRequest.                                                  *)

(* observeBalancer: an error that may not be retried is not reported *)
Observe(r) ==
    LET m == Upstream(r)  l == req[r].latency  ok == req[r].result = "ok"
    IN IF req[r].result = "final" THEN UNCHANGED balancer
       ELSE /\ ObserveLatency(m, l, ok)
            /\ success' = IF ok THEN [success EXCEPT ![m] = @ \cup {Counted(l)}] ELSE success
            /\ UNCHANGED index

(* mutant: one attempt too many *)
OutOfAttemptsLate(r) == req[r].attempt > perUpstreamAttempts(Upstream(r))

OutOfAttempts(r) == req[r].attempt >= perUpstreamAttempts(Upstream(r))

(* c.JSON, unless c.Writer.Written() *)
Answer(r, error) ==
    IF req[r].answer.end # "none"
    THEN /\ req' = [req EXCEPT ![r].pc = "done"]
         /\ UNCHANGED answers
    ELSE /\ req' = [req EXCEPT ![r].pc = "done", ![r].answer.end = error]
         /\ answers' = [answers EXCEPT ![r] = @ + 1]

Return(r) ==
    /\ req[r].pc = "observe"
    /\ req[r].result \in {"ok", "final"}
    /\ Observe(r)
    /\ Answer(r, "error")
    /\ UNCHANGED tries

(* mutant: the attempt is not counted *)
RetrySameUncounted(r) ==
    /\ req[r].pc = "observe"
    /\ req[r].result = "retry"
    /\ ~OutOfAttempts(r)
    /\ Observe(r)
    /\ req' = [req EXCEPT ![r].pc = "call"]
    /\ UNCHANGED <<tries, answers>>

RetrySame(r) ==
    /\ req[r].pc = "observe"
    /\ req[r].result = "retry"
    /\ ~OutOfAttempts(r)
    /\ Observe(r)
    /\ req' = [req EXCEPT ![r].pc = "call", ![r].attempt = @ + 1]
    /\ UNCHANGED <<tries, answers>>

RetryOther(r) ==
    /\ req[r].pc = "observe"
    /\ req[r].result = "retry"
    /\ OutOfAttempts(r)
    /\ Len(req[r].cands) > 1
    /\ Observe(r)
    /\ req' = [req EXCEPT ![r].pc = "call", ![r].attempt = 1, ![r].cands = Tail(@)]
    /\ UNCHANGED <<tries, answers>>

GiveUp(r) ==
    /\ req[r].pc = "observe"
    /\ req[r].result = "retry"
    /\ OutOfAttempts(r)
    /\ Len(req[r].cands) = 1
    /\ Observe(r)
    /\ Answer(r, "exhausted")
    /\ UNCHANGED tries

Step(r) ==
    \/ Begin(r) \/ Unprepared(r) \/ Fails(r) \/ Succeeds(r) \/ StreamEnds(r)
    \/ StreamBreaks(r) \/ Return(r) \/ RetrySame(r) \/ RetryOther(r) \/ GiveUp(r)

Next == \E r \in Requests : Step(r)

Spec == Init /\ [][Next]_vars

(* Every handler goes on, and a timeout of buildHTTPClient ends an attempt *)
(* at the latest; but no timeout bounds the body of a stream, so that the  *)
(* attempt of a request for a stream may last for ever.                    *)
MayStall(r) == r \in Streams /\ req[r].pc = "call"

FairSpec == Spec /\ \A r \in Requests : WF_vars(~MayStall(r) /\ Step(r))

-----------------------------------------------------------------------------
Results == {"none", "ok", "final", "retry"}
Ends == {"none", "whole", "part", "error", "exhausted"}

Handler ==
    [pc : {"new", "call", "observe", "done"}, cands : Seq(Models), attempt : Nat,
     result : Results, latency : Nat,
     answer : [end : Ends, of : SUBSET Answers,
               lines : Seq(UNION {ToSet(a.lines) : a \in Answers}), billed : Int \cup {NoSpend}]]

TypeOK ==
    /\ req \in [Requests -> Handler]
    /\ stats \in [Models -> [seen : BOOLEAN, healthy : BOOLEAN, latency : Nat]]
    /\ index \in 0..(Word - 1)
    /\ tries \in [Requests -> [Models -> 0..MaxTries]]
    /\ answers \in [Requests -> Nat]
    /\ success \in [Models -> SUBSET Nat]

(* The client is never sent a second answer, nor one after a part of       *)
(* another, through all the retries; and it is sent one in the end.        *)
OneAnswer ==
    \A r \in Requests : /\ answers[r] <= 1
                        /\ req[r].pc = "done" => answers[r] = 1

(* A request is given up as exhausted only after every upstream of the     *)
(* group, wherever the balancer started, has failed all of its attempts.   *)
ExhaustionIsTotal ==
    \A r \in Requests : req[r].answer.end = "exhausted" =>
        \A m \in Models : tries[r][m] = perUpstreamAttempts(m)

(* An Anthropic stream of an upstream of another type: its adapter does    *)
(* not read message_start.                                                 *)
Misread(r) ==
    req[r].answer.lines # <<>> /\ Upstream(r) \notin Anthropic
        /\ \E a \in req[r].answer.of : a.format = "anthropic"

Due(a) ==
    IF a.prompt + a.completion = 0 \/ Len(Price) < 2 THEN NoSpend
    ELSE Price[1] * a.prompt + Price[2] * a.completion

(* Of several upstreams that worked on a request only the one whose answer *)
(* reached the client whole is billed, and for what that answer used:      *)
(* whatever form it came in, and whichever upstream it came from.          *)
BilledOnce ==
    \A r \in Requests :
        IF req[r].answer.end = "whole"
        THEN \A a \in req[r].answer.of : Misread(r) \/ req[r].answer.billed = Due(a)
        ELSE req[r].answer.billed = NoSpend

(* An answer costs the same whole or streamed, however the stream spreads  *)
(* its counts: what parseSpendStreamLine adds up is what is read of the    *)
(* whole.  An OpenAI answer may come through either adapter, an Anthropic  *)
(* one only through its own.  All answers are gone through before the      *)
(* first request begins.                                                   *)
StreamedAsWhole ==
    req = [r \in Requests |-> NewReq] =>
        \A m \in Models, p, c \in Counts :
            LET own == m \in Anthropic
            IN \A a \in OpenAIAnswers(p, c) \cup (IF own THEN AnthropicAnswers(p, c) ELSE {}) :
                  StreamPayload(a.lines, own) = BuildSpendPayload(a.whole)

(* Every request is answered, whatever its upstreams do, unless one of     *)
(* them stalls in a stream: the retries come to an end.                    *)
EveryRequestAnswered == \A r \in Requests : <>(req[r].pc = "done") \/ <>[]MayStall(r)

(* What a handler h is about, with the tries t and the n answers of its    *)
(* request.  The upstreams that it does not list any more have had all     *)
(* their attempts, and those behind the first none.                        *)
Sending(h, t) ==
    /\ h.pc = "new" => h = NewReq /\ \A m \in Models : t[m] = 0
    /\ h.pc \in {"call", "observe"} =>
          /\ h.cands # <<>> /\ IsInjective(h.cands)
          /\ h.attempt \in 1..perUpstreamAttempts(h.cands[1])
          /\ h.pc = "call" => t[h.cands[1]] = h.attempt - 1
          /\ h.pc = "observe" /\ h.result = "retry" => t[h.cands[1]] = h.attempt
          /\ \A m \in Models \ ToSet(h.cands) : t[m] = perUpstreamAttempts(m)
          /\ \A i \in 2..Len(h.cands) : t[h.cands[i]] = 0
    /\ h.answer.end = "exhausted" => \A m \in Models : t[m] = perUpstreamAttempts(m)

(* It goes on only as long as the client has got nothing. *)
Answering(h, n) ==
    /\ n = IF h.answer.end = "none" THEN 0 ELSE 1
    /\ h.pc = "done" => h.answer.end # "none"
    /\ h.pc \in {"new", "call"} \/ (h.pc = "observe" /\ h.result = "retry") =>
          h.answer.end = "none"

(* It bills what is read of an answer that it passed on whole. *)
Billing(h) ==
    IF h.answer.end = "whole"
    THEN \E a \in Answers :
            /\ h.answer.of = {a}
            /\ \/ /\ h.answer.lines = <<>>
                  /\ h.answer.billed = SpendOf(BuildSpendPayload(a.whole))
               \/ /\ h.answer.lines = a.lines
                  /\ h.answer.billed = SpendOf(StreamPayload(a.lines, h.cands[1] \in Anthropic))
    ELSE h.answer.billed = NoSpend

(* What is inductive of these (ForwardingProofs). *)
IInv ==
    /\ TypeOK
    /\ \A r \in Requests :
          /\ Sending(req[r], tries[r])
          /\ Answering(req[r], answers[r])
          /\ Billing(req[r])

(* "Streaming billing when SSE usage is present" (doc/plan.md): a stream   *)
(* whose usage was received is billed.                                     *)
StreamUsageBilled ==
    \A r \in Requests :
        req[r].pc = "done" /\ SpendOfStream(r, req[r].answer.lines) # NoSpend =>
            req[r].answer.billed # NoSpend

(* "prefer upstreams with lower observed successful latency"               *)
(* (config/config.yaml.example): no upstream is chosen first if each of    *)
(* its successes took longer than every success of another healthy one.    *)
Slower(m, n) ==
    /\ success[m] # {} /\ success[n] # {}
    /\ \A l \in success[m], k \in success[n] : l > k

PrefersLowerSuccess ==
    [][\A r \in Requests : Begin(r) /\ Healthy # {} =>
          ~ \E n \in Healthy : Slower(Head(req'[r].cands), n)]_vars
=============================================================================
