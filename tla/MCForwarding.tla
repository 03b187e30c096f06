---------------------------- MODULE MCForwarding ----------------------------
(* Instances of Forwarding for TLC. *)
EXTENDS Forwarding

CONSTANTS m1, m2, m3

ThreeModels == <<m1, m2, m3>>
ThreeRetries == (m1 :> -1) @@ (m2 :> 5) @@ (m3 :> 1)

TwoModels == <<m1, m2>>
FewRetries == (m1 :> 1) @@ (m2 :> 0)

(* An amount tells how many tokens of each kind it is for. *)
TenfoldPrice == <<1, 10>>

(* Without usage: an error below 500, or a stream whose client did not ask for it. *)
Silent == [format |-> "none", prompt |-> 0, completion |-> 0, whole |-> <<>>, lines |-> <<<<>>>>]

OnlySilent == {Silent}

OneOfEach ==
    {Silent, CHOOSE a \in OpenAIAnswers(1, 2) : Len(a.lines) = 4,
     CHOOSE a \in AnthropicAnswers(2, 1) : Len(a.lines) = 5}

(* The hypothesis of ForwardingProofs!BilledForUse. *)
ASSUME ProvidedAssumption == \A a \in Answers : Provided(a)
=============================================================================
