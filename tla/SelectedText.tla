------------------------------ MODULE SelectedText ------------------------------
(* What every runtime of SAGE promises of the text it writes: it grows one    *)
(* token at a time and never changes; the proxy proposes each token; the      *)
(* proposal stays when it is accepted, otherwise, and only then, the oracle   *)
(* is asked and its token stays; and whoever answers was shown all the text   *)
(* there is, and no other.  LiveLoop and DualLive implement it.               *)
EXTENDS Naturals, Sequences

CONSTANTS Proxy, Oracle,    \* the models
          Strangers,        \* who else may answer in their place
          NoAnswer

VARIABLE text

AnswerOf(model) == [by : {model} \cup Strangers, at : {Len(text)}]

Init == text = <<>>

\* The proxy's token is accepted.
Accepts ==
    \E p \in AnswerOf(Proxy) :
        text' = Append(text, [proxy |-> p, oracle |-> NoAnswer, selected |-> p])

\* The oracle's token takes the place of the proxy's.
FallsBack ==
    \E p \in AnswerOf(Proxy), o \in AnswerOf(Oracle) :
        text' = Append(text, [proxy |-> p, oracle |-> o, selected |-> o])

Next == Accepts \/ FallsBack

Spec == Init /\ [][Next]_text
================================================================================
