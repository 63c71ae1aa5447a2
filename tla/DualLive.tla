-------------------------------- MODULE DualLive --------------------------------
(* One run of llama-sage-dual-live (patch 0014): two models in one process,   *)
(* each with a context of its own.  The proxy proposes every token; the       *)
(* oracle is asked only when the policy does not accept, so that its context  *)
(* falls behind and has to read several tokens at once.  The selected piece   *)
(* of text is fed to both: to its author as the token it is, to the other     *)
(* through that one's tokenizer, which may need more tokens for it, or none.  *)
(*                                                                            *)
(* A piece of text is named by its author and its step; how many tokens a     *)
(* tokenizer makes of it is chosen freely.  Loading, decoding and writing may *)
(* fail at any time.                                                          *)
EXTENDS DecisionPolicy

CONSTANTS
    NPredict,       \* -n
    Slack, MinCtx,  \* the spare room of a context and its least size: 32 and 64
    MaxPieces,      \* most tokens a tokenizer makes of one piece
    CtxSizes,       \* values of -c; 0: the size is derived from the prompt
    Encoders        \* the runners whose model has an encoder

Runner == {"proxy", "oracle"}

ASSUME DualLiveAssumption ==
    /\ NPredict \in Nat /\ Slack \in Nat /\ MinCtx \in Nat
    /\ MaxPieces \in Nat \ {0}
    /\ CtxSizes \subseteq Nat
    /\ Encoders \subseteq Runner

VARIABLES
    ctx_size,       \* -c
    pc,
    n_ctx,          \* n_ctx of each context
    read,           \* the pieces in each context
    n_pos,          \* live_runner: tokens decoded,
    pending,        \* ... pieces to be decoded next,
    n_pending,      \* ... the number of their tokens,
    accepted_text_tokens, decode_calls,
    answer,         \* generated_token of the step at hand
    steps,          \* one row of the output per selected piece
    prompt_tokens   \* (history) the prompt's length in each tokenizer

runnerVars == <<read, n_pos, pending, n_pending, accepted_text_tokens, decode_calls>>
loadVars   == <<ctx_size, n_ctx, prompt_tokens>>
vars       == <<loadVars, runnerVars, pc, answer, steps>>

Prompt   == [by |-> "user", step |-> 0]
NoAnswer == [by |-> "none", after |-> <<>>, empty |-> FALSE]

\* The text: the prompt and the pieces that were selected.
TextAfter(rows) == <<Prompt>> \o [i \in DOMAIN rows |-> rows[i].selected]

Init ==
    /\ ctx_size \in CtxSizes
    /\ pc = "load"
    /\ n_ctx = [r \in Runner |-> 0]
    /\ read = [r \in Runner |-> <<>>]
    /\ n_pos = [r \in Runner |-> 0]
    /\ pending = [r \in Runner |-> <<>>]
    /\ n_pending = [r \in Runner |-> 0]
    /\ accepted_text_tokens = [r \in Runner |-> 0]
    /\ decode_calls = [r \in Runner |-> 0]
    /\ answer = [r \in Runner |-> NoAnswer]
    /\ steps = <<>>
    /\ prompt_tokens = [r \in Runner |-> 0]

-----------------------------------------------------------------------------
(* Every failure frees both models and ends with 1, without any output.       *)
Fails == pc' = "failed" /\ UNCHANGED <<loadVars, runnerVars, answer, steps>>

\* Faulty: no room for what will be generated.
RoomForPrompt(tokens) == IF ctx_size > 0 THEN ctx_size ELSE IF tokens + Slack > MinCtx THEN tokens + Slack ELSE MinCtx

\* The size of a context for a prompt of so many tokens.
ContextFor(tokens) ==
    IF ctx_size > 0 THEN ctx_size
    ELSE IF tokens + NPredict + Slack > MinCtx THEN tokens + NPredict + Slack ELSE MinCtx

\* init_runner() for both: the prompt is pending, in tokens of each runner's own.
InitRunners ==
    /\ pc = "load"
    /\ \/ Fails
       \/ \E tokens \in [Runner -> 1 .. MaxPieces] :
             /\ prompt_tokens' = tokens
             /\ n_ctx' = [r \in Runner |-> ContextFor(tokens[r])]
             /\ pending' = [r \in Runner |-> <<Prompt>>]
             /\ n_pending' = tokens
             /\ pc' = "propose"
             /\ UNCHANGED <<ctx_size, read, n_pos, accepted_text_tokens, decode_calls, answer, steps>>

-----------------------------------------------------------------------------
(* generate_one().  A model with an encoder reads what is pending in place of *)
(* what it has read, and its decoder starts with one token.                   *)
NewTokens(r) == IF r \in Encoders THEN 1 ELSE n_pending[r]
Known(r)     == IF r \in Encoders THEN pending[r] ELSE read[r] \o pending[r]
CanDecode(r) == n_pending[r] > 0 /\ n_pos[r] + NewTokens(r) <= n_ctx[r]

\* Faulty: what was decoded stays pending.
DecodeAndKeep(r) ==
    /\ CanDecode(r)
    /\ read' = [read EXCEPT ![r] = Known(r)]
    /\ n_pos' = [n_pos EXCEPT ![r] = @ + NewTokens(r)]
    /\ decode_calls' = [decode_calls EXCEPT ![r] = @ + 1]
    /\ UNCHANGED <<loadVars, pending, n_pending, accepted_text_tokens, steps>>

Decode(r) ==
    /\ CanDecode(r)
    /\ read' = [read EXCEPT ![r] = Known(r)]
    /\ n_pos' = [n_pos EXCEPT ![r] = @ + NewTokens(r)]
    /\ decode_calls' = [decode_calls EXCEPT ![r] = @ + 1]
    /\ pending' = [pending EXCEPT ![r] = <<>>]
    /\ n_pending' = [n_pending EXCEPT ![r] = 0]
    /\ UNCHANGED <<loadVars, accepted_text_tokens, steps>>

\* The token that follows, which may have no text.
Answers(r) ==
    /\ Decode(r)
    /\ \E empty \in BOOLEAN : answer' = [answer EXCEPT ![r] = [by |-> r, after |-> Known(r), empty |-> empty]]

\* The model ends the text: the loop is left, and what the step has found is dropped.
EndsText(r) == Decode(r) /\ pc' = "write" /\ UNCHANGED answer

-----------------------------------------------------------------------------
(* The loop of main().  The policy knows the proxy's token only: no tensor is *)
(* captured.                                                                  *)
Verifiable == {"punct"}
Gate       == [max_entropy |-> 0, min_margin |-> 1, verifier_classes |-> Verifiable]
Input(class, entropy, margin) ==
    [token_class |-> class, proxy_entropy |-> entropy, proxy_margin |-> margin, tensor_count |-> 0,
     has_ffn |-> FALSE, ffn_sum |-> 0]
Inputs == {Input(class, entropy, margin) : class \in {"punct", "word"}, entropy \in {0, 1}, margin \in {0, 1}}
ActionFor(input) == CppDecide(input, Gate, [entropy |-> 0, ffn_sum |-> 0]).action

Propose ==
    /\ pc = "propose" /\ Len(steps) < NPredict
    /\ \/ Fails
       \/ EndsText("proxy")
       \/ /\ Answers("proxy")
          /\ \E input \in Inputs : pc' = IF ActionFor(input) = Fallback THEN "ask" ELSE "append"

AskOracle ==
    /\ pc = "ask"
    /\ \/ Fails
       \/ EndsText("oracle")
       \/ Answers("oracle") /\ pc' = "append"

\* The author of the selected piece: the oracle if it was asked.
Author == IF answer["oracle"] # NoAnswer THEN "oracle" ELSE "proxy"
SelectedPiece == [by |-> Author, step |-> Len(steps) + 1]

\* append_selected() for the runner that is not the author: tokens of its own, none for no text.
Retokenized == IF answer[Author].empty THEN {0} ELSE 1 .. MaxPieces

\* Faulty: each runner is fed its own tokens only.
FeedAuthor(tokens) ==
    /\ pending' = [pending EXCEPT ![Author] = Append(@, SelectedPiece)]
    /\ n_pending' = [n_pending EXCEPT ![Author] = @ + tokens[Author]]
    /\ accepted_text_tokens' = [accepted_text_tokens EXCEPT ![Author] = @ + tokens[Author]]

FeedBoth(tokens) ==
    /\ pending' = [r \in Runner |-> Append(pending[r], SelectedPiece)]
    /\ n_pending' = [r \in Runner |-> n_pending[r] + tokens[r]]
    /\ accepted_text_tokens' = [r \in Runner |-> accepted_text_tokens[r] + tokens[r]]

\* Both are fed, and the step is written down; a piece that cannot be tokenized ends the run.
AppendSelected ==
    /\ pc = "append"
    /\ \/ Fails
       \/ /\ \E n \in Retokenized : FeedBoth([r \in Runner |-> IF r = Author THEN 1 ELSE n])
          /\ steps' = Append(steps, [proxy |-> answer["proxy"], oracle |-> answer["oracle"], selected |-> SelectedPiece])
          /\ answer' = [r \in Runner |-> NoAnswer]
          /\ pc' = "propose"
          /\ UNCHANGED <<loadVars, read, n_pos, decode_calls>>

EndLoop ==
    /\ pc = "propose" /\ Len(steps) = NPredict
    /\ pc' = "write"
    /\ UNCHANGED <<loadVars, runnerVars, answer, steps>>

WriteOutput ==
    /\ pc = "write"
    /\ \/ Fails
       \/ pc' = "done" /\ UNCHANGED <<loadVars, runnerVars, answer, steps>>

Next == InitRunners \/ Propose \/ AskOracle \/ AppendSelected \/ EndLoop \/ WriteOutput

Spec == Init /\ [][Next]_vars

-----------------------------------------------------------------------------
Piece    == [by : {"user", "proxy", "oracle"}, step : Nat]
AnAnswer == [by : {"none", "proxy", "oracle"}, after : Seq(Piece), empty : BOOLEAN]
Row      == [proxy : AnAnswer, oracle : AnAnswer, selected : Piece]

(* Every variable stays in its type. *)
TypeOK ==
    /\ ctx_size \in CtxSizes
    /\ pc \in {"load", "propose", "ask", "append", "write", "done", "failed"}
    /\ n_ctx \in [Runner -> Nat] /\ n_pos \in [Runner -> Nat] /\ n_pending \in [Runner -> Nat]
    /\ read \in [Runner -> Seq(Piece)] /\ pending \in [Runner -> Seq(Piece)]
    /\ accepted_text_tokens \in [Runner -> Nat] /\ decode_calls \in [Runner -> Nat]
    /\ prompt_tokens \in [Runner -> Nat]
    /\ answer \in [Runner -> AnAnswer]
    /\ steps \in Seq(Row)

(* However far a context has fallen behind, what it has read and what is      *)
(* pending for it are together the text, once and in its order, and its       *)
(* positions are those of the text's tokens in its own vocabulary (README     *)
(* 857: "so future steps stay on the selected prefix").                       *)
ContextsHoldTheText ==
    \A r \in Runner \ Encoders :
        pc \notin {"load", "failed"} =>
            /\ read[r] \o pending[r] = TextAfter(steps)
            /\ n_pos[r] + n_pending[r] = prompt_tokens[r] + accepted_text_tokens[r]

(* A context whose size was not given has room for all pending tokens, unless *)
(* its tokenizer made more than Slack tokens too many of the other's pieces.  *)
RoomSuffices ==
    \A r \in Runner \ Encoders :
        /\ ctx_size = 0 /\ pc \notin {"load", "failed"}
        /\ accepted_text_tokens[r] <= Len(steps) + Slack
        => n_pos[r] + n_pending[r] <= n_ctx[r]

(* The steps of the output are a text in which every token was generated      *)
(* from all the text before it (SelectedText).                                *)
Stale == -1
SeenIn(rows, a, i) ==
    IF a = NoAnswer THEN NoAnswer
    ELSE [by |-> a.by, at |-> IF a.after = TextAfter(SubSeq(rows, 1, i - 1)) THEN i - 1 ELSE Stale]
SeenRow(rows, i) ==
    [proxy |-> SeenIn(rows, rows[i].proxy, i), oracle |-> SeenIn(rows, rows[i].oracle, i),
     selected |-> SeenIn(rows, rows[i][rows[i].selected.by], i)]
SeenOf(rows) == [i \in DOMAIN rows |-> SeenRow(rows, i)]
TextSeen == SeenOf(steps)

Text == INSTANCE SelectedText WITH Proxy <- "proxy", Oracle <- "oracle", Strangers <- {}, text <- TextSeen
TextSpec == Text!Spec
================================================================================
