--------------------------- MODULE StructuredOutput --------------------------
(***************************************************************************)
(* generate_structured over OllamaLlmProvider: asking a language model     *)
(* until its answer parses as the schema, showing it every earlier answer  *)
(* and what was wrong with it.  Calls run concurrently and share nothing;  *)
(* each awaits the runtime between two steps.                              *)
(*                                                                         *)
(* A text is what extract_json tells apart: what a code fence holds, the   *)
(* spans from the first opening bracket of a kind to the last closing one, *)
(* and the text itself.  Its cost stands for tokens and latency.           *)
(***************************************************************************)
EXTENDS Naturals, SequencesExt

CONSTANTS
    Calls,      \* structured calls
    Texts,      \* what the model may answer: [fence, spans, plain, cost]
    Matching,   \* the JSON documents that validate
    None

ASSUME GenerateAssumption ==
    /\ IsFiniteSet(Calls)
    /\ \A text \in Texts : text.cost \in Nat

VARIABLES
    phase,        \* how far generate_structured is, or how it ended
    limit,        \* max_attempts
    conversation, \* the messages of the next attempt
    attempts,     \* the texts that came back
    generated     \* history: what the runtime was paid for them

generateVars == <<phase, limit, conversation, attempts, generated>>

Failures == {"unavailable", "error", "garbled", "misshapen"}

(* A fence wins; then the bracket that opens first; then the whole text.   *)
Extract(text) ==
    IF text.fence # None THEN text.fence
    ELSE IF text.spans # {}
    THEN (CHOOSE s \in text.spans : \A t \in text.spans : s.start <= t.start).json
    ELSE text.plain

Validates(text) == Extract(text) \in Matching

(* A StructuredResult or a list of attempts costs what its attempts cost.  *)
Total(texts) == FoldSeq(LAMBDA t, sum : t.cost + sum, 0, texts)

Says(who, what) == [role |-> who, content |-> what]
Describe(text) == <<"does not match", Extract(text)>>

(* The model's own output, and what was wrong with it.                     *)
Repair(text) == <<Says("assistant", text), Says("user", Describe(text))>>

GenerateInit ==
    /\ phase = [c \in Calls |-> "idle"]
    /\ limit = [c \in Calls |-> 1]
    /\ conversation = [c \in Calls |-> <<>>]
    /\ attempts = [c \in Calls |-> <<>>]
    /\ generated = [c \in Calls |-> 0]

Generate(c, messages, max_attempts) ==
    /\ phase[c] = "idle"
    /\ phase' = [phase EXCEPT ![c] = "asking"]
    /\ limit' = [limit EXCEPT ![c] = max_attempts]
    /\ conversation' = [conversation EXCEPT ![c] = messages]
    /\ UNCHANGED <<attempts, generated>>

(* A completion came back.                                                 *)
Complete(c, text) ==
    LET ended == IF Validates(text) THEN "valid"
                 ELSE IF Len(attempts[c]) + 1 = limit[c] THEN "exhausted"
                 ELSE "asking"
    IN  /\ phase[c] = "asking"
        /\ phase' = [phase EXCEPT ![c] = ended]
        /\ attempts' = [attempts EXCEPT ![c] = Append(@, text)]
        /\ generated' = [generated EXCEPT ![c] = @ + text.cost]
        /\ conversation' = [conversation EXCEPT
               ![c] = IF ended = "asking" THEN @ \o Repair(text) ELSE @]
        /\ UNCHANGED limit

(* None came back: no connection, no such model or a timeout; an error     *)
(* status or no text; a body that is no JSON, or JSON of another shape.    *)
(* What earlier attempts cost goes with the exception.                     *)
RuntimeFails(c) ==
    /\ phase[c] = "asking"
    /\ \E how \in Failures : phase' = [phase EXCEPT ![c] = how]
    /\ UNCHANGED <<limit, conversation, attempts, generated>>
=============================================================================
