-------------------------- MODULE CallbackEmitter --------------------------
(***************************************************************************)
(* The AI service's side of event delivery: CallbackEmitter                *)
(* (agents/events.py, ADR-0006), which posts one run's events to the       *)
(* backend, retries what may yet be accepted and holds what was not.       *)
(*                                                                         *)
(* An action is one POST with its answer, or one move of the emitter       *)
(* between two POSTs, so that what happens to the backend between them can *)
(* matter.  An event is its sequence number.  A call of the emitter is     *)
(* awaited by the runner, so there is never a second one under way.        *)
(* Envelopes, backoff and logging are left out.                            *)
(***************************************************************************)
EXTENDS Integers, Sequences, Functions

CONSTANTS
    MaxEvents,              \* bound of the model: events in a run
    DEFAULT_MAX_ATTEMPTS,   \* 3 in the code
    TERMINAL_MAX_ATTEMPTS,  \* 5 in the code
    DEFAULT_BUFFER_LIMIT    \* 500 in the code

ASSUME EmitterAssumption ==
    /\ MaxEvents \in Nat \ {0}
    /\ DEFAULT_MAX_ATTEMPTS \in Nat \ {0}
    /\ TERMINAL_MAX_ATTEMPTS \in Nat \ {0}
    /\ DEFAULT_BUFFER_LIMIT \in Nat \ {0}

VARIABLES
    sequence,     \* events emitted so far
    terminal,     \* whether the last of them is the run's terminal event
    stage,        \* where __call__ is
    attempts,     \* attempts left for the event being delivered
    pending,      \* events held for another try, oldest first
    acknowledged, \* events answered with success
    refused,      \* events the backend will never accept
    evicted,      \* events pushed out of the full buffer
    answer        \* what the latest POST came to

emitter_vars == <<sequence, terminal, stage, attempts, pending, acknowledged,
                  refused, evicted, answer>>

Stages == {"idle", "flush", "deliver", "last_flush"}
\* _Outcome; "none" before the first POST.
Answers == {"delivered", "permanent", "transient"}

EmitterTypeOK ==
    /\ sequence \in 0 .. MaxEvents
    /\ terminal \in BOOLEAN
    /\ stage \in Stages
    /\ attempts \in 0 .. (DEFAULT_MAX_ATTEMPTS + TERMINAL_MAX_ATTEMPTS)
    /\ pending \in Seq(1 .. sequence)
    /\ acknowledged \subseteq 1 .. sequence
    /\ refused \subseteq 1 .. sequence
    /\ evicted \subseteq 1 .. sequence
    /\ answer \in Answers \cup {"none"}

EmitterInit ==
    /\ sequence = 0
    /\ terminal = FALSE
    /\ stage = "idle"
    /\ attempts = 0
    /\ pending = << >>
    /\ acknowledged = {}
    /\ refused = {}
    /\ evicted = {}
    /\ answer = "none"

-----------------------------------------------------------------------------
(* __call__: number the event, flush what is held, deliver the event, and   *)
(* after a terminal one flush once more.                                    *)

\* The runner emits its next event; after a terminal event there is none.
Emit(is_terminal) ==
    /\ stage = "idle"
    /\ ~ terminal
    /\ sequence < MaxEvents
    /\ sequence' = sequence + 1
    /\ terminal' = is_terminal
    /\ attempts' = IF is_terminal THEN TERMINAL_MAX_ATTEMPTS ELSE DEFAULT_MAX_ATTEMPTS
    /\ stage' = "flush"
    /\ UNCHANGED <<pending, acknowledged, refused, evicted, answer>>

AfterFlush == IF stage = "flush" THEN "deliver" ELSE "idle"

\* Mutant of AfterDelivery: the call returns without the final flush.
NoLastFlush == "idle"

AfterDelivery == IF terminal THEN "last_flush" ELSE "idle"

\* Nothing is held (any more).
Flushed ==
    /\ stage \in {"flush", "last_flush"}
    /\ pending = << >>
    /\ stage' = AfterFlush
    /\ UNCHANGED <<sequence, terminal, attempts, pending, acknowledged, refused,
                   evicted, answer>>

\* The bookkeeping of an answer that settles the event n.
Settle(n, outcome) ==
    /\ answer' = outcome
    /\ \/ /\ outcome = "delivered"
          /\ acknowledged' = acknowledged \cup {n}
          /\ UNCHANGED refused
       \/ /\ outcome = "permanent"
          /\ refused' = refused \cup {n}
          /\ UNCHANGED acknowledged

\* Mutant of Retry: the event leaves the buffer whatever the answer was.
RetryOnce(outcome) ==
    /\ stage \in {"flush", "last_flush"}
    /\ pending # << >>
    /\ pending' = Tail(pending)
    /\ \/ Settle(Head(pending), outcome) /\ UNCHANGED stage
       \/ /\ outcome = "transient"
          /\ answer' = outcome
          /\ stage' = AfterFlush
          /\ UNCHANGED <<acknowledged, refused>>
    /\ UNCHANGED <<sequence, terminal, attempts, evicted>>

\* One attempt at the oldest event held: it leaves the buffer unless the answer
\* was transient, and then the flush stops.
Retry(outcome) ==
    /\ stage \in {"flush", "last_flush"}
    /\ pending # << >>
    /\ \/ /\ Settle(Head(pending), outcome)
          /\ pending' = Tail(pending)
          /\ UNCHANGED stage
       \/ /\ outcome = "transient"
          /\ answer' = outcome
          /\ stage' = AfterFlush
          /\ UNCHANGED <<pending, acknowledged, refused>>
    /\ UNCHANGED <<sequence, terminal, attempts, evicted>>

\* Mutant of Buffer: the full buffer gives up its newest event.
BufferOldest(n) ==
    IF Len(pending) < DEFAULT_BUFFER_LIMIT
    THEN pending' = Append(pending, n) /\ UNCHANGED evicted
    ELSE /\ pending' = Append(SubSeq(pending, 1, Len(pending) - 1), n)
         /\ evicted' = evicted \cup {pending[Len(pending)]}

\* _buffer: the full buffer gives up its oldest event.
Buffer(n) ==
    IF Len(pending) < DEFAULT_BUFFER_LIMIT
    THEN pending' = Append(pending, n) /\ UNCHANGED evicted
    ELSE pending' = Append(Tail(pending), n) /\ evicted' = evicted \cup {Head(pending)}

\* Mutant of Deliver: an attempt without an answer starts the call over.
DeliverOver(outcome) ==
    /\ stage = "deliver"
    /\ \/ /\ Settle(sequence, outcome)
          /\ stage' = AfterDelivery
       \/ /\ outcome = "transient"
          /\ answer' = outcome
          /\ stage' = "flush"
          /\ UNCHANGED <<acknowledged, refused>>
    /\ UNCHANGED <<sequence, terminal, attempts, pending, evicted>>

\* One attempt of _deliver at the event being emitted.
Deliver(outcome) ==
    /\ stage = "deliver"
    /\ attempts' = attempts - 1
    /\ \/ /\ Settle(sequence, outcome)
          /\ stage' = AfterDelivery
          /\ UNCHANGED <<pending, evicted>>
       \/ /\ outcome = "transient"
          /\ attempts > 1
          /\ answer' = outcome
          /\ UNCHANGED <<stage, pending, evicted, acknowledged, refused>>
       \/ /\ outcome = "transient"
          /\ attempts = 1
          /\ answer' = outcome
          /\ Buffer(sequence)
          /\ stage' = AfterDelivery
          /\ UNCHANGED <<acknowledged, refused>>
    /\ UNCHANGED <<sequence, terminal>>

Post(outcome) == Retry(outcome) \/ Deliver(outcome)

EmitterStep == Flushed \/ \E outcome \in Answers : Post(outcome)

EmitterNext == EmitterStep \/ \E is_terminal \in BOOLEAN : Emit(is_terminal)

EmitterSpec == EmitterInit /\ [][EmitterNext]_emitter_vars

\* The HTTP client's timeout answers every POST, if only with a failure, and the
\* event loop runs the coroutine on.
FairEmitterSpec == EmitterSpec /\ WF_emitter_vars(EmitterStep)

-----------------------------------------------------------------------------
(* Properties. *)

InFlight == IF stage \in {"flush", "deliver"} THEN {sequence} ELSE {}

\* Every event emitted is in exactly one place: acknowledged, refused, evicted,
\* held, or being delivered; and none is held twice.
EveryEventAccountedFor ==
    LET places == <<acknowledged, refused, evicted, Range(pending), InFlight>>
    IN  /\ UNION Range(places) = 1 .. sequence
        /\ \A i, j \in DOMAIN places : i # j => places[i] \cap places[j] = {}
        /\ IsInjective(pending)

\* "When it overflows the oldest go, because the newest carry the conclusion"
\* (ADR-0006): what is held is in order, fits, and is newer than anything that
\* was pushed out; so the terminal event is never pushed out.
BufferKeepsNewest ==
    /\ \A i, j \in DOMAIN pending : i < j => pending[i] < pending[j]
    /\ Len(pending) <= DEFAULT_BUFFER_LIMIT
    /\ \A e \in evicted, p \in Range(pending) : e < p
    /\ terminal => sequence \notin evicted

\* When the run is over, events are left behind only if the backend's very last
\* answer was "not now": one answered final flush empties the buffer.
LeftBehindOnlyUnanswered ==
    (terminal /\ stage = "idle" /\ pending # << >>) => answer = "transient"

\* Emitting an event ends, however the backend behaves: a run is never held up
\* by a backend that does not answer.
EmitReturns == stage # "idle" ~> stage = "idle"

=============================================================================
