------------------------------- MODULE Reranker ------------------------------
(***************************************************************************)
(* CrossEncoderReranker: one model in the memory of the AI service, loaded *)
(* by the first caller that needs it.  Loading and scoring happen in a     *)
(* thread while the event loop goes on, each under an asyncio lock.        *)
(* GET /rag/stats asks whether the model is available, which loads it too. *)
(***************************************************************************)
EXTENDS Naturals

CONSTANTS
    Scorers,        \* searches, which may rerank
    Probes          \* is_available calls

Clients == Scorers \cup Probes

ASSUME RerankerAssumption == Scorers \cap Probes = {}

VARIABLES
    encoder,        \* _encoder is there
    reason,         \* _load_error
    at,             \* where every client is
    loads           \* history: how often the model was put into memory

rerankerVars == <<encoder, reason, at, loads>>

Places == {"away", "to load", "loading", "to score", "scoring",
           "scored", "unavailable", "failed"}

RerankerInit ==
    /\ encoder = FALSE
    /\ reason = "none"
    /\ at = [c \in Clients |-> "away"]
    /\ loads = 0

Goes(c, place) == at' = [at EXCEPT ![c] = place]

(* With the model in hand, a probe has its answer and a search goes on.    *)
Served(c) == IF c \in Scorers THEN "to score" ELSE "away"

(* An asyncio lock is free when nobody is between taking it and giving it  *)
(* back.                                                                   *)
Free(holding) == \A c \in Clients : at[c] # holding

(* _ensure_loaded: no lock is taken if the model is there.                 *)
Ask(c) ==
    /\ at[c] = "away"
    /\ Goes(c, IF encoder THEN Served(c) ELSE "to load")
    /\ UNCHANGED <<encoder, reason, loads>>

(* Bug: not looked at again once the lock is held.                         *)
TakeLoadUnchecked(c) ==
    /\ at[c] = "to load" /\ Free("loading")
    /\ Goes(c, "loading")
    /\ UNCHANGED <<encoder, reason, loads>>

(* The lock is had; another client may have loaded the model meanwhile.    *)
TakeLoad(c) ==
    /\ at[c] = "to load" /\ Free("loading")
    /\ Goes(c, IF encoder THEN Served(c) ELSE "loading")
    /\ UNCHANGED <<encoder, reason, loads>>

Load(c) ==
    /\ at[c] = "loading"
    /\ encoder' = TRUE /\ reason' = "none" /\ loads' = loads + 1
    /\ Goes(c, Served(c))

(* Not installed, not downloaded, no memory for it: the next caller tries  *)
(* again.                                                                  *)
LoadFails(c) ==
    /\ at[c] = "loading"
    /\ reason' = "load failed"
    /\ Goes(c, IF c \in Scorers THEN "unavailable" ELSE "away")
    /\ UNCHANGED <<encoder, loads>>

TakeScore(c) ==
    /\ at[c] = "to score" /\ Free("scoring")
    /\ Goes(c, "scoring")
    /\ UNCHANGED <<encoder, reason, loads>>

Score(c) ==
    /\ at[c] = "scoring"
    /\ Goes(c, "scored")
    /\ UNCHANGED <<encoder, reason, loads>>

(* Too few scores, no numbers, or the model raised.                        *)
ScoreFails(c) ==
    /\ at[c] = "scoring"
    /\ Goes(c, "failed")
    /\ UNCHANGED <<encoder, reason, loads>>
=============================================================================
