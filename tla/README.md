# Sentinel: a TLA+ model of the investigation platform

Sentinel investigates incidents. A person presses *Investigate* in the backend (ASP.NET Core);
the backend asks the AI service (Python, asyncio) to run an agent; the agent's state machine
collects evidence from tools, lets a language model propose and criticise an explanation, and
reports every step back to the backend as an HTTP callback; a conclusion with actions to take
waits for a person's approval and is then carried out through a tool server.

This directory models the parts of that whose correctness depends on order, limits, failure and
loss. Paths below are relative to the repository.

## 1. Inventory

| Component | State it keeps | Operations | What makes it correct |
|---|---|---|---|
| Agent runner and context (`ai-service/agents/state_machine.py`, `context.py`) | current state, transitions, plan, budget spent, iteration, evidence, hypotheses, root cause, rejections | one turn per node, stop, abort, ceiling | it ends; its limits do what they are for; it publishes one conclusion and stands by it |
| Nodes (`agents/nodes/`) | none of their own | fifteen `run` methods over the shared context | fixes only for accepted conclusions; the critic's one retry; the back edge within its limits |
| Investigation service (`app/api/investigations.py`) | one `RunRecord` per run, an asyncio task each | start, run, finish, abort, remember | the record is closed exactly once, with the machine's outcome |
| Postmortems and memory (`agents/postmortem.py`, `rag/memory.py`) | generated files, index | write, index | only what a run stood behind becomes a precedent |
| Callback emitter (`agents/events.py`) | sequence counter, buffer of undelivered events | emit, flush, deliver with retries, buffer | nothing lost unnoticed, nothing blocks the run, newest kept |
| Event handler (`InvestigationEventFeatures.cs`) | rows: steps, tool calls, evidence, hypotheses, root cause, recommendations, status, incident status | one per event type, reconciliation | the rows end as the final payload says, whatever was lost, repeated or late |
| Start handler and incidents (`InvestigationFeatures.cs`, `IncidentFeatures.cs`) | investigation and incident rows | start, status changes | one run per incident; nobody waits for a run that will not report |
| Recommendations and remediation (`RecommendationFeatures.cs`, `agents/remediation.py`, `app/api/actions.py`) | recommendation status, who decided, verification result | approve, reject, execute, verify | one decision acts, under its own name; what is approved ends; Verified is a measurement |
| MCP servers (`mcp-servers/`) | none of their own; docker's containers | read-only queries, restart, replace a container | a failed replacement leaves something running; a body runs only for a token issued for it |
| MCP client, registry, policy (`mcp_client/`) | tool catalogue | call, refresh, policy check, approval token | an approved call is refused only for a named reason |
| Router, structured output (`routing/`, `llm/`) | call counters | classify with fallback, ask with repair | a plan that is the table's, or an explicit failure; a call that ends by itself is not free |
| Knowledge base (`rag/ingest.py`, `rag/store.py`, `rag/lexical.py`, `RagService` in `app/api/rag.py`) | files, rows, the lexical index in memory | ingest, write-up, search's lazy load | rows mirror files; an index is not read before it is filled |
| Retrieval (`rag/chunking.py`, `rag/retrievers.py`, `rag/rerank.py`, `rag/context_builder.py`, `agents/nodes/search_history.py`) | the reranker's model | chunk, search, fuse, rerank, cap, build a context, make evidence | nothing lost between chunks; one half is enough; the model is loaded once |
| Predictions (`reporting/predictions.py`, `ModelPredictionFeatures.cs`) | rows of model_predictions | report, record | one row per call, carrying all it cost |
| Sample services (`sample-services/`) | a fault table, a circuit breaker | serve, inject a fault | not modelled: the subject under investigation |
| Sign-in, service catalogue, frontend, evaluation, training, infrastructure | - | - | not modelled: stateless handlers and CRUD, presentation, batch scripts, configuration |

How they interact: the start handler calls the AI service over HTTP and returns; the run is a
detached task; its emitter calls back over HTTP, at least once, in the order the emitter manages;
the handler writes rows that the approval flow and the incident screens read. Nothing durable
sits between the two services.

What is hard in this code: the three loops of the machine (back edge, critic's retry, a requeued
collector's second visit) and the limits they share; delivery that loses, repeats and reorders;
rows written by events of two rounds; starts that race, and timeouts that pass while the other
side goes on; approvals that race, and executions that outlive the request that asked for them;
containers addressed by name while another call renames them; ingests, write-ups and searches on
one event loop; an index and a model that the first caller has to load; measurements that arrive
over two ways.
`PROJECT.json` lists the hazards line by line.

## 2. Modules

```
InvestigationContract      what a run promises (abstract)
        ^ implemented by
InvestigationMachine  <--  InvestigationRun        (the run inside the service)
        ^ both proved about by InvestigationMachineProofs

CallbackEmitter       <--  EventDelivery           (emitter + network + backend rows)
        ^ both proved about by EventDeliveryProofs

InvestigationLifecycle     one incident, its investigations and the people at it
        ^ proved about by InvestigationLifecycleProofs

Remediation                one recommendation, its approvals and their executions
        ^ proved about by RemediationProofs

ContainerReplacement  <--  DestructiveCall         (approval token, policy, server, container)
        ^ both proved about by DestructiveCallProofs

KnowledgeBase              files, rows and the lexical index
        ^ proved about by KnowledgeBaseProofs

Chunker, Filters, Reranker <--  Retrieval  <--  MCRetrieval (instance)
                                ^ proved about by RetrievalProofs

StructuredOutput, Routing  <--  ModelCalls <--  MCModelCalls (instance)
                                ^ proved about by ModelCallsProofs
```

### InvestigationMachine

One action is one turn of `StateMachine.run`: the visit is counted, the node runs, its events are
emitted, the state advances. Only the node under way touches the context, so a turn is atomic
although it awaits. The variables are the context's fields and the runner's locals under their
own names; three are renamed or joined: `visits` (the runner's counter, per collector),
`rejections` (`counters["validate_failures"]`), and `announced` (how many `ROOT_CAUSE` events
went out). `outcome` and `exit` record which call of `_stop` ended the run.

Data is cut down to what guards ask: a hypothesis is the collector that would settle its category;
of the evidence, whether there is any; a score is the side of the threshold it fell on, and a
conclusion that cites nothing cannot reach it (0.25 + 0.15 + 0.15 of the weights remain, below 0.70
even when a missing term is normalised away). The plan of every intent is the source's table. What
tools, the router and the model answer is nondeterministic: an answer, an answer that never
validates, or no answer; and where PLAN's router raises what is not its own error, the run fails
(`RoutingRaises`).

### InvestigationContract

What a run promises its observers: draft, withdraw once, publish, propose, end. The machine
implements it under `ConclusionShown`, `rejections > 0`, `recommendations` and `outcome`.

### InvestigationRun

Extends the machine with the task in `InvestigationService._run`: the start that may fail, the
record's `finish` and `abort`, the exception that escapes the runner, and the write-up, which may
be missing, written or indexed.

### CallbackEmitter

One action is one POST with its answer, or one move between two POSTs. `acknowledged`, `refused`
and `evicted` split the code's counters `delivered` and `dropped` into sets, so that an event can
be followed; `pending` and `sequence` are the code's. An answer is one of `_Outcome`'s three.

### EventDelivery

Extends the emitter with the network and the backend's rows. A POST may be answered, not reach
the backend, be written with its answer lost, or outlive its sender's patience and be written at
any later time (`late`). `Handle` is `RecordInvestigationEventHandler.Handle` with one operator
per event type; `TerminalEvent` is `FinishAsync` with `Reconcile` and `UpdateIncident`. The run
is a script chosen at the start: the rankings of one or two rounds and how it ended.

Not in it, and why: interleaved handlers (the emitter has one POST under way at a time; only a
late request can meet another, and they are taken one after the other), the operator's changes
to an incident (`InvestigationLifecycle` has them), a recommendation's status after its creation
(`Remediation` has it), and refused events (the emitter's own module has them).

### InvestigationLifecycle

One incident, from the outside: several start requests, each a handler with its awaits as separate
steps (`handler`: it loads the incident, queries for a running investigation, saves, posts, and
on failure saves again), the AI service's run for each (`run`), its terminal event on the way
(`report`, `late`), the operator's status changes, restarts of the AI service and callers
that go away. What happens inside a run is one step here, with one of three reports at its end:
`ACTIONABLE` (completed, with recommendations), `CONCLUDED` (completed or for a human, without)
and `FAILED`. `seen` is what EF Core's change tracker remembers: a start request that loaded the
incident as `Investigating` does not write that status, whatever became of it since.

Each investigation is posted once, under a fresh id, so the AI service's 409 is never the answer.
`by_hand` and `orphaned` are history: who set the incident's status last, and which investigations
lost their end.

### Remediation

One recommendation and several requests to approve or reject it, each by a person of its own. A
request is a handler with its awaits as separate steps (`handler`): it loads the row and finds it
pending, saves its decision, and an approval then saves `Executing`, posts, and writes what came
of it. The AI service's execution (`run`) is `Remediator.execute` with the tool server behind it:
the rate before, the tool call, the settle window, the rate after and the smoke check. A call that
fails may have done its work, and an answer need not mean that anything was done (a refusal by the
server itself is an answer); `performed` remembers which calls changed the system.

Rates are per thousand, the source's thresholds with them: `HEALTHY_ERROR_RATE` is 10, and an
improvement halves the rate. `VerdictOf` is `_judge` with the smoke check over it, as `_verify`
combines them. There is no clock: the one duration that matters is that an execution which measures
has waited `DEFAULT_SETTLE_SECONDS`, and it is compared with the shorter of the client's two
timeouts (`Patience`). One of them is a setting, `timeout`, chosen at the start from `Timeouts`: the
shipped 15 seconds, under which no execution that measures is ever heard, and 60. A slow execution
is one that has not answered yet when the caller stops waiting. `raced` and `abandoned` are history:
two requests decided at once, and which requests were cut short by a lost caller, a stop of the
backend or an answer that is not JSON.

### ContainerReplacement and DestructiveCall

`ContainerReplacement` is `update_env_and_restart` and `restart_container` of docker_mcp, one
action per request to the Docker daemon. Every request may be refused, may time out before it took
effect or after, and may be interleaved with another call's; the process may stop between two
(`cut off`). `Named` is what the daemon does with a name: the container that has it now. The
daemon is external. `step` is where a call is, `subject` the container whose configuration it read.

`DestructiveCall` puts the call before it: a token is minted (`Issue`), by the backend or by the
issuing half of the AI service, which `minter` remembers; the AI service's
policy checks it against the catalogue and the arguments (`Call`), the shared server checks it again
(`Guarded`) and lets the body run (`Body`, which is a step of `ContainerReplacement`). Meanwhile the
clock ticks, discovery passes begin and end in any order (`Discovered`), the client gives up while
the body goes on, and somebody who is not the AI service calls the server (`CallDirectly`). A hash
stands for the text it was taken over: the arguments, and whether their nested values were written
compactly, as the two Python verifiers write them, or as PostgreSQL gives a jsonb column, as the
backend does (`HashArguments`; section 3 says what follows). An update's environment is nested, a
restart's arguments are not. That a signature cannot be forged is assumed.

### KnowledgeBase

One action runs from one await to the next: `load_corpus` and the hash comparison, one embed, one
write, the prune, the rebuild of the lexical index with its query and its build apart. `calls` holds
each call's locals: what it listed (`docs`), what is still to do, which rows it saw. A document is
its body and its front matter because the hash is taken over the body alone; `skipped` remembers
which files a call passed over for that hash. `Fail` is an embedding
model or database that fails a call at any of these steps; the unique key refuses a second row.
`alone` is history: no other call, edit or restart touched anything while this call ran.

### Chunker, Filters, Reranker and Retrieval

`Chunker` is `MarkdownChunker` as operators over sequences of lines: lines to blocks (paragraphs,
lists, headings with their path, fences that may never close), then packing, joining, section breaks
and overlap. Sentences, and lines in a fence, are atomic pieces with sizes. `Reranker` is
`CrossEncoderReranker`: the double-checked load under an asyncio lock, in a thread, for searches and
for the `is_available` of `/rag/stats`. `Filters` is the meaning of a metadata filter, twice: what
the chunker writes under each key, what `normalize` refuses or makes of a request, `matches` in
Python and `metadata_condition` in SQL. `Retrieval` is a search: two halves that answer with any
ranking or fail, the expanded query of HyDE, fusion by reciprocal rank as exact fractions (the code
adds floats; up to the pool sizes used no two different sums are close enough to round together),
the rerank's third vote, the cap on chunks of one document with its over-fetch, the context of
`/rag/search` with its budget, built paragraph by paragraph, and the evidence the agent's node makes
of retrieval and similarity together. What each half finds is chosen among the chunks its filter
lets through: scores and the approximate index decide which ranking, not what is done with it. Two
things of the context are simpler than in the code: `used` is the running total the budget is
checked against, while the `token_count` a response reports is measured again on the finished text
(`context_builder.py:145-148`), and a fence with an empty line in it is one paragraph, which the
code would split.

### StructuredOutput, Routing and ModelCalls

`StructuredOutput` is `generate_structured` over the Ollama provider, whose runtime may be away,
refuse, answer a body that is not JSON, or one of another shape, each of which is another exception.
A text is what `extract_json`
tells apart: what a fence holds, the bracketed spans with where they open, and itself. `Repair`
builds the next conversation from every earlier answer, as the code does. `Routing` is the rule
table in its order, `INTENT_PLANS`, the model router's `Settle` and the planner's `PlanFor`; a
question is which rules match it and which services it names. `ModelCalls` is who asks (the
endpoint, a reasoning node, the postmortem writer, the router) and what each leaves behind: what
the context books, what the reporter posts, and what the step event carries to the same table.
A body of another shape raises past the router's fallback (`FallsBack`).
`generated` is history: what the runtime was paid.

## 3. What the runs show

| Run | Question | Bounds | Result |
|---|---|---|---|
| `machine` | do limits, critic and publication fit together | every plan; budgets 6 and 25; iteration limits 1 and 6; ceilings 23 and 43; two signals per round | holds |
| `service_run` | is every run's record closed, once and rightly | budget 6, two iterations, one signal per round | holds, under fairness |
| `emitter` | are events accounted for, whatever the backend answers | six events, a buffer of three, the code's 3 and 5 attempts | holds, under fairness |
| `delivery` | do the rows end as the final payload says | two hypotheses, all 100 scripts, buffer of two, one late request | holds |
| `lifecycle` | is every investigation closed, and is the incident's status accounted for | two start requests; no bound on restarts, retries, duplicates or status changes | holds, under fairness |
| `remediation` | does one approval act and end, and is Verified measured | two requests; rates 10, 20, 40 per thousand and unreadable; client timeouts of 15 s, as shipped, and 60 s | holds, under fairness |
| `destructive_calls` | does a body run only as approved, does an approval open its call, and does something keep running | two updates and a restart, of one container; two minters; tokens good for one tick, a clock of two | holds |
| `knowledge_base` | what does one undisturbed ingest repair, after anything at all went wrong | two files, one of them the agent's, two bodies and two front matters; any rows at the start; two calls, one edit; any failures and restarts | holds |
| `retrieval` | what a search may lose, repeat or report as nothing | two documents in at most three chunks, two asked for, four candidates a half; a context of twelve tokens; one search, one probe | holds |
| `model_calls` | is a call that ended booked, and what was asked planned | two calls of any caller; up to three attempts; four kinds of text, five questions, every intent | holds |
| `own_write_up` | an incident is no precedent for itself | as `retrieval`, the incident's own documents in the corpus | violated |
| `counted_twice` | a structured call is one row | one call | violated |

### What each run checks

- `machine`: `CeilingIsATripwire` (the ceiling ends no run that is merely long),
  `FixNeedsAcceptedConclusion` (a fix needs one announced, accepted, cited conclusion that reaches
  the threshold), `RequeuedCollectorIsAfforded` (a back edge's collector can pay for the visit that
  was asked for), `BudgetOf22Suffices` (the default budget limits no run),
  `PublishedConclusionStands` (what was announced is what the run ends with), `FollowsContract`
  (the machine implements `InvestigationContract`).
- `service_run`: `RecordSettles` (the record leaves "running" and agrees with the terminal event),
  `ClosedRecordStands` (it never changes afterwards).
- `emitter`: `EveryEventAccountedFor` (each event is in exactly one place), `BufferKeepsNewest`
  (what is evicted is older than what is held, and never terminal), `LeftBehindOnlyUnanswered`
  (events stay behind only if the last answer was "not now"), `EmitReturns` (an emit ends).
- `delivery`: `ResultSurvivesDelivery` (the rows hold the conclusion whatever was lost, late or
  repeated), `RootCauseIsLinked` (it names a hypothesis that is a row), `ClosingLeavesOneLeader`
  (closing leaves one hypothesis in first place).
- `lifecycle`: `StuckOnlyByLoss` (four named losses leave a row Running, no interleaving does),
  `ShownStatusIsEarned` (an investigation accounts for the incident's status), `InvestigationsEnd`
  (each is closed, or its end was lost).
- `remediation`: `UnderWayIsAttended` (work in progress has a handler, unless an approval was cut
  short), `OneDecisionActs` (one approval acts at most, and nothing rejected ran),
  `VerifiedIsMeasured` (Verified means the rate was read twice and fell), `RemediationSettles`
  (Executing ends). All four under either timeout.
- `destructive_calls`: `SomethingRuns` (some container of the service keeps running),
  `RemovedForASuccessor` (one is removed only for a running successor), `RanAsApproved` (a body
  that began was approved for these arguments, and in time), `ApprovalOpensItsCall` (a call with its
  own approval is turned away, by the policy or the server, only because the approval ran out, the
  catalogue had lost the tool, or the backend hashed a nested argument).
- `knowledge_base`: `OneRowPerFile`, `QuietIngestMirrors` (an undisturbed pruning ingest leaves a
  row for each readable file and no other, with the file's body, and with its front matter unless
  the file was skipped; a forced one skips none), `QuietCallIsSearchable` (what returned undisturbed
  is in the index), `SearchWaitsForTheIndex` (no search reads an index that is not filled yet).
- `retrieval`: `DocumentsAreWhole` (chunks lose no text and keep their bound), `AgreementWins`
  (fusion ranks what both halves found first), `HalfIsEnough` (one half serves, and two dead ones
  are not an empty answer), `ShortOnlyWhenCrowded` (the cap costs no result it need not),
  `ReadWholeAndOnce` (what a source says can be read in its block or an earlier one, no block
  repeats an earlier one's paragraph, what is dropped was said or does not fit; evidence is not
  repeated), `HalvesFilterAlike` (both halves read a filter as it was meant), `ModelIsLoadedOnce`.
- `model_calls`: `CostsAddUp` (a call that came to its own end, valid or not, is in the
  investigation's tokens and calls, and nothing is that was not paid; a row carries all its call
  cost, and a caller told "recorded" has one), `PlanServesTheQuestion` (a plan serves its question's
  intent whatever the model answered).
- `own_write_up`: `NoPrecedentForItself`. `counted_twice`: `OneRowPerCall`.

### Why the bounds are enough

*machine*: the budget 6 stops collectors at every stage and 25 is the default; with 6 iterations and
two signals the back edge is taken as often as there are signals to miss. The longest run of one
iteration makes 23 transitions (19 + 4 * 1), so the ceiling 23 is tight there and does end longer
runs of six iterations, which 43 (19 + 4 * 6) never does. `MaxHypotheses` is 5 in the code: a round
uses its hypotheses only through the one gap it follows, and three rounds of gaps are reached with
two. The proofs below need none of these bounds. *emitter*: six events overflow a buffer of three
twice over. *delivery*: two titles are the fewest for which rounds can agree, disagree and overlap;
`MaxLate` bounds the requests that outlive their sender, not how late they are. Titles are
symmetric. `DEFAULT_MAX_ATTEMPTS` is 1 there because attempts at one event differ from retries of it
in nothing the rows can see. *lifecycle*: two requests are what a race takes, and the proofs need no
bound; a run has at most one late terminal event outstanding at a time. *remediation*: two requests
are what a race takes; the rates are one healthy, one failing and one twice that, on the boundary of
both thresholds, so that every verdict is reached. `Timeouts` has one value on each side of the
settle window: under the shipped 15 no execution that measures is heard (the disagreement below), so
Verified is reached under 60 only. *destructive_calls*: two updates can cross, and
a restart can cross either; a token minted at the first tick is good then and expired at the second,
which is all a check asks of a clock. Calls of one tool are symmetric, and the proofs need no bound.
*knowledge_base*: a listing, a write-up and a search are the three that can cross; two of the three
run, in any kinds, and the rows they find are arbitrary, which stands for all calls before them.
`Ids` leaves a key free for every row and every listing of one that is gone. *retrieval*: the two
documents fill one and two chunks, so the cap, a tie and a chunk only one half found all occur;
`MCWritten` holds an oversized block, a code fence, one left open with the other mark in it, a
section break, a list after prose and a repeated text; `MCRequests` holds typed values, lists with a
null, a key a document lacks or leaves null, and three requests that are refused; three chunks and
four candidates never cut the pool, so that `ShortOnlyWhenCrowded` holds of cut ones too is the
theorem's (`CapCostsNothing`); a context of twelve tokens holds both documents in some corpora and
drops a chunk that is too large before a smaller one in others, and the second document repeats a
heading and a paragraph of the first. `RRF_K` is the source's. Two loaders are one search and one
probe; `RetrievalProofs` takes any number. *model_calls*: two calls are what the shared totals need;
an attempt answers with an object, an array of objects where one was asked for, a fence, or prose,
so every branch of the extraction and every number of repairs occurs; `MCDecisions` contradicts the
table in every intent. Calls are symmetric.

Deadlock is not checked: every run of the system ends.

### The two disagreements shown by runs

1. *Own write-ups* (`own_write_up`). `search_history.py:166` says a second run must not find its own
   write-up; only the similarity search is told so, the retrieval beside it is not.
2. *Counted twice* (`counted_twice`). `predictions.py:81-87` says one row per call. A reasoning
   node's valid call is reported by the node and carried again by its step event
   (`InvestigationEventFeatures.cs:219`); an invalid call is reported once, so the success rate the
   dashboard shows is too high.

### Other disagreements met while modelling

No run holds these; each is a reading of the lines named.

- Investigation: a `NEEDS_HUMAN` run with a root cause is written up although `postmortem.py:16-19`
  says not. A requeued collector is both target and head of the plan and runs twice
  (`context.py:293-302`). `schema.py:81-83` says the planner uses a route's tools; `PlanNode` never
  reads them.
- Delivery: a held hypothesis event delivered after the terminal one is written over the reconciled
  ranks, so two may be first (`InvestigationEventFeatures.cs:308`, `:501`); the selection, root
  cause and recommendations survive, and that is checked.
- Lifecycle: the check for a running investigation and the insert are two statements, and two starts
  pass (`InvestigationFeatures.cs:179-187`). An incident investigated again keeps its `ResolvedAt`
  (`IncidentFeatures.cs:224-226`).
- Remediation: the comment at `AiServiceClient.cs:141-143` gives the call a timeout of its own
  because it waits for the settle window, but the client's own timeout applies as well, is 15
  seconds (`AiServiceClient.cs:38`) and is set nowhere: every execution that measures is recorded as
  Failed, whatever it did. The run and the proofs cover that configuration. An execution answered
  "failed" by a timeout may still run. A refusal by the tool server counts as executed
  (`remediation.py:167`).
- Approval: `ApprovalTokenService.cs:86` says the hash is over "the same canonical form the Python
  side hashes". For a nested value it is not: `Compact` (`:178-186`) takes the raw text of a jsonb
  column (`RemediationConfigurations.cs:19`), which has a space after each comma and each colon and
  keys in its own order, and removes the former only, while `approval.py:100-103` sorts keys at
  every level and writes neither. Every `update_env_and_restart` approved through the backend is
  therefore refused as approved for different arguments; in the model, too, updates run only with
  tokens of `ApprovalTokens.issue`, which tests and demo scripts use.
- Containers: when the rename back is refused, the answer still says the original was left running
  (`docker_mcp/server.py:382`). Of two overlapping updates the later copy lacks the first's
  variables (`server.py:351`).
- Catalogue: overlapping discovery passes leave what the last to end saw (`registry.py:129`).
- Knowledge base: an edit of the front matter alone never reaches the row (`ingest.py:215`), until the
  body changes or an ingest is forced, although `documents.py:56-57` says the row is "rewritten on
  every ingest anyway" and `ingest.py:3-8` calls ingestion a mirror. Crossing
  rebuilds leave the lexical index of the last to end, which may have read earlier
  (`lexical.py:119`). An ingest whose listing was made before a write-up added its file prunes
  the new row. A regenerated postmortem under another root-cause title is another file, and the
  incident then has two (`memory.py:12-14`, `store.py:121`).
- Retrieval: a dead half beside an empty one answers 200 with nothing. A failed expansion of HyDE
  costs the whole dense half. A reranker's error fails the search with 503. A document that crowds
  the pool can leave the answer short. The comment on a trailing chunk of overlap alone describes a
  case that cannot occur. A heading's path is cut by position, not by level (`chunking.py:180`): two
  second-level headings with no first-level one before them nest, though no document of the corpus
  is so written. `context_builder.py:174-177` says a `## Fix` heading of two runbooks is kept: a
  heading is a paragraph of its own, and the second one is stripped. A context may be one token over
  its budget by its own count.
- Models: `structured.py:12-13` says every attempt is reported, including the failures, and
  `reasoning.py:167-171` that failed attempts are not shown as free. Attempts made before the
  runtime broke the call off, whether it was away, refused, or answered a body that is not JSON or
  has another shape, are neither booked nor reported. A body of another shape raises an
  `AttributeError` (`ollama_provider.py:135`) that the model router does not catch, so PLAN fails
  although the comment at `model_router.py:126-131` says the floor stays. An `LlmError` that is not
  an unavailability is a 500 of `/llm/structured`; a body of Ollama that is not JSON is counted as
  the model's invalid JSON; a report that timed out may have been stored. The model router applies
  the hint to a question that names two services, which `rule_router.py` never does.

## 4. Fairness

`FairRunSpec`: weak fairness on the run's next step. The task is held by the service and every await
in it (tools, models, database, callbacks) has a timeout. `FairEmitterSpec`: weak fairness on the
emitter's own steps, not on the runner's emitting: the HTTP client's timeout answers every POST, if
only with a failure. Nothing is assumed about the backend ever answering. `FairLifecycleSpec`: weak
fairness, for each start request, on what the two services go on to do for it once it was made; not
on restarts, lost callers, late deliveries, the operator, or new requests. `FairRemediationSpec`:
weak fairness, for each request, on the backend's own steps once it is made; its HTTP client stops
waiting, so nothing is assumed of the AI service. `InvestigationMachine`, `EventDelivery`,
`DestructiveCall`, `KnowledgeBase`, `Retrieval` and `ModelCalls` state safety only: their calls end
when an external service answers, and the code promises no more.

## 5. What is proved

`InvestigationMachineProofs`, for every budget in 1..200, iteration limit in 1..10, ceiling and
number of hypotheses (`LimitsAssumption`, the limits of `StartInvestigationRequest`):

- `Invariance`: the inductive invariant `IInv`. Types alone are not inductive for what matters:
  `BackEdgeAfforded` says what is in the budget while a requeued collector waits for its first
  visit, `PlanSpent` what may be in the plan once there are hypotheses, `HypothesesAtHand` and
  `ConclusionAtHand` which parts of the context each state can rely on, `ExitMatches` ties the
  reason a run ended to the state it ended in, and `WorkBounded` is the measure: transitions made
  plus the most that can follow never exceed `LongestRun`.
- `TypeCorrect`, `FixesAreEarned`, `CeilingOnlyTrips`, `BackEdgeIsAfforded`: the invariants of the
  run `machine`, and its types; `DefaultCeilingIsNeverHit`: with at most 10 iterations, 59
  transitions is the most, so the default ceiling of 100 is never met.
- `PublishedStands`: a published conclusion is final. `RunsFollowContract`: the machine
  implements `InvestigationContract`, step by step.
- `BudgetSuffices`: a budget of 22 refuses no collector, under any plan and iteration limit. Its
  invariant (`VInv`) is per collector: what was spent is at most what the visits made so far can
  have cost, and no collector is visited a third time, because a plan holds only collectors that
  have not run until there are hypotheses (`FirstPass`), and afterwards a collector is entered a
  second time only as the last of its plan (`SecondPass`).
- `RunIsTheMachines`: `RunSpec` implements the machine's `Spec`, so all of the above holds of the
  machine inside the service. `RecordTellsTheEnd` is the safety half of `RecordSettles`, and
  `RecordStands` the action property; both rest on `RunInv`, which ties the record's status to
  where the task is.

`EventDeliveryProofs`, of the emitter, for every number of events, attempts and buffer size:

- `EmitterTypeCorrect`, and `NewestAreKept`: the buffer is in order, within its limit, and holds
  nothing older than what it gave up, so the terminal event is never given up. The inductive
  invariant (`EInv`) adds that what is held is older than the event in flight.
- `NothingLeftUnanswered`: events are left behind only by a final flush that was not answered.
- `NothingLostSightOf`: every event is acknowledged, refused, evicted, held or in flight, and in
  one of these only.

and of the delivery, for every script of titles and actions, every loss and every number of late
requests (`DeliveryAssumption`: there are finitely many titles, a completed run has actions, and
`None` is no root cause):

- `DeliveryRefinesEmitter`: `DeliverySpec` implements `EmitterSpec`, so the above holds there too.
- `ResultSurvives`, `RootCauseLinked`, `OneLeaderAtClosing`: the run's three properties. What the
  rows hold when the terminal event is written does not depend on what was written before only
  because the rows before can hold so little (`OpenRows`) and every number on its way is an event of
  the script (`OnTheWay`); together, `DInv`.

`InvestigationLifecycleProofs`, for any number of start requests:

- `OnlyLossLeavesStuck`: an investigation is left `Running` with nobody to close it only by a
  restart, a run that died outside its nodes, a terminal event given up, or a start abandoned
  after its save. The invariant has to say who is left when each party is done (`HandedOver`):
  a start request to the run, a run to its terminal event.
- `ShownStatusEarned`: unless an operator set it, an incident is `Investigating` only while an
  investigation is running and `AwaitingApproval` only if one completed, however starts, stale
  loads, late failures and repeated terminal events interleave. It rests on `RowFirst`: nothing
  happens to an investigation before it has a row.
- `LifecycleTypeCorrect`.

`RemediationProofs`, for any number of requests, any error rates and any timeout:

- `OneDecision`: unless two requests decide at once, one approval acts, under its own name, and
  nothing rejected runs. The invariant has to speak of everything an approval sets in motion,
  wherever it is (`InMotion`), because a row that is Failed may have an execution still going.
- `UnderWayAttended`: a row is left looking like work in progress only by an approval cut short.
- `VerifiedMeasured`: Verified rests on two readings that fell and no failed smoke check, whatever
  the rates and whoever wrote the row last. It rests on `ClaimIsMeasured`, which is about the
  verdict of any two readings, and on a report staying what was measured (`ReportsAreMeasured`).
- `RemediationTypeCorrect`.

`DestructiveCallProofs`, of the replacement, for any number of updates and restarts:

- `ServiceKeepsRunning`: one container keeps running unless a restart stopped it and could not
  start it again. The invariant is about the two names: what is set aside is always the container
  that ran, and it stays until the one that holds the name has started, because between a create
  and its delete nobody else can take either name (`Placed`, `OldRuns`).
- `RemovalNeedsASuccessor`, and `ContainersTypeCorrect`: no name is held twice.

and of the call around it, for any lifetime, clock and number of calls:

- `EveryRunWasApproved`: whatever calls the server, a body that began had a token of its own, not
  expired. It rests on `OnlyItsOwnToken`: a token that passes the server's check is the call's.
- `GateImplementsReplacement`: every gated step is a step of `ContainerReplacement` or a stutter,
  so its theorems hold behind the gate (`GatedServiceKeepsRunning`).
- `ApprovalsOpenTheirCalls`: a call made with its own approval is turned away only for the three
  reasons of `ApprovalOpensItsCall`. The three ways of hashing are compared argument by argument;
  they differ where the backend minted over a nested one, and nowhere else.

`KnowledgeBaseProofs`, for any number of files, calls and edits:

- `IngestionIsAMirror` and `IngestedIsSearchable` follow one undisturbed call: nothing else runs
  (`Sole`), what it listed is still there (`Listed`), and each stage has brought the rows one step
  closer (`Progress`), with the front matter of what it embedded and not of what it skipped. Nothing
  is asked of what came before, so any mess but that is repaired.
- `FilesAreIndexedOnce`: the unique key makes the second of two crossing upserts fail.
- `SearchesFindTheIndexFilled`: the flag is set only by a call that has built the index.
- `KnowledgeBaseTypeCorrect`.

`RetrievalProofs`, for any number of searches and probes, any documents and any rankings:

- `LoadedOnce`. The locks are not variables; that one client loads at a time, and only while the
  model is not there, makes the invariant inductive (`LoadsAlone`).
- `FiltersMeanOneThing`: both readings of a filter are equal to what was meant, key by key.
- `AgreementIsKept`. A fusion is the one enumeration of two lists along an order of exact fractions
  with ties broken: the order is strict and total (`BeforeIsOrder`), so the enumeration exists and
  is the only one (`LineExists`, `OneLine`, by counting what lies before an element); two votes beat
  one while a half returns no more than `RRF_K` candidates and one (`RetrievalAssumption`), which is
  where the pool's size matters.
- `OneHalfSuffices`: a fusion with nothing, or with itself, is the list (`FuseAlone`).
- `CapCostsNothing`: an answer that is not full leaves out only results whose document has reached
  its cap, where the over-fetch allows for it. The cap is a fold over the reranked pool, and the
  library defines folds over sets of places: `FoldExists` and `FoldRuns` turn such a fold into a run
  of steps, and an induction on the places says who was kept and why the others were not
  (`ShortWhenCrowded`).
- These four rest on `SearchInv` and `AnswerInv` (`AnswersComeFromThePool`): what each half holds is
  a ranking of what its filter lets through, a half works only while its search waits for it, the
  pool is what the halves make, and an answer is the cap of an order of the pool that was offered.
- `NothingIsLostByCutting`: for any documents, target and overlap, the chunks of a document hold its
  texts and nothing else, and none is larger than the target and an overlap, unless one piece alone
  is too large. Reading, packing, and putting chunks together are folds; what a fold computes grows
  by one step for each element (`AppendLaw`), so each part of the argument is an induction on a
  sequence: a reader holds what it read (`Says`), packs hold the pieces of a block (`InPacks`),
  the chunks so far hold the blocks so far, within the bound (`InChunks`, `AllBounded`). What is
  carried over is affordable by its choice, and the last chunk may be dropped only because the one
  before it says it all. `IndexIsTheCorpus` (`IngestInv`) says the index is made of these chunks.
- `ReadersKeepTheAnswer`: a context under any budget accounts for every result, shows every source
  whole without repeating a paragraph between blocks, and drops a result only if it said nothing new
  or did not fit; evidence names no document twice. `Reads` is the invariant of the fold that builds
  a context; it needs that blocks are only ever added, so that what was shown stays shown.

`ChunkerAssumption` and `RetrievalAssumption` say what these need of the constants: sizes are
positive and the overlap is less than the target (as the settings are), pieces are positive numbers
(a breadcrumb is written as a negative one), and what is written consists of `Lines`: only a heading
has a level, and a blank line says nothing, which is what the patterns of `chunking.py` make of text.

`ModelCallsProofs`, for any finite number of calls, any attempts and answers (`GenerateAssumption`,
`CallAssumption`: costs are numbers, the table's terms belong to its rules, and a decision that
validates names an intent):

- `CostsAreAccounted`: what was booked lies between the cost of the calls that came to their own end
  and the cost of all of them, in tokens and in calls, and rows carry all their calls cost.
  `CallInv` says when a call is booked, that nothing of it is reported before, and that what was
  paid for it is the cost of its attempts. The sums are folds that take their elements in an
  arbitrary order; `SumWithout` shows the order makes no difference, by induction on finite sets in
  the form of a least counterexample, which needs no operator parameter.
- `PlansServeTheQuestion`: the plan of a routed question is the whole list of its intent, each
  collector once. Its first half is `DecisionsAreTheTables`, which rests on `TableIsCoherent`: the
  two tables of the source agree in every intent.
- `CallInvariance`.

The inductive invariants were first checked by TLC on small instances. The type invariants are
proved rather than run.

Model checked only: everything under fairness, which the prover does not reach: `EmitReturns`,
`InvestigationsEnd`, `RemediationSettles`, and the liveness half of `RecordSettles`. Every other
property of a passing run is a theorem.

## 6. Not modelled, and what could follow

- *Interleaved event handlers.* Two requests of one investigation that both load before either
  saves: the emitter has one POST under way at a time, so it takes a late one. Handlers are atomic
  in `EventDelivery`; an evidence event that overtakes its step event is stored without a step.
- *Confidence's arithmetic, embeddings and scores.* Numbers the properties do not tell apart.
- *Read-only tools, discovery's HTTP, the availability probes, sign-in, CRUD.* They keep no state
  another step depends on.
- *Sample services.* The subject of an investigation. One fact is worth recording: their circuit
  breaker lets more than one request probe while half open (`PaymentGateway.cs:154`).
- *Evaluation and training.* Batch scripts run by hand, one at a time.
  `agent_eval.py` leaves a fault enabled for the cases after it when its reset fails.
- *Frontend, infrastructure, datasets.*

A proof that could follow: an abstract specification of the knowledge base, implemented by
`KnowledgeBase`.
