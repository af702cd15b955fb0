--------------------------- MODULE KnowledgeBase ---------------------------
(***************************************************************************)
(* The knowledge base: Markdown files under one directory, the rows that   *)
(* index them in PostgreSQL, and the lexical index every search reads, in  *)
(* the memory of the AI service.  Corpus ingests, write-ups of finished    *)
(* investigations and searches run side by side on one event loop, and     *)
(* every step below ends at an await; people edit the files meanwhile, the *)
(* embedding model or the database may fail a call at any step, and the    *)
(* service may restart.                                                    *)
(*                                                                         *)
(* A document is its body, which is what the content hash is taken over,   *)
(* and its front matter, which is not.  Its chunks come and go with its    *)
(* row (one transaction, ON DELETE CASCADE), so the row stands for them.   *)
(* The directory is read without an await, hence in one step.              *)
(***************************************************************************)
EXTENDS FiniteSets, Naturals, TLC

CONSTANTS
    Paths,          \* where a document may be, in the order they are walked
    Generated,      \* those under postmortems/, which the agent writes
    Bodies, Fronts, \* what a document may say, and say of itself
    Calls,          \* the calls the service may be serving at once
    Ids,            \* bound: primary keys, reused once nothing names them
    MaxEdits,       \* bound: files changed by hand
    MaxCalls,       \* bound: calls served
    Absent, Unreadable      \* no file; a file parse_document refuses

Documents == [body : Bodies, front : Fronts]

ASSUME KBAssumption ==
    /\ Paths \subseteq Nat /\ Generated \subseteq Paths /\ Paths \subseteq Ids
    /\ MaxEdits \in Nat /\ MaxCalls \in Nat
    /\ Absent \notin Documents /\ Unreadable \notin Documents /\ Absent # Unreadable
    /\ IsFiniteSet(Paths)

VARIABLES
    files,          \* the directory
    rows,           \* rag.documents: its id, its key and what was embedded
    lexical,        \* Bm25Index: the rows it was last built from
    built,          \* history: this process has built it at least once
    loaded,         \* RagService._index_loaded
    calls,          \* every call: where it is and its local variables
    served, edits   \* counted for the bounds

kbVars == <<files, rows, lexical, built, loaded, calls, served, edits>>

Rows == [id : Ids, key : Paths, doc : Documents]
Corpus == [Paths -> Documents \cup {Absent, Unreadable}]

Running == {"hashes", "embed", "write", "prune", "rebuild", "build", "retrieve"}
Stages == Running \cup {"idle", "done"}

(* load_corpus: the files that can be read as documents.                   *)
Readable(listing) == {p \in Paths : listing[p] \in Documents}

RowsOf(p) == {r \in rows : r.key = p}

Idle == [stage |-> "idle", kind |-> "search", force |-> FALSE, prune |-> FALSE,
         docs |-> [p \in Paths |-> Absent], todo |-> {}, skipped |-> {}, seen |-> {},
         chunks |-> {}, alone |-> FALSE]

(* The service starts over whatever earlier ingests left in the database.  *)
KBInit ==
    /\ files \in [Paths -> Documents \cup {Absent}]
    /\ \E indexed \in [Paths -> Documents \cup {Absent}] :
         rows = {[id |-> p, key |-> p, doc |-> indexed[p]] :
                     p \in {q \in Paths : indexed[q] # Absent}}
    /\ lexical = {} /\ built = FALSE /\ loaded = FALSE
    /\ calls = [c \in Calls |-> Idle]
    /\ served = 0 /\ edits = 0

----------------------------------------------------------------------------
(* `alone` is history: nothing else ran, and no file changed, since this   *)
(* call began.  A call that returned is kept only as long as that holds.   *)
Disturbed(call) == IF call.stage \in Running THEN [call EXCEPT !.alone = FALSE] ELSE Idle

Starts(c, call) ==
    /\ calls[c].stage \notin Running
    /\ served < MaxCalls /\ served' = served + 1
    /\ calls' = [d \in Calls |->
         IF d = c
         THEN [call EXCEPT !.alone = \A o \in Calls \ {c} : calls[o].stage \notin Running]
         ELSE Disturbed(calls[d])]

Returned(call) ==
    IF call.alone THEN [call EXCEPT !.stage = "done", !.chunks = {}] ELSE Idle

(* POST /rag/ingest: the directory is listed at once, then the rest.       *)
IngestCall(force, prune) ==
    [Idle EXCEPT
       !.stage = "hashes", !.kind = "corpus", !.force = force, !.prune = prune,
       !.docs = [p \in Paths |-> IF p \in Readable(files) THEN files[p] ELSE Absent]]

BeginIngest(c) ==
    /\ \E force, prune \in BOOLEAN : Starts(c, IngestCall(force, prune))
    /\ UNCHANGED <<files, rows, lexical, built, loaded, edits>>

(* IncidentMemory.remember: the file first, and that one document indexed, *)
(* prune=False.  Its chunks are those the next corpus walk would compute:  *)
(* what is embedded is the body, not the file.                             *)
RememberCall(p, doc) ==
    [Idle EXCEPT !.stage = "hashes", !.kind = "remember", !.docs = [@ EXCEPT ![p] = doc]]

BeginRemember(c) ==
    /\ \E p \in Generated, doc \in Documents :
         /\ files' = [files EXCEPT ![p] = doc]
         /\ Starts(c, RememberCall(p, doc))
    /\ UNCHANGED <<rows, lexical, built, loaded, edits>>

SearchCall == [Idle EXCEPT !.stage = IF loaded THEN "retrieve" ELSE "rebuild"]

(* Bug: the flag is set before the index it announces has been filled.     *)
SearchMarksFirst(c) ==
    /\ Starts(c, SearchCall)
    /\ loaded' = TRUE
    /\ UNCHANGED <<files, rows, lexical, built, edits>>

(* POST /rag/search, GET /rag/stats and the start of an investigation all  *)
(* go through ensure_index.                                                *)
BeginSearch(c) ==
    /\ Starts(c, SearchCall)
    /\ UNCHANGED <<files, rows, lexical, built, loaded, edits>>

----------------------------------------------------------------------------
(* A step of call c from one stage.                                        *)
At(c, stage) == calls[c].stage = stage

Moves(c, call) == calls' = [calls EXCEPT ![c] = call]

(* Bug: an ingest that changed no document returns without a rebuild.      *)
OnwardUnlessUnchanged(call, todo) ==
    IF call.stage = "hashes" /\ todo = {} /\ ~ call.prune THEN Returned(call)
    ELSE [call EXCEPT !.todo = todo, !.seen = {},
                      !.stage = IF todo # {} THEN "embed"
                                ELSE IF call.prune THEN "prune" ELSE "rebuild"]

(* The documents still to embed decide where the loop goes next.           *)
Onward(call, todo) ==
    [call EXCEPT !.todo = todo,
                 !.seen = {},
                 !.stage = IF todo # {} THEN "embed"
                           ELSE IF call.prune THEN "prune" ELSE "rebuild"]

(* Bug: whatever is in the index already counts as unchanged.              *)
ChangedIfNew(call, p) ==
    /\ call.docs[p] \in Documents
    /\ call.force \/ RowsOf(p) = {}

(* Whether _ingest_one has work to do.  The hashes are read once, at the   *)
(* start, and are over the body only.                                      *)
Changed(call, p) ==
    /\ call.docs[p] \in Documents
    /\ \/ call.force
       \/ ~ \E r \in RowsOf(p) : r.doc.body = call.docs[p].body

(* What has been embedded before and is left as it is.                     *)
Skipped(call) == {p \in Paths : call.docs[p] \in Documents /\ ~ Changed(call, p)}

(* content_hashes                                                          *)
ReadHashes(c) ==
    /\ At(c, "hashes")
    /\ Moves(c, Onward([calls[c] EXCEPT !.skipped = Skipped(calls[c])],
                       {p \in Paths : Changed(calls[c], p)}))
    /\ UNCHANGED <<files, rows, lexical, built, loaded, served, edits>>

(* The next document, in path order.                                       *)
IsNext(call, p) == p \in call.todo /\ \A q \in call.todo : p <= q

(* It has been embedded: upsert opens its transaction and looks for the    *)
(* previous row.                                                           *)
FindPrevious(c, p) ==
    /\ At(c, "embed") /\ IsNext(calls[c], p)
    /\ Moves(c, [calls[c] EXCEPT !.stage = "write", !.seen = {r.id : r \in RowsOf(p)}])
    /\ UNCHANGED <<files, rows, lexical, built, loaded, served, edits>>

(* What its delete leaves behind, once any competing transaction committed.*)
Surviving(call) == {r \in rows : r.id \notin call.seen}

(* Bug: the schema has no unique index on the path.                        *)
NoUniqueKey(call, p) == call.stage = "write" /\ p \in call.todo

(* uq_documents_path                                                       *)
UniqueKey(call, p) == \A r \in Surviving(call) : r.key # p

(* Primary keys are never reused while anything still holds one.           *)
Fresh(i) ==
    /\ \A r \in rows \cup lexical : r.id # i
    /\ \A c \in Calls : i \notin calls[c].seen /\ \A r \in calls[c].chunks : r.id # i

FreshId == CHOOSE i \in Ids : Fresh(i)

(* The delete and the inserts, committed together.                         *)
Write(c, p) ==
    /\ At(c, "write") /\ IsNext(calls[c], p)
    /\ UniqueKey(calls[c], p)
    /\ \E i \in Ids : Fresh(i)
    /\ rows' = Surviving(calls[c])
                  \cup {[id |-> FreshId, key |-> p, doc |-> calls[c].docs[p]]}
    /\ Moves(c, Onward(calls[c], calls[c].todo \ {p}))
    /\ UNCHANGED <<files, lexical, built, loaded, served, edits>>

(* delete_missing: every row whose key this ingest did not list.           *)
Kept(call) == {r \in rows : call.docs[r.key] # Absent}

Prune(c) ==
    /\ At(c, "prune")
    /\ rows' = Kept(calls[c])
    /\ Moves(c, [calls[c] EXCEPT !.stage = "rebuild"])
    /\ UNCHANGED <<files, lexical, built, loaded, served, edits>>

(* rebuild_lexical_index: the chunks are read, and the index is replaced   *)
(* once the connection has been handed back.                               *)
ReadChunks(c) ==
    /\ At(c, "rebuild")
    /\ Moves(c, [calls[c] EXCEPT !.stage = "build", !.chunks = rows])
    /\ UNCHANGED <<files, rows, lexical, built, loaded, served, edits>>

(* A search and an ingest record that the index is there, remember does    *)
(* not.  Nothing is awaited between the two.                               *)
Build(c) ==
    /\ At(c, "build")
    /\ lexical' = calls[c].chunks /\ built' = TRUE
    /\ loaded' = (loaded \/ calls[c].kind # "remember")
    /\ Moves(c, IF calls[c].kind = "search"
                THEN [calls[c] EXCEPT !.stage = "retrieve", !.chunks = {}]
                ELSE Returned(calls[c]))
    /\ UNCHANGED <<files, rows, served, edits>>

(* The search itself changes nothing but the log of retrievals.            *)
Answer(c) ==
    /\ At(c, "retrieve")
    /\ Moves(c, Idle)
    /\ UNCHANGED <<files, rows, lexical, built, loaded, served, edits>>

(* The embedding model or the database fails the step being awaited, or    *)
(* the unique index refuses the insert: the whole call ends, with no prune *)
(* and no rebuild.                                                         *)
Fail(c) ==
    /\ calls[c].stage \in Running
    /\ Moves(c, Idle)
    /\ UNCHANGED <<files, rows, lexical, built, loaded, served, edits>>

(* Somebody writes, breaks or deletes a file.                              *)
Edit ==
    /\ edits < MaxEdits /\ edits' = edits + 1
    /\ \E p \in Paths, text \in Documents \cup {Absent, Unreadable} :
         /\ text # files[p]
         /\ files' = [files EXCEPT ![p] = text]
    /\ calls' = [c \in Calls |-> Disturbed(calls[c])]
    /\ UNCHANGED <<rows, lexical, built, loaded, served>>

(* The AI service restarts: what was in memory is gone.                    *)
Restart ==
    /\ lexical' = {} /\ built' = FALSE /\ loaded' = FALSE
    /\ calls' = [c \in Calls |-> Idle]
    /\ UNCHANGED <<files, rows, served, edits>>

Step(c) ==
    \/ BeginIngest(c) \/ BeginRemember(c) \/ BeginSearch(c)
    \/ ReadHashes(c) \/ Prune(c)
    \/ \E p \in Paths : FindPrevious(c, p) \/ Write(c, p)
    \/ ReadChunks(c) \/ Build(c) \/ Answer(c) \/ Fail(c)

KBNext == Edit \/ Restart \/ \E c \in Calls : Step(c)

Alike == Permutations(Calls) \cup Permutations(Bodies) \cup Permutations(Fronts)

KBSpec == KBInit /\ [][KBNext]_kbVars

----------------------------------------------------------------------------
CallStates ==
    [stage : Stages, kind : {"corpus", "remember", "search"}, force : BOOLEAN,
     prune : BOOLEAN, docs : [Paths -> Documents \cup {Absent}], todo : SUBSET Paths,
     skipped : SUBSET Paths, seen : SUBSET Ids, chunks : SUBSET Rows, alone : BOOLEAN]

(* Every variable holds a value of its kind.                               *)
KBTypeOK ==
    /\ files \in Corpus
    /\ rows \in SUBSET Rows
    /\ lexical \in SUBSET Rows
    /\ built \in BOOLEAN /\ loaded \in BOOLEAN
    /\ calls \in [Calls -> CallStates]
    /\ served \in 0..MaxCalls /\ edits \in 0..MaxEdits

(* Two ingests of one file at once, both having looked before either has   *)
(* written, do not leave it in the index twice: the second is refused.     *)
(* (A second row would make every later upsert of that key raise.)         *)
OneRowPerFile == \A r, s \in rows : r.key = s.key => r = s

Quiet(c) == calls[c].alone /\ calls[c].stage = "done"

(* Ingestion is a mirror: whatever mess failed, interrupted and crossing   *)
(* calls left behind, one pruning ingest that ran undisturbed leaves one   *)
(* row for each readable file and none for any other, with the file's body *)
(* and, if it was embedded, its front matter.  A file skipped because its  *)
(* body was there keeps what the index said of it; a forced ingest skips   *)
(* nothing.                                                                *)
QuietIngestMirrors ==
    \A c \in Calls :
        Quiet(c) /\ calls[c].kind = "corpus" /\ calls[c].prune =>
            /\ \A p \in Readable(files) : \E r \in RowsOf(p) :
                 /\ RowsOf(p) = {r}
                 /\ r.doc.body = files[p].body
                 /\ r.doc.front # files[p].front => p \in calls[c].skipped
            /\ \A p \in Paths \ Readable(files) : RowsOf(p) = {}
            /\ calls[c].force => calls[c].skipped = {}

(* An ingest, or a write-up, that ran undisturbed is searchable when it    *)
(* returns: its documents are rows, and the lexical index is those rows.   *)
QuietCallIsSearchable ==
    \A c \in Calls :
        Quiet(c) /\ calls[c].kind # "search" =>
            /\ lexical = rows
            /\ \A p \in Paths : calls[c].docs[p] # Absent =>
                   \E r \in RowsOf(p) : r.doc.body = calls[c].docs[p].body

(* No search reads the index of a process that has not filled it yet, even *)
(* when several arrive together at a cold start.                           *)
SearchWaitsForTheIndex ==
    \A c \in Calls : calls[c].stage = "retrieve" => built

=============================================================================
