------------------------------ MODULE Retrieval ------------------------------
(***************************************************************************)
(* Searching the knowledge base: two halves that may each answer or fail,  *)
(* their fusion by reciprocal rank, the reranker as a third vote, the cap  *)
(* on chunks of one document, and the two readers of the result: POST      *)
(* /rag/search, which builds the context of a prompt from it, and the      *)
(* agent's SEARCH_HISTORY node, which makes evidence of it.                *)
(*                                                                         *)
(* What a half finds is any ranking of the chunks its filter lets through: *)
(* scores and the approximate index behind the dense half are not          *)
(* modelled, ranks, limits, filters and failures are.                      *)
(***************************************************************************)
EXTENDS Chunker, Filters, Reranker

CONSTANTS
    Written,            \* what each may say: sequences of lines
    Historical,         \* the incidents and postmortems among them
    IncidentOf,         \* the incident each belongs to
    NoIncident,
    Own,                \* the incident under investigation
    SameService,        \* documents of the service under investigation
    Retrievers,         \* those the service offers
    Requests,           \* filters that are asked for
    K,                  \* chunks asked for
    Candidates,         \* chunks each half contributes to a fusion
    MaxPerDocument,     \* chunks of one document in a result, 0 for any
    CAP_OVER_FETCH, RRF_K,
    DEFAULT_DOCUMENTS, DEFAULT_PRECEDENTS,  \* facts the node makes of them
    DEFAULT_CHUNKS,     \* chunks compared with the incident
    TokenBudget, HeaderTokens, LabelTokens  \* of a context

ASSUME RetrievalAssumption ==
    /\ Docs \subseteq Nat
    /\ {K, Candidates, CAP_OVER_FETCH} \subseteq Nat \ {0}
    /\ {MaxPerDocument, RRF_K, DEFAULT_DOCUMENTS, DEFAULT_PRECEDENTS} \subseteq Nat
    /\ {TokenBudget, HeaderTokens, LabelTokens} \subseteq Nat
    /\ Candidates < RRF_K + 2
    /\ \A d \in Docs : Written[d] \subseteq Seq(Lines)

VARIABLES
    corpus,             \* what each document says
    index,              \* the chunks, and what each says
    search              \* every search under way

retrievalVars == <<corpus, index, search, rerankerVars>>

Hybrids == {"hybrid", "hybrid_rerank", "hybrid_hyde"}

----------------------------------------------------------------------------
(* Ranked lists.                                                           *)
Place(ranking, c) == CHOOSE i \in DOMAIN ranking : ranking[i] = c

First(ranking, n) == SubSeq(ranking, 1, IF n < Len(ranking) THEN n ELSE Len(ranking))

Rankings(chunks, n) == {r \in SeqOf(chunks, n) : IsInjective(r)}

(* 1 / (RRF_K + rank), as a numerator and a denominator.                   *)
Vote(ranking, c) ==
    IF c \in ToSet(ranking) THEN <<1, RRF_K + Place(ranking, c)>> ELSE <<0, 1>>

RankScore(a, b, c) ==
    LET v == Vote(a, c)
        w == Vote(b, c)
    IN  <<v[1] * w[2] + w[1] * v[2], v[2] * w[2]>>

Higher(s, t) == s[1] * t[2] > t[1] * s[2]

BestPlace(a, b, c) ==
    Min({Place(r, c) : r \in {s \in {a, b} : c \in ToSet(s)}})

(* Some fixed order of the chunks' ids.                                    *)
SmallerId(c, d) == c[1] < d[1] \/ (c[1] = d[1] /\ c[2] < d[2])

(* Bug: only the best of the two positions counts.                         *)
BeforeByBest(a, b, c, d) ==
    \/ BestPlace(a, b, c) < BestPlace(a, b, d)
    \/ BestPlace(a, b, c) = BestPlace(a, b, d) /\ SmallerId(c, d)

(* Reciprocal rank fusion puts c before d.                                 *)
Before(a, b, c, d) ==
    LET s == RankScore(a, b, c)
        t == RankScore(a, b, d)
    IN  \/ Higher(s, t)
        \/ /\ ~ Higher(t, s)
           /\ \/ BestPlace(a, b, c) < BestPlace(a, b, d)
              \/ BestPlace(a, b, c) = BestPlace(a, b, d) /\ SmallerId(c, d)

Fuse(a, b, n) ==
    First(CHOOSE r \in SetToSeqs(ToSet(a) \cup ToSet(b)) :
              \A i, j \in DOMAIN r : i < j => Before(a, b, r[i], r[j]),
          n)

(* Bug: the search is asked for no more than the caller wants.             *)
FetchExactly(k) == k

(* A capped selection can only skip what it was handed.                    *)
FetchFor(k) == IF MaxPerDocument = 0 THEN k ELSE k * CAP_OVER_FETCH

Taken(ranking, doc) == Cardinality({i \in DOMAIN ranking : ranking[i][1] = doc})

(* cap_per_document                                                        *)
Capped(ranking, k) ==
    IF MaxPerDocument = 0 THEN First(ranking, k)
    ELSE FoldLeft(LAMBDA kept, c :
                      IF Len(kept) < k /\ Taken(kept, c[1]) < MaxPerDocument
                      THEN Append(kept, c) ELSE kept,
                  <<>>, ranking)

----------------------------------------------------------------------------
(* The index after an ingest.                                              *)
Contents == [d \in Docs |-> [t \in Written[d] |-> Chunks(d, t)]]

Indexed(texts) ==
    LET said(d) == Contents[d][texts[d]]
        ids == UNION {{d} \X (1..Len(said(d))) : d \in Docs}
    IN  [c \in ids |-> said(c[1])[c[2]]]

Half == [status |-> "unused", chunks |-> <<>>]

Unasked == [stage |-> "unasked", retriever |-> "none", reader |-> "none",
            filters |-> <<>>, lexical |-> Half, dense |-> Half, pool |-> <<>>, answer |-> <<>>,
            similar |-> <<>>]

RetrievalInit ==
    /\ corpus \in {texts \in [Docs -> UNION {Written[d] : d \in Docs}] :
                      \A d \in Docs : texts[d] \in Written[d]}
    /\ index = Indexed(corpus)
    /\ search = [s \in Scorers |-> Unasked]
    /\ RerankerInit

----------------------------------------------------------------------------
Becomes(s, record) == search' = [search EXCEPT ![s] = record]

(* 422: what cannot be applied is not ignored.                             *)
Refuse(s, raw) ==
    /\ search[s].stage = "unasked" /\ Refused(raw)
    /\ Becomes(s, [search[s] EXCEPT !.stage = "refused", !.reader = "endpoint",
                                    !.filters = raw])
    /\ UNCHANGED <<corpus, index, rerankerVars>>

(* POST /rag/search, or the SEARCH_HISTORY node, which filters nothing.    *)
Retrieve(s, retriever, reader, raw) ==
    /\ search[s].stage = "unasked"
    /\ ~ Refused(raw) /\ (reader = "node" => raw = <<>>)
    /\ Becomes(s, [search[s] EXCEPT
           !.stage = "halves", !.retriever = retriever, !.reader = reader, !.filters = raw,
           !.lexical.status = IF retriever = "vector" THEN "unused" ELSE "asked",
           !.dense.status = IF retriever = "bm25" THEN "unused"
                            ELSE IF retriever = "hybrid_hyde" THEN "expanding" ELSE "asked"])
    /\ UNCHANGED <<corpus, index, rerankerVars>>

(* What each half is asked for: inside a hybrid it feeds a pool, and has   *)
(* no cap of its own.                                                      *)
Wanted(s) == IF search[s].retriever \in Hybrids THEN Candidates ELSE FetchFor(K)

(* The chunks each half may find.                                          *)
LexicalSees(s) ==
    {c \in DOMAIN index : Matches(ChunkMetadata(c[1]), Normalize(search[s].filters))}

DenseSees(s) ==
    {c \in DOMAIN index : MetadataCondition(ChunkMetadata(c[1]), Normalize(search[s].filters))}

LexicalAnswers(s, ranking) ==
    /\ search[s].lexical.status = "asked"
    /\ ranking \in Rankings(LexicalSees(s), Wanted(s))
    /\ Becomes(s, [search[s] EXCEPT !.lexical = [status |-> "answered", chunks |-> ranking]])
    /\ UNCHANGED <<corpus, index, rerankerVars>>

LexicalFails(s) ==
    /\ search[s].lexical.status = "asked"
    /\ Becomes(s, [search[s] EXCEPT !.lexical.status = "failed"])
    /\ UNCHANGED <<corpus, index, rerankerVars>>

(* HydeExpander: a passage to search with as well, or none.                *)
Expand(s) ==
    /\ search[s].dense.status = "expanding"
    /\ \E status \in {"asked", "asked twice"} :
         Becomes(s, [search[s] EXCEPT !.dense.status = status])
    /\ UNCHANGED <<corpus, index, rerankerVars>>

(* The query is embedded and the store searched.                           *)
DenseAnswers(s, ranking) ==
    /\ search[s].dense.status \in {"asked", "asked twice"}
    /\ ranking \in Rankings(DenseSees(s), Wanted(s))
    /\ Becomes(s, [search[s] EXCEPT !.dense = [
           status |-> IF @.status = "asked" THEN "answered" ELSE "hypothesis",
           chunks |-> ranking]])
    /\ UNCHANGED <<corpus, index, rerankerVars>>

(* Then the passage.                                                       *)
HypothesisAnswers(s, ranking) ==
    /\ search[s].dense.status = "hypothesis"
    /\ ranking \in Rankings(DenseSees(s), Wanted(s))
    /\ Becomes(s, [search[s] EXCEPT !.dense = [
           status |-> "answered", chunks |-> Fuse(@.chunks, ranking, Wanted(s))]])
    /\ UNCHANGED <<corpus, index, rerankerVars>>

(* Ollama or the database: also the second time, the half is lost.         *)
DenseFails(s) ==
    /\ search[s].dense.status \in {"asked", "asked twice", "hypothesis"}
    /\ Becomes(s, [search[s] EXCEPT !.dense = [status |-> "failed", chunks |-> <<>>]])
    /\ UNCHANGED <<corpus, index, rerankerVars>>

(* Bug: an exception of one half is an exception of the gather.            *)
GathersAll(s) == search[s].lexical.status = "answered" /\ search[s].dense.status = "answered"

(* Whether the search can go on: with one half, unless that one failed;    *)
(* with two, unless both did.                                              *)
Gathers(s) == \E half \in {search[s].lexical, search[s].dense} : half.status = "answered"

Gathered(s) ==
    /\ search[s].stage = "halves"
    /\ {search[s].lexical.status, search[s].dense.status}
           \subseteq {"unused", "answered", "failed"}

(* The rankings become one.  For a rerank it is the pool of candidates.    *)
Join(s) ==
    /\ Gathered(s) /\ Gathers(s)
    /\ LET q == search[s]
           reranked == q.retriever = "hybrid_rerank"
           pool == CASE q.retriever = "bm25" -> q.lexical.chunks
                     [] q.retriever = "vector" -> q.dense.chunks
                     [] OTHER -> Fuse(q.lexical.chunks, q.dense.chunks,
                                      IF reranked THEN Candidates ELSE FetchFor(K))
       IN  Becomes(s, [q EXCEPT
               !.stage = IF reranked /\ pool # <<>> THEN "rerank" ELSE "answered",
               !.pool = pool,
               !.answer = IF reranked /\ pool # <<>> THEN <<>> ELSE Capped(pool, K)])
    /\ UNCHANGED <<corpus, index, rerankerVars>>

(* 503, or a note in the investigation, which goes on.                     *)
JoinFails(s) ==
    /\ Gathered(s) /\ ~ Gathers(s)
    /\ Becomes(s, [search[s] EXCEPT !.stage = "failed"])
    /\ UNCHANGED <<corpus, index, rerankerVars>>

Answered(s, ranking) ==
    Becomes(s, [search[s] EXCEPT !.stage = "answered", !.answer = Capped(ranking, K)])

(* The reranker's order of the whole pool is fused with the pool's own.    *)
Blend(s, reranked) ==
    /\ search[s].stage = "rerank" /\ at[s] = "scored"
    /\ reranked \in SetToSeqs(ToSet(search[s].pool))
    /\ Answered(s, Fuse(search[s].pool, reranked, FetchFor(K)))
    /\ Goes(s, "away")
    /\ UNCHANGED <<corpus, index, encoder, reason, loads>>

(* No reranker: the fused order serves.                                    *)
Degrade(s) ==
    /\ search[s].stage = "rerank" /\ at[s] = "unavailable"
    /\ Answered(s, search[s].pool)
    /\ Goes(s, "away")
    /\ UNCHANGED <<corpus, index, encoder, reason, loads>>

(* A reranker that could not score fails the search.                       *)
RerankFails(s) ==
    /\ search[s].stage = "rerank" /\ at[s] = "failed"
    /\ Becomes(s, [search[s] EXCEPT !.stage = "failed"])
    /\ Goes(s, "away")
    /\ UNCHANGED <<corpus, index, encoder, reason, loads>>

(* IncidentSimilarity.find: the best chunk of every past incident but this *)
(* one, incidents of the same service first.                               *)
Precedents(hits) ==
    LET best == FoldLeft(
            LAMBDA found, c :
                IF \/ IncidentOf[c[1]] \in {NoIncident, Own}
                   \/ \E d \in ToSet(found) : IncidentOf[d] = IncidentOf[c[1]]
                THEN found ELSE Append(found, c[1]),
            <<>>, hits)
    IN  First(Those(best, SameService) \o Those(best, ToSet(best) \ SameService),
              DEFAULT_PRECEDENTS)

(* The node asks for precedents once it has its documents; without an      *)
(* answer it makes do.                                                     *)
FindSimilar(s, hits) ==
    /\ search[s].stage = "answered" /\ search[s].reader = "node"
    /\ hits \in Rankings({c \in DOMAIN index : c[1] \in Historical}, DEFAULT_CHUNKS)
    /\ Becomes(s, [search[s] EXCEPT !.stage = "noted", !.similar = Precedents(hits)])
    /\ UNCHANGED <<corpus, index, rerankerVars>>

(* While a search waits for the reranker it is one of its clients.         *)
Reranking(c) == c \in Scorers => search[c].stage = "rerank"

UsesReranker(c) ==
    /\ Reranking(c)
    /\ \/ Ask(c) \/ TakeLoad(c) \/ Load(c) \/ LoadFails(c)
       \/ TakeScore(c) \/ Score(c) \/ ScoreFails(c)
    /\ UNCHANGED <<corpus, index, search>>

Steps(s) ==
    \/ \E raw \in Requests :
         \/ Refuse(s, raw)
         \/ \E r \in Retrievers, reader \in {"endpoint", "node"} : Retrieve(s, r, reader, raw)
    \/ \E r \in Rankings(DOMAIN index, Wanted(s)) :
           LexicalAnswers(s, r) \/ DenseAnswers(s, r) \/ HypothesisAnswers(s, r)
    \/ LexicalFails(s) \/ Expand(s) \/ DenseFails(s) \/ Join(s) \/ JoinFails(s)
    \/ \E r \in SetToSeqs(ToSet(search[s].pool)) : Blend(s, r)
    \/ Degrade(s) \/ RerankFails(s)
    \/ \E hits \in Rankings(DOMAIN index, DEFAULT_CHUNKS) : FindSimilar(s, hits)

RetrievalNext == (\E s \in Scorers : Steps(s)) \/ (\E c \in Clients : UsesReranker(c))

RetrievalSpec == RetrievalInit /\ [][RetrievalNext]_retrievalVars

----------------------------------------------------------------------------
(* The facts SEARCH_HISTORY adds: one per document, and the precedents     *)
(* that are not among them.                                                *)
Found(answer) ==
    First(FoldLeft(LAMBDA docs, c : IF c[1] \in ToSet(docs) THEN docs ELSE Append(docs, c[1]),
                   <<>>, answer), DEFAULT_DOCUMENTS)

Evidence(q) ==
    Found(q.answer) \o Those(q.similar, ToSet(q.similar) \ ToSet(Found(q.answer)))

(* What paragraphs cost; a title and a section are as long as a label.     *)
Cost(paragraphs) ==
    FoldLeft(LAMBDA sum, p : sum + IF p \in Pieces THEN Size[p] ELSE LabelTokens,
             LabelTokens, FlattenSeq(paragraphs))

(* A paragraph that is all, or a part, of one in an earlier block.         *)
Shown(paragraph, seen) ==
    \E i \in DOMAIN seen : \E said \in ToSet(seen[i]) : IsWithin(paragraph, said)

(* Bug: only a chunk that says nothing new is left out.                    *)
FreshOrNothing(content, seen) ==
    IF \A p \in ToSet(content) : Shown(p, seen) THEN <<>> ELSE content

(* _without_overlap                                                        *)
Fresh(content, seen) == Those(content, {p \in ToSet(content) : ~ Shown(p, seen)})

(* One more chunk for the context: what an earlier block said is left out, *)
(* and a chunk with nothing new, or too large for what is left, is dropped.*)
Include(context, c) ==
    LET fresh == Fresh(index[c], context.seen)
    IN  IF fresh = <<>> \/ context.used + Cost(fresh) > TokenBudget
        THEN [context EXCEPT !.dropped = Append(@, c)]
        ELSE [context EXCEPT !.used = @ + Cost(fresh), !.seen = Append(@, fresh),
                             !.sources = Append(@, c), !.blocks = Append(@, fresh)]

(* ContextBuilder.build.  `used` is the running total its budget is kept   *)
(* by, not the token_count it reports, which is estimated anew from the    *)
(* finished text.                                                          *)
Context(results) ==
    FoldLeft(Include, [used |-> HeaderTokens, sources |-> <<>>, blocks |-> <<>>, seen |-> <<>>,
                       dropped |-> <<>>], results)

----------------------------------------------------------------------------
Over(s) == search[s].stage \in {"answered", "noted"}

(* A document is cut without loss, within bounds: every text of it is in   *)
(* some chunk, and no chunk is larger than the target and an overlap, or   *)
(* than a piece that is too large for any chunk, and an overlap.           *)
DocumentsAreWhole ==
    \A d \in Docs :
        LET said == {FlattenSeq(index[c]) : c \in {i \in DOMAIN index : i[1] = d}}
            texts == UNION {ToSet(corpus[d][i].pieces) : i \in DOMAIN corpus[d]}
        IN  /\ (UNION {ToSet(content) : content \in said}) \cap Pieces = texts
            /\ \A content \in said :
                 LET size == Tokens(Those(content, Pieces))
                 IN  \/ size <= Target + Overlap
                     \/ \E p \in ToSet(content) \cap Pieces :
                            Size[p] > Target /\ size <= Size[p] + Overlap

(* Fusion keeps what the halves agree on: a chunk both propose comes       *)
(* before every chunk only one does, and a chunk both put above another is *)
(* never below it.  (The comment at RRF_K; it takes a pool that is small   *)
(* for RRF_K.)                                                             *)
AgreementWins ==
    \A s \in Scorers :
        LET q == search[s]
            both == ToSet(q.lexical.chunks) \cap ToSet(q.dense.chunks)
            Above(c, d) == \A r \in {q.lexical.chunks, q.dense.chunks} :
                               /\ c \in ToSet(r)
                               /\ d \in ToSet(r) => Place(r, c) < Place(r, d)
        IN  q.retriever \in Hybrids /\ q.pool # <<>> =>
              \A c \in both, d \in ToSet(q.pool) :
                  c # d /\ (d \notin both \/ Above(c, d)) =>
                      c \in ToSet(q.pool) /\ Place(q.pool, c) < Place(q.pool, d)

(* One half is enough, and silence is not an answer: a search whose other  *)
(* half failed goes on and ranks as the living one did, and no search      *)
(* reports that nothing was found unless a half looked.                    *)
HalfIsEnough ==
    \A s \in Scorers :
        LET q == search[s]
            halves == {q.lexical, q.dense}
            alive == {h \in halves : h.status = "answered"}
        IN  /\ Over(s) => alive # {}
            /\ q.stage = "failed" /\ q.pool = <<>> => alive = {}
            /\ q.stage \notin {"unasked", "halves", "failed"} /\ Cardinality(alive) = 1 =>
                  \A h \in alive : q.pool = First(h.chunks, Len(q.pool))

(* The cap never costs the caller a result: an answer is short only when   *)
(* every chunk left out is one too many of its document.  (It takes a pool *)
(* that is not cut below what the cap may skip, and no document with more  *)
(* chunks in it than the over-fetch allows for.)                           *)
ShortOnlyWhenCrowded ==
    \A s \in Scorers :
        LET q == search[s]
            proposed == ToSet(q.lexical.chunks) \cup ToSet(q.dense.chunks)
            Crowds(d) == /\ MaxPerDocument # 0
                         /\ Cardinality({c \in proposed : c[1] = d})
                                > CAP_OVER_FETCH * MaxPerDocument
        IN  Over(s) =>
              /\ Len(q.answer) <= K /\ IsInjective(q.answer)
              /\ FetchFor(K) <= Candidates /\ (\A d \in Docs : ~ Crowds(d)) =>
                   \A c \in proposed \ ToSet(q.answer) :
                     \/ Len(q.answer) = K
                     \/ MaxPerDocument # 0 /\ Taken(q.answer, c[1]) = MaxPerDocument

(* What a context makes of its results.  Each is a source or dropped;      *)
(* what a source says can be read whole, in its own block or an earlier    *)
(* one, and no block says again what an earlier one said; and a result was *)
(* dropped only when, after some n blocks, it said nothing new or what it  *)
(* said did not fit, so that one too large does not cost a smaller one its *)
(* place.                                                                  *)
KeptInContext(results) ==
    LET context == Context(results)
        blocks == context.blocks
    IN  /\ ToSet(context.sources) = ToSet(results) \ ToSet(context.dropped)
        /\ \A i \in DOMAIN blocks :
             /\ \A p \in ToSet(index[context.sources[i]]) : Shown(p, First(blocks, i))
             /\ \A p \in ToSet(blocks[i]) : ~ Shown(p, First(blocks, i - 1))
        /\ \A c \in ToSet(context.dropped) : \E n \in 0..Len(blocks) :
             LET fresh == Fresh(index[c], First(blocks, n))
             IN  fresh = <<>> \/ context.used + Cost(fresh) > TokenBudget

(* Both readers repeat and lose nothing.  A context is that of its results *)
(* (the pool stands for a longer answer without a cap).  And what          *)
(* retrieval and similarity both found is one fact of the investigation.   *)
ReadWholeAndOnce ==
    \A s \in Scorers : Over(s) =>
        IF search[s].reader = "node" THEN IsInjective(Evidence(search[s]))
        ELSE KeptInContext(search[s].answer) /\ KeptInContext(search[s].pool)

(* The two halves agree on what a filter means, and with what was asked: a *)
(* document is in reach of both if it says one of the values under every   *)
(* key, however request and document typed it, and of neither otherwise.   *)
(* No search is answered whose filter nothing could have met.  (The        *)
(* docstring of rag/filters.py.)                                           *)
HalvesFilterAlike ==
    \A s \in Scorers :
        LET q == search[s]
            meant == {c \in DOMAIN index : Meant(c[1], q.filters)}
        IN  q.stage \notin {"unasked", "refused"} =>
              /\ LexicalSees(s) = meant /\ DenseSees(s) = meant
              /\ ToSet(q.lexical.chunks) \cup ToSet(q.dense.chunks) \subseteq meant
              /\ \A key \in DOMAIN q.filters : q.filters[key] \ {Null} # {}

(* However many ask at once, the model is put into memory once, and a      *)
(* reason why it is not there is not kept once it is.                      *)
ModelIsLoadedOnce == loads <= 1 /\ (encoder => reason = "none")

(* The claim at agents/nodes/search_history.py:167: an investigation does  *)
(* not report the write-up of an earlier run on the same incident as a     *)
(* precedent.                                                              *)
NoPrecedentForItself ==
    \A s \in Scorers : search[s].stage = "noted" =>
        \A d \in ToSet(Evidence(search[s])) : d \in Historical => IncidentOf[d] # Own
=============================================================================
