--------------------------- MODULE RetrievalProofs ---------------------------
(***************************************************************************)
(* Proofs about Retrieval, for any number of searches, documents and       *)
(* probes.                                                                 *)
(*                                                                         *)
(* The reranker's model is in memory at most once.  The locks are not      *)
(* variables: that one client loads at a time, and only while the model is *)
(* not there, is what makes the invariant inductive (LoadInv).             *)
(*                                                                         *)
(* What the halves of a search find is a ranking of what its filters let   *)
(* through, and its pool is made of them (SearchInv).  The order of the    *)
(* fusion is that of sums of fractions with ties broken: it is strict and  *)
(* total (BeforeIsOrder), so a finite set of chunks has one enumeration    *)
(* along it (LineExists, OneLine), which is the one Fuse chooses.          *)
(*                                                                         *)
(* The cap of chunks per document, a fold, is turned into a run of steps   *)
(* (FoldExists, FoldRuns); who is kept is kept of the best, and who is not *)
(* was crowded out by its own document (AnswerInv, ShortWhenCrowded).      *)
(* What any other fold computes grows by a step an element (AppendLaw).    *)
(* So reading a document, line by line, keeps what it says; cutting it,    *)
(* block by block, keeps what they say, within the bounds of a chunk; and  *)
(* the index is the corpus as it is cut (IngestInv).  What an endpoint     *)
(* makes of an answer is a context that grows chunk by chunk, in which every*)
(* source so far can be read whole (Reads, ContextReads).                  *)
(***************************************************************************)
EXTENDS Retrieval, TLAPS, FiniteSetTheorems, FunctionTheorems, WellFoundedInduction

(* Clients are where they can be.                                          *)
ClientsTyped ==
    /\ encoder \in BOOLEAN
    /\ at \in [Clients -> Places]
    /\ loads \in Nat

(* Loading excludes loading, and a model that is there.                    *)
LoadsAlone ==
    /\ \A c, d \in Clients : at[c] = "loading" /\ at[d] = "loading" => c = d
    /\ \A c \in Clients : at[c] = "loading" => ~ encoder

LoadInv ==
    /\ ClientsTyped
    /\ LoadsAlone
    /\ loads = IF encoder THEN 1 ELSE 0
    /\ encoder => reason = "none"

(* Every step of a search but the reranker's own leaves it alone, or takes *)
(* a client of it away.                                                    *)
LeavesTheReranker ==
    /\ UNCHANGED <<encoder, reason, loads>>
    /\ at' = at \/ \E s \in Scorers : Goes(s, "away")

(* Nobody is served at the load.                                           *)
LEMMA ServedIsAPlace ==
    ASSUME NEW c \in Clients
    PROVE  Served(c) \in Places /\ Served(c) # "loading"
  BY DEF Served, Places

(* At first nobody uses the reranker, and nothing is loaded.               *)
LEMMA LoadInit == RetrievalInit => LoadInv
  <1>1. ASSUME RerankerInit PROVE LoadInv
    <2>1. encoder = FALSE /\ loads = 0 /\ at = [c \in Clients |-> "away"]
      BY <1>1 DEF RerankerInit
    <2>2. ClientsTyped
      BY <2>1 DEF ClientsTyped, Places
    <2>3. LoadsAlone
      BY <2>1 DEF LoadsAlone
    <2> QED BY <2>1, <2>2, <2>3 DEF LoadInv
  <1> QED BY <1>1 DEF RetrievalInit

(* A client that goes anywhere but to the load changes nothing else.       *)
LEMMA MovesAway ==
    ASSUME LoadInv, NEW c \in Clients, NEW place \in Places, place # "loading",
           Goes(c, place), UNCHANGED <<encoder, reason, loads>>
    PROVE  LoadInv'
  BY DEF LoadInv, ClientsTyped, LoadsAlone, Goes

(* A client asks for the reranker.                                         *)
LEMMA AskKeeps ==
    ASSUME LoadInv, NEW c \in Clients, Ask(c)
    PROVE  LoadInv'
  BY MovesAway, ServedIsAPlace DEF Ask, Places

(* It takes the lock of the load, or finds the encoder there.              *)
LEMMA TakeLoadKeeps ==
    ASSUME LoadInv, NEW c \in Clients, TakeLoad(c)
    PROVE  LoadInv'
  <1>1. CASE encoder
    BY <1>1, MovesAway, ServedIsAPlace DEF TakeLoad
  <1>2. CASE ~ encoder
    BY <1>2 DEF TakeLoad, Goes, Free, LoadInv, ClientsTyped, LoadsAlone, Places
  <1> QED BY <1>1, <1>2

(* The one that loads is done, and the encoder is there.                   *)
LEMMA LoadKeeps ==
    ASSUME LoadInv, NEW c \in Clients, Load(c)
    PROVE  LoadInv'
  BY ServedIsAPlace DEF Load, Goes, LoadInv, ClientsTyped, LoadsAlone

(* Or it fails, and says why.                                              *)
LEMMA LoadFailsKeeps ==
    ASSUME LoadInv, NEW c \in Clients, LoadFails(c)
    PROVE  LoadInv'
  BY DEF LoadFails, Goes, LoadInv, ClientsTyped, LoadsAlone, Places

(* Scoring has a lock of its own.                                          *)
LEMMA ScoresKeep ==
    ASSUME LoadInv, NEW c \in Clients, TakeScore(c) \/ Score(c) \/ ScoreFails(c)
    PROVE  LoadInv'
  BY MovesAway DEF TakeScore, Score, ScoreFails, Places

(* What a search does besides using the reranker.                          *)
LEMMA StepsLeave ==
    ASSUME NEW s \in Scorers, Steps(s)
    PROVE  LeavesTheReranker
  <1>1. ASSUME NEW raw, NEW r, NEW reader, Refuse(s, raw) \/ Retrieve(s, r, reader, raw)
        PROVE  LeavesTheReranker
    BY <1>1 DEF Refuse, Retrieve, rerankerVars, LeavesTheReranker
  <1>2. ASSUME NEW r, LexicalAnswers(s, r) \/ DenseAnswers(s, r) \/ HypothesisAnswers(s, r)
        PROVE  LeavesTheReranker
    BY <1>2 DEF LexicalAnswers, DenseAnswers, HypothesisAnswers, rerankerVars, LeavesTheReranker
  <1>3. ASSUME LexicalFails(s) \/ Expand(s) \/ DenseFails(s) \/ Join(s) \/ JoinFails(s)
        PROVE  LeavesTheReranker
    BY <1>3 DEF LexicalFails, Expand, DenseFails, Join, JoinFails, rerankerVars,
                LeavesTheReranker
  <1>4. ASSUME NEW r, Blend(s, r) PROVE LeavesTheReranker
    BY <1>4 DEF Blend, LeavesTheReranker
  <1>5. ASSUME Degrade(s) \/ RerankFails(s) PROVE LeavesTheReranker
    BY <1>5 DEF Degrade, RerankFails, LeavesTheReranker
  <1>6. ASSUME NEW hits, FindSimilar(s, hits) PROVE LeavesTheReranker
    BY <1>6 DEF FindSimilar, rerankerVars, LeavesTheReranker
  <1> QED BY <1>1, <1>2, <1>3, <1>4, <1>5, <1>6 DEF Steps

(* What searches do besides does no harm.                                  *)
LEMMA LeavingKeeps ==
    ASSUME LoadInv, LeavesTheReranker
    PROVE  LoadInv'
  <1>1. CASE at' = at
    BY <1>1 DEF LeavesTheReranker, LoadInv, ClientsTyped, LoadsAlone
  <1>2. ASSUME NEW s \in Scorers, Goes(s, "away") PROVE LoadInv'
    <2>1. s \in Clients /\ "away" \in Places
      BY DEF Clients, Places
    <2> QED BY <1>2, <2>1, MovesAway DEF LeavesTheReranker
  <1> QED BY <1>1, <1>2 DEF LeavesTheReranker

(* Nor does any step.                                                      *)
LEMMA LoadNext ==
    ASSUME LoadInv, [RetrievalNext]_retrievalVars
    PROVE  LoadInv'
  <1>1. ASSUME NEW s \in Scorers, Steps(s) PROVE LoadInv'
    BY <1>1, StepsLeave, LeavingKeeps
  <1>2. ASSUME NEW c \in Clients, UsesReranker(c) PROVE LoadInv'
    BY <1>2, AskKeeps, TakeLoadKeeps, LoadKeeps, LoadFailsKeeps, ScoresKeep DEF UsesReranker
  <1>3. CASE UNCHANGED retrievalVars
    BY <1>3 DEF retrievalVars, rerankerVars, LoadInv, ClientsTyped, LoadsAlone
  <1> QED BY <1>1, <1>2, <1>3 DEF RetrievalNext

(* However many searches and probes arrive at once, the 2.2 GB are loaded  *)
(* once at most, and no reason is kept for a model that is there (the      *)
(* second look _ensure_loaded takes under its lock).                       *)
THEOREM LoadedOnce == RetrievalSpec => []ModelIsLoadedOnce
  <1>1. LoadInv => ModelIsLoadedOnce
    BY DEF LoadInv, ModelIsLoadedOnce
  <1> QED BY <1>1, LoadInit, LoadNext, PTL DEF RetrievalSpec

-----------------------------------------------------------------------------
(* The filters. *)

(* The keyword half's filter keeps the documents that are meant.           *)
LEMMA LexicalMeans ==
    ASSUME NEW d, NEW raw
    PROVE  Matches(ChunkMetadata(d), Normalize(raw)) <=> Meant(d, raw)
  BY DEF Matches, ChunkMetadata, Normalize, Meant, AsText, Given

(* So does the condition the vector half hands to the vector store.        *)
LEMMA DenseMeans ==
    ASSUME NEW d, NEW raw
    PROVE  MetadataCondition(ChunkMetadata(d), Normalize(raw)) <=> Meant(d, raw)
  <1> DEFINE m == ChunkMetadata(d)
             f == Normalize(raw)
  <1>1. \A key \in DOMAIN m : AsText(m[key]) = m[key]
    BY DEF ChunkMetadata, AsText
  <1>2. MetadataCondition(m, f) <=> Matches(m, f)
    BY <1>1 DEF MetadataCondition, Matches
  <1> QED BY <1>2, LexicalMeans

-----------------------------------------------------------------------------
(* Enumerations along an order. *)

(* A finite set that an order puts in line has one enumeration along it.   *)
StrictOrder(R, S) ==
    /\ \A x, y, z \in S : <<x, y>> \in R /\ <<y, z>> \in R => <<x, z>> \in R
    /\ \A x \in S : <<x, x>> \notin R
    /\ \A x, y \in S : x = y \/ <<x, y>> \in R \/ <<y, x>> \in R

Along(r, R) == \A i, j \in DOMAIN r : i < j => <<r[i], r[j]>> \in R

Below(R, S, x) == {y \in S : <<y, x>> \in R}

(* What comes before has fewer before it.                                  *)
LEMMA RanksAreDistinct ==
    ASSUME NEW S, IsFiniteSet(S), NEW R, StrictOrder(R, S),
           NEW x \in S, NEW y \in S, <<x, y>> \in R
    PROVE  Cardinality(Below(R, S, x)) < Cardinality(Below(R, S, y))
  <1>1. Below(R, S, x) \in SUBSET Below(R, S, y)
    BY DEF Below, StrictOrder
  <1>2. x \in Below(R, S, y) /\ x \notin Below(R, S, x)
    BY DEF Below, StrictOrder
  <1>3. IsFiniteSet(Below(R, S, y)) /\ IsFiniteSet(Below(R, S, x))
    BY FS_Subset DEF Below
  <1>4. /\ Cardinality(Below(R, S, x)) <= Cardinality(Below(R, S, y))
        /\ Cardinality(Below(R, S, y)) # Cardinality(Below(R, S, x))
    BY <1>1, <1>2, <1>3, FS_Subset
  <1> QED BY <1>3, <1>4, FS_CardinalityType

(* Ranks are the places of a sequence of all of them.                      *)
LEMMA RankIsInRange ==
    ASSUME NEW S, IsFiniteSet(S), NEW R, StrictOrder(R, S), NEW x \in S
    PROVE  Cardinality(Below(R, S, x)) + 1 \in 1..Cardinality(S)
  <1>1. Below(R, S, x) \in SUBSET S /\ Below(R, S, x) # S
    BY DEF Below, StrictOrder
  <1>2. IsFiniteSet(Below(R, S, x))
    BY <1>1, FS_Subset
  <1>3. /\ Cardinality(Below(R, S, x)) <= Cardinality(S)
        /\ Cardinality(Below(R, S, x)) # Cardinality(S)
    BY <1>1, FS_Subset
  <1> QED BY <1>2, <1>3, FS_CardinalityType

(* The elements can be enumerated along the order: each at its rank.       *)
LEMMA LineExists ==
    ASSUME NEW S, IsFiniteSet(S), NEW R, StrictOrder(R, S)
    PROVE  \E r \in SetToSeqs(S) : Along(r, R)
  <1> DEFINE n == Cardinality(S)
             p == [x \in S |-> Cardinality(Below(R, S, x)) + 1]
  <1>0. n \in Nat
    BY FS_CardinalityType
  <1>1. \A x \in S : p[x] \in 1..n
    BY RankIsInRange
  <1>2. \A x, y \in S : <<x, y>> \in R => p[x] < p[y]
    <2> SUFFICES ASSUME NEW x \in S, NEW y \in S, <<x, y>> \in R PROVE p[x] < p[y]
      OBVIOUS
    <2>1. Cardinality(Below(R, S, x)) < Cardinality(Below(R, S, y))
      BY RanksAreDistinct
    <2>2. p[x] \in Int /\ p[y] \in Int
      BY <1>1
    <2>3. Cardinality(Below(R, S, x)) \in Nat /\ Cardinality(Below(R, S, y)) \in Nat
      BY FS_Subset, FS_CardinalityType DEF Below
    <2> QED BY <2>1, <2>3
  <1>3. p \in Injection(S, 1..n)
    <2>2. p \in [S -> 1..n]
      BY <1>1
    <2> HIDE DEF p
    <2>1. ASSUME NEW x \in S, NEW y \in S, p[x] = p[y] PROVE x = y
      <3>1. p[x] \in Int /\ p[y] \in Int
        BY <1>0, <2>2
      <3>2. ~ <<x, y>> \in R /\ ~ <<y, x>> \in R
        BY <1>2, <2>1, <3>1
      <3> QED BY <3>2 DEF StrictOrder
    <2> QED BY <2>1, <2>2, Fun_IsInj
  <1>4. IsFiniteSet(1..n) /\ Cardinality(1..n) = n
    BY <1>0, FS_Interval
  <1>5. p \in Surjection(S, 1..n)
    BY <1>3, <1>4, FS_Injection
  <1>6. \A i \in 1..n : \E x \in S : p[x] = i
    BY <1>5 DEF Surjection
  <1> HIDE DEF p
  <1> DEFINE r == [i \in 1..n |-> CHOOSE x \in S : p[x] = i]
  <1>7. \A i \in 1..n : r[i] \in S /\ p[r[i]] = i
    BY <1>6
  <1>8. r \in SetToSeqs(S)
    BY <1>7 DEF SetToSeqs
  <1>9. Along(r, R)
    <2> SUFFICES ASSUME NEW i \in 1..n, NEW j \in 1..n, i < j PROVE <<r[i], r[j]>> \in R
      BY DEF Along
    <2> HIDE DEF r
    <2>1. r[i] # r[j] /\ ~ <<r[j], r[i]>> \in R
      BY <1>0, <1>2, <1>7
    <2> QED BY <1>7, <2>1 DEF StrictOrder
  <1> QED BY <1>8, <1>9

(* Along the order, every element is at its rank.                          *)
LEMMA PlaceIsRank ==
    ASSUME NEW S, IsFiniteSet(S), NEW R, StrictOrder(R, S),
           NEW r \in SetToSeqs(S), Along(r, R), NEW i \in DOMAIN r
    PROVE  Cardinality(Below(R, S, r[i])) = i - 1
  <1> DEFINE n == Cardinality(S)
             B == Below(R, S, r[i])
             f == [j \in 1..(i-1) |-> r[j]]
  <1>0. n \in Nat /\ r \in [1..n -> S] /\ DOMAIN r = 1..n
    BY FS_CardinalityType DEF SetToSeqs
  <1>1. r \in Injection(1..n, S)
    <2>1. \A j, k \in 1..n : r[j] = r[k] => j = k
      BY DEF SetToSeqs
    <2> QED BY <1>0, <2>1, Fun_IsInj
  <1>2. \A x \in S : \E j \in 1..n : r[j] = x
    <2>1. Cardinality(1..n) = Cardinality(S)
      BY <1>0, FS_Interval
    <2>2. r \in Surjection(1..n, S)
      BY <1>1, <2>1, FS_Injection
    <2> QED BY <2>2 DEF Surjection
  <1>3. \A j \in 1..n : r[j] \in B <=> j < i
    <2> SUFFICES ASSUME NEW j \in 1..n PROVE r[j] \in B <=> j < i
      OBVIOUS
    <2>1. i \in 1..n /\ r[j] \in S /\ r[i] \in S
      BY <1>0
    <2>2. CASE j < i
      BY <1>0, <2>1, <2>2 DEF Along, Below
    <2>3. CASE j = i
      BY <1>0, <2>1, <2>3 DEF StrictOrder, Below
    <2>4. CASE i < j
      <3>1. <<r[i], r[j]>> \in R
        BY <1>0, <2>1, <2>4 DEF Along
      <3>2. <<r[j], r[i]>> \notin R
        BY <2>1, <3>1 DEF StrictOrder
      <3> QED BY <2>1, <2>4, <3>2 DEF Below
    <2> QED BY <1>0, <2>1, <2>2, <2>3, <2>4
  <1>4. f \in Bijection(1..(i-1), B)
    <2>1. f \in [1..(i-1) -> B]
      BY <1>0, <1>3
    <2>2. \A j, k \in 1..(i-1) : f[j] = f[k] => j = k
      BY <1>0 DEF SetToSeqs
    <2>3. \A x \in B : \E j \in 1..(i-1) : f[j] = x
      <3> SUFFICES ASSUME NEW x \in B PROVE \E j \in 1..(i-1) : f[j] = x
        OBVIOUS
      <3>1. PICK j \in 1..n : r[j] = x
        BY <1>2 DEF Below
      <3>2. j < i
        BY <1>3, <3>1
      <3> QED BY <1>0, <3>1, <3>2
    <2> QED BY <2>1, <2>2, <2>3, Fun_IsBij
  <1>5. ExistsBijection(1..(i-1), B)
    BY <1>4 DEF ExistsBijection
  <1>6. IsFiniteSet(1..(i-1)) /\ Cardinality(1..(i-1)) = i - 1
    <2>1. i \in Int /\ 1 <= i
      BY <1>0
    <2>2. i - 1 \in Int /\ 1 \in Int /\ (1 > i - 1 <=> i = 1)
      BY <2>1
    <2> QED BY <2>1, <2>2, FS_Interval
  <1> QED BY <1>5, <1>6, FS_Bijection

(* So there is no second enumeration along it.                             *)
LEMMA OneLine ==
    ASSUME NEW S, IsFiniteSet(S), NEW R, StrictOrder(R, S),
           NEW r \in SetToSeqs(S), Along(r, R), NEW t \in SetToSeqs(S), Along(t, R)
    PROVE  r = t
  <1> DEFINE n == Cardinality(S)
  <1>0. n \in Nat /\ r \in [1..n -> S] /\ t \in [1..n -> S]
    BY FS_CardinalityType DEF SetToSeqs
  <1>1. ASSUME NEW i \in 1..n PROVE r[i] = t[i]
    <2>1. /\ Cardinality(Below(R, S, r[i])) = i - 1
          /\ Cardinality(Below(R, S, t[i])) = i - 1
      BY <1>0, PlaceIsRank
    <2>2. i - 1 \in Int /\ r[i] \in S /\ t[i] \in S
      BY <1>0
    <2>3. <<r[i], t[i]>> \notin R
      BY <2>1, <2>2, RanksAreDistinct
    <2>4. <<t[i], r[i]>> \notin R
      BY <2>1, <2>2, RanksAreDistinct
    <2> QED BY <2>2, <2>3, <2>4 DEF StrictOrder
  <1> QED BY <1>0, <1>1

-----------------------------------------------------------------------------
(* Votes as fractions. *)

(* A positive factor on both sides may go.                                 *)
LEMMA CancelFactor ==
    ASSUME NEW x \in Int, NEW y \in Int, NEW k \in Nat \ {0}
    PROVE  /\ k * x < k * y => x < y
           /\ x < y => k * x < k * y
           /\ x <= y => k * x <= k * y
           /\ k * x <= k * y => x <= y
  OBVIOUS

(* Fractions compared by cross products are in line.                       *)
LEMMA NotHigherIsTransitive ==
    ASSUME NEW s1 \in Nat, NEW s2 \in Nat \ {0}, NEW t1 \in Nat, NEW t2 \in Nat \ {0},
           NEW u1 \in Nat, NEW u2 \in Nat \ {0},
           t1 * s2 <= s1 * t2, u1 * t2 <= t1 * u2
    PROVE  /\ u1 * s2 <= s1 * u2
           /\ t1 * s2 < s1 * t2 \/ u1 * t2 < t1 * u2 => u1 * s2 < s1 * u2
  <1> DEFINE a == t1 * s2
             b == s1 * t2
             c == u1 * t2
             e == t1 * u2
             g == u1 * s2
             h == s1 * u2
  <1>0. /\ a \in Int /\ b \in Int /\ c \in Int /\ e \in Int /\ g \in Int /\ h \in Int
    OBVIOUS
  <1>1. /\ u2 * a <= u2 * b /\ (a < b => u2 * a < u2 * b)
        /\ s2 * c <= s2 * e /\ (c < e => s2 * c < s2 * e)
    BY <1>0, CancelFactor
  <1>2. u2 * a = s2 * e /\ u2 * b = t2 * h /\ s2 * c = t2 * g
    OBVIOUS
  <1>3. /\ t2 * g <= t2 * h
        /\ a < b \/ c < e => t2 * g < t2 * h
    <2> HIDE DEF a, b, c, e, g, h
    <2>1. /\ u2 * a \in Int /\ u2 * b \in Int /\ s2 * c \in Int
      BY <1>0
    <2> QED BY <1>1, <1>2, <2>1
  <1> QED BY <1>0, <1>3, CancelFactor

(* A ranking is a sequence without repetition, of at most n.               *)
LEMMA RankingForm ==
    ASSUME NEW S, NEW n \in Nat, NEW r \in Rankings(S, n)
    PROVE  /\ \E m \in 0..n : r \in [1..m -> S] /\ DOMAIN r = 1..m /\ Len(r) = m
           /\ r \in Seq(S) /\ ToSet(r) \subseteq S
           /\ \A i, j \in DOMAIN r : r[i] = r[j] => i = j
  <1>1. PICK m \in 0..n : r \in [1..m -> S]
    BY DEF Rankings, SeqOf
  <1>2. m \in Nat /\ DOMAIN r = 1..m /\ r \in Seq(S) /\ Len(r) = m
    BY <1>1
  <1>3. ToSet(r) \subseteq S
    BY <1>1 DEF ToSet
  <1> QED BY <1>1, <1>2, <1>3 DEF Rankings, IsInjective

(* A chunk of a ranking is at one place of it.                             *)
LEMMA PlaceFound ==
    ASSUME NEW S, NEW n \in Nat, NEW r \in Rankings(S, n), NEW c \in ToSet(r)
    PROVE  /\ Place(r, c) \in DOMAIN r /\ r[Place(r, c)] = c
           /\ Place(r, c) \in 1..n
           /\ \A i \in DOMAIN r : r[i] = c => i = Place(r, c)
  <1>1. \E i \in DOMAIN r : r[i] = c
    BY DEF ToSet
  <1>2. Place(r, c) \in DOMAIN r /\ r[Place(r, c)] = c
    BY <1>1 DEF Place
  <1> QED BY <1>2, RankingForm

(* A ranking has as many chunks as it has places.                          *)
LEMMA RankingIsFinite ==
    ASSUME NEW S, NEW n \in Nat, NEW r \in Rankings(S, n)
    PROVE  IsFiniteSet(ToSet(r)) /\ Cardinality(ToSet(r)) = Len(r)
  <1>1. PICK m \in 0..n : r \in [1..m -> S] /\ DOMAIN r = 1..m /\ Len(r) = m
    BY RankingForm
  <1>2. r \in Bijection(1..m, ToSet(r))
    <2>1. \A i, j \in 1..m : r[i] = r[j] => i = j
      BY <1>1, RankingForm
    <2>2. r \in [1..m -> ToSet(r)] /\ \A x \in ToSet(r) : \E i \in 1..m : r[i] = x
      BY <1>1 DEF ToSet
    <2> QED BY <2>1, <2>2, Fun_IsBij
  <1>3. ExistsBijection(1..m, ToSet(r))
    BY <1>2 DEF ExistsBijection
  <1>4. IsFiniteSet(1..m) /\ Cardinality(1..m) = m
    BY FS_Interval
  <1> QED BY <1>1, <1>3, <1>4, FS_Bijection

(* A vote is a fraction whose divisor is not 0.                            *)
LEMMA VoteIsFraction ==
    ASSUME NEW S, NEW n \in Nat, NEW r \in Rankings(S, n), NEW c
    PROVE  /\ Vote(r, c)[1] \in Nat /\ Vote(r, c)[2] \in Nat \ {0}
  <1>0. RRF_K \in Nat
    BY RetrievalAssumption
  <1>1. CASE c \in ToSet(r)
    <2>1. Place(r, c) \in 1..n
      BY <1>1, PlaceFound
    <2> QED BY <1>0, <1>1, <2>1 DEF Vote
  <1>2. CASE c \notin ToSet(r)
    BY <1>2 DEF Vote
  <1> QED BY <1>1, <1>2

(* So is the sum of two votes.                                             *)
LEMMA ScoreIsFraction ==
    ASSUME NEW S, NEW n \in Nat, NEW a \in Rankings(S, n), NEW b \in Rankings(S, n), NEW c
    PROVE  RankScore(a, b, c)[1] \in Nat /\ RankScore(a, b, c)[2] \in Nat \ {0}
  <1>1. ASSUME NEW x \in Nat, NEW y \in Nat PROVE x * y \in Nat /\ x + y \in Nat
    BY <1>1
  <1>2. ASSUME NEW x \in Nat \ {0}, NEW y \in Nat \ {0} PROVE x * y \in Nat \ {0}
    OBVIOUS
  <1>3. /\ Vote(a, c)[1] \in Nat /\ Vote(a, c)[2] \in Nat \ {0}
        /\ Vote(b, c)[1] \in Nat /\ Vote(b, c)[2] \in Nat \ {0}
    BY VoteIsFraction
  <1> DEFINE v == Vote(a, c)
             w == Vote(b, c)
  <1>4. v[1] * w[2] \in Nat /\ w[1] * v[2] \in Nat /\ v[2] * w[2] \in Nat \ {0}
    BY <1>1, <1>2, <1>3
  <1>5. v[1] * w[2] + w[1] * v[2] \in Nat
    BY <1>1, <1>4
  <1> QED BY <1>4, <1>5 DEF RankScore

(* A chunk of either list has a best place.                                *)
LEMMA BestIsPlace ==
    ASSUME NEW S, NEW n \in Nat, NEW a \in Rankings(S, n), NEW b \in Rankings(S, n),
           NEW c \in ToSet(a) \cup ToSet(b)
    PROVE  BestPlace(a, b, c) \in Nat
  <1> DEFINE P == {Place(r, c) : r \in {s \in {a, b} : c \in ToSet(s)}}
  <1>1. \A p \in P : p \in Nat
    BY PlaceFound
  <1>2. P # {} /\ \A p \in P : p = Place(a, c) \/ p = Place(b, c)
    OBVIOUS
  <1>3. \E x \in P : \A y \in P : x <= y
    <2> HIDE DEF P
    <2>1. CASE Place(a, c) \in P /\ Place(b, c) \in P
      BY <1>1, <1>2, <2>1
    <2>2. CASE Place(a, c) \notin P \/ Place(b, c) \notin P
      BY <1>1, <1>2, <2>2
    <2> QED BY <2>1, <2>2
  <1> HIDE DEF P
  <1>4. Min(P) \in P
    BY <1>3 DEF Min
  <1> QED BY <1>1, <1>4 DEF BestPlace, P

-----------------------------------------------------------------------------
(* The fusion. *)

(* The chunks of two rankings, in the order of their fusion.               *)
Together(a, b) == ToSet(a) \cup ToSet(b)

Order(a, b) == {p \in Together(a, b) \X Together(a, b) : Before(a, b, p[1], p[2])}

(* Ids are in line.                                                        *)
LEMMA SmallerIdIsOrder ==
    ASSUME NEW c \in Nat \X Nat, NEW d \in Nat \X Nat, NEW e \in Nat \X Nat
    PROVE  /\ SmallerId(c, d) /\ SmallerId(d, e) => SmallerId(c, e)
           /\ ~ SmallerId(c, c)
           /\ c = d \/ SmallerId(c, d) \/ SmallerId(d, c)
  <1>1. /\ c[1] \in Nat /\ c[2] \in Nat /\ d[1] \in Nat /\ d[2] \in Nat
        /\ e[1] \in Nat /\ e[2] \in Nat
    OBVIOUS
  <1>2. c[1] = d[1] /\ c[2] = d[2] => c = d
    OBVIOUS
  <1> QED BY <1>1, <1>2 DEF SmallerId

(* Scores are in line, but for ties.                                       *)
LEMMA HigherOrNot ==
    ASSUME NEW S, NEW n \in Nat, NEW a \in Rankings(S, n), NEW b \in Rankings(S, n),
           NEW c, NEW d, NEW e
    PROVE  LET s == RankScore(a, b, c)
               t == RankScore(a, b, d)
               u == RankScore(a, b, e)
           IN  /\ ~ Higher(s, s)
               /\ ~ (Higher(s, t) /\ Higher(t, s))
               /\ ~ Higher(t, s) /\ ~ Higher(u, t) =>
                      /\ ~ Higher(u, s)
                      /\ Higher(s, t) \/ Higher(t, u) => Higher(s, u)
  <1> DEFINE s == RankScore(a, b, c)
             t == RankScore(a, b, d)
             u == RankScore(a, b, e)
  <1>1. /\ s[1] \in Nat /\ s[2] \in Nat \ {0} /\ t[1] \in Nat /\ t[2] \in Nat \ {0}
        /\ u[1] \in Nat /\ u[2] \in Nat \ {0}
    BY ScoreIsFraction
  <1> HIDE DEF s, t, u
  <1>2. ASSUME NEW x \in Nat, NEW y \in Nat PROVE x * y \in Nat
    BY <1>2
  <1>3. /\ s[1] * t[2] \in Nat /\ t[1] * s[2] \in Nat /\ t[1] * u[2] \in Nat
        /\ u[1] * t[2] \in Nat /\ s[1] * u[2] \in Nat /\ u[1] * s[2] \in Nat
        /\ s[1] * s[2] \in Nat
    BY <1>1, <1>2
  <1>4. ~ Higher(s, s) /\ ~ (Higher(s, t) /\ Higher(t, s))
    BY <1>3 DEF Higher
  <1>5. ASSUME ~ Higher(t, s), ~ Higher(u, t)
        PROVE  ~ Higher(u, s) /\ (Higher(s, t) \/ Higher(t, u) => Higher(s, u))
    <2>1. PICK s1 \in Nat, s2 \in Nat \ {0} : s1 = s[1] /\ s2 = s[2]
      BY <1>1
    <2>2. PICK t1 \in Nat, t2 \in Nat \ {0} : t1 = t[1] /\ t2 = t[2]
      BY <1>1
    <2>3. PICK u1 \in Nat, u2 \in Nat \ {0} : u1 = u[1] /\ u2 = u[2]
      BY <1>1
    <2>4. /\ s1 * t2 \in Nat /\ t1 * s2 \in Nat /\ t1 * u2 \in Nat
          /\ u1 * t2 \in Nat /\ s1 * u2 \in Nat /\ u1 * s2 \in Nat
      BY <1>2
    <2>5. /\ Higher(s, t) <=> s1 * t2 > t1 * s2
          /\ Higher(t, s) <=> t1 * s2 > s1 * t2
          /\ Higher(t, u) <=> t1 * u2 > u1 * t2
          /\ Higher(u, t) <=> u1 * t2 > t1 * u2
          /\ Higher(s, u) <=> s1 * u2 > u1 * s2
          /\ Higher(u, s) <=> u1 * s2 > s1 * u2
      BY <2>1, <2>2, <2>3, Zenon DEF Higher
    <2>6. t1 * s2 <= s1 * t2 /\ u1 * t2 <= t1 * u2
      BY <1>5, <2>4, <2>5
    <2>7. /\ u1 * s2 <= s1 * u2
          /\ t1 * s2 < s1 * t2 \/ u1 * t2 < t1 * u2 => u1 * s2 < s1 * u2
      BY <2>6, NotHigherIsTransitive
    <2> QED BY <2>4, <2>5, <2>7
  <1> QED BY <1>4, <1>5 DEF s, t, u

(* With ties broken by the best place and by id, chunks are in line.       *)
LEMMA BeforeIsOrder ==
    ASSUME NEW S, S \subseteq Nat \X Nat, NEW n \in Nat,
           NEW a \in Rankings(S, n), NEW b \in Rankings(S, n)
    PROVE  StrictOrder(Order(a, b), Together(a, b)) /\ IsFiniteSet(Together(a, b))
  <1> DEFINE T == Together(a, b)
             R == Order(a, b)
  <1>1. \A c \in T : c \in Nat \X Nat /\ BestPlace(a, b, c) \in Nat
    BY RankingForm, BestIsPlace DEF Together
  <1>2. \A c, d \in T : <<c, d>> \in R <=> Before(a, b, c, d)
    BY DEF Order
  <1>3. IsFiniteSet(T)
    BY RankingIsFinite, FS_Union DEF Together
  <1> HIDE DEF T, R
  <1>4. ASSUME NEW c \in T, NEW d \in T, NEW e \in T
        PROVE  /\ Before(a, b, c, d) /\ Before(a, b, d, e) => Before(a, b, c, e)
               /\ ~ Before(a, b, c, c)
               /\ c = d \/ Before(a, b, c, d) \/ Before(a, b, d, c)
    <2> DEFINE s == RankScore(a, b, c)
               t == RankScore(a, b, d)
               u == RankScore(a, b, e)
    <2>1. /\ BestPlace(a, b, c) \in Nat /\ BestPlace(a, b, d) \in Nat
          /\ BestPlace(a, b, e) \in Nat
      BY <1>1
    <2>2. /\ SmallerId(c, d) /\ SmallerId(d, e) => SmallerId(c, e)
          /\ ~ SmallerId(c, c)
          /\ c = d \/ SmallerId(c, d) \/ SmallerId(d, c)
      BY <1>1, SmallerIdIsOrder
    <2>3. /\ ~ Higher(s, s)
          /\ ~ (Higher(s, t) /\ Higher(t, s)) /\ ~ (Higher(t, u) /\ Higher(u, t))
          /\ ~ Higher(t, s) /\ ~ Higher(u, t) =>
                 /\ ~ Higher(u, s)
                 /\ Higher(s, t) \/ Higher(t, u) => Higher(s, u)
      BY HigherOrNot
    <2>4. /\ Before(a, b, c, d) <=>
               \/ Higher(s, t)
               \/ /\ ~ Higher(t, s)
                  /\ \/ BestPlace(a, b, c) < BestPlace(a, b, d)
                     \/ BestPlace(a, b, c) = BestPlace(a, b, d) /\ SmallerId(c, d)
          /\ Before(a, b, d, e) <=>
               \/ Higher(t, u)
               \/ /\ ~ Higher(u, t)
                  /\ \/ BestPlace(a, b, d) < BestPlace(a, b, e)
                     \/ BestPlace(a, b, d) = BestPlace(a, b, e) /\ SmallerId(d, e)
          /\ Before(a, b, c, e) <=>
               \/ Higher(s, u)
               \/ /\ ~ Higher(u, s)
                  /\ \/ BestPlace(a, b, c) < BestPlace(a, b, e)
                     \/ BestPlace(a, b, c) = BestPlace(a, b, e) /\ SmallerId(c, e)
          /\ Before(a, b, d, c) <=>
               \/ Higher(t, s)
               \/ /\ ~ Higher(s, t)
                  /\ \/ BestPlace(a, b, d) < BestPlace(a, b, c)
                     \/ BestPlace(a, b, d) = BestPlace(a, b, c) /\ SmallerId(d, c)
          /\ Before(a, b, c, c) <=>
               \/ Higher(s, s)
               \/ /\ ~ Higher(s, s)
                  /\ \/ BestPlace(a, b, c) < BestPlace(a, b, c)
                     \/ BestPlace(a, b, c) = BestPlace(a, b, c) /\ SmallerId(c, c)
      BY DEF Before
    <2> HIDE DEF s, t, u
    <2> QED BY <2>1, <2>2, <2>3, <2>4
  <1>5. StrictOrder(R, T)
    BY <1>2, <1>4 DEF StrictOrder
  <1> QED BY <1>3, <1>5 DEF T, R

Fused(a, b) ==
    CHOOSE r \in SetToSeqs(ToSet(a) \cup ToSet(b)) :
        \A i, j \in DOMAIN r : i < j => Before(a, b, r[i], r[j])

(* The fusion enumerates both lists along that order.                      *)
LEMMA FusedIsTheLine ==
    ASSUME NEW S, S \subseteq Nat \X Nat, NEW n \in Nat,
           NEW a \in Rankings(S, n), NEW b \in Rankings(S, n)
    PROVE  Fused(a, b) \in SetToSeqs(Together(a, b)) /\ Along(Fused(a, b), Order(a, b))
  <1> DEFINE T == Together(a, b)
  <1>1. PICK r \in SetToSeqs(T) : Along(r, Order(a, b))
    BY BeforeIsOrder, LineExists
  <1>2. ASSUME NEW t \in SetToSeqs(T)
        PROVE  Along(t, Order(a, b)) <=>
                   \A i, j \in DOMAIN t : i < j => Before(a, b, t[i], t[j])
    <2>1. \A i \in DOMAIN t : t[i] \in T
      BY DEF SetToSeqs
    <2> QED BY <2>1 DEF Along, Order
  <1>3. \E t \in SetToSeqs(T) : \A i, j \in DOMAIN t : i < j => Before(a, b, t[i], t[j])
    BY <1>1, <1>2
  <1>4. /\ Fused(a, b) \in SetToSeqs(T)
        /\ \A i, j \in DOMAIN Fused(a, b) :
               i < j => Before(a, b, Fused(a, b)[i], Fused(a, b)[j])
    BY <1>3 DEF Fused, Together
  <1> QED BY <1>2, <1>4

(* An enumeration is a sequence of all of a set, without repetition.       *)
LEMMA LineForm ==
    ASSUME NEW S, NEW n \in Nat, NEW a \in Rankings(S, n), NEW b \in Rankings(S, n),
           NEW r \in SetToSeqs(Together(a, b))
    PROVE  /\ \E m \in Nat : DOMAIN r = 1..m /\ r \in [1..m -> Together(a, b)] /\ Len(r) = m
           /\ \A i, j \in DOMAIN r : r[i] = r[j] => i = j
           /\ ToSet(r) = Together(a, b)
  <1> DEFINE T == Together(a, b)
             m == Cardinality(T)
  <1>1. IsFiniteSet(T) /\ m \in Nat
    BY RankingIsFinite, FS_Union, FS_CardinalityType DEF Together
  <1>2. r \in [1..m -> T] /\ DOMAIN r = 1..m /\ Len(r) = m
    BY <1>1 DEF SetToSeqs
  <1>3. \A i, j \in DOMAIN r : r[i] = r[j] => i = j
    BY DEF SetToSeqs
  <1>4. ToSet(r) = T
    <2>1. r \in Injection(1..m, T)
      BY <1>2, <1>3, Fun_IsInj
    <2>2. Cardinality(1..m) = m
      BY <1>1, FS_Interval
    <2>3. r \in Surjection(1..m, T)
      BY <1>1, <2>1, <2>2, FS_Injection
    <2> QED BY <1>2, <2>3 DEF Surjection, ToSet
  <1> QED BY <1>1, <1>2, <1>3, <1>4

(* The first k of a sequence.                                              *)
LEMMA FirstForm ==
    ASSUME NEW T, NEW r \in Seq(T), NEW k \in Nat
    PROVE  /\ First(r, k) \in Seq(T)
           /\ Len(First(r, k)) = IF k < Len(r) THEN k ELSE Len(r)
           /\ \A i \in 1..Len(First(r, k)) : First(r, k)[i] = r[i]
           /\ DOMAIN First(r, k) = 1..Len(First(r, k))
  BY DEF First

(* The fusion of two rankings is one.                                      *)
LEMMA FuseIsRanking ==
    ASSUME NEW S, S \subseteq Nat \X Nat, NEW n \in Nat,
           NEW a \in Rankings(S, n), NEW b \in Rankings(S, n), NEW k \in Nat
    PROVE  Fuse(a, b, k) \in Rankings(S, k)
  <1> DEFINE r == Fused(a, b)
             f == First(r, k)
  <1>1. r \in SetToSeqs(Together(a, b))
    BY FusedIsTheLine
  <1>2. PICK m \in Nat : DOMAIN r = 1..m /\ r \in [1..m -> Together(a, b)] /\ Len(r) = m
    BY <1>1, LineForm
  <1>3. \A i, j \in DOMAIN r : r[i] = r[j] => i = j
    BY <1>1, LineForm
  <1>4. Together(a, b) \subseteq S
    BY RankingForm DEF Together
  <1> HIDE DEF r
  <1>5. r \in Seq(S)
    BY <1>2, <1>4
  <1>6. /\ f \in Seq(S) /\ Len(f) = (IF k < m THEN k ELSE m)
        /\ \A i \in 1..Len(f) : f[i] = r[i]
        /\ DOMAIN f = 1..Len(f)
    BY <1>2, <1>5, FirstForm
  <1> HIDE DEF f
  <1>7. f \in SeqOf(S, k)
    <2>1. Len(f) \in 0..k /\ f \in [1..Len(f) -> S]
      BY <1>6
    <2> QED BY <2>1 DEF SeqOf
  <1>8. IsInjective(f)
    BY <1>2, <1>3, <1>6 DEF IsInjective
  <1> QED BY <1>7, <1>8 DEF Rankings, Fuse, Fused, f, r

(* Two votes, each worth more than half of a third, are worth more than    *)
(* it.                                                                     *)
LEMMA TwoVotesBeatOne ==
    ASSUME NEW x \in Nat \ {0}, NEW y \in Nat \ {0}, NEW z \in Nat \ {0},
           x < 2 * z, y < 2 * z
    PROVE  x * y < (x + y) * z
  <1> DEFINE w == 2 * z
  <1>0. w \in Nat /\ x < w /\ y < w
    OBVIOUS
  <1> HIDE DEF w
  <1>1. y * x < y * w /\ x * y < x * w
    BY <1>0, CancelFactor
  <1>2. /\ y * x = x * y /\ x * y \in Int /\ x * w \in Int /\ y * w \in Int
    BY <1>0
  <1>3. 2 * (x * y) < x * w + y * w
    BY <1>1, <1>2
  <1>4. x * w + y * w = 2 * ((x + y) * z)
    BY DEF w
  <1>5. (x + y) * z \in Int
    OBVIOUS
  <1> QED BY <1>2, <1>3, <1>4, <1>5

(* Two votes are worth more than two that are worth less each.             *)
LEMMA TwoBetterVotes ==
    ASSUME NEW x \in Nat \ {0}, NEW y \in Nat \ {0},
           NEW v \in Nat \ {0}, NEW w \in Nat \ {0}, x < v, y < w
    PROVE  (v + w) * (x * y) < (x + y) * (v * w)
  <1>1. /\ x * v \in Nat \ {0} /\ y * w \in Nat \ {0}
    OBVIOUS
  <1>2. (x * v) * y < (x * v) * w /\ (y * w) * x < (y * w) * v
    BY <1>1, CancelFactor
  <1>3. /\ (v + w) * (x * y) = (x * v) * y + (y * w) * x
        /\ (x + y) * (v * w) = (x * v) * w + (y * w) * v
    OBVIOUS
  <1>4. /\ (x * v) * y \in Int /\ (x * v) * w \in Int
        /\ (y * w) * x \in Int /\ (y * w) * v \in Int
    BY <1>1
  <1> QED BY <1>2, <1>3, <1>4

(* The score of a chunk in both lists, and of one in a single list.        *)
LEMMA ScoreOfBoth ==
    ASSUME NEW S, NEW n \in Nat, NEW a \in Rankings(S, n), NEW b \in Rankings(S, n),
           NEW c \in ToSet(a) \cap ToSet(b)
    PROVE  LET x == RRF_K + Place(a, c)
               y == RRF_K + Place(b, c)
           IN  RankScore(a, b, c) = <<x + y, x * y>>
  <1>1. Place(a, c) \in 1..n /\ Place(b, c) \in 1..n /\ RRF_K \in Nat
    BY PlaceFound, RetrievalAssumption
  <1>2. /\ Vote(a, c) = <<1, RRF_K + Place(a, c)>>
        /\ Vote(b, c) = <<1, RRF_K + Place(b, c)>>
    BY DEF Vote
  <1> DEFINE x == RRF_K + Place(a, c)
             y == RRF_K + Place(b, c)
  <1>3. 1 * y + 1 * x = x + y
    BY <1>1
  <1> QED BY <1>2, <1>3 DEF RankScore

(* The score of a chunk that a single list holds.                          *)
LEMMA ScoreOfOne ==
    ASSUME NEW S, NEW n \in Nat, NEW a \in Rankings(S, n), NEW b \in Rankings(S, n), NEW c
    PROVE  /\ c \in ToSet(a) \ ToSet(b) => RankScore(a, b, c) = <<1, RRF_K + Place(a, c)>>
           /\ c \in ToSet(b) \ ToSet(a) => RankScore(a, b, c) = <<1, RRF_K + Place(b, c)>>
  <1>0. RRF_K \in Nat
    BY RetrievalAssumption
  <1>1. ASSUME c \in ToSet(a) \ ToSet(b) PROVE RankScore(a, b, c) = <<1, RRF_K + Place(a, c)>>
    <2>1. Place(a, c) \in 1..n
      BY <1>1, PlaceFound
    <2>2. Vote(a, c) = <<1, RRF_K + Place(a, c)>> /\ Vote(b, c) = <<0, 1>>
      BY <1>1 DEF Vote
    <2> DEFINE x == RRF_K + Place(a, c)
    <2>3. 1 * 1 + 0 * x = 1 /\ x * 1 = x
      BY <1>0, <2>1
    <2> QED BY <2>2, <2>3 DEF RankScore
  <1>2. ASSUME c \in ToSet(b) \ ToSet(a) PROVE RankScore(a, b, c) = <<1, RRF_K + Place(b, c)>>
    <2>1. Place(b, c) \in 1..n
      BY <1>2, PlaceFound
    <2>2. Vote(b, c) = <<1, RRF_K + Place(b, c)>> /\ Vote(a, c) = <<0, 1>>
      BY <1>2 DEF Vote
    <2> DEFINE x == RRF_K + Place(b, c)
    <2>3. 0 * x + 1 * 1 = 1 /\ 1 * x = x
      BY <1>0, <2>1
    <2> QED BY <2>2, <2>3 DEF RankScore
  <1> QED BY <1>1, <1>2

(* What both lists hold outscores what only one does, and what both hold   *)
(* below it.                                                               *)
LEMMA AgreementScores ==
    ASSUME NEW S, NEW a \in Rankings(S, Candidates), NEW b \in Rankings(S, Candidates),
           NEW c \in ToSet(a) \cap ToSet(b), NEW d \in ToSet(a) \cup ToSet(b),
           \/ d \notin ToSet(a) \cap ToSet(b)
           \/ Place(a, c) < Place(a, d) /\ Place(b, c) < Place(b, d)
    PROVE  Higher(RankScore(a, b, c), RankScore(a, b, d))
  <1>0. RRF_K \in Nat /\ Candidates \in Nat /\ Candidates < RRF_K + 2
    BY RetrievalAssumption
  <1> DEFINE x == RRF_K + Place(a, c)
             y == RRF_K + Place(b, c)
  <1>1. Place(a, c) \in 1..Candidates /\ Place(b, c) \in 1..Candidates
    BY <1>0, PlaceFound
  <1>2. x \in Nat \ {0} /\ y \in Nat \ {0} /\ x < 2 * (RRF_K + 1) /\ y < 2 * (RRF_K + 1)
    BY <1>0, <1>1
  <1>3. RankScore(a, b, c) = <<x + y, x * y>>
    BY <1>0, ScoreOfBoth
  <1> HIDE DEF x, y
  <1>4. ASSUME NEW q \in 1..Candidates, RankScore(a, b, d) = <<1, RRF_K + q>>
        PROVE  Higher(RankScore(a, b, c), RankScore(a, b, d))
    <2> DEFINE z == RRF_K + q
    <2>1. z \in Nat \ {0} /\ x < 2 * z /\ y < 2 * z
      BY <1>0, <1>2
    <2>2. x * y < (x + y) * z
      BY <1>2, <2>1, TwoVotesBeatOne
    <2>3. x * y \in Int /\ (x + y) * z \in Int /\ 1 * (x * y) = x * y
      BY <1>2, <2>1
    <2> HIDE DEF z
    <2>4. Higher(<<x + y, x * y>>, <<1, z>>)
      BY <2>2, <2>3 DEF Higher
    <2> QED BY <1>3, <1>4, <2>4 DEF z
  <1>5. CASE d \in ToSet(a) \ ToSet(b)
    <2>1. Place(a, d) \in 1..Candidates
      BY <1>0, <1>5, PlaceFound
    <2> QED BY <1>0, <1>4, <1>5, <2>1, ScoreOfOne
  <1>6. CASE d \in ToSet(b) \ ToSet(a)
    <2>1. Place(b, d) \in 1..Candidates
      BY <1>0, <1>6, PlaceFound
    <2> QED BY <1>0, <1>4, <1>6, <2>1, ScoreOfOne
  <1>7. CASE d \in ToSet(a) \cap ToSet(b)
    <2> DEFINE v == RRF_K + Place(a, d)
               w == RRF_K + Place(b, d)
    <2>1. Place(a, d) \in 1..Candidates /\ Place(b, d) \in 1..Candidates
      BY <1>0, <1>7, PlaceFound
    <2>2. v \in Nat \ {0} /\ w \in Nat \ {0} /\ x < v /\ y < w
      BY <1>0, <1>1, <1>7, <2>1 DEF x, y
    <2>3. RankScore(a, b, d) = <<v + w, v * w>>
      BY <1>0, <1>7, ScoreOfBoth
    <2> HIDE DEF v, w
    <2>4. (v + w) * (x * y) < (x + y) * (v * w)
      BY <1>2, <2>2, TwoBetterVotes
    <2>5. (v + w) * (x * y) \in Int /\ (x + y) * (v * w) \in Int
      BY <1>2, <2>2
    <2>6. Higher(<<x + y, x * y>>, <<v + w, v * w>>)
      BY <2>4, <2>5 DEF Higher
    <2> QED BY <1>3, <2>3, <2>6
  <1> QED BY <1>5, <1>6, <1>7

(* A higher score is an earlier place, and one inside the cut.             *)
LEMMA HigherIsEarlier ==
    ASSUME NEW S, S \subseteq Nat \X Nat, NEW n \in Nat,
           NEW a \in Rankings(S, n), NEW b \in Rankings(S, n), NEW k \in Nat,
           NEW c \in Together(a, b), NEW d \in ToSet(Fuse(a, b, k)),
           Higher(RankScore(a, b, c), RankScore(a, b, d))
    PROVE  c \in ToSet(Fuse(a, b, k)) /\ Place(Fuse(a, b, k), c) < Place(Fuse(a, b, k), d)
  <1> DEFINE r == Fused(a, b)
             f == Fuse(a, b, k)
  <1>1. r \in SetToSeqs(Together(a, b)) /\ Along(r, Order(a, b))
    BY FusedIsTheLine
  <1>2. PICK m \in Nat : DOMAIN r = 1..m /\ r \in [1..m -> Together(a, b)] /\ Len(r) = m
    BY <1>1, LineForm
  <1>3. ToSet(r) = Together(a, b)
    BY <1>1, LineForm
  <1>4. f \in Rankings(S, k)
    BY FuseIsRanking
  <1> HIDE DEF r
  <1>5. /\ Len(f) = IF k < m THEN k ELSE m
        /\ \A i \in 1..Len(f) : f[i] = r[i]
        /\ DOMAIN f = 1..Len(f)
    <2>1. r \in Seq(Together(a, b))
      BY <1>2
    <2>2. f = First(r, k)
      BY DEF Fuse, Fused, r
    <2> QED BY <1>2, <2>1, <2>2, FirstForm
  <1> HIDE DEF f
  <1>6. PICK i \in 1..m : r[i] = c
    BY <1>2, <1>3 DEF ToSet
  <1> DEFINE j == Place(f, d)
  <1>7. j \in 1..Len(f) /\ f[j] = d /\ j \in 1..m /\ r[j] = d
    <2>1. j \in DOMAIN f /\ f[j] = d
      BY <1>4, PlaceFound DEF f
    <2> QED BY <1>2, <1>5, <2>1
  <1> HIDE DEF j
  <1>8. i < j
    <2>1. ~ Higher(RankScore(a, b, d), RankScore(a, b, c))
      BY HigherOrNot
    <2>2. ~ Before(a, b, d, c)
      BY <2>1 DEF Before
    <2>3. ~ j < i
      BY <1>1, <1>2, <1>6, <1>7, <2>2 DEF Along, Order
    <2>4. ~ Higher(RankScore(a, b, c), RankScore(a, b, c))
      BY HigherOrNot
    <2>5. i # j
      BY <1>6, <1>7, <2>4
    <2> QED BY <1>6, <1>7, <2>3, <2>5
  <1>9. i \in DOMAIN f /\ f[i] = c
    BY <1>5, <1>6, <1>7, <1>8
  <1>10. c \in ToSet(f)
    BY <1>9 DEF ToSet
  <1>11. i = Place(f, c)
    BY <1>4, <1>9, <1>10, PlaceFound
  <1> QED BY <1>8, <1>10, <1>11 DEF f, j

(* Agreement decides the places of the fusion.                             *)
LEMMA FusionKeepsAgreement ==
    ASSUME NEW S, S \subseteq Nat \X Nat,
           NEW a \in Rankings(S, Candidates), NEW b \in Rankings(S, Candidates), NEW k \in Nat,
           NEW c \in ToSet(a) \cap ToSet(b), NEW d \in ToSet(Fuse(a, b, k)),
           \/ d \notin ToSet(a) \cap ToSet(b)
           \/ Place(a, c) < Place(a, d) /\ Place(b, c) < Place(b, d)
    PROVE  c \in ToSet(Fuse(a, b, k)) /\ Place(Fuse(a, b, k), c) < Place(Fuse(a, b, k), d)
  <1>0. Candidates \in Nat
    BY RetrievalAssumption
  <1>1. d \in ToSet(a) \cup ToSet(b)
    <2>1. Fuse(a, b, k) \in Rankings(Together(a, b), k)
      <3>1. Together(a, b) \subseteq Nat \X Nat
        BY <1>0, RankingForm DEF Together
      <3>2. a \in Rankings(Together(a, b), Candidates) /\ b \in Rankings(Together(a, b), Candidates)
        <4>1. ASSUME NEW r \in Rankings(S, Candidates), ToSet(r) \subseteq Together(a, b)
              PROVE  r \in Rankings(Together(a, b), Candidates)
          <5>1. PICK m \in 0..Candidates : r \in [1..m -> S]
            BY DEF Rankings, SeqOf
          <5>2. r \in [1..m -> Together(a, b)]
            BY <4>1, <5>1 DEF ToSet
          <5> QED BY <5>2 DEF Rankings, SeqOf
        <4> QED BY <4>1 DEF Together
      <3> QED BY <1>0, <3>1, <3>2, FuseIsRanking
    <2> QED BY <2>1, RankingForm DEF Together
  <1>2. Higher(RankScore(a, b, c), RankScore(a, b, d))
    BY <1>1, AgreementScores
  <1> QED BY <1>0, <1>2, HigherIsEarlier DEF Together

(* A ranking fused with itself, or with nothing, is in its own order.      *)
LEMMA AloneIsInOrder ==
    ASSUME NEW S, NEW n \in Nat, NEW a \in Rankings(S, n), NEW b \in Rankings(S, n),
           NEW h \in {a, b}, a = b \/ a = <<>> \/ b = <<>>, ToSet(h) = Together(a, b),
           NEW i \in DOMAIN h, NEW j \in DOMAIN h, i < j
    PROVE  Before(a, b, h[i], h[j])
  <1>0. RRF_K \in Nat
    BY RetrievalAssumption
  <1>1. /\ h \in Rankings(S, n) /\ h[i] \in ToSet(h) /\ h[j] \in ToSet(h)
        /\ i = Place(h, h[i]) /\ j = Place(h, h[j]) /\ i \in 1..n /\ j \in 1..n
    <2>1. h[i] \in ToSet(h) /\ h[j] \in ToSet(h)
      BY DEF ToSet
    <2> QED BY <2>1, PlaceFound
  <1> DEFINE x == RRF_K + i
             y == RRF_K + j
  <1>2. x \in Nat \ {0} /\ y \in Nat \ {0} /\ x < y
    BY <1>0, <1>1
  <1>3. CASE a = b
    <2>1. RankScore(a, b, h[i]) = <<x + x, x * x>> /\ RankScore(a, b, h[j]) = <<y + y, y * y>>
      BY <1>1, <1>3, ScoreOfBoth
    <2> HIDE DEF x, y
    <2>2. (y + y) * (x * x) < (x + x) * (y * y)
      BY <1>2, TwoBetterVotes
    <2>3. (y + y) * (x * x) \in Int /\ (x + x) * (y * y) \in Int
      BY <1>2
    <2>4. Higher(<<x + x, x * x>>, <<y + y, y * y>>)
      BY <2>2, <2>3 DEF Higher
    <2> QED BY <2>1, <2>4 DEF Before
  <1>4. CASE a # b
    <2>1. \/ h = a /\ ToSet(b) = {}
          \/ h = b /\ ToSet(a) = {}
      BY <1>1, <1>4 DEF ToSet
    <2>2. RankScore(a, b, h[i]) = <<1, x>> /\ RankScore(a, b, h[j]) = <<1, y>>
      BY <1>1, <2>1, ScoreOfOne
    <2> HIDE DEF x, y
    <2>3. Higher(<<1, x>>, <<1, y>>)
      BY <1>2 DEF Higher
    <2> QED BY <2>2, <2>3 DEF Before
  <1> QED BY <1>3, <1>4

(* One list, fused with itself or with nothing, is the fusion.             *)
LEMMA FusedAlone ==
    ASSUME NEW S, S \subseteq Nat \X Nat, NEW n \in Nat,
           NEW a \in Rankings(S, n), NEW b \in Rankings(S, n),
           NEW h \in {a, b}, a = b \/ a = <<>> \/ b = <<>>, ToSet(h) = Together(a, b)
    PROVE  Fused(a, b) = h
  <1> DEFINE T == Together(a, b)
  <1>1. StrictOrder(Order(a, b), T) /\ IsFiniteSet(T)
    BY BeforeIsOrder
  <1>2. Fused(a, b) \in SetToSeqs(T) /\ Along(Fused(a, b), Order(a, b))
    BY FusedIsTheLine
  <1>3. h \in SetToSeqs(T)
    <2>1. h \in Rankings(S, n)
      OBVIOUS
    <2>2. PICK m \in 0..n : h \in [1..m -> S] /\ DOMAIN h = 1..m /\ Len(h) = m
      BY <2>1, RankingForm
    <2>3. m = Cardinality(T)
      BY <2>1, <2>2, RankingIsFinite
    <2>4. h \in [1..m -> T]
      <3>1. \A i \in 1..m : h[i] \in ToSet(h)
        BY <2>2 DEF ToSet
      <3> QED BY <2>2, <3>1
    <2>5. \A i, j \in 1..m : i # j => h[i] # h[j]
      <3>1. \A i, j \in DOMAIN h : h[i] = h[j] => i = j
        BY <2>1, RankingForm
      <3> QED BY <2>2, <3>1
    <2> QED BY <2>3, <2>4, <2>5 DEF SetToSeqs
  <1>4. Along(h, Order(a, b))
    <2> SUFFICES ASSUME NEW i \in DOMAIN h, NEW j \in DOMAIN h, i < j
                 PROVE  <<h[i], h[j]>> \in Order(a, b)
      BY DEF Along
    <2>1. Before(a, b, h[i], h[j])
      BY AloneIsInOrder
    <2>2. h[i] \in T /\ h[j] \in T
      BY DEF ToSet
    <2> QED BY <2>1, <2>2 DEF Order
  <1> HIDE DEF T
  <1> QED BY <1>1, <1>2, <1>3, <1>4, OneLine

(* Cut, it is the beginning of that list.                                  *)
LEMMA FuseAlone ==
    ASSUME NEW S, S \subseteq Nat \X Nat, NEW n \in Nat, NEW k \in Nat,
           NEW a \in Rankings(S, n), NEW b \in Rankings(S, n),
           NEW h \in {a, b}, a = b \/ a = <<>> \/ b = <<>>, ToSet(h) = Together(a, b)
    PROVE  Fuse(a, b, k) = First(h, Len(Fuse(a, b, k)))
  <1>1. Fuse(a, b, k) = First(h, k)
    <2>1. Fuse(a, b, k) = First(Fused(a, b), k)
      BY DEF Fuse, Fused
    <2>2. Fused(a, b) = h
      BY FusedAlone
    <2> QED BY <2>1, <2>2
  <1>2. h \in Seq(S)
    BY RankingForm
  <1>3. Len(First(h, k)) = IF k < Len(h) THEN k ELSE Len(h)
    BY <1>2, FirstForm
  <1>4. Len(h) \in Nat
    BY <1>2
  <1> QED BY <1>1, <1>3, <1>4 DEF First

-----------------------------------------------------------------------------
(* The invariant of the searches. *)

(* What both halves may find for a search, and how much of it.             *)
Reach(ids, q) == {c \in ids : Meant(c[1], q.filters)}

Depth(q) == IF q.retriever \in Hybrids THEN Candidates ELSE FetchFor(K)

Fields(q) ==
    /\ DOMAIN q = DOMAIN Unasked
    /\ DOMAIN q.lexical = DOMAIN Half
    /\ DOMAIN q.dense = DOMAIN Half

Settled == {"unused", "answered", "failed"}

(* A half has chunks only if it answered, and then a ranking of what its   *)
(* filter lets through.                                                    *)
HalvesOK(ids, q) ==
    /\ q.lexical.chunks \in Rankings(Reach(ids, q), Depth(q))
    /\ q.dense.chunks \in Rankings(Reach(ids, q), Depth(q))
    /\ q.lexical.status # "answered" => q.lexical.chunks = <<>>
    /\ q.dense.status \notin {"answered", "hypothesis"} => q.dense.chunks = <<>>

(* A half works only while its search waits for it, and only for a search  *)
(* that was let in.                                                        *)
StagesOK(q) ==
    /\ q.stage \in {"unasked", "refused"} =>
           q.lexical.status = "unused" /\ q.dense.status = "unused"
    /\ q.stage # "halves" => {q.lexical.status, q.dense.status} \subseteq Settled
    /\ q.stage \notin {"unasked", "refused"} => ~ Refused(q.filters)
    /\ q.retriever = "bm25" => q.dense.status = "unused"
    /\ q.retriever = "vector" => q.lexical.status = "unused"

(* The pool is what the halves make together, for a half that answered.    *)
Joined(q) ==
    /\ \E half \in {q.lexical, q.dense} : half.status = "answered"
    /\ CASE q.retriever = "bm25" -> q.pool = q.lexical.chunks
         [] q.retriever = "vector" -> q.pool = q.dense.chunks
         [] OTHER -> \E k \in {Candidates, FetchFor(K)} :
                         q.pool = Fuse(q.lexical.chunks, q.dense.chunks, k)

PoolOK(q) ==
    /\ q.stage \in {"unasked", "refused", "halves"} => q.pool = <<>>
    /\ q.stage = "rerank" => q.pool # <<>>
    /\ q.stage \notin {"unasked", "refused", "halves", "failed"} \/ q.pool # <<>> => Joined(q)
    /\ q.stage = "failed" /\ q.pool = <<>> =>
           \A half \in {q.lexical, q.dense} : half.status # "answered"

QueryOK(ids, q) == Fields(q) /\ HalvesOK(ids, q) /\ StagesOK(q) /\ PoolOK(q)

SearchInv ==
    /\ DOMAIN index \subseteq Nat \X Nat
    /\ DOMAIN search = Scorers
    /\ \A s \in Scorers : QueryOK(DOMAIN index, search[s])

(* How much is fetched is a number.                                        *)
LEMMA DepthIsNat == \A q : Depth(q) \in Nat
  <1>1. K \in Nat /\ CAP_OVER_FETCH \in Nat /\ Candidates \in Nat
    BY RetrievalAssumption
  <1> QED BY <1>1 DEF Depth, FetchFor

(* An empty answer is a ranking.                                           *)
LEMMA NothingIsARanking == \A S, n : n \in Nat => <<>> \in Rankings(S, n)
  <1> SUFFICES ASSUME NEW S, NEW n \in Nat PROVE <<>> \in Rankings(S, n)
    OBVIOUS
  <1>1. <<>> \in [1..0 -> S] /\ 0 \in 0..n
    OBVIOUS
  <1>2. <<>> \in SeqOf(S, n)
    BY <1>1 DEF SeqOf
  <1> QED BY <1>2 DEF Rankings, IsInjective

(* Both halves see what the filters mean, and want as much of it.          *)
LEMMA BothSeeTheReach ==
    ASSUME NEW s
    PROVE  /\ LexicalSees(s) = Reach(DOMAIN index, search[s])
           /\ DenseSees(s) = Reach(DOMAIN index, search[s])
           /\ Wanted(s) = Depth(search[s])
  BY LexicalMeans, DenseMeans DEF LexicalSees, DenseSees, Reach, Wanted, Depth

(* No search was asked yet.                                                *)
LEMMA SearchInit == RetrievalInit => SearchInv
  <1> SUFFICES ASSUME RetrievalInit PROVE SearchInv
    OBVIOUS
  <1>1. DOMAIN index \subseteq Nat \X Nat
    <2>1. index = Indexed(corpus) /\ Docs \subseteq Nat
      BY RetrievalAssumption DEF RetrievalInit
    <2>2. \A x : 1..Len(x) \subseteq Nat
      OBVIOUS
    <2>3. DOMAIN index = UNION {{d} \X (1..Len(Contents[d][corpus[d]])) : d \in Docs}
      BY <2>1 DEF Indexed
    <2> QED BY <2>1, <2>2, <2>3
  <1>2. search = [s \in Scorers |-> Unasked]
    BY DEF RetrievalInit
  <1>3. ASSUME NEW ids PROVE QueryOK(ids, Unasked)
    <2>1. Fields(Unasked)
      BY DEF Fields, Unasked, Half
    <2>2. HalvesOK(ids, Unasked)
      BY NothingIsARanking, DepthIsNat DEF HalvesOK, Unasked, Half
    <2>3. StagesOK(Unasked)
      BY DEF StagesOK, Unasked, Half, Settled
    <2>4. PoolOK(Unasked)
      BY DEF PoolOK, Unasked
    <2> QED BY <2>1, <2>2, <2>3, <2>4 DEF QueryOK
  <1> QED BY <1>1, <1>2, <1>3 DEF SearchInv

(* A step of one search leaves the others as they are.                     *)
LEMMA BecomesKeeps ==
    ASSUME SearchInv, NEW s \in Scorers, NEW q, Becomes(s, q), QueryOK(DOMAIN index, q),
           UNCHANGED index
    PROVE  SearchInv'
  <1>1. search' = [search EXCEPT ![s] = q] /\ DOMAIN search' = Scorers
    BY DEF Becomes, SearchInv
  <1>2. ASSUME NEW r \in Scorers PROVE QueryOK(DOMAIN index', search'[r])
    BY <1>1 DEF SearchInv
  <1> QED BY <1>1, <1>2 DEF SearchInv

(* A refused search never started.                                         *)
LEMMA RefuseKeeps ==
    ASSUME NEW ids, NEW q, QueryOK(ids, q), NEW raw, q.stage = "unasked"
    PROVE  QueryOK(ids, [q EXCEPT !.stage = "refused", !.reader = "endpoint", !.filters = raw])
  <1> DEFINE p == [q EXCEPT !.stage = "refused", !.reader = "endpoint", !.filters = raw]
  <1>1. /\ p.stage = "refused" /\ p.filters = raw
        /\ p.lexical = q.lexical /\ p.dense = q.dense /\ p.pool = q.pool
        /\ p.retriever = q.retriever /\ DOMAIN p = DOMAIN q
    BY DEF QueryOK, Fields, Unasked
  <1>2. q.lexical.chunks = <<>> /\ q.dense.chunks = <<>>
    BY DEF QueryOK, HalvesOK, StagesOK
  <1> HIDE DEF p
  <1>3. Fields(p)
    BY <1>1 DEF QueryOK, Fields
  <1>4. HalvesOK(ids, p)
    BY <1>1, <1>2, NothingIsARanking, DepthIsNat DEF QueryOK, HalvesOK
  <1>5. StagesOK(p)
    BY <1>1 DEF QueryOK, StagesOK
  <1>6. PoolOK(p)
    BY <1>1 DEF QueryOK, PoolOK
  <1> QED BY <1>3, <1>4, <1>5, <1>6 DEF QueryOK, p

(* A search changes nothing but its halves while it waits for them.        *)
HalvesOnly(p, q) ==
    /\ p.stage = q.stage /\ p.filters = q.filters /\ p.retriever = q.retriever
    /\ p.pool = q.pool /\ DOMAIN p = DOMAIN q
    /\ DOMAIN p.lexical = DOMAIN Half /\ DOMAIN p.dense = DOMAIN Half

(* While the halves work, only what they found matters.                    *)
LEMMA HalfWorks ==
    ASSUME NEW ids, NEW q, QueryOK(ids, q), NEW p, HalvesOnly(p, q), HalvesOK(ids, p),
           q.lexical.status \notin Settled \/ q.dense.status \notin Settled,
           q.lexical.status = "unused" => p.lexical.status = "unused",
           q.dense.status = "unused" => p.dense.status = "unused"
    PROVE  QueryOK(ids, p)
  <1>1. q.stage = "halves"
    BY DEF QueryOK, StagesOK
  <1>2. Fields(p)
    BY DEF QueryOK, Fields, HalvesOnly
  <1>3. StagesOK(p)
    BY <1>1 DEF QueryOK, StagesOK, HalvesOnly
  <1>4. PoolOK(p)
    BY <1>1 DEF QueryOK, PoolOK, HalvesOnly
  <1> QED BY <1>2, <1>3, <1>4 DEF QueryOK

(* What a search may find is settled when it is asked.                     *)
LEMMA SameReach ==
    ASSUME NEW ids, NEW p, NEW q, HalvesOnly(p, q)
    PROVE  Reach(ids, p) = Reach(ids, q) /\ Depth(p) = Depth(q)
  BY DEF HalvesOnly, Reach, Depth

(* The keyword half answers with a ranking of its reach.                   *)
LEMMA LexicalAnswersKeeps ==
    ASSUME SearchInv, NEW s \in Scorers, NEW r, LexicalAnswers(s, r)
    PROVE  SearchInv'
  <1> DEFINE q == search[s]
             p == [q EXCEPT !.lexical = [status |-> "answered", chunks |-> r]]
  <1>1. QueryOK(DOMAIN index, q)
    BY DEF SearchInv
  <1>2. /\ q.lexical.status = "asked" /\ r \in Rankings(Reach(DOMAIN index, q), Depth(q))
        /\ Becomes(s, p) /\ UNCHANGED index
    BY BothSeeTheReach DEF LexicalAnswers
  <1>3. /\ HalvesOnly(p, q) /\ p.dense = q.dense
        /\ p.lexical.status = "answered" /\ p.lexical.chunks = r
    BY <1>1 DEF QueryOK, Fields, Unasked, Half, HalvesOnly
  <1> HIDE DEF p, q
  <1>4. HalvesOK(DOMAIN index, p)
    BY <1>1, <1>2, <1>3, SameReach DEF QueryOK, HalvesOK
  <1>5. QueryOK(DOMAIN index, p)
    BY <1>1, <1>2, <1>3, <1>4, HalfWorks DEF Settled
  <1> QED BY <1>2, <1>5, BecomesKeeps

(* It fails, and has no chunks.                                            *)
LEMMA LexicalFailsKeeps ==
    ASSUME SearchInv, NEW s \in Scorers, LexicalFails(s)
    PROVE  SearchInv'
  <1> DEFINE q == search[s]
             p == [q EXCEPT !.lexical.status = "failed"]
  <1>1. QueryOK(DOMAIN index, q)
    BY DEF SearchInv
  <1>2. q.lexical.status = "asked" /\ Becomes(s, p) /\ UNCHANGED index
    BY DEF LexicalFails
  <1>3. /\ HalvesOnly(p, q) /\ p.dense = q.dense
        /\ p.lexical.status = "failed" /\ p.lexical.chunks = q.lexical.chunks
    BY <1>1 DEF QueryOK, Fields, Unasked, Half, HalvesOnly
  <1> HIDE DEF p, q
  <1>4. HalvesOK(DOMAIN index, p)
    BY <1>1, <1>2, <1>3, SameReach DEF QueryOK, HalvesOK
  <1>5. QueryOK(DOMAIN index, p)
    BY <1>1, <1>2, <1>3, <1>4, HalfWorks DEF Settled
  <1> QED BY <1>2, <1>5, BecomesKeeps

(* The hypothesis is written, or not, before the vector half searches.     *)
LEMMA ExpandKeeps ==
    ASSUME SearchInv, NEW s \in Scorers, Expand(s)
    PROVE  SearchInv'
  <1> DEFINE q == search[s]
  <1>1. QueryOK(DOMAIN index, q)
    BY DEF SearchInv
  <1>2. PICK status \in {"asked", "asked twice"} :
            Becomes(s, [q EXCEPT !.dense.status = status])
    BY DEF Expand
  <1> DEFINE p == [q EXCEPT !.dense.status = status]
  <1>3. q.dense.status = "expanding" /\ Becomes(s, p) /\ UNCHANGED index
    BY <1>2 DEF Expand
  <1>4. /\ HalvesOnly(p, q) /\ p.lexical = q.lexical
        /\ p.dense.status = status /\ p.dense.chunks = q.dense.chunks
    BY <1>1 DEF QueryOK, Fields, Unasked, Half, HalvesOnly
  <1> HIDE DEF p, q
  <1>5. HalvesOK(DOMAIN index, p)
    BY <1>1, <1>2, <1>3, <1>4, SameReach DEF QueryOK, HalvesOK
  <1>6. QueryOK(DOMAIN index, p)
    BY <1>1, <1>3, <1>4, <1>5, HalfWorks DEF Settled
  <1> QED BY <1>3, <1>6, BecomesKeeps

(* The vector half answers, or its first list waits for the hypothesis'.   *)
LEMMA DenseAnswersKeeps ==
    ASSUME SearchInv, NEW s \in Scorers, NEW r, DenseAnswers(s, r)
    PROVE  SearchInv'
  <1> DEFINE q == search[s]
             status == IF q.dense.status = "asked" THEN "answered" ELSE "hypothesis"
             p == [q EXCEPT !.dense = [status |-> status, chunks |-> r]]
  <1>1. QueryOK(DOMAIN index, q)
    BY DEF SearchInv
  <1>2. /\ q.dense.status \in {"asked", "asked twice"} /\ UNCHANGED index
        /\ r \in Rankings(Reach(DOMAIN index, q), Depth(q))
    BY BothSeeTheReach DEF DenseAnswers
  <1>3. Becomes(s, p)
    BY <1>1 DEF DenseAnswers, QueryOK, Fields, Unasked
  <1>4. /\ HalvesOnly(p, q) /\ p.lexical = q.lexical
        /\ p.dense.status = status /\ p.dense.chunks = r
    BY <1>1 DEF QueryOK, Fields, Unasked, Half, HalvesOnly
  <1>5. status \in {"answered", "hypothesis"}
    OBVIOUS
  <1> HIDE DEF p, q, status
  <1>6. HalvesOK(DOMAIN index, p)
    BY <1>1, <1>2, <1>4, <1>5, SameReach DEF QueryOK, HalvesOK
  <1>7. QueryOK(DOMAIN index, p)
    BY <1>1, <1>2, <1>4, <1>6, HalfWorks DEF Settled
  <1> QED BY <1>2, <1>3, <1>7, BecomesKeeps

(* The question's list and the hypothesis' list are one ranking.           *)
LEMMA HypothesisAnswersKeeps ==
    ASSUME SearchInv, NEW s \in Scorers, NEW r, HypothesisAnswers(s, r)
    PROVE  SearchInv'
  <1> DEFINE q == search[s]
             f == Fuse(q.dense.chunks, r, Depth(q))
             p == [q EXCEPT !.dense = [status |-> "answered", chunks |-> f]]
  <1>1. QueryOK(DOMAIN index, q)
    BY DEF SearchInv
  <1>2. /\ q.dense.status = "hypothesis" /\ UNCHANGED index
        /\ r \in Rankings(Reach(DOMAIN index, q), Depth(q))
    BY BothSeeTheReach DEF HypothesisAnswers
  <1>3. Becomes(s, p)
    <2>1. Wanted(s) = Depth(q)
      BY BothSeeTheReach
    <2> QED BY <1>1, <2>1 DEF HypothesisAnswers, QueryOK, Fields, Unasked
  <1>4. /\ HalvesOnly(p, q) /\ p.lexical = q.lexical
        /\ p.dense.status = "answered" /\ p.dense.chunks = f
    BY <1>1 DEF QueryOK, Fields, Unasked, Half, HalvesOnly
  <1>5. f \in Rankings(Reach(DOMAIN index, q), Depth(q))
    <2>1. Reach(DOMAIN index, q) \subseteq Nat \X Nat
      BY DEF SearchInv, Reach
    <2>2. q.dense.chunks \in Rankings(Reach(DOMAIN index, q), Depth(q))
      BY <1>1 DEF QueryOK, HalvesOK
    <2> QED BY <1>2, <2>1, <2>2, DepthIsNat, FuseIsRanking
  <1> HIDE DEF p, q, f
  <1>6. HalvesOK(DOMAIN index, p)
    BY <1>1, <1>2, <1>4, <1>5, SameReach DEF QueryOK, HalvesOK
  <1>7. QueryOK(DOMAIN index, p)
    BY <1>1, <1>2, <1>4, <1>6, HalfWorks DEF Settled
  <1> QED BY <1>2, <1>3, <1>7, BecomesKeeps

(* The vector half fails, and has no chunks.                               *)
LEMMA DenseFailsKeeps ==
    ASSUME SearchInv, NEW s \in Scorers, DenseFails(s)
    PROVE  SearchInv'
  <1> DEFINE q == search[s]
             p == [q EXCEPT !.dense = [status |-> "failed", chunks |-> <<>>]]
  <1>1. QueryOK(DOMAIN index, q)
    BY DEF SearchInv
  <1>2. /\ q.dense.status \in {"asked", "asked twice", "hypothesis"}
        /\ Becomes(s, p) /\ UNCHANGED index
    BY DEF DenseFails
  <1>3. /\ HalvesOnly(p, q) /\ p.lexical = q.lexical
        /\ p.dense.status = "failed" /\ p.dense.chunks = <<>>
    BY <1>1 DEF QueryOK, Fields, Unasked, Half, HalvesOnly
  <1> HIDE DEF p, q
  <1>4. HalvesOK(DOMAIN index, p)
    BY <1>1, <1>3, SameReach, NothingIsARanking, DepthIsNat DEF QueryOK, HalvesOK
  <1>5. QueryOK(DOMAIN index, p)
    BY <1>1, <1>2, <1>3, <1>4, HalfWorks DEF Settled
  <1> QED BY <1>2, <1>5, BecomesKeeps

(* A refusal is a step of one search.                                      *)
LEMMA RefusedKeeps ==
    ASSUME SearchInv, NEW s \in Scorers, NEW raw, Refuse(s, raw)
    PROVE  SearchInv'
  BY RefuseKeeps, BecomesKeeps DEF Refuse, SearchInv

(* A search starts with the halves its retriever has.                      *)
LEMMA RetrieveKeeps ==
    ASSUME SearchInv, NEW s \in Scorers, NEW retriever, NEW reader, NEW raw,
           Retrieve(s, retriever, reader, raw)
    PROVE  SearchInv'
  <1> DEFINE q == search[s]
             lexical == IF retriever = "vector" THEN "unused" ELSE "asked"
             dense == IF retriever = "bm25" THEN "unused"
                      ELSE IF retriever = "hybrid_hyde" THEN "expanding" ELSE "asked"
             p == [q EXCEPT
                      !.stage = "halves", !.retriever = retriever, !.reader = reader,
                      !.filters = raw, !.lexical.status = lexical, !.dense.status = dense]
  <1>1. QueryOK(DOMAIN index, q)
    BY DEF SearchInv
  <1>2. q.stage = "unasked" /\ ~ Refused(raw) /\ Becomes(s, p) /\ UNCHANGED index
    BY DEF Retrieve
  <1>3. /\ DOMAIN p = DOMAIN q /\ p.stage = "halves" /\ p.filters = raw
        /\ p.retriever = retriever /\ p.pool = q.pool
        /\ DOMAIN p.lexical = DOMAIN Half /\ DOMAIN p.dense = DOMAIN Half
        /\ p.lexical.status = lexical /\ p.lexical.chunks = q.lexical.chunks
        /\ p.dense.status = dense /\ p.dense.chunks = q.dense.chunks
    BY <1>1 DEF QueryOK, Fields, Unasked, Half
  <1>4. q.lexical.chunks = <<>> /\ q.dense.chunks = <<>> /\ q.pool = <<>>
    BY <1>1, <1>2 DEF QueryOK, HalvesOK, StagesOK, PoolOK
  <1>5. /\ lexical # "answered" /\ dense \notin {"answered", "hypothesis"}
        /\ retriever = "vector" => lexical = "unused"
        /\ retriever = "bm25" => dense = "unused"
    OBVIOUS
  <1> HIDE DEF p, q, lexical, dense
  <1>6. Fields(p)
    BY <1>1, <1>3 DEF QueryOK, Fields
  <1>7. HalvesOK(DOMAIN index, p)
    BY <1>3, <1>4, <1>5, NothingIsARanking, DepthIsNat DEF HalvesOK
  <1>8. StagesOK(p)
    BY <1>2, <1>3, <1>5 DEF StagesOK
  <1>9. PoolOK(p)
    BY <1>3, <1>4 DEF PoolOK
  <1>10. QueryOK(DOMAIN index, p)
    BY <1>6, <1>7, <1>8, <1>9 DEF QueryOK
  <1> QED BY <1>2, <1>10, BecomesKeeps

(* What comes after the halves leaves them, and what was asked, alone.     *)
Later(p, q) ==
    /\ DOMAIN p = DOMAIN q
    /\ p.filters = q.filters /\ p.retriever = q.retriever
    /\ p.lexical = q.lexical /\ p.dense = q.dense
    /\ p.stage \notin {"unasked", "refused", "halves"}

(* Halves that are done stay so.                                           *)
LEMMA LaterOK ==
    ASSUME NEW ids, NEW q, QueryOK(ids, q), NEW p, Later(p, q), PoolOK(p),
           q.stage \notin {"unasked", "refused"},
           {q.lexical.status, q.dense.status} \subseteq Settled
    PROVE  QueryOK(ids, p)
  <1>1. Fields(p)
    BY DEF QueryOK, Fields, Later
  <1>2. HalvesOK(ids, p)
    <2>1. Reach(ids, p) = Reach(ids, q) /\ Depth(p) = Depth(q)
      BY DEF Later, Reach, Depth
    <2> QED BY <2>1 DEF QueryOK, HalvesOK, Later
  <1>3. StagesOK(p)
    BY DEF QueryOK, StagesOK, Later
  <1> QED BY <1>1, <1>2, <1>3 DEF QueryOK

(* The pool is made of the halves that answered.                           *)
LEMMA JoinKeeps ==
    ASSUME SearchInv, NEW s \in Scorers, Join(s)
    PROVE  SearchInv'
  <1> DEFINE q == search[s]
             reranked == q.retriever = "hybrid_rerank"
             k == IF reranked THEN Candidates ELSE FetchFor(K)
             pool == CASE q.retriever = "bm25" -> q.lexical.chunks
                       [] q.retriever = "vector" -> q.dense.chunks
                       [] OTHER -> Fuse(q.lexical.chunks, q.dense.chunks, k)
             p == [q EXCEPT
                      !.stage = IF reranked /\ pool # <<>> THEN "rerank" ELSE "answered",
                      !.pool = pool,
                      !.answer = IF reranked /\ pool # <<>> THEN <<>> ELSE Capped(pool, K)]
  <1>1. QueryOK(DOMAIN index, q)
    BY DEF SearchInv
  <1>2. /\ q.stage = "halves" /\ {q.lexical.status, q.dense.status} \subseteq Settled
        /\ \E half \in {q.lexical, q.dense} : half.status = "answered"
        /\ UNCHANGED index
    BY DEF Join, Gathered, Gathers, Settled
  <1>3. Becomes(s, p)
    BY DEF Join
  <1>4. /\ DOMAIN p = DOMAIN q /\ p.filters = q.filters /\ p.retriever = q.retriever
        /\ p.lexical = q.lexical /\ p.dense = q.dense
        /\ p.stage = (IF reranked /\ pool # <<>> THEN "rerank" ELSE "answered")
        /\ p.pool = pool
    BY <1>1 DEF QueryOK, Fields, Unasked
  <1>5. Joined(p)
    <2>1. CASE q.retriever = "bm25"
      BY <1>2, <1>4, <2>1 DEF Joined
    <2>2. CASE q.retriever = "vector"
      BY <1>2, <1>4, <2>2 DEF Joined
    <2>3. CASE q.retriever \notin {"bm25", "vector"}
      <3>1. pool = Fuse(q.lexical.chunks, q.dense.chunks, k) /\ k \in {Candidates, FetchFor(K)}
        BY <2>3
      <3> HIDE DEF p, pool, k
      <3> QED BY <1>2, <1>4, <2>3, <3>1 DEF Joined
    <2> QED BY <2>1, <2>2, <2>3
  <1> HIDE DEF p, q, pool, k
  <1>6. Later(p, q) /\ p.stage \in {"rerank", "answered"} /\ (p.stage = "rerank" => p.pool # <<>>)
    BY <1>4 DEF Later
  <1>7. PoolOK(p)
    BY <1>5, <1>6 DEF PoolOK
  <1>8. QueryOK(DOMAIN index, p)
    BY <1>1, <1>2, <1>6, <1>7, LaterOK
  <1> QED BY <1>2, <1>3, <1>8, BecomesKeeps

(* No half answered: there is no pool.                                     *)
LEMMA JoinFailsKeeps ==
    ASSUME SearchInv, NEW s \in Scorers, JoinFails(s)
    PROVE  SearchInv'
  <1> DEFINE q == search[s]
             p == [q EXCEPT !.stage = "failed"]
  <1>1. QueryOK(DOMAIN index, q)
    BY DEF SearchInv
  <1>2. /\ q.stage = "halves" /\ {q.lexical.status, q.dense.status} \subseteq Settled
        /\ \A half \in {q.lexical, q.dense} : half.status # "answered"
        /\ Becomes(s, p) /\ UNCHANGED index
    BY DEF JoinFails, Gathered, Gathers, Settled
  <1>3. Later(p, q) /\ p.stage = "failed" /\ p.pool = q.pool
    BY <1>1 DEF QueryOK, Fields, Unasked, Later
  <1> HIDE DEF p, q
  <1>4. PoolOK(p)
    <2>1. p.pool = <<>> /\ p.lexical = q.lexical /\ p.dense = q.dense
      BY <1>1, <1>2, <1>3 DEF QueryOK, PoolOK, Later
    <2> QED BY <1>2, <1>3, <2>1 DEF PoolOK
  <1>5. QueryOK(DOMAIN index, p)
    BY <1>1, <1>2, <1>3, <1>4, LaterOK
  <1> QED BY <1>2, <1>5, BecomesKeeps

(* After the join, a search only moves on: its pool stays.                 *)
LEMMA MovesOn ==
    ASSUME SearchInv, NEW s \in Scorers, NEW p, Becomes(s, p), UNCHANGED index,
           search[s].stage \in {"rerank", "answered"}, Later(p, search[s]),
           p.pool = search[s].pool,
           \/ p.stage \in {"answered", "noted"}
           \/ p.stage = "failed" /\ search[s].stage = "rerank"
    PROVE  SearchInv'
  <1> DEFINE q == search[s]
  <1>1. QueryOK(DOMAIN index, q)
    BY DEF SearchInv
  <1> HIDE DEF q
  <1>2. Joined(q) /\ {q.lexical.status, q.dense.status} \subseteq Settled
    BY <1>1 DEF QueryOK, PoolOK, StagesOK, q
  <1>3. Joined(p)
    BY <1>2 DEF Joined, Later, q
  <1>4. PoolOK(p)
    BY <1>1, <1>3 DEF QueryOK, PoolOK, Later, q
  <1>5. QueryOK(DOMAIN index, p)
    BY <1>1, <1>2, <1>4, LaterOK DEF q
  <1> QED BY <1>5, BecomesKeeps

(* A search is answered from its pool.                                     *)
LEMMA AnsweredKeeps ==
    ASSUME SearchInv, NEW s \in Scorers, NEW r, Answered(s, r), UNCHANGED index,
           search[s].stage = "rerank"
    PROVE  SearchInv'
  <1> DEFINE q == search[s]
             p == [q EXCEPT !.stage = "answered", !.answer = Capped(r, K)]
  <1>1. DOMAIN q = DOMAIN Unasked
    BY DEF SearchInv, QueryOK, Fields
  <1>2. Later(p, q) /\ p.stage = "answered" /\ p.pool = q.pool
    BY <1>1 DEF Unasked, Later
  <1>3. Becomes(s, p)
    BY DEF Answered
  <1> HIDE DEF p
  <1> QED BY <1>2, <1>3, MovesOn

(* The reranker could not score; the pool stays.                           *)
LEMMA RerankFailsKeeps ==
    ASSUME SearchInv, NEW s \in Scorers, RerankFails(s)
    PROVE  SearchInv'
  <1> DEFINE q == search[s]
             p == [q EXCEPT !.stage = "failed"]
  <1>1. DOMAIN q = DOMAIN Unasked
    BY DEF SearchInv, QueryOK, Fields
  <1>2. Later(p, q) /\ p.stage = "failed" /\ p.pool = q.pool
    BY <1>1 DEF Unasked, Later
  <1>3. Becomes(s, p) /\ q.stage = "rerank" /\ UNCHANGED index
    BY DEF RerankFails
  <1> HIDE DEF p
  <1> QED BY <1>2, <1>3, MovesOn

(* Asking for precedents changes nothing of the search before it.          *)
LEMMA FindSimilarKeeps ==
    ASSUME SearchInv, NEW s \in Scorers, NEW hits, FindSimilar(s, hits)
    PROVE  SearchInv'
  <1> DEFINE q == search[s]
             p == [q EXCEPT !.stage = "noted", !.similar = Precedents(hits)]
  <1>1. DOMAIN q = DOMAIN Unasked
    BY DEF SearchInv, QueryOK, Fields
  <1>2. Later(p, q) /\ p.stage = "noted" /\ p.pool = q.pool
    BY <1>1 DEF Unasked, Later
  <1>3. Becomes(s, p) /\ q.stage = "answered" /\ UNCHANGED index
    BY DEF FindSimilar
  <1> HIDE DEF p
  <1> QED BY <1>2, <1>3, MovesOn

(* No step of a search or of a client of the reranker breaks it.           *)
LEMMA SearchNext ==
    ASSUME SearchInv, [RetrievalNext]_retrievalVars
    PROVE  SearchInv'
  <1>1. ASSUME NEW s \in Scorers, Steps(s) PROVE SearchInv'
    <2>1. CASE \E raw \in Requests :
                 \/ Refuse(s, raw)
                 \/ \E r \in Retrievers, reader \in {"endpoint", "node"} :
                        Retrieve(s, r, reader, raw)
      BY <2>1, RefusedKeeps, RetrieveKeeps
    <2>2. CASE \E r \in Rankings(DOMAIN index, Wanted(s)) :
                 LexicalAnswers(s, r) \/ DenseAnswers(s, r) \/ HypothesisAnswers(s, r)
      BY <2>2, LexicalAnswersKeeps, DenseAnswersKeeps, HypothesisAnswersKeeps
    <2>3. CASE LexicalFails(s) \/ Expand(s) \/ DenseFails(s) \/ Join(s) \/ JoinFails(s)
      BY <2>3, LexicalFailsKeeps, ExpandKeeps, DenseFailsKeeps, JoinKeeps, JoinFailsKeeps
    <2>4. ASSUME NEW r, Blend(s, r) PROVE SearchInv'
      BY <2>4, AnsweredKeeps DEF Blend
    <2>5. CASE Degrade(s)
      BY <2>5, AnsweredKeeps DEF Degrade
    <2>6. CASE RerankFails(s)
      BY <2>6, RerankFailsKeeps
    <2>7. CASE \E hits \in Rankings(DOMAIN index, DEFAULT_CHUNKS) : FindSimilar(s, hits)
      BY <2>7, FindSimilarKeeps
    <2> QED BY <1>1, <2>1, <2>2, <2>3, <2>4, <2>5, <2>6, <2>7 DEF Steps
  <1>2. ASSUME NEW c \in Clients, UsesReranker(c) PROVE SearchInv'
    BY <1>2 DEF UsesReranker, SearchInv
  <1>3. CASE UNCHANGED retrievalVars
    BY <1>3 DEF retrievalVars, SearchInv
  <1> QED BY <1>1, <1>2, <1>3 DEF RetrievalNext

(* The two halves of every search are searched among the same documents,   *)
(* whatever the filters and the index (matches, metadata_condition).       *)
THEOREM FiltersMeanOneThing == RetrievalSpec => []HalvesFilterAlike
  <1>1. SearchInv => HalvesFilterAlike
    <2> SUFFICES ASSUME SearchInv, NEW s \in Scorers,
                        search[s].stage \notin {"unasked", "refused"}
                 PROVE  LET q == search[s]
                            meant == {c \in DOMAIN index : Meant(c[1], q.filters)}
                        IN  /\ LexicalSees(s) = meant /\ DenseSees(s) = meant
                            /\ ToSet(q.lexical.chunks) \cup ToSet(q.dense.chunks) \subseteq meant
                            /\ \A key \in DOMAIN q.filters : q.filters[key] \ {Null} # {}
      BY DEF HalvesFilterAlike
    <2> DEFINE q == search[s]
    <2>1. QueryOK(DOMAIN index, q)
      BY DEF SearchInv
    <2>2. LexicalSees(s) = Reach(DOMAIN index, q) /\ DenseSees(s) = Reach(DOMAIN index, q)
      BY BothSeeTheReach
    <2>3. ToSet(q.lexical.chunks) \cup ToSet(q.dense.chunks) \subseteq Reach(DOMAIN index, q)
      BY <2>1, RankingForm, DepthIsNat DEF QueryOK, HalvesOK
    <2>4. \A key \in DOMAIN q.filters : q.filters[key] \ {Null} # {}
      BY <2>1 DEF QueryOK, StagesOK, Refused, Given
    <2> QED BY <2>2, <2>3, <2>4 DEF Reach
  <1> QED BY <1>1, SearchInit, SearchNext, PTL DEF RetrievalSpec

(* Whatever the halves find, a chunk both found precedes every chunk one   *)
(* of them alone found, and every chunk both found below it                *)
(* (reciprocal_rank_fusion).                                               *)
THEOREM AgreementIsKept == RetrievalSpec => []AgreementWins
  <1>1. SearchInv => AgreementWins
    <2> SUFFICES ASSUME SearchInv, NEW s \in Scorers,
                        search[s].retriever \in Hybrids, search[s].pool # <<>>,
                        NEW c \in ToSet(search[s].lexical.chunks)
                                      \cap ToSet(search[s].dense.chunks),
                        NEW d \in ToSet(search[s].pool), c # d,
                        \/ d \notin ToSet(search[s].lexical.chunks)
                                        \cap ToSet(search[s].dense.chunks)
                        \/ \A r \in {search[s].lexical.chunks, search[s].dense.chunks} :
                               c \in ToSet(r) /\ (d \in ToSet(r) => Place(r, c) < Place(r, d))
                 PROVE  /\ c \in ToSet(search[s].pool)
                        /\ Place(search[s].pool, c) < Place(search[s].pool, d)
      BY DEF AgreementWins
    <2> DEFINE q == search[s]
               a == q.lexical.chunks
               b == q.dense.chunks
               S == Reach(DOMAIN index, q)
    <2>1. QueryOK(DOMAIN index, q)
      BY DEF SearchInv
    <2>2. S \subseteq Nat \X Nat
      BY DEF SearchInv, Reach
    <2>3. a \in Rankings(S, Candidates) /\ b \in Rankings(S, Candidates)
      BY <2>1 DEF QueryOK, HalvesOK, Depth
    <2>4. PICK k \in {Candidates, FetchFor(K)} : q.pool = Fuse(a, b, k)
      BY <2>1 DEF QueryOK, PoolOK, Joined, Hybrids
    <2>5. k \in Nat
      BY <2>4, RetrievalAssumption DEF FetchFor
    <2>6. \/ d \notin ToSet(a) \cap ToSet(b)
          \/ Place(a, c) < Place(a, d) /\ Place(b, c) < Place(b, d)
      OBVIOUS
    <2> HIDE DEF S, a, b, q
    <2>7. /\ c \in ToSet(a) \cap ToSet(b) /\ d \in ToSet(Fuse(a, b, k))
      BY <2>4 DEF a, b, q
    <2> QED BY <2>2, <2>3, <2>4, <2>5, <2>6, <2>7, FusionKeepsAgreement DEF q
  <1> QED BY <1>1, SearchInit, SearchNext, PTL DEF RetrievalSpec

(* A search whose one half answered ranks as that half did.                *)
LEMMA OneHalfRanks ==
    ASSUME SearchInv, NEW s \in Scorers, Joined(search[s]), search[s].stage # "halves",
           NEW h \in {search[s].lexical, search[s].dense}, h.status = "answered",
           \A g \in {search[s].lexical, search[s].dense} : g.status = "answered" => g = h
    PROVE  search[s].pool = First(h.chunks, Len(search[s].pool))
  <1> DEFINE q == search[s]
             a == q.lexical.chunks
             b == q.dense.chunks
             S == Reach(DOMAIN index, q)
             n == Depth(q)
  <1>1. QueryOK(DOMAIN index, q)
    BY DEF SearchInv
  <1>2. S \subseteq Nat \X Nat /\ n \in Nat
    BY DepthIsNat DEF SearchInv, Reach
  <1>3. /\ a \in Rankings(S, n) /\ b \in Rankings(S, n)
        /\ q.lexical.status # "answered" => a = <<>>
        /\ q.dense.status # "answered" => b = <<>>
    BY <1>1 DEF QueryOK, HalvesOK, StagesOK, Settled
  <1>4. h.chunks \in {a, b}
    OBVIOUS
  <1>5. a = b \/ a = <<>> \/ b = <<>>
    BY <1>3
  <1>6. ToSet(h.chunks) = Together(a, b)
    <2>1. ToSet(<<>>) = {}
      BY DEF ToSet
    <2>2. CASE h = q.lexical
      <3>1. b = <<>> \/ b = a
        BY <1>3, <2>2
      <3> QED BY <2>1, <2>2, <3>1 DEF Together
    <2>3. CASE h = q.dense
      <3>1. a = <<>> \/ a = b
        BY <1>3, <2>3
      <3> QED BY <2>1, <2>3, <3>1 DEF Together
    <2> QED BY <2>2, <2>3
  <1>7. CASE q.retriever \in {"bm25", "vector"}
    <2>1. q.pool = h.chunks
      BY <1>1, <1>7 DEF Joined, QueryOK, StagesOK
    <2>2. h.chunks \in Seq(S)
      BY <1>2, <1>3, <1>4, RankingForm
    <2> QED BY <2>1, <2>2 DEF First
  <1>8. CASE q.retriever \notin {"bm25", "vector"}
    <2>1. PICK k \in {Candidates, FetchFor(K)} : q.pool = Fuse(a, b, k)
      BY <1>8 DEF Joined
    <2>2. k \in Nat
      BY <2>1, RetrievalAssumption DEF FetchFor
    <2> HIDE DEF S, a, b, n, q
    <2>3. Fuse(a, b, k) = First(h.chunks, Len(Fuse(a, b, k)))
      BY <1>2, <1>3, <1>4, <1>5, <1>6, <2>2, FuseAlone
    <2> QED BY <2>1, <2>3 DEF q
  <1> QED BY <1>7, <1>8

(* Where one half answered and the other did not, the pool is what it found, *)
(* in its order; only where neither did is there no pool (the gather with    *)
(* return_exceptions in HybridRetriever.retrieve).                           *)
THEOREM OneHalfSuffices == RetrievalSpec => []HalfIsEnough
  <1>1. SearchInv => HalfIsEnough
    <2> SUFFICES ASSUME SearchInv, NEW s \in Scorers
                 PROVE  LET q == search[s]
                            alive == {h \in {q.lexical, q.dense} : h.status = "answered"}
                        IN  /\ Over(s) => alive # {}
                            /\ q.stage = "failed" /\ q.pool = <<>> => alive = {}
                            /\ /\ q.stage \notin {"unasked", "halves", "failed"}
                               /\ Cardinality(alive) = 1
                               => \A h \in alive : q.pool = First(h.chunks, Len(q.pool))
      BY DEF HalfIsEnough
    <2> DEFINE q == search[s]
               alive == {h \in {q.lexical, q.dense} : h.status = "answered"}
    <2>1. QueryOK(DOMAIN index, q)
      BY DEF SearchInv
    <2>2. Over(s) => alive # {}
      BY <2>1 DEF Over, QueryOK, PoolOK, Joined
    <2>3. q.stage = "failed" /\ q.pool = <<>> => alive = {}
      BY <2>1 DEF QueryOK, PoolOK
    <2>4. ASSUME q.stage \notin {"unasked", "halves", "failed"}, Cardinality(alive) = 1,
                 NEW h \in alive
          PROVE  q.pool = First(h.chunks, Len(q.pool))
      <3>1. IsFiniteSet(alive)
        <4>1. IsFiniteSet({q.lexical, q.dense})
          <5>1. {q.lexical, q.dense} = {q.lexical} \cup {q.dense}
            OBVIOUS
          <5>2. IsFiniteSet({q.lexical})
            BY FS_Singleton
          <5>3. IsFiniteSet({q.lexical} \cup {q.dense})
            BY <5>2, FS_AddElement
          <5> QED BY <5>1, <5>3
        <4> QED BY <4>1, FS_Subset
      <3>2. \A g \in alive : g = h
        <4>1. PICK x : alive = {x}
          BY <2>4, <3>1, FS_Singleton
        <4> QED BY <4>1
      <3>3. q.stage # "refused"
        BY <2>1 DEF QueryOK, StagesOK
      <3>4. Joined(q)
        BY <2>1, <2>4, <3>3 DEF QueryOK, PoolOK
      <3> QED BY <2>4, <3>2, <3>4, OneHalfRanks
    <2> QED BY <2>2, <2>3, <2>4
  <1> QED BY <1>1, SearchInit, SearchNext, PTL DEF RetrievalSpec

----------------------------------------------------------------------------
(* Numbers and folds.                                                      *)

(* A set of numbers has a least one (Min is CHOOSE).                       *)
LEMMA LeastIsThere ==
    ASSUME NEW N, N \subseteq Nat, N # {}
    PROVE  Min(N) \in N /\ \A n \in N : Min(N) <= n
  <1>1. PICK m \in N : \A n \in N : <<n, m>> \notin OpToRel(<, Nat)
    BY WFMin, NatLessThanWellFounded
  <1>2. ASSUME NEW n \in N PROVE m <= n
    <2>1. m \in Nat /\ n \in Nat
      OBVIOUS
    <2>2. n < m => <<n, m>> \in OpToRel(<, Nat)
      BY <2>1, Zenon DEF OpToRel
    <2>3. ~ n < m
      BY <1>1, <2>2, Zenon
    <2> QED BY <2>1, <2>3
  <1> QED BY <1>2 DEF Min

(* What holds of 0 and of the next number holds of every number.           *)
LEMMA ForEveryNumber ==
    ASSUME NEW N, 0 \in N, \A n \in Nat : n \in N => n + 1 \in N
    PROVE  Nat \subseteq N
  <1> DEFINE T == Nat \ N
  <1> SUFFICES ASSUME T # {} PROVE FALSE
    OBVIOUS
  <1>1. T \subseteq Nat
    OBVIOUS
  <1> DEFINE m == Min(T)
  <1>2. m \in T /\ \A i \in T : m <= i
    <2> HIDE DEF T
    <2> QED BY <1>1, LeastIsThere
  <1> HIDE DEF m
  <1>3. m \in Nat /\ m # 0 /\ m - 1 \in Nat /\ ~ m <= m - 1
    BY <1>2
  <1>4. m - 1 \in N
    BY <1>2, <1>3
  <1>5. (m - 1) + 1 \in N
    BY <1>3, <1>4
  <1> QED BY <1>2, <1>3, <1>5

(* A set of places has a last one (Max is CHOOSE).                         *)
LEMMA LastIsThere ==
    ASSUME NEW n \in Nat, NEW S \in SUBSET (1..n), S # {}
    PROVE  Max(S) \in S /\ \A i \in S : Max(S) >= i
  <1> DEFINE N == {n - i : i \in S}
  <1>1. \A i \in S : i \in Nat /\ n - i \in Nat
    OBVIOUS
  <1>0. N \subseteq Nat /\ N # {}
    BY <1>1
  <1>2. Min(N) \in N /\ \A m \in N : Min(N) <= m
    <2> HIDE DEF N
    <2> QED BY <1>0, LeastIsThere
  <1>3. PICK i \in S : Min(N) = n - i
    BY <1>2
  <1>4. ASSUME NEW j \in S PROVE i >= j
    <2>1. n - j \in N
      OBVIOUS
    <2>2. n - i <= n - j /\ i \in Nat /\ j \in Nat
      BY <1>1, <1>2, <1>3, <2>1
    <2> QED BY <2>2
  <1> QED BY <1>4 DEF Max

(* A fold over n places, with a step F[i] at place i, is a recursive        *)
(* function on the sets of places.                                         *)
StepsOn(n, A) == [1..n -> [A -> A]]

FoldsBy(h, n, A, base, F) ==
    /\ h[{}] = base
    /\ \A s \in SUBSET (1..n) :
           s # {} /\ h[s \ {Max(s)}] \in A => h[s] = F[Max(s)][h[s \ {Max(s)}]]

(* Such a function exists.                                                 *)
LEMMA FoldExists ==
    ASSUME NEW n \in Nat, NEW A, NEW base \in A, NEW F \in StepsOn(n, A)
    PROVE  \E g \in [SUBSET (1..n) -> A] : FoldsBy(g, n, A, base, F)
  <1> DEFINE Solves(g, m) == /\ g \in [SUBSET (1..m) -> A]
                             /\ \A s \in SUBSET (1..m) :
                                    g[s] = IF s = {} THEN base ELSE F[Max(s)][g[s \ {Max(s)}]]
             Solved(m) == m <= n => \E g : Solves(g, m)
             N == {m \in Nat : Solved(m)}
  <1>1. 0 \in N
    <2>1. SUBSET (1..0) = {{}}
      OBVIOUS
    <2>2. Solves([s \in SUBSET (1..0) |-> base], 0)
      BY <2>1
    <2> QED BY <2>2
  <1>2. ASSUME NEW m \in Nat, Solved(m), m + 1 <= n PROVE \E h : Solves(h, m + 1)
    <2>0. m <= n /\ m + 1 \in 1..n
      BY <1>2
    <2>1. PICK g : Solves(g, m)
      BY <1>2, <2>0
    <2> DEFINE h == [s \in SUBSET (1..(m + 1)) |->
                         IF m + 1 \in s THEN F[m + 1][g[s \ {m + 1}]] ELSE g[s]]
    <2>2. F[m + 1] \in [A -> A]
      BY <2>0 DEF StepsOn
    <2>3. \A s \in SUBSET (1..(m + 1)) : s \ {m + 1} \in SUBSET (1..m)
      OBVIOUS
    <2>4. h \in [SUBSET (1..(m + 1)) -> A]
      BY <2>1, <2>2, <2>3
    <2>5. ASSUME NEW s \in SUBSET (1..(m + 1)), s # {}
          PROVE  h[s] = F[Max(s)][h[s \ {Max(s)}]]
      <3>1. Max(s) \in s /\ \A i \in s : Max(s) >= i
        <4>1. m + 1 \in Nat
          OBVIOUS
        <4> QED BY <2>5, <4>1, LastIsThere
      <3>2. s \ {Max(s)} \in SUBSET (1..(m + 1))
        OBVIOUS
      <3>3. CASE m + 1 \in s
        <4>0. Max(s) \in 1..(m + 1) /\ Max(s) >= m + 1
          BY <3>1, <3>3
        <4>1. Max(s) = m + 1
          BY <4>0
        <4>2. h[s \ {m + 1}] = g[s \ {m + 1}]
          BY <3>2, <4>1
        <4>3. h[s] = F[m + 1][g[s \ {m + 1}]]
          BY <3>3
        <4> QED BY <4>1, <4>2, <4>3
      <3>4. CASE m + 1 \notin s
        <4>1. s \in SUBSET (1..m) /\ m + 1 \notin s \ {Max(s)}
          BY <3>4
        <4>2. h[s] = g[s] /\ h[s \ {Max(s)}] = g[s \ {Max(s)}]
          BY <3>2, <3>4, <4>1
        <4>3. g[s] = F[Max(s)][g[s \ {Max(s)}]]
          BY <2>1, <2>5, <4>1
        <4> QED BY <4>2, <4>3
      <3> QED BY <3>3, <3>4
    <2>6. h[{}] = base
      BY <2>1
    <2> HIDE DEF h
    <2>7. Solves(h, m + 1)
      BY <2>4, <2>5, <2>6
    <2> QED BY <2>7
  <1>3. \A m \in Nat : m \in N => m + 1 \in N
    <2> HIDE DEF Solves
    <2> QED BY <1>2
  <1>4. n \in N
    <2> HIDE DEF N
    <2> QED BY <1>1, <1>3, ForEveryNumber
  <1>5. \E g : Solves(g, n)
    <2> HIDE DEF Solves
    <2> QED BY <1>4
  <1> QED BY <1>5 DEF FoldsBy

(* One step after the other.                                               *)
Runs(x, n, A, base, F) ==
    /\ x \in [0..n -> A] /\ x[0] = base
    /\ \A i \in 1..n : x[i] = F[i][x[i - 1]]

(* Along the places of a sequence, a fold takes one step after the other.  *)
LEMMA FoldRuns ==
    ASSUME NEW n \in Nat, NEW A, NEW base \in A, NEW F \in StepsOn(n, A),
           NEW h, FoldsBy(h, n, A, base, F)
    PROVE  \E x : Runs(x, n, A, base, F) /\ x[n] = h[1..n]
  <1> DEFINE x == [i \in 0..n |-> h[1..i]]
             Right(i) == i <= n => x[i] \in A
             N == {i \in Nat : Right(i)}
  <1>1. x[0] = base /\ x[n] = h[1..n]
    <2>1. 1..0 = {} /\ 0 \in 0..n /\ n \in 0..n
      OBVIOUS
    <2> QED BY <2>1 DEF FoldsBy
  <1>2. ASSUME NEW i \in 1..n, x[i - 1] \in A PROVE x[i] = F[i][x[i - 1]]
    <2>0. i \in Nat /\ i - 1 \in 0..n /\ i \in 0..n
      OBVIOUS
    <2>1. 1..i \in SUBSET (1..n) /\ i \in 1..i /\ (1..i) \ {i} = 1..(i - 1)
      <3> SUFFICES ASSUME NEW j \in 1..i PROVE j \in 1..n
        BY <2>0
      <3> QED BY <2>0
    <2>2. Max(1..i) = i
      <3>1. Max(1..i) \in 1..i /\ Max(1..i) >= i
        BY <2>1, LastIsThere
      <3> QED BY <3>1
    <2>3. x[i] = h[1..i] /\ x[i - 1] = h[1..(i - 1)]
      BY <2>0
    <2> QED BY <1>2, <2>1, <2>2, <2>3 DEF FoldsBy
  <1>3. ASSUME NEW i \in Nat, Right(i), i + 1 <= n PROVE x[i + 1] \in A
    <2>1. i + 1 \in 1..n /\ (i + 1) - 1 = i /\ i <= n
      BY <1>3
    <2>2. x[i + 1] = F[i + 1][x[i]] /\ x[i] \in A
      BY <1>2, <1>3, <2>1
    <2>3. F[i + 1] \in [A -> A]
      BY <2>1 DEF StepsOn
    <2> QED BY <2>2, <2>3
  <1>4. 0 \in N
    BY <1>1
  <1>5. \A i \in Nat : i \in N => i + 1 \in N
    <2> HIDE DEF x
    <2> QED BY <1>3
  <1>6. \A i \in 0..n : x[i] \in A
    <2> HIDE DEF x
    <2>1. Nat \subseteq N
      <3> HIDE DEF N
      <3> QED BY <1>4, <1>5, ForEveryNumber
    <2> QED BY <2>1
  <1>7. x \in [0..n -> A]
    BY <1>6
  <1>8. \A i \in 1..n : i - 1 \in 0..n
    OBVIOUS
  <1> HIDE DEF x
  <1> QED BY <1>1, <1>2, <1>6, <1>7, <1>8 DEF Runs

----------------------------------------------------------------------------
(* The cap on chunks of one document.                                      *)

(* What the cap keeps after so many chunks of a ranking.                   *)
Keep(kept, c, k) ==
    IF Len(kept) < k /\ Taken(kept, c[1]) < MaxPerDocument THEN Append(kept, c) ELSE kept

(* It goes through the ranking chunk by chunk.                             *)
LEMMA CappedStepByStep ==
    ASSUME NEW S, NEW r \in Seq(S), NEW k \in Nat, MaxPerDocument # 0
    PROVE  \E kept \in [0..Len(r) -> Seq(S)] :
             /\ kept[0] = <<>> /\ kept[Len(r)] = Capped(r, k)
             /\ \A i \in 1..Len(r) : kept[i] = Keep(kept[i - 1], r[i], k)
  <1> DEFINE n == Len(r)
             A == Seq(S)
             empty == <<>>
             F == [i \in 1..n |-> [a \in A |-> Keep(a, r[i], k)]]
             Folds(h) == h = [s \in SUBSET (1..n) |->
                                  IF s = {} THEN empty
                                  ELSE Keep(h[s \ {Max(s)}], r[Max(s)], k)]
             fold == CHOOSE h : Folds(h)
  <1>1. n \in Nat /\ DOMAIN r = 1..n /\ \A i \in 1..n : r[i] \in S
    OBVIOUS
  <1>2. Capped(r, k) = fold[1..n]
    BY <1>1 DEF Capped, FoldLeft, MapThenFoldSet, Keep
  <1> HIDE DEF n
  <1>3. F \in StepsOn(n, A) /\ empty \in A
    <2>1. \A a \in A, i \in 1..n : Keep(a, r[i], k) \in A
      BY <1>1 DEF Keep
    <2>2. F \in [1..n -> [A -> A]]
      <3> HIDE DEF A
      <3> QED BY <2>1
    <2> QED BY <2>2 DEF StepsOn
  <1>4. \A s \in SUBSET (1..n) : s # {} => Max(s) \in 1..n
    BY <1>1, LastIsThere
  <1>5. \A i \in 1..n : \A a \in A : F[i][a] = Keep(a, r[i], k)
    OBVIOUS
  <1>6. PICK g \in [SUBSET (1..n) -> A] : FoldsBy(g, n, A, empty, F)
    <2> HIDE DEF F, A, empty
    <2> QED BY <1>1, <1>3, FoldExists
  <1> HIDE DEF F, A, empty
  <1>7. Folds(fold)
    <2>1. Folds(g)
      BY <1>4, <1>5, <1>6 DEF FoldsBy
    <2> QED BY <2>1
  <1> HIDE DEF fold
  <1>8. FoldsBy(fold, n, A, empty, F)
    BY <1>4, <1>5, <1>7 DEF FoldsBy
  <1>9. PICK x : Runs(x, n, A, empty, F) /\ x[n] = fold[1..n]
    BY <1>1, <1>3, <1>8, FoldRuns
  <1>10. x \in [0..n -> A] /\ x[0] = empty /\ x[n] = fold[1..n]
    BY <1>9 DEF Runs
  <1>11. \A i \in 1..n : x[i] = Keep(x[i - 1], r[i], k)
    <2>1. \A i \in 1..n : i - 1 \in 0..n
      BY <1>1
    <2> QED BY <1>5, <1>9, <1>10, <2>1 DEF Runs
  <1> QED BY <1>2, <1>10, <1>11 DEF n, A, empty

(* Chunks of a document in a sequence, and in one that is longer by one.   *)
LEMMA TakenIsCount ==
    ASSUME NEW S, NEW r \in Seq(S), NEW d
    PROVE  /\ Taken(r, d) \in Nat /\ Taken(<<>>, d) = 0
           /\ \A c : Taken(Append(r, c), d) = IF c[1] = d THEN Taken(r, d) + 1 ELSE Taken(r, d)
  <1> DEFINE P == {i \in DOMAIN r : r[i][1] = d}
  <1>1. Len(r) \in Nat /\ DOMAIN r = 1..Len(r)
    OBVIOUS
  <1>2. IsFiniteSet(P) /\ Cardinality(P) \in Nat
    <2>1. IsFiniteSet(1..Len(r)) /\ P \in SUBSET (1..Len(r))
      BY <1>1, FS_Interval
    <2> QED BY <2>1, FS_Subset, FS_CardinalityType
  <1>3. Taken(<<>>, d) = 0
    <2>1. {i \in DOMAIN <<>> : <<>>[i][1] = d} = {}
      OBVIOUS
    <2> QED BY <2>1, FS_EmptySet DEF Taken
  <1>4. ASSUME NEW c
        PROVE  Taken(Append(r, c), d) = IF c[1] = d THEN Taken(r, d) + 1 ELSE Taken(r, d)
    <2> DEFINE m == Len(r) + 1
               more == Append(r, c)
    <2>1. DOMAIN more = 1..m /\ more[m] = c /\ \A i \in 1..Len(r) : more[i] = r[i]
      BY <1>1
    <2>2. m \notin P
      BY <1>1
    <2>3. {i \in DOMAIN more : more[i][1] = d} = IF c[1] = d THEN P \cup {m} ELSE P
      BY <1>1, <2>1
    <2> HIDE DEF P, more
    <2> QED BY <1>2, <2>2, <2>3, FS_AddElement DEF Taken, P, more
  <1> QED BY <1>2, <1>3, <1>4 DEF Taken

(* After i chunks: none twice, none too many of a document, none that was  *)
(* not among them, and none left out without reason.                       *)
CapHolds(kept, r, i, k) ==
    /\ Len(kept) <= k
    /\ \A a, b \in DOMAIN kept : kept[a] = kept[b] => a = b
    /\ \A a \in DOMAIN kept : \E j \in 1..i : kept[a] = r[j]
    /\ \A d : Taken(kept, d) <= MaxPerDocument
    /\ \A j \in 1..i : \/ \E a \in DOMAIN kept : kept[a] = r[j]
                       \/ Len(kept) = k
                       \/ Taken(kept, r[j][1]) = MaxPerDocument

(* One more chunk.                                                         *)
LEMMA KeepHolds ==
    ASSUME NEW S, NEW r \in Seq(S), \A a, b \in DOMAIN r : r[a] = r[b] => a = b,
           NEW k \in Nat, NEW i \in 1..Len(r), NEW kept \in Seq(S),
           CapHolds(kept, r, i - 1, k), MaxPerDocument # 0
    PROVE  CapHolds(Keep(kept, r[i], k), r, i, k)
  <1>0. /\ Len(r) \in Nat /\ DOMAIN r = 1..Len(r) /\ r[i] \in S /\ i \in Nat
        /\ MaxPerDocument \in Nat /\ Len(kept) \in Nat /\ DOMAIN kept = 1..Len(kept)
    <2>1. Len(r) \in Nat /\ DOMAIN r = 1..Len(r) /\ r[i] \in S /\ i \in Nat
      OBVIOUS
    <2>2. Len(kept) \in Nat /\ DOMAIN kept = 1..Len(kept)
      OBVIOUS
    <2>3. MaxPerDocument \in Nat
      BY RetrievalAssumption
    <2> QED BY <2>1, <2>2, <2>3
  <1>1. \A j \in 1..i : j = i \/ j \in 1..(i - 1)
    BY <1>0
  <1>2. \A j \in 1..(i - 1) : j \in 1..i /\ j \in DOMAIN r /\ r[j] # r[i]
    BY <1>0
  <1>3. \A d : Taken(kept, d) \in Nat
    BY TakenIsCount
  <1> DEFINE t == Taken(kept, r[i][1])
  <1>6. t \in Nat /\ t <= MaxPerDocument /\ Len(kept) <= k
    BY <1>3 DEF CapHolds
  <1>4. CASE ~ (Len(kept) < k /\ Taken(kept, r[i][1]) < MaxPerDocument)
    <2>1. Keep(kept, r[i], k) = kept
      BY <1>4 DEF Keep
    <2>2. Len(kept) = k \/ Taken(kept, r[i][1]) = MaxPerDocument
      <3> HIDE DEF t
      <3>1. ~ (Len(kept) < k /\ t < MaxPerDocument)
        BY <1>4 DEF t
      <3>2. Len(kept) = k \/ t = MaxPerDocument
        <4>1. \A a, b \in Nat : a <= b => a < b \/ a = b
          OBVIOUS
        <4>2. k \in Nat /\ Len(kept) \in Nat /\ MaxPerDocument \in Nat
          BY <1>0
        <4> QED BY <1>6, <3>1, <4>1, <4>2, Zenon
      <3> QED BY <3>2 DEF t
    <2> QED BY <1>1, <1>2, <2>1, <2>2 DEF CapHolds
  <1>5. CASE Len(kept) < k /\ Taken(kept, r[i][1]) < MaxPerDocument
    <2> DEFINE more == Append(kept, r[i])
               m == Len(kept) + 1
    <2>1. Keep(kept, r[i], k) = more
      BY <1>5 DEF Keep
    <2>2. /\ Len(more) = m /\ DOMAIN more = 1..m /\ more[m] = r[i] /\ m \in DOMAIN more
          /\ \A a \in DOMAIN kept : more[a] = kept[a] /\ a \in DOMAIN more
          /\ \A a \in DOMAIN more : a = m \/ a \in DOMAIN kept
      BY <1>0
    <2>3. \A d : Taken(more, d) = IF r[i][1] = d THEN Taken(kept, d) + 1 ELSE Taken(kept, d)
      BY <1>0, TakenIsCount
    <2> HIDE DEF more
    <2>4. \A d : Taken(more, d) <= MaxPerDocument
      <3> SUFFICES ASSUME NEW d PROVE Taken(more, d) <= MaxPerDocument
        OBVIOUS
      <3>1. CASE r[i][1] = d
        <4>1. Taken(more, d) = t + 1 /\ t < MaxPerDocument
          BY <1>5, <2>3, <3>1
        <4> HIDE DEF t
        <4> QED BY <1>0, <1>6, <4>1
      <3>2. CASE r[i][1] # d
        BY <2>3, <3>2 DEF CapHolds
      <3> QED BY <3>1, <3>2
    <2>5. \A a \in DOMAIN kept : kept[a] # r[i]
      BY <1>2 DEF CapHolds
    <2>6. \A a, b \in DOMAIN more : more[a] = more[b] => a = b
      BY <2>2, <2>5 DEF CapHolds
    <2>7. \A a \in DOMAIN more : \E j \in 1..i : more[a] = r[j]
      <3>1. more[m] = r[i] /\ i \in 1..i
        BY <1>0, <2>2
      <3>2. \A a \in DOMAIN kept : \E j \in 1..i : more[a] = r[j]
        BY <1>2, <2>2 DEF CapHolds
      <3> QED BY <2>2, <3>1, <3>2
    <2>8. ASSUME NEW j \in 1..i
          PROVE  \/ \E a \in DOMAIN more : more[a] = r[j]
                 \/ Len(more) = k
                 \/ Taken(more, r[j][1]) = MaxPerDocument
      <3>1. CASE j = i
        BY <2>2, <3>1
      <3>2. CASE j \in 1..(i - 1)
        <4>1. CASE \E a \in DOMAIN kept : kept[a] = r[j]
          BY <2>2, <4>1
        <4>2. CASE Taken(kept, r[j][1]) = MaxPerDocument
          <5>1. r[j][1] # r[i][1]
            BY <1>0, <1>5, <4>2
          <5> QED BY <2>3, <4>2, <5>1
        <4>3. Len(kept) # k
          <5>1. Len(kept) \in Nat /\ k \in Nat /\ Len(kept) < k
            BY <1>0, <1>5
          <5>2. \A a, b \in Nat : a < b => a # b
            OBVIOUS
          <5> QED BY <5>1, <5>2
        <4> QED BY <3>2, <4>1, <4>2, <4>3 DEF CapHolds
      <3> QED BY <1>1, <3>1, <3>2
    <2>9. Len(more) <= k
      BY <1>0, <1>5, <2>2
    <2> QED BY <2>1, <2>4, <2>6, <2>7, <2>8, <2>9 DEF CapHolds
  <1> QED BY <1>4, <1>5

(* The capped selection.                                                   *)
LEMMA CapIsSound ==
    ASSUME NEW S, NEW r \in Seq(S), \A a, b \in DOMAIN r : r[a] = r[b] => a = b,
           NEW k \in Nat, MaxPerDocument # 0
    PROVE  Capped(r, k) \in Seq(S) /\ CapHolds(Capped(r, k), r, Len(r), k)
  <1> DEFINE n == Len(r)
  <1>1. PICK kept \in [0..n -> Seq(S)] :
             /\ kept[0] = <<>> /\ kept[n] = Capped(r, k)
             /\ \A i \in 1..n : kept[i] = Keep(kept[i - 1], r[i], k)
    BY CappedStepByStep
  <1> DEFINE Right(i) == i <= n => CapHolds(kept[i], r, i, k)
             N == {i \in Nat : Right(i)}
  <1>2. CapHolds(<<>>, r, 0, k)
    <2>1. /\ Len(<<>>) = 0 /\ DOMAIN <<>> = {} /\ 1..0 = {} /\ MaxPerDocument \in Nat
          /\ \A d : Taken(<<>>, d) = 0
      BY TakenIsCount, RetrievalAssumption
    <2> QED BY <2>1 DEF CapHolds
  <1>3. ASSUME NEW i \in Nat, Right(i), i + 1 <= n PROVE CapHolds(kept[i + 1], r, i + 1, k)
    <2>1. i + 1 \in 1..n /\ (i + 1) - 1 = i /\ i <= n /\ i \in 0..n
      BY <1>3
    <2>2. kept[i + 1] = Keep(kept[i], r[i + 1], k) /\ kept[i] \in Seq(S)
      BY <1>1, <2>1
    <2>3. CapHolds(kept[i], r, i, k)
      BY <1>3, <2>1
    <2> QED BY <2>1, <2>2, <2>3, KeepHolds
  <1>4. 0 \in N
    BY <1>1, <1>2
  <1>5. \A i \in Nat : i \in N => i + 1 \in N
    BY <1>3
  <1>6. n \in N /\ n \in 0..n
    <2> HIDE DEF N
    <2> QED BY <1>4, <1>5, ForEveryNumber
  <1> QED BY <1>1, <1>6

(* If of every document there are at most m times as many chunks in the    *)
(* ranking as were kept, so there are in all.                              *)
LEMMA CountByDocument ==
    ASSUME NEW S, NEW n \in Nat, NEW r \in Rankings(S, n), NEW kept \in Seq(S), NEW m \in Nat,
           \A d : Cardinality({c \in ToSet(r) : c[1] = d}) <= m * Taken(kept, d)
    PROVE  Len(r) <= m * Len(kept)
  <1> DEFINE all == {c[1] : c \in ToSet(r)}
             R(D) == {c \in ToSet(r) : c[1] \in D}
             P(D) == {i \in DOMAIN kept : kept[i][1] \in D}
             Counts(D) == Cardinality(R(D)) <= m * Cardinality(P(D))
             N == {k \in Nat : \A D \in SUBSET all : Cardinality(D) = k => Counts(D)}
  <1>1. IsFiniteSet(ToSet(r)) /\ Cardinality(ToSet(r)) = Len(r)
    BY RankingIsFinite
  <1>2. IsFiniteSet(DOMAIN kept) /\ Cardinality(DOMAIN kept) = Len(kept)
    <2>1. DOMAIN kept = 1..Len(kept) /\ Len(kept) \in Nat
      OBVIOUS
    <2>2. \A l \in Nat : IsFiniteSet(1..l) /\ Cardinality(1..l) = l
      BY FS_Interval
    <2> QED BY <2>1, <2>2
  <1>3. IsFiniteSet(all)
    <2>1. [c \in ToSet(r) |-> c[1]] \in Surjection(ToSet(r), all)
      BY DEF Surjection
    <2> HIDE DEF all
    <2> QED BY <1>1, <2>1, FS_Surjection
  <1>4. ASSUME NEW D
        PROVE  /\ IsFiniteSet(R(D)) /\ Cardinality(R(D)) \in Nat
               /\ IsFiniteSet(P(D)) /\ Cardinality(P(D)) \in Nat
    <2>1. R(D) \in SUBSET ToSet(r) /\ P(D) \in SUBSET DOMAIN kept
      OBVIOUS
    <2> HIDE DEF R, P
    <2> QED BY <1>1, <1>2, <2>1, FS_Subset, FS_CardinalityType
  <1>5. 0 \in N
    <2> SUFFICES ASSUME NEW D \in SUBSET all, Cardinality(D) = 0 PROVE Counts(D)
      OBVIOUS
    <2>1. D = {}
      <3> HIDE DEF all
      <3> QED BY <1>3, FS_Subset, FS_EmptySet
    <2>2. R(D) = {} /\ P(D) = {}
      BY <2>1
    <2> HIDE DEF R, P, all
    <2>3. Cardinality({}) = 0 /\ 0 <= m * 0
      BY FS_EmptySet
    <2> QED BY <2>2, <2>3
  <1>6. ASSUME NEW k \in Nat, k \in N PROVE k + 1 \in N
    <2> SUFFICES ASSUME NEW D \in SUBSET all, Cardinality(D) = k + 1 PROVE Counts(D)
      OBVIOUS
    <2>1. IsFiniteSet(D) /\ D # {}
      <3> HIDE DEF all, Counts, N
      <3> QED BY <1>3, FS_Subset, FS_EmptySet
    <2>2. PICK d \in D : TRUE
      BY <2>1
    <2> DEFINE E == D \ {d}
    <2>3. Counts(E)
      <3>1. E \in SUBSET all
        OBVIOUS
      <3>2. Cardinality(E) = (k + 1) - 1
        <4> HIDE DEF all, Counts, N
        <4> QED BY <2>1, FS_RemoveElement
      <3>3. Cardinality(E) = k
        BY <3>2
      <3> HIDE DEF all, Counts, E
      <3> QED BY <1>6, <3>1, <3>3
    <2>4. /\ R(D) = R(E) \cup R({d}) /\ R(E) \cap R({d}) = {}
          /\ P(D) = P(E) \cup P({d}) /\ P(E) \cap P({d}) = {}
      OBVIOUS
    <2>5. Cardinality(R({d})) <= m * Cardinality(P({d}))
      <3>1. R({d}) = {c \in ToSet(r) : c[1] = d} /\ P({d}) = {i \in DOMAIN kept : kept[i][1] = d}
        OBVIOUS
      <3> HIDE DEF R, P
      <3> QED BY <3>1 DEF Taken
    <2> HIDE DEF R, P, E
    <2>6. /\ Cardinality(R(D)) = Cardinality(R(E)) + Cardinality(R({d}))
          /\ Cardinality(P(D)) = Cardinality(P(E)) + Cardinality(P({d}))
      <3>1. Cardinality({}) = 0
        BY FS_EmptySet
      <3>2. \A A, B : IsFiniteSet(A) /\ IsFiniteSet(B) /\ A \cap B = {} =>
                Cardinality(A \cup B) = Cardinality(A) + Cardinality(B)
        <4> SUFFICES ASSUME NEW A, NEW B, IsFiniteSet(A), IsFiniteSet(B), A \cap B = {}
                     PROVE  Cardinality(A \cup B) = Cardinality(A) + Cardinality(B)
          OBVIOUS
        <4>1. Cardinality(A \cup B) = Cardinality(A) + Cardinality(B) - Cardinality(A \cap B)
          BY FS_Union
        <4>2. Cardinality(A) \in Nat /\ Cardinality(B) \in Nat
          BY FS_CardinalityType
        <4>3. Cardinality(A \cap B) = 0
          BY <3>1
        <4> QED BY <4>1, <4>2, <4>3
      <3> QED BY <1>4, <2>4, <3>2
    <2>7. \A x, y, u, v \in Nat : x <= m * u /\ y <= m * v => x + y <= m * (u + v)
      <3> SUFFICES ASSUME NEW x \in Nat, NEW y \in Nat, NEW u \in Nat, NEW v \in Nat,
                          x <= m * u, y <= m * v
                   PROVE  x + y <= m * (u + v)
        OBVIOUS
      <3>1. m * (u + v) = m * u + m * v /\ m * u \in Nat /\ m * v \in Nat
        OBVIOUS
      <3> QED BY <3>1
    <2> QED BY <1>4, <2>3, <2>5, <2>6, <2>7
  <1>7. Counts(all)
    <2>1. \A k \in Nat : k \in N
      <3> HIDE DEF N
      <3> QED BY <1>5, <1>6, ForEveryNumber
    <2>2. Cardinality(all) \in Nat
      BY <1>3, FS_CardinalityType
    <2> HIDE DEF all, Counts
    <2> QED BY <2>1, <2>2
  <1>8. R(all) = ToSet(r) /\ P(all) \in SUBSET DOMAIN kept
    OBVIOUS
  <1> HIDE DEF R, P, all
  <1>9. Cardinality(P(all)) <= Len(kept) /\ Cardinality(P(all)) \in Nat
    BY <1>2, <1>4, <1>8, FS_Subset
  <1>10. Len(r) <= m * Cardinality(P(all))
    BY <1>1, <1>7, <1>8
  <1>11. \A a, b, l \in Nat : l <= m * a /\ a <= b => l <= m * b
    <2> SUFFICES ASSUME NEW a \in Nat, NEW b \in Nat, NEW l \in Nat, l <= m * a, a <= b
                 PROVE  l <= m * b
      OBVIOUS
    <2>1. PICK e \in Nat : b = a + e
      <3>1. b - a \in Nat /\ b = a + (b - a)
        OBVIOUS
      <3> QED BY <3>1
    <2>2. m * (a + e) = m * a + m * e /\ m * a \in Nat /\ m * e \in Nat
      OBVIOUS
    <2> QED BY <2>1, <2>2
  <1>12. Len(r) \in Nat /\ Len(kept) \in Nat
    BY RankingForm
  <1> QED BY <1>9, <1>10, <1>11, <1>12

----------------------------------------------------------------------------
(* What a search is answered from.                                         *)

(* What the halves found for a search.                                     *)
Proposed(q) == ToSet(q.lexical.chunks) \cup ToSet(q.dense.chunks)

(* What a search is answered from: a ranking of what was proposed, and of  *)
(* all of it unless it is as long as the cap may need.                     *)
Offered(ids, q, r) ==
    /\ \E n \in Nat : r \in Rankings(Reach(ids, q), n)
    /\ ToSet(r) \subseteq Proposed(q)
    /\ FetchFor(K) <= Candidates => ToSet(r) = Proposed(q) \/ FetchFor(K) <= Len(r)

(* A fusion leaves nothing out but what does not fit.                      *)
LeavesOut(f, T, k) == ToSet(f) \subseteq T /\ (ToSet(f) = T \/ Len(f) = k)

(* So fuses Fuse.                                                         *)
LEMMA FuseKeepsAll ==
    ASSUME NEW S, S \subseteq Nat \X Nat, NEW n \in Nat,
           NEW a \in Rankings(S, n), NEW b \in Rankings(S, n), NEW k \in Nat
    PROVE  LeavesOut(Fuse(a, b, k), Together(a, b), k)
  <1> DEFINE r == Fused(a, b)
             f == First(r, k)
  <1>1. r \in SetToSeqs(Together(a, b))
    BY FusedIsTheLine
  <1>2. PICK m \in Nat : DOMAIN r = 1..m /\ r \in [1..m -> Together(a, b)] /\ Len(r) = m
    BY <1>1, LineForm
  <1>3. ToSet(r) = Together(a, b)
    BY <1>1, LineForm
  <1> HIDE DEF r
  <1>4. r \in Seq(Together(a, b))
    BY <1>2
  <1>5. /\ Len(f) = (IF k < m THEN k ELSE m)
        /\ \A i \in 1..Len(f) : f[i] = r[i]
        /\ DOMAIN f = 1..Len(f)
    BY <1>2, <1>4, FirstForm
  <1> HIDE DEF f
  <1>6. ToSet(f) \subseteq ToSet(r)
    BY <1>2, <1>5 DEF ToSet
  <1>7. Len(f) = m => ToSet(f) = ToSet(r)
    BY <1>2, <1>5 DEF ToSet
  <1> QED BY <1>3, <1>5, <1>6, <1>7 DEF Fuse, Fused, f, r, LeavesOut

(* The pool is such a ranking.                                             *)
LEMMA PoolIsOffered ==
    ASSUME NEW ids, ids \subseteq Nat \X Nat, NEW q, QueryOK(ids, q), Joined(q)
    PROVE  Offered(ids, q, q.pool)
  <1> DEFINE S == Reach(ids, q)
             n == Depth(q)
  <1>1. /\ q.lexical.chunks \in Rankings(S, n) /\ q.dense.chunks \in Rankings(S, n)
        /\ n \in Nat /\ S \subseteq Nat \X Nat
    BY DepthIsNat DEF QueryOK, HalvesOK, Reach
  <1>2. ToSet(<<>>) = {}
    BY DEF ToSet
  <1>3. CASE q.retriever = "bm25"
    <2>1. q.pool = q.lexical.chunks /\ q.dense.chunks = <<>>
      BY <1>3 DEF Joined, QueryOK, StagesOK, HalvesOK
    <2> QED BY <1>1, <1>2, <2>1 DEF Offered, Proposed
  <1>4. CASE q.retriever = "vector"
    <2>1. q.pool = q.dense.chunks /\ q.lexical.chunks = <<>>
      BY <1>4 DEF Joined, QueryOK, StagesOK, HalvesOK
    <2> QED BY <1>1, <1>2, <2>1 DEF Offered, Proposed
  <1>5. CASE q.retriever \notin {"bm25", "vector"}
    <2>1. PICK k \in {Candidates, FetchFor(K)} :
              q.pool = Fuse(q.lexical.chunks, q.dense.chunks, k)
      BY <1>5 DEF Joined
    <2>2. Candidates \in Nat /\ FetchFor(K) \in Nat
      BY RetrievalAssumption DEF FetchFor
    <2>3. k \in Nat
      BY <2>2
    <2>4. q.pool \in Rankings(S, k)
      BY <1>1, <2>1, <2>3, FuseIsRanking
    <2>5. /\ ToSet(q.pool) \subseteq Proposed(q)
          /\ ToSet(q.pool) = Proposed(q) \/ Len(q.pool) = k
      BY <1>1, <2>1, <2>3, FuseKeepsAll DEF Proposed, Together, LeavesOut
    <2>6. FetchFor(K) <= Candidates => FetchFor(K) <= k
      BY <2>2
    <2> HIDE DEF S, n
    <2> QED BY <2>3, <2>4, <2>5, <2>6 DEF Offered, S
  <1> QED BY <1>3, <1>4, <1>5

(* Fused with the reranker's order, it still is.                           *)
LEMMA BlendIsOffered ==
    ASSUME NEW ids, ids \subseteq Nat \X Nat, NEW q, Offered(ids, q, q.pool),
           NEW reranked \in SetToSeqs(ToSet(q.pool))
    PROVE  Offered(ids, q, Fuse(q.pool, reranked, FetchFor(K)))
  <1> DEFINE S == Reach(ids, q)
             f == Fuse(q.pool, reranked, FetchFor(K))
  <1>1. PICK n \in Nat : q.pool \in Rankings(S, n)
    BY DEF Offered
  <1>2. FetchFor(K) \in Nat /\ S \subseteq Nat \X Nat
    BY RetrievalAssumption DEF FetchFor, Reach
  <1> HIDE DEF S
  <1>3. Together(q.pool, q.pool) = ToSet(q.pool)
    BY DEF Together
  <1>4. /\ ToSet(reranked) = ToSet(q.pool)
        /\ \A i, j \in DOMAIN reranked : reranked[i] = reranked[j] => i = j
        /\ \E m \in Nat : reranked \in [1..m -> ToSet(q.pool)] /\ Len(reranked) = m
    BY <1>1, <1>3, LineForm
  <1>5. reranked \in Rankings(S, n)
    <2>1. reranked \in [1..Cardinality(ToSet(q.pool)) -> ToSet(q.pool)]
      BY DEF SetToSeqs
    <2>2. Cardinality(ToSet(q.pool)) \in 0..n /\ ToSet(q.pool) \subseteq S
      BY <1>1, RankingIsFinite, RankingForm
    <2>3. reranked \in SeqOf(S, n)
      BY <2>1, <2>2 DEF SeqOf
    <2> QED BY <1>4, <2>3 DEF Rankings, IsInjective
  <1>6. Together(q.pool, reranked) = ToSet(q.pool)
    BY <1>4 DEF Together
  <1>7. f \in Rankings(S, FetchFor(K))
    BY <1>1, <1>2, <1>5, FuseIsRanking
  <1>8. /\ ToSet(f) \subseteq ToSet(q.pool)
        /\ ToSet(f) = ToSet(q.pool) \/ Len(f) = FetchFor(K)
    <2>1. LeavesOut(f, Together(q.pool, reranked), FetchFor(K))
      BY <1>1, <1>2, <1>5, FuseKeepsAll
    <2> QED BY <1>6, <2>1 DEF LeavesOut
  <1>9. ToSet(f) = ToSet(q.pool) => Len(f) = Len(q.pool)
    BY <1>1, <1>2, <1>7, RankingIsFinite
  <1> HIDE DEF f
  <1>10. ToSet(f) \subseteq Proposed(q)
    BY <1>8 DEF Offered
  <1>11. FetchFor(K) <= Candidates => ToSet(f) = Proposed(q) \/ FetchFor(K) <= Len(f)
    <2>1. FetchFor(K) <= FetchFor(K)
      BY <1>2
    <2> QED BY <1>8, <1>9, <2>1 DEF Offered
  <1> QED BY <1>2, <1>7, <1>10, <1>11 DEF Offered, S, f

(* A search is answered with the capped selection of such a ranking, and   *)
(* what is similar was made of chunks of past incidents.                   *)
AnswerOK(ids, q) ==
    /\ q.stage \in {"answered", "noted"} =>
           \E r : Offered(ids, q, r) /\ q.answer = Capped(r, K)
    /\ q.similar = <<>> \/ \E hits \in Seq(ids) : q.similar = Precedents(hits)

AnswerInv == \A s \in Scorers : AnswerOK(DOMAIN index, search[s])

(* No search was answered yet.                                            *)
LEMMA AnswerInit == RetrievalInit => AnswerInv
  BY DEF RetrievalInit, AnswerInv, AnswerOK, Unasked

(* A step of one search leaves the others as they are.                     *)
LEMMA BecomesAnswers ==
    ASSUME SearchInv, AnswerInv, NEW s \in Scorers, NEW p, Becomes(s, p),
           AnswerOK(DOMAIN index, p), UNCHANGED index
    PROVE  AnswerInv'
  <1>1. search' = [search EXCEPT ![s] = p] /\ DOMAIN search = Scorers
    BY DEF Becomes, SearchInv
  <1>2. ASSUME NEW r \in Scorers PROVE AnswerOK(DOMAIN index', search'[r])
    BY <1>1 DEF AnswerInv
  <1> QED BY <1>2 DEF AnswerInv

(* So does one that answers nothing.                                       *)
LEMMA SilenceAnswers ==
    ASSUME SearchInv, AnswerInv, NEW s \in Scorers, NEW p, Becomes(s, p), UNCHANGED index,
           p.stage \notin {"answered", "noted"}, p.similar = search[s].similar
    PROVE  AnswerInv'
  <1>1. AnswerOK(DOMAIN index, p)
    BY DEF AnswerInv, AnswerOK
  <1> QED BY <1>1, BecomesAnswers

(* Before the join, nothing is answered.                                   *)
LEMMA HalvesAnswer ==
    ASSUME SearchInv, AnswerInv, NEW s \in Scorers,
           \/ \E raw \in Requests :
                 \/ Refuse(s, raw)
                 \/ \E r \in Retrievers, reader \in {"endpoint", "node"} :
                        Retrieve(s, r, reader, raw)
           \/ \E r : LexicalAnswers(s, r) \/ DenseAnswers(s, r) \/ HypothesisAnswers(s, r)
           \/ LexicalFails(s) \/ Expand(s) \/ DenseFails(s) \/ JoinFails(s) \/ RerankFails(s)
    PROVE  AnswerInv'
  <1> DEFINE q == search[s]
  <1>1. QueryOK(DOMAIN index, q) /\ DOMAIN q = DOMAIN Unasked
    BY DEF SearchInv, QueryOK, Fields
  <1>2. q.lexical.status \notin Settled \/ q.dense.status \notin Settled => q.stage = "halves"
    BY <1>1 DEF QueryOK, StagesOK
  <1> HIDE DEF q
  <1>3. ASSUME NEW raw, Refuse(s, raw) PROVE AnswerInv'
    <2> DEFINE p == [q EXCEPT !.stage = "refused", !.reader = "endpoint", !.filters = raw]
    <2>1. Becomes(s, p) /\ UNCHANGED index
      BY <1>3 DEF Refuse, q
    <2>2. p.stage = "refused" /\ p.similar = q.similar
      BY <1>1 DEF Unasked
    <2> HIDE DEF p
    <2> QED BY <2>1, <2>2, SilenceAnswers DEF q
  <1>4. ASSUME NEW r, NEW reader, NEW raw, Retrieve(s, r, reader, raw) PROVE AnswerInv'
    <2> DEFINE lexical == IF r = "vector" THEN "unused" ELSE "asked"
               dense == IF r = "bm25" THEN "unused"
                        ELSE IF r = "hybrid_hyde" THEN "expanding" ELSE "asked"
               p == [q EXCEPT
                        !.stage = "halves", !.retriever = r, !.reader = reader,
                        !.filters = raw, !.lexical.status = lexical, !.dense.status = dense]
    <2>1. Becomes(s, p) /\ UNCHANGED index
      BY <1>4 DEF Retrieve, q
    <2> HIDE DEF lexical, dense
    <2>2. p.stage = "halves" /\ p.similar = q.similar
      BY <1>1 DEF Unasked
    <2> HIDE DEF p
    <2> QED BY <2>1, <2>2, SilenceAnswers DEF q
  <1>5. ASSUME NEW r, LexicalAnswers(s, r) PROVE AnswerInv'
    <2> DEFINE p == [q EXCEPT !.lexical = [status |-> "answered", chunks |-> r]]
    <2>1. Becomes(s, p) /\ UNCHANGED index /\ q.stage = "halves"
      BY <1>2, <1>5 DEF LexicalAnswers, q, Settled
    <2>2. p.stage = q.stage /\ p.similar = q.similar
      BY <1>1 DEF Unasked
    <2> HIDE DEF p
    <2> QED BY <2>1, <2>2, SilenceAnswers DEF q
  <1>6. ASSUME NEW r, DenseAnswers(s, r) PROVE AnswerInv'
    <2> DEFINE status == IF q.dense.status = "asked" THEN "answered" ELSE "hypothesis"
               p == [q EXCEPT !.dense = [status |-> status, chunks |-> r]]
    <2>1. UNCHANGED index /\ q.stage = "halves"
      BY <1>2, <1>6 DEF DenseAnswers, q, Settled
    <2>2. Becomes(s, p)
      BY <1>1, <1>6 DEF DenseAnswers, q, QueryOK, Fields, Unasked
    <2> HIDE DEF status
    <2>3. p.stage = q.stage /\ p.similar = q.similar
      BY <1>1 DEF Unasked
    <2> HIDE DEF p
    <2> QED BY <2>1, <2>2, <2>3, SilenceAnswers DEF q
  <1>7. ASSUME NEW r, HypothesisAnswers(s, r) PROVE AnswerInv'
    <2> DEFINE f == Fuse(q.dense.chunks, r, Wanted(s))
               p == [q EXCEPT !.dense = [status |-> "answered", chunks |-> f]]
    <2>1. UNCHANGED index /\ q.stage = "halves"
      BY <1>2, <1>7 DEF HypothesisAnswers, q, Settled
    <2>2. Becomes(s, p)
      BY <1>1, <1>7 DEF HypothesisAnswers, q, QueryOK, Fields, Unasked
    <2> HIDE DEF f
    <2>3. p.stage = q.stage /\ p.similar = q.similar
      BY <1>1 DEF Unasked
    <2> HIDE DEF p
    <2> QED BY <2>1, <2>2, <2>3, SilenceAnswers DEF q
  <1>8. CASE LexicalFails(s)
    <2> DEFINE p == [q EXCEPT !.lexical.status = "failed"]
    <2>1. Becomes(s, p) /\ UNCHANGED index /\ q.stage = "halves"
      BY <1>2, <1>8 DEF LexicalFails, q, Settled
    <2>2. p.stage = q.stage /\ p.similar = q.similar
      BY <1>1 DEF Unasked
    <2> HIDE DEF p
    <2> QED BY <2>1, <2>2, SilenceAnswers DEF q
  <1>9. CASE Expand(s)
    <2>1. PICK status \in {"asked", "asked twice"} :
              Becomes(s, [q EXCEPT !.dense.status = status])
      BY <1>9 DEF Expand, q
    <2> DEFINE p == [q EXCEPT !.dense.status = status]
    <2>2. UNCHANGED index /\ q.stage = "halves"
      BY <1>2, <1>9 DEF Expand, q, Settled
    <2>3. p.stage = q.stage /\ p.similar = q.similar
      BY <1>1 DEF Unasked
    <2>4. Becomes(s, p)
      BY <2>1
    <2> HIDE DEF p
    <2> QED BY <2>2, <2>3, <2>4, SilenceAnswers DEF q
  <1>10. CASE DenseFails(s)
    <2> DEFINE p == [q EXCEPT !.dense = [status |-> "failed", chunks |-> <<>>]]
    <2>1. Becomes(s, p) /\ UNCHANGED index /\ q.stage = "halves"
      BY <1>2, <1>10 DEF DenseFails, q, Settled
    <2>2. p.stage = q.stage /\ p.similar = q.similar
      BY <1>1 DEF Unasked
    <2> HIDE DEF p
    <2> QED BY <2>1, <2>2, SilenceAnswers DEF q
  <1>11. CASE JoinFails(s) \/ RerankFails(s)
    <2> DEFINE p == [q EXCEPT !.stage = "failed"]
    <2>1. Becomes(s, p) /\ UNCHANGED index
      BY <1>11 DEF JoinFails, RerankFails, q
    <2>2. p.stage = "failed" /\ p.similar = q.similar
      BY <1>1 DEF Unasked
    <2> HIDE DEF p
    <2> QED BY <2>1, <2>2, SilenceAnswers DEF q
  <1> QED BY <1>3, <1>4, <1>5, <1>6, <1>7, <1>8, <1>9, <1>10, <1>11

(* The join answers from the pool, or leaves it to the reranker.           *)
LEMMA JoinAnswers ==
    ASSUME SearchInv, SearchInv', AnswerInv, NEW s \in Scorers, Join(s)
    PROVE  AnswerInv'
  <1> DEFINE q == search[s]
             reranked == q.retriever = "hybrid_rerank"
             pool == CASE q.retriever = "bm25" -> q.lexical.chunks
                       [] q.retriever = "vector" -> q.dense.chunks
                       [] OTHER -> Fuse(q.lexical.chunks, q.dense.chunks,
                                        IF reranked THEN Candidates ELSE FetchFor(K))
             later == reranked /\ pool # <<>>
             p == [q EXCEPT
                      !.stage = IF later THEN "rerank" ELSE "answered",
                      !.pool = pool,
                      !.answer = IF later THEN <<>> ELSE Capped(pool, K)]
  <1>1. DOMAIN q = DOMAIN Unasked /\ search' = [search EXCEPT ![s] = p] /\ UNCHANGED index
    BY DEF SearchInv, QueryOK, Fields, Join, Becomes
  <1> HIDE DEF pool, later
  <1>2. /\ p.stage = (IF later THEN "rerank" ELSE "answered")
        /\ p.answer = (IF later THEN <<>> ELSE Capped(pool, K))
        /\ p.pool = pool /\ p.similar = q.similar
    BY <1>1 DEF Unasked
  <1> HIDE DEF p
  <1>3. search'[s] = p /\ Becomes(s, p)
    BY <1>1 DEF SearchInv, Becomes
  <1>4. CASE later
    BY <1>1, <1>2, <1>3, <1>4, SilenceAnswers
  <1>5. CASE ~ later
    <2>1. QueryOK(DOMAIN index, p) /\ DOMAIN index \subseteq Nat \X Nat
      BY <1>1, <1>3 DEF SearchInv
    <2>2. Joined(p)
      BY <1>2, <1>5, <2>1 DEF QueryOK, PoolOK
    <2>3. Offered(DOMAIN index, p, p.pool)
      BY <2>1, <2>2, PoolIsOffered
    <2>4. AnswerOK(DOMAIN index, p)
      BY <1>2, <1>5, <2>3 DEF AnswerOK, AnswerInv
    <2> QED BY <1>1, <1>3, <2>4, BecomesAnswers
  <1> QED BY <1>4, <1>5

(* The reranker's order of the pool, and the pool's own, answer.           *)
LEMMA RerankedAnswers ==
    ASSUME SearchInv, AnswerInv, NEW s \in Scorers, NEW r, Answered(s, r), UNCHANGED index,
           search[s].stage = "rerank",
           \/ r = search[s].pool
           \/ \E reranked \in SetToSeqs(ToSet(search[s].pool)) :
                  r = Fuse(search[s].pool, reranked, FetchFor(K))
    PROVE  AnswerInv'
  <1> DEFINE q == search[s]
             p == [q EXCEPT !.stage = "answered", !.answer = Capped(r, K)]
  <1>1. QueryOK(DOMAIN index, q) /\ DOMAIN index \subseteq Nat \X Nat
    BY DEF SearchInv
  <1>2. /\ p.stage = "answered" /\ p.answer = Capped(r, K) /\ p.similar = q.similar
        /\ p.lexical = q.lexical /\ p.dense = q.dense /\ p.filters = q.filters
    BY <1>1 DEF QueryOK, Fields, Unasked
  <1>3. Becomes(s, p)
    BY DEF Answered
  <1>4. Offered(DOMAIN index, q, r)
    <2>1. Joined(q)
      BY <1>1 DEF QueryOK, PoolOK
    <2>2. Offered(DOMAIN index, q, q.pool)
      BY <1>1, <2>1, PoolIsOffered
    <2>3. CASE r = q.pool
      BY <2>2, <2>3
    <2>4. ASSUME NEW reranked \in SetToSeqs(ToSet(q.pool)),
                 r = Fuse(q.pool, reranked, FetchFor(K))
          PROVE  Offered(DOMAIN index, q, r)
      BY <1>1, <2>2, <2>4, BlendIsOffered
    <2> QED BY <2>3, <2>4
  <1> HIDE DEF p
  <1>5. Offered(DOMAIN index, p, r)
    BY <1>2, <1>4 DEF Offered, Reach, Proposed
  <1>6. AnswerOK(DOMAIN index, p)
    BY <1>2, <1>5 DEF AnswerOK, AnswerInv
  <1> QED BY <1>3, <1>6, BecomesAnswers

(* Precedents are asked for once the answer is there.                      *)
LEMMA SimilarAnswers ==
    ASSUME SearchInv, AnswerInv, NEW s \in Scorers, NEW hits, FindSimilar(s, hits)
    PROVE  AnswerInv'
  <1> DEFINE q == search[s]
             p == [q EXCEPT !.stage = "noted", !.similar = Precedents(hits)]
  <1>1. DOMAIN q = DOMAIN Unasked
    BY DEF SearchInv, QueryOK, Fields
  <1>2. /\ p.stage = "noted" /\ p.answer = q.answer /\ p.similar = Precedents(hits)
        /\ p.lexical = q.lexical /\ p.dense = q.dense /\ p.filters = q.filters
    BY <1>1 DEF Unasked
  <1>3. Becomes(s, p) /\ q.stage = "answered" /\ UNCHANGED index
    BY DEF FindSimilar
  <1>4. hits \in Seq(DOMAIN index)
    <2> DEFINE S == {c \in DOMAIN index : c[1] \in Historical}
    <2>1. hits \in UNION {[1..m -> S] : m \in 0..DEFAULT_CHUNKS}
      BY DEF FindSimilar, Rankings, SeqOf
    <2>2. PICK m \in 0..DEFAULT_CHUNKS : hits \in [1..m -> S]
      BY <2>1
    <2>3. m \in Nat /\ hits \in [1..m -> DOMAIN index]
      BY <2>2
    <2> QED BY <2>3
  <1> HIDE DEF p
  <1>5. \E r : Offered(DOMAIN index, p, r) /\ p.answer = Capped(r, K)
    BY <1>2, <1>3 DEF AnswerInv, AnswerOK, Offered, Reach, Proposed
  <1>6. AnswerOK(DOMAIN index, p)
    BY <1>2, <1>4, <1>5 DEF AnswerOK
  <1> QED BY <1>3, <1>6, BecomesAnswers

(* No step breaks it.                                                      *)
LEMMA AnswerNext ==
    ASSUME SearchInv, SearchInv', AnswerInv, [RetrievalNext]_retrievalVars
    PROVE  AnswerInv'
  <1>1. ASSUME NEW s \in Scorers, Steps(s) PROVE AnswerInv'
    <2>1. CASE \/ \E raw \in Requests :
                    \/ Refuse(s, raw)
                    \/ \E r \in Retrievers, reader \in {"endpoint", "node"} :
                           Retrieve(s, r, reader, raw)
               \/ \E r \in Rankings(DOMAIN index, Wanted(s)) :
                    LexicalAnswers(s, r) \/ DenseAnswers(s, r) \/ HypothesisAnswers(s, r)
               \/ LexicalFails(s) \/ Expand(s) \/ DenseFails(s) \/ JoinFails(s)
               \/ RerankFails(s)
      BY <2>1, HalvesAnswer
    <2>2. CASE Join(s)
      BY <2>2, JoinAnswers
    <2>3. ASSUME NEW r, Blend(s, r) PROVE AnswerInv'
      BY <2>3, RerankedAnswers DEF Blend
    <2>4. CASE Degrade(s)
      BY <2>4, RerankedAnswers DEF Degrade
    <2>5. CASE \E hits \in Rankings(DOMAIN index, DEFAULT_CHUNKS) : FindSimilar(s, hits)
      BY <2>5, SimilarAnswers
    <2> QED BY <1>1, <2>1, <2>2, <2>3, <2>4, <2>5 DEF Steps
  <1>2. ASSUME NEW c \in Clients, UsesReranker(c) PROVE AnswerInv'
    BY <1>2 DEF UsesReranker, AnswerInv
  <1>3. CASE UNCHANGED retrievalVars
    BY <1>3 DEF retrievalVars, AnswerInv
  <1> QED BY <1>1, <1>2, <1>3 DEF RetrievalNext

(* What answers a search is what a half found for it: a capped selection  *)
(* of the pool, or of what the reranker made of it, that left out nothing  *)
(* but what did not fit.                                                   *)
THEOREM AnswersComeFromThePool == RetrievalSpec => [](SearchInv /\ AnswerInv)
  BY SearchInit, SearchNext, AnswerInit, AnswerNext, PTL DEF RetrievalSpec

(* The index holds chunks of documents, and no search changes it.          *)
IndexOfDocs == DOMAIN index \subseteq Docs \X Nat

(* So it is at first.                                                      *)
LEMMA IndexInit == RetrievalInit => IndexOfDocs
  <1> SUFFICES ASSUME RetrievalInit PROVE IndexOfDocs
    OBVIOUS
  <1>1. DOMAIN index = UNION {{d} \X (1..Len(Contents[d][corpus[d]])) : d \in Docs}
    BY DEF RetrievalInit, Indexed
  <1>2. \A x : 1..Len(x) \subseteq Nat
    OBVIOUS
  <1> QED BY <1>1, <1>2 DEF IndexOfDocs

(* No step changes the index, or what it was made from.                    *)
LEMMA IndexStays == [RetrievalNext]_retrievalVars => UNCHANGED <<corpus, index>>
  <1>1. ASSUME NEW s \in Scorers, Steps(s) PROVE UNCHANGED <<corpus, index>>
    BY <1>1 DEF Steps, Refuse, Retrieve, LexicalAnswers, DenseAnswers, HypothesisAnswers,
                LexicalFails, Expand, DenseFails, Join, JoinFails, Blend, Degrade,
                RerankFails, FindSimilar
  <1>2. ASSUME NEW c \in Clients, UsesReranker(c) PROVE UNCHANGED <<corpus, index>>
    BY <1>2 DEF UsesReranker
  <1> QED BY <1>1, <1>2 DEF RetrievalNext, retrievalVars

(* As many different chunks are among those kept as places hold one.       *)
LEMMA KeptOfADocument ==
    ASSUME NEW S, NEW kept \in Seq(S), NEW C, NEW d,
           \A c \in C : c[1] = d /\ \E a \in DOMAIN kept : kept[a] = c
    PROVE  Cardinality(C) <= Taken(kept, d) /\ Cardinality(C) \in Nat
  <1> DEFINE P == {i \in DOMAIN kept : kept[i][1] = d}
             Q == {i \in DOMAIN kept : kept[i] \in C}
  <1>1. IsFiniteSet(P) /\ Q \in SUBSET P
    <2>1. IsFiniteSet(1..Len(kept)) /\ DOMAIN kept = 1..Len(kept)
      <3>1. Len(kept) \in Nat /\ DOMAIN kept = 1..Len(kept)
        OBVIOUS
      <3> QED BY <3>1, FS_Interval
    <2>2. P \in SUBSET (1..Len(kept)) /\ Q \in SUBSET P
      BY <2>1
    <2> HIDE DEF P, Q
    <2> QED BY <2>1, <2>2, FS_Subset
  <1>2. [i \in Q |-> kept[i]] \in Surjection(Q, C)
    BY DEF Surjection
  <1> HIDE DEF Q
  <1>3. IsFiniteSet(Q) /\ Cardinality(Q) <= Cardinality(P) /\ Cardinality(Q) \in Nat
    <2> HIDE DEF P
    <2> QED BY <1>1, FS_Subset, FS_CardinalityType
  <1>4. IsFiniteSet(C) /\ Cardinality(C) <= Cardinality(Q) /\ Cardinality(C) \in Nat
    BY <1>2, <1>3, FS_Surjection, FS_CardinalityType
  <1>5. Cardinality(P) \in Nat
    <2> HIDE DEF P
    <2> QED BY <1>1, FS_CardinalityType
  <1>6. Taken(kept, d) = Cardinality(P)
    BY DEF Taken
  <1> HIDE DEF P
  <1> QED BY <1>3, <1>4, <1>5, <1>6

(* A document crowds a search.                                             *)
CrowdsOut(q, d) ==
    /\ MaxPerDocument # 0
    /\ Cardinality({c \in Proposed(q) : c[1] = d}) > CAP_OVER_FETCH * MaxPerDocument

(* What was left out of an answer that is not full is one too many.        *)
LEMMA ShortWhenCrowded ==
    ASSUME NEW ids, ids \subseteq Docs \X Nat, NEW q, QueryOK(ids, q),
           NEW r, Offered(ids, q, r), q.answer = Capped(r, K)
    PROVE  /\ Len(q.answer) <= K /\ IsInjective(q.answer)
           /\ FetchFor(K) <= Candidates /\ (\A d \in Docs : ~ CrowdsOut(q, d)) =>
                \A c \in Proposed(q) \ ToSet(q.answer) :
                  \/ Len(q.answer) = K
                  \/ MaxPerDocument # 0 /\ Taken(q.answer, c[1]) = MaxPerDocument
  <1> DEFINE S == Reach(ids, q)
             short == q.answer
  <1>1. PICK n \in Nat : r \in Rankings(S, n)
    BY DEF Offered
  <1>2. /\ K \in Nat /\ MaxPerDocument \in Nat /\ CAP_OVER_FETCH \in Nat /\ CAP_OVER_FETCH # 0
        /\ K # 0 /\ Candidates \in Nat /\ FetchFor(K) \in Nat /\ S \subseteq Docs \X Nat
    BY RetrievalAssumption DEF FetchFor, Reach
  <1> HIDE DEF S
  <1>3. /\ r \in Seq(S) /\ \A i, j \in DOMAIN r : r[i] = r[j] => i = j
        /\ DOMAIN r = 1..Len(r) /\ Len(r) \in Nat /\ ToSet(r) \subseteq S
    BY <1>1, RankingForm
  <1>4. CASE MaxPerDocument = 0
    <2>1. short = First(r, K) /\ FetchFor(K) = K
      BY <1>4 DEF Capped, FetchFor
    <2> HIDE DEF short
    <2>2. /\ Len(short) = (IF K < Len(r) THEN K ELSE Len(r))
          /\ \A i \in 1..Len(short) : short[i] = r[i]
          /\ DOMAIN short = 1..Len(short)
      <3>1. K \in Nat /\ r \in Seq(S)
        BY <1>2, <1>3
      <3> QED BY <2>1, <3>1, FirstForm
    <2>3. Len(short) <= K /\ IsInjective(short)
      BY <1>2, <1>3, <2>2 DEF IsInjective
    <2>4. ASSUME FetchFor(K) <= Candidates, NEW c \in Proposed(q) \ ToSet(short)
          PROVE  Len(short) = K
      <3>1. CASE K <= Len(r)
        <4>1. \A a, b, l \in Nat : a <= b /\ l = (IF a < b THEN a ELSE b) => l = a
          OBVIOUS
        <4>2. K \in Nat /\ Len(r) \in Nat /\ Len(short) \in Nat
          BY <1>2, <1>3, <2>2
        <4> QED BY <2>2, <3>1, <4>1, <4>2
      <3>2. CASE ~ K <= Len(r)
        <4>1. ToSet(r) = Proposed(q)
          BY <2>1, <2>4, <3>2 DEF Offered
        <4>2. ToSet(short) = ToSet(r)
          BY <1>2, <1>3, <2>2, <3>2 DEF ToSet
        <4> QED BY <2>4, <4>1, <4>2
      <3> QED BY <3>1, <3>2
    <2> QED BY <2>3, <2>4 DEF short
  <1>5. CASE MaxPerDocument # 0
    <2>1. short \in Seq(S) /\ CapHolds(short, r, Len(r), K)
      <3>1. Capped(r, K) \in Seq(S) /\ CapHolds(Capped(r, K), r, Len(r), K)
        <4>1. K \in Nat
          BY <1>2
        <4> QED BY <1>3, <1>5, <4>1, CapIsSound
      <3> QED BY <3>1
    <2> HIDE DEF short
    <2>2. Len(short) <= K /\ IsInjective(short) /\ Len(short) \in Nat
      BY <2>1 DEF CapHolds, IsInjective
    <2>3. ASSUME FetchFor(K) <= Candidates, \A d \in Docs : ~ CrowdsOut(q, d),
                 NEW c \in Proposed(q) \ ToSet(short), Len(short) # K
          PROVE  Taken(short, c[1]) = MaxPerDocument
      <3>1. CASE c \in ToSet(r)
        <4>1. PICK j \in 1..Len(r) : r[j] = c
          BY <1>3, <3>1 DEF ToSet
        <4>2. ~ \E a \in DOMAIN short : short[a] = r[j]
          BY <2>3, <4>1 DEF ToSet
        <4> QED BY <2>1, <2>3, <4>1, <4>2 DEF CapHolds
      <3>2. CASE c \notin ToSet(r)
        <4>1. K * CAP_OVER_FETCH <= Len(r) /\ ToSet(r) \subseteq Proposed(q)
          BY <1>5, <2>3, <3>2 DEF Offered, FetchFor
        <4>2. ASSUME NEW d
              PROVE  Cardinality({e \in ToSet(r) : e[1] = d}) <= CAP_OVER_FETCH * Taken(short, d)
          <5> DEFINE C == {e \in ToSet(r) : e[1] = d}
          <5>0. Taken(short, d) \in Nat
            BY <2>1, TakenIsCount
          <5>1. CASE \A e \in C : \E a \in DOMAIN short : short[a] = e
            <6>1. Cardinality(C) <= Taken(short, d) /\ Cardinality(C) \in Nat
              BY <2>1, <5>1, KeptOfADocument
            <6> HIDE DEF C
            <6>2. \A t \in Nat : t <= CAP_OVER_FETCH * t
              <7> SUFFICES ASSUME NEW t \in Nat PROVE t <= CAP_OVER_FETCH * t
                OBVIOUS
              <7>1. PICK x \in Nat : CAP_OVER_FETCH = x + 1
                <8>1. CAP_OVER_FETCH - 1 \in Nat /\ CAP_OVER_FETCH = (CAP_OVER_FETCH - 1) + 1
                  BY <1>2
                <8> QED BY <8>1
              <7>2. (x + 1) * t = x * t + t /\ x * t \in Nat
                OBVIOUS
              <7> QED BY <7>1, <7>2
            <6>3. CAP_OVER_FETCH * Taken(short, d) \in Nat
              BY <1>2, <5>0
            <6> QED BY <5>0, <6>1, <6>2, <6>3 DEF C
          <5>2. CASE \E e \in C : ~ \E a \in DOMAIN short : short[a] = e
            <6>1. PICK e \in C : ~ \E a \in DOMAIN short : short[a] = e
              BY <5>2
            <6>2. PICK j \in 1..Len(r) : r[j] = e
              BY <1>3 DEF ToSet
            <6>3. Taken(short, d) = MaxPerDocument
              BY <2>1, <2>3, <6>1, <6>2 DEF CapHolds
            <6>4. d \in Docs
              BY <1>2, <1>3
            <6> DEFINE D == {p \in Proposed(q) : p[1] = d}
            <6>5. IsFiniteSet(D) /\ C \in SUBSET D
              <7>1. IsFiniteSet(Proposed(q))
                <8>1. /\ q.lexical.chunks \in Rankings(Reach(ids, q), Depth(q))
                      /\ q.dense.chunks \in Rankings(Reach(ids, q), Depth(q))
                  BY DEF QueryOK, HalvesOK
                <8> QED BY <8>1, DepthIsNat, RankingIsFinite, FS_Union DEF Proposed
              <7>2. D \in SUBSET Proposed(q) /\ C \in SUBSET D
                BY <4>1
              <7> HIDE DEF C, D
              <7> QED BY <7>1, <7>2, FS_Subset
            <6>6. ~ Cardinality(D) > CAP_OVER_FETCH * MaxPerDocument
              BY <1>5, <2>3, <6>4 DEF CrowdsOut
            <6> HIDE DEF D
            <6>7. /\ Cardinality(C) <= Cardinality(D)
                  /\ Cardinality(C) \in Nat /\ Cardinality(D) \in Nat
              <7> HIDE DEF C
              <7> QED BY <6>5, FS_Subset, FS_CardinalityType
            <6>8. CAP_OVER_FETCH * MaxPerDocument \in Nat
              BY <1>2
            <6> QED BY <6>3, <6>6, <6>7, <6>8
          <5> QED BY <5>1, <5>2
        <4>3. Len(r) <= CAP_OVER_FETCH * Len(short)
          BY <1>1, <1>2, <2>1, <4>2, CountByDocument
        <4>4. PICK e \in Nat : K = Len(short) + 1 + e
          <5>1. K - (Len(short) + 1) \in Nat /\ K = Len(short) + 1 + (K - (Len(short) + 1))
            BY <1>2, <2>2, <2>3
          <5> QED BY <5>1
        <4>5. /\ (Len(short) + 1 + e) * CAP_OVER_FETCH
                   = CAP_OVER_FETCH * Len(short) + CAP_OVER_FETCH + e * CAP_OVER_FETCH
              /\ CAP_OVER_FETCH * Len(short) \in Nat /\ e * CAP_OVER_FETCH \in Nat
          BY <1>2, <2>2
        <4>6. FALSE
          <5>1. \A o, l, x, y, z \in Nat :
                    o # 0 /\ x <= l /\ l <= y /\ x = y + o + z => FALSE
            OBVIOUS
          <5>2. K * CAP_OVER_FETCH = CAP_OVER_FETCH * Len(short) + CAP_OVER_FETCH
                                         + e * CAP_OVER_FETCH
            BY <4>4, <4>5
          <5>3. K * CAP_OVER_FETCH \in Nat
            BY <1>2
          <5> QED BY <1>2, <1>3, <4>1, <4>3, <4>5, <5>1, <5>2, <5>3, Zenon
        <4> QED BY <4>6
      <3> QED BY <3>1, <3>2
    <2> QED BY <1>5, <2>2, <2>3 DEF short
  <1> QED BY <1>4, <1>5

(* An answer is short only when every chunk left out is one too many of    *)
(* its document.                                                           *)
THEOREM CapCostsNothing == RetrievalSpec => []ShortOnlyWhenCrowded
  <1>1. IndexOfDocs /\ [RetrievalNext]_retrievalVars => IndexOfDocs'
    BY IndexStays DEF IndexOfDocs
  <1>2. SearchInv /\ AnswerInv /\ IndexOfDocs => ShortOnlyWhenCrowded
    <2> SUFFICES ASSUME SearchInv, AnswerInv, IndexOfDocs, NEW s \in Scorers, Over(s)
                 PROVE  LET q == search[s]
                        IN  /\ Len(q.answer) <= K /\ IsInjective(q.answer)
                            /\ FetchFor(K) <= Candidates /\ (\A d \in Docs : ~ CrowdsOut(q, d)) =>
                                 \A c \in Proposed(q) \ ToSet(q.answer) :
                                   \/ Len(q.answer) = K
                                   \/ /\ MaxPerDocument # 0
                                      /\ Taken(q.answer, c[1]) = MaxPerDocument
      BY DEF ShortOnlyWhenCrowded, CrowdsOut, Proposed
    <2>1. PICK r : Offered(DOMAIN index, search[s], r) /\ search[s].answer = Capped(r, K)
      BY DEF AnswerInv, AnswerOK, Over
    <2>2. QueryOK(DOMAIN index, search[s]) /\ DOMAIN index \subseteq Docs \X Nat
      BY DEF SearchInv, IndexOfDocs
    <2> QED BY <2>1, <2>2, ShortWhenCrowded
  <1> QED BY IndexInit, AnswersComeFromThePool, <1>1, <1>2, PTL DEF RetrievalSpec

----------------------------------------------------------------------------
(* Sequences, and what is computed along them.                             *)

(* G goes one place further than F.                                        *)
Prolongs(G, F, n, A) ==
    /\ F \in StepsOn(n, A) /\ G \in StepsOn(n + 1, A)
    /\ \A i \in 1..n : F[i] = G[i]

(* A longer run begins as the shorter did.                                 *)
LEMMA SameRuns ==
    ASSUME NEW n \in Nat, NEW A, NEW base, NEW F, NEW G, Prolongs(G, F, n, A),
           NEW x, Runs(x, n, A, base, F), NEW z, Runs(z, n + 1, A, base, G)
    PROVE  z[n + 1] = G[n + 1][x[n]]
  <1> DEFINE N == {i \in Nat : i <= n => z[i] = x[i]}
  <1>1. 0 \in N
    BY DEF Runs
  <1>2. ASSUME NEW i \in Nat, i \in N PROVE i + 1 \in N
    <2> SUFFICES ASSUME i + 1 <= n PROVE z[i + 1] = x[i + 1]
      OBVIOUS
    <2>1. i + 1 \in 1..n /\ i + 1 \in 1..(n + 1) /\ (i + 1) - 1 = i /\ i <= n
      OBVIOUS
    <2>2. /\ z[i + 1] = G[i + 1][z[i]] /\ x[i + 1] = F[i + 1][x[i]]
          /\ F[i + 1] = G[i + 1]
      BY <2>1 DEF Runs, Prolongs
    <2> QED BY <1>2, <2>1, <2>2
  <1>3. n \in N
    <2> HIDE DEF N
    <2> QED BY <1>1, <1>2, ForEveryNumber
  <1>4. n + 1 \in 1..(n + 1) /\ (n + 1) - 1 = n
    OBVIOUS
  <1> QED BY <1>3, <1>4 DEF Runs

(* What holds of no element, and of one more, holds of every sequence.     *)
LEMMA ForEverySequence ==
    ASSUME NEW S, NEW N, <<>> \in N,
           \A r \in Seq(S), e \in S : r \in N => Append(r, e) \in N
    PROVE  Seq(S) \subseteq N
  <1> SUFFICES ASSUME NEW r \in Seq(S) PROVE r \in N
    OBVIOUS
  <1> DEFINE P == {i \in Nat : i <= Len(r) => SubSeq(r, 1, i) \in N}
  <1>1. 0 \in P
    <2>1. SubSeq(r, 1, 0) = <<>>
      OBVIOUS
    <2> QED BY <2>1
  <1>2. ASSUME NEW i \in Nat, i \in P PROVE i + 1 \in P
    <2> SUFFICES ASSUME i + 1 <= Len(r) PROVE SubSeq(r, 1, i + 1) \in N
      OBVIOUS
    <2>1. /\ SubSeq(r, 1, i + 1) = Append(SubSeq(r, 1, i), r[i + 1])
          /\ SubSeq(r, 1, i) \in Seq(S) /\ r[i + 1] \in S /\ i <= Len(r)
      OBVIOUS
    <2> QED BY <1>2, <2>1
  <1>3. Nat \subseteq P
    <2> HIDE DEF P
    <2> QED BY <1>1, <1>2, ForEveryNumber
  <1>4. Len(r) \in Nat /\ SubSeq(r, 1, Len(r)) = r /\ Len(r) <= Len(r)
    OBVIOUS
  <1>5. Len(r) \in P
    <2> HIDE DEF P
    <2> QED BY <1>3, <1>4
  <1> QED BY <1>4, <1>5

(* The steps that the elements of a sequence make.                         *)
StepsOf(step, r, A) == [i \in 1..Len(r) |-> [a \in A |-> step[a][r[i]]]]

(* A sequence's elements make steps on A; one more makes one more.         *)
LEMMA StepsOfForm ==
    ASSUME NEW S, NEW A, NEW step \in [A -> [S -> A]], NEW r \in Seq(S)
    PROVE  /\ StepsOf(step, r, A) \in StepsOn(Len(r), A)
           /\ \A e \in S :
                  /\ Prolongs(StepsOf(step, Append(r, e), A), StepsOf(step, r, A), Len(r), A)
                  /\ \A a \in A : StepsOf(step, Append(r, e), A)[Len(r) + 1][a] = step[a][e]
  <1>1. ASSUME NEW t \in Seq(S) PROVE StepsOf(step, t, A) \in StepsOn(Len(t), A)
    <2>1. \A a \in A, i \in 1..Len(t) : step[a][t[i]] \in A
      OBVIOUS
    <2> QED BY <2>1 DEF StepsOf, StepsOn
  <1>2. ASSUME NEW e \in S
        PROVE  /\ Prolongs(StepsOf(step, Append(r, e), A), StepsOf(step, r, A), Len(r), A)
               /\ \A a \in A : StepsOf(step, Append(r, e), A)[Len(r) + 1][a] = step[a][e]
    <2> DEFINE q == Append(r, e)
               n == Len(r)
               G == StepsOf(step, q, A)
    <2>1. /\ q \in Seq(S) /\ Len(q) = n + 1 /\ n \in Nat /\ q[n + 1] = e
          /\ n + 1 \in 1..(n + 1) /\ \A i \in 1..n : q[i] = r[i] /\ i \in 1..(n + 1)
      OBVIOUS
    <2>2. G \in StepsOn(n + 1, A) /\ StepsOf(step, r, A) \in StepsOn(n, A)
      BY <1>1, <2>1
    <2> HIDE DEF q
    <2>3. \A i \in 1..n : G[i] = StepsOf(step, r, A)[i]
      BY <2>1 DEF StepsOf
    <2>4. \A a \in A : G[n + 1][a] = step[a][e]
      BY <2>1 DEF StepsOf
    <2>5. Prolongs(G, StepsOf(step, r, A), n, A)
      <3> HIDE DEF G, n
      <3> QED BY <2>2, <2>3 DEF Prolongs
    <2> QED BY <2>4, <2>5 DEF q
  <1> QED BY <1>1, <1>2

(* E is computed along a sequence, step by step.                           *)
Computes(E, S, A, base, step) ==
    /\ step \in [A -> [S -> A]]
    /\ \A r \in Seq(S) :
           \E x : Runs(x, Len(r), A, base, StepsOf(step, r, A)) /\ x[Len(r)] = E[r]

(* One element more is one step more.                                      *)
Grows(E, S, A, base, step) ==
    /\ E[<<>>] = base
    /\ \A r \in Seq(S) : E[r] \in A
    /\ \A r \in Seq(S), e \in S : E[Append(r, e)] = step[E[r]][e]

(* What is computed step by step along a sequence depends, for one element *)
(* more, only on what was computed without it.                             *)
LEMMA AppendLaw ==
    ASSUME NEW S, NEW A, NEW base, NEW step, NEW E, Computes(E, S, A, base, step)
    PROVE  Grows(E, S, A, base, step)
  <1>0. /\ step \in [A -> [S -> A]]
        /\ \A r \in Seq(S) :
               \E x : Runs(x, Len(r), A, base, StepsOf(step, r, A)) /\ x[Len(r)] = E[r]
    BY DEF Computes
  <1>1. E[<<>>] = base
    <2>1. <<>> \in Seq(S) /\ Len(<<>>) = 0
      OBVIOUS
    <2>2. PICK x : Runs(x, 0, A, base, StepsOf(step, <<>>, A)) /\ x[0] = E[<<>>]
      BY <1>0, <2>1
    <2> QED BY <2>2 DEF Runs
  <1>2. ASSUME NEW r \in Seq(S) PROVE E[r] \in A
    <2>1. PICK x : Runs(x, Len(r), A, base, StepsOf(step, r, A)) /\ x[Len(r)] = E[r]
      BY <1>0
    <2>2. Len(r) \in 0..Len(r)
      OBVIOUS
    <2> QED BY <2>1, <2>2 DEF Runs
  <1>3. ASSUME NEW r \in Seq(S), NEW e \in S PROVE E[Append(r, e)] = step[E[r]][e]
    <2> DEFINE n == Len(r)
               q == Append(r, e)
               F == StepsOf(step, r, A)
               G == StepsOf(step, q, A)
    <2>1. q \in Seq(S) /\ Len(q) = n + 1 /\ n \in Nat
      OBVIOUS
    <2>2. Prolongs(G, F, n, A) /\ \A a \in A : G[n + 1][a] = step[a][e]
      BY <1>0, StepsOfForm
    <2> HIDE DEF n, q, F, G
    <2>3. PICK x : Runs(x, n, A, base, F) /\ x[n] = E[r]
      BY <1>0 DEF n, F
    <2>4. PICK z : Runs(z, n + 1, A, base, G) /\ z[n + 1] = E[q]
      BY <1>0, <2>1 DEF G
    <2>5. z[n + 1] = G[n + 1][x[n]]
      BY <2>1, <2>2, <2>3, <2>4, SameRuns
    <2> QED BY <1>2, <2>2, <2>3, <2>4, <2>5 DEF q
  <1> QED BY <1>1, <1>2, <1>3 DEF Grows
(* One more element.                                                       *)
Plus(kept, c, X) == IF c \in X THEN Append(kept, c) ELSE kept

(* Those goes through a sequence element by element.                       *)
LEMMA ThoseForm ==
    ASSUME NEW S, NEW X
    PROVE  /\ Those(<<>>, X) = <<>>
           /\ \A r \in Seq(S) : Those(r, X) \in Seq(S)
           /\ \A r \in Seq(S), e \in S : Those(Append(r, e), X) = Plus(Those(r, X), e, X)
  <1> DEFINE T == Seq(S)
             empty == <<>>
             step == [a \in T |-> [c \in S |-> Plus(a, c, X)]]
             E == [r \in Seq(S) |-> Those(r, X)]
  <1>1. \A a \in T, e \in S : Plus(a, e, X) \in T
    BY DEF Plus
  <1>2. empty \in T
    OBVIOUS
  <1>3. step \in [T -> [S -> T]]
    <2> HIDE DEF T
    <2> QED BY <1>1
  <1>4. ASSUME NEW r \in Seq(S)
        PROVE  \E x : Runs(x, Len(r), T, empty, StepsOf(step, r, T)) /\ x[Len(r)] = E[r]
    <2> DEFINE n == Len(r)
               G == StepsOf(step, r, T)
               Folds(h) == h = [s \in SUBSET (1..n) |->
                                    IF s = {} THEN empty
                                    ELSE Plus(h[s \ {Max(s)}], r[Max(s)], X)]
               fold == CHOOSE h : Folds(h)
    <2>1. n \in Nat /\ DOMAIN r = 1..n /\ \A i \in 1..n : r[i] \in S
      OBVIOUS
    <2>2. E[r] = fold[1..n]
      BY <2>1 DEF Those, Plus, FoldLeft, MapThenFoldSet
    <2>3. \A s \in SUBSET (1..n) : s # {} => Max(s) \in 1..n
      BY <2>1, LastIsThere
    <2>4. \A i \in 1..n : \A a \in T : G[i][a] = Plus(a, r[i], X)
      BY <2>1 DEF StepsOf
    <2> HIDE DEF T, empty, step, E
    <2>5. G \in StepsOn(n, T)
      BY <1>3, StepsOfForm
    <2> HIDE DEF n, G
    <2>6. PICK g \in [SUBSET (1..n) -> T] : FoldsBy(g, n, T, empty, G)
      BY <1>2, <2>1, <2>5, FoldExists
    <2>7. Folds(fold)
      <3>1. Folds(g)
        BY <2>3, <2>4, <2>6 DEF FoldsBy
      <3> QED BY <3>1
    <2> HIDE DEF fold
    <2>8. FoldsBy(fold, n, T, empty, G)
      BY <2>3, <2>4, <2>7 DEF FoldsBy
    <2>9. PICK x : Runs(x, n, T, empty, G) /\ x[n] = fold[1..n]
      BY <1>2, <2>1, <2>5, <2>8, FoldRuns
    <2> QED BY <2>2, <2>9 DEF n, G
  <1>5. /\ \A r \in Seq(S) : E[r] = Those(r, X)
        /\ \A a \in T, e \in S : step[a][e] = Plus(a, e, X)
        /\ <<>> \in Seq(S) /\ \A r \in Seq(S), e \in S : Append(r, e) \in Seq(S)
    OBVIOUS
  <1> HIDE DEF T, empty, step, E
  <1>6. Grows(E, S, T, empty, step)
    <2>1. Computes(E, S, T, empty, step)
      BY <1>3, <1>4 DEF Computes
    <2> QED BY <2>1, AppendLaw
  <1>7. Those(<<>>, X) = empty /\ \A r \in Seq(S) : Those(r, X) \in T
    BY <1>5, <1>6 DEF Grows
  <1>8. ASSUME NEW r \in Seq(S), NEW e \in S
        PROVE  Those(Append(r, e), X) = Plus(Those(r, X), e, X)
    <2>1. E[Append(r, e)] = step[E[r]][e] /\ E[r] \in T
      BY <1>6 DEF Grows
    <2>2. step[E[r]][e] = Plus(E[r], e, X)
      BY <1>5, <2>1
    <2> QED BY <1>5, <2>1, <2>2
  <1> QED BY <1>7, <1>8 DEF T, empty

(* One more piece.                                                         *)
Heavier(sum, p) == sum + Size[p]

(* So does Tokens.                                                         *)
LEMMA TokensForm ==
    /\ Tokens(<<>>) = 0
    /\ \A r \in Seq(Pieces) : Tokens(r) \in Nat
    /\ \A r \in Seq(Pieces), e \in Pieces : Tokens(Append(r, e)) = Heavier(Tokens(r), e)
  <1> DEFINE T == Nat
             empty == 0
             step == [a \in T |-> [c \in Pieces |-> Heavier(a, c)]]
             E == [r \in Seq(Pieces) |-> Tokens(r)]
  <1>1. \A a \in T, e \in Pieces : Heavier(a, e) \in T
    <2>1. \A p \in Pieces : Size[p] \in Nat
      BY ChunkerAssumption
    <2> QED BY <2>1 DEF Heavier
  <1>2. empty \in T
    OBVIOUS
  <1>3. step \in [T -> [Pieces -> T]]
    <2> HIDE DEF T
    <2> QED BY <1>1
  <1>4. ASSUME NEW r \in Seq(Pieces)
        PROVE  \E x : Runs(x, Len(r), T, empty, StepsOf(step, r, T)) /\ x[Len(r)] = E[r]
    <2> DEFINE n == Len(r)
               G == StepsOf(step, r, T)
               Folds(h) == h = [s \in SUBSET (1..n) |->
                                    IF s = {} THEN empty
                                    ELSE Heavier(h[s \ {Max(s)}], r[Max(s)])]
               fold == CHOOSE h : Folds(h)
    <2>1. n \in Nat /\ DOMAIN r = 1..n /\ \A i \in 1..n : r[i] \in Pieces
      OBVIOUS
    <2>2. E[r] = fold[1..n]
      BY <2>1 DEF Tokens, Heavier, FoldLeft, MapThenFoldSet
    <2>3. \A s \in SUBSET (1..n) : s # {} => Max(s) \in 1..n
      BY <2>1, LastIsThere
    <2>4. \A i \in 1..n : \A a \in T : G[i][a] = Heavier(a, r[i])
      BY <2>1 DEF StepsOf
    <2> HIDE DEF T, empty, step, E
    <2>5. G \in StepsOn(n, T)
      BY <1>3, StepsOfForm
    <2> HIDE DEF n, G
    <2>6. PICK g \in [SUBSET (1..n) -> T] : FoldsBy(g, n, T, empty, G)
      BY <1>2, <2>1, <2>5, FoldExists
    <2>7. Folds(fold)
      <3>1. Folds(g)
        BY <2>3, <2>4, <2>6 DEF FoldsBy
      <3> QED BY <3>1
    <2> HIDE DEF fold
    <2>8. FoldsBy(fold, n, T, empty, G)
      BY <2>3, <2>4, <2>7 DEF FoldsBy
    <2>9. PICK x : Runs(x, n, T, empty, G) /\ x[n] = fold[1..n]
      BY <1>2, <2>1, <2>5, <2>8, FoldRuns
    <2> QED BY <2>2, <2>9 DEF n, G
  <1>5. /\ \A r \in Seq(Pieces) : E[r] = Tokens(r)
        /\ \A a \in T, e \in Pieces : step[a][e] = Heavier(a, e)
        /\ <<>> \in Seq(Pieces) /\ \A r \in Seq(Pieces), e \in Pieces : Append(r, e) \in Seq(Pieces)
    OBVIOUS
  <1> HIDE DEF T, empty, step, E
  <1>6. Grows(E, Pieces, T, empty, step)
    <2>1. Computes(E, Pieces, T, empty, step)
      BY <1>3, <1>4 DEF Computes
    <2> QED BY <2>1, AppendLaw
  <1>7. Tokens(<<>>) = empty /\ \A r \in Seq(Pieces) : Tokens(r) \in T
    BY <1>5, <1>6 DEF Grows
  <1>8. ASSUME NEW r \in Seq(Pieces), NEW e \in Pieces
        PROVE  Tokens(Append(r, e)) = Heavier(Tokens(r), e)
    <2>1. E[Append(r, e)] = step[E[r]][e] /\ E[r] \in T
      BY <1>6 DEF Grows
    <2>2. step[E[r]][e] = Heavier(E[r], e)
      BY <1>5, <2>1
    <2> QED BY <1>5, <2>1, <2>2
  <1> QED BY <1>7, <1>8 DEF T, empty

(* FlattenSeq joins one sequence after the other.                          *)
LEMMA FlattenForm ==
    ASSUME NEW S
    PROVE  /\ FlattenSeq(<<>>) = <<>>
           /\ \A r \in Seq(Seq(S)) : FlattenSeq(r) \in Seq(S)
           /\ \A r \in Seq(Seq(S)), e \in Seq(S) : FlattenSeq(Append(r, e)) = FlattenSeq(r) \o e
  <1> DEFINE T == Seq(S)
             empty == <<>>
             step == [a \in T |-> [c \in Seq(S) |-> a \o c]]
             E == [r \in Seq(Seq(S)) |-> FlattenSeq(r)]
  <1>1. \A a \in T, e \in Seq(S) : a \o e \in T
    OBVIOUS
  <1>2. empty \in T
    OBVIOUS
  <1>3. step \in [T -> [Seq(S) -> T]]
    <2> HIDE DEF T
    <2> QED BY <1>1
  <1>4. ASSUME NEW r \in Seq(Seq(S))
        PROVE  \E x : Runs(x, Len(r), T, empty, StepsOf(step, r, T)) /\ x[Len(r)] = E[r]
    <2> DEFINE n == Len(r)
               G == StepsOf(step, r, T)
               Solves(f) == f = [i \in 1..n |-> IF i = 1 THEN r[i] ELSE f[i - 1] \o r[i]]
               flatten == CHOOSE f : Solves(f)
    <2>1. n \in Nat /\ DOMAIN r = 1..n /\ \A i \in 1..n : r[i] \in Seq(S)
      OBVIOUS
    <2>2. FlattenSeq(r) = IF n = 0 THEN <<>> ELSE flatten[n]
      <3>1. n = 0 => r = <<>>
        OBVIOUS
      <3>2. n # 0 => FlattenSeq(r) = flatten[n]
        BY DEF FlattenSeq
      <3>3. n = 0 => FlattenSeq(r) = r
        BY DEF FlattenSeq
      <3> QED BY <3>1, <3>2, <3>3
    <2>3. \A i \in 1..n : \A a \in T : G[i][a] = a \o r[i]
      BY <2>1 DEF StepsOf
    <2>4. \A i \in 1..n : empty \o r[i] = r[i]
      BY <2>1
    <2>5. E[r] = FlattenSeq(r)
      OBVIOUS
    <2> HIDE DEF T, empty, step, E
    <2>6. G \in StepsOn(n, T)
      BY <1>3, StepsOfForm
    <2> HIDE DEF n, G
    <2>7. PICK g \in [SUBSET (1..n) -> T] : FoldsBy(g, n, T, empty, G)
      BY <1>2, <2>1, <2>6, FoldExists
    <2>8. PICK x : Runs(x, n, T, empty, G)
      BY <1>2, <2>1, <2>6, <2>7, FoldRuns
    <2>9. x \in [0..n -> T] /\ x[0] = empty
      BY <2>8 DEF Runs
    <2>10. \A i \in 1..n : x[i] = x[i - 1] \o r[i]
      <3>1. \A i \in 1..n : i - 1 \in 0..n
        BY <2>1
      <3> QED BY <2>3, <2>8, <2>9, <3>1 DEF Runs
    <2>11. Solves(flatten)
      <3> DEFINE f == [i \in 1..n |-> x[i]]
      <3>1. ASSUME NEW i \in 1..n PROVE x[i] = IF i = 1 THEN r[i] ELSE f[i - 1] \o r[i]
        <4>1. i # 1 => i - 1 \in 1..n
          BY <2>1
        <4>2. x[i] = x[i - 1] \o r[i]
          BY <2>10
        <4>3. i = 1 => x[i - 1] = empty
          BY <2>9
        <4>4. i # 1 => f[i - 1] = x[i - 1]
          BY <4>1
        <4> QED BY <2>4, <4>2, <4>3, <4>4
      <3>2. f = [i \in 1..n |-> IF i = 1 THEN r[i] ELSE f[i - 1] \o r[i]]
        BY <3>1
      <3> HIDE DEF f
      <3>3. Solves(f)
        BY <3>2
      <3> QED BY <3>3
    <2> HIDE DEF flatten
    <2> DEFINE N == {i \in Nat : 0 < i /\ i <= n => flatten[i] = x[i]}
    <2>12. 0 \in N
      OBVIOUS
    <2>13. ASSUME NEW i \in Nat, i \in N PROVE i + 1 \in N
      <3> SUFFICES ASSUME i + 1 <= n PROVE flatten[i + 1] = x[i + 1]
        OBVIOUS
      <3> DEFINE j == i + 1
      <3>1. j \in 1..n /\ j - 1 = i /\ (j = 1 <=> i = 0) /\ i <= n
        BY <2>1
      <3>2. i # 0 => flatten[i] = x[i]
        BY <2>13, <3>1
      <3> HIDE DEF j
      <3>3. flatten[j] = IF i = 0 THEN r[j] ELSE flatten[i] \o r[j]
        <4>1. \A k \in 1..n : flatten[k] = IF k = 1 THEN r[k] ELSE flatten[k - 1] \o r[k]
          BY <2>11
        <4> QED BY <3>1, <4>1
      <3>4. x[j] = x[i] \o r[j] /\ (i = 0 => x[i] = empty)
        BY <2>9, <2>10, <3>1
      <3>5. empty \o r[j] = r[j]
        BY <2>4, <3>1
      <3>6. flatten[j] = x[j]
        BY <3>2, <3>3, <3>4, <3>5
      <3> QED BY <3>6 DEF j
    <2>14. n \in N
      <3> HIDE DEF N
      <3> QED BY <2>1, <2>12, <2>13, ForEveryNumber
    <2>15. n # 0 => flatten[n] = x[n]
      BY <2>1, <2>14
    <2>16. x[n] = FlattenSeq(r)
      BY <2>2, <2>9, <2>15 DEF empty
    <2> QED BY <2>5, <2>8, <2>16 DEF n, G
  <1>5. /\ \A r \in Seq(Seq(S)) : E[r] = FlattenSeq(r)
        /\ \A a \in T, e \in Seq(S) : step[a][e] = a \o e
        /\ <<>> \in Seq(Seq(S))
        /\ \A r \in Seq(Seq(S)), e \in Seq(S) : Append(r, e) \in Seq(Seq(S))
    OBVIOUS
  <1> HIDE DEF T, empty, step, E
  <1>6. Grows(E, Seq(S), T, empty, step)
    <2>1. Computes(E, Seq(S), T, empty, step)
      BY <1>3, <1>4 DEF Computes
    <2> QED BY <2>1, AppendLaw
  <1>7. FlattenSeq(<<>>) = empty /\ \A r \in Seq(Seq(S)) : FlattenSeq(r) \in T
    BY <1>5, <1>6 DEF Grows
  <1>8. ASSUME NEW r \in Seq(Seq(S)), NEW e \in Seq(S)
        PROVE  FlattenSeq(Append(r, e)) = FlattenSeq(r) \o e
    <2>1. E[Append(r, e)] = step[E[r]][e] /\ E[r] \in T
      BY <1>6 DEF Grows
    <2>2. step[E[r]][e] = E[r] \o e
      BY <1>5, <2>1
    <2> QED BY <1>5, <2>1, <2>2
  <1> QED BY <1>7, <1>8 DEF T, empty

(* One element more.                                                       *)
LEMMA AppendForm ==
    ASSUME NEW S, NEW r \in Seq(S), NEW e \in S
    PROVE  /\ Append(r, e) \in Seq(S) /\ Len(Append(r, e)) = Len(r) + 1
           /\ Append(r, e)[Len(r) + 1] = e
           /\ \A i \in DOMAIN r : Append(r, e)[i] = r[i] /\ i \in DOMAIN Append(r, e)
           /\ \A i \in DOMAIN Append(r, e) : i = Len(r) + 1 \/ i \in DOMAIN r
           /\ Len(r) + 1 \in DOMAIN Append(r, e)
           /\ ToSet(Append(r, e)) = ToSet(r) \cup {e}
  <1> DEFINE q == Append(r, e)
  <1>1. /\ q \in Seq(S) /\ Len(q) = Len(r) + 1 /\ q[Len(r) + 1] = e
        /\ \A i \in DOMAIN r : q[i] = r[i] /\ i \in DOMAIN q
        /\ \A i \in DOMAIN q : i = Len(r) + 1 \/ i \in DOMAIN r
        /\ Len(r) + 1 \in DOMAIN q
    OBVIOUS
  <1> HIDE DEF q
  <1>2. ToSet(q) = ToSet(r) \cup {e}
    BY <1>1 DEF ToSet
  <1> QED BY <1>1, <1>2 DEF q

(* Two sequences joined.                                                   *)
LEMMA JoinForm ==
    ASSUME NEW S, NEW y \in Seq(S), NEW s \in Seq(S)
    PROVE  /\ y \o s \in Seq(S)
           /\ ToSet(y \o s) = ToSet(y) \cup ToSet(s)
           /\ IsWithin(s, y \o s)
           /\ \A p \in Seq(S) : IsWithin(p, y) => IsWithin(p, y \o s)
  <1> DEFINE z == y \o s
  <1>1. /\ z \in Seq(S) /\ Len(z) = Len(y) + Len(s)
        /\ \A a \in 1..Len(y) : z[a] = y[a]
        /\ \A a \in 1..Len(s) : z[Len(y) + a] = s[a]
        /\ DOMAIN z = 1..(Len(y) + Len(s)) /\ DOMAIN y = 1..Len(y) /\ DOMAIN s = 1..Len(s)
        /\ Len(y) \in Nat /\ Len(s) \in Nat
    OBVIOUS
  <1>2. IsWithin(s, z)
    <2>1. Len(y) \in 0..(Len(z) - Len(s))
      BY <1>1
    <2>2. SubSeq(z, Len(y) + 1, Len(y) + Len(s)) = s
      OBVIOUS
    <2> QED BY <2>1, <2>2 DEF IsWithin
  <1> HIDE DEF z
  <1>3. ToSet(z) = ToSet(y) \cup ToSet(s)
    <2>1. \A a \in 1..(Len(y) + Len(s)) : a \in 1..Len(y) \/ \E b \in 1..Len(s) : a = Len(y) + b
      <3> SUFFICES ASSUME NEW a \in 1..(Len(y) + Len(s)), a \notin 1..Len(y)
                   PROVE  \E b \in 1..Len(s) : a = Len(y) + b
        OBVIOUS
      <3>1. a - Len(y) \in 1..Len(s) /\ a = Len(y) + (a - Len(y))
        BY <1>1
      <3> QED BY <3>1
    <2>2. \A a \in 1..Len(y) : a \in 1..(Len(y) + Len(s))
      BY <1>1
    <2>3. \A b \in 1..Len(s) : Len(y) + b \in 1..(Len(y) + Len(s))
      BY <1>1
    <2>4. /\ ToSet(z) = {z[a] : a \in 1..(Len(y) + Len(s))}
          /\ ToSet(y) = {y[a] : a \in 1..Len(y)}
          /\ ToSet(s) = {s[a] : a \in 1..Len(s)}
      BY <1>1 DEF ToSet
    <2>5. ASSUME NEW e \in ToSet(z) PROVE e \in ToSet(y) \cup ToSet(s)
      BY <1>1, <2>1, <2>4
    <2>6. ASSUME NEW e \in ToSet(y) PROVE e \in ToSet(z)
      BY <1>1, <2>2, <2>4
    <2>7. ASSUME NEW e \in ToSet(s) PROVE e \in ToSet(z)
      BY <1>1, <2>3, <2>4
    <2> QED BY <2>5, <2>6, <2>7
  <1>4. ASSUME NEW p \in Seq(S), IsWithin(p, y) PROVE IsWithin(p, z)
    <2> DEFINE l == Len(p)
    <2>1. PICK k \in 0..(Len(y) - l) : SubSeq(y, k + 1, k + l) = p
      BY <1>4 DEF IsWithin
    <2>2. l \in Nat /\ k \in Nat /\ k + l <= Len(y)
      BY <1>1
    <2>3. k \in 0..(Len(z) - l)
      <3> HIDE DEF l
      <3> QED BY <1>1, <2>2
    <2>4. SubSeq(z, k + 1, k + l) = SubSeq(y, k + 1, k + l)
      <3>1. \A a \in (k + 1)..(k + l) : a \in 1..Len(y)
        <4> HIDE DEF l
        <4> QED BY <1>1, <2>2
      <3>2. \A a \in (k + 1)..(k + l) : z[a] = y[a]
        BY <1>1, <3>1
      <3>3. /\ SubSeq(z, k + 1, k + l) = [i \in 1..l |-> z[i + k]]
            /\ SubSeq(y, k + 1, k + l) = [i \in 1..l |-> y[i + k]]
        <4>1. /\ SubSeq(z, k + 1, k + l) = [i \in 1..((k + l) - (k + 1) + 1) |-> z[i + (k + 1) - 1]]
              /\ SubSeq(y, k + 1, k + l) = [i \in 1..((k + l) - (k + 1) + 1) |-> y[i + (k + 1) - 1]]
          OBVIOUS
        <4>2. (k + l) - (k + 1) + 1 = l /\ \A i \in 1..l : i + (k + 1) - 1 = i + k
          <5> HIDE DEF l
          <5> QED BY <2>2
        <4> QED BY <4>1, <4>2
      <3>4. \A i \in 1..l : i + k \in (k + 1)..(k + l)
        <4> HIDE DEF l
        <4> QED BY <2>2
      <3> QED BY <3>2, <3>3, <3>4
    <2> QED BY <2>1, <2>3, <2>4 DEF IsWithin
  <1> QED BY <1>1, <1>2, <1>3, <1>4 DEF z

(* No element twice.                                                       *)
Once(r) == \A i, j \in DOMAIN r : r[i] = r[j] => i = j

(* Nothing.                                                                *)
LEMMA NoneForm == ToSet(<<>>) = {} /\ Once(<<>>)
  BY DEF ToSet, Once

(* An element that was not there keeps it so.                              *)
LEMMA OnceMore ==
    ASSUME NEW S, NEW r \in Seq(S), NEW e \in S
    PROVE  Once(Append(r, e)) <=> Once(r) /\ e \notin ToSet(r)
  <1> DEFINE q == Append(r, e)
  <1>1. /\ q[Len(r) + 1] = e
        /\ \A i \in DOMAIN r : q[i] = r[i] /\ i \in DOMAIN q
        /\ \A i \in DOMAIN q : i = Len(r) + 1 \/ i \in DOMAIN r
        /\ Len(r) + 1 \in DOMAIN q
        /\ Len(r) + 1 \notin DOMAIN r
    OBVIOUS
  <1> HIDE DEF q
  <1>2. ToSet(r) = {r[i] : i \in DOMAIN r}
    BY DEF ToSet
  <1>3. CASE Once(r) /\ e \notin ToSet(r)
    BY <1>1, <1>2, <1>3 DEF Once, q
  <1>4. ASSUME Once(q) PROVE Once(r) /\ e \notin ToSet(r)
    BY <1>1, <1>2, <1>4 DEF Once
  <1> QED BY <1>3, <1>4 DEF q

(* Those elements are those in the set, and none more often than before.   *)
LEMMA ThoseKeeps ==
    ASSUME NEW S, NEW X, NEW r \in Seq(S)
    PROVE  /\ Those(r, X) \in Seq(S)
           /\ ToSet(Those(r, X)) = ToSet(r) \cap X
           /\ Once(r) => Once(Those(r, X))
  <1> DEFINE Right(q) == /\ Those(q, X) \in Seq(S)
                         /\ ToSet(Those(q, X)) = ToSet(q) \cap X
                         /\ Once(q) => Once(Those(q, X))
             N == {q \in Seq(S) : Right(q)}
  <1>1. <<>> \in N
    <2>1. Those(<<>>, X) = <<>>
      BY ThoseForm
    <2>2. <<>> \in Seq(S)
      OBVIOUS
    <2> QED BY <2>1, <2>2, NoneForm
  <1>2. ASSUME NEW q \in Seq(S), NEW e \in S, q \in N PROVE Append(q, e) \in N
    <2> DEFINE t == Those(q, X)
    <2>1. Those(Append(q, e), X) = Plus(t, e, X) /\ t \in Seq(S)
      BY ThoseForm
    <2>2. ToSet(t) = ToSet(q) \cap X /\ (Once(q) => Once(t))
      BY <1>2
    <2>3. /\ Append(q, e) \in Seq(S) /\ ToSet(Append(q, e)) = ToSet(q) \cup {e}
          /\ Once(Append(q, e)) => Once(q) /\ e \notin ToSet(q)
      BY AppendForm, OnceMore
    <2> HIDE DEF t
    <2>4. /\ Append(t, e) \in Seq(S) /\ ToSet(Append(t, e)) = ToSet(t) \cup {e}
          /\ Once(t) /\ e \notin ToSet(t) => Once(Append(t, e))
      BY <2>1, AppendForm, OnceMore
    <2>5. Right(Append(q, e))
      <3> DEFINE u == Append(q, e)
      <3> HIDE DEF u
      <3>1. CASE e \in X
        <4>1. Those(u, X) = Append(t, e)
          BY <2>1, <3>1 DEF Plus, u
        <4> QED BY <2>2, <2>3, <2>4, <3>1, <4>1 DEF u
      <3>2. CASE e \notin X
        <4>1. Those(u, X) = t
          BY <2>1, <3>2 DEF Plus, u
        <4> QED BY <2>1, <2>2, <2>3, <3>2, <4>1 DEF u
      <3> QED BY <3>1, <3>2
    <2> QED BY <2>3, <2>5
  <1>3. r \in N
    <2> HIDE DEF N
    <2> QED BY <1>1, <1>2, ForEverySequence
  <1> QED BY <1>3

(* What joined sequences contain, each of them whole.                      *)
LEMMA FlattenKeeps ==
    ASSUME NEW S, NEW r \in Seq(Seq(S))
    PROVE  /\ FlattenSeq(r) \in Seq(S)
           /\ ToSet(FlattenSeq(r)) = UNION {ToSet(s) : s \in ToSet(r)}
           /\ \A s \in ToSet(r) : IsWithin(s, FlattenSeq(r))
  <1> DEFINE Right(q) == /\ FlattenSeq(q) \in Seq(S)
                         /\ ToSet(FlattenSeq(q)) = UNION {ToSet(s) : s \in ToSet(q)}
                         /\ \A s \in ToSet(q) : s \in Seq(S) /\ IsWithin(s, FlattenSeq(q))
             N == {q \in Seq(Seq(S)) : Right(q)}
  <1>1. <<>> \in N
    <2>1. FlattenSeq(<<>>) = <<>>
      BY FlattenForm
    <2>2. <<>> \in Seq(Seq(S)) /\ <<>> \in Seq(S)
      OBVIOUS
    <2> QED BY <2>1, <2>2, NoneForm
  <1>2. ASSUME NEW q \in Seq(Seq(S)), NEW e \in Seq(S), q \in N PROVE Append(q, e) \in N
    <2> DEFINE t == FlattenSeq(q)
               u == Append(q, e)
    <2>1. FlattenSeq(u) = t \o e /\ t \in Seq(S)
      BY FlattenForm
    <2>2. u \in Seq(Seq(S)) /\ ToSet(u) = ToSet(q) \cup {e}
      <3>1. \A x \in Seq(Seq(S)), y \in Seq(S) : ToSet(Append(x, y)) = ToSet(x) \cup {y}
        BY AppendForm
      <3> QED BY <3>1
    <2>3. Right(q)
      BY <1>2
    <2> HIDE DEF t, u
    <2>4. /\ t \o e \in Seq(S) /\ ToSet(t \o e) = ToSet(t) \cup ToSet(e)
          /\ IsWithin(e, t \o e)
          /\ \A s \in ToSet(q) : IsWithin(s, t \o e)
      BY <2>1, <2>3, JoinForm DEF t
    <2> QED BY <2>1, <2>2, <2>3, <2>4 DEF t, u
  <1>3. r \in N
    <2> HIDE DEF N
    <2> QED BY <1>1, <1>2, ForEverySequence
  <1> QED BY <1>3

(* Tokens add up.                                                          *)
LEMMA TokensJoined ==
    ASSUME NEW a \in Seq(Pieces), NEW b \in Seq(Pieces)
    PROVE  Tokens(a \o b) = Tokens(a) + Tokens(b)
  <1> DEFINE N == {q \in Seq(Pieces) : Tokens(a \o q) = Tokens(a) + Tokens(q)}
  <1>1. <<>> \in N
    <2>1. Tokens(<<>>) = 0 /\ Tokens(a) \in Nat
      BY TokensForm
    <2>2. a \o <<>> = a
      OBVIOUS
    <2>3. <<>> \in Seq(Pieces) /\ Tokens(a) + 0 = Tokens(a)
      BY <2>1
    <2> QED BY <2>1, <2>2, <2>3
  <1>2. ASSUME NEW q \in Seq(Pieces), NEW e \in Pieces, q \in N PROVE Append(q, e) \in N
    <2>1. a \o Append(q, e) = Append(a \o q, e) /\ a \o q \in Seq(Pieces)
          /\ Append(q, e) \in Seq(Pieces)
      OBVIOUS
    <2>2. /\ Tokens(Append(a \o q, e)) = Tokens(a \o q) + Size[e]
          /\ Tokens(Append(q, e)) = Tokens(q) + Size[e]
          /\ Tokens(a) \in Nat /\ Tokens(q) \in Nat
      BY <2>1, TokensForm DEF Heavier
    <2>3. Size[e] \in Nat
      BY ChunkerAssumption
    <2>4. Tokens(a \o q) = Tokens(a) + Tokens(q)
      BY <1>2
    <2>5. Tokens(a \o Append(q, e)) = Tokens(a) + Tokens(Append(q, e))
      BY <2>1, <2>2, <2>3, <2>4
    <2> QED BY <2>1, <2>5
  <1>3. b \in N
    <2> HIDE DEF N
    <2> QED BY <1>1, <1>2, ForEverySequence
  <1> QED BY <1>3

(* A piece alone.                                                          *)
LEMMA TokensOfOne == \A p \in Pieces : Tokens(<<p>>) = Size[p] /\ Size[p] \in Nat
  <1> SUFFICES ASSUME NEW p \in Pieces PROVE Tokens(<<p>>) = Size[p] /\ Size[p] \in Nat
    OBVIOUS
  <1>1. <<p>> = Append(<<>>, p) /\ <<>> \in Seq(Pieces)
    OBVIOUS
  <1>2. Tokens(<<p>>) = Tokens(<<>>) + Size[p] /\ Tokens(<<>>) = 0
    BY <1>1, TokensForm DEF Heavier
  <1>3. Size[p] \in Nat
    BY ChunkerAssumption
  <1> QED BY <1>2, <1>3

(* One element more is joined at the end.                                  *)
LEMMA JoinOneMore ==
    ASSUME NEW S, NEW s \in Seq(S), NEW t \in Seq(S), NEW e \in S
    PROVE  s \o Append(t, e) = Append(s \o t, e)
  OBVIOUS

(* Of two sequences joined, Those are joined.                              *)
LEMMA ThoseJoined ==
    ASSUME NEW S, NEW X, NEW a \in Seq(S), NEW b \in Seq(S)
    PROVE  Those(a \o b, X) = Those(a, X) \o Those(b, X)
  <1> DEFINE N == {q \in Seq(S) : Those(a \o q, X) = Those(a, X) \o Those(q, X)}
  <1>1. <<>> \in N
    <2>1. Those(<<>>, X) = <<>> /\ Those(a, X) \in Seq(S)
      BY ThoseForm
    <2>2. \A r \in Seq(S) : r \o <<>> = r
      OBVIOUS
    <2> QED BY <2>1, <2>2
  <1>2. ASSUME NEW q \in Seq(S), NEW e \in S, q \in N PROVE Append(q, e) \in N
    <2>1. a \o Append(q, e) = Append(a \o q, e) /\ a \o q \in Seq(S) /\ Append(q, e) \in Seq(S)
      OBVIOUS
    <2>2. /\ Those(Append(a \o q, e), X) = Plus(Those(a \o q, X), e, X)
          /\ Those(Append(q, e), X) = Plus(Those(q, X), e, X)
          /\ Those(a, X) \in Seq(S) /\ Those(q, X) \in Seq(S)
      BY <2>1, ThoseForm
    <2>3. ASSUME NEW s \in Seq(S), NEW t \in Seq(S)
          PROVE  Plus(s \o t, e, X) = s \o Plus(t, e, X)
      <3>1. s \o Append(t, e) = Append(s \o t, e)
        BY JoinOneMore
      <3> QED BY <3>1 DEF Plus
    <2>4. Those(a \o Append(q, e), X) = Those(a, X) \o Those(Append(q, e), X)
      <3> DEFINE u == Those(a, X)
                 v == Those(q, X)
      <3>1. Those(a \o q, X) = u \o v
        BY <1>2
      <3>2. Those(Append(a \o q, e), X) = Plus(u \o v, e, X)
        BY <2>2, <3>1
      <3>3. u \in Seq(S) /\ v \in Seq(S) /\ Those(Append(q, e), X) = Plus(v, e, X)
        BY <2>2
      <3> HIDE DEF u, v
      <3>4. Plus(u \o v, e, X) = u \o Plus(v, e, X)
        BY <2>3, <3>3
      <3>5. Those(a \o Append(q, e), X) = u \o Those(Append(q, e), X)
        BY <2>1, <3>2, <3>3, <3>4
      <3> QED BY <3>5 DEF u
    <2> QED BY <2>1, <2>4
  <1>3. b \in N
    <2> HIDE DEF N
    <2> QED BY <1>1, <1>2, ForEverySequence
  <1> QED BY <1>3

(* All of them, or none.                                                   *)
LEMMA ThoseAre ==
    ASSUME NEW S, NEW X, NEW r \in Seq(S)
    PROVE  /\ ToSet(r) \subseteq X => Those(r, X) = r
           /\ ToSet(r) \cap X = {} => Those(r, X) = <<>>
  <1> DEFINE N == {q \in Seq(S) : /\ ToSet(q) \subseteq X => Those(q, X) = q
                                  /\ ToSet(q) \cap X = {} => Those(q, X) = <<>>}
  <1>1. <<>> \in N
    <2>1. Those(<<>>, X) = <<>> /\ <<>> \in Seq(S)
      BY ThoseForm
    <2> QED BY <2>1
  <1>2. ASSUME NEW q \in Seq(S), NEW e \in S, q \in N PROVE Append(q, e) \in N
    <2>1. ToSet(Append(q, e)) = ToSet(q) \cup {e} /\ Append(q, e) \in Seq(S)
      BY AppendForm
    <2>2. Those(Append(q, e), X) = Plus(Those(q, X), e, X)
      BY ThoseForm
    <2> QED BY <1>2, <2>1, <2>2 DEF Plus
  <1>3. r \in N
    <2> HIDE DEF N
    <2> QED BY <1>1, <1>2, ForEverySequence
  <1> QED BY <1>3

(* What a block is.                                                        *)
BlockSet == [pieces : Seq(Pieces), level : 0..6, code : BOOLEAN, section : Seq(Pieces)]

(* One more block.                                                         *)
Longer(sum, b) == sum + Tokens(b.pieces)

(* TokensOf goes through blocks one by one.                                *)
LEMMA TokensOfForm ==
    /\ TokensOf(<<>>) = 0
    /\ \A r \in Seq(BlockSet) : TokensOf(r) \in Nat
    /\ \A r \in Seq(BlockSet), e \in BlockSet : TokensOf(Append(r, e)) = Longer(TokensOf(r), e)
  <1> DEFINE T == Nat
             empty == 0
             step == [a \in T |-> [c \in BlockSet |-> Longer(a, c)]]
             E == [r \in Seq(BlockSet) |-> TokensOf(r)]
  <1>1. \A a \in T, e \in BlockSet : Longer(a, e) \in T
    <2>1. \A b \in BlockSet : Tokens(b.pieces) \in Nat
      BY TokensForm DEF BlockSet
    <2> QED BY <2>1 DEF Longer
  <1>2. empty \in T
    OBVIOUS
  <1>3. step \in [T -> [BlockSet -> T]]
    <2> HIDE DEF T
    <2> QED BY <1>1
  <1>4. ASSUME NEW r \in Seq(BlockSet)
        PROVE  \E x : Runs(x, Len(r), T, empty, StepsOf(step, r, T)) /\ x[Len(r)] = E[r]
    <2> DEFINE n == Len(r)
               G == StepsOf(step, r, T)
               Folds(h) == h = [s \in SUBSET (1..n) |->
                                    IF s = {} THEN empty
                                    ELSE Longer(h[s \ {Max(s)}], r[Max(s)])]
               fold == CHOOSE h : Folds(h)
    <2>1. n \in Nat /\ DOMAIN r = 1..n /\ \A i \in 1..n : r[i] \in BlockSet
      OBVIOUS
    <2>2. E[r] = fold[1..n]
      BY <2>1 DEF TokensOf, Longer, FoldLeft, MapThenFoldSet
    <2>3. \A s \in SUBSET (1..n) : s # {} => Max(s) \in 1..n
      BY <2>1, LastIsThere
    <2>4. \A i \in 1..n : \A a \in T : G[i][a] = Longer(a, r[i])
      BY <2>1 DEF StepsOf
    <2> HIDE DEF T, empty, step, E
    <2>5. G \in StepsOn(n, T)
      BY <1>3, StepsOfForm
    <2> HIDE DEF n, G
    <2>6. PICK g \in [SUBSET (1..n) -> T] : FoldsBy(g, n, T, empty, G)
      BY <1>2, <2>1, <2>5, FoldExists
    <2>7. Folds(fold)
      <3>1. Folds(g)
        BY <2>3, <2>4, <2>6 DEF FoldsBy
      <3> QED BY <3>1
    <2> HIDE DEF fold
    <2>8. FoldsBy(fold, n, T, empty, G)
      BY <2>3, <2>4, <2>7 DEF FoldsBy
    <2>9. PICK x : Runs(x, n, T, empty, G) /\ x[n] = fold[1..n]
      BY <1>2, <2>1, <2>5, <2>8, FoldRuns
    <2> QED BY <2>2, <2>9 DEF n, G
  <1>5. /\ \A r \in Seq(BlockSet) : E[r] = TokensOf(r)
        /\ \A a \in T, e \in BlockSet : step[a][e] = Longer(a, e)
        /\ <<>> \in Seq(BlockSet)
        /\ \A r \in Seq(BlockSet), e \in BlockSet : Append(r, e) \in Seq(BlockSet)
    OBVIOUS
  <1> HIDE DEF T, empty, step, E
  <1>6. Grows(E, BlockSet, T, empty, step)
    <2>1. Computes(E, BlockSet, T, empty, step)
      BY <1>3, <1>4 DEF Computes
    <2> QED BY <2>1, AppendLaw
  <1>7. TokensOf(<<>>) = empty /\ \A r \in Seq(BlockSet) : TokensOf(r) \in T
    BY <1>5, <1>6 DEF Grows
  <1>8. ASSUME NEW r \in Seq(BlockSet), NEW e \in BlockSet
        PROVE  TokensOf(Append(r, e)) = Longer(TokensOf(r), e)
    <2>1. E[Append(r, e)] = step[E[r]][e] /\ E[r] \in T
      BY <1>6 DEF Grows
    <2>2. step[E[r]][e] = Longer(E[r], e)
      BY <1>5, <2>1
    <2> QED BY <1>5, <2>1, <2>2
  <1> QED BY <1>7, <1>8 DEF T, empty

(* What blocks, or lines, say.                                             *)
Texts(r) == UNION {ToSet(b.pieces) : b \in ToSet(r)}

(* Tokens of blocks add up.                                                *)
LEMMA TokensOfJoined ==
    ASSUME NEW a \in Seq(BlockSet), NEW b \in BlockSet
    PROVE  /\ TokensOf(Append(a, b)) = TokensOf(a) + Tokens(b.pieces)
           /\ TokensOf(a) \in Nat /\ Tokens(b.pieces) \in Nat
           /\ TokensOf(<<b>>) = Tokens(b.pieces) /\ TokensOf(<<>>) = 0
           /\ Texts(Append(a, b)) = Texts(a) \cup ToSet(b.pieces)
           /\ Texts(<<b>>) = ToSet(b.pieces)
  <1>1. b.pieces \in Seq(Pieces)
    BY DEF BlockSet
  <1>2. /\ TokensOf(Append(a, b)) = TokensOf(a) + Tokens(b.pieces)
        /\ TokensOf(a) \in Nat /\ Tokens(b.pieces) \in Nat
    BY <1>1, TokensOfForm, TokensForm DEF Longer
  <1>3. TokensOf(<<b>>) = Tokens(b.pieces) /\ TokensOf(<<>>) = 0
    <2>1. <<b>> = Append(<<>>, b) /\ <<>> \in Seq(BlockSet)
      OBVIOUS
    <2>2. TokensOf(<<b>>) = TokensOf(<<>>) + Tokens(b.pieces) /\ TokensOf(<<>>) = 0
      BY <2>1, TokensOfForm DEF Longer
    <2> QED BY <1>2, <2>2
  <1>4. ToSet(Append(a, b)) = ToSet(a) \cup {b}
    BY AppendForm
  <1>5. ToSet(<<b>>) = {b}
    BY DEF ToSet
  <1> QED BY <1>2, <1>3, <1>4, <1>5 DEF Texts

----------------------------------------------------------------------------
(* Reading a document: from lines to blocks.                               *)

(* A block says what its lines say.                                        *)
LEMMA BlockForm ==
    ASSUME NEW lines \in Seq(Lines), NEW level \in 0..6, NEW code \in BOOLEAN,
           NEW path \in Seq(Pieces)
    PROVE  /\ Block(lines, level, code, path) \in BlockSet
           /\ ToSet(Block(lines, level, code, path).pieces) = Texts(lines)
  <1> DEFINE said == [i \in DOMAIN lines |-> lines[i].pieces]
  <1>1. \A i \in DOMAIN lines : lines[i] \in Lines /\ lines[i].pieces \in Seq(Pieces)
    BY DEF Lines
  <1>2. said \in Seq(Seq(Pieces))
    BY <1>1
  <1>3. ToSet(said) = {l.pieces : l \in ToSet(lines)}
    BY <1>1 DEF ToSet
  <1> HIDE DEF said
  <1>4. /\ FlattenSeq(said) \in Seq(Pieces)
        /\ ToSet(FlattenSeq(said)) = UNION {ToSet(s) : s \in ToSet(said)}
    BY <1>2, FlattenKeeps
  <1>5. Block(lines, level, code, path)
            = [pieces |-> FlattenSeq(said), level |-> level, code |-> code, section |-> path]
    BY DEF Block, said
  <1>6. UNION {ToSet(s) : s \in ToSet(said)} = Texts(lines)
    BY <1>3 DEF Texts
  <1> DEFINE pieces == FlattenSeq(said)
  <1>7. pieces \in Seq(Pieces) /\ ToSet(pieces) = Texts(lines)
    BY <1>4, <1>6
  <1> HIDE DEF pieces
  <1>8. Block(lines, level, code, path)
            = [pieces |-> pieces, level |-> level, code |-> code, section |-> path]
    BY <1>5 DEF pieces
  <1> QED BY <1>7, <1>8 DEF BlockSet

(* What is said by one block more, and by none.                            *)
LEMMA TextsForm ==
    /\ \A r \in Seq(BlockSet), e \in BlockSet :
           Texts(Append(r, e)) = Texts(r) \cup ToSet(e.pieces)
    /\ \A r \in Seq(Lines), e \in Lines :
           Texts(Append(r, e)) = Texts(r) \cup ToSet(e.pieces)
    /\ Texts(<<>>) = {}
  <1>1. \A r \in Seq(BlockSet), e \in BlockSet : ToSet(Append(r, e)) = ToSet(r) \cup {e}
    BY AppendForm
  <1>2. \A r \in Seq(Lines), e \in Lines : ToSet(Append(r, e)) = ToSet(r) \cup {e}
    BY AppendForm
  <1>3. Texts(<<>>) = {}
    BY NoneForm DEF Texts
  <1> QED BY <1>1, <1>2, <1>3 DEF Texts

(* The states of a reader: outside a fence there is no code.               *)
Readers ==
    {reader \in [blocks : Seq(BlockSet), path : Seq(Pieces), pending : Seq(Lines),
                 fence : {"none"} \cup Fences, code : Seq(Lines)] :
        reader.fence = "none" => reader.code = <<>>}

Says(reader) == Texts(reader.blocks) \cup Texts(reader.pending) \cup Texts(reader.code)

(* A reader of these parts.                                                *)
LEMMA ReaderForm ==
    ASSUME NEW reader \in Readers
    PROVE  /\ reader = [blocks |-> reader.blocks, path |-> reader.path,
                        pending |-> reader.pending, fence |-> reader.fence,
                        code |-> reader.code]
           /\ reader.blocks \in Seq(BlockSet) /\ reader.path \in Seq(Pieces)
           /\ reader.pending \in Seq(Lines) /\ reader.code \in Seq(Lines)
           /\ reader.fence \in {"none"} \cup Fences
           /\ reader.fence = "none" => reader.code = <<>>
  BY DEF Readers

(* Flushing a paragraph loses nothing.                                     *)
LEMMA FlushForm ==
    ASSUME NEW reader \in Readers
    PROVE  /\ Flush(reader) \in Readers /\ Says(Flush(reader)) = Says(reader)
           /\ Flush(reader).pending = <<>> /\ Flush(reader).code = reader.code
           /\ Flush(reader).fence = reader.fence /\ Flush(reader).path = reader.path
  <1> DEFINE b == Block(reader.pending, 0, FALSE, reader.path)
             flushed == [blocks |-> Append(reader.blocks, b), path |-> reader.path,
                         pending |-> <<>>, fence |-> reader.fence, code |-> reader.code]
  <1>0. /\ reader.blocks \in Seq(BlockSet) /\ reader.path \in Seq(Pieces)
        /\ reader.pending \in Seq(Lines)
    BY ReaderForm
  <1>1. b \in BlockSet /\ ToSet(b.pieces) = Texts(reader.pending)
    <2>1. 0 \in 0..6 /\ FALSE \in BOOLEAN /\ TRUE \in BOOLEAN
      OBVIOUS
    <2> QED BY <1>0, <2>1, BlockForm
  <1> HIDE DEF b
  <1>2. Texts(Append(reader.blocks, b)) = Texts(reader.blocks) \cup Texts(reader.pending)
    BY <1>0, <1>1, TextsForm
  <1>3. CASE reader.pending = <<>>
    BY <1>3 DEF Flush
  <1>4. CASE reader.pending # <<>>
    <2>1. Flush(reader) = flushed
      BY <1>4, ReaderForm DEF Flush, b, Readers
    <2>2. flushed \in Readers
      BY <1>1, ReaderForm DEF Readers
    <2>3. Says(flushed) = Says(reader)
      BY <1>2, TextsForm DEF Says
    <2> QED BY <2>1, <2>2, <2>3
  <1> QED BY <1>3, <1>4

(* Nor does closing a fence.                                               *)
LEMMA CloseFenceForm ==
    ASSUME NEW reader \in Readers
    PROVE  /\ CloseFence(reader) \in Readers /\ Says(CloseFence(reader)) = Says(reader)
           /\ CloseFence(reader).code = <<>>
  <1> DEFINE b == Block(reader.code, 0, TRUE, reader.path)
             closed == [blocks |-> Append(reader.blocks, b), path |-> reader.path,
                        pending |-> reader.pending, fence |-> "none", code |-> <<>>]
  <1>0. /\ reader.blocks \in Seq(BlockSet) /\ reader.path \in Seq(Pieces)
        /\ reader.code \in Seq(Lines)
    BY ReaderForm
  <1>1. b \in BlockSet /\ ToSet(b.pieces) = Texts(reader.code)
    <2>1. 0 \in 0..6 /\ FALSE \in BOOLEAN /\ TRUE \in BOOLEAN
      OBVIOUS
    <2> QED BY <1>0, <2>1, BlockForm
  <1> HIDE DEF b
  <1>2. Texts(Append(reader.blocks, b)) = Texts(reader.blocks) \cup Texts(reader.code)
    BY <1>0, <1>1, TextsForm
  <1>3. CASE reader.code = <<>>
    BY <1>3 DEF CloseFence
  <1>4. CASE reader.code # <<>>
    <2>1. CloseFence(reader) = closed
      BY <1>4, ReaderForm DEF CloseFence, b, Readers
    <2>2. closed \in Readers
      BY <1>1, ReaderForm DEF Readers
    <2>3. Says(closed) = Says(reader)
      BY <1>2, TextsForm DEF Says
    <2> QED BY <2>1, <2>2, <2>3
  <1> QED BY <1>3, <1>4

(* A line of a document.                                                   *)
LEMMA SourceLineForm ==
    ASSUME NEW line \in Lines
    PROVE  /\ line.kind \in {"blank", "text", "item", "heading"} \cup Fences
           /\ line.level \in 0..6 /\ line.pieces \in Seq(Pieces)
           /\ line.kind = "heading" => line.level \in 1..6
           /\ line.kind = "blank" => line.pieces = <<>>
           /\ Texts(<<line>>) = ToSet(line.pieces)
           /\ <<line>> \in Seq(Lines)
  <1>1. Texts(<<line>>) = ToSet(line.pieces)
    BY DEF Texts, ToSet
  <1> QED BY <1>1 DEF Lines

(* A heading begins its section, and is a block.                           *)
LEMMA ReadHeadingForm ==
    ASSUME NEW reader \in Readers, NEW line \in Lines, line.kind = "heading"
    PROVE  /\ ReadHeading(reader, line) \in Readers
           /\ Says(ReadHeading(reader, line)) = Says(reader) \cup ToSet(line.pieces)
  <1> DEFINE m == Min({line.level - 1, Len(reader.path)})
             kept == SubSeq(reader.path, 1, m)
             path == kept \o line.pieces
             b == Block(<<line>>, line.level, FALSE, path)
  <1>0. /\ reader.blocks \in Seq(BlockSet) /\ reader.path \in Seq(Pieces)
        /\ line.level \in 1..6 /\ line.level \in 0..6 /\ line.pieces \in Seq(Pieces)
        /\ <<line>> \in Seq(Lines) /\ Texts(<<line>>) = ToSet(line.pieces)
    <2>1. line.level \in 1..6 => line.level \in 0..6
      OBVIOUS
    <2> QED BY <2>1, SourceLineForm, ReaderForm
  <1>1. m \in 0..Len(reader.path)
    <2>1. line.level - 1 \in Nat /\ Len(reader.path) \in Nat
      <3>1. \A l \in 1..6 : l - 1 \in Nat
        OBVIOUS
      <3>2. \A r \in Seq(Pieces) : Len(r) \in Nat
        OBVIOUS
      <3> QED BY <1>0, <3>1, <3>2
    <2>2. m \in {line.level - 1, Len(reader.path)} /\ m <= Len(reader.path)
      <3> DEFINE a == line.level - 1
                 c == Len(reader.path)
      <3>1. a \in Nat /\ c \in Nat
        BY <2>1
      <3> HIDE DEF a, c
      <3>2. \E x \in {a, c} : \A y \in {a, c} : x <= y
        BY <3>1
      <3>3. LET x == Min({a, c}) IN x \in {a, c} /\ \A y \in {a, c} : x <= y
        BY <3>2 DEF Min
      <3> QED BY <3>3 DEF a, c
    <2> HIDE DEF m
    <2> QED BY <2>1, <2>2
  <1> HIDE DEF m
  <1>2. kept \in Seq(Pieces)
    BY <1>0, <1>1
  <1> HIDE DEF kept
  <1>3. path \in Seq(Pieces)
    BY <1>0, <1>2
  <1>4. b \in BlockSet /\ ToSet(b.pieces) = ToSet(line.pieces)
    <2> HIDE DEF path
    <2>1. FALSE \in BOOLEAN
      OBVIOUS
    <2> QED BY <1>0, <1>3, <2>1, BlockForm
  <1>5. ReadHeading(reader, line) = [reader EXCEPT !.path = path,
                                                   !.blocks = Append(reader.blocks, b)]
    BY DEF ReadHeading, m, kept
  <1> HIDE DEF path, b
  <1> DEFINE headed == [blocks |-> Append(reader.blocks, b), path |-> path,
                        pending |-> reader.pending, fence |-> reader.fence,
                        code |-> reader.code]
  <1>6. ReadHeading(reader, line) = headed
    BY <1>5 DEF Readers
  <1>7. headed \in Readers
    BY <1>3, <1>4, ReaderForm DEF Readers
  <1>8. Texts(Append(reader.blocks, b)) = Texts(reader.blocks) \cup ToSet(line.pieces)
    BY <1>0, <1>4, TextsForm
  <1>9. Says(headed) = Says(reader) \cup ToSet(line.pieces)
    BY <1>8 DEF Says
  <1> QED BY <1>6, <1>7, <1>9

(* One line more is read, and what it says is kept.                        *)
LEMMA ReadLineForm ==
    ASSUME NEW reader \in Readers, NEW line \in Lines
    PROVE  /\ ReadLine(reader, line) \in Readers
           /\ Says(ReadLine(reader, line)) = Says(reader) \cup ToSet(line.pieces)
  <1>1. /\ line.kind \in {"blank", "text", "item", "heading"} \cup Fences
        /\ line.pieces \in Seq(Pieces) /\ <<line>> \in Seq(Lines)
        /\ Texts(<<line>>) = ToSet(line.pieces)
        /\ line.kind = "blank" => line.pieces = <<>>
    BY SourceLineForm
  <1>2. CASE reader.fence # "none"
    <2> DEFINE longer == [reader EXCEPT !.code = Append(@, line)]
    <2>1. longer \in Readers
      <3>1. Append(reader.code, line) \in Seq(Lines)
        <4>1. reader.code \in Seq(Lines)
          BY ReaderForm
        <4> QED BY <4>1
      <3> QED BY <1>2, <3>1 DEF Readers
    <2>2. Says(longer) = Says(reader) \cup ToSet(line.pieces)
      <3>1. /\ longer.blocks = reader.blocks /\ longer.pending = reader.pending
            /\ longer.code = Append(reader.code, line) /\ reader.code \in Seq(Lines)
        BY DEF Readers
      <3>2. Texts(longer.code) = Texts(reader.code) \cup ToSet(line.pieces)
        BY <3>1, TextsForm
      <3> QED BY <3>1, <3>2 DEF Says
    <2>3. ReadLine(reader, line) = IF line.kind = reader.fence THEN CloseFence(longer) ELSE longer
      BY <1>2 DEF ReadLine
    <2> HIDE DEF longer
    <2>4. CloseFence(longer) \in Readers /\ Says(CloseFence(longer)) = Says(longer)
      BY <2>1, CloseFenceForm
    <2> QED BY <2>1, <2>2, <2>3, <2>4
  <1>3. CASE reader.fence = "none" /\ line.kind \in Fences
    <2> DEFINE f == Flush(reader)
               opened == [f EXCEPT !.fence = line.kind, !.code = <<line>>]
    <2>1. ReadLine(reader, line) = opened
      BY <1>3 DEF ReadLine, Fences
    <2>2. /\ f \in Readers /\ Says(f) = Says(reader) /\ f.code = reader.code
          /\ reader.code = <<>>
      BY <1>3, FlushForm, ReaderForm
    <2> HIDE DEF f
    <2>3. opened \in Readers
      <3>1. line.kind # "none"
        BY <1>3 DEF Fences
      <3> QED BY <1>1, <1>3, <2>2, <3>1 DEF Readers
    <2>4. /\ opened.blocks = f.blocks /\ opened.pending = f.pending /\ opened.code = <<line>>
      BY <2>2 DEF Readers
    <2>5. Says(opened) = Says(f) \cup ToSet(line.pieces)
      BY <1>1, <2>2, <2>4, TextsForm DEF Says
    <2> QED BY <2>1, <2>2, <2>3, <2>5
  <1>4. CASE reader.fence = "none" /\ line.kind = "heading"
    <2>1. ReadLine(reader, line) = ReadHeading(Flush(reader), line)
      BY <1>4 DEF ReadLine, Fences
    <2>2. Flush(reader) \in Readers /\ Says(Flush(reader)) = Says(reader)
      BY FlushForm
    <2> QED BY <1>4, <2>1, <2>2, ReadHeadingForm
  <1>5. CASE reader.fence = "none" /\ line.kind = "blank"
    <2>1. ReadLine(reader, line) = Flush(reader)
      BY <1>5 DEF ReadLine, Fences
    <2>2. Flush(reader) \in Readers /\ Says(Flush(reader)) = Says(reader)
      BY FlushForm
    <2> QED BY <1>1, <1>5, <2>1, <2>2, NoneForm
  <1>6. CASE reader.fence = "none" /\ line.kind \in {"text", "item"}
    <2> DEFINE prose == reader.pending # <<>> /\ Last(reader.pending).kind = "text"
               f == IF line.kind = "item" /\ prose THEN Flush(reader) ELSE reader
               longer == [f EXCEPT !.pending = Append(@, line)]
    <2>1. ReadLine(reader, line) = longer
      BY <1>6 DEF ReadLine, Fences
    <2>2. f \in Readers /\ Says(f) = Says(reader)
      BY FlushForm
    <2> HIDE DEF f
    <2>3. longer \in Readers
      <3>1. Append(f.pending, line) \in Seq(Lines)
        <4>1. f.pending \in Seq(Lines)
          BY <2>2, ReaderForm
        <4> QED BY <4>1
      <3> QED BY <2>2, <3>1 DEF Readers
    <2>4. /\ longer.blocks = f.blocks /\ longer.code = f.code
          /\ longer.pending = Append(f.pending, line) /\ f.pending \in Seq(Lines)
      BY <2>2 DEF Readers
    <2>5. Texts(longer.pending) = Texts(f.pending) \cup ToSet(line.pieces)
      BY <2>4, TextsForm
    <2>6. Says(longer) = Says(f) \cup ToSet(line.pieces)
      BY <2>4, <2>5 DEF Says
    <2> QED BY <2>1, <2>2, <2>3, <2>6
  <1> QED BY <1>1, <1>2, <1>3, <1>4, <1>5, <1>6

(* Nothing is read yet.                                                    *)
LEMMA UnreadForm == Unread \in Readers /\ Says(Unread) = {}
  BY TextsForm DEF Unread, Readers, Says

(* A document is read line by line.                                        *)
LEMMA ReadForm ==
    /\ Read(<<>>) = Unread
    /\ \A r \in Seq(Lines) : Read(r) \in Readers
    /\ \A r \in Seq(Lines), e \in Lines : Read(Append(r, e)) = ReadLine(Read(r), e)
  <1> DEFINE T == Readers
             empty == Unread
             step == [a \in T |-> [c \in Lines |-> ReadLine(a, c)]]
             E == [r \in Seq(Lines) |-> Read(r)]
  <1>1. \A a \in T, e \in Lines : ReadLine(a, e) \in T
    BY ReadLineForm
  <1>2. empty \in T
    BY UnreadForm
  <1>3. step \in [T -> [Lines -> T]]
    <2> HIDE DEF T
    <2> QED BY <1>1
  <1>4. ASSUME NEW r \in Seq(Lines)
        PROVE  \E x : Runs(x, Len(r), T, empty, StepsOf(step, r, T)) /\ x[Len(r)] = E[r]
    <2> DEFINE n == Len(r)
               G == StepsOf(step, r, T)
               Folds(h) == h = [s \in SUBSET (1..n) |->
                                    IF s = {} THEN empty
                                    ELSE ReadLine(h[s \ {Max(s)}], r[Max(s)])]
               fold == CHOOSE h : Folds(h)
    <2>1. n \in Nat /\ DOMAIN r = 1..n /\ \A i \in 1..n : r[i] \in Lines
      OBVIOUS
    <2>2. E[r] = fold[1..n]
      BY <2>1 DEF Read, FoldLeft, MapThenFoldSet
    <2>3. \A s \in SUBSET (1..n) : s # {} => Max(s) \in 1..n
      BY <2>1, LastIsThere
    <2>4. \A i \in 1..n : \A a \in T : G[i][a] = ReadLine(a, r[i])
      BY <2>1 DEF StepsOf
    <2> HIDE DEF T, empty, step, E
    <2>5. G \in StepsOn(n, T)
      BY <1>3, StepsOfForm
    <2> HIDE DEF n, G
    <2>6. PICK g \in [SUBSET (1..n) -> T] : FoldsBy(g, n, T, empty, G)
      BY <1>2, <2>1, <2>5, FoldExists
    <2>7. Folds(fold)
      <3>1. Folds(g)
        BY <2>3, <2>4, <2>6 DEF FoldsBy
      <3> QED BY <3>1
    <2> HIDE DEF fold
    <2>8. FoldsBy(fold, n, T, empty, G)
      BY <2>3, <2>4, <2>7 DEF FoldsBy
    <2>9. PICK x : Runs(x, n, T, empty, G) /\ x[n] = fold[1..n]
      BY <1>2, <2>1, <2>5, <2>8, FoldRuns
    <2> QED BY <2>2, <2>9 DEF n, G
  <1>5. /\ \A r \in Seq(Lines) : E[r] = Read(r)
        /\ \A a \in T, e \in Lines : step[a][e] = ReadLine(a, e)
        /\ <<>> \in Seq(Lines) /\ \A r \in Seq(Lines), e \in Lines : Append(r, e) \in Seq(Lines)
    OBVIOUS
  <1> HIDE DEF T, empty, step, E
  <1>6. Grows(E, Lines, T, empty, step)
    <2>1. Computes(E, Lines, T, empty, step)
      BY <1>3, <1>4 DEF Computes
    <2> QED BY <2>1, AppendLaw
  <1>7. Read(<<>>) = empty /\ \A r \in Seq(Lines) : Read(r) \in T
    BY <1>5, <1>6 DEF Grows
  <1>8. ASSUME NEW r \in Seq(Lines), NEW e \in Lines
        PROVE  Read(Append(r, e)) = ReadLine(Read(r), e)
    <2>1. E[Append(r, e)] = step[E[r]][e] /\ E[r] \in T
      BY <1>6 DEF Grows
    <2>2. step[E[r]][e] = ReadLine(E[r], e)
      BY <1>5, <2>1
    <2> QED BY <1>5, <2>1, <2>2
  <1> QED BY <1>7, <1>8 DEF T, empty

(* The blocks of a document say what it says.                              *)
LEMMA BlocksForm ==
    ASSUME NEW lines \in Seq(Lines)
    PROVE  Blocks(lines) \in Seq(BlockSet) /\ Texts(Blocks(lines)) = Texts(lines)
  <1> DEFINE N == {q \in Seq(Lines) : Says(Read(q)) = Texts(q)}
  <1>1. <<>> \in N
    <2>1. <<>> \in Seq(Lines)
      OBVIOUS
    <2> QED BY <2>1, ReadForm, UnreadForm, TextsForm
  <1>2. ASSUME NEW q \in Seq(Lines), NEW e \in Lines, q \in N PROVE Append(q, e) \in N
    <2>1. Read(Append(q, e)) = ReadLine(Read(q), e) /\ Read(q) \in Readers
      BY ReadForm
    <2>2. Says(ReadLine(Read(q), e)) = Says(Read(q)) \cup ToSet(e.pieces)
      BY <2>1, ReadLineForm
    <2>3. Texts(Append(q, e)) = Texts(q) \cup ToSet(e.pieces) /\ Append(q, e) \in Seq(Lines)
      BY TextsForm
    <2> QED BY <1>2, <2>1, <2>2, <2>3
  <1>3. lines \in N
    <2> HIDE DEF N
    <2> QED BY <1>1, <1>2, ForEverySequence
  <1> DEFINE read == Read(lines)
             closed == CloseFence(read)
             flushed == Flush(closed)
  <1>4. read \in Readers /\ Says(read) = Texts(lines)
    BY <1>3, ReadForm
  <1> HIDE DEF read
  <1>5. closed \in Readers /\ Says(closed) = Says(read) /\ closed.code = <<>>
    BY <1>4, CloseFenceForm
  <1> HIDE DEF closed
  <1>6. /\ flushed \in Readers /\ Says(flushed) = Says(closed)
        /\ flushed.pending = <<>> /\ flushed.code = closed.code
    BY <1>5, FlushForm
  <1> HIDE DEF flushed
  <1>7. Blocks(lines) = flushed.blocks
    BY DEF Blocks, flushed, closed, read
  <1>8. Says(flushed) = Texts(flushed.blocks)
    BY <1>5, <1>6, TextsForm DEF Says
  <1>9. flushed.blocks \in Seq(BlockSet)
    BY <1>6, ReaderForm
  <1> QED BY <1>4, <1>5, <1>6, <1>7, <1>8, <1>9

----------------------------------------------------------------------------
(* Cutting it: from blocks to chunks, and what chunks contain.             *)

(* All but the last, and the last.                                         *)
LEMMA FrontForm ==
    ASSUME NEW S, NEW r \in Seq(S), r # <<>>
    PROVE  /\ Front(r) \in Seq(S) /\ Last(r) \in S
           /\ Append(Front(r), Last(r)) = r
           /\ ToSet(r) = ToSet(Front(r)) \cup {Last(r)}
           /\ Len(Front(r)) = Len(r) - 1 /\ Len(r) \in Nat \ {0}
  <1>1. Len(r) \in Nat \ {0} /\ r \in [1..Len(r) -> S]
    OBVIOUS
  <1>2. Front(r) = [i \in 1..(Len(r) - 1) |-> r[i]]
    BY <1>1 DEF Front
  <1>3. /\ Front(r) \in Seq(S) /\ Len(Front(r)) = Len(r) - 1
        /\ \A i \in 1..(Len(r) - 1) : Front(r)[i] = r[i]
    <2>1. Len(r) - 1 \in Nat /\ \A i \in 1..(Len(r) - 1) : i \in 1..Len(r)
      BY <1>1
    <2>2. \A i \in 1..(Len(r) - 1) : r[i] \in S
      BY <1>1, <2>1
    <2> QED BY <1>2, <2>1, <2>2
  <1>4. Last(r) = r[Len(r)] /\ Last(r) \in S
    BY <1>1 DEF Last
  <1> DEFINE f == Front(r)
             e == Last(r)
  <1> HIDE DEF f, e
  <1>5. Append(f, e) = r
    <2>1. f \in Seq(S) /\ e \in S /\ Len(f) = Len(r) - 1 /\ e = r[Len(r)]
          /\ \A i \in 1..(Len(r) - 1) : f[i] = r[i]
      BY <1>3, <1>4 DEF f, e
    <2>2. /\ Append(f, e) \in Seq(S) /\ Len(Append(f, e)) = Len(r)
          /\ \A i \in 1..Len(r) : Append(f, e)[i] = r[i]
      <3> DEFINE a == Append(f, e)
      <3>1. /\ a \in Seq(S) /\ Len(a) = Len(f) + 1 /\ a[Len(f) + 1] = e
            /\ \A i \in DOMAIN f : a[i] = f[i]
        BY <2>1, AppendForm
      <3>2. DOMAIN f = 1..(Len(r) - 1) /\ (Len(r) - 1) + 1 = Len(r)
        BY <1>1, <2>1
      <3>3. \A i \in 1..Len(r) : i \in 1..(Len(r) - 1) \/ i = Len(r)
        <4>1. \A n \in Nat : \A i \in 1..n : i \in 1..(n - 1) \/ i = n
          OBVIOUS
        <4> QED BY <1>1, <4>1
      <3> HIDE DEF a
      <3>4. Len(a) = Len(r) /\ a[Len(r)] = e /\ \A i \in 1..(Len(r) - 1) : a[i] = f[i]
        BY <2>1, <3>1, <3>2
      <3>5. \A i \in 1..Len(r) : a[i] = r[i]
        BY <2>1, <3>3, <3>4
      <3> QED BY <3>1, <3>4, <3>5 DEF a
    <2> QED BY <2>2
  <1>6. ToSet(r) = ToSet(f) \cup {e}
    <2>1. f \in Seq(S) /\ e \in S
      BY <1>3, <1>4 DEF f, e
    <2>2. ToSet(Append(f, e)) = ToSet(f) \cup {e}
      BY <2>1, AppendForm
    <2> QED BY <1>5, <2>2
  <1> QED BY <1>1, <1>3, <1>4, <1>5, <1>6 DEF f, e

(* What a chunk can hold: no more than the target, or a piece alone.       *)
Large(p) == Size[p] > Target

Fits(pieces) == Tokens(pieces) <= Target \/ \E p \in Pieces : pieces = <<p>> /\ Large(p)

(* One more piece.                                                         *)
Packed(packs, p) ==
    IF packs # <<>> /\ Tokens(Append(Last(packs), p)) <= Target
    THEN Append(Front(packs), Append(Last(packs), p))
    ELSE Append(packs, <<p>>)

(* What packs say.                                                         *)
InPacks(packs) == UNION {ToSet(pack) : pack \in ToSet(packs)}

(* One more piece is in some pack, and every pack fits.                    *)
LEMMA PackedForm ==
    ASSUME NEW packs \in Seq(Seq(Pieces)), NEW p \in Pieces
    PROVE  /\ Packed(packs, p) \in Seq(Seq(Pieces))
           /\ InPacks(Packed(packs, p)) = InPacks(packs) \cup {p}
           /\ (\A pack \in ToSet(packs) : Fits(pack)) =>
                  \A pack \in ToSet(Packed(packs, p)) : Fits(pack)
  <1>1. CASE packs # <<>> /\ Tokens(Append(Last(packs), p)) <= Target
    <2> DEFINE f == Front(packs)
               l == Last(packs)
               e == Append(l, p)
    <2>1. f \in Seq(Seq(Pieces)) /\ l \in Seq(Pieces) /\ ToSet(packs) = ToSet(f) \cup {l}
      BY <1>1, FrontForm
    <2> HIDE DEF f, l
    <2>2. e \in Seq(Pieces) /\ ToSet(e) = ToSet(l) \cup {p}
      BY <2>1, AppendForm
    <2>3. Packed(packs, p) = Append(f, e) /\ Tokens(e) <= Target
      BY <1>1 DEF Packed, f, l
    <2> HIDE DEF e
    <2>4. Append(f, e) \in Seq(Seq(Pieces)) /\ ToSet(Append(f, e)) = ToSet(f) \cup {e}
      BY <2>1, <2>2, AppendForm
    <2>5. InPacks(Append(f, e)) = InPacks(packs) \cup {p}
      BY <2>1, <2>2, <2>4 DEF InPacks
    <2> QED BY <2>1, <2>3, <2>4, <2>5 DEF Fits
  <1>2. CASE ~(packs # <<>> /\ Tokens(Append(Last(packs), p)) <= Target)
    <2> DEFINE e == <<p>>
    <2>1. e \in Seq(Pieces) /\ ToSet(e) = {p}
      BY DEF ToSet
    <2>2. Fits(e)
      <3>1. Tokens(<<p>>) = Size[p] /\ Size[p] \in Nat /\ Target \in Nat
        BY TokensOfOne, ChunkerAssumption
      <3>2. \A a, b \in Nat : a <= b \/ a > b
        OBVIOUS
      <3> QED BY <3>1, <3>2 DEF Fits, Large
    <2>3. Packed(packs, p) = Append(packs, e)
      BY <1>2 DEF Packed
    <2> HIDE DEF e
    <2>4. Append(packs, e) \in Seq(Seq(Pieces)) /\ ToSet(Append(packs, e)) = ToSet(packs) \cup {e}
      BY <2>1, AppendForm
    <2>5. InPacks(Append(packs, e)) = InPacks(packs) \cup {p}
      BY <2>1, <2>4 DEF InPacks
    <2> QED BY <2>2, <2>3, <2>4, <2>5
  <1> QED BY <1>1, <1>2

(* Pieces are packed one by one.                                           *)
LEMMA PackForm ==
    /\ Pack(<<>>) = <<>>
    /\ \A r \in Seq(Pieces) : Pack(r) \in Seq(Seq(Pieces))
    /\ \A r \in Seq(Pieces), e \in Pieces : Pack(Append(r, e)) = Packed(Pack(r), e)
  <1> DEFINE T == Seq(Seq(Pieces))
             empty == <<>>
             step == [a \in T |-> [c \in Pieces |-> Packed(a, c)]]
             E == [r \in Seq(Pieces) |-> Pack(r)]
  <1>1. \A a \in T, e \in Pieces : Packed(a, e) \in T
    BY PackedForm
  <1>2. empty \in T
    OBVIOUS
  <1>3. step \in [T -> [Pieces -> T]]
    <2> HIDE DEF T
    <2> QED BY <1>1
  <1>4. ASSUME NEW r \in Seq(Pieces)
        PROVE  \E x : Runs(x, Len(r), T, empty, StepsOf(step, r, T)) /\ x[Len(r)] = E[r]
    <2> DEFINE n == Len(r)
               G == StepsOf(step, r, T)
               Folds(h) == h = [s \in SUBSET (1..n) |->
                                    IF s = {} THEN empty
                                    ELSE Packed(h[s \ {Max(s)}], r[Max(s)])]
               fold == CHOOSE h : Folds(h)
    <2>1. n \in Nat /\ DOMAIN r = 1..n /\ \A i \in 1..n : r[i] \in Pieces
      OBVIOUS
    <2>2. E[r] = fold[1..n]
      BY <2>1 DEF Pack, Packed, FoldLeft, MapThenFoldSet
    <2>3. \A s \in SUBSET (1..n) : s # {} => Max(s) \in 1..n
      BY <2>1, LastIsThere
    <2>4. \A i \in 1..n : \A a \in T : G[i][a] = Packed(a, r[i])
      BY <2>1 DEF StepsOf
    <2> HIDE DEF T, empty, step, E
    <2>5. G \in StepsOn(n, T)
      BY <1>3, StepsOfForm
    <2> HIDE DEF n, G
    <2>6. PICK g \in [SUBSET (1..n) -> T] : FoldsBy(g, n, T, empty, G)
      BY <1>2, <2>1, <2>5, FoldExists
    <2>7. Folds(fold)
      <3>1. Folds(g)
        BY <2>3, <2>4, <2>6 DEF FoldsBy
      <3> QED BY <3>1
    <2> HIDE DEF fold
    <2>8. FoldsBy(fold, n, T, empty, G)
      BY <2>3, <2>4, <2>7 DEF FoldsBy
    <2>9. PICK x : Runs(x, n, T, empty, G) /\ x[n] = fold[1..n]
      BY <1>2, <2>1, <2>5, <2>8, FoldRuns
    <2> QED BY <2>2, <2>9 DEF n, G
  <1>5. /\ \A r \in Seq(Pieces) : E[r] = Pack(r)
        /\ \A a \in T, e \in Pieces : step[a][e] = Packed(a, e)
        /\ <<>> \in Seq(Pieces) /\ \A r \in Seq(Pieces), e \in Pieces : Append(r, e) \in Seq(Pieces)
    OBVIOUS
  <1> HIDE DEF T, empty, step, E
  <1>6. Grows(E, Pieces, T, empty, step)
    <2>1. Computes(E, Pieces, T, empty, step)
      BY <1>3, <1>4 DEF Computes
    <2> QED BY <2>1, AppendLaw
  <1>7. Pack(<<>>) = empty /\ \A r \in Seq(Pieces) : Pack(r) \in T
    BY <1>5, <1>6 DEF Grows
  <1>8. ASSUME NEW r \in Seq(Pieces), NEW e \in Pieces
        PROVE  Pack(Append(r, e)) = Packed(Pack(r), e)
    <2>1. E[Append(r, e)] = step[E[r]][e] /\ E[r] \in T
      BY <1>6 DEF Grows
    <2>2. step[E[r]][e] = Packed(E[r], e)
      BY <1>5, <2>1
    <2> QED BY <1>5, <2>1, <2>2
  <1> QED BY <1>7, <1>8 DEF T, empty

(* The packs of pieces hold them all, and every pack fits.                 *)
LEMMA PacksForm ==
    ASSUME NEW r \in Seq(Pieces)
    PROVE  /\ Pack(r) \in Seq(Seq(Pieces)) /\ InPacks(Pack(r)) = ToSet(r)
           /\ \A pack \in ToSet(Pack(r)) : Fits(pack)
  <1> DEFINE Right(q) == InPacks(Pack(q)) = ToSet(q) /\ \A pack \in ToSet(Pack(q)) : Fits(pack)
             N == {q \in Seq(Pieces) : Right(q)}
  <1>1. <<>> \in N
    <2>1. <<>> \in Seq(Pieces)
      OBVIOUS
    <2> QED BY <2>1, PackForm, NoneForm DEF InPacks
  <1>2. ASSUME NEW q \in Seq(Pieces), NEW e \in Pieces, q \in N PROVE Append(q, e) \in N
    <2> DEFINE packs == Pack(q)
    <2>1. Pack(Append(q, e)) = Packed(packs, e) /\ packs \in Seq(Seq(Pieces))
      BY PackForm
    <2>2. ToSet(Append(q, e)) = ToSet(q) \cup {e} /\ Append(q, e) \in Seq(Pieces)
      BY AppendForm
    <2>3. Right(q)
      BY <1>2
    <2> HIDE DEF packs
    <2>4. /\ InPacks(Packed(packs, e)) = InPacks(packs) \cup {e}
          /\ (\A pack \in ToSet(packs) : Fits(pack)) =>
                 \A pack \in ToSet(Packed(packs, e)) : Fits(pack)
      BY <2>1, PackedForm
    <2> QED BY <2>1, <2>2, <2>3, <2>4 DEF packs
  <1>3. r \in N
    <2> HIDE DEF N
    <2> QED BY <1>1, <1>2, ForEverySequence
  <1> QED BY <1>3, PackForm

(* Blocks of which every one fits.                                         *)
Fitting == {b \in BlockSet : Fits(b.pieces)}

(* A block is split without loss, into blocks that fit.                    *)
LEMMA SplitForm ==
    ASSUME NEW block \in BlockSet
    PROVE  /\ SplitOversized(block) \in Seq(Fitting)
           /\ Texts(SplitOversized(block)) = ToSet(block.pieces)
  <1>1. /\ block.pieces \in Seq(Pieces) /\ block.level \in 0..6 /\ block.code \in BOOLEAN
        /\ block.section \in Seq(Pieces)
    BY DEF BlockSet
  <1>2. CASE Tokens(block.pieces) <= Target
    <2>1. SplitOversized(block) = <<block>>
      BY <1>2 DEF SplitOversized
    <2>2. block \in Fitting
      BY <1>2 DEF Fitting, Fits
    <2>3. ToSet(<<block>>) = {block}
      BY DEF ToSet
    <2> QED BY <2>1, <2>2, <2>3 DEF Texts
  <1>3. CASE ~(Tokens(block.pieces) <= Target)
    <2> DEFINE packs == Pack(block.pieces)
               One(pack) == [block EXCEPT !.pieces = pack, !.level = 0]
               split == [i \in 1..Len(packs) |-> One(packs[i])]
    <2>1. SplitOversized(block) = split
      BY <1>3 DEF SplitOversized
    <2>2. /\ packs \in Seq(Seq(Pieces)) /\ InPacks(packs) = ToSet(block.pieces)
          /\ \A pack \in ToSet(packs) : Fits(pack)
      BY <1>1, PacksForm
    <2> HIDE DEF packs
    <2>3. \A i \in 1..Len(packs) : packs[i] \in Seq(Pieces) /\ packs[i] \in ToSet(packs)
      BY <2>2 DEF ToSet
    <2>4. ASSUME NEW pack \in Seq(Pieces), Fits(pack)
          PROVE  One(pack) \in Fitting /\ One(pack).pieces = pack
      <3>1. One(pack).pieces = pack
        BY DEF BlockSet
      <3>2. One(pack) \in BlockSet
        <4>1. 0 \in 0..6
          OBVIOUS
        <4> QED BY <4>1 DEF BlockSet
      <3> QED BY <2>4, <3>1, <3>2 DEF Fitting
    <2>5. \A i \in 1..Len(packs) : One(packs[i]) \in Fitting /\ One(packs[i]).pieces = packs[i]
      BY <2>2, <2>3, <2>4
    <2> HIDE DEF One
    <2>6. split \in Seq(Fitting) /\ Len(split) = Len(packs) /\ DOMAIN split = 1..Len(packs)
      <3>1. Len(packs) \in Nat
        BY <2>2
      <3> QED BY <2>5, <3>1
    <2>7. \A i \in 1..Len(packs) : split[i].pieces = packs[i]
      BY <2>5
    <2>8. Texts(split) = UNION {ToSet(packs[i]) : i \in 1..Len(packs)}
      <3> HIDE DEF split
      <3>1. ToSet(split) = {split[i] : i \in 1..Len(packs)}
        BY <2>6 DEF ToSet
      <3> QED BY <2>7, <3>1 DEF Texts
    <2>9. InPacks(packs) = UNION {ToSet(packs[i]) : i \in 1..Len(packs)}
      <3>1. ToSet(packs) = {packs[i] : i \in 1..Len(packs)}
        BY <2>2 DEF ToSet
      <3> QED BY <3>1 DEF InPacks
    <2> QED BY <2>1, <2>2, <2>6, <2>8, <2>9
  <1> QED BY <1>2, <1>3

(* And so is a document.                                                   *)
LEMMA PiecedForm ==
    ASSUME NEW blocks \in Seq(BlockSet)
    PROVE  Pieced(blocks) \in Seq(Fitting) /\ Texts(Pieced(blocks)) = Texts(blocks)
  <1> DEFINE splits == [i \in DOMAIN blocks |-> SplitOversized(blocks[i])]
  <1>1. \A i \in DOMAIN blocks : blocks[i] \in BlockSet
    OBVIOUS
  <1>2. \A b \in BlockSet : /\ SplitOversized(b) \in Seq(Fitting)
                            /\ Texts(SplitOversized(b)) = ToSet(b.pieces)
    BY SplitForm
  <1>3. splits \in Seq(Seq(Fitting))
    <2>1. \A i \in DOMAIN blocks : SplitOversized(blocks[i]) \in Seq(Fitting)
      BY <1>1, <1>2
    <2>2. DOMAIN blocks = 1..Len(blocks) /\ Len(blocks) \in Nat
      OBVIOUS
    <2> QED BY <2>1, <2>2
  <1>4. ToSet(splits) = {SplitOversized(b) : b \in ToSet(blocks)}
    <2>1. DOMAIN splits = DOMAIN blocks
      OBVIOUS
    <2> QED BY <2>1 DEF ToSet
  <1>5. Pieced(blocks) = FlattenSeq(splits)
    BY DEF Pieced
  <1> HIDE DEF splits
  <1>6. /\ FlattenSeq(splits) \in Seq(Fitting)
        /\ ToSet(FlattenSeq(splits)) = UNION {ToSet(s) : s \in ToSet(splits)}
    BY <1>3, FlattenKeeps
  <1>7. ToSet(blocks) \subseteq BlockSet
    BY <1>1 DEF ToSet
  <1>8. Texts(FlattenSeq(splits)) = UNION {Texts(SplitOversized(b)) : b \in ToSet(blocks)}
    BY <1>4, <1>6 DEF Texts
  <1>9. Texts(blocks) = UNION {Texts(SplitOversized(b)) : b \in ToSet(blocks)}
    BY <1>2, <1>7 DEF Texts
  <1> QED BY <1>5, <1>6, <1>8, <1>9

(* The overlap of a chunk is no larger than it may be.                     *)
LEMMA CarryForm ==
    ASSUME NEW blocks \in Seq(Fitting)
    PROVE  /\ CarryOver(blocks) \in Seq(Fitting)
           /\ TokensOf(CarryOver(blocks)) <= Overlap
           /\ Texts(CarryOver(blocks)) \subseteq Texts(blocks)
  <1> DEFINE l == Len(blocks)
             Affordable(n) == LET carried == LastBlocks(blocks, n)
                              IN  /\ TokensOf(carried) <= Overlap
                                  /\ \A i \in 1..n : ~ carried[i].code
             Most(n) == Affordable(n) /\ (n < l => ~ Affordable(n + 1))
             n == CHOOSE k \in 0..l : Most(k)
  <1>1. l \in Nat /\ DOMAIN blocks = 1..l /\ \A i \in 1..l : blocks[i] \in Fitting
    OBVIOUS
  <1>2. Affordable(0)
    <2>1. LastBlocks(blocks, 0) = <<>>
      <3>1. \A k \in Nat : k - 0 + 1 = k + 1 /\ k < k + 1
        OBVIOUS
      <3>2. SubSeq(blocks, l + 1, l) = <<>>
        BY <1>1
      <3> HIDE DEF l
      <3>3. l - 0 + 1 = l + 1
        BY <1>1
      <3>4. LastBlocks(blocks, 0) = SubSeq(blocks, l - 0 + 1, l)
        BY DEF LastBlocks, l
      <3> QED BY <3>2, <3>3, <3>4
    <2>2. TokensOf(<<>>) = 0 /\ 0 <= Overlap
      BY TokensOfForm, ChunkerAssumption
    <2>3. \A i \in 1..0 : FALSE
      OBVIOUS
    <2> QED BY <2>1, <2>2, <2>3
  <1> HIDE DEF Affordable
  <1>3. \E k \in 0..l : Most(k)
    <2> SUFFICES ASSUME \A k \in 0..l : ~ Most(k) PROVE FALSE
      OBVIOUS
    <2> DEFINE N == {k \in Nat : k <= l => Affordable(k)}
    <2> HIDE DEF l
    <2>1. 0 \in N
      BY <1>2
    <2>2. ASSUME NEW k \in Nat, k \in N PROVE k + 1 \in N
      <3> SUFFICES ASSUME k + 1 <= l PROVE Affordable(k + 1)
        OBVIOUS
      <3>1. k \in 0..l /\ k < l /\ k <= l
        BY <1>1
      <3> QED BY <2>2, <3>1
    <2>3. l \in N
      <3> HIDE DEF N
      <3> QED BY <1>1, <2>1, <2>2, ForEveryNumber
    <2>4. l \in 0..l /\ ~(l < l) /\ l <= l
      BY <1>1
    <2> QED BY <2>3, <2>4
  <1>4. n \in 0..l /\ Affordable(n)
    BY <1>3
  <1>5. CarryOver(blocks) = LastBlocks(blocks, n)
    BY DEF CarryOver, Affordable
  <1> HIDE DEF n
  <1>6. TokensOf(LastBlocks(blocks, n)) <= Overlap
    BY <1>4 DEF Affordable
  <1> DEFINE c == LastBlocks(blocks, n)
  <1>7. /\ c \in Seq(Fitting)
        /\ \A j \in DOMAIN c : \E i \in 1..l : c[j] = blocks[i]
    <2> DEFINE m == l - n + 1
    <2>1. m \in 1..(l + 1) /\ l \in Nat
      <3> HIDE DEF l
      <3> QED BY <1>1, <1>4
    <2>2. c = SubSeq(blocks, m, l)
      BY DEF LastBlocks
    <2> HIDE DEF m, c
    <2>3. \A i \in m..l : i \in 1..l
      <3> HIDE DEF l
      <3> QED BY <1>1, <2>1
    <2>4. /\ SubSeq(blocks, m, l) \in Seq(Fitting)
          /\ SubSeq(blocks, m, l) = [i \in 1..(l - m + 1) |-> blocks[i + m - 1]]
      BY <1>1, <2>1, <2>3
    <2>5. \A j \in 1..(l - m + 1) : j + m - 1 \in 1..l
      <3> HIDE DEF l
      <3> QED BY <1>1, <2>1
    <2> QED BY <2>2, <2>4, <2>5
  <1>8. Texts(c) \subseteq Texts(blocks)
    <2> HIDE DEF c, l
    <2>1. ToSet(c) \subseteq ToSet(blocks)
      BY <1>1, <1>7 DEF ToSet
    <2> QED BY <2>1 DEF Texts
  <1> QED BY <1>5, <1>6, <1>7, <1>8

(* The size of a chunk has its bound.                                      *)
Bounded(chunk) ==
    \/ TokensOf(chunk) <= Target + Overlap
    \/ \E p \in Texts(chunk) : Large(p) /\ TokensOf(chunk) <= Size[p] + Overlap

Assemblies == [done : Seq(Seq(Fitting)), current : Seq(Fitting)]

(* What the chunks say, and whether each has its bound.                    *)
InChunks(acc) == (UNION {Texts(chunk) : chunk \in ToSet(acc.done)}) \cup Texts(acc.current)

AllBounded(acc) == (\A chunk \in ToSet(acc.done) : Bounded(chunk)) /\ Bounded(acc.current)

(* A block that fits is a block.                                           *)
LEMMA FittingForm ==
    /\ Seq(Fitting) \subseteq Seq(BlockSet)
    /\ \A r \in Seq(Fitting), b \in Fitting :
           /\ Append(r, b) \in Seq(Fitting)
           /\ TokensOf(Append(r, b)) = TokensOf(r) + Tokens(b.pieces)
           /\ TokensOf(r) \in Nat /\ Tokens(b.pieces) \in Nat
           /\ Texts(Append(r, b)) = Texts(r) \cup ToSet(b.pieces)
  <1>1. Fitting \subseteq BlockSet
    BY DEF Fitting
  <1>2. Seq(Fitting) \subseteq Seq(BlockSet)
    BY <1>1
  <1>3. ASSUME NEW r \in Seq(Fitting), NEW b \in Fitting
        PROVE  /\ Append(r, b) \in Seq(Fitting)
               /\ TokensOf(Append(r, b)) = TokensOf(r) + Tokens(b.pieces)
               /\ TokensOf(r) \in Nat /\ Tokens(b.pieces) \in Nat
               /\ Texts(Append(r, b)) = Texts(r) \cup ToSet(b.pieces)
    <2>1. r \in Seq(BlockSet) /\ b \in BlockSet
      BY <1>1, <1>2
    <2>2. Append(r, b) \in Seq(Fitting)
      OBVIOUS
    <2> QED BY <2>1, <2>2, TokensOfJoined
  <1> QED BY <1>2, <1>3

(* A block that fits leaves room for the overlap before it.                *)
LEMMA RoomForm ==
    ASSUME NEW r \in Seq(Fitting), NEW b \in Fitting,
           TokensOf(r) <= Overlap \/ TokensOf(r) + Tokens(b.pieces) <= Target
    PROVE  Bounded(Append(r, b))
  <1> DEFINE t == TokensOf(r)
             u == Tokens(b.pieces)
             w == TokensOf(Append(r, b))
  <1>1. t \in Nat /\ u \in Nat /\ w = t + u /\ Target \in Nat /\ Overlap \in Nat
    BY FittingForm, ChunkerAssumption
  <1>2. t <= Overlap \/ t + u <= Target
    OBVIOUS
  <1>3. Fits(b.pieces) /\ Texts(Append(r, b)) = Texts(r) \cup ToSet(b.pieces)
    BY FittingForm DEF Fitting
  <1> HIDE DEF t, w
  <1>4. CASE t + u <= Target \/ u <= Target
    <2> HIDE DEF u
    <2>1. w <= Target + Overlap
      BY <1>1, <1>2, <1>4
    <2> QED BY <2>1 DEF Bounded, w
  <1>5. CASE ~(t + u <= Target) /\ ~(u <= Target)
    <2>1. PICK p \in Pieces : b.pieces = <<p>> /\ Large(p)
      BY <1>3, <1>5 DEF Fits
    <2>2. u = Size[p] /\ Size[p] \in Nat
      BY <2>1, TokensOfOne
    <2>3. p \in Texts(Append(r, b))
      BY <1>3, <2>1 DEF ToSet
    <2> HIDE DEF u
    <2>4. w <= Size[p] + Overlap
      BY <1>1, <1>2, <1>5, <2>2
    <2> QED BY <2>1, <2>3, <2>4 DEF Bounded, w
  <1> QED BY <1>4, <1>5

(* One more block is in a chunk, and no chunk is too large for it.         *)
LEMMA AddBlockForm ==
    ASSUME NEW acc \in Assemblies, NEW b \in Fitting
    PROVE  /\ AddBlock(acc, b) \in Assemblies
           /\ InChunks(AddBlock(acc, b)) = InChunks(acc) \cup ToSet(b.pieces)
           /\ AllBounded(acc) => AllBounded(AddBlock(acc, b))
  <1> DEFINE done == acc.done
             current == acc.current
             carried == CarryOver(current)
  <1>1. /\ done \in Seq(Seq(Fitting)) /\ current \in Seq(Fitting)
        /\ acc = [done |-> done, current |-> current]
    BY DEF Assemblies
  <1>2. CASE StartsChunk(current, b)
    <2>1. AddBlock(acc, b) = [done |-> Append(done, current), current |-> Append(carried, b)]
      BY <1>2 DEF AddBlock
    <2>2. /\ carried \in Seq(Fitting) /\ TokensOf(carried) <= Overlap
          /\ Texts(carried) \subseteq Texts(current)
      BY <1>1, CarryForm
    <2> HIDE DEF done, current, carried
    <2>3. /\ Append(done, current) \in Seq(Seq(Fitting))
          /\ ToSet(Append(done, current)) = ToSet(done) \cup {current}
      <3>1. \A x \in Seq(Seq(Fitting)), y \in Seq(Fitting) :
                /\ Append(x, y) \in Seq(Seq(Fitting))
                /\ ToSet(Append(x, y)) = ToSet(x) \cup {y}
        BY AppendForm
      <3> QED BY <1>1, <3>1
    <2>4. /\ Append(carried, b) \in Seq(Fitting) /\ Bounded(Append(carried, b))
          /\ Texts(Append(carried, b)) = Texts(carried) \cup ToSet(b.pieces)
      BY <2>2, FittingForm, RoomForm
    <2>5. AddBlock(acc, b) \in Assemblies
      BY <2>1, <2>3, <2>4 DEF Assemblies
    <2>6. InChunks(AddBlock(acc, b)) = InChunks(acc) \cup ToSet(b.pieces)
      BY <2>1, <2>2, <2>3, <2>4 DEF InChunks, done, current
    <2>7. AllBounded(acc) => AllBounded(AddBlock(acc, b))
      BY <2>1, <2>3, <2>4 DEF AllBounded, done, current
    <2> QED BY <2>5, <2>6, <2>7
  <1>3. CASE ~ StartsChunk(current, b)
    <2>1. AddBlock(acc, b) = [done |-> done, current |-> Append(current, b)]
      BY <1>1, <1>3 DEF AddBlock
    <2>2. current = <<>> \/ ~(TokensOf(current) + Tokens(b.pieces) > Target)
      BY <1>3 DEF StartsChunk
    <2>3. /\ Append(current, b) \in Seq(Fitting)
          /\ TokensOf(current) \in Nat /\ Tokens(b.pieces) \in Nat
          /\ Texts(Append(current, b)) = Texts(current) \cup ToSet(b.pieces)
      BY <1>1, FittingForm
    <2>4. TokensOf(current) <= Overlap \/ TokensOf(current) + Tokens(b.pieces) <= Target
      <3>1. current = <<>> => TokensOf(current) <= Overlap
        <4>1. TokensOf(<<>>) = 0 /\ 0 <= Overlap
          BY TokensOfForm, ChunkerAssumption
        <4> QED BY <4>1
      <3>2. \A x, y \in Nat : ~(x + y > Target) => x + y <= Target
        BY ChunkerAssumption
      <3> QED BY <2>2, <2>3, <3>1, <3>2
    <2> HIDE DEF done, current
    <2>5. Bounded(Append(current, b))
      BY <1>1, <2>4, RoomForm
    <2>6. AddBlock(acc, b) \in Assemblies
      <3> DEFINE more == Append(current, b)
      <3> HIDE DEF more
      <3>1. more \in Seq(Fitting) /\ AddBlock(acc, b) = [done |-> done, current |-> more]
        BY <2>1, <2>3 DEF more
      <3> QED BY <1>1, <3>1 DEF Assemblies
    <2>7. InChunks(AddBlock(acc, b)) = InChunks(acc) \cup ToSet(b.pieces)
      BY <2>1, <2>3 DEF InChunks, done, current
    <2>8. AllBounded(acc) => AllBounded(AddBlock(acc, b))
      BY <2>1, <2>5 DEF AllBounded, done, current
    <2> QED BY <2>6, <2>7, <2>8
  <1> QED BY <1>2, <1>3

(* Nothing has been put together yet.                                      *)
LEMMA NothingForm ==
    LET nothing == [done |-> <<>>, current |-> <<>>]
    IN  nothing \in Assemblies /\ InChunks(nothing) = {} /\ AllBounded(nothing)
  <1> DEFINE nothing == [done |-> <<>>, current |-> <<>>]
  <1>1. nothing.done = <<>> /\ nothing.current = <<>> /\ nothing \in Assemblies
    BY DEF Assemblies
  <1>2. InChunks(nothing) = {}
    BY <1>1, NoneForm DEF InChunks, Texts
  <1>3. AllBounded(nothing)
    <2>1. TokensOf(<<>>) = 0 /\ 0 <= Target + Overlap
      BY TokensOfForm, ChunkerAssumption
    <2>2. Bounded(<<>>)
      BY <2>1 DEF Bounded
    <2> QED BY <1>1, <2>2, NoneForm DEF AllBounded
  <1> QED BY <1>1, <1>2, <1>3

(* Chunks are put together block by block.                                 *)
LEMMA AssembleForm ==
    /\ Assembled(<<>>) = [done |-> <<>>, current |-> <<>>]
    /\ \A r \in Seq(Fitting) : Assembled(r) \in Assemblies
    /\ \A r \in Seq(Fitting), e \in Fitting : Assembled(Append(r, e)) = AddBlock(Assembled(r), e)
  <1> DEFINE T == Assemblies
             empty == [done |-> <<>>, current |-> <<>>]
             step == [a \in T |-> [c \in Fitting |-> AddBlock(a, c)]]
             E == [r \in Seq(Fitting) |-> Assembled(r)]
  <1>1. \A a \in T, e \in Fitting : AddBlock(a, e) \in T
    BY AddBlockForm
  <1>2. empty \in T
    BY NothingForm
  <1>3. step \in [T -> [Fitting -> T]]
    <2> HIDE DEF T
    <2> QED BY <1>1
  <1>4. ASSUME NEW r \in Seq(Fitting)
        PROVE  \E x : Runs(x, Len(r), T, empty, StepsOf(step, r, T)) /\ x[Len(r)] = E[r]
    <2> DEFINE n == Len(r)
               G == StepsOf(step, r, T)
               Folds(h) == h = [s \in SUBSET (1..n) |->
                                    IF s = {} THEN empty
                                    ELSE AddBlock(h[s \ {Max(s)}], r[Max(s)])]
               fold == CHOOSE h : Folds(h)
    <2>1. n \in Nat /\ DOMAIN r = 1..n /\ \A i \in 1..n : r[i] \in Fitting
      OBVIOUS
    <2>2. E[r] = fold[1..n]
      BY <2>1 DEF Assembled, FoldLeft, MapThenFoldSet
    <2>3. \A s \in SUBSET (1..n) : s # {} => Max(s) \in 1..n
      BY <2>1, LastIsThere
    <2>4. \A i \in 1..n : \A a \in T : G[i][a] = AddBlock(a, r[i])
      BY <2>1 DEF StepsOf
    <2> HIDE DEF T, empty, step, E
    <2>5. G \in StepsOn(n, T)
      BY <1>3, StepsOfForm
    <2> HIDE DEF n, G
    <2>6. PICK g \in [SUBSET (1..n) -> T] : FoldsBy(g, n, T, empty, G)
      BY <1>2, <2>1, <2>5, FoldExists
    <2>7. Folds(fold)
      <3>1. Folds(g)
        BY <2>3, <2>4, <2>6 DEF FoldsBy
      <3> QED BY <3>1
    <2> HIDE DEF fold
    <2>8. FoldsBy(fold, n, T, empty, G)
      BY <2>3, <2>4, <2>7 DEF FoldsBy
    <2>9. PICK x : Runs(x, n, T, empty, G) /\ x[n] = fold[1..n]
      BY <1>2, <2>1, <2>5, <2>8, FoldRuns
    <2> QED BY <2>2, <2>9 DEF n, G
  <1>5. /\ \A r \in Seq(Fitting) : E[r] = Assembled(r)
        /\ \A a \in T, e \in Fitting : step[a][e] = AddBlock(a, e)
        /\ <<>> \in Seq(Fitting)
        /\ \A r \in Seq(Fitting), e \in Fitting : Append(r, e) \in Seq(Fitting)
    OBVIOUS
  <1> HIDE DEF T, empty, step, E
  <1>6. Grows(E, Fitting, T, empty, step)
    <2>1. Computes(E, Fitting, T, empty, step)
      BY <1>3, <1>4 DEF Computes
    <2> QED BY <2>1, AppendLaw
  <1>7. Assembled(<<>>) = empty /\ \A r \in Seq(Fitting) : Assembled(r) \in T
    BY <1>5, <1>6 DEF Grows
  <1>8. ASSUME NEW r \in Seq(Fitting), NEW e \in Fitting
        PROVE  Assembled(Append(r, e)) = AddBlock(Assembled(r), e)
    <2>1. E[Append(r, e)] = step[E[r]][e] /\ E[r] \in T
      BY <1>6 DEF Grows
    <2>2. step[E[r]][e] = AddBlock(E[r], e)
      BY <1>5, <2>1
    <2> QED BY <1>5, <2>1, <2>2
  <1> QED BY <1>7, <1>8 DEF T, empty

(* The chunks say what the blocks do, each within its bound.               *)
LEMMA AssembledForm ==
    ASSUME NEW blocks \in Seq(Fitting)
    PROVE  /\ Assembled(blocks) \in Assemblies
           /\ InChunks(Assembled(blocks)) = Texts(blocks)
           /\ AllBounded(Assembled(blocks))
  <1> DEFINE Right(q) == InChunks(Assembled(q)) = Texts(q) /\ AllBounded(Assembled(q))
             N == {q \in Seq(Fitting) : Right(q)}
  <1>1. <<>> \in N
    <2>1. <<>> \in Seq(Fitting) /\ Texts(<<>>) = {}
      BY TextsForm
    <2> QED BY <2>1, AssembleForm, NothingForm
  <1>2. ASSUME NEW q \in Seq(Fitting), NEW e \in Fitting, q \in N PROVE Append(q, e) \in N
    <2> DEFINE acc == Assembled(q)
    <2>1. Assembled(Append(q, e)) = AddBlock(acc, e) /\ acc \in Assemblies
      BY AssembleForm
    <2>2. Texts(Append(q, e)) = Texts(q) \cup ToSet(e.pieces) /\ Append(q, e) \in Seq(Fitting)
      BY FittingForm
    <2>3. Right(q)
      BY <1>2
    <2> HIDE DEF acc
    <2>4. /\ InChunks(AddBlock(acc, e)) = InChunks(acc) \cup ToSet(e.pieces)
          /\ AllBounded(acc) => AllBounded(AddBlock(acc, e))
      BY <2>1, AddBlockForm
    <2> QED BY <2>1, <2>2, <2>3, <2>4 DEF acc
  <1>3. blocks \in N
    <2> HIDE DEF N
    <2> QED BY <1>1, <1>2, ForEverySequence
  <1> QED BY <1>3, AssembleForm

(* Of two sequences joined, what is joined is joined.                      *)
LEMMA FlattenJoined ==
    ASSUME NEW S, NEW a \in Seq(Seq(S)), NEW b \in Seq(Seq(S))
    PROVE  FlattenSeq(a \o b) = FlattenSeq(a) \o FlattenSeq(b)
  <1> DEFINE N == {q \in Seq(Seq(S)) : FlattenSeq(a \o q) = FlattenSeq(a) \o FlattenSeq(q)}
  <1>1. <<>> \in N
    <2>1. FlattenSeq(<<>>) = <<>> /\ FlattenSeq(a) \in Seq(S)
      BY FlattenForm
    <2>2. \A r \in Seq(S) : r \o <<>> = r
      OBVIOUS
    <2>3. a \o <<>> = a /\ <<>> \in Seq(Seq(S))
      OBVIOUS
    <2> QED BY <2>1, <2>2, <2>3
  <1>2. ASSUME NEW q \in Seq(Seq(S)), NEW e \in Seq(S), q \in N PROVE Append(q, e) \in N
    <2>1. a \o Append(q, e) = Append(a \o q, e) /\ a \o q \in Seq(Seq(S))
          /\ Append(q, e) \in Seq(Seq(S))
      <3> DEFINE T == Seq(S)
      <3> HIDE DEF T
      <3>1. \A x, y \in Seq(T), z \in T : x \o Append(y, z) = Append(x \o y, z)
        BY JoinOneMore
      <3>2. \A x, y \in Seq(T), z \in T : x \o y \in Seq(T) /\ Append(x, z) \in Seq(T)
        OBVIOUS
      <3> QED BY <3>1, <3>2 DEF T
    <2>2. /\ FlattenSeq(Append(a \o q, e)) = FlattenSeq(a \o q) \o e
          /\ FlattenSeq(Append(q, e)) = FlattenSeq(q) \o e
          /\ FlattenSeq(a) \in Seq(S) /\ FlattenSeq(q) \in Seq(S)
      BY <2>1, FlattenForm
    <2>3. \A x, y \in Seq(S) : (x \o y) \o e = x \o (y \o e)
      OBVIOUS
    <2>4. FlattenSeq(a \o q) = FlattenSeq(a) \o FlattenSeq(q)
      BY <1>2
    <2>5. FlattenSeq(a \o Append(q, e)) = FlattenSeq(a) \o FlattenSeq(Append(q, e))
      BY <2>1, <2>2, <2>3, <2>4
    <2> QED BY <2>1, <2>5
  <1>3. b \in N
    <2> HIDE DEF N
    <2>1. \A q \in Seq(Seq(S)), e \in Seq(S) : q \in N => Append(q, e) \in N
      BY <1>2
    <2> QED BY <1>1, <2>1, ForEverySequence
  <1> QED BY <1>3

(* Alone, it is what it is.                                                *)
LEMMA FlattenOne == ASSUME NEW S, NEW s \in Seq(S) PROVE FlattenSeq(<<s>>) = s
  <1>1. <<s>> = Append(<<>>, s) /\ <<>> \in Seq(Seq(S)) /\ <<>> \o s = s
    OBVIOUS
  <1>2. FlattenSeq(Append(<<>>, s)) = FlattenSeq(<<>>) \o s /\ FlattenSeq(<<>>) = <<>>
    BY <1>1, FlattenForm
  <1> QED BY <1>1, <1>2

(* The same elements make the same sequence.                               *)
LEMMA SameSequence ==
    ASSUME NEW S, NEW x \in Seq(S), NEW y \in Seq(S), Len(x) = Len(y),
           \A i \in 1..Len(x) : x[i] = y[i]
    PROVE  x = y
  <1>1. x = [i \in 1..Len(x) |-> x[i]] /\ y = [i \in 1..Len(y) |-> y[i]]
    OBVIOUS
  <1> DEFINE n == Len(x)
  <1>2. x = [i \in 1..n |-> x[i]] /\ y = [i \in 1..n |-> y[i]] /\ \A i \in 1..n : x[i] = y[i]
    BY <1>1
  <1> HIDE DEF n
  <1> QED BY <1>2

(* What blocks say, one after the other.                                   *)
Paragraphs(blocks) == [i \in DOMAIN blocks |-> blocks[i].pieces]

(* They are paragraphs, and hold what the blocks do.                       *)
LEMMA ParagraphsForm ==
    /\ Paragraphs(<<>>) = <<>>
    /\ \A r \in Seq(BlockSet) : Paragraphs(r) \in Seq(Seq(Pieces))
    /\ \A r \in Seq(BlockSet), e \in BlockSet :
           Paragraphs(Append(r, e)) = Append(Paragraphs(r), e.pieces)
  <1>1. Paragraphs(<<>>) = <<>>
    BY DEF Paragraphs
  <1>2. \A b \in BlockSet : b.pieces \in Seq(Pieces)
    BY DEF BlockSet
  <1>3. ASSUME NEW r \in Seq(BlockSet)
        PROVE  /\ Paragraphs(r) \in Seq(Seq(Pieces)) /\ Len(Paragraphs(r)) = Len(r)
               /\ \A i \in 1..Len(r) : Paragraphs(r)[i] = r[i].pieces
    <2>1. DOMAIN r = 1..Len(r) /\ Len(r) \in Nat /\ \A i \in 1..Len(r) : r[i] \in BlockSet
      OBVIOUS
    <2> QED BY <1>2, <2>1 DEF Paragraphs
  <1>4. ASSUME NEW r \in Seq(BlockSet), NEW e \in BlockSet
        PROVE  Paragraphs(Append(r, e)) = Append(Paragraphs(r), e.pieces)
    <2> DEFINE q == Append(r, e)
               p == Paragraphs(r)
               d == e.pieces
    <2>1. /\ q \in Seq(BlockSet) /\ Len(q) = Len(r) + 1 /\ q[Len(r) + 1] = e /\ Len(r) \in Nat
          /\ \A i \in 1..Len(r) : q[i] = r[i]
      OBVIOUS
    <2>2. p \in Seq(Seq(Pieces)) /\ Len(p) = Len(r) /\ \A i \in 1..Len(r) : p[i] = r[i].pieces
      BY <1>3
    <2>3. d \in Seq(Pieces)
      BY <1>2
    <2> HIDE DEF q, p
    <2>4. /\ Paragraphs(q) \in Seq(Seq(Pieces)) /\ Len(Paragraphs(q)) = Len(r) + 1
          /\ \A i \in 1..(Len(r) + 1) : Paragraphs(q)[i] = q[i].pieces
      BY <1>3, <2>1
    <2>5. q[Len(r) + 1].pieces = d
      BY <2>1
    <2> HIDE DEF d
    <2>6. /\ Append(p, d) \in Seq(Seq(Pieces)) /\ Len(Append(p, d)) = Len(r) + 1
          /\ Append(p, d)[Len(r) + 1] = d
          /\ \A i \in 1..Len(r) : Append(p, d)[i] = p[i]
      BY <2>2, <2>3
    <2>7. \A i \in 1..(Len(r) + 1) : i \in 1..Len(r) \/ i = Len(r) + 1
      <3>1. \A n \in Nat : \A i \in 1..(n + 1) : i \in 1..n \/ i = n + 1
        OBVIOUS
      <3> QED BY <2>1, <3>1
    <2>8. \A i \in 1..(Len(r) + 1) : Paragraphs(q)[i] = Append(p, d)[i]
      BY <2>1, <2>2, <2>4, <2>5, <2>6, <2>7
    <2>9. Paragraphs(q) = Append(p, d)
      <3> DEFINE x == Paragraphs(q)
                 y == Append(p, d)
      <3> HIDE DEF x, y
      <3>1. x \in Seq(Seq(Pieces)) /\ y \in Seq(Seq(Pieces)) /\ Len(x) = Len(y)
            /\ \A i \in 1..Len(x) : x[i] = y[i]
        BY <2>4, <2>6, <2>8 DEF x, y
      <3>2. x = y
        BY <3>1, SameSequence
      <3> QED BY <3>2 DEF x, y
    <2> QED BY <2>9 DEF q, p, d
  <1> QED BY <1>1, <1>3, <1>4

(* Joined, they are as large as the blocks and say the same.               *)
LEMMA ParagraphsSay ==
    ASSUME NEW blocks \in Seq(BlockSet)
    PROVE  /\ FlattenSeq(Paragraphs(blocks)) \in Seq(Pieces)
           /\ Tokens(FlattenSeq(Paragraphs(blocks))) = TokensOf(blocks)
           /\ ToSet(FlattenSeq(Paragraphs(blocks))) = Texts(blocks)
  <1> DEFINE Right(q) == LET all == FlattenSeq(Paragraphs(q))
                         IN  /\ all \in Seq(Pieces) /\ Tokens(all) = TokensOf(q)
                             /\ ToSet(all) = Texts(q)
             N == {q \in Seq(BlockSet) : Right(q)}
  <1>1. <<>> \in N
    <2>1. <<>> \in Seq(BlockSet) /\ <<>> \in Seq(Pieces)
      OBVIOUS
    <2>2. FlattenSeq(Paragraphs(<<>>)) = <<>>
      BY ParagraphsForm, FlattenForm
    <2>3. Tokens(<<>>) = 0 /\ TokensOf(<<>>) = 0 /\ Texts(<<>>) = {} /\ ToSet(<<>>) = {}
      BY TokensForm, TokensOfForm, TextsForm, NoneForm
    <2> QED BY <2>1, <2>2, <2>3
  <1>2. ASSUME NEW q \in Seq(BlockSet), NEW e \in BlockSet, q \in N PROVE Append(q, e) \in N
    <2> DEFINE all == FlattenSeq(Paragraphs(q))
               d == e.pieces
    <2>1. /\ Paragraphs(Append(q, e)) = Append(Paragraphs(q), d)
          /\ Paragraphs(q) \in Seq(Seq(Pieces)) /\ d \in Seq(Pieces)
      BY ParagraphsForm DEF BlockSet
    <2>2. FlattenSeq(Paragraphs(Append(q, e))) = all \o d
      BY <2>1, FlattenForm
    <2>3. all \in Seq(Pieces) /\ Tokens(all) = TokensOf(q) /\ ToSet(all) = Texts(q)
      BY <1>2
    <2>4. Append(q, e) \in Seq(BlockSet)
      OBVIOUS
    <2>5. TokensOf(Append(q, e)) = TokensOf(q) + Tokens(d)
          /\ Texts(Append(q, e)) = Texts(q) \cup ToSet(d)
      BY TokensOfJoined
    <2> HIDE DEF all, d
    <2>6. /\ all \o d \in Seq(Pieces) /\ ToSet(all \o d) = ToSet(all) \cup ToSet(d)
          /\ Tokens(all \o d) = Tokens(all) + Tokens(d)
      BY <2>1, <2>3, JoinForm, TokensJoined
    <2> QED BY <2>2, <2>3, <2>4, <2>5, <2>6
  <1>3. blocks \in N
    <2> HIDE DEF N
    <2> QED BY <1>1, <1>2, ForEverySequence
  <1> QED BY <1>3

(* A sequence of some is a sequence of more.                               *)
LEMMA WiderSequences == ASSUME NEW A, NEW B, A \subseteq B PROVE Seq(A) \subseteq Seq(B)
  <1> SUFFICES ASSUME NEW r \in Seq(A) PROVE r \in Seq(B)
    OBVIOUS
  <1>1. Len(r) \in Nat /\ r = [i \in 1..Len(r) |-> r[i]] /\ \A i \in 1..Len(r) : r[i] \in A
    OBVIOUS
  <1> DEFINE n == Len(r)
  <1>2. n \in Nat /\ r = [i \in 1..n |-> r[i]] /\ \A i \in 1..n : r[i] \in B
    BY <1>1
  <1> HIDE DEF n
  <1>3. [i \in 1..n |-> r[i]] \in Seq(B)
    BY <1>2
  <1> QED BY <1>2, <1>3

(* Joined with what is no text, texts are the texts.                       *)
LEMMA ContentForm ==
    ASSUME NEW title \in Nat, NEW blocks \in Seq(BlockSet)
    PROVE  /\ Content(title, blocks) \in Seq(Seq(Int))
           /\ ToSet(FlattenSeq(Content(title, blocks))) \cap Pieces = Texts(blocks)
           /\ Tokens(Those(FlattenSeq(Content(title, blocks)), Pieces)) = TokensOf(blocks)
  <1> DEFINE paths == [i \in DOMAIN blocks |-> blocks[i].section]
             sections == Those(paths, ToSet(paths) \ {<<>>})
             crumbs == <<title>> \o (IF sections = <<>> THEN <<>> ELSE Head(sections))
             crumb == [i \in DOMAIN crumbs |-> 0 - crumbs[i]]
             first == IF blocks[1].level = 0 THEN <<crumb>> ELSE <<>>
             says == Paragraphs(blocks)
  <1>1. Content(title, blocks) = first \o says
    BY DEF Content, Paragraphs
  <1>2. Pieces \subseteq Nat \ {0}
    BY ChunkerAssumption
  <1>3. crumbs \in Seq(Nat)
    <2>1. paths \in Seq(Seq(Pieces))
      <3>1. \A i \in DOMAIN blocks : blocks[i].section \in Seq(Pieces)
        <4>1. \A i \in DOMAIN blocks : blocks[i] \in BlockSet
          OBVIOUS
        <4> QED BY <4>1 DEF BlockSet
      <3>2. DOMAIN blocks = 1..Len(blocks) /\ Len(blocks) \in Nat
        OBVIOUS
      <3> QED BY <3>1, <3>2
    <2> HIDE DEF paths
    <2>2. sections \in Seq(Seq(Pieces))
      BY <2>1, ThoseForm
    <2> HIDE DEF sections
    <2>3. sections # <<>> => Head(sections) \in Seq(Nat)
      <3>1. sections # <<>> => Head(sections) \in Seq(Pieces)
        BY <2>2
      <3>2. Seq(Pieces) \subseteq Seq(Nat)
        <4>1. Pieces \subseteq Nat
          BY <1>2
        <4> QED BY <4>1, WiderSequences
      <3> QED BY <3>1, <3>2
    <2>4. <<title>> \in Seq(Nat) /\ <<>> \in Seq(Nat)
      OBVIOUS
    <2>5. \A a, b \in Seq(Nat) : a \o b \in Seq(Nat)
      OBVIOUS
    <2> QED BY <2>3, <2>4, <2>5
  <1> HIDE DEF crumbs
  <1>4. crumb \in Seq(Int) /\ ToSet(crumb) \cap Pieces = {}
    <2>1. DOMAIN crumbs = 1..Len(crumbs) /\ Len(crumbs) \in Nat
          /\ \A i \in DOMAIN crumbs : crumbs[i] \in Nat
      BY <1>3
    <2>2. \A n \in Nat : 0 - n \in Int /\ 0 - n \notin Nat \ {0}
      OBVIOUS
    <2>3. crumb \in Seq(Int)
      BY <2>1, <2>2
    <2>4. \A i \in DOMAIN crumb : crumb[i] \notin Pieces
      BY <1>2, <2>1, <2>2
    <2> QED BY <2>3, <2>4 DEF ToSet
  <1> HIDE DEF crumb
  <1>5. /\ first \in Seq(Seq(Int)) /\ FlattenSeq(first) \in Seq(Int)
        /\ ToSet(FlattenSeq(first)) \cap Pieces = {}
    <2>1. <<crumb>> \in Seq(Seq(Int)) /\ <<>> \in Seq(Seq(Int)) /\ <<>> \in Seq(Int)
      BY <1>4
    <2>2. FlattenSeq(<<crumb>>) = crumb /\ FlattenSeq(<<>>) = <<>>
      <3>1. FlattenSeq(<<crumb>>) = crumb
        BY <1>4, FlattenOne
      <3> QED BY <3>1, FlattenForm
    <2> QED BY <1>4, <2>1, <2>2, NoneForm
  <1>6. says \in Seq(Seq(Pieces)) /\ says \in Seq(Seq(Int))
    <2>1. says \in Seq(Seq(Pieces))
      BY ParagraphsForm
    <2>2. Seq(Seq(Pieces)) \subseteq Seq(Seq(Int))
      <3>1. Pieces \subseteq Int
        BY <1>2
      <3>2. Seq(Pieces) \subseteq Seq(Int)
        BY <3>1, WiderSequences
      <3> QED BY <3>2, WiderSequences
    <2> QED BY <2>1, <2>2
  <1> DEFINE all == FlattenSeq(says)
             head == FlattenSeq(first)
  <1>7. all \in Seq(Pieces) /\ Tokens(all) = TokensOf(blocks) /\ ToSet(all) = Texts(blocks)
    BY ParagraphsSay
  <1> HIDE DEF first, says
  <1>8. first \o says \in Seq(Seq(Int)) /\ FlattenSeq(first \o says) = head \o all
    <2>1. FlattenSeq(first \o says) = head \o all
      BY <1>5, <1>6, FlattenJoined
    <2>2. \A a, b \in Seq(Seq(Int)) : a \o b \in Seq(Seq(Int))
      OBVIOUS
    <2> QED BY <1>5, <1>6, <2>1, <2>2
  <1>9. all \in Seq(Int) /\ ToSet(all) \subseteq Pieces
    <2>1. Seq(Pieces) \subseteq Seq(Int)
      <3>1. Pieces \subseteq Int
        BY <1>2
      <3> QED BY <3>1, WiderSequences
    <2>2. \A r \in Seq(Pieces) : ToSet(r) \subseteq Pieces
      BY DEF ToSet
    <2> QED BY <1>7, <2>1, <2>2
  <1>10. head \in Seq(Int) /\ ToSet(head) \cap Pieces = {}
    BY <1>5
  <1> HIDE DEF all, head
  <1>11. ToSet(head \o all) = ToSet(head) \cup ToSet(all)
    BY <1>9, <1>10, JoinForm
  <1>12. Those(head \o all, Pieces) = all
    <2>1. Those(head \o all, Pieces) = Those(head, Pieces) \o Those(all, Pieces)
      BY <1>9, <1>10, ThoseJoined
    <2>2. Those(head, Pieces) = <<>>
      BY <1>10, ThoseAre
    <2>3. Those(all, Pieces) = all
      BY <1>9, ThoseAre
    <2>4. <<>> \o all = all
      BY <1>9
    <2> QED BY <2>1, <2>2, <2>3, <2>4
  <1> QED BY <1>1, <1>7, <1>8, <1>9, <1>10, <1>11, <1>12

(* What is within another says no more.                                    *)
LEMMA WithinForm ==
    ASSUME NEW S, NEW part \in Seq(S), NEW whole \in Seq(S), IsWithin(part, whole)
    PROVE  ToSet(part) \subseteq ToSet(whole)
  <1> DEFINE l == Len(part)
             m == Len(whole)
  <1>1. PICK k \in 0..(m - l) : SubSeq(whole, k + 1, k + l) = part
    BY DEF IsWithin
  <1>2. l \in Nat /\ m \in Nat /\ DOMAIN part = 1..l /\ DOMAIN whole = 1..m
    OBVIOUS
  <1>3. k \in Nat /\ k + l <= m
    <2> HIDE DEF l, m
    <2> QED BY <1>1, <1>2
  <1>4. \A i \in 1..l : k + i \in 1..m /\ part[i] = whole[k + i]
    <2> HIDE DEF l, m
    <2>1. SubSeq(whole, k + 1, k + l)
              = [i \in 1..((k + l) - (k + 1) + 1) |-> whole[i + (k + 1) - 1]]
      BY <1>2, <1>3
    <2>2. (k + l) - (k + 1) + 1 = l /\ \A i \in 1..l : i + (k + 1) - 1 = k + i
      BY <1>2, <1>3
    <2>3. \A i \in 1..l : k + i \in 1..m
      BY <1>2, <1>3
    <2> QED BY <1>1, <2>1, <2>2, <2>3
  <1> HIDE DEF l, m
  <1> QED BY <1>2, <1>4 DEF ToSet

(* What contents say.                                                      *)
InContents(contents) == UNION {ToSet(FlattenSeq(content)) : content \in ToSet(contents)}

(* What is redundant says nothing.                                         *)
LEMMA RedundantForm ==
    ASSUME NEW S, NEW contents \in Seq(Seq(Seq(S)))
    PROVE  /\ WithoutRedundant(contents) \in Seq(Seq(Seq(S)))
           /\ ToSet(WithoutRedundant(contents)) \subseteq ToSet(contents)
           /\ InContents(WithoutRedundant(contents)) = InContents(contents)
  <1> DEFINE n == Len(contents)
             redundant == /\ n > 1
                          /\ IsWithin(FlattenSeq(Last(contents)), FlattenSeq(contents[n - 1]))
  <1>1. CASE ~ redundant
    BY <1>1 DEF WithoutRedundant
  <1>2. CASE redundant
    <2> DEFINE T == Seq(Seq(S))
               front == Front(contents)
               last == Last(contents)
               prior == contents[n - 1]
    <2>1. n \in Nat /\ n > 1 /\ contents # <<>>
      BY <1>2
    <2>2. /\ front \in Seq(T) /\ last \in T /\ ToSet(contents) = ToSet(front) \cup {last}
          /\ Len(front) = n - 1
      BY <2>1, FrontForm
    <2>3. prior \in T /\ prior \in ToSet(front)
      <3>1. Append(front, last) = contents
        BY <2>1, FrontForm
      <3>2. n - 1 \in 1..Len(front) /\ n - 1 \in 1..n
        <4> HIDE DEF n, front
        <4> QED BY <2>1, <2>2
      <3>3. /\ DOMAIN front = 1..Len(front)
            /\ \A i \in DOMAIN front : Append(front, last)[i] = front[i]
        <4> HIDE DEF front, last, T
        <4> QED BY <2>2
      <3>4. prior = front[n - 1] /\ n - 1 \in DOMAIN front
        <4> HIDE DEF n, front, last
        <4> QED BY <3>1, <3>2, <3>3
      <3>5. prior \in T
        <4>1. DOMAIN contents = 1..n /\ \A i \in DOMAIN contents : contents[i] \in T
          OBVIOUS
        <4> HIDE DEF n, T
        <4> QED BY <3>2, <4>1
      <3> HIDE DEF n, front, T, prior
      <3> QED BY <3>4, <3>5 DEF ToSet
    <2>4. WithoutRedundant(contents) = front
      BY <1>2 DEF WithoutRedundant
    <2>5. IsWithin(FlattenSeq(last), FlattenSeq(prior))
      BY <1>2
    <2> HIDE DEF front, last, prior, n
    <2>6. FlattenSeq(last) \in Seq(S) /\ FlattenSeq(prior) \in Seq(S)
      BY <2>2, <2>3, FlattenForm
    <2>7. ToSet(FlattenSeq(last)) \subseteq ToSet(FlattenSeq(prior))
      BY <2>5, <2>6, WithinForm
    <2>8. InContents(front) = InContents(contents)
      BY <2>2, <2>3, <2>7 DEF InContents
    <2> QED BY <2>2, <2>4, <2>8
  <1> QED BY <1>1, <1>2

----------------------------------------------------------------------------
(* The index is of the corpus, whole and within bounds.                    *)

(* The size of what a chunk says has its bound.                            *)
Sized(content) ==
    LET said == FlattenSeq(content)
        size == Tokens(Those(said, Pieces))
    IN  \/ size <= Target + Overlap
        \/ \E p \in ToSet(said) \cap Pieces : Size[p] > Target /\ size <= Size[p] + Overlap

(* The chunks of a document say what it says, each within its bound.       *)
LEMMA ChunksForm ==
    ASSUME NEW title \in Nat, NEW document \in Seq(Lines)
    PROVE  /\ Chunks(title, document) \in Seq(Seq(Seq(Int)))
           /\ InContents(Chunks(title, document)) \cap Pieces = Texts(document)
           /\ \A content \in ToSet(Chunks(title, document)) : Sized(content)
  <1> DEFINE blocks == Pieced(Blocks(document))
             last == Assembled(blocks)
             chunks == Append(last.done, last.current)
             contents == [n \in DOMAIN chunks |-> Content(title, chunks[n])]
  <1>1. blocks \in Seq(Fitting) /\ Texts(blocks) = Texts(document)
    BY BlocksForm, PiecedForm
  <1>2. Chunks(title, document) = IF blocks = <<>> THEN <<>> ELSE WithoutRedundant(contents)
    BY DEF Chunks
  <1>3. CASE blocks = <<>>
    <2>1. Texts(document) = {}
      BY <1>1, <1>3, TextsForm
    <2>2. Chunks(title, document) = <<>> /\ <<>> \in Seq(Seq(Seq(Int)))
      BY <1>2, <1>3
    <2> QED BY <2>1, <2>2, NoneForm DEF InContents
  <1> HIDE DEF blocks
  <1>4. last \in Assemblies /\ InChunks(last) = Texts(document) /\ AllBounded(last)
    BY <1>1, AssembledForm
  <1> HIDE DEF last
  <1>5. /\ chunks \in Seq(Seq(Fitting))
        /\ ToSet(chunks) = ToSet(last.done) \cup {last.current}
    <2>1. last.done \in Seq(Seq(Fitting)) /\ last.current \in Seq(Fitting)
      BY <1>4 DEF Assemblies
    <2>2. \A x \in Seq(Seq(Fitting)), y \in Seq(Fitting) :
              /\ Append(x, y) \in Seq(Seq(Fitting))
              /\ ToSet(Append(x, y)) = ToSet(x) \cup {y}
      BY AppendForm
    <2> QED BY <2>1, <2>2
  <1> HIDE DEF chunks
  <1>6. \A chunk \in ToSet(chunks) : Bounded(chunk)
    BY <1>4, <1>5 DEF AllBounded
  <1>7. UNION {Texts(chunk) : chunk \in ToSet(chunks)} = Texts(document)
    BY <1>4, <1>5 DEF InChunks
  <1>8. \A chunk \in Seq(Fitting) :
            /\ Content(title, chunk) \in Seq(Seq(Int))
            /\ ToSet(FlattenSeq(Content(title, chunk))) \cap Pieces = Texts(chunk)
            /\ Tokens(Those(FlattenSeq(Content(title, chunk)), Pieces)) = TokensOf(chunk)
    <2>1. Seq(Fitting) \subseteq Seq(BlockSet)
      BY FittingForm
    <2> QED BY <2>1, ContentForm
  <1>9. /\ contents \in Seq(Seq(Seq(Int)))
        /\ ToSet(contents) = {Content(title, chunk) : chunk \in ToSet(chunks)}
    <2>1. /\ DOMAIN chunks = 1..Len(chunks) /\ Len(chunks) \in Nat
          /\ \A n \in DOMAIN chunks : chunks[n] \in Seq(Fitting)
      BY <1>5
    <2>2. contents \in Seq(Seq(Seq(Int)))
      BY <1>8, <2>1
    <2> QED BY <2>2 DEF ToSet
  <1>10. ToSet(chunks) \subseteq Seq(Fitting)
    <2>1. \A n \in DOMAIN chunks : chunks[n] \in Seq(Fitting)
      BY <1>5
    <2> QED BY <2>1 DEF ToSet
  <1> HIDE DEF contents
  <1>11. InContents(contents) \cap Pieces = Texts(document)
    <2>1. InContents(contents) \cap Pieces
              = UNION {ToSet(FlattenSeq(Content(title, chunk))) \cap Pieces :
                           chunk \in ToSet(chunks)}
      BY <1>9 DEF InContents
    <2>2. UNION {ToSet(FlattenSeq(Content(title, chunk))) \cap Pieces : chunk \in ToSet(chunks)}
              = UNION {Texts(chunk) : chunk \in ToSet(chunks)}
      BY <1>8, <1>10
    <2> QED BY <1>7, <2>1, <2>2
  <1>12. \A content \in ToSet(contents) : Sized(content)
    <2> SUFFICES ASSUME NEW chunk \in ToSet(chunks) PROVE Sized(Content(title, chunk))
      BY <1>9
    <2> DEFINE said == FlattenSeq(Content(title, chunk))
    <2>1. /\ ToSet(said) \cap Pieces = Texts(chunk)
          /\ Tokens(Those(said, Pieces)) = TokensOf(chunk)
      BY <1>8, <1>10
    <2>2. Bounded(chunk)
      BY <1>6
    <2> HIDE DEF said
    <2>3. LET size == Tokens(Those(said, Pieces))
          IN  \/ size <= Target + Overlap
              \/ \E p \in ToSet(said) \cap Pieces :
                     Size[p] > Target /\ size <= Size[p] + Overlap
      BY <2>1, <2>2 DEF Bounded, Large
    <2> QED BY <2>3 DEF Sized, said
  <1>13. /\ WithoutRedundant(contents) \in Seq(Seq(Seq(Int)))
         /\ ToSet(WithoutRedundant(contents)) \subseteq ToSet(contents)
         /\ InContents(WithoutRedundant(contents)) = InContents(contents)
    BY <1>9, RedundantForm
  <1>14. CASE blocks # <<>>
    BY <1>2, <1>11, <1>12, <1>13, <1>14
  <1> QED BY <1>3, <1>14 DEF blocks

(* The index is of the corpus.                                             *)
IngestInv ==
    /\ \A d \in Docs : corpus[d] \in Written[d]
    /\ index = Indexed(corpus)

(* What the index holds of a document are its chunks.                      *)
LEMMA IndexForm ==
    ASSUME IngestInv
    PROVE  /\ \A c \in DOMAIN index :
                  index[c] \in Seq(Seq(Int)) /\ c[1] \in Docs
           /\ \A d \in Docs :
                  /\ corpus[d] \in Seq(Lines)
                  /\ {index[c] : c \in {i \in DOMAIN index : i[1] = d}}
                         = ToSet(Chunks(d, corpus[d]))
  <1> DEFINE said(d) == Chunks(d, corpus[d])
             ids == UNION {{d} \X (1..Len(said(d))) : d \in Docs}
  <1>1. \A d \in Docs : Contents[d][corpus[d]] = said(d)
    BY DEF IngestInv, Contents
  <1>2. index = [c \in ids |-> said(c[1])[c[2]]]
    <2>1. UNION {{d} \X (1..Len(Contents[d][corpus[d]])) : d \in Docs} = ids
      BY <1>1
    <2>2. \A c \in ids : c[1] \in Docs
      OBVIOUS
    <2>3. \A c \in ids : Contents[c[1]][corpus[c[1]]][c[2]] = said(c[1])[c[2]]
      BY <1>1, <2>2
    <2>4. index = [c \in ids |-> Contents[c[1]][corpus[c[1]]][c[2]]]
      BY <2>1 DEF IngestInv, Indexed
    <2> HIDE DEF ids, said
    <2> QED BY <2>3, <2>4
  <1>3. \A d \in Docs : corpus[d] \in Seq(Lines) /\ said(d) \in Seq(Seq(Seq(Int)))
    <2>1. \A d \in Docs : corpus[d] \in Seq(Lines) /\ d \in Nat
      BY RetrievalAssumption DEF IngestInv
    <2> QED BY <2>1, ChunksForm
  <1> HIDE DEF said
  <1>4. \A c : c \in ids <=> \E d \in Docs : \E n \in 1..Len(said(d)) : c = <<d, n>>
    OBVIOUS
  <1>5. \A d \in Docs : \A n \in 1..Len(said(d)) : <<d, n>> \in ids /\ index[<<d, n>>] = said(d)[n]
    <2>1. \A d \in Docs : \A n \in 1..Len(said(d)) : <<d, n>> \in ids
      BY <1>4
    <2> HIDE DEF ids
    <2> QED BY <1>2, <2>1
  <1>6. ASSUME NEW c \in DOMAIN index PROVE index[c] \in Seq(Seq(Int)) /\ c[1] \in Docs
    <2>1. c \in ids
      BY <1>2
    <2>2. PICK d \in Docs : \E n \in 1..Len(said(d)) : c = <<d, n>>
      BY <1>4, <2>1
    <2>3. PICK n \in 1..Len(said(d)) : c = <<d, n>>
      BY <2>2
    <2>4. said(d)[n] \in Seq(Seq(Int))
      BY <1>3
    <2> QED BY <1>5, <2>3, <2>4
  <1>7. ASSUME NEW d \in Docs
        PROVE  {index[c] : c \in {i \in DOMAIN index : i[1] = d}} = ToSet(said(d))
    <2>1. {i \in DOMAIN index : i[1] = d} = {<<d, n>> : n \in 1..Len(said(d))}
      <3>1. DOMAIN index = ids
        BY <1>2
      <3> HIDE DEF ids
      <3> QED BY <1>4, <3>1
    <2>2. {index[c] : c \in {i \in DOMAIN index : i[1] = d}}
              = {said(d)[n] : n \in 1..Len(said(d))}
      <3> DEFINE own == {i \in DOMAIN index : i[1] = d}
                 places == 1..Len(said(d))
      <3>1. own = {<<d, n>> : n \in places}
        BY <2>1
      <3>2. \A n \in places : index[<<d, n>>] = said(d)[n]
        BY <1>5
      <3> HIDE DEF own, places
      <3>3. {index[c] : c \in own} = {index[<<d, n>>] : n \in places}
        BY <3>1
      <3>4. {index[<<d, n>>] : n \in places} = {said(d)[n] : n \in places}
        BY <3>2
      <3> QED BY <3>3, <3>4 DEF own, places
    <2>3. DOMAIN said(d) = 1..Len(said(d))
      BY <1>3
    <2> QED BY <2>2, <2>3 DEF ToSet
  <1> QED BY <1>3, <1>6, <1>7 DEF said

(* The index is of the corpus, whatever is searched.                       *)
THEOREM IndexIsTheCorpus == RetrievalSpec => []IngestInv
  <1>1. RetrievalInit => IngestInv
    BY DEF RetrievalInit, IngestInv
  <1>2. IngestInv /\ [RetrievalNext]_retrievalVars => IngestInv'
    BY IndexStays DEF IngestInv
  <1> QED BY <1>1, <1>2, PTL DEF RetrievalSpec

(* A document is cut without loss, within bounds.                          *)
THEOREM NothingIsLostByCutting == RetrievalSpec => []DocumentsAreWhole
  <1>1. IngestInv => DocumentsAreWhole
    <2> SUFFICES ASSUME IngestInv PROVE DocumentsAreWhole
      OBVIOUS
    <2> DEFINE said(d) == {FlattenSeq(index[c]) : c \in {i \in DOMAIN index : i[1] = d}}
               texts(d) == UNION {ToSet(corpus[d][i].pieces) : i \in DOMAIN corpus[d]}
               Whole(d) == /\ (UNION {ToSet(content) : content \in said(d)}) \cap Pieces = texts(d)
                           /\ \A content \in said(d) :
                                LET size == Tokens(Those(content, Pieces))
                                IN  \/ size <= Target + Overlap
                                    \/ \E p \in ToSet(content) \cap Pieces :
                                           Size[p] > Target /\ size <= Size[p] + Overlap
    <2>1. ASSUME NEW d \in Docs PROVE Whole(d)
      <3> DEFINE chunks == Chunks(d, corpus[d])
      <3>1. /\ corpus[d] \in Seq(Lines) /\ d \in Nat
            /\ {index[c] : c \in {i \in DOMAIN index : i[1] = d}} = ToSet(chunks)
        BY IndexForm, RetrievalAssumption
      <3>2. /\ InContents(chunks) \cap Pieces = Texts(corpus[d])
            /\ \A content \in ToSet(chunks) : Sized(content)
        BY <3>1, ChunksForm
      <3>3. said(d) = {FlattenSeq(content) : content \in ToSet(chunks)}
        BY <3>1
      <3>4. texts(d) = Texts(corpus[d])
        BY DEF Texts, ToSet
      <3> HIDE DEF chunks, said, texts
      <3>5. UNION {ToSet(content) : content \in said(d)} = InContents(chunks)
        BY <3>3 DEF InContents
      <3>6. (UNION {ToSet(content) : content \in said(d)}) \cap Pieces = texts(d)
        BY <3>2, <3>4, <3>5
      <3>7. \A content \in said(d) :
                LET size == Tokens(Those(content, Pieces))
                IN  \/ size <= Target + Overlap
                    \/ \E p \in ToSet(content) \cap Pieces :
                           Size[p] > Target /\ size <= Size[p] + Overlap
        BY <3>2, <3>3 DEF Sized
      <3> QED BY <3>6, <3>7
    <2> HIDE DEF Whole
    <2>2. (\A d \in Docs : Whole(d)) => DocumentsAreWhole
      BY DEF DocumentsAreWhole, Whole
    <2> QED BY <2>1, <2>2
  <1> QED BY <1>1, IndexIsTheCorpus, PTL

----------------------------------------------------------------------------
(* What the investigation makes of an answer.                              *)

(* What a text of a context costs.                                         *)
Dearer(sum, p) == sum + IF p \in Pieces THEN Size[p] ELSE LabelTokens

CostOf(texts) ==
    FoldLeft(LAMBDA sum, p : sum + IF p \in Pieces THEN Size[p] ELSE LabelTokens,
             LabelTokens, texts)

(* Costs add up.                                                           *)
LEMMA CostForm ==
    /\ CostOf(<<>>) = LabelTokens
    /\ \A r \in Seq(Int) : CostOf(r) \in Nat
    /\ \A r \in Seq(Int), e \in Int : CostOf(Append(r, e)) = Dearer(CostOf(r), e)
  <1> DEFINE T == Nat
             empty == LabelTokens
             step == [a \in T |-> [c \in Int |-> Dearer(a, c)]]
             E == [r \in Seq(Int) |-> CostOf(r)]
  <1>1. \A a \in T, e \in Int : Dearer(a, e) \in T
    <2>1. \A p \in Pieces : Size[p] \in Nat
      BY ChunkerAssumption
    <2>2. LabelTokens \in Nat
      BY RetrievalAssumption
    <2> QED BY <2>1, <2>2 DEF Dearer
  <1>2. empty \in T
    BY RetrievalAssumption
  <1>3. step \in [T -> [Int -> T]]
    <2> HIDE DEF T
    <2> QED BY <1>1
  <1>4. ASSUME NEW r \in Seq(Int)
        PROVE  \E x : Runs(x, Len(r), T, empty, StepsOf(step, r, T)) /\ x[Len(r)] = E[r]
    <2> DEFINE n == Len(r)
               G == StepsOf(step, r, T)
               Folds(h) == h = [s \in SUBSET (1..n) |->
                                    IF s = {} THEN empty
                                    ELSE Dearer(h[s \ {Max(s)}], r[Max(s)])]
               fold == CHOOSE h : Folds(h)
    <2>1. n \in Nat /\ DOMAIN r = 1..n /\ \A i \in 1..n : r[i] \in Int
      OBVIOUS
    <2>2. E[r] = fold[1..n]
      BY <2>1 DEF CostOf, Dearer, FoldLeft, MapThenFoldSet
    <2>3. \A s \in SUBSET (1..n) : s # {} => Max(s) \in 1..n
      BY <2>1, LastIsThere
    <2>4. \A i \in 1..n : \A a \in T : G[i][a] = Dearer(a, r[i])
      BY <2>1 DEF StepsOf
    <2> HIDE DEF T, empty, step, E
    <2>5. G \in StepsOn(n, T)
      BY <1>3, StepsOfForm
    <2> HIDE DEF n, G
    <2>6. PICK g \in [SUBSET (1..n) -> T] : FoldsBy(g, n, T, empty, G)
      BY <1>2, <2>1, <2>5, FoldExists
    <2>7. Folds(fold)
      <3>1. Folds(g)
        BY <2>3, <2>4, <2>6 DEF FoldsBy
      <3> QED BY <3>1
    <2> HIDE DEF fold
    <2>8. FoldsBy(fold, n, T, empty, G)
      BY <2>3, <2>4, <2>7 DEF FoldsBy
    <2>9. PICK x : Runs(x, n, T, empty, G) /\ x[n] = fold[1..n]
      BY <1>2, <2>1, <2>5, <2>8, FoldRuns
    <2> QED BY <2>2, <2>9 DEF n, G
  <1>5. /\ \A r \in Seq(Int) : E[r] = CostOf(r)
        /\ \A a \in T, e \in Int : step[a][e] = Dearer(a, e)
        /\ <<>> \in Seq(Int) /\ \A r \in Seq(Int), e \in Int : Append(r, e) \in Seq(Int)
    OBVIOUS
  <1> HIDE DEF T, empty, step, E
  <1>6. Grows(E, Int, T, empty, step)
    <2>1. Computes(E, Int, T, empty, step)
      BY <1>3, <1>4 DEF Computes
    <2> QED BY <2>1, AppendLaw
  <1>7. CostOf(<<>>) = empty /\ \A r \in Seq(Int) : CostOf(r) \in T
    BY <1>5, <1>6 DEF Grows
  <1>8. ASSUME NEW r \in Seq(Int), NEW e \in Int
        PROVE  CostOf(Append(r, e)) = Dearer(CostOf(r), e)
    <2>1. E[Append(r, e)] = step[E[r]][e] /\ E[r] \in T
      BY <1>6 DEF Grows
    <2>2. step[E[r]][e] = Dearer(E[r], e)
      BY <1>5, <2>1
    <2> QED BY <1>5, <2>1, <2>2
  <1> QED BY <1>7, <1>8 DEF T, empty

(* Paragraphs cost what their texts do.                                    *)
LEMMA CostIsNat == ASSUME NEW paragraphs \in Seq(Seq(Int)) PROVE Cost(paragraphs) \in Nat
  <1>1. FlattenSeq(paragraphs) \in Seq(Int)
    BY FlattenForm
  <1>2. Cost(paragraphs) = CostOf(FlattenSeq(paragraphs))
    BY DEF Cost, CostOf
  <1> QED BY <1>1, <1>2, CostForm

(* The documents of chunks, each once.                                     *)
WithDoc(docs, c) == IF c[1] \in ToSet(docs) THEN docs ELSE Append(docs, c[1])

DocsOf(chunks) ==
    FoldLeft(LAMBDA docs, c : IF c[1] \in ToSet(docs) THEN docs ELSE Append(docs, c[1]),
             <<>>, chunks)

(* The chunks that a ranking can be of.                                    *)
Ids == Docs \X Nat

(* They are found chunk by chunk.                                          *)
LEMMA DocsOfForm ==
    /\ DocsOf(<<>>) = <<>>
    /\ \A r \in Seq(Ids) : DocsOf(r) \in {t \in Seq(Docs) : Once(t)}
    /\ \A r \in Seq(Ids), e \in Ids : DocsOf(Append(r, e)) = WithDoc(DocsOf(r), e)
  <1> DEFINE T == {t \in Seq(Docs) : Once(t)}
             empty == <<>>
             step == [a \in T |-> [c \in Ids |-> WithDoc(a, c)]]
             E == [r \in Seq(Ids) |-> DocsOf(r)]
  <1>1. \A a \in T, e \in Ids : WithDoc(a, e) \in T
    <2> SUFFICES ASSUME NEW a \in Seq(Docs), Once(a), NEW e \in Ids PROVE WithDoc(a, e) \in T
      OBVIOUS
    <2>1. e[1] \in Docs
      BY DEF Ids
    <2> DEFINE d == e[1]
    <2> HIDE DEF d
    <2>2. Append(a, d) \in Seq(Docs) /\ (d \notin ToSet(a) => Once(Append(a, d)))
      BY <2>1, OnceMore DEF d
    <2> QED BY <2>2 DEF WithDoc, d
  <1>2. empty \in T
    BY NoneForm
  <1>3. step \in [T -> [Ids -> T]]
    <2> HIDE DEF T
    <2> QED BY <1>1
  <1>4. ASSUME NEW r \in Seq(Ids)
        PROVE  \E x : Runs(x, Len(r), T, empty, StepsOf(step, r, T)) /\ x[Len(r)] = E[r]
    <2> DEFINE n == Len(r)
               G == StepsOf(step, r, T)
               Folds(h) == h = [s \in SUBSET (1..n) |->
                                    IF s = {} THEN empty
                                    ELSE WithDoc(h[s \ {Max(s)}], r[Max(s)])]
               fold == CHOOSE h : Folds(h)
    <2>1. n \in Nat /\ DOMAIN r = 1..n /\ \A i \in 1..n : r[i] \in Ids
      OBVIOUS
    <2>2. E[r] = fold[1..n]
      BY <2>1 DEF DocsOf, WithDoc, FoldLeft, MapThenFoldSet
    <2>3. \A s \in SUBSET (1..n) : s # {} => Max(s) \in 1..n
      BY <2>1, LastIsThere
    <2>4. \A i \in 1..n : \A a \in T : G[i][a] = WithDoc(a, r[i])
      BY <2>1 DEF StepsOf
    <2> HIDE DEF T, empty, step, E
    <2>5. G \in StepsOn(n, T)
      BY <1>3, StepsOfForm
    <2> HIDE DEF n, G
    <2>6. PICK g \in [SUBSET (1..n) -> T] : FoldsBy(g, n, T, empty, G)
      BY <1>2, <2>1, <2>5, FoldExists
    <2>7. Folds(fold)
      <3>1. Folds(g)
        BY <2>3, <2>4, <2>6 DEF FoldsBy
      <3> QED BY <3>1
    <2> HIDE DEF fold
    <2>8. FoldsBy(fold, n, T, empty, G)
      BY <2>3, <2>4, <2>7 DEF FoldsBy
    <2>9. PICK x : Runs(x, n, T, empty, G) /\ x[n] = fold[1..n]
      BY <1>2, <2>1, <2>5, <2>8, FoldRuns
    <2> QED BY <2>2, <2>9 DEF n, G
  <1>5. /\ \A r \in Seq(Ids) : E[r] = DocsOf(r)
        /\ \A a \in T, e \in Ids : step[a][e] = WithDoc(a, e)
        /\ <<>> \in Seq(Ids) /\ \A r \in Seq(Ids), e \in Ids : Append(r, e) \in Seq(Ids)
    OBVIOUS
  <1> HIDE DEF T, empty, step, E
  <1>6. Grows(E, Ids, T, empty, step)
    <2>1. Computes(E, Ids, T, empty, step)
      BY <1>3, <1>4 DEF Computes
    <2> QED BY <2>1, AppendLaw
  <1>7. DocsOf(<<>>) = empty /\ \A r \in Seq(Ids) : DocsOf(r) \in T
    BY <1>5, <1>6 DEF Grows
  <1>8. ASSUME NEW r \in Seq(Ids), NEW e \in Ids
        PROVE  DocsOf(Append(r, e)) = WithDoc(DocsOf(r), e)
    <2>1. E[Append(r, e)] = step[E[r]][e] /\ E[r] \in T
      BY <1>6 DEF Grows
    <2>2. step[E[r]][e] = WithDoc(E[r], e)
      BY <1>5, <2>1
    <2> QED BY <1>5, <2>1, <2>2
  <1> QED BY <1>7, <1>8 DEF T, empty

(* The documents of past incidents, each incident once.                    *)
WithIncident(found, c) ==
    IF \/ IncidentOf[c[1]] \in {NoIncident, Own}
       \/ \E d \in ToSet(found) : IncidentOf[d] = IncidentOf[c[1]]
    THEN found ELSE Append(found, c[1])

IncidentsOf(chunks) ==
    FoldLeft(LAMBDA found, c :
                 IF \/ IncidentOf[c[1]] \in {NoIncident, Own}
                    \/ \E d \in ToSet(found) : IncidentOf[d] = IncidentOf[c[1]]
                 THEN found ELSE Append(found, c[1]),
             <<>>, chunks)

(* They are found chunk by chunk too.                                      *)
LEMMA IncidentsOfForm ==
    /\ IncidentsOf(<<>>) = <<>>
    /\ \A r \in Seq(Ids) : IncidentsOf(r) \in {t \in Seq(Docs) : Once(t)}
    /\ \A r \in Seq(Ids), e \in Ids : IncidentsOf(Append(r, e)) = WithIncident(IncidentsOf(r), e)
  <1> DEFINE T == {t \in Seq(Docs) : Once(t)}
             empty == <<>>
             step == [a \in T |-> [c \in Ids |-> WithIncident(a, c)]]
             E == [r \in Seq(Ids) |-> IncidentsOf(r)]
  <1>1. \A a \in T, e \in Ids : WithIncident(a, e) \in T
    <2> SUFFICES ASSUME NEW a \in Seq(Docs), Once(a), NEW e \in Ids
                 PROVE  WithIncident(a, e) \in T
      OBVIOUS
    <2>1. e[1] \in Docs
      BY DEF Ids
    <2> DEFINE d == e[1]
    <2> HIDE DEF d
    <2>2. Append(a, d) \in Seq(Docs) /\ (d \notin ToSet(a) => Once(Append(a, d)))
      BY <2>1, OnceMore DEF d
    <2> QED BY <2>2 DEF WithIncident, d
  <1>2. empty \in T
    BY NoneForm
  <1>3. step \in [T -> [Ids -> T]]
    <2> HIDE DEF T
    <2> QED BY <1>1
  <1>4. ASSUME NEW r \in Seq(Ids)
        PROVE  \E x : Runs(x, Len(r), T, empty, StepsOf(step, r, T)) /\ x[Len(r)] = E[r]
    <2> DEFINE n == Len(r)
               G == StepsOf(step, r, T)
               Folds(h) == h = [s \in SUBSET (1..n) |->
                                    IF s = {} THEN empty
                                    ELSE WithIncident(h[s \ {Max(s)}], r[Max(s)])]
               fold == CHOOSE h : Folds(h)
    <2>1. n \in Nat /\ DOMAIN r = 1..n /\ \A i \in 1..n : r[i] \in Ids
      OBVIOUS
    <2>2. E[r] = fold[1..n]
      BY <2>1 DEF IncidentsOf, WithIncident, FoldLeft, MapThenFoldSet
    <2>3. \A s \in SUBSET (1..n) : s # {} => Max(s) \in 1..n
      BY <2>1, LastIsThere
    <2>4. \A i \in 1..n : \A a \in T : G[i][a] = WithIncident(a, r[i])
      BY <2>1 DEF StepsOf
    <2> HIDE DEF T, empty, step, E
    <2>5. G \in StepsOn(n, T)
      BY <1>3, StepsOfForm
    <2> HIDE DEF n, G
    <2>6. PICK g \in [SUBSET (1..n) -> T] : FoldsBy(g, n, T, empty, G)
      BY <1>2, <2>1, <2>5, FoldExists
    <2>7. Folds(fold)
      <3>1. Folds(g)
        BY <2>3, <2>4, <2>6 DEF FoldsBy
      <3> QED BY <3>1
    <2> HIDE DEF fold
    <2>8. FoldsBy(fold, n, T, empty, G)
      BY <2>3, <2>4, <2>7 DEF FoldsBy
    <2>9. PICK x : Runs(x, n, T, empty, G) /\ x[n] = fold[1..n]
      BY <1>2, <2>1, <2>5, <2>8, FoldRuns
    <2> QED BY <2>2, <2>9 DEF n, G
  <1>5. /\ \A r \in Seq(Ids) : E[r] = IncidentsOf(r)
        /\ \A a \in T, e \in Ids : step[a][e] = WithIncident(a, e)
        /\ <<>> \in Seq(Ids) /\ \A r \in Seq(Ids), e \in Ids : Append(r, e) \in Seq(Ids)
    OBVIOUS
  <1> HIDE DEF T, empty, step, E
  <1>6. Grows(E, Ids, T, empty, step)
    <2>1. Computes(E, Ids, T, empty, step)
      BY <1>3, <1>4 DEF Computes
    <2> QED BY <2>1, AppendLaw
  <1>7. IncidentsOf(<<>>) = empty /\ \A r \in Seq(Ids) : IncidentsOf(r) \in T
    BY <1>5, <1>6 DEF Grows
  <1>8. ASSUME NEW r \in Seq(Ids), NEW e \in Ids
        PROVE  IncidentsOf(Append(r, e)) = WithIncident(IncidentsOf(r), e)
    <2>1. E[Append(r, e)] = step[E[r]][e] /\ E[r] \in T
      BY <1>6 DEF Grows
    <2>2. step[E[r]][e] = WithIncident(E[r], e)
      BY <1>5, <2>1
    <2> QED BY <1>5, <2>1, <2>2
  <1> QED BY <1>7, <1>8 DEF T, empty

(* The first of what is there once are there once.                         *)
LEMMA OnceFirst ==
    ASSUME NEW S, NEW r \in Seq(S), Once(r), NEW n \in Nat
    PROVE  First(r, n) \in Seq(S) /\ Once(First(r, n))
  <1> DEFINE f == First(r, n)
  <1>1. /\ f \in Seq(S) /\ Len(f) = (IF n < Len(r) THEN n ELSE Len(r))
        /\ \A i \in 1..Len(f) : f[i] = r[i]
        /\ DOMAIN f = 1..Len(f)
    BY FirstForm
  <1>2. DOMAIN r = 1..Len(r) /\ Len(r) \in Nat
    OBVIOUS
  <1> HIDE DEF f
  <1>3. \A i \in 1..Len(f) : i \in DOMAIN r
    BY <1>1, <1>2
  <1>4. Once(f)
    BY <1>1, <1>3 DEF Once
  <1> QED BY <1>1, <1>4 DEF f

(* So are two that have nothing in common.                                 *)
LEMMA OnceJoined ==
    ASSUME NEW S, NEW a \in Seq(S), Once(a), NEW b \in Seq(S), Once(b),
           ToSet(a) \cap ToSet(b) = {}
    PROVE  a \o b \in Seq(S) /\ Once(a \o b)
  <1> DEFINE z == a \o b
  <1>1. /\ z \in Seq(S)
        /\ \A i \in 1..Len(a) : z[i] = a[i]
        /\ \A i \in 1..Len(b) : z[Len(a) + i] = b[i]
        /\ DOMAIN z = 1..(Len(a) + Len(b)) /\ DOMAIN a = 1..Len(a) /\ DOMAIN b = 1..Len(b)
        /\ Len(a) \in Nat /\ Len(b) \in Nat
    OBVIOUS
  <1> DEFINE m == Len(a)
             n == Len(b)
  <1> HIDE DEF m, n, z
  <1>2. \A i \in 1..(m + n) : i \in 1..m \/ \E k \in 1..n : i = m + k
    <2>1. m \in Nat /\ n \in Nat
      BY <1>1 DEF m, n
    <2> SUFFICES ASSUME NEW i \in 1..(m + n), i \notin 1..m PROVE \E k \in 1..n : i = m + k
      OBVIOUS
    <2>2. i - m \in 1..n /\ i = m + (i - m)
      BY <2>1
    <2> QED BY <2>2
  <1>3. ASSUME NEW i \in 1..(m + n), NEW j \in 1..(m + n), z[i] = z[j] PROVE i = j
    <2>1. \A k \in 1..m : z[k] = a[k] /\ k \in DOMAIN a /\ a[k] \in ToSet(a)
      BY <1>1 DEF m, ToSet
    <2>2. \A k \in 1..n : z[m + k] = b[k] /\ k \in DOMAIN b /\ b[k] \in ToSet(b)
      BY <1>1 DEF m, n, ToSet
    <2>3. CASE i \in 1..m /\ j \in 1..m
      BY <1>3, <2>1, <2>3 DEF Once
    <2>4. CASE i \in 1..m /\ j \notin 1..m
      BY <1>2, <1>3, <2>1, <2>2, <2>4
    <2>5. CASE i \notin 1..m /\ j \in 1..m
      BY <1>2, <1>3, <2>1, <2>2, <2>5
    <2>6. CASE i \notin 1..m /\ j \notin 1..m
      <3>1. PICK k \in 1..n : i = m + k
        BY <1>2, <2>6
      <3>2. PICK l \in 1..n : j = m + l
        BY <1>2, <2>6
      <3> QED BY <1>3, <2>2, <3>1, <3>2 DEF Once
    <2> QED BY <2>3, <2>4, <2>5, <2>6
  <1>4. DOMAIN z = 1..(m + n)
    BY <1>1 DEF m, n
  <1> QED BY <1>1, <1>3, <1>4 DEF Once, z

(* One precedent of an incident, and one fact of a document.               *)
LEMMA PrecedentsOnce ==
    ASSUME NEW hits \in Seq(Ids)
    PROVE  Precedents(hits) \in Seq(Docs) /\ Once(Precedents(hits))
  <1> DEFINE best == IncidentsOf(hits)
             same == Those(best, SameService)
             other == Those(best, ToSet(best) \ SameService)
  <1>1. best \in Seq(Docs) /\ Once(best)
    BY IncidentsOfForm
  <1>2. Precedents(hits) = First(same \o other, DEFAULT_PRECEDENTS)
    BY DEF Precedents, IncidentsOf
  <1> HIDE DEF best
  <1>3. same \in Seq(Docs) /\ ToSet(same) = ToSet(best) \cap SameService /\ Once(same)
    BY <1>1, ThoseKeeps
  <1>4. /\ other \in Seq(Docs) /\ Once(other)
        /\ ToSet(other) = ToSet(best) \cap (ToSet(best) \ SameService)
    BY <1>1, ThoseKeeps
  <1> HIDE DEF same, other
  <1>5. ToSet(same) \cap ToSet(other) = {}
    BY <1>3, <1>4
  <1>6. same \o other \in Seq(Docs) /\ Once(same \o other)
    BY <1>3, <1>4, <1>5, OnceJoined
  <1>7. DEFAULT_PRECEDENTS \in Nat
    BY RetrievalAssumption
  <1> QED BY <1>2, <1>6, <1>7, OnceFirst

(* The evidence of an answer names no document twice.                      *)
LEMMA EvidenceOnce ==
    ASSUME NEW q, q.answer \in Seq(Ids),
           q.similar = <<>> \/ \E hits \in Seq(Ids) : q.similar = Precedents(hits)
    PROVE  IsInjective(Evidence(q))
  <1> DEFINE found == Found(q.answer)
             more == Those(q.similar, ToSet(q.similar) \ ToSet(found))
  <1>1. found \in Seq(Docs) /\ Once(found)
    <2>1. found = First(DocsOf(q.answer), DEFAULT_DOCUMENTS)
      BY DEF Found, DocsOf
    <2>2. DocsOf(q.answer) \in Seq(Docs) /\ Once(DocsOf(q.answer))
      BY DocsOfForm
    <2>3. DEFAULT_DOCUMENTS \in Nat
      BY RetrievalAssumption
    <2> QED BY <2>1, <2>2, <2>3, OnceFirst
  <1>2. q.similar \in Seq(Docs) /\ Once(q.similar)
    <2>1. <<>> \in Seq(Docs)
      OBVIOUS
    <2> QED BY <2>1, NoneForm, PrecedentsOnce
  <1>3. Evidence(q) = found \o more
    BY DEF Evidence
  <1> HIDE DEF found
  <1>4. /\ more \in Seq(Docs) /\ Once(more)
        /\ ToSet(more) = ToSet(q.similar) \cap (ToSet(q.similar) \ ToSet(found))
    BY <1>2, ThoseKeeps
  <1> HIDE DEF more
  <1>5. ToSet(found) \cap ToSet(more) = {}
    BY <1>4
  <1>6. Once(found \o more)
    BY <1>1, <1>4, <1>5, OnceJoined
  <1> QED BY <1>3, <1>6 DEF Once, IsInjective

----------------------------------------------------------------------------
(* What the endpoint makes of it.                                          *)

(* What a context is made of.                                              *)
Bodies == Seq(Seq(Seq(Int)))

ContextSet ==
    [used : Nat, sources : Seq(DOMAIN index), blocks : Bodies, seen : Bodies,
     dropped : Seq(DOMAIN index)]

Empty == [used |-> HeaderTokens, sources |-> <<>>, blocks |-> <<>>, seen |-> <<>>,
          dropped |-> <<>>]

Built(chunks) ==
    FoldLeft(Include, [used |-> HeaderTokens, sources |-> <<>>, blocks |-> <<>>, seen |-> <<>>,
                       dropped |-> <<>>], chunks)

(* A context with one part changed.                                        *)
Same(c, r, parts) == c \in ContextSet /\ \A part \in parts : c[part] = r[part]

(* Changing one part leaves the others.                                    *)
LEMMA PartsForm ==
    ASSUME NEW r \in ContextSet
    PROVE  /\ \A x \in Nat :
               LET c == [r EXCEPT !.used = x]
               IN  Same(c, r, {"sources", "blocks", "seen", "dropped"}) /\ c.used = x
           /\ \A x \in Bodies :
               LET c == [r EXCEPT !.seen = x]
               IN  Same(c, r, {"used", "sources", "blocks", "dropped"}) /\ c.seen = x
           /\ \A x \in Seq(DOMAIN index) :
               LET c == [r EXCEPT !.sources = x]
               IN  Same(c, r, {"used", "blocks", "seen", "dropped"}) /\ c.sources = x
           /\ \A x \in Bodies :
               LET c == [r EXCEPT !.blocks = x]
               IN  Same(c, r, {"used", "sources", "seen", "dropped"}) /\ c.blocks = x
           /\ \A x \in Seq(DOMAIN index) :
               LET c == [r EXCEPT !.dropped = x]
               IN  Same(c, r, {"used", "sources", "blocks", "seen"}) /\ c.dropped = x
  <1>1. ASSUME NEW x \in Nat
        PROVE  LET c == [r EXCEPT !.used = x]
               IN  Same(c, r, {"sources", "blocks", "seen", "dropped"}) /\ c.used = x
    BY DEF ContextSet, Same
  <1>2. ASSUME NEW x \in Bodies
        PROVE  LET c == [r EXCEPT !.seen = x]
               IN  Same(c, r, {"used", "sources", "blocks", "dropped"}) /\ c.seen = x
    BY DEF ContextSet, Same
  <1>3. ASSUME NEW x \in Seq(DOMAIN index)
        PROVE  LET c == [r EXCEPT !.sources = x]
               IN  Same(c, r, {"used", "blocks", "seen", "dropped"}) /\ c.sources = x
    BY DEF ContextSet, Same
  <1>4. ASSUME NEW x \in Bodies
        PROVE  LET c == [r EXCEPT !.blocks = x]
               IN  Same(c, r, {"used", "sources", "seen", "dropped"}) /\ c.blocks = x
    BY DEF ContextSet, Same
  <1>5. ASSUME NEW x \in Seq(DOMAIN index)
        PROVE  LET c == [r EXCEPT !.dropped = x]
               IN  Same(c, r, {"used", "sources", "blocks", "seen"}) /\ c.dropped = x
    BY DEF ContextSet, Same
  <1> QED BY <1>1, <1>2, <1>3, <1>4, <1>5

(* What is new in a chunk is paragraphs of it.                             *)
LEMMA FreshForm ==
    ASSUME NEW content \in Seq(Seq(Int)), NEW seen
    PROVE  /\ Fresh(content, seen) \in Seq(Seq(Int))
           /\ ToSet(Fresh(content, seen)) = {p \in ToSet(content) : ~ Shown(p, seen)}
           /\ Cost(Fresh(content, seen)) \in Nat
  <1> DEFINE new == {p \in ToSet(content) : ~ Shown(p, seen)}
  <1>1. Fresh(content, seen) = Those(content, new)
    BY DEF Fresh
  <1>2. /\ Those(content, new) \in Seq(Seq(Int))
        /\ ToSet(Those(content, new)) = ToSet(content) \cap new
    BY ThoseKeeps
  <1> QED BY <1>1, <1>2, CostIsNat

(* A chunk is dropped or included.                                         *)
LEMMA IncludeForm ==
    ASSUME IngestInv, NEW context \in ContextSet, NEW c \in DOMAIN index
    PROVE  LET fresh == Fresh(index[c], context.seen)
               after == Include(context, c)
           IN  /\ after \in ContextSet /\ fresh \in Seq(Seq(Int)) /\ index[c] \in Seq(Seq(Int))
               /\ ToSet(fresh) = {p \in ToSet(index[c]) : ~ Shown(p, context.seen)}
               /\ \/ /\ after.used = context.used /\ after.sources = context.sources
                     /\ after.blocks = context.blocks /\ after.seen = context.seen
                     /\ after.dropped = Append(context.dropped, c)
                     /\ fresh = <<>> \/ context.used + Cost(fresh) > TokenBudget
                  \/ /\ after.used = context.used + Cost(fresh)
                     /\ after.sources = Append(context.sources, c)
                     /\ after.blocks = Append(context.blocks, fresh)
                     /\ after.seen = Append(context.seen, fresh)
                     /\ after.dropped = context.dropped
  <1> DEFINE content == index[c]
             new == {p \in ToSet(content) : ~ Shown(p, context.seen)}
             fresh == Fresh(content, context.seen)
             used == context.used + Cost(fresh)
             dropped == [context EXCEPT !.dropped = Append(@, c)]
             included == [context EXCEPT !.used = @ + Cost(fresh), !.seen = Append(@, fresh),
                                         !.sources = Append(@, c), !.blocks = Append(@, fresh)]
  <1>1. content \in Seq(Seq(Int))
    BY IndexForm
  <1>2. fresh \in Seq(Seq(Int)) /\ ToSet(fresh) = new
    BY <1>1, FreshForm
  <1>3. Include(context, c) = IF fresh = <<>> \/ used > TokenBudget THEN dropped ELSE included
    BY DEF Include
  <1>4. /\ context.used \in Nat /\ context.sources \in Seq(DOMAIN index)
        /\ context.blocks \in Bodies /\ context.seen \in Bodies
        /\ context.dropped \in Seq(DOMAIN index)
        /\ context = [used |-> context.used, sources |-> context.sources,
                      blocks |-> context.blocks, seen |-> context.seen,
                      dropped |-> context.dropped]
    BY DEF ContextSet
  <1> HIDE DEF fresh, content
  <1>5. used \in Nat
    BY <1>2, <1>4, CostIsNat
  <1>6. /\ Append(context.sources, c) \in Seq(DOMAIN index)
        /\ Append(context.dropped, c) \in Seq(DOMAIN index)
    BY <1>4
  <1>7. Append(context.blocks, fresh) \in Bodies /\ Append(context.seen, fresh) \in Bodies
    BY <1>2, <1>4 DEF Bodies
  <1>8. /\ dropped \in ContextSet /\ dropped.used = context.used
        /\ dropped.sources = context.sources /\ dropped.blocks = context.blocks
        /\ dropped.seen = context.seen /\ dropped.dropped = Append(context.dropped, c)
    BY <1>6, PartsForm DEF Same
  <1>9. /\ included \in ContextSet /\ included.used = used
        /\ included.sources = Append(context.sources, c)
        /\ included.blocks = Append(context.blocks, fresh)
        /\ included.seen = Append(context.seen, fresh)
        /\ included.dropped = context.dropped
    <2> DEFINE c1 == [context EXCEPT !.used = used]
               c2 == [c1 EXCEPT !.seen = Append(context.seen, fresh)]
               c3 == [c2 EXCEPT !.sources = Append(context.sources, c)]
               c4 == [c3 EXCEPT !.blocks = Append(context.blocks, fresh)]
    <2>1. included = c4
      OBVIOUS
    <2>2. Same(c1, context, {"sources", "blocks", "seen", "dropped"}) /\ c1.used = used
      BY <1>5, PartsForm
    <2> HIDE DEF c1
    <2>3. /\ Same(c2, c1, {"used", "sources", "blocks", "dropped"})
          /\ c2.seen = Append(context.seen, fresh)
      BY <1>7, <2>2, PartsForm DEF Same
    <2> HIDE DEF c2
    <2>4. /\ Same(c3, c2, {"used", "blocks", "seen", "dropped"})
          /\ c3.sources = Append(context.sources, c)
      BY <1>6, <2>3, PartsForm DEF Same
    <2> HIDE DEF c3
    <2>5. /\ Same(c4, c3, {"used", "sources", "seen", "dropped"})
          /\ c4.blocks = Append(context.blocks, fresh)
      BY <1>7, <2>4, PartsForm DEF Same
    <2> HIDE DEF c4
    <2>6. c4 \in ContextSet /\ c4.used = used
      BY <2>2, <2>3, <2>4, <2>5 DEF Same
    <2>7. c4.sources = Append(context.sources, c)
      BY <2>4, <2>5 DEF Same
    <2>8. c4.seen = Append(context.seen, fresh)
      BY <2>3, <2>4, <2>5 DEF Same
    <2>9. c4.dropped = context.dropped
      BY <2>2, <2>3, <2>4, <2>5 DEF Same
    <2> QED BY <2>1, <2>5, <2>6, <2>7, <2>8, <2>9
  <1> HIDE DEF dropped, included, new
  <1>13. \/ Include(context, c) = dropped /\ (fresh = <<>> \/ used > TokenBudget)
         \/ Include(context, c) = included
    BY <1>3
  <1> QED BY <1>1, <1>2, <1>8, <1>9, <1>13 DEF fresh, content, new

(* A context is built chunk by chunk.                                      *)
LEMMA BuiltForm ==
    ASSUME IngestInv
    PROVE  /\ Built(<<>>) = Empty
           /\ \A r \in Seq(DOMAIN index) : Built(r) \in ContextSet
           /\ \A r \in Seq(DOMAIN index), e \in DOMAIN index :
                  Built(Append(r, e)) = Include(Built(r), e)
  <1> DEFINE T == ContextSet
             empty == Empty
             step == [a \in T |-> [c \in DOMAIN index |-> Include(a, c)]]
             E == [r \in Seq(DOMAIN index) |-> Built(r)]
  <1>1. \A a \in T, e \in DOMAIN index : Include(a, e) \in T
    BY IncludeForm
  <1>2. empty \in T
    BY RetrievalAssumption DEF Empty, ContextSet, Bodies
  <1>3. step \in [T -> [DOMAIN index -> T]]
    <2> HIDE DEF T
    <2> QED BY <1>1
  <1>4. ASSUME NEW r \in Seq(DOMAIN index)
        PROVE  \E x : Runs(x, Len(r), T, empty, StepsOf(step, r, T)) /\ x[Len(r)] = E[r]
    <2> DEFINE n == Len(r)
               G == StepsOf(step, r, T)
               Folds(h) == h = [s \in SUBSET (1..n) |->
                                    IF s = {} THEN empty
                                    ELSE Include(h[s \ {Max(s)}], r[Max(s)])]
               fold == CHOOSE h : Folds(h)
    <2>1. n \in Nat /\ DOMAIN r = 1..n /\ \A i \in 1..n : r[i] \in DOMAIN index
      OBVIOUS
    <2>2. E[r] = fold[1..n]
      BY <2>1 DEF Built, Empty, FoldLeft, MapThenFoldSet
    <2>3. \A s \in SUBSET (1..n) : s # {} => Max(s) \in 1..n
      BY <2>1, LastIsThere
    <2>4. \A i \in 1..n : \A a \in T : G[i][a] = Include(a, r[i])
      BY <2>1 DEF StepsOf
    <2> HIDE DEF T, empty, step, E
    <2>5. G \in StepsOn(n, T)
      BY <1>3, StepsOfForm
    <2> HIDE DEF n, G
    <2>6. PICK g \in [SUBSET (1..n) -> T] : FoldsBy(g, n, T, empty, G)
      BY <1>2, <2>1, <2>5, FoldExists
    <2>7. Folds(fold)
      <3>1. Folds(g)
        BY <2>3, <2>4, <2>6 DEF FoldsBy
      <3> QED BY <3>1
    <2> HIDE DEF fold
    <2>8. FoldsBy(fold, n, T, empty, G)
      BY <2>3, <2>4, <2>7 DEF FoldsBy
    <2>9. PICK x : Runs(x, n, T, empty, G) /\ x[n] = fold[1..n]
      BY <1>2, <2>1, <2>5, <2>8, FoldRuns
    <2> QED BY <2>2, <2>9 DEF n, G
  <1>5. /\ \A r \in Seq(DOMAIN index) : E[r] = Built(r)
        /\ \A a \in T, e \in DOMAIN index : step[a][e] = Include(a, e)
        /\ <<>> \in Seq(DOMAIN index)
        /\ \A r \in Seq(DOMAIN index), e \in DOMAIN index : Append(r, e) \in Seq(DOMAIN index)
    OBVIOUS
  <1> HIDE DEF T, empty, step, E
  <1>6. Grows(E, DOMAIN index, T, empty, step)
    <2>1. Computes(E, DOMAIN index, T, empty, step)
      BY <1>3, <1>4 DEF Computes
    <2> QED BY <2>1, AppendLaw
  <1>7. Built(<<>>) = empty /\ \A r \in Seq(DOMAIN index) : Built(r) \in T
    BY <1>5, <1>6 DEF Grows
  <1>8. ASSUME NEW r \in Seq(DOMAIN index), NEW e \in DOMAIN index
        PROVE  Built(Append(r, e)) = Include(Built(r), e)
    <2>1. E[Append(r, e)] = step[E[r]][e] /\ E[r] \in T
      BY <1>6 DEF Grows
    <2>2. step[E[r]][e] = Include(E[r], e)
      BY <1>5, <2>1
    <2> QED BY <1>5, <2>1, <2>2
  <1> QED BY <1>7, <1>8 DEF T, empty

(* What says a paragraph says the paragraph.                               *)
Carries(block, p) == \E said \in ToSet(block) : IsWithin(p, said)

(* A chunk was dropped with reason, after n blocks.                        *)
Excused(context, c, n) ==
    LET fresh == Fresh(index[c], First(context.blocks, n))
    IN  fresh = <<>> \/ context.used + Cost(fresh) > TokenBudget

(* What a context says of the chunks it was built from: each is a source   *)
(* or was dropped with reason, what a source says is in a block no later   *)
(* than its own, and no block says what an earlier one said.               *)
Reads(context, chunks) ==
    /\ context.seen = context.blocks
    /\ Len(context.blocks) = Len(context.sources)
    /\ ToSet(context.sources) \cup ToSet(context.dropped) = ToSet(chunks)
    /\ ToSet(context.sources) \cap ToSet(context.dropped) = {}
    /\ \A i \in 1..Len(context.blocks) : \A p \in ToSet(index[context.sources[i]]) :
          \E j \in 1..i : Carries(context.blocks[j], p)
    /\ \A i \in 1..Len(context.blocks) : \A p \in ToSet(context.blocks[i]) :
          \A j \in 1..(i - 1) : ~ Carries(context.blocks[j], p)
    /\ \A c \in ToSet(context.dropped) : \E n \in 0..Len(context.blocks) :
          Excused(context, c, n)

(* A paragraph is within itself.                                           *)
LEMMA WithinItself == ASSUME NEW p \in Seq(Int) PROVE IsWithin(p, p)
  <1>1. Len(p) - Len(p) = 0 /\ 0 \in 0..0 /\ Len(p) \in Nat
    OBVIOUS
  <1>2. SubSeq(p, 0 + 1, 0 + Len(p)) = p
    OBVIOUS
  <1> QED BY <1>1, <1>2 DEF IsWithin

(* The first blocks stay what they are when one is added.                  *)
LEMMA FirstOfMore ==
    ASSUME NEW S, NEW b \in Seq(S), NEW e \in S, NEW n \in 0..Len(b)
    PROVE  First(Append(b, e), n) = First(b, n) /\ First(b, Len(b)) = b
  <1>1. /\ Len(b) \in Nat /\ n \in Nat /\ Append(b, e) \in Seq(S)
        /\ Len(Append(b, e)) = Len(b) + 1
    OBVIOUS
  <1>2. First(Append(b, e), n) = SubSeq(Append(b, e), 1, n)
    BY <1>1 DEF First
  <1>3. First(b, n) = SubSeq(b, 1, n)
    BY <1>1 DEF First
  <1>4. SubSeq(Append(b, e), 1, n) = SubSeq(b, 1, n)
    BY <1>1
  <1>5. First(b, Len(b)) = b
    BY <1>1 DEF First
  <1> QED BY <1>2, <1>3, <1>4, <1>5

(* One more chunk that was not there.                                      *)
LEMMA IncludeReads ==
    ASSUME IngestInv, NEW r \in Seq(DOMAIN index), NEW c \in DOMAIN index, c \notin ToSet(r),
           NEW context \in ContextSet, Reads(context, r)
    PROVE  Reads(Include(context, c), Append(r, c))
  <1> DEFINE after == Include(context, c)
             fresh == Fresh(index[c], context.seen)
             m == Len(context.blocks)
  <1>1. /\ after \in ContextSet /\ fresh \in Seq(Seq(Int)) /\ index[c] \in Seq(Seq(Int))
        /\ ToSet(fresh) = {p \in ToSet(index[c]) : ~ Shown(p, context.seen)}
    BY IncludeForm
  <1>2. \/ /\ after.used = context.used /\ after.sources = context.sources
           /\ after.blocks = context.blocks /\ after.seen = context.seen
           /\ after.dropped = Append(context.dropped, c)
           /\ fresh = <<>> \/ context.used + Cost(fresh) > TokenBudget
        \/ /\ after.used = context.used + Cost(fresh)
           /\ after.sources = Append(context.sources, c)
           /\ after.blocks = Append(context.blocks, fresh)
           /\ after.seen = Append(context.seen, fresh)
           /\ after.dropped = context.dropped
    BY IncludeForm
  <1>3. /\ context.sources \in Seq(DOMAIN index) /\ context.dropped \in Seq(DOMAIN index)
        /\ context.blocks \in Seq(Seq(Seq(Int))) /\ m \in Nat
        /\ DOMAIN context.blocks = 1..m
    <2>1. context.blocks \in Seq(Seq(Seq(Int)))
      BY DEF ContextSet, Bodies
    <2> QED BY <2>1 DEF ContextSet
  <1>4. ToSet(Append(r, c)) = ToSet(r) \cup {c}
    BY AppendForm
  <1> HIDE DEF after, fresh
  <1>5. CASE /\ after.used = context.used /\ after.sources = context.sources
             /\ after.blocks = context.blocks /\ after.seen = context.seen
             /\ after.dropped = Append(context.dropped, c)
             /\ fresh = <<>> \/ context.used + Cost(fresh) > TokenBudget
    <2>1. ToSet(Append(context.dropped, c)) = ToSet(context.dropped) \cup {c}
      BY <1>3, AppendForm
    <2>2. First(context.blocks, m) = context.blocks
      <3> DEFINE T == Seq(Seq(Int))
                 b == context.blocks
      <3>1. b \in Seq(T) /\ <<>> \in T /\ Len(b) \in 0..Len(b)
        BY <1>3
      <3> HIDE DEF T, b
      <3>2. First(b, Len(b)) = b
        BY <3>1, FirstOfMore
      <3> QED BY <3>2 DEF b
    <2>3. \A d \in DOMAIN index, n \in 0..m : Excused(after, d, n) <=> Excused(context, d, n)
      BY <1>5 DEF Excused
    <2>4. Excused(after, c, m) /\ m \in 0..m
      <3>1. Excused(context, c, m)
        BY <1>5, <2>2 DEF Excused, fresh, Reads
      <3>2. m \in 0..m
        BY <1>3
      <3> QED BY <2>3, <3>1, <3>2
    <2>5. ASSUME NEW d \in ToSet(after.dropped)
          PROVE  \E n \in 0..Len(after.blocks) : Excused(after, d, n)
      <3>1. CASE d = c
        BY <1>5, <2>4, <3>1
      <3>2. CASE d # c
        <4>1. d \in ToSet(context.dropped) /\ d \in DOMAIN index
          BY <1>3, <1>5, <2>1, <2>5, <3>2 DEF ToSet
        <4>2. PICK n \in 0..m : Excused(context, d, n)
          BY <4>1 DEF Reads
        <4> QED BY <1>5, <2>3, <4>1, <4>2
      <3> QED BY <3>1, <3>2
    <2>6. Reads(after, Append(r, c))
      BY <1>4, <1>5, <2>1, <2>5 DEF Reads
    <2> QED BY <2>6 DEF after
  <1>6. CASE /\ after.used = context.used + Cost(fresh)
             /\ after.sources = Append(context.sources, c)
             /\ after.blocks = Append(context.blocks, fresh)
             /\ after.seen = Append(context.seen, fresh)
             /\ after.dropped = context.dropped
    <2>1. /\ ToSet(after.sources) = ToSet(context.sources) \cup {c}
          /\ Len(after.sources) = Len(context.sources) + 1
          /\ after.sources[Len(context.sources) + 1] = c
          /\ \A i \in DOMAIN context.sources : after.sources[i] = context.sources[i]
      BY <1>3, <1>6, AppendForm
    <2>2. /\ Len(after.blocks) = m + 1 /\ after.blocks[m + 1] = fresh
          /\ \A i \in 1..m : after.blocks[i] = context.blocks[i]
      <3> DEFINE T == Seq(Seq(Int))
                 b == context.blocks
      <3>1. b \in Seq(T) /\ fresh \in T
        BY <1>1, <1>3
      <3> HIDE DEF T, b
      <3>2. /\ Len(Append(b, fresh)) = Len(b) + 1 /\ Append(b, fresh)[Len(b) + 1] = fresh
            /\ \A i \in DOMAIN b : Append(b, fresh)[i] = b[i]
        BY <3>1, AppendForm
      <3> QED BY <1>3, <1>6, <3>2 DEF b
    <2>3. Len(context.sources) = m /\ DOMAIN context.sources = 1..m
      BY <1>3 DEF Reads
    <2>4. ASSUME NEW i \in 1..(m + 1), NEW p \in ToSet(index[after.sources[i]])
          PROVE  \E j \in 1..i : Carries(after.blocks[j], p)
      <3>1. CASE i \in 1..m
        <4>1. PICK j \in 1..i : Carries(context.blocks[j], p)
          BY <2>1, <2>3, <2>4, <3>1 DEF Reads
        <4>2. j \in 1..m
          <5> HIDE DEF m
          <5> QED BY <1>3, <3>1
        <4> QED BY <2>2, <4>1, <4>2
      <3>2. CASE i = m + 1
        <4>1. p \in ToSet(index[c])
          BY <2>1, <2>3, <2>4, <3>2
        <4>2. CASE Shown(p, context.seen)
          <5>1. PICK j \in 1..m : Carries(context.blocks[j], p)
            BY <1>3, <4>2 DEF Shown, Carries, Reads
          <5>2. j \in 1..i
            <6> HIDE DEF m
            <6> QED BY <1>3, <3>2
          <5> QED BY <2>2, <5>1, <5>2
        <4>3. CASE ~ Shown(p, context.seen)
          <5>1. p \in ToSet(fresh)
            BY <1>1, <4>1, <4>3
          <5>2. Carries(fresh, p)
            <6>1. p \in Seq(Int)
              BY <1>1, <5>1 DEF ToSet
            <6> QED BY <5>1, <6>1, WithinItself DEF Carries
          <5>3. i \in 1..i
            <6> HIDE DEF m
            <6> QED BY <1>3, <3>2
          <5> QED BY <2>2, <3>2, <5>2, <5>3
        <4> QED BY <4>2, <4>3
      <3>3. i \in 1..m \/ i = m + 1
        <4> HIDE DEF m
        <4> QED BY <1>3
      <3> QED BY <3>1, <3>2, <3>3
    <2>5. /\ after.seen = after.blocks /\ Len(after.blocks) = Len(after.sources)
          /\ ToSet(after.sources) \cup ToSet(after.dropped) = ToSet(Append(r, c))
          /\ ToSet(after.sources) \cap ToSet(after.dropped) = {}
      BY <1>4, <1>6, <2>1, <2>2, <2>3 DEF Reads
    <2>6. ASSUME NEW i \in 1..(m + 1), NEW p \in ToSet(after.blocks[i]), NEW j \in 1..(i - 1)
          PROVE  ~ Carries(after.blocks[j], p)
      <3>1. j \in 1..m /\ (i \in 1..m \/ i = m + 1)
        <4> HIDE DEF m
        <4> QED BY <1>3
      <3>2. CASE i \in 1..m
        BY <2>2, <2>6, <3>1, <3>2 DEF Reads
      <3>3. CASE i = m + 1
        <4>1. ~ Shown(p, context.seen)
          BY <1>1, <2>2, <2>6, <3>3
        <4>2. context.seen = context.blocks /\ j \in DOMAIN context.blocks
          BY <1>3, <3>1 DEF Reads
        <4> QED BY <2>2, <3>1, <4>1, <4>2 DEF Shown, Carries
      <3> QED BY <3>1, <3>2, <3>3
    <2>7. ASSUME NEW d \in ToSet(after.dropped)
          PROVE  \E n \in 0..Len(after.blocks) : Excused(after, d, n)
      <3>1. d \in ToSet(context.dropped) /\ d \in DOMAIN index
        BY <1>3, <1>6, <2>7 DEF ToSet
      <3>2. PICK n \in 0..m : Excused(context, d, n)
        BY <3>1 DEF Reads
      <3>3. n \in 0..Len(after.blocks)
        <4> HIDE DEF m
        <4> QED BY <1>3, <2>2
      <3>4. First(after.blocks, n) = First(context.blocks, n)
        <4> DEFINE T == Seq(Seq(Int))
                   b == context.blocks
        <4>1. b \in Seq(T) /\ fresh \in T /\ n \in 0..Len(b)
          BY <1>1, <1>3
        <4> HIDE DEF T, b
        <4>2. First(Append(b, fresh), n) = First(b, n)
          BY <4>1, FirstOfMore
        <4> QED BY <1>6, <4>2 DEF b
      <3> DEFINE old == Fresh(index[d], First(context.blocks, n))
      <3>5. Cost(old) \in Nat
        <4>1. index[d] \in Seq(Seq(Int))
          BY <3>1, IncludeForm
        <4> QED BY <4>1, FreshForm
      <3>6. Cost(fresh) \in Nat /\ context.used \in Nat /\ TokenBudget \in Nat
        BY <1>1, CostIsNat, RetrievalAssumption DEF ContextSet
      <3>7. old = <<>> \/ context.used + Cost(old) > TokenBudget
        BY <3>2 DEF Excused
      <3> HIDE DEF old
      <3>8. old = <<>> \/ after.used + Cost(old) > TokenBudget
        BY <1>6, <3>5, <3>6, <3>7
      <3>9. Excused(after, d, n)
        BY <3>4, <3>8 DEF Excused, old
      <3> QED BY <3>3, <3>9
    <2>8. Reads(after, Append(r, c))
      BY <2>2, <2>4, <2>5, <2>6, <2>7 DEF Reads
    <2> QED BY <2>8 DEF after
  <1> QED BY <1>2, <1>5, <1>6

(* So is every context of chunks of which none is there twice.             *)
LEMMA BuiltReads ==
    ASSUME IngestInv, NEW r \in Seq(DOMAIN index), Once(r)
    PROVE  Built(r) \in ContextSet /\ Reads(Built(r), r)
  <1> DEFINE N == {q \in Seq(DOMAIN index) : Once(q) => Reads(Built(q), q)}
  <1>1. <<>> \in N
    <2>1. <<>> \in Seq(DOMAIN index)
      OBVIOUS
    <2>2. Built(<<>>) = Empty
      BY BuiltForm
    <2>3. Reads(Empty, <<>>)
      <3>1. /\ Empty.used = HeaderTokens /\ Empty.sources = <<>> /\ Empty.blocks = <<>>
            /\ Empty.seen = <<>> /\ Empty.dropped = <<>>
        BY DEF Empty
      <3>2. Len(<<>>) = 0 /\ \A i \in 1..0 : FALSE
        OBVIOUS
      <3> QED BY <3>1, <3>2, NoneForm DEF Reads
    <2> QED BY <2>1, <2>2, <2>3
  <1>2. ASSUME NEW q \in Seq(DOMAIN index), NEW c \in DOMAIN index, q \in N
        PROVE  Append(q, c) \in N
    <2>1. Append(q, c) \in Seq(DOMAIN index)
      OBVIOUS
    <2>2. SUFFICES ASSUME Once(Append(q, c)) PROVE Reads(Built(Append(q, c)), Append(q, c))
      BY <2>1
    <2>3. Once(q) /\ c \notin ToSet(q)
      BY <2>2, OnceMore
    <2>4. Built(Append(q, c)) = Include(Built(q), c) /\ Built(q) \in ContextSet
      BY BuiltForm
    <2>5. Reads(Built(q), q)
      BY <1>2, <2>3
    <2> QED BY <2>3, <2>4, <2>5, IncludeReads
  <1>3. r \in N
    <2> HIDE DEF N
    <2> QED BY <1>1, <1>2, ForEverySequence
  <1> QED BY <1>3, BuiltForm

(* What the endpoint makes of an answer can be read whole, and once.       *)
LEMMA ContextReads ==
    ASSUME IngestInv, NEW r \in Seq(DOMAIN index), Once(r)
    PROVE  KeptInContext(r)
  <1> DEFINE context == Context(r)
             blocks == context.blocks
  <1>1. context \in ContextSet /\ Reads(context, r)
    <2>1. Context(r) = Built(r)
      BY DEF Context, Built
    <2> QED BY <2>1, BuiltReads
  <1> HIDE DEF context
  <1>2. ToSet(context.sources) = ToSet(r) \ ToSet(context.dropped)
    BY <1>1 DEF Reads
  <1>3. blocks \in Seq(Seq(Seq(Int)))
    BY <1>1 DEF ContextSet, Bodies
  <1>4. ASSUME NEW i \in DOMAIN blocks, NEW k \in 0..i, NEW p
        PROVE  Shown(p, First(blocks, k)) <=> \E j \in 1..k : Carries(blocks[j], p)
    <2> DEFINE m == Len(blocks)
               first == First(blocks, k)
    <2>1. m \in Nat /\ i \in 1..m /\ k \in Nat /\ k <= m
      BY <1>3
    <2>2. /\ Len(first) = (IF k < m THEN k ELSE m)
          /\ \A j \in 1..Len(first) : first[j] = blocks[j]
          /\ DOMAIN first = 1..Len(first)
      BY <1>3, <2>1, FirstForm
    <2> HIDE DEF m, first
    <2>3. Len(first) = k
      BY <2>1, <2>2
    <2> QED BY <2>2, <2>3 DEF Shown, Carries, first
  <1>5. ASSUME NEW i \in DOMAIN blocks
        PROVE  /\ \A p \in ToSet(index[context.sources[i]]) : Shown(p, First(blocks, i))
               /\ \A p \in ToSet(blocks[i]) : ~ Shown(p, First(blocks, i - 1))
    <2>1. i \in 1..Len(blocks) /\ i \in 0..i /\ i - 1 \in 0..i
      BY <1>3
    <2>2. /\ \A p \in ToSet(index[context.sources[i]]) : \E j \in 1..i : Carries(blocks[j], p)
          /\ \A p \in ToSet(blocks[i]) : ~ \E j \in 1..(i - 1) : Carries(blocks[j], p)
      BY <1>1, <2>1 DEF Reads
    <2> QED BY <1>4, <2>1, <2>2
  <1>6. \A c \in ToSet(context.dropped) : \E n \in 0..Len(blocks) :
           LET fresh == Fresh(index[c], First(blocks, n))
           IN  fresh = <<>> \/ context.used + Cost(fresh) > TokenBudget
    BY <1>1 DEF Reads, Excused
  <1> QED BY <1>2, <1>5, <1>6 DEF KeptInContext, context

(* A pool is a ranking of chunks.                                          *)
LEMMA PoolIsRanking ==
    ASSUME NEW ids, ids \subseteq Docs \X Nat, NEW q, QueryOK(ids, q),
           q.stage \in {"answered", "noted"}
    PROVE  q.pool \in Seq(ids) /\ Once(q.pool)
  <1> DEFINE S == Reach(ids, q)
             a == q.lexical.chunks
             b == q.dense.chunks
             n == Depth(q)
  <1>1. S \subseteq ids /\ S \subseteq Nat \X Nat
    BY RetrievalAssumption DEF Reach
  <1>2. /\ n \in Nat /\ a \in Rankings(S, n) /\ b \in Rankings(S, n)
        /\ {Candidates, FetchFor(K)} \subseteq Nat
    BY DepthIsNat, RetrievalAssumption DEF QueryOK, HalvesOK, FetchFor
  <1>3. Joined(q)
    BY DEF QueryOK, PoolOK
  <1> HIDE DEF S, n, a, b
  <1>4. \E k \in Nat : q.pool \in Rankings(S, k)
    <2>1. q.pool = a \/ q.pool = b \/ \E k \in {Candidates, FetchFor(K)} : q.pool = Fuse(a, b, k)
      BY <1>3 DEF Joined, a, b
    <2>2. \A k \in Nat : Fuse(a, b, k) \in Rankings(S, k)
      BY <1>1, <1>2, FuseIsRanking
    <2> QED BY <1>2, <2>1, <2>2
  <1>5. q.pool \in Seq(S) /\ Once(q.pool)
    BY <1>4, RankingForm DEF Once
  <1>6. Seq(S) \subseteq Seq(ids)
    BY <1>1, WiderSequences
  <1> QED BY <1>5, <1>6

(* An answer is a ranking of chunks.                                       *)
LEMMA AnswerIsRanking ==
    ASSUME NEW ids, ids \subseteq Docs \X Nat, NEW q, QueryOK(ids, q),
           NEW r, Offered(ids, q, r), q.answer = Capped(r, K)
    PROVE  q.answer \in Seq(ids) /\ Once(q.answer)
  <1> DEFINE S == Reach(ids, q)
             short == q.answer
  <1>1. PICK n \in Nat : r \in Rankings(S, n)
    BY DEF Offered
  <1>2. K \in Nat /\ S \subseteq ids
    BY RetrievalAssumption DEF Reach
  <1> HIDE DEF S
  <1>3. /\ r \in Seq(S) /\ \A i, j \in DOMAIN r : r[i] = r[j] => i = j
        /\ DOMAIN r = 1..Len(r) /\ Len(r) \in Nat
    BY <1>1, RankingForm
  <1>4. CASE MaxPerDocument = 0
    <2>1. short = First(r, K)
      BY <1>4 DEF Capped
    <2>2. Once(r)
      BY <1>3 DEF Once
    <2>3. K \in Nat /\ r \in Seq(S)
      BY <1>2, <1>3
    <2>4. First(r, K) \in Seq(S) /\ Once(First(r, K))
      BY <2>2, <2>3, OnceFirst
    <2>5. Seq(S) \subseteq Seq(ids)
      BY <1>2, WiderSequences
    <2> QED BY <2>1, <2>4, <2>5
  <1>5. CASE MaxPerDocument # 0
    <2>1. Capped(r, K) \in Seq(S) /\ CapHolds(Capped(r, K), r, Len(r), K)
      BY <1>2, <1>3, <1>5, CapIsSound
    <2> HIDE DEF short
    <2>2. Once(short)
      BY <2>1 DEF CapHolds, Once, short
    <2>3. short \in Seq(ids)
      BY <1>2, <2>1, WiderSequences DEF short
    <2> QED BY <2>2, <2>3 DEF short
  <1> QED BY <1>4, <1>5

(* Both readers of an answer repeat nothing and lose nothing: whatever the *)
(* index, the limits and the budget.                                       *)
THEOREM ReadersKeepTheAnswer == RetrievalSpec => []ReadWholeAndOnce
  <1>1. SearchInv /\ AnswerInv /\ IngestInv => ReadWholeAndOnce
    <2> SUFFICES ASSUME SearchInv, AnswerInv, IngestInv, NEW s \in Scorers, Over(s)
                 PROVE  /\ IsInjective(Evidence(search[s]))
                        /\ KeptInContext(search[s].answer) /\ KeptInContext(search[s].pool)
      BY DEF ReadWholeAndOnce
    <2> DEFINE q == search[s]
               ids == DOMAIN index
    <2>1. ids \subseteq Docs \X Nat
      <3>1. IndexOfDocs
        <4>1. DOMAIN index = UNION {{d} \X (1..Len(Contents[d][corpus[d]])) : d \in Docs}
          BY DEF IngestInv, Indexed
        <4>2. \A x : 1..Len(x) \subseteq Nat
          OBVIOUS
        <4> QED BY <4>1, <4>2 DEF IndexOfDocs
      <3> QED BY <3>1 DEF IndexOfDocs
    <2>2. PICK r : Offered(ids, q, r) /\ q.answer = Capped(r, K)
      BY DEF AnswerInv, AnswerOK, Over
    <2>3. QueryOK(ids, q)
      BY DEF SearchInv
    <2>4. q.answer \in Seq(ids) /\ Once(q.answer)
      <3> HIDE DEF ids, q
      <3> QED BY <2>1, <2>2, <2>3, AnswerIsRanking
    <2>5. q.similar = <<>> \/ \E hits \in Seq(ids) : q.similar = Precedents(hits)
      BY DEF AnswerInv, AnswerOK
    <2>6. IsInjective(Evidence(q))
      <3>1. Seq(ids) \subseteq Seq(Ids)
        <4>1. ids \subseteq Ids
          BY <2>1 DEF Ids
        <4> HIDE DEF ids
        <4> QED BY <4>1, WiderSequences
      <3> HIDE DEF q, ids
      <3> QED BY <2>4, <2>5, <3>1, EvidenceOnce
    <2>7. q.pool \in Seq(ids) /\ Once(q.pool)
      <3>1. q.stage \in {"answered", "noted"}
        BY DEF Over
      <3> HIDE DEF ids, q
      <3> QED BY <2>1, <2>3, <3>1, PoolIsRanking
    <2>8. KeptInContext(q.answer) /\ KeptInContext(q.pool)
      <3> HIDE DEF q
      <3> QED BY <2>4, <2>7, ContextReads
    <2> QED BY <2>6, <2>8
  <1> QED BY <1>1, AnswersComeFromThePool, IndexIsTheCorpus, PTL
=============================================================================
