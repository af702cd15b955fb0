--------------------------- MODULE ModelCallsProofs --------------------------
(***************************************************************************)
(* Proofs about ModelCalls, for any finite number of calls, any number of  *)
(* attempts and whatever the runtime answers.                              *)
(*                                                                         *)
(* What is booked lies between two sums; at every step it is exactly that  *)
(* of the calls that were answered and whose caller has gone on            *)
(* (Accounted), and a row tells what its call cost only because a call's   *)
(* cost is settled before it is reported: InFlight and PaidForAttempts     *)
(* make the two inductive (CallInv).  Costs are summed by folds over       *)
(* CHOOSE; SumWithout, that the order of a sum makes no difference, is     *)
(* induction on finite sets by a least counterexample.                     *)
(***************************************************************************)
EXTENDS ModelCalls, FiniteSetTheorems, WellFoundedInduction, TLAPS

-----------------------------------------------------------------------------
(* Sums. *)

Pick(s) == CHOOSE x \in s : TRUE

(* g sums w over every subset of S.                                        *)
Sums(g, w, S) ==
    g = [s \in SUBSET S |-> IF s = {} THEN 0 ELSE w[Pick(s)] + g[s \ {Pick(s)}]]

SumOver(w, S) == (CHOOSE g : Sums(g, w, S))[S]

(* The fold over a set of calls is its sum.                                *)
LEMMA FoldIsSum == ASSUME NEW f, NEW S PROVE FoldFunctionOnSet(+, 0, f, S) = SumOver(f, S)
  BY DEF FoldFunctionOnSet, MapThenFoldSet, SumOver, Sums, Pick

(* The fold over a sequence of attempts is the sum over its places.        *)
LEMMA TotalIsSum == ASSUME NEW f PROVE Total(f) = SumOver([i \in DOMAIN f |-> f[i].cost], DOMAIN f)
  BY DEF Total, FoldSeq, FoldFunction, FoldFunctionOnSet, MapThenFoldSet, SumOver, Sums, Pick

(* Among subsets of a finite set, one is least (induction on sets).        *)
LEMMA SmallestSet ==
    ASSUME NEW S, IsFiniteSet(S), NEW T, T \subseteq SUBSET S, T # {}
    PROVE  \E s \in T : \A r \in T : r \subseteq s => r = s
  <1>1. T \subseteq FiniteSubsetsOf(S)
    BY FS_Subset DEF FiniteSubsetsOf
  <1>2. PICK s \in T : \A r \in T : <<r, s>> \notin StrictSubsetOrdering(S)
    BY <1>1, WFMin, FS_StrictSubsetOrderingWellFounded
  <1>3. ASSUME NEW r \in T, r \subseteq s PROVE r = s
    BY <1>2, <1>3 DEF StrictSubsetOrdering
  <1> QED BY <1>3

(* Functions that sum the same weights agree, on every subset.             *)
LEMMA SumsAgree ==
    ASSUME NEW S, IsFiniteSet(S), NEW R \in SUBSET S, NEW w, NEW v, \A x \in R : w[x] = v[x],
           NEW g, NEW h, Sums(g, w, S), Sums(h, v, R), NEW r \in SUBSET R
    PROVE  g[r] = h[r]
  <1> DEFINE T == {s \in SUBSET R : g[s] # h[s]}
  <1> SUFFICES ASSUME T # {} PROVE FALSE
    OBVIOUS
  <1>0. T \subseteq SUBSET S
    OBVIOUS
  <1>1. PICK s \in T : \A q \in T : q \subseteq s => q = s
    <2> HIDE DEF T
    <2> QED BY <1>0, SmallestSet
  <1>2. s # {}
    BY DEF Sums
  <1> DEFINE q == s \ {Pick(s)}
  <1>3. Pick(s) \in s /\ q \in SUBSET R /\ q \in SUBSET S /\ q # s /\ q \subseteq s
    BY <1>2 DEF Pick
  <1>4. g[q] = h[q]
    BY <1>1, <1>3
  <1>5. s \in SUBSET S /\ s \in SUBSET R
    OBVIOUS
  <1>6. g[s] = w[Pick(s)] + g[q] /\ h[s] = v[Pick(s)] + h[q]
    BY <1>2, <1>5 DEF Sums
  <1> QED BY <1>3, <1>4, <1>6

(* There is one for every finite set, so the sum is defined.               *)
LEMMA SumsExist ==
    ASSUME NEW S, IsFiniteSet(S), NEW w
    PROVE  \E g : Sums(g, w, S)
  <1> DEFINE T == {s \in SUBSET S : ~ \E g : Sums(g, w, s)}
  <1> SUFFICES ASSUME T # {} PROVE FALSE
    OBVIOUS
  <1>0. T \subseteq SUBSET S
    OBVIOUS
  <1>1. PICK s \in T : \A q \in T : q \subseteq s => q = s
    <2> HIDE DEF T
    <2> QED BY <1>0, SmallestSet
  <1> DEFINE G(r) == CHOOSE g : Sums(g, w, r)
             next(r) == r \ {Pick(r)}
             h == [r \in SUBSET s |-> IF r = {} THEN 0
                                      ELSE w[Pick(r)] + G(next(r))[next(r)]]
  <1>2. ASSUME NEW r \in SUBSET s, r # s PROVE Sums(G(r), w, r)
    BY <1>1, <1>2
  <1>3. ASSUME NEW r \in SUBSET s, r # {}
        PROVE  /\ next(r) \in SUBSET r /\ next(r) \in SUBSET s /\ next(r) # r /\ next(r) # s
               /\ Pick(r) \in r
    BY <1>3 DEF Pick
  <1>4. ASSUME NEW r \in SUBSET s, r # s PROVE h[r] = G(r)[r]
    <2>1. Sums(G(r), w, r)
      BY <1>2, <1>4
    <2>2. CASE r = {}
      BY <2>1, <2>2 DEF Sums
    <2>3. CASE r # {}
      <3>1. Sums(G(next(r)), w, next(r)) /\ next(r) \in SUBSET r
        BY <1>2, <1>3, <2>3
      <3>2. IsFiniteSet(r)
        BY FS_Subset
      <3> HIDE DEF G, next
      <3>3. G(r)[next(r)] = G(next(r))[next(r)]
        BY <2>1, <3>1, <3>2, SumsAgree
      <3>4. G(r)[r] = w[Pick(r)] + G(r)[next(r)]
        BY <2>1, <2>3 DEF Sums, next
      <3>5. h[r] = w[Pick(r)] + G(next(r))[next(r)]
        BY <2>3
      <3> QED BY <3>3, <3>4, <3>5
    <2> QED BY <2>2, <2>3
  <1>5. ASSUME NEW r \in SUBSET s, r # {}
        PROVE  h[r] = w[Pick(r)] + h[next(r)]
    <2>1. h[next(r)] = G(next(r))[next(r)]
      BY <1>3, <1>4, <1>5
    <2>2. h[r] = w[Pick(r)] + G(next(r))[next(r)]
      BY <1>5
    <2> QED BY <2>1, <2>2
  <1>6. /\ h = [r \in SUBSET s |-> h[r]]
        /\ h[{}] = 0
    OBVIOUS
  <1> HIDE DEF h
  <1>7. h = [r \in SUBSET s |-> IF r = {} THEN 0 ELSE w[Pick(r)] + h[next(r)]]
    BY <1>5, <1>6
  <1> QED BY <1>7 DEF Sums

(* A function that sums a set sums its subsets.                            *)
LEMMA SumOfSubset ==
    ASSUME NEW S, IsFiniteSet(S), NEW w, NEW v, NEW R \in SUBSET S, \A x \in R : w[x] = v[x],
           NEW g, Sums(g, w, S)
    PROVE  SumOver(v, R) = g[R]
  <1>1. IsFiniteSet(R)
    BY FS_Subset
  <1> DEFINE h == CHOOSE f : Sums(f, v, R)
  <1>2. Sums(h, v, R)
    BY <1>1, SumsExist
  <1>3. SumOver(v, R) = h[R]
    BY DEF SumOver
  <1> HIDE DEF h
  <1>4. R \in SUBSET R
    OBVIOUS
  <1>5. g[R] = h[R]
    BY <1>2, <1>4, SumsAgree
  <1> QED BY <1>3, <1>5

(* The order in which a sum is taken makes no difference.                  *)
LEMMA SumWithout ==
    ASSUME NEW S, IsFiniteSet(S), NEW w, \A x \in S : w[x] \in Int, NEW x \in S
    PROVE  SumOver(w, S) = w[x] + SumOver(w, S \ {x}) /\ SumOver(w, S \ {x}) \in Int
  <1>1. PICK g : Sums(g, w, S)
    BY SumsExist
  <1>2. \A R \in SUBSET S : SumOver(w, R) = g[R]
    BY <1>1, SumOfSubset
  <1> DEFINE T == {s \in SUBSET S : g[s] \notin Int}
             U == {s \in SUBSET S : \E y \in s : g[s] # w[y] + g[s \ {y}]}
             next(s) == s \ {Pick(s)}
  <1>3. ASSUME NEW s \in SUBSET S, s # {}
        PROVE  /\ next(s) \in SUBSET S /\ next(s) # s /\ Pick(s) \in s
               /\ g[s] = w[Pick(s)] + g[next(s)]
    BY <1>1, <1>3 DEF Sums, Pick
  <1>4. g[{}] = 0
    BY <1>1 DEF Sums
  <1>5. \A s \in SUBSET S : g[s] \in Int
    <2> SUFFICES ASSUME T # {} PROVE FALSE
      OBVIOUS
    <2>1. T \subseteq SUBSET S
      OBVIOUS
    <2>2. PICK s \in T : \A r \in T : r \subseteq s => r = s
      <3> HIDE DEF T
      <3> QED BY <2>1, SmallestSet
    <2>3. s # {}
      BY <1>4
    <2>4. g[next(s)] \in Int
      BY <1>3, <2>2, <2>3
    <2> QED BY <1>3, <2>3, <2>4
  <1>6. \A s \in SUBSET S : \A y \in s : g[s] = w[y] + g[s \ {y}]
    <2> SUFFICES ASSUME U # {} PROVE FALSE
      OBVIOUS
    <2>1. U \subseteq SUBSET S
      OBVIOUS
    <2>2. PICK s \in U : \A r \in U : r \subseteq s => r = s
      <3> HIDE DEF U
      <3> QED BY <2>1, SmallestSet
    <2>3. PICK y \in s : g[s] # w[y] + g[s \ {y}]
      BY <2>2
    <2> DEFINE p == Pick(s)
               both == s \ {p, y}
    <2>4. p \in s /\ g[s] = w[p] + g[s \ {p}] /\ p # y
      BY <1>3, <2>3
    <2>5. g[s \ {p}] = w[y] + g[both]
      <3>1. s \ {p} \notin U /\ y \in s \ {p} /\ (s \ {p}) \ {y} = both
        BY <2>2, <2>3, <2>4
      <3> QED BY <3>1
    <2>6. g[s \ {y}] = w[p] + g[both]
      <3>1. s \ {y} \notin U /\ p \in s \ {y} /\ (s \ {y}) \ {p} = both
        BY <2>2, <2>3, <2>4
      <3> QED BY <3>1
    <2>7. both \in SUBSET S /\ y \in S /\ p \in S
      BY <2>3, <2>4
    <2>8. g[both] \in Int /\ w[y] \in Int /\ w[p] \in Int
      BY <1>5, <2>7
    <2> QED BY <2>3, <2>4, <2>5, <2>6, <2>8
  <1> QED BY <1>2, <1>5, <1>6

(* The sum of nothing.                                                     *)
LEMMA NothingToSum ==
    ASSUME NEW w
    PROVE  SumOver(w, {}) = 0
  <1>1. IsFiniteSet({})
    BY FS_EmptySet
  <1>2. PICK g : Sums(g, w, {})
    BY <1>1, SumsExist
  <1>3. SumOver(w, {}) = g[{}]
    BY <1>1, <1>2, SumOfSubset
  <1> QED BY <1>2, <1>3 DEF Sums

(* A sum of integers is one.                                               *)
LEMMA SumIsInt ==
    ASSUME NEW S, IsFiniteSet(S), NEW w, \A x \in S : w[x] \in Int
    PROVE  SumOver(w, S) \in Int
  <1>1. CASE S = {}
    BY <1>1, NothingToSum
  <1>2. CASE S # {}
    <2>1. PICK y \in S : TRUE
      BY <1>2
    <2>2. SumOver(w, S) = w[y] + SumOver(w, S \ {y}) /\ SumOver(w, S \ {y}) \in Int
      BY SumWithout
    <2> QED BY <2>1, <2>2
  <1> QED BY <1>1, <1>2

(* More of what costs no less than nothing is no less.                     *)
LEMMA MoreSumsToMore ==
    ASSUME NEW S, IsFiniteSet(S), NEW w, \A x \in S : w[x] \in Nat, NEW R \in SUBSET S
    PROVE  SumOver(w, R) <= SumOver(w, S)
  <1> DEFINE T == {s \in SUBSET S : R \subseteq s /\ ~ SumOver(w, R) <= SumOver(w, s)}
  <1> SUFFICES ASSUME T # {} PROVE FALSE
    OBVIOUS
  <1>1. T \subseteq SUBSET S
    OBVIOUS
  <1>2. PICK s \in T : \A q \in T : q \subseteq s => q = s
    <2> HIDE DEF T
    <2> QED BY <1>1, SmallestSet
  <1>3. IsFiniteSet(R) /\ IsFiniteSet(s) /\ s \subseteq S /\ R \subseteq s
    BY <1>2, FS_Subset
  <1>0. SumOver(w, R) \in Int
    BY <1>3, SumIsInt
  <1>4. CASE s = R
    BY <1>0, <1>2, <1>4
  <1>5. CASE s # R
    <2>1. PICK y \in s : y \notin R
      BY <1>3, <1>5
    <2>2. s \ {y} \notin T /\ s \ {y} \in SUBSET S /\ R \subseteq s \ {y}
      BY <1>2, <1>3, <2>1
    <2>3. SumOver(w, R) <= SumOver(w, s \ {y})
      BY <2>2
    <2>4. SumOver(w, s) = w[y] + SumOver(w, s \ {y}) /\ SumOver(w, s \ {y}) \in Int
      BY <1>3, SumWithout
    <2>5. ~ SumOver(w, R) <= SumOver(w, s) /\ w[y] \in Nat
      BY <1>2, <1>3, <2>1
    <2> QED BY <1>0, <2>3, <2>4, <2>5
  <1> QED BY <1>4, <1>5

-----------------------------------------------------------------------------
(* What attempts cost, and what the table says. *)

(* What one more attempt adds to the cost of a call.                       *)
LEMMA OneMoreAttempt ==
    ASSUME NEW texts \in Seq(Texts), NEW text \in Texts
    PROVE  Total(Append(texts, text)) = Total(texts) + text.cost
  <1> DEFINE more == Append(texts, text)
             n == Len(texts)
             w == [i \in DOMAIN texts |-> texts[i].cost]
             v == [i \in DOMAIN more |-> more[i].cost]
  <1>1. /\ n \in Nat /\ DOMAIN texts = 1..n /\ DOMAIN more = 1..(n + 1)
        /\ more[n + 1] = text /\ \A i \in 1..n : more[i] = texts[i] /\ texts[i] \in Texts
    OBVIOUS
  <1>2. /\ \A i \in 1..n : w[i] = v[i]
        /\ \A i \in 1..(n + 1) : v[i] \in Int
        /\ v[n + 1] = text.cost
    BY <1>1, GenerateAssumption
  <1>3. Total(more) = SumOver(v, 1..(n + 1)) /\ Total(texts) = SumOver(w, 1..n)
    BY <1>1, TotalIsSum
  <1>4. IsFiniteSet(1..n) /\ IsFiniteSet(1..(n + 1))
    BY <1>1, FS_Interval
  <1>5. SumOver(v, 1..n) = SumOver(w, 1..n)
    <2> HIDE DEF v, w
    <2>1. 1..n \in SUBSET (1..n)
      OBVIOUS
    <2>2. PICK g : Sums(g, v, 1..n)
      BY <1>4, SumsExist
    <2>3. SumOver(w, 1..n) = g[1..n] /\ SumOver(v, 1..n) = g[1..n]
      BY <1>2, <1>4, <2>1, <2>2, SumOfSubset
    <2> QED BY <2>3
  <1>6. /\ SumOver(v, 1..(n + 1)) = v[n + 1] + SumOver(v, 1..n)
        /\ SumOver(v, 1..n) \in Int
    <2>1. n + 1 \in 1..(n + 1) /\ (1..(n + 1)) \ {n + 1} = 1..n
      BY <1>1
    <2> HIDE DEF v
    <2> QED BY <1>2, <1>4, <2>1, SumWithout
  <1>7. text.cost \in Int
    BY GenerateAssumption
  <1> HIDE DEF v, w, more
  <1> QED BY <1>2, <1>3, <1>5, <1>6, <1>7 DEF more

(* What no attempt costs.                                                  *)
LEMMA NoAttempts == Total(<<>>) = 0
  <1>1. DOMAIN <<>> = {}
    OBVIOUS
  <1>2. \E w : Total(<<>>) = SumOver(w, DOMAIN <<>>)
    BY TotalIsSum
  <1> QED BY <1>1, <1>2, NothingToSum

(* Every entry of the table needs all its collectors, and its servers are  *)
(* theirs.                                                                 *)
LEMMA TableIsCoherent ==
    ASSUME NEW intent \in Intents, NEW service
    PROVE  LET d == Decide(intent, service)
               collectors == ToSet(INTENT_COLLECTORS[d.intent])
           IN  /\ \A s \in collectors : Needs(d, s)
               /\ d.servers \subseteq {ServerOf[s] : s \in collectors}
  <1>1. Intents = {"FULL_INVESTIGATION", "HISTORICAL_SIMILARITY", "DEPLOYMENT_CHECK",
                   "DATABASE_HEALTH", "SERVICE_TOPOLOGY", "CONFIG_LOOKUP", "CODE_LOOKUP",
                   "REMEDIATION_QUESTION", "KNOWLEDGE_QUESTION", "PERFORMANCE_ANALYSIS",
                   "TRACE_QUERY", "METRIC_QUERY", "LOG_QUERY", "ERROR_ANALYSIS",
                   "GENERAL_QUESTION"}
    BY DEF Intents, Rules, ToSet
  <1> DEFINE d == Decide(intent, service)
             plan == INTENT_PLANS[intent]
             names == INTENT_COLLECTORS[intent]
  <1>2. /\ d.intent = intent /\ d.servers = plan.servers
        /\ d.requires_rag = plan.requires_rag /\ d.requires_mcp = plan.requires_mcp
    BY DEF Decide
  <1>3. /\ ServerOf["COLLECT_LOGS"] = "logs" /\ ServerOf["COLLECT_METRICS"] = "metrics"
        /\ ServerOf["COLLECT_TRACES"] = "traces" /\ ServerOf["COLLECT_DATABASE"] = "database"
        /\ ServerOf["CHECK_DEPLOYMENTS"] = "git" /\ ServerOf["INSPECT_CODE"] = "source-code"
    BY DEF ServerOf
  <1>4. /\ \A s \in ToSet(names) : Needs(plan, s)
        /\ plan.servers \subseteq {ServerOf[s] : s \in ToSet(names)}
    <2>1. CASE intent = "FULL_INVESTIGATION"
      BY <1>3, <2>1 DEF INTENT_PLANS, INTENT_COLLECTORS, Entry, ToSet, Needs
    <2>2. CASE intent = "ERROR_ANALYSIS"
      BY <1>3, <2>2 DEF INTENT_PLANS, INTENT_COLLECTORS, Entry, ToSet, Needs
    <2>3. CASE intent = "GENERAL_QUESTION"
      BY <1>3, <2>3 DEF INTENT_PLANS, INTENT_COLLECTORS, Entry, ToSet, Needs
    <2>4. CASE intent = "LOG_QUERY"
      BY <1>3, <2>4 DEF INTENT_PLANS, INTENT_COLLECTORS, Entry, ToSet, Needs
    <2>5. CASE intent = "METRIC_QUERY"
      BY <1>3, <2>5 DEF INTENT_PLANS, INTENT_COLLECTORS, Entry, ToSet, Needs
    <2>6. CASE intent = "TRACE_QUERY"
      BY <1>3, <2>6 DEF INTENT_PLANS, INTENT_COLLECTORS, Entry, ToSet, Needs
    <2>7. CASE intent = "PERFORMANCE_ANALYSIS"
      BY <1>3, <2>7 DEF INTENT_PLANS, INTENT_COLLECTORS, Entry, ToSet, Needs
    <2>8. CASE intent = "DATABASE_HEALTH"
      BY <1>3, <2>8 DEF INTENT_PLANS, INTENT_COLLECTORS, Entry, ToSet, Needs
    <2>9. CASE intent = "DEPLOYMENT_CHECK"
      BY <1>3, <2>9 DEF INTENT_PLANS, INTENT_COLLECTORS, Entry, ToSet, Needs
    <2>10. CASE intent = "CODE_LOOKUP"
      BY <1>3, <2>10 DEF INTENT_PLANS, INTENT_COLLECTORS, Entry, ToSet, Needs
    <2>11. CASE intent = "CONFIG_LOOKUP"
      BY <1>3, <2>11 DEF INTENT_PLANS, INTENT_COLLECTORS, Entry, ToSet, Needs
    <2>12. CASE intent = "SERVICE_TOPOLOGY"
      BY <1>3, <2>12 DEF INTENT_PLANS, INTENT_COLLECTORS, Entry, ToSet, Needs
    <2>13. CASE intent = "HISTORICAL_SIMILARITY"
      BY <1>3, <2>13 DEF INTENT_PLANS, INTENT_COLLECTORS, Entry, ToSet, Needs
    <2>14. CASE intent = "REMEDIATION_QUESTION"
      BY <1>3, <2>14 DEF INTENT_PLANS, INTENT_COLLECTORS, Entry, ToSet, Needs
    <2>15. CASE intent = "KNOWLEDGE_QUESTION"
      BY <1>3, <2>15 DEF INTENT_PLANS, INTENT_COLLECTORS, Entry, ToSet, Needs
    <2> QED BY <1>1, <2>1, <2>2, <2>3, <2>4, <2>5, <2>6, <2>7, <2>8, <2>9, <2>10, <2>11,
               <2>12, <2>13, <2>14, <2>15
  <1> QED BY <1>2, <1>4 DEF Needs

(* A set of numbers has a least one (Min is CHOOSE).                       *)
LEMMA LeastIsThere ==
    ASSUME NEW N, N \subseteq Nat, N # {}
    PROVE  Min(N) \in N /\ \A n \in N : Min(N) <= n
  <1>1. PICK m \in N : \A n \in N : <<n, m>> \notin OpToRel(<, Nat)
    BY WFMin, NatLessThanWellFounded
  <1>2. ASSUME NEW n \in N PROVE m <= n
    <2>1. m \in Nat /\ n \in Nat
      OBVIOUS
    <2>2. n < m => <<n, m>> \in OpToRel(<, Nat)
      BY <2>1, Zenon DEF OpToRel
    <2>3. ~ n < m
      BY <1>1, <2>2, Zenon
    <2> QED BY <2>1, <2>3
  <1> QED BY <1>2 DEF Min

(* What holds of 0 and of the next number holds of every number.           *)
LEMMA ForEveryNumber ==
    ASSUME NEW N, 0 \in N, \A n \in Nat : n \in N => n + 1 \in N
    PROVE  Nat \subseteq N
  <1> DEFINE T == Nat \ N
  <1> SUFFICES ASSUME T # {} PROVE FALSE
    OBVIOUS
  <1>1. T \subseteq Nat
    OBVIOUS
  <1> DEFINE m == Min(T)
  <1>2. m \in T /\ \A i \in T : m <= i
    <2> HIDE DEF T
    <2> QED BY <1>1, LeastIsThere
  <1> HIDE DEF m
  <1>3. m \in Nat /\ m # 0 /\ m - 1 \in Nat /\ ~ m <= m - 1
    BY <1>2
  <1>4. m - 1 \in N
    BY <1>2, <1>3
  <1>5. (m - 1) + 1 \in N
    BY <1>3, <1>4
  <1> QED BY <1>2, <1>3, <1>5

(* Collectors are listed for every intent.                                 *)
LEMMA CollectorsAreListed ==
    ASSUME NEW intent \in Intents
    PROVE  INTENT_COLLECTORS[intent] \in Seq(DOMAIN ServerOf)
  <1>1. DOMAIN ServerOf = {"COLLECT_LOGS", "COLLECT_METRICS", "COLLECT_TRACES",
                           "COLLECT_DATABASE", "CHECK_DEPLOYMENTS", "INSPECT_CODE",
                           "SEARCH_HISTORY"}
    BY DEF ServerOf
  <1>0. Intents = {"FULL_INVESTIGATION", "HISTORICAL_SIMILARITY", "DEPLOYMENT_CHECK",
                   "DATABASE_HEALTH", "SERVICE_TOPOLOGY", "CONFIG_LOOKUP", "CODE_LOOKUP",
                   "REMEDIATION_QUESTION", "KNOWLEDGE_QUESTION", "PERFORMANCE_ANALYSIS",
                   "TRACE_QUERY", "METRIC_QUERY", "LOG_QUERY", "ERROR_ANALYSIS",
                   "GENERAL_QUESTION"}
    BY DEF Intents, Rules, ToSet
  <1>2. CASE intent = "FULL_INVESTIGATION"
    BY <1>1, <1>2 DEF INTENT_COLLECTORS
  <1>3. CASE intent = "ERROR_ANALYSIS"
    BY <1>1, <1>3 DEF INTENT_COLLECTORS
  <1>4. CASE intent = "GENERAL_QUESTION"
    BY <1>1, <1>4 DEF INTENT_COLLECTORS
  <1>5. CASE intent = "LOG_QUERY"
    BY <1>1, <1>5 DEF INTENT_COLLECTORS
  <1>6. CASE intent = "METRIC_QUERY"
    BY <1>1, <1>6 DEF INTENT_COLLECTORS
  <1>7. CASE intent = "TRACE_QUERY"
    BY <1>1, <1>7 DEF INTENT_COLLECTORS
  <1>8. CASE intent = "DEPLOYMENT_CHECK"
    BY <1>1, <1>8 DEF INTENT_COLLECTORS
  <1>9. CASE intent = "PERFORMANCE_ANALYSIS"
    BY <1>1, <1>9 DEF INTENT_COLLECTORS
  <1>10. CASE intent = "DATABASE_HEALTH"
    BY <1>1, <1>10 DEF INTENT_COLLECTORS
  <1>11. CASE intent = "CODE_LOOKUP"
    BY <1>1, <1>11 DEF INTENT_COLLECTORS
  <1>12. CASE intent = "CONFIG_LOOKUP"
    BY <1>1, <1>12 DEF INTENT_COLLECTORS
  <1>13. CASE intent = "SERVICE_TOPOLOGY"
    BY <1>1, <1>13 DEF INTENT_COLLECTORS
  <1>14. CASE intent \in {"HISTORICAL_SIMILARITY", "REMEDIATION_QUESTION", "KNOWLEDGE_QUESTION"}
    BY <1>1, <1>14 DEF INTENT_COLLECTORS
  <1> QED BY <1>0, <1>2, <1>3, <1>4, <1>5, <1>6, <1>7, <1>8, <1>9, <1>10, <1>11, <1>12,
             <1>13, <1>14

(* A decision that needs all its collectors is planned all of them, in     *)
(* their order.                                                            *)
LEMMA NothingIsLeftOut ==
    ASSUME NEW d, NEW S, INTENT_COLLECTORS[d.intent] \in Seq(S),
           \A s \in ToSet(INTENT_COLLECTORS[d.intent]) : Needs(d, s)
    PROVE  PlanFor(d) = INTENT_COLLECTORS[d.intent]
  <1> DEFINE names == INTENT_COLLECTORS[d.intent]
             n == Len(names)
             Plans(p) == p = [i \in 0..n |->
                  IF i = 0 THEN <<>>
                  ELSE IF Needs(d, names[i]) THEN Append(p[i - 1], names[i]) ELSE p[i - 1]]
             plan == CHOOSE p : Plans(p)
  <1>1. PlanFor(d) = plan[n]
    BY DEF PlanFor
  <1>2. /\ n \in Nat /\ names \in Seq(S) /\ SubSeq(names, 1, 0) = <<>> /\ SubSeq(names, 1, n) = names
        /\ \A i \in 1..n : Needs(d, names[i])
        /\ \A i \in 1..n : SubSeq(names, 1, i) = Append(SubSeq(names, 1, i - 1), names[i])
    BY DEF ToSet
  <1> HIDE DEF names, n
  <1>3. Plans([i \in 0..n |-> SubSeq(names, 1, i)])
    <2> DEFINE first == [i \in 0..n |-> SubSeq(names, 1, i)]
    <2>1. first[0] = <<>>
      BY <1>2
    <2>2. ASSUME NEW i \in 0..n, i # 0
          PROVE  first[i] = IF Needs(d, names[i]) THEN Append(first[i - 1], names[i])
                            ELSE first[i - 1]
      <3>1. i \in 1..n /\ i - 1 \in 0..n
        BY <1>2, <2>2
      <3> QED BY <1>2, <3>1
    <2>3. first = [i \in 0..n |-> first[i]]
      OBVIOUS
    <2> HIDE DEF first
    <2>4. Plans(first)
      BY <2>1, <2>2, <2>3
    <2> QED BY <2>4 DEF first
  <1>4. Plans(plan)
    BY <1>3
  <1> HIDE DEF plan
  <1> DEFINE Right(i) == i <= n => plan[i] = SubSeq(names, 1, i)
             N == {i \in Nat : Right(i)}
  <1>5. 0 \in N
    BY <1>2, <1>4
  <1>6. ASSUME NEW i \in Nat, Right(i), i + 1 <= n PROVE plan[i + 1] = SubSeq(names, 1, i + 1)
    <2>1. /\ i + 1 \in 1..n /\ i + 1 \in 0..n /\ i + 1 # 0 /\ (i + 1) - 1 = i /\ i <= n
      BY <1>2, <1>6
    <2>2. plan[i + 1] = Append(plan[i], names[i + 1])
      BY <1>2, <1>4, <2>1
    <2>3. plan[i] = SubSeq(names, 1, i)
      BY <1>6, <2>1
    <2>4. SubSeq(names, 1, i + 1) = Append(SubSeq(names, 1, i), names[i + 1])
      BY <1>2, <2>1
    <2> QED BY <2>2, <2>3, <2>4
  <1>7. \A i \in Nat : i \in N => i + 1 \in N
    <2> HIDE DEF Plans
    <2> QED BY <1>6
  <1>8. n \in N
    <2> HIDE DEF N
    <2> QED BY <1>2, <1>5, <1>7, ForEveryNumber
  <1> QED BY <1>1, <1>2, <1>8 DEF names

(* The keyword table names an intent of the table of plans.                *)
LEMMA EveryQuestionHasAnIntent ==
    ASSUME NEW q \in Questions
    PROVE  Classify(q) \in Intents
  <1>1. /\ \A i \in DOMAIN Rules : Rules[i] \in Intents
        /\ DOMAIN Rules \subseteq Nat
        /\ {"REMEDIATION_QUESTION", "KNOWLEDGE_QUESTION", "GENERAL_QUESTION"} \subseteq Intents
    BY DEF Intents, Rules, ToSet
  <1>2. ASSUME q.matches # {}
        PROVE  Rules[Min({i \in DOMAIN Rules : Rules[i] \in q.matches})] \in Intents
    <2> DEFINE N == {i \in DOMAIN Rules : Rules[i] \in q.matches}
    <2>1. N # {} /\ N \subseteq Nat /\ N \subseteq DOMAIN Rules
      <3>1. q.matches \subseteq {Rules[i] : i \in DOMAIN Rules}
        BY CallAssumption DEF ToSet
      <3> QED BY <1>1, <1>2, <3>1
    <2> HIDE DEF N
    <2>2. Min(N) \in N
      BY <2>1, LeastIsThere
    <2>3. Rules[Min(N)] \in Intents
      BY <1>1, <2>1, <2>2
    <2> QED BY <2>3 DEF N
  <1> QED BY <1>1, <1>2 DEF Classify

-----------------------------------------------------------------------------
(* The invariant of the calls. *)

(* What the model writes about a call: one entry for each.                 *)
CallsTyped ==
    /\ DOMAIN phase = Calls /\ DOMAIN stage = Calls /\ DOMAIN caller = Calls
    /\ DOMAIN asked = Calls /\ DOMAIN decided = Calls /\ DOMAIN told = Calls
    /\ DOMAIN rows = Calls
    /\ attempts \in [Calls -> Seq(Texts)]
    /\ generated \in [Calls -> Nat]

(* Only a call in flight is answered, and only one that is done is told.   *)
InFlight(c) ==
    /\ stage[c] = "idle" => phase[c] = "idle"
    /\ stage[c] # "done" => told[c] = None
    /\ stage[c] \in {"idle", "generating", "reporting"} => rows[c] = {}
    /\ stage[c] \in {"reporting", "announcing"} => caller[c] # "router" /\ Answered(c)
    /\ caller[c] = "node" /\ stage[c] \notin {"idle", "generating"} =>
           Answered(c) \/ told[c] = "raised"

(* The runtime was paid for the attempts that came back.                   *)
PaidForAttempts(c) == generated[c] = Total(attempts[c])

RowsTell(c) ==
    /\ \A row \in rows[c] :
           row.tokens = generated[c] /\ row.valid_json = (phase[c] = "valid")
    /\ told[c] = "recorded" => \E row \in rows[c] : row.by = "report"

(* A call to the router asks a question, and a usable answer has an intent.*)
Routed(c) ==
    /\ stage[c] = "generating" /\ caller[c] = "router" =>
           /\ asked[c].question \in Questions
           /\ phase[c] = "valid" => decided[c].intent \in Intents
    /\ told[c] = "route" =>
           /\ \E intent \in Intents : \E service : decided[c] = Decide(intent, service)
           /\ phase[c] # "valid" => decided[c] = RuleRoute(asked[c].question, asked[c].hint)

Accounted ==
    {c \in Calls : caller[c] = "node" /\ Answered(c) /\ stage[c] # "generating"}

BooksBalance ==
    /\ booked.tokens = SumOver(generated, Accounted)
    /\ booked.calls = SumOver(Trips, Accounted)

CallOK(c) == InFlight(c) /\ PaidForAttempts(c) /\ RowsTell(c) /\ Routed(c)

CallInv == CallsTyped /\ BooksBalance /\ \A c \in Calls : CallOK(c)

(* No call was made yet.                                                   *)
LEMMA CallInitInv == CallInit => CallInv
  <1> SUFFICES ASSUME CallInit PROVE CallInv
    OBVIOUS
  <1> USE DEF CallInit, GenerateInit
  <1>1. CallsTyped
    BY DEF CallsTyped
  <1>2. BooksBalance
    <2>1. Accounted = {}
      BY DEF Accounted, Answered
    <2>2. SumOver(generated, {}) = 0 /\ SumOver(Trips, {}) = 0
      BY NothingToSum
    <2> QED BY <2>1, <2>2 DEF BooksBalance
  <1>3. ASSUME NEW c \in Calls PROVE CallOK(c)
    <2>1. InFlight(c)
      BY DEF InFlight, Answered
    <2>2. PaidForAttempts(c)
      BY NoAttempts DEF PaidForAttempts
    <2>3. RowsTell(c) /\ Routed(c)
      BY CallAssumption DEF RowsTell, Routed
    <2> QED BY <2>1, <2>2, <2>3 DEF CallOK
  <1> QED BY <1>1, <1>2, <1>3 DEF CallInv

(* What the other calls cost does not matter.                              *)
LEMMA OthersDoNotCount ==
    ASSUME NEW w, NEW v, NEW A \in SUBSET Calls, \A d \in A : w[d] = v[d]
    PROVE  SumOver(v, A) = SumOver(w, A)
  <1>1. IsFiniteSet(A)
    BY GenerateAssumption, FS_Subset
  <1>2. PICK g : Sums(g, w, A)
    BY <1>1, SumsExist
  <1>3. A \in SUBSET A
    OBVIOUS
  <1>4. SumOver(w, A) = g[A] /\ SumOver(v, A) = g[A]
    BY <1>1, <1>2, <1>3, SumOfSubset
  <1> QED BY <1>4

(* One more call is accounted for.                                         *)
LEMMA OneMoreAccounted ==
    ASSUME NEW w, \A d \in Calls : w[d] \in Int,
           NEW A \in SUBSET Calls, NEW c \in Calls, c \notin A
    PROVE  SumOver(w, A \cup {c}) = SumOver(w, A) + w[c]
  <1> DEFINE B == A \cup {c}
  <1>1. IsFiniteSet(B) /\ c \in B /\ B \ {c} = A /\ B \subseteq Calls
    BY GenerateAssumption, FS_Subset
  <1> HIDE DEF B
  <1>2. \A x \in B : w[x] \in Int
    BY <1>1
  <1>3. /\ SumOver(w, B) = w[c] + SumOver(w, A)
        /\ SumOver(w, A) \in Int
    BY <1>1, <1>2, SumWithout
  <1> QED BY <1>1, <1>2, <1>3 DEF B

(* How many attempts a call took is a number.                              *)
LEMMA TripsTyped ==
    ASSUME CallsTyped PROVE \A c \in Calls : Trips[c] \in Nat /\ Trips[c] = Len(attempts[c])
  BY DEF CallsTyped, Trips

(* Nothing of a call but its own entries changes.                          *)
Others(c) ==
    \A d \in Calls : d # c =>
        /\ phase'[d] = phase[d] /\ stage'[d] = stage[d] /\ caller'[d] = caller[d]
        /\ asked'[d] = asked[d] /\ decided'[d] = decided[d] /\ told'[d] = told[d]
        /\ rows'[d] = rows[d] /\ attempts'[d] = attempts[d] /\ generated'[d] = generated[d]

(* A step of one call leaves the others as they are.                       *)
LEMMA OneCallMoves ==
    ASSUME CallInv, NEW c \in Calls, Others(c), CallsTyped', BooksBalance', CallOK(c)'
    PROVE  CallInv'
  <1>1. ASSUME NEW d \in Calls, d # c PROVE CallOK(d)'
    <2>1. CallOK(d)
      BY DEF CallInv
    <2> QED BY <1>1, <2>1 DEF CallOK, InFlight, Answered, PaidForAttempts, RowsTell, Routed, Others
  <1> QED BY <1>1 DEF CallInv

(* While a call is in flight it is not accounted for.                      *)
LEMMA AccountedStays ==
    ASSUME CallInv, NEW c \in Calls, Others(c), CallsTyped', booked' = booked,
           c \notin Accounted, c \notin Accounted'
    PROVE  BooksBalance'
  <1>1. Accounted' = Accounted
    BY DEF Accounted, Answered, Others, CallInv, CallsTyped
  <1>2. Accounted \in SUBSET Calls /\ c \notin Accounted
    BY DEF Accounted
  <1>3. SumOver(generated', Accounted) = SumOver(generated, Accounted)
    BY <1>2, OthersDoNotCount DEF Others
  <1>4. SumOver(Trips', Accounted) = SumOver(Trips, Accounted)
    <2>1. \A d \in Accounted : Trips[d] = Trips'[d]
      BY <1>2 DEF Others, Trips
    <2> QED BY <1>2, <2>1, OthersDoNotCount
  <1> QED BY <1>1, <1>3, <1>4 DEF BooksBalance, CallInv

(* A call on its way from its report is accounted for already.             *)
LEMMA AccountedSettled ==
    ASSUME CallInv, NEW c \in Calls, Others(c),
           UNCHANGED <<booked, generated, attempts, phase, caller>>,
           stage[c] = "generating" <=> stage'[c] = "generating"
    PROVE  BooksBalance'
  <1>1. Accounted' = Accounted
    BY DEF Accounted, Answered, Others
  <1>2. Trips' = Trips
    BY DEF Trips
  <1> QED BY <1>1, <1>2 DEF BooksBalance, CallInv

(* An entry of a call changes, the others stay.                            *)
LEMMA OneEntry ==
    ASSUME NEW f, DOMAIN f = Calls, NEW c \in Calls, NEW e
    PROVE  /\ DOMAIN [f EXCEPT ![c] = e] = Calls
           /\ [f EXCEPT ![c] = e][c] = e
           /\ \A d \in Calls : d # c => [f EXCEPT ![c] = e][d] = f[d]
  OBVIOUS

(* Asking a model: the call is in flight, and nothing came back yet.       *)
LEMMA OpensKeeps ==
    ASSUME CallInv, NEW c \in Calls, NEW who, NEW messages, NEW max_attempts,
           Opens(c, who, messages, max_attempts),
           \/ asked' = asked /\ who # "router"
           \/ \E q \in Questions, hint \in Hints :
                  asked' = [asked EXCEPT ![c] = [question |-> q, hint |-> hint]]
    PROVE  CallInv'
  <1>0. CallOK(c) /\ CallsTyped /\ stage[c] = "idle"
    BY DEF CallInv, Opens
  <1> USE DEF Opens, Generate, Becomes, Fixed
  <1>1. Others(c)
    BY <1>0, OneEntry DEF Others, CallsTyped
  <1>2. CallsTyped'
    BY <1>0 DEF CallsTyped
  <1>3. BooksBalance'
    <2>1. c \notin Accounted
      BY <1>0 DEF Accounted, Answered, CallOK, InFlight
    <2>2. c \notin Accounted'
      BY <1>0, OneEntry DEF Accounted, CallsTyped
    <2> QED BY <1>1, <1>2, <2>1, <2>2, AccountedStays
  <1>4. CallOK(c)'
    <2>1. InFlight(c)'
      BY <1>0 DEF CallOK, InFlight, Answered, CallsTyped
    <2>2. PaidForAttempts(c)'
      BY <1>0 DEF CallOK, PaidForAttempts
    <2>3. RowsTell(c)'
      BY <1>0, CallAssumption DEF CallOK, RowsTell, InFlight, CallsTyped
    <2>4. Routed(c)'
      BY <1>0, CallAssumption DEF CallOK, Routed, InFlight, CallsTyped
    <2> QED BY <2>1, <2>2, <2>3, <2>4 DEF CallOK
  <1> QED BY <1>1, <1>2, <1>3, <1>4, OneCallMoves

(* A refused request never reaches the runtime.                            *)
LEMMA RefuseRequestKeeps ==
    ASSUME CallInv, NEW c \in Calls, RefuseRequest(c) PROVE CallInv'
  <1>0. CallOK(c) /\ CallsTyped /\ stage[c] = "idle"
    BY DEF CallInv, RefuseRequest
  <1> USE DEF RefuseRequest, Tell, Becomes, Fixed, generateVars
  <1>1. Others(c)
    BY <1>0, OneEntry DEF Others, CallsTyped
  <1>2. CallsTyped'
    BY <1>0 DEF CallsTyped
  <1>3. BooksBalance'
    <2>1. c \notin Accounted /\ c \notin Accounted'
      BY <1>0 DEF Accounted, Answered, CallOK, InFlight
    <2> QED BY <1>1, <1>2, <2>1, AccountedStays
  <1>4. CallOK(c)'
    BY <1>0 DEF CallOK, InFlight, Answered, PaidForAttempts, RowsTell, Routed, CallsTyped
  <1> QED BY <1>1, <1>2, <1>3, <1>4, OneCallMoves

(* Without a model, the keyword table decides.                             *)
LEMMA RouteByTableKeeps ==
    ASSUME CallInv, NEW c \in Calls, RouteByTable(c) PROVE CallInv'
  <1>0. CallOK(c) /\ CallsTyped /\ stage[c] = "idle"
    BY DEF CallInv, RouteByTable
  <1>9. PICK q \in Questions, hint \in Hints :
           /\ asked' = [asked EXCEPT ![c] = [question |-> q, hint |-> hint]]
           /\ decided' = [decided EXCEPT ![c] = RuleRoute(q, hint)]
    BY DEF RouteByTable
  <1> USE DEF RouteByTable, Tell, Becomes, Fixed, generateVars
  <1>1. Others(c)
    BY <1>0, <1>9, OneEntry DEF Others, CallsTyped
  <1>2. CallsTyped'
    BY <1>0, <1>9 DEF CallsTyped
  <1>3. BooksBalance'
    <2>1. c \notin Accounted /\ c \notin Accounted'
      BY <1>0 DEF Accounted, Answered, CallOK, InFlight
    <2> QED BY <1>1, <1>2, <2>1, AccountedStays
  <1>4. CallOK(c)'
    <2>1. InFlight(c)' /\ PaidForAttempts(c)' /\ RowsTell(c)'
      BY <1>0 DEF CallOK, InFlight, Answered, PaidForAttempts, RowsTell, CallsTyped
    <2>2. Routed(c)'
      <3>1. /\ Classify(q) \in Intents
            /\ \E intent \in Intents : \E s : RuleRoute(q, hint) = Decide(intent, s)
        BY EveryQuestionHasAnIntent DEF RuleRoute
      <3>2. decided'[c] = RuleRoute(q, hint) /\ asked'[c] = [question |-> q, hint |-> hint]
            /\ stage'[c] = "done"
        BY <1>0, <1>9 DEF CallsTyped
      <3> QED BY <3>1, <3>2 DEF Routed
    <2> QED BY <2>1, <2>2 DEF CallOK
  <1> QED BY <1>1, <1>2, <1>3, <1>4, OneCallMoves

(* A completion: it is paid for, and the call is still in flight.          *)
LEMMA CompleteKeeps ==
    ASSUME CallInv, NEW c \in Calls, NEW text \in Texts, Complete(c, text),
           stage[c] = "generating",
           UNCHANGED <<stage, caller, asked, told, booked, rows>>,
           \/ decided' = decided /\ (caller[c] # "router" \/ ~Validates(text))
           \/ \E said \in Decisions : decided' = [decided EXCEPT ![c] = said]
    PROVE  CallInv'
  <1>0. CallOK(c) /\ CallsTyped
    BY DEF CallInv
  <1> DEFINE ended == IF Validates(text) THEN "valid"
                      ELSE IF Len(attempts[c]) + 1 = limit[c] THEN "exhausted"
                      ELSE "asking"
  <1>9. /\ phase' = [phase EXCEPT ![c] = ended]
        /\ attempts' = [attempts EXCEPT ![c] = Append(attempts[c], text)]
        /\ generated' = [generated EXCEPT ![c] = generated[c] + text.cost]
        /\ attempts[c] \in Seq(Texts) /\ generated[c] \in Int /\ text.cost \in Int
    BY <1>0, GenerateAssumption DEF Complete, CallsTyped
  <1>8. phase'[c] = ended
    BY <1>0, <1>9 DEF CallsTyped
  <1>1. Others(c)
    BY <1>0, <1>9, OneEntry DEF Others, CallsTyped
  <1>2. CallsTyped'
    <2>1. generated[c] + text.cost \in Nat /\ Append(attempts[c], text) \in Seq(Texts)
      BY <1>0, <1>9, GenerateAssumption DEF CallsTyped
    <2>2. generated' \in [Calls -> Nat] /\ attempts' \in [Calls -> Seq(Texts)]
      BY <1>0, <1>9, <2>1 DEF CallsTyped
    <2>3. DOMAIN phase' = Calls /\ DOMAIN decided' = Calls
      BY <1>0, <1>9 DEF CallsTyped
    <2> QED BY <1>0, <2>2, <2>3 DEF CallsTyped
  <1>3. BooksBalance'
    <2>1. c \notin Accounted /\ c \notin Accounted'
      BY DEF Accounted
    <2> QED BY <1>1, <1>2, <2>1, AccountedStays
  <1>4. CallOK(c)'
    <2>1. InFlight(c)' /\ RowsTell(c)'
      BY <1>0, CallAssumption DEF CallOK, InFlight, Answered, RowsTell
    <2>2. PaidForAttempts(c)'
      <3>1. Total(Append(attempts[c], text)) = Total(attempts[c]) + text.cost
        BY <1>9, OneMoreAttempt
      <3>2. attempts'[c] = Append(attempts[c], text) /\ generated'[c] = generated[c] + text.cost
        BY <1>0, <1>9 DEF CallsTyped
      <3> QED BY <1>0, <3>1, <3>2 DEF CallOK, PaidForAttempts
    <2>3. Routed(c)'
      <3>1. caller[c] = "router" /\ phase'[c] = "valid" => decided'[c].intent \in Intents
        BY <1>0, <1>8, CallAssumption DEF CallsTyped
      <3>2. told'[c] # "route"
        BY <1>0, CallAssumption DEF CallOK, InFlight, Answered
      <3> QED BY <1>0, <3>1, <3>2 DEF CallOK, Routed
    <2> QED BY <2>1, <2>2, <2>3 DEF CallOK
  <1> QED BY <1>1, <1>2, <1>3, <1>4, OneCallMoves

(* The runtime answers a caller, or the router.                            *)
LEMMA AnswerKeeps ==
    ASSUME CallInv, NEW c \in Calls, AnswerTo(c) \/ AnswerRouter(c) PROVE CallInv'
  <1>1. CASE AnswerTo(c)
    BY <1>1, CompleteKeeps DEF AnswerTo, callVars
  <1>2. CASE AnswerRouter(c)
    BY <1>2, CompleteKeeps DEF AnswerRouter
  <1> QED BY <1>1, <1>2

(* It does not: nothing is paid.                                           *)
LEMMA NoAnswerKeeps ==
    ASSUME CallInv, NEW c \in Calls, NoAnswer(c) PROVE CallInv'
  <1>0. CallOK(c) /\ CallsTyped
    BY DEF CallInv
  <1> USE DEF NoAnswer, RuntimeFails, callVars
  <1>9. PICK how \in Failures : phase' = [phase EXCEPT ![c] = how]
    OBVIOUS
  <1>8. phase'[c] = how /\ how # "valid"
    BY <1>0, <1>9 DEF CallsTyped, Failures
  <1>1. Others(c)
    BY <1>0, <1>9, OneEntry DEF Others, CallsTyped
  <1>2. CallsTyped'
    BY <1>0, <1>9 DEF CallsTyped
  <1>3. BooksBalance'
    <2>1. c \notin Accounted /\ c \notin Accounted'
      BY DEF Accounted
    <2> QED BY <1>1, <1>2, <2>1, AccountedStays
  <1>4. CallOK(c)'
    BY <1>0, <1>8, CallAssumption DEF CallOK, InFlight, Answered, PaidForAttempts, RowsTell, Routed
  <1> QED BY <1>1, <1>2, <1>3, <1>4, OneCallMoves

(* A call broken off is not booked, and was not valid.                     *)
LEMMA InterruptedKeeps ==
    ASSUME CallInv, NEW c \in Calls, Interrupted(c) PROVE CallInv'
  <1>0. CallOK(c) /\ CallsTyped /\ stage[c] = "generating"
    BY DEF CallInv, Interrupted, Over
  <1> USE DEF Interrupted, Tell, Becomes, Fixed, generateVars
  <1>9. PICK what \in {"raised", "503", "500"} : Tell(c, what)
    OBVIOUS
  <1>1. Others(c)
    BY <1>0, <1>9, OneEntry DEF Others, CallsTyped
  <1>2. CallsTyped'
    BY <1>0, <1>9 DEF CallsTyped
  <1>3. BooksBalance'
    <2>1. c \notin Accounted /\ c \notin Accounted'
      BY DEF Accounted, Answered
    <2> QED BY <1>1, <1>2, <2>1, AccountedStays
  <1>4. CallOK(c)'
    BY <1>0, <1>9, CallAssumption
       DEF CallOK, InFlight, Answered, PaidForAttempts, RowsTell, Routed, CallsTyped
  <1> QED BY <1>1, <1>2, <1>3, <1>4, OneCallMoves

(* Where a call that was answered goes: on, and told at most once.         *)
LEMMA ProceedMoves ==
    ASSUME CallsTyped, NEW c \in Calls, NEW recorded \in BOOLEAN, Proceed(c, recorded)
    PROVE  \/ /\ caller[c] = "node" /\ stage' = [stage EXCEPT ![c] = "announcing"]
              /\ told' = told
           \/ \E what \in {"422", "unrecorded", "stalled", "written", "not written"} : Tell(c, what)
           \/ recorded /\ Tell(c, "recorded")
  BY DEF Proceed, Respond, Conclude, WriteUp, Becomes

(* A node books all its attempts as its call leaves the runtime.           *)
LEMMA AccountKeeps ==
    ASSUME CallInv, NEW c \in Calls, Account(c) PROVE CallInv'
  <1>0. /\ CallOK(c) /\ CallsTyped /\ stage[c] = "generating"
        /\ Answered(c) /\ caller[c] # "router"
        /\ UNCHANGED <<generateVars, caller, asked, decided, rows>>
    BY DEF CallInv, Account, Over
  <1>9. \/ \E next \in {"reporting", "announcing"} :
               stage' = [stage EXCEPT ![c] = next] /\ told' = told
        \/ \E what \in {"422", "unrecorded", "stalled", "written", "not written"} : Tell(c, what)
    BY <1>0, ProceedMoves DEF Account, Becomes
  <1>8. stage'[c] # "generating"
    BY <1>0, <1>9 DEF Tell, Becomes, CallsTyped
  <1> USE DEF generateVars
  <1>1. Others(c)
    BY <1>0, <1>9, OneEntry DEF Others, CallsTyped, Tell, Becomes
  <1>2. CallsTyped'
    BY <1>0, <1>9 DEF CallsTyped, Tell, Becomes
  <1>3. BooksBalance'
    <2>1. c \notin Accounted
      BY <1>0 DEF Accounted
    <2>2. CASE caller[c] = "node"
      <3>1. Accounted' = Accounted \cup {c}
        BY <1>0, <1>1, <1>8, <2>2 DEF Accounted, Answered, Others
      <3>2. /\ booked'.tokens = booked.tokens + generated[c]
            /\ booked'.calls = booked.calls + Trips[c]
        BY <1>0, <2>2, TripsTyped DEF Account, Books, CallOK, PaidForAttempts
      <3>3. Accounted \in SUBSET Calls
        BY DEF Accounted
      <3>4. /\ SumOver(generated, Accounted \cup {c}) = SumOver(generated, Accounted) + generated[c]
            /\ SumOver(Trips, Accounted \cup {c}) = SumOver(Trips, Accounted) + Trips[c]
        <4>1. \A d \in Calls : generated[d] \in Int /\ Trips[d] \in Int
          BY <1>0, TripsTyped DEF CallsTyped
        <4> QED BY <2>1, <3>3, <4>1, OneMoreAccounted
      <3>5. generated' = generated /\ Trips' = Trips
        BY <1>0 DEF Trips
      <3> QED BY <3>1, <3>2, <3>4, <3>5 DEF BooksBalance, CallInv
    <2>3. CASE caller[c] # "node"
      <3>1. booked' = booked
        BY <2>3 DEF Account, Books
      <3>2. c \notin Accounted'
        BY <1>0, <2>3 DEF Accounted
      <3> QED BY <1>1, <1>2, <2>1, <3>1, <3>2, AccountedStays
    <2> QED BY <2>2, <2>3
  <1>4. CallOK(c)'
    BY <1>0, <1>9, CallAssumption
       DEF CallOK, InFlight, Answered, PaidForAttempts, RowsTell, Routed, CallsTyped, Tell, Becomes
  <1> QED BY <1>1, <1>2, <1>3, <1>4, OneCallMoves

(* A row is stored or lost; who is told so has one.                        *)
LEMMA ReportKeeps ==
    ASSUME CallInv, NEW c \in Calls, Report(c) PROVE CallInv'
  <1>0. /\ CallOK(c) /\ CallsTyped /\ stage[c] = "reporting"
        /\ UNCHANGED <<generateVars, caller, asked, decided, booked>>
    BY DEF CallInv, Report
  <1>9. \/ \E what \in {"422", "unrecorded", "stalled", "written", "not written"} : Tell(c, what)
        \/ stage' = [stage EXCEPT ![c] = "announcing"] /\ told' = told
        \/ Record(c, "report") /\ Tell(c, "recorded")
    BY <1>0, ProceedMoves DEF Report
  <1>8. Record(c, "report") \/ rows' = rows
    BY DEF Report
  <1> USE DEF generateVars
  <1>1. Others(c)
    BY <1>0, <1>8, <1>9, OneEntry DEF Others, CallsTyped, Tell, Becomes, Record
  <1>2. CallsTyped'
    BY <1>0, <1>8, <1>9 DEF CallsTyped, Tell, Becomes, Record
  <1>3. BooksBalance'
    <2>1. stage'[c] # "generating"
      BY <1>0, <1>9 DEF CallsTyped, Tell, Becomes
    <2> QED BY <1>0, <1>1, <2>1, AccountedSettled
  <1>4. CallOK(c)'
    <2>1. InFlight(c)' /\ PaidForAttempts(c)'
      BY <1>0, <1>9, CallAssumption
         DEF CallOK, InFlight, Answered, PaidForAttempts, CallsTyped, Tell, Becomes
    <2>2. RowsTell(c)'
      <3>1. rows'[c] \in {{}, {Row(c, "report")}}
        BY <1>0, <1>8 DEF CallOK, InFlight, Answered, CallsTyped, Record
      <3>2. /\ Row(c, "report").tokens = generated[c]
            /\ Row(c, "report").valid_json = (phase[c] = "valid")
            /\ Row(c, "report").by = "report"
        BY <1>0 DEF Row, CallOK, PaidForAttempts
      <3>3. told'[c] = "recorded" => rows'[c] = {Row(c, "report")}
        BY <1>0, <1>9, CallAssumption DEF CallOK, InFlight, Answered, CallsTyped, Tell, Record
      <3> QED BY <1>0, <3>1, <3>2, <3>3 DEF RowsTell
    <2>3. Routed(c)'
      <3>1. told'[c] # "route" /\ stage'[c] # "generating"
        BY <1>0, <1>9, CallAssumption DEF CallOK, InFlight, Answered, CallsTyped, Tell, Becomes
      <3> QED BY <3>1 DEF Routed
    <2> QED BY <2>1, <2>2, <2>3 DEF CallOK
  <1> QED BY <1>1, <1>2, <1>3, <1>4, OneCallMoves

(* The step event's row is the report's, if there is one.                  *)
LEMMA StepEventKeeps ==
    ASSUME CallInv, NEW c \in Calls, StepEvent(c) PROVE CallInv'
  <1>0. /\ CallOK(c) /\ CallsTyped /\ stage[c] = "announcing"
        /\ UNCHANGED <<generateVars, caller, asked, decided, booked>>
        /\ Record(c, "event") \/ rows' = rows
        /\ Tell(c, "returned")
    BY DEF CallInv, StepEvent
  <1> USE DEF generateVars
  <1>9. stage'[c] = "done" /\ told'[c] = "returned"
    BY <1>0 DEF Tell, Becomes, CallsTyped
  <1>1. Others(c)
    BY <1>0, OneEntry DEF Others, CallsTyped, Tell, Becomes, Record
  <1>2. CallsTyped'
    BY <1>0 DEF CallsTyped, Tell, Becomes, Record
  <1>3. BooksBalance'
    BY <1>0, <1>1, <1>9, AccountedSettled
  <1>4. CallOK(c)'
    <2>1. InFlight(c)' /\ PaidForAttempts(c)' /\ Routed(c)'
      BY <1>0, <1>9 DEF CallOK, InFlight, Answered, PaidForAttempts, Routed
    <2>2. RowsTell(c)'
      <3>1. rows'[c] \subseteq rows[c] \cup {Row(c, "event")}
        BY <1>0 DEF CallsTyped, Record
      <3>2. /\ Row(c, "event").tokens = generated[c]
            /\ Row(c, "event").valid_json = (phase[c] = "valid")
        BY <1>0 DEF Row, CallOK, PaidForAttempts
      <3> QED BY <1>0, <1>9, <3>1, <3>2 DEF RowsTell, CallOK
    <2> QED BY <2>1, <2>2 DEF CallOK
  <1> QED BY <1>1, <1>2, <1>3, <1>4, OneCallMoves

(* The router settles on the table's entry of an intent.                   *)
LEMMA RouterSettlesKeeps ==
    ASSUME CallInv, NEW c \in Calls, RouterSettles(c) PROVE CallInv'
  <1>0. /\ CallOK(c) /\ CallsTyped /\ stage[c] = "generating" /\ caller[c] = "router"
        /\ UNCHANGED <<generateVars, caller, asked, booked, rows>>
        /\ Tell(c, "route")
        /\ decided' = [decided EXCEPT ![c] =
               IF phase[c] = "valid" THEN Settle(decided[c], asked[c].hint)
               ELSE RuleRoute(asked[c].question, asked[c].hint)]
    BY DEF CallInv, RouterSettles, Over, CallsTyped
  <1> USE DEF generateVars
  <1>9. /\ stage'[c] = "done" /\ told'[c] = "route"
        /\ decided'[c] = IF phase[c] = "valid" THEN Settle(decided[c], asked[c].hint)
                         ELSE RuleRoute(asked[c].question, asked[c].hint)
    BY <1>0 DEF Tell, Becomes, CallsTyped
  <1>1. Others(c)
    BY <1>0, OneEntry DEF Others, CallsTyped, Tell, Becomes
  <1>2. CallsTyped'
    BY <1>0 DEF CallsTyped, Tell, Becomes
  <1>3. BooksBalance'
    <2>1. c \notin Accounted /\ c \notin Accounted'
      BY <1>0 DEF Accounted
    <2> QED BY <1>0, <1>1, <1>2, <2>1, AccountedStays
  <1>4. CallOK(c)'
    <2>1. InFlight(c)' /\ PaidForAttempts(c)' /\ RowsTell(c)'
      BY <1>0, <1>9 DEF CallOK, InFlight, Answered, PaidForAttempts, RowsTell
    <2>2. Routed(c)'
      <3>1. \E intent \in Intents : \E s : decided'[c] = Decide(intent, s)
        <4>1. CASE phase[c] = "valid"
          <5>1. decided[c].intent \in Intents
            BY <1>0, <4>1 DEF CallOK, Routed
          <5> QED BY <1>9, <4>1, <5>1 DEF Settle
        <4>2. CASE phase[c] # "valid"
          <5>1. Classify(asked[c].question) \in Intents
            BY <1>0, EveryQuestionHasAnIntent DEF CallOK, Routed
          <5> QED BY <1>9, <4>2, <5>1 DEF RuleRoute
        <4> QED BY <4>1, <4>2
      <3> QED BY <1>0, <1>9, <3>1 DEF Routed
    <2> QED BY <2>1, <2>2 DEF CallOK
  <1> QED BY <1>1, <1>2, <1>3, <1>4, OneCallMoves

(* No step of a caller, and no step that is none, breaks it.               *)
LEMMA CallNextInv == CallInv /\ [CallNext]_vars => CallInv'
  <1> SUFFICES ASSUME CallInv, [CallNext]_vars PROVE CallInv'
    OBVIOUS
  <1>1. ASSUME NEW c \in Calls, AskEndpoint(c) \/ AskNode(c) \/ AskWriter(c) \/ AskRouter(c)
        PROVE  CallInv'
    <2>1. CASE AskEndpoint(c)
      BY <2>1, OpensKeeps DEF AskEndpoint
    <2>2. CASE AskNode(c)
      BY <2>2, OpensKeeps DEF AskNode
    <2>3. CASE AskWriter(c)
      BY <2>3, OpensKeeps DEF AskWriter
    <2>4. CASE AskRouter(c)
      BY <2>4, OpensKeeps DEF AskRouter
    <2> QED BY <1>1, <2>1, <2>2, <2>3, <2>4
  <1>2. CASE UNCHANGED vars
    BY <1>2 DEF vars, callVars, generateVars, CallInv, CallsTyped, BooksBalance, Accounted,
                Answered, Trips, CallOK, InFlight, PaidForAttempts, RowsTell, Routed
  <1> QED BY <1>1, <1>2, RefuseRequestKeeps, RouteByTableKeeps, AnswerKeeps, NoAnswerKeeps,
             InterruptedKeeps, AccountKeeps, ReportKeeps, StepEventKeeps, RouterSettlesKeeps
          DEF CallNext

(* CallInv holds of every call of a run.                                   *)
THEOREM CallInvariance == CallSpec => []CallInv
  BY CallInitInv, CallNextInv, PTL DEF CallSpec

(* Of any number of calls, those that came to an end of their own are      *)
(* booked with every attempt, and nothing else is but what was paid; a     *)
(* row tells all its call cost and whether it was valid, and who is told   *)
(* of one has one.  What a call cost before the runtime broke it off may   *)
(* be missing (record_llm, PredictionReporter).                            *)
THEOREM CostsAreAccounted == CallSpec => []CostsAddUp
  <1>1. CallInv => CostsAddUp
    <2> SUFFICES ASSUME CallInv PROVE CostsAddUp
      OBVIOUS
    <2> DEFINE Left == {c \in Calls : caller[c] = "node"
                                      /\ stage[c] \notin {"idle", "generating"}}
               Ended == {c \in Left : told[c] # "raised"}
    <2>1. Ended \in SUBSET Accounted /\ Accounted \in SUBSET Left
      <3>1. ASSUME NEW c \in Ended PROVE c \in Accounted
        BY DEF CallInv, CallOK, InFlight, Accounted
      <3>2. ASSUME NEW c \in Accounted PROVE c \in Left
        <4>1. c \in Calls /\ caller[c] = "node" /\ Answered(c) /\ stage[c] # "generating"
          BY DEF Accounted
        <4>2. stage[c] # "idle"
          BY <4>1 DEF CallInv, CallOK, InFlight, Answered
        <4> QED BY <4>1, <4>2
      <3> QED BY <3>1, <3>2
    <2>2. IsFiniteSet(Accounted) /\ IsFiniteSet(Left)
      BY GenerateAssumption, FS_Subset DEF Accounted
    <2>3. \A c \in Calls : generated[c] \in Nat /\ Trips[c] \in Nat
      BY TripsTyped DEF CallInv, CallsTyped
    <2>4. Accounted \subseteq Calls /\ Left \subseteq Calls
      BY DEF Accounted
    <2> HIDE DEF Left, Ended
    <2>5. /\ SumOver(generated, Ended) <= booked.tokens
          /\ booked.tokens <= SumOver(generated, Left)
      BY <2>1, <2>2, <2>3, <2>4, MoreSumsToMore DEF CallInv, BooksBalance
    <2>6. /\ SumOver(Trips, Ended) <= booked.calls
          /\ booked.calls <= SumOver(Trips, Left)
      BY <2>1, <2>2, <2>3, <2>4, MoreSumsToMore DEF CallInv, BooksBalance
    <2>7. \A c \in Calls : RowsTell(c)
      BY DEF CallInv, CallOK
    <2> DEFINE Sum(cost, calls) == FoldFunctionOnSet(+, 0, cost, calls)
    <2>8. /\ Sum(generated, Ended) <= booked.tokens
          /\ booked.tokens <= Sum(generated, Left)
      BY <2>5, FoldIsSum
    <2>9. Sum(Trips, Ended) <= booked.calls /\ booked.calls <= Sum(Trips, Left)
      BY <2>6, FoldIsSum
    <2>10. /\ \A c \in Calls : \A row \in rows[c] :
                  row.tokens = generated[c] /\ row.valid_json = (phase[c] = "valid")
           /\ \A c \in Calls : told[c] = "recorded" => \E row \in rows[c] : row.by = "report"
      BY <2>7 DEF RowsTell
    <2> HIDE DEF Sum
    <2> USE DEF Left, Ended, Sum
    <2> QED BY <2>8, <2>9, <2>10 DEF CostsAddUp
  <1> QED BY <1>1, CallInvariance, PTL

(* A routed question's decision is an entry of the table, coherent with    *)
(* the collectors it plans, and without a usable answer the keyword        *)
(* table's own (ModelRouter.route, _fall_back, decide).                    *)
THEOREM DecisionsAreTheTables == CallSpec => []DecisionIsTheTables
  <1>1. CallInv => DecisionIsTheTables
    <2> SUFFICES ASSUME CallInv, NEW c \in Calls, told[c] = "route"
                 PROVE  LET d == decided[c]
                            collectors == ToSet(INTENT_COLLECTORS[d.intent])
                        IN  /\ \A s \in collectors : Needs(d, s)
                            /\ d.servers \subseteq {ServerOf[s] : s \in collectors}
                            /\ phase[c] # "valid" =>
                                   d = RuleRoute(asked[c].question, asked[c].hint)
      BY DEF DecisionIsTheTables
    <2>1. Routed(c)
      BY DEF CallInv, CallOK
    <2>2. PICK intent \in Intents : \E service : decided[c] = Decide(intent, service)
      BY <2>1 DEF Routed
    <2>3. phase[c] # "valid" => decided[c] = RuleRoute(asked[c].question, asked[c].hint)
      BY <2>1 DEF Routed
    <2> QED BY <2>2, <2>3, TableIsCoherent
  <1> QED BY <1>1, CallInvariance, PTL

(* What a routed question is planned is what the table lists for its intent: *)
(* no collector is left out for a flag that contradicts the table, whoever   *)
(* recognised the intent (ModelRouter._parse, ExecutionPlanner.plan).        *)
THEOREM PlansServeTheQuestion == CallSpec => []PlanServesTheQuestion
  <1>1. CallInv /\ DecisionIsTheTables => PlanServesTheQuestion
    <2> SUFFICES ASSUME CallInv, DecisionIsTheTables, NEW c \in Calls, told[c] = "route"
                 PROVE  PlanFor(decided[c]) = INTENT_COLLECTORS[decided[c].intent]
      BY DEF PlanServesTheQuestion
    <2>1. Routed(c)
      BY DEF CallInv, CallOK
    <2>2. decided[c].intent \in Intents
      <3>1. PICK intent \in Intents : \E service : decided[c] = Decide(intent, service)
        BY <2>1 DEF Routed
      <3>2. decided[c].intent = intent
        BY <3>1 DEF Decide
      <3> QED BY <3>2
    <2>3. \A s \in ToSet(INTENT_COLLECTORS[decided[c].intent]) : Needs(decided[c], s)
      BY DEF DecisionIsTheTables
    <2> QED BY <2>2, <2>3, CollectorsAreListed, NothingIsLeftOut
  <1> QED BY <1>1, CallInvariance, DecisionsAreTheTables, PTL
=============================================================================
