------------------------ MODULE EventDeliveryProofs ------------------------
(***************************************************************************)
(* Proofs about the emitter and the delivery it drives.                    *)
(*                                                                         *)
(* CallbackEmitter, for every number of events and attempts and every size *)
(* of the buffer.  Types are not inductive by themselves: an attempt is    *)
(* counted down, so one must be left (AttemptsLeft); and an event joins    *)
(* the buffer behind the events held only because they are older than the  *)
(* one in flight (HeldAreOlder), and pushes out an event other than itself *)
(* only because the full buffer is not empty.                              *)
(*                                                                         *)
(* EventDelivery, for every set of hypotheses and actions and every number *)
(* of late requests: which event comes when is left to the emitter, so the *)
(* invariant must hold whatever is lost, repeated or handled out of order. *)
(*                                                                         *)
(* What the rows hold at the end is not inductive: it rests on what the    *)
(* rows can hold before (OpenRows: nothing is selected, and a conclusion   *)
(* or a recommendation is there only if the run reached one), and on every *)
(* number on its way being one of the script's events (OnTheWay).          *)
(***************************************************************************)
EXTENDS EventDelivery, TLAPS, SequenceTheorems, FiniteSetTheorems

-----------------------------------------------------------------------------
(* The emitter. *)

Ascending(s) == \A i, j \in 1 .. Len(s) : i < j => s[i] < s[j]

\* Every element of s lies above, respectively below, n.
Above(s, n) == \A i \in 1 .. Len(s) : n < s[i]
Below(s, n) == \A i \in 1 .. Len(s) : s[i] < n

AttemptsLeft == stage \in {"flush", "deliver"} => attempts >= 1 /\ sequence >= 1

HeldAreOlder == stage \in {"flush", "deliver"} => Below(pending, sequence)

EvictedAreOldest == \A e \in evicted : e < sequence /\ Above(pending, e)

Held == Ascending(pending) /\ Len(pending) <= DEFAULT_BUFFER_LIMIT

EInv ==
    /\ EmitterTypeOK
    /\ AttemptsLeft
    /\ Held
    /\ HeldAreOlder
    /\ EvictedAreOldest

-----------------------------------------------------------------------------
(* What dropping the head of a buffer and appending to it does.            *)

\* A sequence of numbers up to n is one of numbers up to n + 1.
LEMMA Widen ==
    ASSUME NEW n \in Nat, NEW s \in Seq(1 .. n)
    PROVE  s \in Seq(1 .. (n + 1))
<1>1. s \in [1 .. Len(s) -> 1 .. (n + 1)]
  OBVIOUS
<1> QED BY <1>1

\* Without its head, a buffer stays in order and its bounds stay bounds.
LEMMA TailOfHeld ==
    ASSUME NEW n \in Nat, NEW s \in Seq(1 .. n), s # << >>, Ascending(s)
    PROVE  /\ Head(s) \in 1 .. n
           /\ Tail(s) \in Seq(1 .. n)
           /\ Len(Tail(s)) = Len(s) - 1
           /\ Ascending(Tail(s))
           /\ \A m \in Nat : Above(s, m) => Above(Tail(s), m)
           /\ \A m \in Nat : Below(s, m) => Below(Tail(s), m) /\ Head(s) < m
           /\ Above(Tail(s), Head(s))
<1>1. /\ Head(s) = s[1]
      /\ Len(s) \in Nat \ {0}
      /\ Tail(s) \in Seq(1 .. n)
      /\ Len(Tail(s)) = Len(s) - 1
      /\ \A i \in 1 .. Len(Tail(s)) : Tail(s)[i] = s[i + 1]
  OBVIOUS
<1>2. \A i \in 1 .. Len(Tail(s)) : i + 1 \in 1 .. Len(s)
  BY <1>1
<1>3. s[1] \in 1 .. n
  BY <1>1
<1>4. Ascending(Tail(s))
  BY <1>1, <1>2 DEF Ascending
<1>5. \A m \in Nat : Above(s, m) => Above(Tail(s), m)
  BY <1>1, <1>2 DEF Above
<1>6. \A m \in Nat : Below(s, m) => Below(Tail(s), m) /\ Head(s) < m
  BY <1>1, <1>2 DEF Below
<1>7. Above(Tail(s), Head(s))
  BY <1>1, <1>2 DEF Above, Ascending
<1> QED BY <1>1, <1>3, <1>4, <1>5, <1>6, <1>7

\* An event newer than all that is held can join the buffer.
LEMMA AppendToHeld ==
    ASSUME NEW n \in Nat \ {0}, NEW s \in Seq(1 .. n), Ascending(s), Below(s, n)
    PROVE  /\ Append(s, n) \in Seq(1 .. n)
           /\ Len(Append(s, n)) = Len(s) + 1
           /\ Ascending(Append(s, n))
           /\ \A m \in Nat : Above(s, m) /\ m < n => Above(Append(s, n), m)
<1>1. /\ Append(s, n) \in Seq(1 .. n)
      /\ Len(s) \in Nat
      /\ Len(Append(s, n)) = Len(s) + 1
      /\ \A i \in 1 .. Len(s) : Append(s, n)[i] = s[i]
      /\ Append(s, n)[Len(s) + 1] = n
  OBVIOUS
<1>2. \A i \in 1 .. Len(Append(s, n)) : i \in 1 .. Len(s) \/ i = Len(s) + 1
  BY <1>1
<1>3. Ascending(Append(s, n))
  BY <1>1, <1>2 DEF Ascending, Below
<1>4. \A m \in Nat : Above(s, m) /\ m < n => Above(Append(s, n), m)
  BY <1>1, <1>2 DEF Above
<1> QED BY <1>1, <1>3, <1>4

-----------------------------------------------------------------------------
(* The inductive invariant, action by action.                              *)

\* The emitter starts with nothing emitted and nothing held.
LEMMA InitEstablishes == EmitterInit => EInv
<1> SUFFICES ASSUME EmitterInit PROVE EInv
  OBVIOUS
<1>1. EmitterTypeOK
  <2>1. pending \in Seq(1 .. sequence)
    BY DEF EmitterInit
  <2>2. /\ sequence \in 0 .. MaxEvents
        /\ attempts \in 0 .. (DEFAULT_MAX_ATTEMPTS + TERMINAL_MAX_ATTEMPTS)
    BY EmitterAssumption DEF EmitterInit
  <2> QED BY <2>1, <2>2 DEF EmitterInit, EmitterTypeOK, Stages, Answers
<1>2. Held /\ HeldAreOlder /\ EvictedAreOldest /\ AttemptsLeft
  BY EmitterAssumption
     DEF EmitterInit, Held, Ascending, HeldAreOlder, EvictedAreOldest, AttemptsLeft
<1> QED BY <1>1, <1>2 DEF EInv

\* What is held when an event is emitted is older than it.
LEMMA EmitPreserves ==
    ASSUME EInv, NEW is_terminal \in BOOLEAN, Emit(is_terminal)
    PROVE  EInv'
<1> USE EmitterAssumption DEF EInv, EmitterTypeOK, Emit, Stages, Answers
<1>1. sequence \in Nat /\ sequence' = sequence + 1 /\ sequence' \in 0 .. MaxEvents
  OBVIOUS
<1>2. pending' \in Seq(1 .. sequence')
  BY <1>1, Widen
<1>3. /\ acknowledged' \subseteq 1 .. sequence'
      /\ refused' \subseteq 1 .. sequence'
      /\ evicted' \subseteq 1 .. sequence'
  BY <1>1
<1>4. attempts' \in 1 .. (DEFAULT_MAX_ATTEMPTS + TERMINAL_MAX_ATTEMPTS)
  OBVIOUS
<1>5. EmitterTypeOK'
  BY <1>1, <1>2, <1>3, <1>4
<1>6. Held' /\ AttemptsLeft'
  BY <1>1, <1>4 DEF Held, AttemptsLeft, Ascending
<1>7. HeldAreOlder'
  <2>1. \A i \in 1 .. Len(pending) : pending[i] \in 1 .. sequence
    OBVIOUS
  <2> QED BY <1>1, <2>1 DEF HeldAreOlder, Below
<1>8. EvictedAreOldest'
  BY <1>1 DEF EvictedAreOldest, Above
<1> QED BY <1>5, <1>6, <1>7, <1>8

\* Between two POSTs only the stage changes.
LEMMA FlushedPreserves ==
    ASSUME EInv, Flushed
    PROVE  EInv'
<1>1. EmitterTypeOK'
  BY DEF EInv, EmitterTypeOK, Flushed, AfterFlush, Stages, Answers
<1>2. Held' /\ EvictedAreOldest'
  BY DEF EInv, Flushed, Held, EvictedAreOldest, Ascending, Above
<1>3. AttemptsLeft' /\ HeldAreOlder'
  BY DEF EInv, Flushed, AfterFlush, AttemptsLeft, HeldAreOlder, Below
<1> QED BY <1>1, <1>2, <1>3 DEF EInv

\* A retried event leaves from the front, or the flush stops.
LEMMA RetryPreserves ==
    ASSUME EInv, NEW outcome \in Answers, Retry(outcome)
    PROVE  EInv'
<1>1. CASE pending' = Tail(pending) /\ UNCHANGED stage /\ Settle(Head(pending), outcome)
  <2>1. /\ sequence \in Nat
        /\ pending \in Seq(1 .. sequence)
        /\ pending # << >>
        /\ Ascending(pending)
    BY EmitterAssumption DEF EInv, EmitterTypeOK, Retry, Held
  <2>2. /\ Head(pending) \in 1 .. sequence
        /\ Tail(pending) \in Seq(1 .. sequence)
        /\ Len(Tail(pending)) = Len(pending) - 1
        /\ Ascending(Tail(pending))
        /\ \A m \in Nat : Above(pending, m) => Above(Tail(pending), m)
        /\ \A m \in Nat : Below(pending, m) => Below(Tail(pending), m)
    BY <2>1, TailOfHeld
  <2>3. EmitterTypeOK'
    BY <1>1, <2>2 DEF EInv, EmitterTypeOK, Retry, Settle, Answers
  <2>4. Held'
    <3>1. Len(pending) \in Nat
      BY <2>1
    <3> QED BY <1>1, <2>2, <3>1, EmitterAssumption DEF EInv, Held, Ascending
  <2>5. HeldAreOlder' /\ AttemptsLeft'
    BY <1>1, <2>1, <2>2 DEF EInv, Retry, HeldAreOlder, AttemptsLeft, Below
  <2>6. EvictedAreOldest'
    <3>1. \A e \in evicted : e \in Nat
      BY <2>1 DEF EInv, EmitterTypeOK
    <3> QED BY <1>1, <2>2, <3>1 DEF EInv, Retry, EvictedAreOldest, Above
  <2> QED BY <2>3, <2>4, <2>5, <2>6 DEF EInv
<1>2. CASE outcome = "transient" /\ answer' = outcome /\ stage' = AfterFlush
           /\ UNCHANGED <<pending, acknowledged, refused>>
  <2>1. EmitterTypeOK'
    BY <1>2 DEF EInv, EmitterTypeOK, Retry, AfterFlush, Stages, Answers
  <2>2. Held' /\ EvictedAreOldest'
    BY <1>2 DEF EInv, Retry, Held, EvictedAreOldest, Ascending, Above
  <2>3. AttemptsLeft' /\ HeldAreOlder'
    BY <1>2 DEF EInv, Retry, AfterFlush, AttemptsLeft, HeldAreOlder, Below
  <2> QED BY <2>1, <2>2, <2>3 DEF EInv
<1> QED BY <1>1, <1>2 DEF Retry

\* A delivery settles its event, counts an attempt, or buffers the event.
LEMMA DeliverPreserves ==
    ASSUME EInv, NEW outcome \in Answers, Deliver(outcome)
    PROVE  EInv'
<1>1. /\ stage = "deliver"
      /\ attempts \in 1 .. (DEFAULT_MAX_ATTEMPTS + TERMINAL_MAX_ATTEMPTS)
      /\ attempts' = attempts - 1
      /\ UNCHANGED <<sequence, terminal>>
      /\ sequence \in 1 .. MaxEvents
  BY EmitterAssumption DEF EInv, EmitterTypeOK, AttemptsLeft, Deliver
<1>2. /\ attempts' \in 0 .. (DEFAULT_MAX_ATTEMPTS + TERMINAL_MAX_ATTEMPTS)
      /\ attempts > 1 => attempts' >= 1
  BY <1>1, EmitterAssumption
<1>3. /\ sequence \in Nat \ {0}
      /\ pending \in Seq(1 .. sequence)
      /\ Len(pending) \in Nat
      /\ Ascending(pending)
      /\ Below(pending, sequence)
      /\ Len(pending) <= DEFAULT_BUFFER_LIMIT
      /\ \A e \in evicted : e \in Nat /\ e < sequence /\ Above(pending, e)
  BY <1>1, EmitterAssumption
     DEF EInv, EmitterTypeOK, Held, HeldAreOlder, EvictedAreOldest
<1>4. CASE /\ stage' = AfterDelivery
           /\ Settle(sequence, outcome)
           /\ UNCHANGED <<pending, evicted>>
  <2>1. EmitterTypeOK'
    <3>1. acknowledged' \subseteq 1 .. sequence /\ refused' \subseteq 1 .. sequence
      <4>1. acknowledged \subseteq 1 .. sequence /\ refused \subseteq 1 .. sequence
        BY DEF EInv, EmitterTypeOK
      <4>2. {sequence} \subseteq 1 .. sequence
        BY <1>3
      <4>3. /\ acknowledged' \subseteq acknowledged \cup {sequence}
            /\ refused' \subseteq refused \cup {sequence}
        BY <1>4 DEF Settle
      <4> QED BY <4>1, <4>2, <4>3
    <3>2. answer' \in Answers /\ stage' \in Stages
      BY <1>4 DEF Settle, AfterDelivery, Stages
    <3> QED BY <1>1, <1>2, <1>4, <3>1, <3>2 DEF EInv, EmitterTypeOK
  <2>2. Held' /\ EvictedAreOldest'
    BY <1>1, <1>4 DEF EInv, Held, EvictedAreOldest, Ascending, Above
  <2>3. AttemptsLeft' /\ HeldAreOlder'
    BY <1>4 DEF AfterDelivery, AttemptsLeft, HeldAreOlder
  <2> QED BY <2>1, <2>2, <2>3 DEF EInv
<1>5. CASE /\ attempts > 1
           /\ answer' = "transient"
           /\ UNCHANGED <<stage, pending, evicted, acknowledged, refused>>
  <2>1. EmitterTypeOK'
    BY <1>1, <1>2, <1>5 DEF EInv, EmitterTypeOK, Answers
  <2>2. Held' /\ EvictedAreOldest'
    BY <1>1, <1>5 DEF EInv, Held, EvictedAreOldest, Ascending, Above
  <2>3. AttemptsLeft' /\ HeldAreOlder'
    BY <1>1, <1>2, <1>5 DEF EInv, AttemptsLeft, HeldAreOlder, Below
  <2> QED BY <2>1, <2>2, <2>3 DEF EInv
<1>6. CASE /\ answer' = "transient"
           /\ Buffer(sequence)
           /\ stage' = AfterDelivery
           /\ UNCHANGED <<acknowledged, refused>>
  <2>1. /\ pending' \in Seq(1 .. sequence)
        /\ Ascending(pending')
        /\ Len(pending') <= DEFAULT_BUFFER_LIMIT
        /\ evicted' \subseteq 1 .. sequence
        /\ \A e \in evicted' : e < sequence /\ Above(pending', e)
    <3>1. CASE Len(pending) < DEFAULT_BUFFER_LIMIT
      <4>1. pending' = Append(pending, sequence) /\ evicted' = evicted
        BY <1>6, <3>1 DEF Buffer
      <4>2. /\ Append(pending, sequence) \in Seq(1 .. sequence)
            /\ Len(Append(pending, sequence)) = Len(pending) + 1
            /\ Ascending(Append(pending, sequence))
            /\ \A m \in Nat : Above(pending, m) /\ m < sequence
                  => Above(Append(pending, sequence), m)
        BY <1>3, AppendToHeld
      <4>3. evicted \subseteq 1 .. sequence
        BY DEF EInv, EmitterTypeOK
      <4>4. Len(pending) + 1 <= DEFAULT_BUFFER_LIMIT
        BY <1>3, <3>1, EmitterAssumption
      <4> QED BY <1>3, <4>1, <4>2, <4>3, <4>4
    <3>2. CASE ~ (Len(pending) < DEFAULT_BUFFER_LIMIT)
      <4> DEFINE rest == Tail(pending)
      <4>1. /\ pending' = Append(rest, sequence)
            /\ evicted' = evicted \cup {Head(pending)}
        BY <1>6, <3>2 DEF Buffer
      <4>2. pending # << >> /\ Len(pending) = DEFAULT_BUFFER_LIMIT
        BY <1>3, <3>2, EmitterAssumption
      <4>3. /\ Head(pending) \in 1 .. sequence
            /\ rest \in Seq(1 .. sequence)
            /\ Len(rest) = Len(pending) - 1
            /\ Ascending(rest)
            /\ \A m \in Nat : Above(pending, m) => Above(rest, m)
            /\ Below(rest, sequence)
            /\ Head(pending) < sequence
            /\ Above(rest, Head(pending))
        BY <1>3, <4>2, TailOfHeld
      <4> HIDE DEF rest
      <4>4. /\ Append(rest, sequence) \in Seq(1 .. sequence)
            /\ Len(Append(rest, sequence)) = Len(rest) + 1
            /\ Ascending(Append(rest, sequence))
            /\ \A m \in Nat : Above(rest, m) /\ m < sequence
                  => Above(Append(rest, sequence), m)
        BY <1>3, <4>3, AppendToHeld
      <4>5. evicted' \subseteq 1 .. sequence
        BY <4>1, <4>3 DEF EInv, EmitterTypeOK
      <4>6. Len(Append(rest, sequence)) <= DEFAULT_BUFFER_LIMIT
        BY <1>3, <4>2, <4>3, <4>4
      <4>7. ASSUME NEW e \in evicted'
            PROVE  e < sequence /\ Above(Append(rest, sequence), e)
        <5>1. CASE e \in evicted
          BY <1>3, <4>3, <4>4, <5>1
        <5>2. CASE e = Head(pending)
          <6>1. e \in Nat
            BY <4>3, <5>2
          <6> QED BY <4>3, <4>4, <5>2, <6>1
        <5> QED BY <4>1, <5>1, <5>2
      <4> QED BY <4>1, <4>4, <4>5, <4>6, <4>7
    <3> QED BY <3>1, <3>2
  <2>2. EmitterTypeOK'
    BY <1>1, <1>2, <1>6, <2>1
       DEF EInv, EmitterTypeOK, AfterDelivery, Stages, Answers
  <2>3. Held' /\ EvictedAreOldest'
    BY <1>1, <2>1 DEF Held, EvictedAreOldest, Ascending, Above
  <2>4. AttemptsLeft' /\ HeldAreOlder'
    BY <1>6 DEF AfterDelivery, AttemptsLeft, HeldAreOlder
  <2> QED BY <2>2, <2>3, <2>4 DEF EInv
<1> QED BY <1>4, <1>5, <1>6 DEF Deliver

\* The invariant of the emitter holds throughout every run.
THEOREM EmitterInvariance == EmitterSpec => []EInv
<1>1. ASSUME EInv, [EmitterNext]_emitter_vars
      PROVE  EInv'
  <2>1. CASE Flushed
    BY <1>1, <2>1, FlushedPreserves
  <2>2. ASSUME NEW outcome \in Answers, Post(outcome)
        PROVE  EInv'
    BY <1>1, <2>2, RetryPreserves, DeliverPreserves DEF Post
  <2>3. ASSUME NEW is_terminal \in BOOLEAN, Emit(is_terminal)
        PROVE  EInv'
    BY <1>1, <2>3, EmitPreserves
  <2>4. CASE UNCHANGED emitter_vars
    BY <1>1, <2>4
       DEF emitter_vars, EInv, EmitterTypeOK, AttemptsLeft, Held, HeldAreOlder,
           EvictedAreOldest, Ascending, Above, Below
  <2> QED BY <1>1, <2>1, <2>2, <2>3, <2>4 DEF EmitterNext, EmitterStep
<1> QED BY <1>1, InitEstablishes, PTL DEF EmitterSpec

-----------------------------------------------------------------------------
\* Types and counters: no more attempts are made than an event is given, and
\* only events that were emitted are held, settled or given up.
THEOREM EmitterTypeCorrect == EmitterSpec => []EmitterTypeOK
<1>1. EInv => EmitterTypeOK
  BY DEF EInv
<1> QED BY <1>1, EmitterInvariance, PTL

\* The full buffer gives up its oldest events and never the terminal one
\* (CallbackEmitter._buffer).
THEOREM NewestAreKept == EmitterSpec => []BufferKeepsNewest
<1>1. ASSUME EInv PROVE BufferKeepsNewest
  <2>1. /\ sequence \in Nat
        /\ pending \in Seq(1 .. sequence)
        /\ DOMAIN pending = 1 .. Len(pending)
    BY <1>1, EmitterAssumption DEF EInv, EmitterTypeOK
  <2>2. \A i, j \in DOMAIN pending : i < j => pending[i] < pending[j]
    BY <1>1, <2>1 DEF EInv, Held, Ascending
  <2>3. Len(pending) <= DEFAULT_BUFFER_LIMIT
    BY <1>1 DEF EInv, Held
  <2>4. \A e \in evicted, p \in Range(pending) : e < p
    BY <1>1, <2>1 DEF EInv, EvictedAreOldest, Above, Range
  <2>5. sequence \notin evicted
    BY <1>1, <2>1 DEF EInv, EvictedAreOldest
  <2> QED BY <2>2, <2>3, <2>4, <2>5 DEF BufferKeepsNewest
<1> QED BY <1>1, EmitterInvariance, PTL

\* After a run, events are left behind only by a final flush the backend did
\* not answer (the last lines of CallbackEmitter.__call__).
THEOREM NothingLeftUnanswered == EmitterSpec => []LeftBehindOnlyUnanswered
<1>1. EmitterInit => LeftBehindOnlyUnanswered
  BY DEF EmitterInit, LeftBehindOnlyUnanswered
<1>2. ASSUME LeftBehindOnlyUnanswered, [EmitterNext]_emitter_vars
      PROVE  LeftBehindOnlyUnanswered'
  <2>1. CASE Flushed
    BY <2>1 DEF Flushed, AfterFlush, LeftBehindOnlyUnanswered
  <2>2. ASSUME NEW outcome \in Answers, Retry(outcome)
        PROVE  LeftBehindOnlyUnanswered'
    BY <2>2 DEF Retry, LeftBehindOnlyUnanswered
  <2>3. ASSUME NEW outcome \in Answers, Deliver(outcome)
        PROVE  LeftBehindOnlyUnanswered'
    BY <2>3 DEF Deliver, AfterDelivery, LeftBehindOnlyUnanswered
  <2>4. ASSUME NEW is_terminal \in BOOLEAN, Emit(is_terminal)
        PROVE  LeftBehindOnlyUnanswered'
    BY <2>4 DEF Emit, LeftBehindOnlyUnanswered
  <2>5. CASE UNCHANGED emitter_vars
    BY <1>2, <2>5 DEF emitter_vars, LeftBehindOnlyUnanswered
  <2> QED BY <1>2, <2>1, <2>2, <2>3, <2>4, <2>5 DEF EmitterNext, EmitterStep, Post
<1> QED BY <1>1, <1>2, PTL DEF EmitterSpec

-----------------------------------------------------------------------------
(* Where every event is.                                                   *)

\* The five places of an event, split over no more and no less than all: e is in
\* exactly one of them.
Partition(a, r, v, h, f, all) ==
    /\ a \cup r \cup v \cup h \cup f = all
    /\ a \cap r = {} /\ a \cap v = {} /\ a \cap h = {} /\ a \cap f = {}
    /\ r \cap v = {} /\ r \cap h = {} /\ r \cap f = {}
    /\ v \cap h = {} /\ v \cap f = {}
    /\ h \cap f = {}

Accounted ==
    Partition(acknowledged, refused, evicted, Range(pending), InFlight, 1 .. sequence)

\* Without its head, an ordered buffer holds everything else and no longer the head.
LEMMA RangeOfTail ==
    ASSUME NEW n \in Nat, NEW s \in Seq(1 .. n), s # << >>, Ascending(s)
    PROVE  /\ Range(s) = {Head(s)} \cup Range(Tail(s))
           /\ Head(s) \notin Range(Tail(s))
<1>1. /\ Head(s) = s[1]
      /\ Len(s) \in Nat \ {0}
      /\ DOMAIN s = 1 .. Len(s)
      /\ DOMAIN Tail(s) = 1 .. (Len(s) - 1)
      /\ \A i \in 1 .. (Len(s) - 1) : Tail(s)[i] = s[i + 1]
  OBVIOUS
<1>2. \A i \in 1 .. Len(s) : s[i] \in 1 .. n
  BY <1>1
<1>3. Head(s) \notin Range(Tail(s))
  <2>1. \A i \in 1 .. (Len(s) - 1) : s[1] < s[i + 1]
    BY <1>1 DEF Ascending
  <2> QED BY <1>1, <1>2, <2>1 DEF Range
<1>4. ASSUME NEW e \in Range(s) PROVE e \in {Head(s)} \cup Range(Tail(s))
  <2>1. PICK i \in 1 .. Len(s) : e = s[i]
    BY <1>1 DEF Range
  <2>2. CASE i = 1
    BY <1>1, <2>1, <2>2
  <2>3. CASE i # 1
    <3>1. i - 1 \in 1 .. (Len(s) - 1) /\ Tail(s)[i - 1] = s[i]
      BY <1>1, <2>1, <2>3
    <3> QED BY <1>1, <2>1, <3>1 DEF Range
  <2> QED BY <2>2, <2>3
<1>5. ASSUME NEW e \in Range(Tail(s)) PROVE e \in Range(s)
  <2>1. PICK i \in 1 .. (Len(s) - 1) : e = s[i + 1]
    BY <1>1 DEF Range
  <2> QED BY <1>1, <2>1 DEF Range
<1>6. Head(s) \in Range(s)
  BY <1>1 DEF Range
<1> QED BY <1>3, <1>4, <1>5, <1>6

\* Appending puts one more event into the buffer.
LEMMA RangeOfAppend ==
    ASSUME NEW n \in Nat, NEW s \in Seq(1 .. n), NEW e \in 1 .. n
    PROVE  Range(Append(s, e)) = Range(s) \cup {e}
<1>1. /\ Len(s) \in Nat
      /\ DOMAIN s = 1 .. Len(s)
      /\ DOMAIN Append(s, e) = 1 .. (Len(s) + 1)
      /\ \A i \in 1 .. Len(s) : Append(s, e)[i] = s[i]
      /\ Append(s, e)[Len(s) + 1] = e
  OBVIOUS
<1>2. ASSUME NEW x \in Range(Append(s, e)) PROVE x \in Range(s) \cup {e}
  <2>1. PICK i \in 1 .. (Len(s) + 1) : x = Append(s, e)[i]
    BY <1>1 DEF Range
  <2>2. CASE i \in 1 .. Len(s)
    BY <1>1, <2>1, <2>2 DEF Range
  <2>3. CASE i = Len(s) + 1
    BY <1>1, <2>1, <2>3
  <2> QED BY <1>1, <2>2, <2>3
<1>3. ASSUME NEW x \in Range(s) PROVE x \in Range(Append(s, e))
  <2>1. PICK i \in 1 .. Len(s) : x = s[i]
    BY <1>1 DEF Range
  <2>2. i \in 1 .. (Len(s) + 1) /\ x = Append(s, e)[i]
    BY <1>1, <2>1
  <2> QED BY <1>1, <2>2 DEF Range
<1>4. e \in Range(Append(s, e))
  <2>1. Len(s) + 1 \in 1 .. (Len(s) + 1)
    BY <1>1
  <2> QED BY <1>1, <2>1 DEF Range
<1> QED BY <1>2, <1>3, <1>4

\* An event emitted is in flight, and it was nowhere before.
LEMMA EmitAccounted ==
    ASSUME EInv, Accounted, NEW is_terminal \in BOOLEAN, Emit(is_terminal)
    PROVE  Accounted'
<1>1. sequence \in Nat /\ sequence' = sequence + 1
  BY EmitterAssumption DEF EInv, EmitterTypeOK, Emit
<1>2. InFlight = {} /\ InFlight' = {sequence + 1}
  BY <1>1 DEF Emit, InFlight
<1>3. 1 .. sequence' = (1 .. sequence) \cup {sequence + 1} /\ sequence + 1 \notin 1 .. sequence
  BY <1>1
<1>4. UNCHANGED <<acknowledged, refused, evicted>> /\ Range(pending)' = Range(pending)
  BY DEF Emit
<1> HIDE DEF InFlight
<1>5. Partition(acknowledged, refused, evicted, Range(pending), {}, 1 .. sequence)
  BY <1>2 DEF Accounted
<1>6. Partition(acknowledged, refused, evicted, Range(pending), {sequence + 1},
                (1 .. sequence) \cup {sequence + 1})
  BY <1>3, <1>5, Zenon DEF Partition
<1> QED BY <1>2, <1>3, <1>4, <1>6 DEF Accounted

\* A move of the emitter takes an event from one place to one other: from the
\* buffer or from flight to where its answer puts it, from flight into the
\* buffer, and from the front of a full buffer to the evicted.
LEMMA StepAccounted ==
    ASSUME EInv, Accounted, NEW outcome \in Answers,
           Flushed \/ Retry(outcome) \/ Deliver(outcome)
    PROVE  Accounted'
<1>1. /\ sequence \in Nat
      /\ pending \in Seq(1 .. sequence)
      /\ Ascending(pending)
      /\ sequence' = sequence
  BY EmitterAssumption DEF EInv, EmitterTypeOK, Held, Flushed, Retry, Deliver
<1>2. CASE /\ UNCHANGED <<acknowledged, refused, evicted, pending>>
           /\ InFlight' = InFlight
  BY <1>1, <1>2 DEF Accounted
<1>3. CASE Flushed
  <2>1. InFlight' = InFlight
    BY <1>3 DEF Flushed, AfterFlush, InFlight
  <2> QED BY <1>2, <1>3, <2>1 DEF Flushed
<1>4. CASE Retry(outcome)
  <2>1. CASE pending' = Tail(pending) /\ UNCHANGED stage /\ Settle(Head(pending), outcome)
    <3>1. /\ Range(pending) = {Head(pending)} \cup Range(pending')
          /\ Head(pending) \notin Range(pending')
      BY <1>1, <1>4, <2>1, RangeOfTail DEF Retry
    <3>2. InFlight' = InFlight /\ evicted' = evicted
      BY <1>1, <1>4, <2>1 DEF InFlight, Retry
    <3>3. \/ acknowledged' = acknowledged \cup {Head(pending)} /\ refused' = refused
          \/ refused' = refused \cup {Head(pending)} /\ acknowledged' = acknowledged
      BY <2>1 DEF Settle
    <3> DEFINE h == Head(pending)  k == Range(pending)'  f == InFlight  all == 1 .. sequence
    <3> HIDE DEF h, k, f, all
    <3>4. Partition(acknowledged, refused, evicted, {h} \cup k, f, all) /\ h \notin k
      BY <3>1 DEF Accounted, h, k, f, all
    <3>5. /\ Partition(acknowledged \cup {h}, refused, evicted, k, f, all)
          /\ Partition(acknowledged, refused \cup {h}, evicted, k, f, all)
      BY <3>4, Zenon DEF Partition
    <3> QED BY <1>1, <3>2, <3>3, <3>5 DEF Accounted, h, k, f, all
  <2>2. CASE stage' = AfterFlush /\ UNCHANGED <<pending, acknowledged, refused>>
    <3>1. InFlight' = InFlight /\ evicted' = evicted
      BY <1>4, <2>2 DEF Retry, AfterFlush, InFlight
    <3> QED BY <1>2, <2>2, <3>1
  <2> QED BY <1>4, <2>1, <2>2 DEF Retry
<1>5. CASE Deliver(outcome)
  <2>1. InFlight = {sequence} /\ sequence \in 1 .. sequence
    BY <1>1, <1>5 DEF Deliver, InFlight, EInv, AttemptsLeft
  <2> DEFINE n == sequence  k == Range(pending)  all == 1 .. sequence
  <2> HIDE DEF n, k, all
  <2>2. Partition(acknowledged, refused, evicted, k, {n}, all)
    BY <2>1 DEF Accounted, n, k, all
  <2>3. CASE stage' = AfterDelivery /\ Settle(sequence, outcome) /\ UNCHANGED <<pending, evicted>>
    <3>1. InFlight' = {}
      BY <2>3 DEF AfterDelivery, InFlight
    <3>2. \/ acknowledged' = acknowledged \cup {n} /\ refused' = refused
          \/ refused' = refused \cup {n} /\ acknowledged' = acknowledged
      BY <2>3 DEF Settle, n
    <3>3. /\ Partition(acknowledged \cup {n}, refused, evicted, k, {}, all)
          /\ Partition(acknowledged, refused \cup {n}, evicted, k, {}, all)
      BY <2>2, Zenon DEF Partition
    <3> QED BY <1>1, <2>3, <3>1, <3>2, <3>3 DEF Accounted, k, all
  <2>4. CASE UNCHANGED <<stage, pending, evicted, acknowledged, refused>>
    <3>1. InFlight' = InFlight
      BY <1>1, <2>4 DEF InFlight
    <3> QED BY <1>2, <2>4, <3>1
  <2>5. CASE /\ Buffer(sequence)
             /\ stage' = AfterDelivery
             /\ UNCHANGED <<acknowledged, refused>>
    <3>1. InFlight' = {}
      BY <2>5 DEF AfterDelivery, InFlight
    <3>2. CASE Len(pending) < DEFAULT_BUFFER_LIMIT
      <4>1. Range(pending)' = k \cup {n} /\ evicted' = evicted
        BY <1>1, <2>1, <2>5, <3>2, RangeOfAppend DEF Buffer, k, n
      <4>2. Partition(acknowledged, refused, evicted, k \cup {n}, {}, all)
        BY <2>2, Zenon DEF Partition
      <4> QED BY <1>1, <2>5, <3>1, <4>1, <4>2 DEF Accounted, all
    <3>3. CASE ~ (Len(pending) < DEFAULT_BUFFER_LIMIT)
      <4> DEFINE h == Head(pending)  rest == Tail(pending)
      <4>1. pending' = Append(rest, sequence) /\ evicted' = evicted \cup {h}
        BY <2>5, <3>3 DEF Buffer
      <4>2. pending # << >>
        BY <1>1, <3>3, EmitterAssumption
      <4>3. rest \in Seq(1 .. sequence)
        BY <1>1, <4>2, TailOfHeld
      <4>4. k = {h} \cup Range(rest) /\ h \notin Range(rest)
        BY <1>1, <4>2, RangeOfTail DEF k
      <4> HIDE DEF h, rest
      <4>5. Range(pending)' = Range(rest) \cup {n}
        BY <1>1, <2>1, <4>1, <4>3, RangeOfAppend DEF n
      <4> DEFINE m == Range(rest)
      <4> HIDE DEF m
      <4>6. Partition(acknowledged, refused, evicted, {h} \cup m, {n}, all) /\ h \notin m
        BY <2>2, <4>4 DEF m
      <4>7. Partition(acknowledged, refused, evicted \cup {h}, m \cup {n}, {}, all)
        BY <4>6, Zenon DEF Partition
      <4> QED BY <1>1, <2>5, <3>1, <4>1, <4>5, <4>7 DEF Accounted, all, m
    <3> QED BY <3>2, <3>3
  <2> QED BY <1>5, <2>3, <2>4, <2>5 DEF Deliver
<1> QED BY <1>3, <1>4, <1>5

\* Nothing emitted is lost sight of: every event is acknowledged, refused,
\* evicted, held or in flight, and never in two of these places
\* (CallbackEmitter.__call__, _flush, _deliver and _buffer).
THEOREM NothingLostSightOf == EmitterSpec => []EveryEventAccountedFor
<1>1. EmitterInit => Accounted
  <2> SUFFICES ASSUME EmitterInit PROVE Accounted
    OBVIOUS
  <2>1. Range(pending) = {} /\ InFlight = {} /\ 1 .. sequence = {}
    BY DEF EmitterInit, Range, InFlight
  <2> QED BY <2>1 DEF EmitterInit, Accounted, Partition
<1>2. ASSUME EInv, Accounted, [EmitterNext]_emitter_vars
      PROVE  Accounted'
  <2>1. CASE UNCHANGED emitter_vars
    BY <1>2, <2>1 DEF emitter_vars, Accounted, Range, InFlight
  <2>2. CASE Flushed
    <3>1. "delivered" \in Answers
      BY DEF Answers
    <3> QED BY <1>2, <2>2, <3>1, StepAccounted
  <2>3. ASSUME NEW outcome \in Answers, Post(outcome) PROVE Accounted'
    BY <1>2, <2>3, StepAccounted DEF Post
  <2>4. ASSUME NEW is_terminal \in BOOLEAN, Emit(is_terminal) PROVE Accounted'
    BY <1>2, <2>4, EmitAccounted
  <2> QED BY <1>2, <2>1, <2>2, <2>3, <2>4 DEF EmitterNext, EmitterStep
<1>3. ASSUME EInv, Accounted PROVE EveryEventAccountedFor
  <2> DEFINE places == <<acknowledged, refused, evicted, Range(pending), InFlight>>
  <2>1. DOMAIN places = {1, 2, 3, 4, 5}
    OBVIOUS
  <2>2. /\ places[1] = acknowledged /\ places[2] = refused /\ places[3] = evicted
        /\ places[4] = Range(pending) /\ places[5] = InFlight
    OBVIOUS
  <2> HIDE DEF places
  <2>3. Range(places) = {acknowledged, refused, evicted, Range(pending), InFlight}
    BY <2>1, <2>2 DEF Range
  <2>4. UNION Range(places) = 1 .. sequence
    BY <1>3, <2>3 DEF Accounted, Partition
  <2>5. \A i, j \in DOMAIN places : i # j => places[i] \cap places[j] = {}
    <3> SUFFICES ASSUME NEW i \in {1, 2, 3, 4, 5}, NEW j \in {1, 2, 3, 4, 5}, i # j
                 PROVE  places[i] \cap places[j] = {}
      BY <2>1
    <3> QED BY <1>3, <2>2 DEF Accounted, Partition
  <2>6. IsInjective(pending)
    <3>1. /\ sequence \in Nat
          /\ pending \in Seq(1 .. sequence)
          /\ Ascending(pending)
      BY <1>3, EmitterAssumption DEF EInv, EmitterTypeOK, Held
    <3>2. /\ DOMAIN pending = 1 .. Len(pending)
          /\ Len(pending) \in Nat
          /\ \A i \in 1 .. Len(pending) : pending[i] \in 1 .. sequence
      BY <3>1
    <3>3. \A i, j \in 1 .. Len(pending) : pending[i] = pending[j] => i = j
      <4> SUFFICES ASSUME NEW i \in 1 .. Len(pending), NEW j \in 1 .. Len(pending),
                          pending[i] = pending[j], i # j
                   PROVE  FALSE
        OBVIOUS
      <4>1. i < j \/ j < i
        BY <3>2
      <4> QED BY <3>1, <3>2, <4>1 DEF Ascending
    <3> QED BY <3>2, <3>3 DEF IsInjective
  <2> QED BY <2>4, <2>5, <2>6 DEF EveryEventAccountedFor, places
<1> QED BY <1>1, <1>2, <1>3, EmitterInvariance, PTL DEF EmitterSpec

-----------------------------------------------------------------------------
(* The delivery. *)

\* The events a run of this script can emit.
ScriptEvents ==
    [type : {"STEP_COMPLETED", "EVIDENCE_FOUND", "TERMINAL"}]
        \cup [type : {"HYPOTHESIS"}, title : Titles, rank : Nat \ {0}]
        \cup (IF run.concluded THEN [type : {"ROOT_CAUSE"}] ELSE {})
        \cup (IF run.end = "COMPLETED" THEN [type : {"RECOMMENDATION"}] ELSE {})

OnTheWay ==
    /\ sequence <= Len(events)
    /\ terminal <=> sequence = Len(events)
    /\ late \subseteq 1 .. sequence

RowsOK ==
    /\ status \in {"Running", "Completed", "Failed"}
    /\ \A t \in DOMAIN hypotheses : hypotheses[t] \in [rank : Nat, selected : BOOLEAN]
    /\ root_cause # None =>
           /\ run.concluded
           /\ root_cause \in [hypothesis : {Winner}, linked : BOOLEAN]
           /\ root_cause.linked => Winner \in DOMAIN hypotheses
    /\ \/ recommendations = {}
       \/ run.end = "COMPLETED" /\ recommendations = Actions

OpenRows == status = "Running" => selection = {}

ClosedRows ==
    status # "Running" =>
        /\ evidence # "absent"
        /\ selection = {Winner}
        /\ run.concluded => root_cause # None /\ root_cause.linked
        /\ run.end = "COMPLETED" => recommendations = Actions
        /\ incident = IF run.end = "COMPLETED" THEN "AwaitingApproval" ELSE "Open"

DInv == run \in Runs /\ OnTheWay /\ RowsOK /\ OpenRows /\ ClosedRows

-----------------------------------------------------------------------------
(* The script. *)

\* The last round ranked at least one hypothesis, and none of them twice.
LEMMA LastRankingRanks ==
    ASSUME run \in Runs
    PROVE  /\ \E n \in Nat \ {0} : LastRanking \in [1 .. n -> Titles]
           /\ IsInjective(LastRanking)
           /\ run.rounds[1] \in Rankings
           /\ Len(run.rounds) = 2 => run.rounds[2] \in Rankings
           /\ run.end \in {"COMPLETED", "NEEDS_HUMAN", "FAILED"}
           /\ run.concluded \in BOOLEAN
           /\ run.end = "COMPLETED" => run.concluded
<1>1. /\ run.end \in {"COMPLETED", "NEEDS_HUMAN", "FAILED"}
      /\ run.concluded \in BOOLEAN
      /\ run.end = "COMPLETED" => run.concluded
      /\ run.rounds \in {<<r>> : r \in Rankings} \cup (Rankings \X Rankings)
  BY DEF Runs
<1>2. /\ run.rounds[1] \in Rankings
      /\ Len(run.rounds) \in {1, 2}
      /\ Len(run.rounds) = 2 => run.rounds[2] \in Rankings
  <2>1. CASE run.rounds \in {<<r>> : r \in Rankings}
    BY <2>1
  <2>2. CASE run.rounds \in Rankings \X Rankings
    BY <2>2
  <2> QED BY <1>1, <2>1, <2>2
<1>3. LastRanking \in Rankings
  BY <1>2 DEF LastRanking
<1>4. \E n \in Nat \ {0} : LastRanking \in [1 .. n -> Titles]
  <2>1. Cardinality(Titles) \in Nat
    BY DeliveryAssumption, FS_CardinalityType
  <2>2. PICK n \in 1 .. Cardinality(Titles) : LastRanking \in [1 .. n -> Titles]
    BY <1>3 DEF Rankings
  <2>3. n \in Nat \ {0}
    BY <2>1
  <2> QED BY <2>2, <2>3
<1> QED BY <1>1, <1>2, <1>3, <1>4 DEF Rankings

\* The winner is a hypothesis, the one in first place and in no other.
LEMMA WinnerLeads ==
    ASSUME run \in Runs
    PROVE  /\ Winner \in Titles
           /\ Winner \in Range(LastRanking)
           /\ \A i \in DOMAIN LastRanking : i \in Nat \ {0}
           /\ \A i \in DOMAIN LastRanking : LastRanking[i] = Winner <=> i = 1
<1>1. PICK n \in Nat \ {0} : LastRanking \in [1 .. n -> Titles]
  BY LastRankingRanks
<1>2. 1 \in 1 .. n /\ DOMAIN LastRanking = 1 .. n
  BY <1>1
<1>3. IsInjective(LastRanking)
  BY LastRankingRanks
<1> QED BY <1>1, <1>2, <1>3 DEF Winner, Range, IsInjective

\* The announcement of a ranking.
LEMMA HypothesesAreEvents ==
    ASSUME run \in Runs, NEW ranking \in Rankings
    PROVE  HypothesisEvents(ranking) \in Seq(ScriptEvents)
<1>1. Cardinality(Titles) \in Nat
  BY DeliveryAssumption, FS_CardinalityType
<1>2. PICK n \in 1 .. Cardinality(Titles) : ranking \in [1 .. n -> Titles]
  BY DEF Rankings
<1>3. n \in Nat /\ DOMAIN ranking = 1 .. n
  BY <1>1, <1>2
<1>4. \A i \in 1 .. n : [type |-> "HYPOTHESIS", title |-> ranking[i], rank |-> i] \in ScriptEvents
  BY <1>2, <1>3 DEF ScriptEvents
<1>5. HypothesisEvents(ranking) \in [1 .. n -> ScriptEvents]
  BY <1>3, <1>4 DEF HypothesisEvents
<1> QED BY <1>3, <1>5

\* Every event a run emits is one of its script: a root cause comes from a run
\* that concluded, a recommendation from one that completed.
LEMMA EventsOfTheScript ==
    ASSUME run \in Runs
    PROVE  events \in Seq(ScriptEvents)
<1> DEFINE E == ScriptEvents
           opening == <<[type |-> "STEP_COMPLETED"], [type |-> "EVIDENCE_FOUND"]>>
           first == HypothesisEvents(run.rounds[1])
           second == IF Len(run.rounds) = 2 THEN HypothesisEvents(run.rounds[2]) ELSE << >>
           root == IF run.concluded /\ run.end # "FAILED"
                   THEN <<[type |-> "ROOT_CAUSE"]>> ELSE << >>
           fix == IF run.end = "COMPLETED" THEN <<[type |-> "RECOMMENDATION"]>> ELSE << >>
           closing == <<[type |-> "TERMINAL"]>>
<1>1. opening \in Seq(E)
  BY DEF ScriptEvents
<1>2. first \in Seq(E)
  BY LastRankingRanks, HypothesesAreEvents
<1>3. second \in Seq(E)
  BY LastRankingRanks, HypothesesAreEvents
<1>4. root \in Seq(E)
  <2>1. << >> \in Seq(E)
    OBVIOUS
  <2>2. run.concluded => [type |-> "ROOT_CAUSE"] \in E
    BY DEF ScriptEvents
  <2> HIDE DEF E
  <2>3. run.concluded => <<[type |-> "ROOT_CAUSE"]>> \in Seq(E)
    BY <2>2
  <2> QED BY <2>1, <2>3
<1>5. fix \in Seq(E)
  <2>1. << >> \in Seq(E)
    OBVIOUS
  <2>2. run.end = "COMPLETED" => [type |-> "RECOMMENDATION"] \in E
    BY DEF ScriptEvents
  <2> HIDE DEF E
  <2>3. run.end = "COMPLETED" => <<[type |-> "RECOMMENDATION"]>> \in Seq(E)
    BY <2>2
  <2> QED BY <2>1, <2>3
<1>6. closing \in Seq(E)
  BY DEF ScriptEvents
<1>7. events = opening \o first \o second \o (root \o fix) \o closing
  BY DEF events, ConclusionEvents
<1> HIDE DEF E, opening, first, second, root, fix, closing
<1>8. root \o fix \in Seq(E)
  BY <1>4, <1>5, ConcatProperties
<1>9. opening \o first \in Seq(E)
  BY <1>1, <1>2, ConcatProperties
<1>10. opening \o first \o second \in Seq(E)
  BY <1>3, <1>9, ConcatProperties
<1>11. opening \o first \o second \o (root \o fix) \in Seq(E)
  BY <1>8, <1>10, ConcatProperties
<1>12. opening \o first \o second \o (root \o fix) \o closing \in Seq(E)
  BY <1>6, <1>11, ConcatProperties
<1> QED BY <1>7, <1>12 DEF E

\* What an event on its way can be, and what the script then says of its run.
LEMMA EventAt ==
    ASSUME run \in Runs, NEW n \in 1 .. Len(events)
    PROVE  /\ events[n].type \in {"STEP_COMPLETED", "EVIDENCE_FOUND", "TERMINAL",
                                  "HYPOTHESIS", "ROOT_CAUSE", "RECOMMENDATION"}
           /\ events[n].type = "HYPOTHESIS" => events[n].rank \in Nat
           /\ events[n].type = "ROOT_CAUSE" => run.concluded
           /\ events[n].type = "RECOMMENDATION" => run.end = "COMPLETED"
<1>1. events[n] \in ScriptEvents
  BY EventsOfTheScript, ElementOfSeq
<1> HIDE DEF events
<1>2. \/ events[n] \in [type : {"STEP_COMPLETED", "EVIDENCE_FOUND", "TERMINAL"}]
      \/ events[n] \in [type : {"HYPOTHESIS"}, title : Titles, rank : Nat \ {0}]
      \/ run.concluded /\ events[n] \in [type : {"ROOT_CAUSE"}]
      \/ run.end = "COMPLETED" /\ events[n] \in [type : {"RECOMMENDATION"}]
  BY <1>1, Zenon DEF ScriptEvents
<1> QED BY <1>2

-----------------------------------------------------------------------------
(* The emitter, whatever the backend does. *)

\* Delivery adds the backend to the emitter and changes nothing about it: each
\* step is a step of the emitter or none.
THEOREM DeliveryRefinesEmitter == DeliverySpec => EmitterSpec
<1>1. DeliveryInit => EmitterInit
  BY DEF DeliveryInit
<1>2. [DeliveryNext]_delivery_vars => [EmitterNext]_emitter_vars
  <2> SUFFICES ASSUME [DeliveryNext]_delivery_vars PROVE [EmitterNext]_emitter_vars
    OBVIOUS
  <2>1. CASE EmitEvent
    BY <2>1 DEF EmitEvent, EmitterNext
  <2>2. CASE FlushDone
    BY <2>2 DEF FlushDone, EmitterNext, EmitterStep
  <2>3. CASE Answered \/ Unanswered \/ AnswerLost \/ TimedOut
    <3>1. "delivered" \in Answers /\ "transient" \in Answers
      BY DEF Answers
    <3>2. Post("delivered") \/ Post("transient")
      BY <2>3 DEF Answered, Unanswered, AnswerLost, TimedOut
    <3> QED BY <3>1, <3>2 DEF EmitterNext, EmitterStep
  <2>4. CASE HandledLate
    BY <2>4 DEF HandledLate
  <2>5. CASE UNCHANGED delivery_vars
    BY <2>5 DEF delivery_vars
  <2> QED BY <2>1, <2>2, <2>3, <2>4, <2>5 DEF DeliveryNext
<1> QED BY <1>1, <1>2, PTL DEF DeliverySpec, EmitterSpec

-----------------------------------------------------------------------------
(* The handler. *)

RowsInv == run \in Runs /\ RowsOK /\ OpenRows /\ ClosedRows

\* What the script says is the same after a step that leaves the script alone.
LEMMA ScriptStands ==
    ASSUME run' = run
    PROVE  Winner' = Winner /\ LastRanking' = LastRanking /\ events' = events
BY DEF Winner, LastRanking, events, ConclusionEvents

\* A streamed hypothesis takes its rank and leaves every selection as it is.
LEMMA HypothesisEventKeeps ==
    ASSUME RowsInv, run' = run, NEW event, event.rank \in Nat, HypothesisEvent(event)
    PROVE  RowsInv'
<1>1. /\ DOMAIN hypotheses' = DOMAIN hypotheses \cup {event.title}
      /\ \A t \in DOMAIN hypotheses' :
            hypotheses'[t] = IF t # event.title THEN hypotheses[t]
                             ELSE IF t \in DOMAIN hypotheses
                                  THEN [hypotheses[t] EXCEPT !.rank = event.rank]
                                  ELSE [rank |-> event.rank, selected |-> FALSE]
  BY DEF HypothesisEvent, Upsert
<1>2. \A t \in DOMAIN hypotheses : hypotheses[t] \in [rank : Nat, selected : BOOLEAN]
  BY DEF RowsInv, RowsOK
<1>3. \A t \in DOMAIN hypotheses' :
         /\ hypotheses'[t] \in [rank : Nat, selected : BOOLEAN]
         /\ hypotheses'[t].selected <=> (t \in DOMAIN hypotheses /\ hypotheses[t].selected)
  <2> SUFFICES ASSUME NEW t \in DOMAIN hypotheses'
               PROVE  /\ hypotheses'[t] \in [rank : Nat, selected : BOOLEAN]
                      /\ hypotheses'[t].selected
                            <=> (t \in DOMAIN hypotheses /\ hypotheses[t].selected)
    OBVIOUS
  <2>1. CASE t # event.title
    BY <1>1, <1>2, <2>1
  <2>2. CASE t = event.title /\ t \in DOMAIN hypotheses
    <3>1. hypotheses'[t] = [hypotheses[t] EXCEPT !.rank = event.rank]
      BY <1>1, <2>2
    <3>2. hypotheses[t] \in [rank : Nat, selected : BOOLEAN]
      BY <1>2, <2>2
    <3> QED BY <2>2, <3>1, <3>2
  <2>3. CASE t = event.title /\ t \notin DOMAIN hypotheses
    <3>1. hypotheses'[t] = [rank |-> event.rank, selected |-> FALSE]
      BY <1>1, <2>3
    <3> QED BY <2>3, <3>1
  <2> QED BY <2>1, <2>2, <2>3
<1>4. selection' = selection
  BY <1>1, <1>3 DEF selection
<1>5. /\ UNCHANGED <<evidence, root_cause, recommendations, status, incident>>
      /\ Winner' = Winner
  BY ScriptStands DEF HypothesisEvent
<1>6. RowsOK'
  BY <1>1, <1>3, <1>5 DEF RowsInv, RowsOK
<1> QED BY <1>4, <1>5, <1>6 DEF RowsInv, OpenRows, ClosedRows

\* The root cause of a run that concluded: linked as soon as its hypothesis is
\* among the rows known, and then for good.
LEMMA UpsertRootCauseLinks ==
    ASSUME RowsInv, run.concluded, NEW known
    PROVE  /\ UpsertRootCause(known) \in [hypothesis : {Winner}, linked : BOOLEAN]
           /\ UpsertRootCause(known) # None
           /\ Winner \in known => UpsertRootCause(known).linked
           /\ root_cause # None /\ root_cause.linked => UpsertRootCause(known).linked
           /\ UpsertRootCause(known).linked => Winner \in known \cup DOMAIN hypotheses
<1> DEFINE link == (root_cause # None /\ root_cause.linked) \/ Winner \in known
<1>1. UpsertRootCause(known) = [hypothesis |-> Winner, linked |-> link]
  BY DEF UpsertRootCause
<1>2. link \in BOOLEAN
  OBVIOUS
<1>3. link => Winner \in known \cup DOMAIN hypotheses
  BY DEF RowsInv, RowsOK
<1>4. Winner \in Titles
  BY WinnerLeads DEF RowsInv
<1> HIDE DEF link
<1>5. UpsertRootCause(known) \in [hypothesis : {Winner}, linked : BOOLEAN]
  BY <1>1, <1>2
<1>6. UpsertRootCause(known) # None
  BY <1>1, <1>2, <1>4, DeliveryAssumption
<1>7. UpsertRootCause(known).linked <=> link
  BY <1>1, <1>2
<1> QED BY <1>3, <1>5, <1>6, <1>7 DEF link

\* A streamed conclusion writes the root cause and leaves the rest as it is.
LEMMA RootCauseEventKeeps ==
    ASSUME RowsInv, run' = run, run.concluded, RootCauseEvent
    PROVE  RowsInv'
<1>1. /\ root_cause' = UpsertRootCause(DOMAIN hypotheses)
      /\ UNCHANGED <<evidence, hypotheses, recommendations, status, incident>>
      /\ Winner' = Winner
      /\ selection' = selection
  BY ScriptStands DEF RootCauseEvent, selection
<1>2. /\ root_cause' \in [hypothesis : {Winner}, linked : BOOLEAN]
      /\ root_cause' # None
      /\ root_cause # None /\ root_cause.linked => root_cause'.linked
      /\ root_cause'.linked => Winner \in DOMAIN hypotheses
  BY <1>1, UpsertRootCauseLinks, Zenon
<1> QED BY <1>1, <1>2 DEF RowsInv, RowsOK, OpenRows, ClosedRows

\* Closing: the last round's winner, and no other, is selected and in first place.
LEMMA ReconciledSelectsWinner ==
    ASSUME run \in Runs
    PROVE  /\ Winner \in DOMAIN Reconciled
           /\ \A t \in DOMAIN Reconciled :
                 /\ Reconciled[t] \in [rank : Nat, selected : BOOLEAN]
                 /\ Reconciled[t].selected <=> t = Winner
                 /\ Reconciled[t].rank = 1 <=> t = Winner
<1> DEFINE ranked == Range(LastRanking)
           place(t) == CHOOSE i \in DOMAIN LastRanking : LastRanking[i] = t
<1>1. \A t \in ranked : place(t) \in DOMAIN LastRanking /\ LastRanking[place(t)] = t
  BY DEF Range
<1>2. Winner \in ranked
  BY WinnerLeads
<1>3. /\ \A i \in DOMAIN LastRanking : i \in Nat \ {0}
      /\ \A i \in DOMAIN LastRanking : LastRanking[i] = Winner <=> i = 1
  BY WinnerLeads
<1>4. \A t \in ranked : place(t) \in Nat /\ (place(t) = 1 <=> t = Winner)
  BY <1>1, <1>3
<1>5. Reconciled = [t \in DOMAIN hypotheses \cup ranked |->
                      IF t \in ranked THEN [rank |-> place(t), selected |-> t = Winner] ELSE NoRow]
  BY DEF Reconciled
<1> HIDE DEF ranked, place
<1>6. DOMAIN Reconciled = DOMAIN hypotheses \cup ranked
  BY <1>5
<1>7. ASSUME NEW t \in DOMAIN Reconciled
      PROVE  /\ Reconciled[t] \in [rank : Nat, selected : BOOLEAN]
             /\ Reconciled[t].selected <=> t = Winner
             /\ Reconciled[t].rank = 1 <=> t = Winner
  <2>1. CASE t \in ranked
    <3>1. Reconciled[t] = [rank |-> place(t), selected |-> t = Winner]
      BY <1>5, <1>6, <1>7, <2>1
    <3>2. place(t) \in Nat /\ (place(t) = 1 <=> t = Winner)
      BY <1>4, <2>1
    <3> DEFINE first == t = Winner
    <3>3. first \in BOOLEAN /\ (first <=> t = Winner)
      OBVIOUS
    <3> HIDE DEF first
    <3>4. Reconciled[t] = [rank |-> place(t), selected |-> first]
      BY <3>1 DEF first
    <3> QED BY <3>2, <3>3, <3>4
  <2>2. CASE t \notin ranked
    <3>1. Reconciled[t] = NoRow
      BY <1>5, <1>6, <1>7, <2>2
    <3> QED BY <1>2, <2>2, <3>1 DEF NoRow
  <2> QED BY <2>1, <2>2
<1> QED BY <1>2, <1>6, <1>7

\* The terminal event writes what did not arrive, and closes the investigation.
LEMMA TerminalEventCloses ==
    ASSUME RowsInv, run' = run, TerminalEvent
    PROVE  /\ RowsInv'
           /\ status' # "Running"
           /\ leaders' = {Winner}
<1>1. /\ hypotheses' = Reconciled
      /\ status' = FinalStatus
      /\ Winner' = Winner
      /\ evidence' # "absent"
  BY ScriptStands DEF TerminalEvent
<1>2. /\ Winner \in DOMAIN hypotheses'
      /\ \A t \in DOMAIN hypotheses' :
            /\ hypotheses'[t] \in [rank : Nat, selected : BOOLEAN]
            /\ hypotheses'[t].selected <=> t = Winner
            /\ hypotheses'[t].rank = 1 <=> t = Winner
  BY <1>1, ReconciledSelectsWinner DEF RowsInv
<1>3. selection' = {Winner} /\ leaders' = {Winner}
  BY <1>2 DEF selection, leaders
<1>4. /\ run.end \in {"COMPLETED", "NEEDS_HUMAN", "FAILED"}
      /\ run.concluded \in BOOLEAN
      /\ run.end = "COMPLETED" => run.concluded
  BY LastRankingRanks DEF RowsInv
<1>5. status' \in {"Completed", "Failed"} /\ (status' = "Failed" <=> run.end = "FAILED")
  BY <1>1, <1>4 DEF FinalStatus
<1>6. CASE run.concluded
  <2>1. /\ root_cause' = UpsertRootCause(DOMAIN Reconciled)
        /\ recommendations' = IF run.end = "COMPLETED" THEN Actions ELSE recommendations
    BY <1>6 DEF TerminalEvent
  <2>2. /\ root_cause' \in [hypothesis : {Winner}, linked : BOOLEAN]
        /\ root_cause' # None
        /\ root_cause'.linked
    BY <1>1, <1>2, <1>6, <2>1, UpsertRootCauseLinks, Zenon
  <2>3. recommendations' = IF run.end = "COMPLETED" THEN Actions ELSE {}
    BY <2>1 DEF RowsInv, RowsOK
  <2>4. incident' = IF run.end = "COMPLETED" THEN "AwaitingApproval" ELSE "Open"
    BY <1>1, <1>4, <1>5, <2>2, <2>3, DeliveryAssumption DEF TerminalEvent
  <2>5. RowsOK'
    BY <1>1, <1>2, <1>5, <1>6, <2>2, <2>3 DEF RowsOK
  <2> QED BY <1>1, <1>3, <1>5, <2>2, <2>3, <2>4, <2>5
          DEF RowsInv, OpenRows, ClosedRows
<1>7. CASE ~ run.concluded
  <2>1. UNCHANGED <<root_cause, recommendations>>
    BY <1>7 DEF TerminalEvent
  <2>2. root_cause' = None /\ recommendations' = {} /\ run.end # "COMPLETED"
    BY <1>4, <1>7, <2>1 DEF RowsInv, RowsOK
  <2>3. incident' = "Open"
    BY <2>2 DEF TerminalEvent
  <2>4. RowsOK'
    BY <1>1, <1>2, <1>5, <2>2 DEF RowsOK
  <2> QED BY <1>1, <1>3, <1>5, <1>7, <2>2, <2>3, <2>4
          DEF RowsInv, OpenRows, ClosedRows
<1> QED BY <1>3, <1>5, <1>6, <1>7

\* Whatever event of the script the handler comes to, and in whatever state, it
\* keeps the rows right; and only the terminal event closes the investigation.
LEMMA HandleKeeps ==
    ASSUME RowsInv, run' = run, NEW n \in 1 .. Len(events), Handle(n)
    PROVE  /\ RowsInv'
           /\ status' # status => leaders' = {Winner}
<1> DEFINE event == events[n]
<1>1. /\ event.type \in {"STEP_COMPLETED", "EVIDENCE_FOUND", "TERMINAL",
                         "HYPOTHESIS", "ROOT_CAUSE", "RECOMMENDATION"}
      /\ event.type = "HYPOTHESIS" => event.rank \in Nat
      /\ event.type = "ROOT_CAUSE" => run.concluded
      /\ event.type = "RECOMMENDATION" => run.end = "COMPLETED"
  BY EventAt DEF RowsInv
<1>2. \/ event.type = "STEP_COMPLETED" /\ StepEvent(n)
      \/ event.type = "EVIDENCE_FOUND" /\ EvidenceEvent
      \/ event.type = "HYPOTHESIS" /\ HypothesisEvent(event)
      \/ event.type = "ROOT_CAUSE" /\ RootCauseEvent
      \/ event.type = "RECOMMENDATION" /\ RecommendationEvent
      \/ event.type = "TERMINAL" /\ TerminalEvent
  BY DEF Handle
<1> HIDE DEF event
<1>3. Winner' = Winner
  BY ScriptStands
<1>4. CASE StepEvent(n)
  BY <1>3, <1>4 DEF StepEvent, RowsInv, RowsOK, OpenRows, ClosedRows, selection
<1>5. CASE EvidenceEvent
  BY <1>3, <1>5 DEF EvidenceEvent, RowsInv, RowsOK, OpenRows, ClosedRows, selection
<1>6. CASE event.type = "HYPOTHESIS" /\ HypothesisEvent(event)
  <2>1. status' = status
    BY <1>6 DEF HypothesisEvent
  <2> QED BY <1>1, <1>6, <2>1, HypothesisEventKeeps
<1>7. CASE event.type = "ROOT_CAUSE" /\ RootCauseEvent
  <2>1. status' = status
    BY <1>7 DEF RootCauseEvent
  <2> QED BY <1>1, <1>7, <2>1, RootCauseEventKeeps
<1>8. CASE event.type = "RECOMMENDATION" /\ RecommendationEvent
  BY <1>1, <1>3, <1>8
     DEF RecommendationEvent, RowsInv, RowsOK, OpenRows, ClosedRows, selection
<1>9. CASE TerminalEvent
  BY <1>9, TerminalEventCloses
<1> QED BY <1>2, <1>4, <1>5, <1>6, <1>7, <1>8, <1>9

-----------------------------------------------------------------------------
(* The inductive invariant. *)

\* The event a POST carries is one emitted before.
LEMMA WireIsEmitted ==
    ASSUME EInv, NEW outcome \in Answers, Post(outcome)
    PROVE  Wire \in 1 .. sequence
<1>1. /\ sequence \in Nat
      /\ pending \in Seq(1 .. sequence)
      /\ Ascending(pending)
  BY EmitterAssumption DEF EInv, EmitterTypeOK, Held
<1>2. CASE Retry(outcome)
  <2>1. Head(pending) \in 1 .. sequence
    BY <1>1, <1>2, TailOfHeld DEF Retry
  <2>2. stage # "deliver"
    BY <1>2 DEF Retry
  <2> QED BY <2>1, <2>2 DEF Wire
<1>3. CASE Deliver(outcome)
  BY <1>1, <1>3 DEF Deliver, Wire, EInv, AttemptsLeft
<1> QED BY <1>2, <1>3 DEF Post

\* A run starts with nothing emitted and no rows.
LEMMA DeliveryStarts == DeliveryInit => DInv
<1> SUFFICES ASSUME DeliveryInit PROVE DInv
  OBVIOUS
<1>1. OnTheWay
  <2>1. events \in Seq(ScriptEvents) /\ Len(events) \in Nat
    BY EventsOfTheScript DEF DeliveryInit
  <2>2. Len(events) # 0
    <3>1. events # << >>
      BY DEF events
    <3> QED BY <2>1, <3>1
  <2> QED BY <2>1, <2>2 DEF DeliveryInit, EmitterInit, OnTheWay
<1>2. RowsOK /\ OpenRows /\ ClosedRows
  <2>1. DOMAIN hypotheses = {}
    BY DEF DeliveryInit
  <2>2. selection = {}
    BY <2>1 DEF selection
  <2> QED BY <2>1, <2>2 DEF DeliveryInit, RowsOK, OpenRows, ClosedRows
<1> QED BY <1>1, <1>2 DEF DInv, DeliveryInit

\* Only what the emitter has sent is on its way.
LEMMA StaysOnTheWay ==
    ASSUME EInv, run \in Runs, OnTheWay, [DeliveryNext]_delivery_vars
    PROVE  OnTheWay' /\ run' = run
<1>1. sequence \in Nat /\ Len(events) \in Nat
  BY EventsOfTheScript, EmitterAssumption DEF EInv, EmitterTypeOK
<1>2. run' = run
  BY DEF DeliveryNext, EmitEvent, FlushDone, Answered, Unanswered, AnswerLost, TimedOut,
         HandledLate, delivery_vars
<1>3. events' = events
  BY <1>2, ScriptStands
<1>4. CASE EmitEvent
  <2>1. PICK is_terminal \in BOOLEAN :
           (is_terminal <=> sequence + 1 = Len(events)) /\ Emit(is_terminal)
    BY <1>4 DEF EmitEvent
  <2>2. /\ ~ terminal /\ sequence' = sequence + 1 /\ terminal' = is_terminal /\ late' = late
    BY <1>4, <2>1 DEF EmitEvent, Emit
  <2>3. sequence + 1 <= Len(events)
    BY <1>1, <2>2 DEF OnTheWay
  <2>4. 1 .. sequence \subseteq 1 .. sequence'
    BY <1>1, <2>2
  <2> HIDE DEF events
  <2> QED BY <1>1, <1>2, <1>3, <2>1, <2>2, <2>3, <2>4 DEF OnTheWay
<1>5. ASSUME UNCHANGED <<sequence, terminal>>, late' \subseteq late \cup {Wire},
             late' \subseteq late \/ Wire \in 1 .. sequence
      PROVE  OnTheWay'
  BY <1>3, <1>5 DEF OnTheWay
<1>6. CASE FlushDone \/ HandledLate \/ UNCHANGED delivery_vars
  <2>1. UNCHANGED <<sequence, terminal>> /\ late' \subseteq late
    BY <1>6 DEF FlushDone, Flushed, HandledLate, delivery_vars, emitter_vars
  <2> QED BY <1>2, <1>5, <2>1
<1>7. CASE Answered \/ Unanswered \/ AnswerLost \/ TimedOut
  <2>1. PICK outcome \in Answers : Post(outcome)
    <3>1. "delivered" \in Answers /\ "transient" \in Answers
      BY DEF Answers
    <3>2. Post("delivered") \/ Post("transient")
      BY <1>7 DEF Answered, Unanswered, AnswerLost, TimedOut
    <3> QED BY <3>1, <3>2
  <2>2. Wire \in 1 .. sequence
    BY <2>1, WireIsEmitted
  <2>3. UNCHANGED <<sequence, terminal>>
    BY <2>1 DEF Post, Retry, Deliver
  <2>4. late' \subseteq late \cup {Wire}
    BY <1>7 DEF Answered, Unanswered, AnswerLost, TimedOut
  <2> QED BY <1>2, <1>5, <2>2, <2>3, <2>4
<1> QED BY <1>4, <1>6, <1>7, <1>2 DEF DeliveryNext

\* A step leaves the rows alone or is the handler's, of an event on its way.
LEMMA RowsChangeByHandling ==
    ASSUME EInv, run \in Runs, OnTheWay, [DeliveryNext]_delivery_vars
    PROVE  UNCHANGED rows \/ \E n \in 1 .. Len(events) : Handle(n)
<1>1. sequence \in Nat /\ Len(events) \in Nat /\ sequence <= Len(events)
  BY EventsOfTheScript, EmitterAssumption DEF EInv, EmitterTypeOK, OnTheWay
<1>2. 1 .. sequence \subseteq 1 .. Len(events)
  BY <1>1
<1>3. CASE Answered \/ AnswerLost
  <2>1. PICK outcome \in Answers : Post(outcome)
    <3>1. "delivered" \in Answers /\ "transient" \in Answers
      BY DEF Answers
    <3>2. Post("delivered") \/ Post("transient")
      BY <1>3 DEF Answered, AnswerLost
    <3> QED BY <3>1, <3>2
  <2>2. Wire \in 1 .. Len(events)
    BY <1>2, <2>1, WireIsEmitted
  <2> QED BY <1>3, <2>2 DEF Answered, AnswerLost
<1>4. CASE HandledLate
  <2>1. PICK n \in late : Handle(n)
    BY <1>4 DEF HandledLate
  <2> QED BY <1>2, <2>1 DEF OnTheWay
<1>5. CASE EmitEvent \/ FlushDone \/ Unanswered \/ TimedOut
  BY <1>5 DEF EmitEvent, FlushDone, Unanswered, TimedOut
<1>6. CASE UNCHANGED delivery_vars
  BY <1>6 DEF delivery_vars
<1> QED BY <1>3, <1>4, <1>5, <1>6 DEF DeliveryNext

\* A step keeps the invariant, and one that closes the investigation leaves the
\* winner in first place.
LEMMA DeliveryKeeps ==
    ASSUME EInv, DInv, [DeliveryNext]_delivery_vars
    PROVE  /\ DInv'
           /\ status' # status => leaders' = {Winner}
           /\ Winner' = Winner
<1>1. OnTheWay' /\ run' = run
  BY StaysOnTheWay DEF DInv
<1>2. Winner' = Winner
  BY <1>1, ScriptStands
<1>3. CASE UNCHANGED rows
  <2>1. RowsOK' /\ OpenRows' /\ ClosedRows'
    BY <1>1, <1>2, <1>3 DEF DInv, rows, RowsOK, OpenRows, ClosedRows, selection
  <2> QED BY <1>1, <1>2, <1>3, <2>1 DEF DInv, rows
<1>4. ASSUME NEW n \in 1 .. Len(events), Handle(n)
      PROVE  /\ RowsOK' /\ OpenRows' /\ ClosedRows'
             /\ status' # status => leaders' = {Winner}
  <2>1. RowsInv
    BY DEF DInv, RowsInv
  <2>2. RowsInv' /\ (status' # status => leaders' = {Winner})
    BY <1>1, <1>4, <2>1, HandleKeeps
  <2> QED BY <2>2 DEF RowsInv
<1>5. UNCHANGED rows \/ \E n \in 1 .. Len(events) : Handle(n)
  BY RowsChangeByHandling DEF DInv
<1> QED BY <1>1, <1>2, <1>3, <1>4, <1>5 DEF DInv

\* The invariant holds throughout every delivery.
THEOREM DeliveryInvariance == DeliverySpec => [](EInv /\ DInv)
<1>1. DInv /\ EInv /\ [DeliveryNext]_delivery_vars => DInv'
  BY DeliveryKeeps
<1> QED BY <1>1, DeliveryStarts, DeliveryRefinesEmitter, EmitterInvariance, PTL
        DEF DeliverySpec

-----------------------------------------------------------------------------
\* Once the terminal event is written the rows hold the run's conclusion, and
\* nothing that arrives late or twice afterwards changes it (ADR-0002; Handle
\* and FinishAsync of RecordInvestigationEventHandler).
THEOREM ResultSurvives == DeliverySpec => []ResultSurvivesDelivery
<1>1. EInv /\ DInv => ResultSurvivesDelivery
  <2> SUFFICES ASSUME DInv, status # "Running" PROVE ResultSurvivesDelivery
    BY DEF ResultSurvivesDelivery
  <2>1. run.concluded \in BOOLEAN
    BY LastRankingRanks DEF DInv
  <2>2. (root_cause # None) = run.concluded
    BY <2>1 DEF DInv, RowsOK, ClosedRows
  <2>3. recommendations = IF run.end = "COMPLETED" THEN Actions ELSE {}
    BY DEF DInv, RowsOK, ClosedRows
  <2> QED BY <2>2, <2>3 DEF DInv, ClosedRows, ResultSurvivesDelivery
<1> QED BY <1>1, DeliveryInvariance, PTL

\* The root cause of a closed investigation is linked to a hypothesis that is a
\* row, whether or not that hypothesis's own event arrived (UpsertRootCause).
THEOREM RootCauseLinked == DeliverySpec => []RootCauseIsLinked
<1>1. EInv /\ DInv => RootCauseIsLinked
  <2> SUFFICES ASSUME DInv, status # "Running", root_cause # None
               PROVE  root_cause.linked /\ root_cause.hypothesis \in DOMAIN hypotheses
    BY DEF RootCauseIsLinked
  <2>1. root_cause.hypothesis = Winner /\ root_cause.linked
    BY DEF DInv, RowsOK, ClosedRows
  <2>2. Winner \in DOMAIN hypotheses
    BY DEF DInv, ClosedRows, selection
  <2> QED BY <2>1, <2>2
<1> QED BY <1>1, DeliveryInvariance, PTL

\* Closing the investigation leaves one hypothesis in first place, whichever of
\* the rounds' events arrived before (Reconcile).
THEOREM OneLeaderAtClosing == DeliverySpec => ClosingLeavesOneLeader
<1>1. ASSUME EInv, DInv, [DeliveryNext]_delivery_vars
      PROVE  [(status = "Running" /\ status' # "Running") => leaders' = {Winner}]_delivery_vars
  BY <1>1, DeliveryKeeps
<1> QED BY <1>1, DeliveryInvariance, PTL DEF DeliverySpec, ClosingLeavesOneLeader

=============================================================================
