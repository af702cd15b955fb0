------------------------ MODULE DestructiveCallProofs ------------------------
(***************************************************************************)
(* Proofs about ContainerReplacement and about DestructiveCall, which lets *)
(* its calls through, for any number of updates and restarts, any lifetime *)
(* of a token and any clock.                                               *)
(*                                                                         *)
(* What is set aside is always the container that ran, and it stays until  *)
(* the container of a call that started holds the name, because a          *)
(* container can only be created while the name is free and only be put    *)
(* aside while no other is: between a create and its delete nobody else    *)
(* can take either name (Placed, SomewhereNamed, OldRuns, DeleterRuns).    *)
(*                                                                         *)
(* What runs was approved, because a token that verifies was issued for    *)
(* the very call (OnlyItsOwnToken); a call turned away with its own token  *)
(* was turned away by one of the two checks (TurnedAway), which find in it *)
(* nothing but its age and how its arguments were written                  *)
(* (OwnTokenIsGood); and what runs is ContainerReplacement, so that its    *)
(* theorems hold of the whole.                                             *)
(***************************************************************************)
EXTENDS DestructiveCall, TLAPS

Halted == \E r \in Restarts : reply[r] = "stopped and not started"

Told == \A c \in Calls : reply[c] # "none" => step[c] = "ended"

Placed ==
  \A u \in Updates :
    /\ step[u] \in {"inspect", "rename", "create"} => name[u] = "none"
    /\ step[u] \in {"stop", "start", "delete"} => name[u] = "own" /\ Named("aside") # {}

SomewhereNamed == Named("own") # {} \/ Named("aside") # {}

OldRuns ==
  \/ Halted
  \/ /\ Named("aside") \subseteq running
     /\ Named("aside") = {} => Named("own") \subseteq running

DeleterRuns == Halted \/ \A u \in Updates : step[u] = "delete" => u \in running

IInv == ContainersTypeOK /\ Told /\ Placed /\ SomewhereNamed /\ OldRuns /\ DeleterRuns

\* What every step of a call does to the calls: it moves its own, and no answer is taken back.
Moves(c, s) ==
  /\ step' \in [Calls -> Steps]
  /\ reply' \in [Calls -> Replies]
  /\ step'[c] = s
  /\ \A d \in Calls \ {c} : step'[d] = step[d]
  /\ Told'
  /\ Halted => Halted'

LEMMA GoToMoves ==
  ASSUME ContainersTypeOK, Told, NEW c \in Calls, NEW s \in Steps, step[c] # "ended", GoTo(c, s)
  PROVE  Moves(c, s)
BY DEF Moves, GoTo, ContainersTypeOK, Told, Halted

LEMMA EndMoves ==
  ASSUME ContainersTypeOK, Told, NEW c \in Calls, NEW r \in Replies, step[c] # "ended", End(c, r)
  PROVE  Moves(c, "ended")
<1>1. step' \in [Calls -> Steps] /\ reply' \in [Calls -> Replies]
  BY DEF End, ContainersTypeOK, Steps
<1>2. \A d \in Calls : step'[d] = (IF d = c THEN "ended" ELSE step[d])
  BY DEF End, ContainersTypeOK
<1>3. \A d \in Calls : reply'[d] = (IF d = c THEN r ELSE reply[d])
  BY DEF End, ContainersTypeOK
<1>4. Told'
  BY <1>2, <1>3 DEF Told
<1>5. Halted => Halted'
  BY <1>3 DEF Halted, Told, Calls
<1>. QED BY <1>1, <1>2, <1>4, <1>5 DEF Moves

\* A step that leaves the containers alone keeps the invariant if the call does not come to
\* hold a name or to be about to delete by it.
LEMMA OnlyMoves ==
  ASSUME IInv, UNCHANGED <<name, running, env>>, subject' \in [Updates -> SUBSET Containers],
         NEW c \in Calls, NEW s \in Steps, Moves(c, s),
         c \in Updates =>
            \/ s \in {"put back", "ended"}
            \/ s \in {"rename", "create"} /\ step[c] \in {"inspect", "rename"}
            \/ s = "start" /\ step[c] = "stop"
  PROVE  IInv'
<1>1. ContainersTypeOK'
  BY DEF IInv, ContainersTypeOK, Moves
<1>2. Placed'
  BY DEF IInv, Placed, Moves, Named, Calls
<1>3. SomewhereNamed'
  BY DEF IInv, SomewhereNamed, Named
<1>4. OldRuns'
  BY DEF IInv, OldRuns, Moves, Named
<1>5. DeleterRuns'
  BY DEF IInv, DeleterRuns, Moves, Calls
<1>. QED BY <1>1, <1>2, <1>3, <1>4, <1>5 DEF IInv, Moves

LEMMA InspectKeeps ==
  ASSUME IInv, NEW u \in Updates, Inspect(u)
  PROVE  IInv'
<1>1. subject' \in [Updates -> SUBSET Containers] /\ UNCHANGED <<name, running, env>>
  BY DEF Inspect, IInv, ContainersTypeOK, Named
<1>2. Moves(u, "ended") \/ Moves(u, "rename")
  BY GoToMoves, EndMoves DEF Inspect, IInv, Steps, Replies, Calls
<1>. QED BY <1>1, <1>2, OnlyMoves DEF Inspect, Steps, Calls

LEMMA PutAsideKeeps ==
  ASSUME IInv, NEW u \in Updates, PutAside(u)
  PROVE  IInv'
<1>1. PICK s \in {"create", "ended"} : Moves(u, s)
  BY GoToMoves, EndMoves DEF PutAside, IInv, Steps, Replies, Calls
<1>2. CASE name' = name
  BY <1>1, <1>2, OnlyMoves DEF PutAside, IInv, ContainersTypeOK, Steps, Calls
<1>3. CASE name' # name
  <2>1. /\ name' = Rename("own", "aside") /\ Named("own") # {} /\ Named("aside") = {}
        /\ UNCHANGED <<running, env, subject>> /\ step[u] = "rename"
    BY <1>3 DEF PutAside, Answers, HasEffect
  <2>2. /\ Named("aside")' = Named("own") /\ Named("own")' = {}
    BY <2>1 DEF Named, Rename, IInv, ContainersTypeOK
  <2>3. ContainersTypeOK'
    BY <1>1, <2>1 DEF IInv, ContainersTypeOK, Moves, Rename, Named, Names
  <2>4. Placed'
    BY <1>1, <2>1 DEF IInv, Placed, Moves, Rename, Calls, Containers
  <2>5. OldRuns' /\ SomewhereNamed'
    BY <1>1, <2>1, <2>2 DEF IInv, OldRuns, SomewhereNamed, Moves
  <2>6. DeleterRuns'
    BY <1>1, <2>1 DEF IInv, DeleterRuns, Moves, Calls
  <2>. QED BY <1>1, <2>3, <2>4, <2>5, <2>6 DEF IInv, Moves
<1>. QED BY <1>2, <1>3

LEMMA CreateKeeps ==
  ASSUME IInv, NEW u \in Updates, Create(u)
  PROVE  IInv'
<1>1. PICK a \in {"ok", "refused", "lost", "unreached"} :
        /\ a \in Answers(Named("own") = {})
        /\ IF HasEffect(a)
             THEN /\ name' = [name EXCEPT ![u] = "own"]
                  /\ env' = [env EXCEPT ![u] = {u} \cup UNION {env[k] : k \in subject[u]}]
             ELSE UNCHANGED <<name, env>>
        /\ GoTo(u, IF a = "ok" THEN "stop" ELSE "put back")
        /\ step[u] = "create" /\ UNCHANGED <<running, subject>>
  BY DEF Create, Answers
<1>2. PICK s \in {"stop", "put back"} : Moves(u, s) /\ (s = "stop" => HasEffect(a))
  BY <1>1, GoToMoves DEF IInv, Steps, Calls, HasEffect
<1>3. CASE ~ HasEffect(a)
  BY <1>1, <1>2, <1>3, OnlyMoves DEF IInv, ContainersTypeOK, Steps, Calls
<1>4. CASE HasEffect(a)
  <2>1. Named("own") = {} /\ name[u] = "none" /\ Named("aside") # {}
    BY <1>1, <1>4 DEF Answers, HasEffect, IInv, Placed, SomewhereNamed
  <2>2. name' = [name EXCEPT ![u] = "own"]
    BY <1>1, <1>4
  <2>3. Named("aside")' = Named("aside") /\ Named("own")' = {u}
    <3>1. \A k \in Containers : name'[k] = IF k = u THEN "own" ELSE name[k]
      BY <2>2 DEF IInv, ContainersTypeOK
    <3>2. Named("aside")' = Named("aside")
      BY <2>1, <3>1 DEF Named
    <3>3. u \in Containers /\ \A k \in Containers : name[k] # "own"
      BY <2>1 DEF Named, Containers
    <3>4. Named("own")' = {u}
      BY <3>1, <3>3 DEF Named
    <3>. QED BY <3>2, <3>4
  <2>4. env' \in [Containers -> SUBSET Updates]
    <3>1. env \in [Containers -> SUBSET Updates] /\ subject[u] \subseteq Containers
      BY DEF IInv, ContainersTypeOK
    <3>2. \A k \in subject[u] : env[k] \subseteq Updates
      BY <3>1
    <3>3. {u} \cup UNION {env[k] : k \in subject[u]} \in SUBSET Updates
      BY <3>2
    <3>4. env' = [env EXCEPT ![u] = {u} \cup UNION {env[k] : k \in subject[u]}]
      BY <1>1, <1>4
    <3>. QED BY <3>1, <3>3, <3>4
  <2>5. ContainersTypeOK'
    <3>1. \A j, k \in Containers : name'[j] = name'[k] /\ name'[j] # "none" => j = k
      BY <2>1, <2>2 DEF IInv, ContainersTypeOK, Named
    <3>2. name' \in [Containers -> Names]
      BY <2>2 DEF IInv, ContainersTypeOK, Names
    <3>. QED BY <1>1, <1>2, <2>4, <3>1, <3>2 DEF IInv, ContainersTypeOK, Moves
  <2>6. Placed'
    BY <1>2, <2>1, <2>2, <2>3 DEF IInv, Placed, Moves, Calls, Containers, ContainersTypeOK
  <2>7. OldRuns' /\ SomewhereNamed'
    BY <1>1, <1>2, <2>1, <2>3 DEF IInv, OldRuns, SomewhereNamed, Moves
  <2>8. DeleterRuns'
    BY <1>1, <1>2 DEF IInv, DeleterRuns, Moves, Calls
  <2>. QED BY <1>2, <2>5, <2>6, <2>7, <2>8 DEF IInv, Moves
<1>. QED BY <1>3, <1>4

LEMMA StopKeeps ==
  ASSUME IInv, NEW u \in Updates, Stop(u)
  PROVE  IInv'
<1>1. PICK s \in {"start", "put back"} : Moves(u, s)
  BY GoToMoves DEF Stop, IInv, Steps, Calls
<1>2. step[u] = "stop" /\ UNCHANGED <<name, env, subject>>
  BY DEF Stop
<1>3. CASE running' = running
  BY <1>1, <1>2, <1>3, OnlyMoves DEF IInv, ContainersTypeOK, Steps, Calls
<1>4. CASE running' # running
  <2>1. running' = running \ Named("own")
    BY <1>4 DEF Stop
  <2>2. name[u] = "own" /\ Named("own") = {u} /\ Named("aside") # {}
    BY <1>2 DEF IInv, Placed, ContainersTypeOK, Named, Containers
  <2>3. ContainersTypeOK'
    BY <1>1, <1>2, <2>1 DEF IInv, ContainersTypeOK, Moves
  <2>4. Placed' /\ SomewhereNamed'
    BY <1>1, <1>2 DEF IInv, Placed, SomewhereNamed, Moves, Calls, Named
  <2>5. OldRuns'
    <3>1. Named("aside") \cap Named("own") = {}
      BY DEF Named
    <3>2. Named("aside")' = Named("aside")
      BY <1>2 DEF Named
    <3>. QED BY <1>1, <2>1, <2>2, <3>1, <3>2 DEF IInv, OldRuns, Moves
  <2>6. DeleterRuns'
    <3>1. \A v \in Updates : step[v] = "delete" => v \notin Named("own")
      BY <1>2, <2>2 DEF IInv, Placed
    <3>. QED BY <1>1, <2>1, <3>1 DEF IInv, DeleterRuns, Moves, Calls
  <2>. QED BY <1>1, <2>3, <2>4, <2>5, <2>6 DEF IInv, Moves
<1>. QED BY <1>3, <1>4

LEMMA StartKeeps ==
  ASSUME IInv, NEW u \in Updates, Start(u)
  PROVE  IInv'
<1>1. PICK s \in {"delete", "put back"} : Moves(u, s) /\ (s = "delete" => u \in running')
  BY GoToMoves DEF Start, IInv, Steps, Calls, HasEffect
<1>2. /\ step[u] = "start" /\ UNCHANGED <<name, env, subject>>
      /\ running \subseteq running' /\ running' \subseteq running \cup {u}
  BY DEF Start
<1>3. ContainersTypeOK'
  BY <1>1, <1>2 DEF IInv, ContainersTypeOK, Moves, Containers
<1>4. Placed' /\ SomewhereNamed'
  BY <1>1, <1>2 DEF IInv, Placed, SomewhereNamed, Moves, Calls, Named
<1>5. OldRuns'
  BY <1>1, <1>2 DEF IInv, OldRuns, Moves, Named
<1>6. DeleterRuns'
  BY <1>1, <1>2 DEF IInv, DeleterRuns, Moves, Calls
<1>. QED BY <1>1, <1>3, <1>4, <1>5, <1>6 DEF IInv, Moves

LEMMA PutBackKeeps ==
  ASSUME IInv, NEW u \in Updates, PutBack(u)
  PROVE  IInv'
<1>1. Moves(u, "ended")
  BY EndMoves DEF PutBack, IInv, Replies, Calls
<1>2. UNCHANGED <<running, env, subject>>
  BY DEF PutBack
<1>3. CASE name' = name
  BY <1>1, <1>2, <1>3, OnlyMoves DEF IInv, ContainersTypeOK, Steps, Calls
<1>4. CASE name' # name
  <2>1. name' = Rename("aside", "own") /\ Named("aside") # {} /\ Named("own") = {}
    BY <1>4 DEF PutBack, Answers, HasEffect
  <2>2. Named("own")' = Named("aside") /\ Named("aside")' = {}
    BY <2>1 DEF Named, Rename, IInv, ContainersTypeOK
  <2>3. ContainersTypeOK'
    BY <1>1, <1>2, <2>1 DEF IInv, ContainersTypeOK, Moves, Rename, Named, Names
  <2>4. Placed'
    <3>1. \A v \in Updates : step[v] \notin {"stop", "start", "delete"}
      BY <2>1 DEF IInv, Placed, Named, Containers
    <3>2. \A v \in Updates : name[v] = "none" => name'[v] = "none"
      BY <2>1 DEF Rename, Containers
    <3>. QED BY <1>1, <3>1, <3>2 DEF IInv, Placed, Moves, Calls
  <2>5. OldRuns' /\ SomewhereNamed'
    BY <1>1, <1>2, <2>1, <2>2 DEF IInv, OldRuns, SomewhereNamed, Moves
  <2>6. DeleterRuns'
    BY <1>1, <1>2 DEF IInv, DeleterRuns, Moves, Calls
  <2>. QED BY <1>1, <2>3, <2>4, <2>5, <2>6 DEF IInv, Moves
<1>. QED BY <1>3, <1>4

\* What a delete takes away is another container than the one that holds the name and runs.
LEMMA DeleteSpares ==
  ASSUME IInv, NEW u \in Updates, step[u] = "delete"
  PROVE  /\ Named("own") = {u} /\ u \notin Named("aside")
         /\ Halted \/ u \in running
         /\ \A v \in Updates \ {u} : step[v] \notin {"stop", "start", "delete"}
BY DEF IInv, Placed, DeleterRuns, ContainersTypeOK, Named, Containers

LEMMA DeleteKeeps ==
  ASSUME IInv, NEW u \in Updates, Delete(u)
  PROVE  IInv'
<1>1. Moves(u, "ended")
  BY EndMoves DEF Delete, IInv, Replies, Calls
<1>2. step[u] = "delete" /\ UNCHANGED <<env, subject>>
  BY DEF Delete
<1>3. CASE UNCHANGED <<name, running>>
  BY <1>1, <1>2, <1>3, OnlyMoves DEF IInv, ContainersTypeOK, Steps, Calls
<1>4. CASE name' = Rename("aside", "none") /\ running' = running \ Named("aside")
  <2>1. Named("own")' = {u} /\ Named("aside")' = {}
    BY <1>2, <1>4, DeleteSpares DEF Named, Rename, IInv, ContainersTypeOK
  <2>2. ContainersTypeOK'
    BY <1>1, <1>2, <1>4 DEF IInv, ContainersTypeOK, Moves, Rename, Names
  <2>3. Placed'
    <3>1. \A v \in Updates : name[v] = "none" => name'[v] = "none"
      BY <1>4 DEF Rename, Containers
    <3>. QED BY <1>1, <1>2, <3>1, DeleteSpares DEF IInv, Placed, Moves, Calls
  <2>4. OldRuns' /\ SomewhereNamed'
    BY <1>1, <1>2, <1>4, <2>1, DeleteSpares DEF OldRuns, SomewhereNamed, Moves
  <2>5. DeleterRuns'
    BY <1>1, <1>2, DeleteSpares DEF DeleterRuns, Moves, Calls
  <2>. QED BY <1>1, <2>2, <2>3, <2>4, <2>5 DEF IInv, Moves
<1>. QED BY <1>3, <1>4 DEF Delete

LEMMA RestartsApart ==
  ASSUME NEW r \in Restarts
  PROVE  r \in Calls /\ r \notin Updates
BY CallsAssumption DEF Calls

LEMMA InspectForRestartKeeps ==
  ASSUME IInv, NEW r \in Restarts, InspectForRestart(r)
  PROVE  IInv'
<1>1. PICK s \in {"ended", "restart"} : Moves(r, s)
  BY GoToMoves, EndMoves, RestartsApart DEF InspectForRestart, IInv, Steps, Replies
<1>. QED BY <1>1, OnlyMoves, RestartsApart
     DEF InspectForRestart, IInv, ContainersTypeOK, Steps

LEMMA RestartKeeps ==
  ASSUME IInv, NEW r \in Restarts, Restart(r)
  PROVE  IInv'
<1>1. Moves(r, "ended")
  BY EndMoves, RestartsApart DEF Restart, IInv, Replies
<1>2. UNCHANGED <<name, env, subject>>
  BY DEF Restart
<1>3. \/ running' = running
      \/ running' = running \cup Named("own")
      \/ running' = running \ Named("own") /\ Halted'
  BY DEF Restart, End, Halted, IInv, ContainersTypeOK, Calls
<1>4. ContainersTypeOK'
  BY <1>1, <1>2, <1>3 DEF IInv, ContainersTypeOK, Moves, Named
<1>5. Placed' /\ SomewhereNamed'
  BY <1>1, <1>2, RestartsApart DEF IInv, Placed, SomewhereNamed, Moves, Calls, Named
<1>6. OldRuns'
  BY <1>1, <1>2, <1>3 DEF IInv, OldRuns, Moves, Named
<1>7. DeleterRuns'
  BY <1>1, <1>3, RestartsApart DEF IInv, DeleterRuns, Moves, Calls
<1>. QED BY <1>1, <1>4, <1>5, <1>6, <1>7 DEF IInv, Moves

LEMMA CutOffKeeps ==
  ASSUME IInv, NEW c \in Calls, CutOff(c)
  PROVE  IInv'
<1>1. Moves(c, "ended")
  BY EndMoves DEF CutOff, IInv, Replies
<1>. QED BY <1>1, OnlyMoves DEF CutOff, IInv, ContainersTypeOK, Steps

\* The invariant holds at the start and at every step.
THEOREM ContainersSafe == Spec => []IInv
<1>1. Init => IInv
  <2>. SUFFICES ASSUME Init PROVE IInv
    OBVIOUS
  <2>1. Named("own") = {Original} /\ Named("aside") = {}
    BY DEF Init, Named, Containers
  <2>2. ContainersTypeOK
    BY DEF Init, ContainersTypeOK, Names, Steps, Replies, Containers
  <2>3. Told /\ Placed
    BY CallsAssumption DEF Init, Told, Placed, Containers, Calls
  <2>. QED BY <2>1, <2>2, <2>3 DEF Init, IInv, SomewhereNamed, OldRuns, DeleterRuns, Calls
<1>2. IInv /\ [Next]_vars => IInv'
  <2>. SUFFICES ASSUME IInv, [Next]_vars PROVE IInv'
    OBVIOUS
  <2>1. ASSUME NEW u \in Updates, Update(u) PROVE IInv'
    BY <2>1, InspectKeeps, PutAsideKeeps, CreateKeeps, StopKeeps, StartKeeps, PutBackKeeps,
       DeleteKeeps DEF Update
  <2>2. ASSUME NEW r \in Restarts, InspectForRestart(r) \/ Restart(r) PROVE IInv'
    BY <2>2, InspectForRestartKeeps, RestartKeeps
  <2>3. CASE UNCHANGED vars
    BY <2>3 DEF vars, IInv, ContainersTypeOK, Told, Placed, SomewhereNamed, OldRuns, DeleterRuns,
       Halted, Named
  <2>. QED BY <2>1, <2>2, <2>3, CutOffKeeps DEF Next
<1>. QED BY <1>1, <1>2, PTL DEF Spec

\* Every variable keeps its type, and no name is ever held by two containers.
THEOREM ContainersTypeCorrect == Spec => []ContainersTypeOK
<1>1. IInv => ContainersTypeOK
  BY DEF IInv
<1>. QED BY <1>1, ContainersSafe, PTL

\* Whatever the daemon refuses or loses and however many updates interleave, the service keeps
\* a running container unless a restart stopped it and could not start it again.
THEOREM ServiceKeepsRunning == Spec => []SomethingRuns
<1>1. IInv => SomethingRuns
  BY DEF IInv, SomethingRuns, OldRuns, SomewhereNamed, Halted
<1>. QED BY <1>1, ContainersSafe, PTL

\* A container is only ever removed by an update whose own container holds the name and runs.
THEOREM RemovalNeedsASuccessor == Spec => RemovedForASuccessor
<1>. DEFINE Succeeded ==
       \A k \in Containers : name[k] # "none" /\ name'[k] = "none" =>
          \E u \in Updates : /\ step[u] = "delete" /\ k # u
                             /\ name[u] = "own"
                             /\ \/ u \in running
                                \/ \E r \in Restarts : reply[r] = "stopped and not started"
<1>1. IInv /\ [Next]_vars => [Succeeded]_vars
  <2>. SUFFICES ASSUME IInv, Next, NEW k \in Containers, name[k] # "none", name'[k] = "none"
                PROVE  \E u \in Updates : /\ step[u] = "delete" /\ k # u
                                          /\ name[u] = "own"
                                          /\ u \in running \/ Halted
    BY DEF Halted
  <2>1. ASSUME NEW u \in Updates, Update(u) PROVE Delete(u) /\ name[k] = "aside"
    <3>1. \A n \in {"own", "aside"}, to \in {"own", "aside"} : Rename(n, to)[k] # "none"
      BY DEF Rename
    <3>2. ~ Inspect(u) /\ ~ Stop(u) /\ ~ Start(u)
      BY DEF Inspect, Stop, Start
    <3>3. ~ PutAside(u) /\ ~ PutBack(u)
      BY <3>1 DEF PutAside, PutBack
    <3>4. ~ Create(u)
      BY DEF Create, IInv, ContainersTypeOK
    <3>5. Delete(u)
      BY <2>1, <3>2, <3>3, <3>4 DEF Update
    <3>. QED BY <3>5 DEF Delete, Rename
  <2>2. ASSUME NEW u \in Updates, Delete(u), name[k] = "aside"
        PROVE  step[u] = "delete" /\ k # u /\ name[u] = "own" /\ (u \in running \/ Halted)
    BY <2>2, DeleteSpares DEF Delete, Named
  <2>3. /\ \A c \in Calls : ~ CutOff(c)
        /\ \A r \in Restarts : ~ InspectForRestart(r) /\ ~ Restart(r)
    BY DEF CutOff, InspectForRestart, Restart
  <2>. QED BY <2>1, <2>2, <2>3 DEF Next
<1>. QED BY <1>1, ContainersSafe, PTL DEF Spec, RemovedForASuccessor

-----------------------------------------------------------------------------
(* The gate. *)

GateStates == {"idle", "sent", "running", "ended"}

GateTypes ==
  /\ now \in Nat
  /\ expiry \in [Calls -> Nat]
  /\ gate \in [Calls -> GateStates]
  /\ started \in [Calls -> Nat]

GateInv == GateTypes /\ RanAsApproved

\* A token that verifies was issued for the very call.
LEMMA OnlyItsOwnToken ==
  ASSUME NEW c \in Calls, NEW t, t = NoToken \/ t \in Calls,
         ServerVerifies(t, Tool(c), Arguments(c) \cup {"approval_token"})
  PROVE  t = c /\ expiry[c] > now
<1>1. t \in Calls /\ Grant(t).exp > now
      /\ Grant(t).args = ServerHash(Arguments(c) \cup {"approval_token"})
  BY DEF ServerVerifies
<1>2. Grant(t).args = Minted(minter[t], {t})
  BY DEF Grant, Arguments
<1>3. \E form : Grant(t).args = {<<t, form>>}
  <2>1. CASE minter[t] = "backend"
    BY <1>2, <2>1 DEF Minted, HashArguments
  <2>2. CASE minter[t] # "backend"
    <3>1. {t} \ {"approval_token"} = {t}
      BY <1>1, GateAssumption
    <3>. QED BY <1>2, <2>2, <3>1 DEF Minted, PolicyHash
  <2>. QED BY <2>1, <2>2
<1>4. ServerHash(Arguments(c) \cup {"approval_token"}) = {<<c, "compact">>}
  <2>1. (Arguments(c) \cup {"approval_token"}) \ {"approval_token"} = {c}
    BY GateAssumption DEF Arguments
  <2>. QED BY <2>1 DEF ServerHash
<1>5. t = c
  <2>1. PICK form : {<<t, form>>} = {<<c, "compact">>}
    BY <1>1, <1>3, <1>4
  <2>2. <<t, form>> = <<c, "compact">>
    BY <2>1
  <2>. QED BY <2>2
<1>. QED BY <1>1, <1>5 DEF Grant

TokensCarried == \A c \in Calls : carried[c] = NoToken \/ carried[c] \in Calls

LEMMA GateStep ==
  ASSUME GateInv, TokensCarried, carried \in [Calls -> Calls \cup {NoToken}], [GateNext]_allVars
  PROVE  GateInv' /\ TokensCarried' /\ carried' \in [Calls -> Calls \cup {NoToken}]
<1>1. ASSUME NEW c \in Calls, Issue(c) PROVE GateInv'
  <2>1. now + Lifetime \in Nat /\ now + Lifetime >= expiry[c]
    BY <1>1, GateAssumption DEF Issue, GateInv, GateTypes
  <2>2. expiry' = [expiry EXCEPT ![c] = now + Lifetime] /\ UNCHANGED <<now, gate, started>>
    BY <1>1 DEF Issue
  <2>3. GateTypes'
    BY <2>1, <2>2 DEF GateInv, GateTypes
  <2>4. RanAsApproved'
    BY <2>1, <2>2 DEF GateInv, GateTypes, RanAsApproved, Never
  <2>. QED BY <2>3, <2>4 DEF GateInv
<1>2. ASSUME NEW c \in Calls, Guarded(c) PROVE GateInv'
  <2>1. CASE UNCHANGED started
    BY <1>2, <2>1 DEF Guarded, GateInv, GateTypes, GateStates, RanAsApproved, Never
  <2>2. CASE ~ UNCHANGED started
    <3>1. /\ ServerVerifies(carried[c], Tool(c), Arguments(c) \cup {"approval_token"})
          /\ started' = [started EXCEPT ![c] = now]
      BY <1>2, <2>2 DEF Guarded
    <3>2. now < expiry[c]
      BY <3>1, OnlyItsOwnToken DEF TokensCarried, GateInv, GateTypes
    <3>3. UNCHANGED <<now, expiry>> /\ gate' \in [Calls -> GateStates]
      BY <1>2 DEF Guarded, GateInv, GateTypes, GateStates
    <3>. QED BY <3>1, <3>2, <3>3 DEF GateInv, GateTypes, RanAsApproved, Never
  <2>. QED BY <2>1, <2>2
<1>3. ASSUME NEW c \in Calls, Call(c) \/ CallDirectly(c) \/ Body(c) \/ GiveUp(c) PROVE GateInv'
  <2>1. UNCHANGED <<now, expiry, started>>
    BY <1>3 DEF Call, CallDirectly, Body, GiveUp
  <2>2. gate' \in [Calls -> GateStates]
    BY <1>3 DEF Call, CallDirectly, Body, GiveUp, GateInv, GateTypes, GateStates
  <2>. QED BY <2>1, <2>2 DEF GateInv, GateTypes, RanAsApproved, Never
<1>4. ASSUME Tick \/ Discovered PROVE GateInv'
  BY <1>4 DEF Tick, Discovered, GateInv, GateTypes, RanAsApproved, Never
<1>5. ASSUME UNCHANGED allVars PROVE GateInv'
  BY <1>5 DEF allVars, gateVars, GateInv, GateTypes, RanAsApproved, Never
<1>6. GateInv'
  BY <1>1, <1>2, <1>3, <1>4, <1>5 DEF GateNext
<1>7. carried' \in [Calls -> Calls \cup {NoToken}]
  <2>1. ASSUME NEW c \in Calls, Issue(c) \/ Guarded(c) \/ Body(c) \/ GiveUp(c)
        PROVE  carried' \in [Calls -> Calls \cup {NoToken}]
    BY <2>1 DEF Issue, Guarded, Body, GiveUp
  <2>2. ASSUME NEW c \in Calls, Call(c) \/ CallDirectly(c)
        PROVE  carried' \in [Calls -> Calls \cup {NoToken}]
    BY <2>2 DEF Call, CallDirectly, Tokens
  <2>3. CASE Tick \/ Discovered \/ UNCHANGED allVars
    BY <2>3 DEF Tick, Discovered, allVars, gateVars
  <2>. QED BY <2>1, <2>2, <2>3 DEF GateNext
<1>. QED BY <1>6, <1>7 DEF TokensCarried

\* Whoever calls, and however stale the catalogue, every body that began had been approved for
\* this tool and these arguments and had not expired.
THEOREM EveryRunWasApproved == GateSpec => []RanAsApproved
<1>. DEFINE Inv == GateInv /\ TokensCarried /\ carried \in [Calls -> Calls \cup {NoToken}]
<1>1. GateInit => Inv
  BY GateAssumption DEF GateInit, GateInv, GateTypes, GateStates, RanAsApproved, TokensCarried,
     Never
<1>2. Inv /\ [GateNext]_allVars => Inv'
  BY GateStep
<1>3. Inv => RanAsApproved
  BY DEF GateInv
<1>. QED BY <1>1, <1>2, <1>3, PTL DEF GateSpec

\* The gate only chooses when a body runs: what it does to the containers is
\* ContainerReplacement's specification.
THEOREM GateImplementsReplacement == GateSpec => Spec
<1>1. GateInit => Init
  BY DEF GateInit
<1>2. [GateNext]_allVars => [Next]_vars
  <2>1. ASSUME NEW c \in Calls, Body(c) PROVE Next
    BY <2>1 DEF Body, Next, Calls
  <2>2. ASSUME NEW c \in Calls, Issue(c) \/ Call(c) \/ CallDirectly(c) \/ Guarded(c) \/ GiveUp(c)
        PROVE  UNCHANGED vars
    BY <2>2 DEF Issue, Call, CallDirectly, Guarded, GiveUp, containerVars, vars
  <2>3. CASE Tick \/ Discovered \/ UNCHANGED allVars
    BY <2>3 DEF Tick, Discovered, allVars, containerVars, vars
  <2>. QED BY <2>1, <2>2, <2>3 DEF GateNext
<1>. QED BY <1>1, <1>2, PTL DEF GateSpec, Spec

\* However the calls are approved, repeated, given up or made behind the client's back, the
\* service keeps a running container.
THEOREM GatedServiceKeepsRunning == GateSpec => []SomethingRuns
BY GateImplementsReplacement, ServiceKeepsRunning

-----------------------------------------------------------------------------
(* The three hashes. *)

\* Turned away with a token, a call is refused by the policy or by the guard.
LEMMA TurnedAway ==
  ASSUME GateTypes, carried \in [Calls -> Calls \cup {NoToken}], [GateNext]_allVars,
         NEW c \in Calls, gate[c] # "ended", gate'[c] = "ended", carried'[c] = c,
         NoToken \notin Calls, \A d \in Calls : gate[d] = "running" => carried[d] = NoToken
  PROVE  \/ gate[c] = "idle" /\ Decision(c, c) # "allowed"
         \/ ~ ServerVerifies(c, Tool(c), Arguments(c) \cup {"approval_token"})
<1>. USE DEF GateTypes
<1>1. ASSUME NEW d \in Calls, Issue(d) \/ CallDirectly(d) PROVE FALSE
  BY <1>1 DEF Issue, CallDirectly
<1>2. ASSUME NEW d \in Calls, Call(d) PROVE gate[c] = "idle" /\ Decision(c, c) # "allowed"
  <2>1. PICK t \in Tokens :
          /\ carried' = [carried EXCEPT ![d] = t]
          /\ \/ Decision(d, t) = "allowed" /\ gate' = [gate EXCEPT ![d] = "sent"]
             \/ Decision(d, t) # "allowed" /\ gate' = [gate EXCEPT ![d] = "ended"]
    BY <1>2 DEF Call
  <2>2. gate[d] = "idle"
    BY <1>2 DEF Call
  <2>3. d = c
    BY <2>1
  <2>4. t = c /\ Decision(d, t) # "allowed"
    BY <2>1, <2>3
  <2>. QED BY <2>2, <2>3, <2>4
<1>3. ASSUME NEW d \in Calls, Guarded(d)
      PROVE  ~ ServerVerifies(c, Tool(c), Arguments(c) \cup {"approval_token"})
  <2>1. d = c /\ ~ ServerVerifies(carried[c], Tool(c), Arguments(c) \cup {"approval_token"})
        /\ carried' = carried
    BY <1>3 DEF Guarded
  <2>. QED BY <2>1
<1>4. ASSUME NEW d \in Calls, Body(d) PROVE FALSE
  <2>1. gate[d] = "running" /\ carried' = carried
        /\ (gate' = gate \/ gate' = [gate EXCEPT ![d] = "ended"])
    BY <1>4 DEF Body
  <2>. QED BY <2>1
<1>5. ASSUME NEW d \in Calls, GiveUp(d) PROVE FALSE
  <2>1. CASE gate' = gate
    BY <2>1
  <2>2. CASE gate' = [gate EXCEPT ![d] = "ended"]
    <3>1. d = c
      BY <2>2
    <3>2. carried' = [carried EXCEPT ![c] = NoToken]
      BY <1>5, <3>1 DEF GiveUp
    <3>. QED BY <3>2
  <2>. QED BY <1>5, <2>1, <2>2 DEF GiveUp
<1>6. CASE Tick \/ Discovered \/ UNCHANGED allVars
  BY <1>6 DEF Tick, Discovered, allVars, gateVars
<1>. QED BY <1>1, <1>2, <1>3, <1>4, <1>5, <1>6 DEF GateNext

\* While a body runs nothing is carried: the guard has taken the token.
TokenTaken == \A c \in Calls : gate[c] = "running" => carried[c] = NoToken

LEMMA TakenStep ==
  ASSUME GateTypes, carried \in [Calls -> Calls \cup {NoToken}], TokenTaken, [GateNext]_allVars
  PROVE  TokenTaken'
<1>. USE DEF GateTypes, TokenTaken
<1>1. ASSUME NEW c \in Calls, Issue(c) PROVE TokenTaken'
  BY <1>1 DEF Issue
<1>2. ASSUME NEW c \in Calls, Call(c) PROVE TokenTaken'
  <2>1. PICK t \in Tokens :
          /\ carried' = [carried EXCEPT ![c] = t]
          /\ \/ gate' = [gate EXCEPT ![c] = "sent"]
             \/ gate' = [gate EXCEPT ![c] = "ended"]
    BY <1>2 DEF Call
  <2>. QED BY <2>1
<1>3. ASSUME NEW c \in Calls, CallDirectly(c) PROVE TokenTaken'
  BY <1>3 DEF CallDirectly
<1>4. ASSUME NEW c \in Calls, Guarded(c) PROVE TokenTaken'
  BY <1>4 DEF Guarded
<1>5. ASSUME NEW c \in Calls, Body(c) PROVE TokenTaken'
  <2>1. carried' = carried /\ (gate' = gate \/ gate' = [gate EXCEPT ![c] = "ended"])
    BY <1>5 DEF Body
  <2>. QED BY <2>1
<1>6. ASSUME NEW c \in Calls, GiveUp(c) PROVE TokenTaken'
  <2>1. \/ gate' = gate /\ (carried' = carried \/ carried' = [carried EXCEPT ![c] = NoToken])
        \/ gate' = [gate EXCEPT ![c] = "ended"]
           /\ (carried' = carried \/ carried' = [carried EXCEPT ![c] = NoToken])
    BY <1>6 DEF GiveUp
  <2>. QED BY <2>1
<1>7. CASE Tick \/ Discovered \/ UNCHANGED allVars
  BY <1>7 DEF Tick, Discovered, allVars, gateVars
<1>. QED BY <1>1, <1>2, <1>3, <1>4, <1>5, <1>6, <1>7 DEF GateNext

\* Written alike by the minter and the verifiers, the arguments hash alike.
LEMMA OwnTokenIsGood ==
  ASSUME NEW c \in Calls, ~ (minter[c] = "backend" /\ c \in Nested)
  PROVE  /\ Grant(c).args = PolicyHash(Arguments(c))
         /\ Grant(c).args = ServerHash(Arguments(c) \cup {"approval_token"})
         /\ Grant(c).tool = Tool(c) /\ Grant(c).exp = expiry[c] /\ c # NoToken
<1>1. Arguments(c) \ {"approval_token"} = {c}
      /\ (Arguments(c) \cup {"approval_token"}) \ {"approval_token"} = {c}
  BY GateAssumption DEF Arguments
<1>2. PolicyHash(Arguments(c)) = {<<c, "compact">>}
      /\ ServerHash(Arguments(c) \cup {"approval_token"}) = {<<c, "compact">>}
  BY <1>1 DEF PolicyHash, ServerHash
<1>3. Minted(minter[c], Arguments(c)) = {<<c, "compact">>}
  <2>1. CASE minter[c] = "backend"
    BY <2>1 DEF Minted, HashArguments, Arguments
  <2>2. CASE minter[c] # "backend"
    BY <1>2, <2>2 DEF Minted
  <2>. QED BY <2>1, <2>2
<1>. QED BY <1>2, <1>3, GateAssumption DEF Grant

\* What is not later is earlier or the same.
LEMMA NotLater ==
  ASSUME NEW m \in Nat, NEW n \in Nat, ~ (m > n)
  PROVE  m <= n
OBVIOUS

\* An approval opens the call it was given for: with its own token a call is turned away, by the
\* policy or by the tool server, only for the token's age, a catalogue without the tool, or
\* nested arguments that the backend wrote down another way (HashArguments, hash_arguments).
THEOREM ApprovalsOpenTheirCalls == GateSpec => ApprovalOpensItsCall
<1>. DEFINE Inv == /\ GateInv /\ TokensCarried /\ carried \in [Calls -> Calls \cup {NoToken}]
                   /\ TokenTaken
<1>1. GateInit => Inv
  BY GateAssumption DEF GateInit, GateInv, GateTypes, GateStates, RanAsApproved, TokensCarried,
     Never, TokenTaken
<1>2. Inv /\ [GateNext]_allVars => Inv'
  BY GateStep, TakenStep DEF GateInv
<1>3. ASSUME Inv, [GateNext]_allVars
      PROVE  [ \A c \in Calls :
                 gate[c] # "ended" /\ gate'[c] = "ended" /\ carried'[c] = c
                 => \/ expiry[c] <= now
                    \/ gate[c] = "idle" /\ catalogue = "absent"
                    \/ minter[c] = "backend" /\ c \in Nested ]_allVars
  <2>. SUFFICES ASSUME NEW c \in Calls, gate[c] # "ended", gate'[c] = "ended", carried'[c] = c,
                       ~ (gate[c] = "idle" /\ catalogue = "absent"),
                       ~ (minter[c] = "backend" /\ c \in Nested)
                PROVE  expiry[c] <= now
    OBVIOUS
  <2>1. \/ gate[c] = "idle" /\ Decision(c, c) # "allowed"
        \/ ~ ServerVerifies(c, Tool(c), Arguments(c) \cup {"approval_token"})
    BY <1>3, TurnedAway, GateAssumption DEF GateInv, TokenTaken
  <2>2. ~ (expiry[c] > now)
    BY <2>1, OwnTokenIsGood DEF Decision, PolicyVerifies, ServerVerifies
  <2>3. expiry[c] \in Nat /\ now \in Nat
    BY <1>3 DEF GateInv, GateTypes
  <2>. QED BY <2>2, <2>3, NotLater
<1>. QED BY <1>1, <1>2, <1>3, PTL DEF GateSpec, ApprovalOpensItsCall

=============================================================================
