------------------------ MODULE ContainerReplacement ------------------------
(***************************************************************************)
(* The two operations of docker-mcp that change a container of the stack:   *)
(* update_env_and_restart, which replaces a container by a copy of itself   *)
(* with another environment, and restart_container.  Each is a series of    *)
(* requests to the Docker daemon, addressed by name, and every one of them  *)
(* can be refused, can time out before or after it took effect, and can be  *)
(* interleaved with the requests of another call for the same container.    *)
(***************************************************************************)
CONSTANTS
  Original,     \* the container that carries the name when the model starts
  Updates,      \* the calls of update_env_and_restart; each creates at most one container
  Restarts      \* the calls of restart_container

ASSUME CallsAssumption ==
  /\ Original \notin Updates
  /\ Restarts \cap (Updates \cup {Original}) = {}

VARIABLES
  name,         \* per container: its own name, the name it is put aside under, or none
  running,      \* the containers that run
  env,          \* per container: the updates whose variables its environment carries
  step,         \* per call: the request it makes next
  subject,      \* per update: the containers it inspected (none, or the one it replaces)
  reply         \* per call: what the caller was told

vars == <<name, running, env, step, subject, reply>>

Containers == Updates \cup {Original}
Calls == Updates \cup Restarts

\* _check_name bounds what a call may name; the model follows the calls for one container.
Named(n) == {k \in Containers : name[k] = n}

\* A request is heard when the daemon's answer arrives, and has effect when the daemon
\* carried it out.  The daemon itself refuses what its own state rules out.
Answers(possible) == IF possible THEN {"ok", "refused", "lost", "unreached"}
                                 ELSE {"refused", "unreached"}
HasEffect(a) == a \in {"ok", "lost"}
IsHeard(a) == a \in {"ok", "refused"}

Init ==
  /\ name = [k \in Containers |-> IF k = Original THEN "own" ELSE "none"]
  /\ running = {Original}
  /\ env = [k \in Containers |-> {}]
  /\ step = [c \in Calls |-> "inspect"]
  /\ subject = [u \in Updates |-> {}]
  /\ reply = [c \in Calls |-> "none"]

GoTo(c, s) == step' = [step EXCEPT ![c] = s] /\ UNCHANGED reply

End(c, r) ==
  /\ step' = [step EXCEPT ![c] = "ended"]
  /\ reply' = [reply EXCEPT ![c] = r]

----------------------------------------------------------------------------
(* update_env_and_restart *)

\* GET /containers/{c}/json: its configuration is what the copy is made from.
Inspect(u) ==
  /\ step[u] = "inspect"
  /\ \/ Named("own") = {} /\ End(u, "no such container") /\ UNCHANGED subject
     \/ End(u, "raised") /\ UNCHANGED subject
     \/ /\ Named("own") # {}
        /\ subject' = [subject EXCEPT ![u] = Named("own")]
        /\ GoTo(u, "rename")
  /\ UNCHANGED <<name, running, env>>

Rename(n, to) == [k \in Containers |-> IF name[k] = n THEN to ELSE name[k]]

\* POST .../rename to {c}-replacing.  Its status is not looked at; an exception ends the call.
PutAside(u) ==
  /\ step[u] = "rename"
  /\ \E a \in Answers(Named("own") # {} /\ Named("aside") = {}) :
       /\ name' = IF HasEffect(a) THEN Rename("own", "aside") ELSE name
       /\ IF IsHeard(a) THEN GoTo(u, "create") ELSE End(u, "raised")
  /\ UNCHANGED <<running, env, subject>>

\* POST /containers/create under the container's own name, which has to be free.
Create(u) ==
  /\ step[u] = "create"
  /\ \E a \in Answers(Named("own") = {}) :
       /\ IF HasEffect(a)
            THEN /\ name' = [name EXCEPT ![u] = "own"]
                 /\ env' = [env EXCEPT ![u] = {u} \cup (UNION {env[k] : k \in subject[u]})]
            ELSE UNCHANGED <<name, env>>
       /\ GoTo(u, IF a = "ok" THEN "stop" ELSE "put back")
  /\ UNCHANGED <<running, subject>>

\* Mutant of Stop: the container set aside is stopped before the new one has started.
StopTheOriginal(u) ==
  /\ step[u] = "stop"
  /\ running' = running \ Named("aside")
  /\ GoTo(u, "start")
  /\ UNCHANGED <<name, env, subject>>

\* POST /containers/{c}/stop, by name.  The name is the new container's by now; the status is
\* not looked at.
Stop(u) ==
  /\ step[u] = "stop"
  /\ \E a \in Answers(Named("own") # {}) :
       /\ running' = IF HasEffect(a) THEN running \ Named("own") ELSE running
       /\ GoTo(u, IF IsHeard(a) THEN "start" ELSE "put back")
  /\ UNCHANGED <<name, env, subject>>

\* Mutant of Start: the answer is not looked at, as with the stop.
StartUnchecked(u) ==
  /\ step[u] = "start"
  /\ \E a \in Answers(name[u] # "none") :
       /\ running' = IF HasEffect(a) THEN running \cup {u} ELSE running
       /\ GoTo(u, IF IsHeard(a) THEN "delete" ELSE "put back")
  /\ UNCHANGED <<name, env, subject>>

\* POST /containers/{new_id}/start, by the id the create answered.
Start(u) ==
  /\ step[u] = "start"
  /\ \E a \in Answers(name[u] # "none") :
       /\ running' = IF HasEffect(a) THEN running \cup {u} ELSE running
       /\ GoTo(u, IF a = "ok" THEN "delete" ELSE "put back")
  /\ UNCHANGED <<name, env, subject>>

\* The except branch: the name is put back, which the daemon refuses while the new container
\* holds it, and the caller is told that the original runs under its own name.
PutBack(u) ==
  /\ step[u] = "put back"
  /\ \E a \in Answers(Named("aside") # {} /\ Named("own") = {}) :
       /\ name' = IF HasEffect(a) THEN Rename("aside", "own") ELSE name
       /\ End(u, IF IsHeard(a) THEN "original left running" ELSE "raised")
  /\ UNCHANGED <<running, env, subject>>

\* DELETE /containers/{c}-replacing, forced.  Its status is not looked at.
Delete(u) ==
  /\ step[u] = "delete"
  /\ \E a \in Answers(Named("aside") # {}) :
       /\ IF HasEffect(a)
            THEN /\ name' = Rename("aside", "none")
                 /\ running' = running \ Named("aside")
            ELSE UNCHANGED <<name, running>>
       /\ End(u, IF IsHeard(a) THEN "applied" ELSE "raised")
  /\ UNCHANGED <<env, subject>>

----------------------------------------------------------------------------
(* restart_container *)

InspectForRestart(r) ==
  /\ step[r] = "inspect"
  /\ \/ Named("own") = {} /\ End(r, "no such container")
     \/ End(r, "raised")
     \/ Named("own") # {} /\ GoTo(r, "restart")
  /\ UNCHANGED <<name, running, env, subject>>

\* POST /containers/{c}/restart.  A daemon that stopped the container and cannot start it again
\* answers with an error, which raise_for_status raises.
Restart(r) ==
  /\ step[r] = "restart"
  /\ \/ \E a \in Answers(Named("own") # {}) :
          /\ running' = IF HasEffect(a) THEN running \cup Named("own") ELSE running
          /\ End(r, IF a = "ok" THEN "restarted" ELSE "raised")
     \/ /\ Named("own") # {}
        /\ running' = running \ Named("own")
        /\ End(r, "stopped and not started")
  /\ UNCHANGED <<name, env, subject>>

----------------------------------------------------------------------------
\* The tool server stops, or cancels the call: what it had not asked for yet is never asked for.
CutOff(c) ==
  /\ step[c] # "ended"
  /\ End(c, "cut off")
  /\ UNCHANGED <<name, running, env, subject>>

Update(u) == Inspect(u) \/ PutAside(u) \/ Create(u) \/ Stop(u) \/ Start(u) \/ PutBack(u) \/ Delete(u)

Next ==
  \/ \E u \in Updates : Update(u)
  \/ \E r \in Restarts : InspectForRestart(r) \/ Restart(r)
  \/ \E c \in Calls : CutOff(c)

Spec == Init /\ [][Next]_vars

----------------------------------------------------------------------------
(* Properties *)

Names == {"own", "aside", "none"}
Steps == {"inspect", "rename", "create", "stop", "start", "put back", "delete", "restart", "ended"}
Replies == {"none", "no such container", "raised", "applied", "original left running",
            "restarted", "stopped and not started", "cut off"}

\* Every variable keeps its type, and a name is never held by two containers.
ContainersTypeOK ==
  /\ name \in [Containers -> Names]
  /\ running \subseteq Containers
  /\ env \in [Containers -> SUBSET Updates]
  /\ step \in [Calls -> Steps]
  /\ subject \in [Updates -> SUBSET Containers]
  /\ reply \in [Calls -> Replies]
  /\ \A j, k \in Containers : name[j] = name[k] /\ name[j] # "none" => j = k

\* Whatever requests are refused or lost, however two updates interleave and wherever the
\* server stops, one container of the service keeps running, unless a restart stopped it and
\* could not start it again: the stop by name never reaches the original.
SomethingRuns ==
  \/ running # {}
  \/ \E r \in Restarts : reply[r] = "stopped and not started"

\* The docstring's promise: a container is removed only when the container of the call that
\* removes it holds the name and runs (or a restart has just failed half-way).
RemovedForASuccessor ==
  [][ \A k \in Containers : name[k] # "none" /\ name'[k] = "none" =>
        \E u \in Updates : /\ step[u] = "delete" /\ k # u
                           /\ name[u] = "own"
                           /\ \/ u \in running
                              \/ \E r \in Restarts : reply[r] = "stopped and not started" ]_vars

=============================================================================
