--------------------------- MODULE DestructiveCall ---------------------------
(***************************************************************************)
(* A call of a destructive tool, from the approval to the container: the    *)
(* backend, or the issuing half of the AI service, mints a token for one    *)
(* tool with one set of arguments, the AI service's policy checks it        *)
(* against its catalogue and the call, and the tool server checks it again  *)
(* before the tool's body (ContainerReplacement) runs.  Between the checks  *)
(* time passes, servers come and go, discovery passes overlap and the       *)
(* client gives up; and the tool server can be called by others than the    *)
(* AI service.                                                              *)
(***************************************************************************)
EXTENDS ContainerReplacement, Naturals, TLC

CONSTANTS
  Lifetime,     \* how long a token is good for
  MaxNow,       \* bounds the clock
  NoToken

ASSUME GateAssumption ==
  /\ Lifetime \in Nat \ {0} /\ MaxNow \in Nat
  /\ NoToken \notin Calls /\ "approval_token" \notin Calls

VARIABLES
  now,
  expiry,       \* per call: when the token approved for its tool and arguments expires; 0: none
  catalogue,    \* what the last pass to end left: the tool as a destructive one, or absent
  minter,       \* per call: who minted that token
  carried,      \* per call: whose token it carries, and if refused, was refused with
  gate,         \* per call: where it is
  started,      \* per call: when its body began; MaxNow + 1: never
  told          \* per call: what the caller was told

gateVars == <<now, expiry, minter, catalogue, carried, gate, started, told>>
containerVars == <<name, running, env, step, subject, reply>>
allVars == <<containerVars, gateVars>>

Never == MaxNow + 1

\* The qualified name of what a call calls, and its arguments, which every call has its own of.
\* Those of an update hold an environment, an object; those of a restart are plain.
Tool(c) == IF c \in Updates THEN "docker-mcp/update_env_and_restart"
                            ELSE "docker-mcp/restart_container"
Arguments(c) == {c}
Nested == Updates

\* Three programs write a call's arguments down and hash the text: a hash is what was written
\* and how.  The two verifiers leave out the token, which travels among the arguments, and
\* write without a space.  The backend, when it mints the token, writes a nested value as the
\* recommendation's jsonb column gives it, with a space after each colon.
PolicyHash(arguments) == {<<a, "compact">> : a \in arguments \ {"approval_token"}}

\* Mutant of ServerHash: the token is hashed with the rest.
ServerHashOfAll(arguments) == {<<a, "compact">> : a \in arguments}

ServerHash(arguments) == {<<a, "compact">> : a \in arguments \ {"approval_token"}}

HashArguments(arguments) ==
  {<<a, IF a \in Nested THEN "as stored" ELSE "compact">> : a \in arguments}

Minters == {"backend", "ai-service"}
Minted(by, arguments) == IF by = "backend" THEN HashArguments(arguments) ELSE PolicyHash(arguments)

\* The token approved for call c.
Grant(c) == [tool |-> Tool(c), args |-> Minted(minter[c], Arguments(c)), exp |-> expiry[c]]

PolicyVerifies(t, tool, arguments) ==
  /\ t # NoToken
  /\ Grant(t).exp > now
  /\ Grant(t).tool = tool
  /\ Grant(t).args = PolicyHash(arguments)

\* Mutant of ServerVerifies: any token of the backend's will do, as with a shared secret.
ServerKnowsSecret(t, tool, arguments) == t # NoToken /\ Grant(t).exp > now

ServerVerifies(t, tool, arguments) ==
  /\ t # NoToken
  /\ Grant(t).exp > now
  /\ Grant(t).tool = tool
  /\ Grant(t).args = ServerHash(arguments)

GateInit ==
  /\ Init
  /\ now = 0
  /\ expiry = [c \in Calls |-> 0]
  /\ minter = [c \in Calls |-> "nobody"]
  /\ catalogue = "absent"
  /\ carried = [c \in Calls |-> NoToken]
  /\ gate = [c \in Calls |-> "idle"]
  /\ started = [c \in Calls |-> Never]
  /\ told = [c \in Calls |-> "none"]

----------------------------------------------------------------------------
(* Approval, time and discovery *)

\* A person approves the action and the backend mints its token, or a driver of the AI service
\* has its issuing half mint one; once it has expired, so can the next.
Issue(c) ==
  /\ expiry[c] <= now
  /\ gate[c] = "idle"
  /\ expiry' = [expiry EXCEPT ![c] = now + Lifetime]
  /\ \E by \in Minters : minter' = [minter EXCEPT ![c] = by]
  /\ UNCHANGED <<containerVars, now, catalogue, carried, gate, started, told>>

Tick ==
  /\ now < MaxNow
  /\ now' = now + 1
  /\ UNCHANGED <<containerVars, expiry, minter, catalogue, carried, gate, started, told>>

\* A discovery pass ends and replaces the whole catalogue.  A server that did not answer leaves
\* its tools out, and passes overlap: what comes last may be what was asked first.
Discovered ==
  /\ \E answered \in BOOLEAN : catalogue' = IF answered THEN "destructive" ELSE "absent"
  /\ UNCHANGED <<containerVars, now, expiry, minter, carried, gate, started, told>>

----------------------------------------------------------------------------
(* The call *)

\* What McpPolicy.evaluate decides of a call with token t.
Decision(c, t) ==
  IF catalogue = "absent" THEN "unknown tool"
  ELSE IF t = NoToken THEN "needs approval"
  ELSE IF ~ PolicyVerifies(t, Tool(c), Arguments(c)) THEN "invalid approval"
  ELSE "allowed"

Tokens == {NoToken} \cup {c \in Calls : expiry[c] # 0}

\* McpClient.call up to the request: a refused call reaches no server.
Call(c) ==
  /\ gate[c] = "idle"
  /\ \E t \in Tokens :
       /\ carried' = [carried EXCEPT ![c] = t]
       /\ IF Decision(c, t) = "allowed"
            THEN /\ gate' = [gate EXCEPT ![c] = "sent"]
                 /\ UNCHANGED told
            ELSE /\ gate' = [gate EXCEPT ![c] = "ended"]
                 /\ told' = [told EXCEPT ![c] = "refused"]
  /\ UNCHANGED <<containerVars, now, expiry, minter, catalogue, started>>

\* A call that some other process of the network makes, with whatever token it has seen.
CallDirectly(c) ==
  /\ gate[c] = "idle"
  /\ \E t \in Tokens : carried' = [carried EXCEPT ![c] = t]
  /\ gate' = [gate EXCEPT ![c] = "sent"]
  /\ UNCHANGED <<containerVars, now, expiry, minter, catalogue, started, told>>

Tell(c, answer) == told' = [told EXCEPT ![c] = IF told[c] = "none" THEN answer ELSE told[c]]

\* The request arrives: the guard of destructive() verifies the token against its own name and
\* the arguments as they came.
Guarded(c) ==
  /\ gate[c] = "sent"
  /\ IF ServerVerifies(carried[c], Tool(c), Arguments(c) \cup {"approval_token"})
       THEN /\ gate' = [gate EXCEPT ![c] = "running"]
            /\ started' = [started EXCEPT ![c] = now]
            /\ carried' = [carried EXCEPT ![c] = NoToken]
            /\ UNCHANGED told
       ELSE /\ gate' = [gate EXCEPT ![c] = "ended"]
            /\ Tell(c, "not approved")
            /\ UNCHANGED <<started, carried>>
  /\ UNCHANGED <<containerVars, now, expiry, minter, catalogue>>

\* The body, one request to the daemon at a time.  What it returns is the call's answer; an
\* exception makes the call a failed one.
Body(c) ==
  /\ gate[c] = "running"
  /\ \/ c \in Updates /\ Update(c)
     \/ c \in Restarts /\ (InspectForRestart(c) \/ Restart(c))
     \/ CutOff(c)
  /\ IF step'[c] = "ended"
       THEN /\ gate' = [gate EXCEPT ![c] = "ended"]
            /\ Tell(c, IF reply'[c] \in {"raised", "cut off", "stopped and not started"}
                         THEN "failed" ELSE "answered")
       ELSE UNCHANGED <<gate, told>>
  /\ UNCHANGED <<now, expiry, minter, catalogue, carried, started>>

\* The client's timeout, or a connection that breaks.  The call itself may still arrive or run.
GiveUp(c) ==
  /\ gate[c] \in {"sent", "running"} /\ told[c] = "none"
  /\ told' = [told EXCEPT ![c] = "failed"]
  /\ \/ UNCHANGED gate
     \/ gate[c] = "sent" /\ gate' = [gate EXCEPT ![c] = "ended"]
  /\ IF gate'[c] = "ended"
       THEN carried' = [carried EXCEPT ![c] = NoToken]
       ELSE UNCHANGED carried
  /\ UNCHANGED <<containerVars, now, expiry, minter, catalogue, started>>

GateNext ==
  \/ \E c \in Calls : \/ Issue(c) \/ Call(c) \/ CallDirectly(c) \/ Guarded(c)
                      \/ Body(c) \/ GiveUp(c)
  \/ Tick \/ Discovered

\* The calls of one tool are alike.
Alike == Permutations(Updates) \cup Permutations(Restarts)

GateSpec == GateInit /\ [][GateNext]_allVars

----------------------------------------------------------------------------
(* Properties *)

\* Whoever makes the call, whatever token it carries and however old the catalogue is, a body
\* that began was approved: a token was issued for this tool with these arguments, and it had
\* not expired when the body began.
RanAsApproved ==
  \A c \in Calls : started[c] # Never => started[c] < expiry[c]

\* An approval opens what it was given for.  A call made with its own approval is turned away,
\* by the policy or by the tool server and whoever made it, only because the approval had run
\* out, because the policy's catalogue had lost the tool, or because the backend minted the
\* approval over nested arguments: all that lies between the three programs that hash the
\* arguments is that one difference.
ApprovalOpensItsCall ==
  [][ \A c \in Calls :
        gate[c] # "ended" /\ gate'[c] = "ended" /\ carried'[c] = c
        => \/ expiry[c] <= now
           \/ gate[c] = "idle" /\ catalogue = "absent"
           \/ minter[c] = "backend" /\ c \in Nested ]_allVars

=============================================================================
