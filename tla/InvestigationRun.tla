-------------------------- MODULE InvestigationRun --------------------------
(***************************************************************************)
(* One investigation as the AI service's process runs it                   *)
(* (app/api/investigations.py): the machine is built, run to its result,   *)
(* the record is closed, and what was concluded is written up for the      *)
(* knowledge base (agents/postmortem.py, rag/memory.py).                   *)
(*                                                                         *)
(* The machine's own steps are those of InvestigationMachine.  The run is  *)
(* one asyncio task; the record is what the endpoints read meanwhile.      *)
(***************************************************************************)
EXTENDS InvestigationMachine

VARIABLES
    phase,       \* where _run is: "starting", "running", "remembering", "over"
    status,      \* record.status: "running", "completed" or "failed"
    final_state, \* record.final_state, "none" until the record is closed
    reported,    \* whether a terminal event was emitted
    precedent    \* the write-up: "none", "written" (a file) or "indexed"

machine == vars
record == <<status, final_state>>
run_vars == <<vars, phase, status, final_state, reported, precedent>>

RunInit ==
    /\ Init
    /\ phase = "starting"
    /\ status = "running"
    /\ final_state = "none"
    /\ reported = FALSE
    /\ precedent = "none"

-----------------------------------------------------------------------------
\* RunRecord.abort.
Abort ==
    /\ status' = "failed"
    /\ final_state' = "FAILED"

\* build_machine awaits the tool registry, the retriever and the similarity
\* index; when one cannot be built the run is reported failed and nothing else
\* is done.
StartupFails ==
    /\ phase = "starting"
    /\ Abort
    /\ reported' = TRUE
    /\ phase' = "over"
    /\ UNCHANGED <<machine, precedent>>

BuildMachine ==
    /\ phase = "starting"
    /\ phase' = "running"
    /\ UNCHANGED <<machine, record, reported, precedent>>

\* A turn of the machine; the one that stops it emits the terminal event.
MachineStep ==
    /\ phase = "running"
    /\ Next
    /\ reported' = (outcome' # "RUNNING")
    /\ UNCHANGED <<phase, record, precedent>>

\* RunRecord.finish, once machine.run has returned.
RunReturns ==
    /\ phase = "running"
    /\ outcome # "RUNNING"
    /\ status' = IF outcome = "FAILED" THEN "failed" ELSE "completed"
    /\ final_state' = outcome
    /\ phase' = "remembering"
    /\ UNCHANGED <<machine, reported, precedent>>

\* Mutant of RunDies: the exception ends the task and not the record.
RunDiesSilently ==
    /\ phase = "running"
    /\ outcome = "RUNNING"
    /\ phase' = "over"
    /\ UNCHANGED <<machine, record, reported, precedent>>

\* Mutant of RunDies: the record is closed and the machine goes on.
RunDiesAndContinues ==
    /\ phase = "running"
    /\ outcome = "RUNNING"
    /\ Abort
    /\ UNCHANGED <<machine, phase, reported, precedent>>

\* An exception outside the nodes, such as one the emitter did not expect.  The
\* handler closes the record and falls through to the write-up.
RunDies ==
    /\ phase = "running"
    /\ outcome = "RUNNING"
    /\ Abort
    /\ phase' = "remembering"
    /\ UNCHANGED <<machine, reported, precedent>>

\* _remember returns without a conclusion to write up; with one, the model may
\* produce no write-up or be unreachable, the disk or the index may refuse it.
Remember ==
    /\ phase = "remembering"
    /\ precedent' \in
          IF root_cause = NoRootCause THEN {"none"} ELSE {"none", "written", "indexed"}
    /\ phase' = "over"
    /\ UNCHANGED <<machine, record, reported>>

RunNext ==
    \/ StartupFails
    \/ BuildMachine
    \/ MachineStep
    \/ RunReturns
    \/ RunDies
    \/ Remember

RunSpec == RunInit /\ [][RunNext]_run_vars

\* Every model, tool and database call a run awaits has a timeout, and the task
\* is held until it is done, so the run goes on as long as it has a step.
FairRunSpec == RunSpec /\ WF_run_vars(RunNext)

-----------------------------------------------------------------------------
(* Properties. *)

\* A closed record agrees with the terminal event, whenever the machine emitted one.
RecordAgrees ==
    (status # "running" /\ outcome # "RUNNING") => final_state = outcome /\ reported

\* The record the endpoints show leaves "running", whatever fails on the way,
\* and agrees with the terminal event.
RecordSettles == <>(status # "running") /\ []RecordAgrees

\* A closed record never changes: neither its status nor the conclusion that the
\* write-up and the summary endpoint read from its context.
ClosedRecordStands ==
    [][status # "running" => UNCHANGED <<record, root_cause, recommendations>>]_run_vars

=============================================================================
