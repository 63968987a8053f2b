----------------------------- MODULE WritingRun -----------------------------
(***************************************************************************)
(* service/officialdoc/writing_run.go: the durable lifecycle of one        *)
(* controlled writing run (retrieve evidence, compose, commit a version),  *)
(* with utils/taskrun/controller.go, which knows the goroutines of this    *)
(* process, and the version history of its task (writing_task.go).         *)
(*                                                                         *)
(* The processes are the executor goroutines (one per launch) and the      *)
(* requests Start, Pause, Resume and View (Get, List and each poll of the  *)
(* event stream).  Each statement on the database, each call of the        *)
(* controller and each return is a step of its own; they interleave.       *)
(* A crash ends every process and empties the controller; the database     *)
(* stays.  The message and trace rows, an audit log, are left out.         *)
(***************************************************************************)
EXTENDS Naturals, Sequences, FiniteSets

CONSTANTS
  Stage,         \* "outline" or "draft"
  Requests,      \* requests and pollers
  RequestKind,   \* RequestKind[r]: "start", "pause", "resume" or "view"
  MaxEvidence,   \* evidence rows of a run (writingRunMaxEvidence)
  MaxLaunches,   \* bound: executors launched in a behaviour
  MaxCalls,      \* bound: calls of the step's tool the model may make per stage
  MaxCrashes,    \* bound: crashes in a behaviour
  MaxManual,     \* bound: versions saved by hand
  DbFails,       \* bound: statements may fail on a live context
  Patient        \* environment: a run is resumed only when nothing else starts
                 \* it and its last executor has ended

ASSUME WritingRunAssumption ==
  /\ Stage \in {"outline", "draft"}
  /\ RequestKind \in [Requests -> {"start", "pause", "resume", "view"}]
  /\ MaxLaunches \in Nat /\ MaxCrashes \in Nat /\ MaxManual \in Nat
  /\ MaxCalls \in Nat \ {0} /\ MaxEvidence \in Nat \ {0}
  /\ DbFails \in BOOLEAN /\ Patient \in BOOLEAN

Execs == 1..MaxLaunches
None == 0  \* no executor, no version

VARIABLES
  run,         \* the row of writing_runs
  versions,    \* the rows of document_versions of its task, by number
  taskStatus,  \* writing_tasks.status
  registered,  \* the controller's entry: the executor it would cancel, or None
  exec,        \* the executor goroutines
  req,         \* the requests
  crashes,
  met          \* history: executors that have lived beside another one

vars == <<run, versions, taskStatus, registered, exec, req, crashes, met>>
dbVars == <<run, versions, taskStatus>>

Steps == <<"retrieve_evidence", "compose_document", "commit_version", "completed">>
Rank(step) == CHOOSE i \in DOMAIN Steps : Steps[i] = step

NoExec == [pc |-> "unborn", cancelled |-> FALSE, status |-> "none",
           step |-> Steps[1], calls |-> 0, body |-> None, evidence |-> 0,
           version |-> None]

Ended == [NoExec EXCEPT !.pc = "ended", !.cancelled = TRUE]

\* status "none" stands for a run that has not been created.
Init ==
  /\ run = [status |-> "none", step |-> Steps[1], evidence |-> 0,
            body |-> None, version |-> None]
  /\ versions = <<>>
  /\ taskStatus = "draft"
  /\ registered = None
  /\ exec = [e \in Execs |-> NoExec]
  /\ req = [r \in Requests |-> [pc |-> "idle", status |-> "none"]]
  /\ crashes = 0
  /\ met = {}

Live == {e \in Execs : exec[e].pc \notin {"unborn", "ended"}}
Busy == {"queued", "running", "pause_requested"}

-----------------------------------------------------------------------------
(* taskrun.Controller                                                      *)

Active == registered # None

\* launch: Set replaces whatever is registered, then the goroutine starts.
launch ==
  \E e \in Execs :
    /\ exec[e].pc = "unborn" /\ \A f \in Execs : exec[f].pc = "unborn" => e <= f
    /\ registered' = e
    /\ exec' = [exec EXCEPT ![e].pc = "load"]
    /\ met' = IF Live = {} THEN met ELSE met \cup Live \cup {e}

\* Cancel: false when nothing is registered.
CancelEffect ==
  exec' = IF Active THEN [exec EXCEPT ![registered].cancelled = TRUE] ELSE exec

\* Mutation: the executor ends without Clear.
ExecEndsRegistered(e) ==
  /\ exec[e].pc = "clear"
  /\ exec' = [exec EXCEPT ![e] = Ended]
  /\ UNCHANGED <<dbVars, registered, req, crashes, met>>

\* The deferred Clear deletes the entry, whoever registered it.
ExecClear(e) ==
  /\ exec[e].pc = "clear"
  /\ registered' = None
  /\ exec' = [exec EXCEPT ![e] = Ended]
  /\ UNCHANGED <<dbVars, req, crashes, met>>

-----------------------------------------------------------------------------
(* execute: statements on the run's context fail once it is cancelled.     *)

To(e, pc) == exec' = [exec EXCEPT ![e].pc = pc]

\* As To, where nothing the executor has read is used again.
Leave(e, pc) ==
  exec' = [exec EXCEPT ![e] = [NoExec EXCEPT !.pc = pc, !.cancelled = exec[e].cancelled]]

Ok(e) == ~exec[e].cancelled
Fails(e) == exec[e].cancelled \/ DbFails

\* First(ctx, &run): on an error the executor returns and marks nothing.
ExecLoad(e) ==
  /\ exec[e].pc = "load"
  /\ \/ Ok(e) /\ exec' = [exec EXCEPT ![e].pc = "decide",
                            ![e].status = run.status, ![e].step = run.step]
     \/ Fails(e) /\ Leave(e, "clear")
  /\ UNCHANGED <<dbVars, registered, req, crashes, met>>

ExecDecide(e) ==
  /\ exec[e].pc = "decide"
  /\ IF exec[e].status = "pause_requested" \/ exec[e].cancelled THEN Leave(e, "markPaused")
     ELSE IF exec[e].status \in {"completed", "canceled"} THEN Leave(e, "clear")
     ELSE exec' = [exec EXCEPT ![e].pc = "setRunning", ![e].status = "none"]
  /\ UNCHANGED <<dbVars, registered, req, crashes, met>>

ExecSetRunning(e) ==
  /\ exec[e].pc = "setRunning"
  /\ \/ /\ Ok(e)
        /\ run' = [run EXCEPT !.status = "running"]
        /\ To(e, IF exec[e].step = "completed" THEN "markCompleted" ELSE "model")
     \/ Fails(e) /\ Leave(e, "clear") /\ UNCHANGED run
  /\ UNCHANGED <<versions, taskStatus, registered, req, crashes, met>>

\* runMCPStage up to the tool: the model calls the one tool of the step, or the
\* stage ends with an error (configuration, model, budget, cancelled context).
ExecModel(e) ==
  /\ exec[e].pc = "model"
  /\ \/ /\ Ok(e) /\ exec[e].calls < MaxCalls
        /\ exec' = [exec EXCEPT ![e].pc = "check", ![e].calls = @ + 1]
     \/ Leave(e, "stageError")
  /\ UNCHANGED <<dbVars, registered, req, crashes, met>>

\* The tool reads the run again and refuses a step that is not its own; compose
\* wants evidence, commit wants a body.  A tool error goes back to the model.
ToolAllowed(step) ==
  /\ run.step = step
  /\ step = "compose_document" => run.evidence > 0
  /\ step = "commit_version" => run.body # None

ExecCheck(e) ==
  /\ exec[e].pc = "check"
  /\ \/ /\ Ok(e) /\ ToolAllowed(exec[e].step)
        /\ exec' = [exec EXCEPT ![e].pc = exec[e].step, ![e].body = run.body,
                                ![e].evidence = run.evidence]
     \/ (Fails(e) \/ ~ToolAllowed(exec[e].step)) /\ To(e, "model")
  /\ UNCHANGED <<dbVars, registered, req, crashes, met>>

\* Mutation: the step is advanced outside the transaction of the evidence rows.
ToolFailsHalfway(e) ==
  /\ \/ exec[e].pc \in {"retrieve_evidence", "compose_document"}
     \/ exec[e].pc \in {"commit_version", "finish"} /\ Fails(e)
  /\ run' = IF exec[e].pc = "retrieve_evidence"
            THEN [run EXCEPT !.step = "compose_document"] ELSE run
  /\ To(e, "model")
  /\ UNCHANGED <<versions, taskStatus, registered, req, crashes, met>>

\* A search that finds nothing, a model that fails, a statement that fails.
ToolFails(e) ==
  /\ \/ exec[e].pc \in {"retrieve_evidence", "compose_document"}
     \/ exec[e].pc \in {"commit_version", "finish"} /\ Fails(e)
  /\ To(e, "model")
  /\ UNCHANGED <<dbVars, registered, req, crashes, met>>

\* One transaction: the evidence rows and the step.
RetrieveEvidence(e) ==
  /\ exec[e].pc = "retrieve_evidence" /\ Ok(e)
  /\ run' = [run EXCEPT !.evidence = @ + 1, !.step = "compose_document"]
  /\ Leave(e, "toolDone")
  /\ UNCHANGED <<versions, taskStatus, registered, req, crashes, met>>

\* knowledge.search, offered to the model while it writes: the step is looked at,
\* then the knowledge base is searched.  What is found may be no new evidence, or
\* too much of it, or the search may fail: then the model goes on as before.
SearchMore(e) ==
  /\ exec[e].pc = "compose_document" /\ Ok(e)
  /\ run.step = "compose_document" /\ run.evidence < MaxEvidence
  /\ To(e, "freeze")
  /\ UNCHANGED <<dbVars, registered, req, crashes, met>>

\* A transaction of its own, which does not look at the step again.  The rows
\* stay, whatever becomes of the body.
FreezeEvidence(e) ==
  /\ exec[e].pc = "freeze"
  /\ \/ /\ Ok(e) /\ run.evidence < MaxEvidence
        /\ run' = [run EXCEPT !.evidence = @ + 1]
     \/ (Fails(e) \/ run.evidence >= MaxEvidence) /\ UNCHANGED run
  /\ To(e, "compose_document")
  /\ UNCHANGED <<versions, taskStatus, registered, req, crashes, met>>

\* The update names the run only: it does not look at the step again.
ComposeDocument(e) ==
  /\ exec[e].pc = "compose_document" /\ Ok(e)
  /\ run' = [run EXCEPT !.body = e, !.step = "commit_version"]
  /\ Leave(e, "toolDone")
  /\ UNCHANGED <<versions, taskStatus, registered, req, crashes, met>>

\* persistVersion: one transaction, serialised by the unique index on
\* (task, version); a loser of that race fails (ToolFails, DbFails).
persistVersion(by, body, evidence, stage) ==
  /\ versions' = Append(versions, [by |-> by, body |-> body, evidence |-> evidence])
  /\ taskStatus' = IF stage = "outline" THEN "outlined" ELSE "drafted"

CommitVersion(e) ==
  /\ exec[e].pc = "commit_version" /\ Ok(e)
  /\ persistVersion(e, exec[e].body, exec[e].evidence, Stage)
  /\ exec' = [exec EXCEPT ![e].pc = "finish", ![e].version = Len(versions')]
  /\ UNCHANGED <<run, registered, req, crashes, met>>

\* Mutation: the commit records its version but not that it is done.
CommitFinishUnmarked(e) ==
  /\ exec[e].pc = "finish" /\ Ok(e)
  /\ run' = [run EXCEPT !.version = exec[e].version]
  /\ Leave(e, "toolDone")
  /\ UNCHANGED <<versions, taskStatus, registered, req, crashes, met>>

\* The second statement of commitVersion, outside the transaction.
CommitFinish(e) ==
  /\ exec[e].pc = "finish" /\ Ok(e)
  /\ run' = [run EXCEPT !.status = "completed", !.step = "completed",
                        !.version = exec[e].version]
  /\ Leave(e, "toolDone")
  /\ UNCHANGED <<versions, taskStatus, registered, req, crashes, met>>

\* The dispatcher hands the result over, or prefers the cancelled context.
ToolDone(e) ==
  /\ exec[e].pc = "toolDone"
  /\ Leave(e, "load") \/ (exec[e].cancelled /\ Leave(e, "stageError"))
  /\ UNCHANGED <<dbVars, registered, req, crashes, met>>

\* ctx.Err() or pauseRequested, which reads the status again.
ExecStageError(e) ==
  /\ exec[e].pc = "stageError"
  /\ \/ /\ exec[e].cancelled \/ run.status = "pause_requested"
        /\ To(e, "markPaused")
     \/ /\ ~exec[e].cancelled /\ (run.status # "pause_requested" \/ DbFails)
        /\ To(e, "markFailed")
  /\ UNCHANGED <<dbVars, registered, req, crashes, met>>

\* markPaused, markFailed and markCompleted write on a context of their own
\* and ignore a failure.
ExecMark(e) ==
  /\ exec[e].pc \in {"markPaused", "markFailed", "markCompleted"}
  /\ \/ run' = [run EXCEPT
          !.status = CASE exec[e].pc = "markPaused" -> "paused"
                       [] exec[e].pc = "markFailed" -> "failed"
                       [] exec[e].pc = "markCompleted" -> "completed",
          !.step = IF exec[e].pc = "markCompleted" THEN "completed" ELSE @]
     \/ DbFails /\ UNCHANGED run
  /\ To(e, "clear")
  /\ UNCHANGED <<versions, taskStatus, registered, req, crashes, met>>

-----------------------------------------------------------------------------
(* The requests.  A request's context may be done before any statement.    *)

Await(r, pc) == req' = [req EXCEPT ![r] = [pc |-> pc, status |-> "none"]]
Read(r, pc) == req' = [req EXCEPT ![r] = [pc |-> pc, status |-> run.status]]
Is(r, kind, pc) == RequestKind[r] = kind /\ req[r].pc = pc

\* findRunForMember.
Begin(r) ==
  /\ req[r].pc = "idle" /\ RequestKind[r] # "start"
  /\ run.status # "none"
  /\ (RequestKind[r] = "resume" /\ Patient) =>
       /\ Live = {}
       /\ \A s \in Requests : RequestKind[s] \in {"start", "resume"} =>
            req[s].pc \in {"idle", "done", "view", "orphan", "orphanWrite"}
  /\ LET ended == run.status \in {"completed", "canceled"} IN
     CASE RequestKind[r] = "view" -> Read(r, "orphan")
       [] RequestKind[r] = "resume" -> IF ended THEN Await(r, "done") ELSE Read(r, "active")
       [] RequestKind[r] = "pause" ->
            Await(r, IF ended THEN "done" ELSE IF run.status = "paused" THEN "view" ELSE "write")
  /\ UNCHANGED <<dbVars, registered, exec, crashes, met>>

\* Start creates the queued row ...
StartCreate(r) ==
  /\ Is(r, "start", "idle") /\ run.status = "none"
  /\ run' = [run EXCEPT !.status = "queued"]
  /\ Await(r, "task")
  /\ UNCHANGED <<versions, taskStatus, registered, exec, crashes, met>>

\* ... sets the task's status, and then launches.
StartTask(r) ==
  /\ Is(r, "start", "task")
  /\ taskStatus' = "queued"
  /\ Await(r, "launch")
  /\ UNCHANGED <<run, versions, registered, exec, crashes, met>>

Launch(r) ==
  /\ req[r].pc = "launch"
  /\ launch
  /\ Await(r, "view")
  /\ UNCHANGED <<dbVars, crashes>>

\* Resume refuses a run it read as running while something is registered.
ResumeActive(r) ==
  /\ Is(r, "resume", "active")
  /\ Await(r, IF req[r].status = "running" /\ Active THEN "done" ELSE "write")
  /\ UNCHANGED <<dbVars, registered, exec, crashes, met>>

\* Mutation: a resume starts over from the first step.
ResumeRestarts(r) ==
  /\ Is(r, "resume", "write")
  /\ run' = [run EXCEPT !.status = "queued", !.step = Steps[1]]
  /\ Await(r, "launch")
  /\ UNCHANGED <<versions, taskStatus, registered, exec, crashes, met>>

\* Mutation: a resume drops the frozen evidence but keeps the step.
ResumeDropsEvidence(r) ==
  /\ Is(r, "resume", "write")
  /\ run' = [run EXCEPT !.status = "queued", !.evidence = 0]
  /\ Await(r, "launch")
  /\ UNCHANGED <<versions, taskStatus, registered, exec, crashes, met>>

ResumeWrite(r) ==
  /\ Is(r, "resume", "write")
  /\ run' = [run EXCEPT !.status = "queued"]
  /\ Await(r, "launch")
  /\ UNCHANGED <<versions, taskStatus, registered, exec, crashes, met>>

PauseWrite(r) ==
  /\ Is(r, "pause", "write")
  /\ run' = [run EXCEPT !.status = "pause_requested"]
  /\ Await(r, "cancel")
  /\ UNCHANGED <<versions, taskStatus, registered, exec, crashes, met>>

PauseCancel(r) ==
  /\ Is(r, "pause", "cancel")
  /\ CancelEffect
  /\ Await(r, IF Active THEN "view" ELSE "writePaused")
  /\ UNCHANGED <<dbVars, registered, crashes, met>>

\* Mutation: a run paused without an executor is canceled.
PauseWriteCanceled(r) ==
  /\ Is(r, "pause", "writePaused")
  /\ run' = [run EXCEPT !.status = "canceled"]
  /\ Await(r, "view")
  /\ UNCHANGED <<versions, taskStatus, registered, exec, crashes, met>>

PauseWritePaused(r) ==
  /\ Is(r, "pause", "writePaused")
  /\ run' = [run EXCEPT !.status = "paused"]
  /\ Await(r, "view")
  /\ UNCHANGED <<versions, taskStatus, registered, exec, crashes, met>>

\* view: every request ends with it; a view request starts with its read.
ViewRead(r) ==
  /\ req[r].pc = "view"
  /\ Read(r, "orphan")
  /\ UNCHANGED <<dbVars, registered, exec, crashes, met>>

Finished(r) == IF RequestKind[r] = "view" THEN "idle" ELSE "done"

\* Mutation: only a run seen as running is taken for an orphan.
OrphanCheckRunning(r) ==
  /\ req[r].pc = "orphan"
  /\ Await(r, IF req[r].status = "running" /\ ~Active THEN "orphanWrite" ELSE Finished(r))
  /\ UNCHANGED <<dbVars, registered, exec, crashes, met>>

\* pauseOrphanedRun: the status as read, then Active, then the write.
OrphanCheck(r) ==
  /\ req[r].pc = "orphan"
  /\ Await(r, IF req[r].status \in Busy /\ ~Active THEN "orphanWrite" ELSE Finished(r))
  /\ UNCHANGED <<dbVars, registered, exec, crashes, met>>

OrphanWrite(r) ==
  /\ req[r].pc = "orphanWrite"
  /\ run' = [run EXCEPT !.status = "paused"]
  /\ Await(r, Finished(r))
  /\ UNCHANGED <<versions, taskStatus, registered, exec, crashes, met>>

\* A statement of the request fails: the client has gone, or the database.
Abort(r) ==
  /\ DbFails
  /\ req[r].pc \in {"task", "write", "writePaused", "view", "orphanWrite"}
  /\ Await(r, Finished(r))
  /\ UNCHANGED <<dbVars, registered, exec, crashes, met>>

\* SaveVersion of the same task by hand.
SaveVersion ==
  /\ Cardinality({i \in DOMAIN versions : versions[i].by = None}) < MaxManual
  /\ persistVersion(None, None, 0, "manual")
  /\ UNCHANGED <<run, registered, exec, req, crashes, met>>

Crash ==
  /\ crashes < MaxCrashes
  /\ crashes' = crashes + 1
  /\ registered' = None
  /\ exec' = [e \in Execs |->
                IF e \in Live THEN Ended ELSE exec[e]]
  /\ req' = [r \in Requests |->
               [pc |-> IF req[r].pc = "idle" THEN "idle" ELSE Finished(r),
                status |-> "none"]]
  /\ UNCHANGED <<dbVars, met>>

ExecStep(e) ==
  \/ ExecLoad(e) \/ ExecDecide(e) \/ ExecSetRunning(e) \/ ExecModel(e)
  \/ ExecCheck(e) \/ ToolFails(e) \/ RetrieveEvidence(e) \/ SearchMore(e)
  \/ FreezeEvidence(e) \/ ComposeDocument(e)
  \/ CommitVersion(e) \/ CommitFinish(e) \/ ToolDone(e) \/ ExecStageError(e)
  \/ ExecMark(e) \/ ExecClear(e)

\* What a request does once it has begun.
RequestStep(r) ==
  \/ StartTask(r) \/ Launch(r) \/ ResumeActive(r) \/ ResumeWrite(r)
  \/ PauseWrite(r) \/ PauseCancel(r) \/ PauseWritePaused(r)
  \/ ViewRead(r) \/ OrphanCheck(r) \/ OrphanWrite(r)

Next ==
  \/ \E e \in Execs : ExecStep(e)
  \/ \E r \in Requests : StartCreate(r) \/ Begin(r) \/ RequestStep(r) \/ Abort(r)
  \/ SaveVersion
  \/ Crash

\* Goroutines run, the searches, models and statements they wait for have
\* timeouts, and the pages that show the run keep reading it.
Fairness ==
  /\ \A e \in Execs : WF_vars(ExecStep(e))
  /\ \A r \in Requests : WF_vars(RequestStep(r))
  /\ \A r \in Requests : RequestKind[r] = "view" => WF_vars(Begin(r))

Spec == Init /\ [][Next]_vars
FairSpec == Spec /\ Fairness
-----------------------------------------------------------------------------
Statuses == {"none", "completed", "paused", "failed"} \cup Busy
ExecPcs == {"unborn", "load", "decide", "setRunning", "model", "check", "freeze",
            "finish", "toolDone", "stageError", "markPaused", "markFailed",
            "markCompleted", "clear", "ended"} \cup {Steps[i] : i \in 1..3}
StepNames == {Steps[i] : i \in DOMAIN Steps}

TypeOK ==
  /\ run \in [status : Statuses, step : StepNames, evidence : Nat,
              body : Execs \cup {None}, version : Nat]
  /\ versions \in Seq([by : Execs \cup {None}, body : Execs \cup {None}, evidence : Nat])
  /\ taskStatus \in {"draft", "queued", "outlined", "drafted"}
  /\ registered \in Execs \cup {None}
  /\ exec \in [Execs -> [pc : ExecPcs, cancelled : BOOLEAN, status : Statuses,
                         step : StepNames, calls : Nat, body : Execs \cup {None},
                         evidence : Nat, version : Nat]]
  /\ req \in [Requests ->
                [pc : {"idle", "task", "launch", "active", "write", "cancel", "writePaused",
                       "view", "orphan", "orphanWrite", "done"},
                 status : Statuses]]
  /\ crashes \in Nat /\ met \subseteq Execs

ByRun == {i \in DOMAIN versions : versions[i].by # None}

\* The checkpoint a resume starts from is backed by what the earlier steps left
\* in the database, and a completed run points at the version made of its body.
CheckpointBacked ==
  /\ Rank(run.step) >= Rank("compose_document") => run.evidence > 0
  /\ Rank(run.step) >= Rank("commit_version") => run.body # None
  /\ run.step = "completed" =>
       run.version \in ByRun /\ versions[run.version].body = run.body
  /\ run.status = "completed" => run.step = "completed"

\* Whatever overlaps or crashes, no version of the run is committed without a
\* body generated for it and evidence frozen before it (commitVersion itself
\* does not look whether there is evidence).
VersionsAreGrounded ==
  \A i \in ByRun : versions[i].body # None /\ versions[i].evidence > 0

\* One launch commits at most one version, if executors do not overlap and statements
\* do not fail: the commit and the mark of the run (writing_run.go:467, 472) are two
\* steps, and a failing one lets the same loop commit again.
OneVersionPerLaunch ==
  \A i, j \in ByRun : versions[i].by = versions[j].by => i = j

\* The checkpoint never moves back, and the version it points at stays.
CheckpointAdvances ==
  [][/\ Rank(run'.step) >= Rank(run.step)
     /\ run.version # None => run'.version = run.version]_vars

\* The run as its row and the versions show it: no step is skipped, repeated or undone,
\* and a version is made of the body and the evidence the row holds, whatever is
\* paused, fails or crashes, while users are patient.
Workflow == INSTANCE WritingWorkflow WITH Authors <- Execs
FollowsWorkflow == Workflow!Spec

\* The controller (controller.go:20-49) never names a goroutine that has ended,
\* and it names every live one, so that Pause reaches it and Active tells of it,
\* but for one that has lived beside another: Set replaces an entry and Clear
\* takes away whichever there is.
ActiveIsLive ==
  /\ Active => registered \in Live
  /\ \A e \in Live \ met : registered = e

\* A run that looks busy settles: completed, failed or paused for a resume,
\* also after a crash.
Settles == (run.status \in Busy) ~> (run.status \notin Busy)

\* Resuming never replays a completed tool (writing_run.go:530-532): the run
\* commits one version.
NeverReplaysCommit == Cardinality(ByRun) <= 1

=============================================================================
