-------------------------- MODULE WritingRunProofs --------------------------
(***************************************************************************)
(* The safety properties of WritingRun for any requests, launches, calls   *)
(* and crashes.  What is said of versions and of the controller holds      *)
(* however many executors overlap; what is said of the checkpoint, for     *)
(* patient users.                                                          *)
(***************************************************************************)
EXTENDS WritingRun, SequenceTheorems, TLAPS

-----------------------------------------------------------------------------
(* The inductive invariant *)

\* The values of the records, as TypeOK has them.
RunRecords == [status : Statuses, step : StepNames, evidence : Nat,
               body : Execs \cup {None}, version : Nat]
ExecRecords == [pc : ExecPcs, cancelled : BOOLEAN, status : Statuses, step : StepNames,
                calls : Nat, body : Execs \cup {None}, evidence : Nat, version : Nat]
RequestRecords == [pc : {"idle", "task", "launch", "active", "write", "cancel", "writePaused",
                         "view", "orphan", "orphanWrite", "done"},
                   status : Statuses]
VersionRecords == [by : Execs \cup {None}, body : Execs \cup {None}, evidence : Nat]

Typed ==
  /\ run \in RunRecords /\ versions \in Seq(VersionRecords)
  /\ taskStatus \in {"draft", "queued", "outlined", "drafted"}
  /\ registered \in Execs \cup {None}
  /\ exec \in [Execs -> ExecRecords] /\ req \in [Requests -> RequestRecords]
  /\ crashes \in Nat /\ met \subseteq Execs

ToolSteps == {"retrieve_evidence", "compose_document", "commit_version"}

\* An executor uses the step it has read as its stage says.
StagesFollowSteps ==
  \A e \in Execs :
    /\ exec[e].pc \in {"model", "check"} => exec[e].step \in ToolSteps
    /\ exec[e].pc \in ToolSteps => exec[e].step = exec[e].pc
    /\ exec[e].pc = "freeze" => exec[e].step = "compose_document"
    /\ exec[e].pc = "finish" => exec[e].step = "commit_version"
    /\ exec[e].pc = "markCompleted" => exec[e].step = "completed"

\* A step that has been reached, by the row or in an executor's memory, has
\* what it rests on in the row.
Rests(step) ==
  /\ step # "retrieve_evidence" => run.evidence > 0
  /\ step \in {"commit_version", "completed"} => run.body # None

StepsRest == Rests(run.step) /\ \A e \in Execs : Rests(exec[e].step)

\* What is about to be committed is grounded.
CommitsAreGrounded ==
  \A e \in Execs :
    /\ exec[e].pc \in {"commit_version", "finish"} => exec[e].body # None /\ exec[e].evidence > 0
    /\ exec[e].pc = "finish" =>
         /\ exec[e].version \in ByRun /\ versions[exec[e].version].body = exec[e].body
         /\ versions[exec[e].version].evidence = exec[e].evidence

\* Requests of different kinds are at different stages.
StagesFollowKind ==
  \A r \in Requests :
    /\ req[r].pc = "task" => RequestKind[r] = "start"
    /\ req[r].pc = "launch" => RequestKind[r] \in {"start", "resume"}
    /\ req[r].pc = "active" => RequestKind[r] = "resume"
    /\ req[r].pc = "write" => RequestKind[r] \in {"pause", "resume"}
    /\ req[r].pc \in {"cancel", "writePaused"} => RequestKind[r] = "pause"

\* Before there is a run, nothing has begun.
NoneBegun ==
  run.status = "none" => Live = {} /\ \A r \in Requests : req[r].pc = "idle"

\* Of patient users one request at a time brings up an executor, when there is
\* none, and the controller knows the one there is.
Launching == {r \in Requests : \/ req[r].pc \in {"task", "launch"}
                               \/ RequestKind[r] = "resume" /\ req[r].pc \in {"active", "write"}}
OneExecutor ==
  Patient =>
    /\ \A r, s \in Launching : r = s
    /\ Launching # {} => Live = {}
    /\ \A e \in Live : registered = e
    /\ registered # None => registered \in Live

\* Executors that live together have met.
Companions == \A e, f \in Live : e # f => e \in met /\ f \in met

\* Alone, an executor knows the step, the body and the evidence of the row, and the row
\* points at a version of its body when it is completed, and not before.
OnStep ==
  Patient => \A e \in Execs :
    /\ exec[e].pc \in {"decide", "setRunning", "model", "check", "freeze", "finish", "markCompleted"}
         \cup ToolSteps => exec[e].step = run.step
    /\ exec[e].pc \in {"commit_version", "finish"} =>
         exec[e].body = run.body /\ exec[e].evidence = run.evidence
CompletedIsBacked ==
  Patient =>
    /\ run.step = "completed" => run.version \in ByRun /\ versions[run.version].body = run.body
    /\ run.version # None => run.step = "completed"
    /\ run.status = "completed" => run.step = "completed"

\* An executor that has committed does not commit again: it has still to mark the
\* run, the run is marked, it was cancelled, or it has ended.
Spent(e) ==
  /\ e \in Execs /\ exec[e].pc # "unborn"
  /\ exec[e].cancelled \/ exec[e].pc \in {"finish", "ended"} \/ run.step = "completed"
CommitIsLast == \A i \in ByRun : Spent(versions[i].by)

IInv ==
  /\ Typed /\ StagesFollowSteps /\ StepsRest /\ CommitsAreGrounded /\ VersionsAreGrounded
  /\ StagesFollowKind /\ NoneBegun
  /\ Companions /\ ActiveIsLive /\ OneExecutor /\ OnStep /\ CompletedIsBacked

-----------------------------------------------------------------------------
LEMMA StepValues ==
  /\ Steps[1] = "retrieve_evidence" /\ Steps[2] = "compose_document"
  /\ Steps[3] = "commit_version" /\ Steps[4] = "completed"
  /\ StepNames = ToolSteps \cup {"completed"}
  /\ {Steps[i] : i \in 1..3} = ToolSteps
<1>1. /\ DOMAIN Steps = 1..4
      /\ Steps[1] = "retrieve_evidence" /\ Steps[2] = "compose_document"
      /\ Steps[3] = "commit_version" /\ Steps[4] = "completed"
  BY DEF Steps
<1>2. 1..4 = {1, 2, 3, 4} /\ 1..3 = {1, 2, 3}
  OBVIOUS
<1> QED
  BY <1>1, <1>2 DEF StepNames, ToolSteps

LEMMA RankValues ==
  /\ Rank("retrieve_evidence") = 1 /\ Rank("compose_document") = 2
  /\ Rank("commit_version") = 3 /\ Rank("completed") = 4
<1>1. /\ DOMAIN Steps = {1, 2, 3, 4}
      /\ Steps[1] = "retrieve_evidence" /\ Steps[2] = "compose_document"
      /\ Steps[3] = "commit_version" /\ Steps[4] = "completed"
  BY DEF Steps
<1>2. Rank("retrieve_evidence") = 1
  BY <1>1 DEF Rank
<1>3. Rank("compose_document") = 2
  BY <1>1 DEF Rank
<1>4. Rank("commit_version") = 3
  BY <1>1 DEF Rank
<1>5. Rank("completed") = 4
  BY <1>1 DEF Rank
<1> QED
  BY <1>2, <1>3, <1>4, <1>5

LEMMA PcValues ==
  /\ ToolSteps \subseteq ExecPcs
  /\ {"load", "decide", "setRunning", "model", "check", "freeze", "finish", "toolDone", "stageError",
      "markPaused", "markFailed", "markCompleted", "clear", "ended", "unborn"} \subseteq ExecPcs
BY StepValues DEF ExecPcs

LEMMA NoExecIsRecord ==
  ASSUME NEW pc \in ExecPcs, NEW c \in BOOLEAN
  PROVE  [NoExec EXCEPT !.pc = pc, !.cancelled = c] \in ExecRecords
BY StepValues DEF NoExec, ExecRecords, Statuses, ToolSteps, None

LEMMA LeaveIsTyped ==
  ASSUME exec \in [Execs -> ExecRecords], NEW e \in Execs, NEW pc \in ExecPcs, Leave(e, pc)
  PROVE  exec' \in [Execs -> ExecRecords]
<1>1. exec[e].cancelled \in BOOLEAN
  BY DEF ExecRecords
<1>2. [NoExec EXCEPT !.pc = pc, !.cancelled = exec[e].cancelled] \in ExecRecords
  BY <1>1, NoExecIsRecord
<1> QED
  BY <1>2 DEF Leave

LEMMA ToIsTyped ==
  ASSUME exec \in [Execs -> ExecRecords], NEW e \in Execs, NEW pc \in ExecPcs, To(e, pc)
  PROVE  exec' \in [Execs -> ExecRecords]
<1>1. [exec[e] EXCEPT !.pc = pc] \in ExecRecords
  BY DEF ExecRecords
<1>2. exec' = [exec EXCEPT ![e] = [exec[e] EXCEPT !.pc = pc]]
  BY DEF To
<1> QED
  BY <1>1, <1>2

LEMMA TypedIsTypeOK == Typed <=> TypeOK
BY DEF Typed, TypeOK, RunRecords, ExecRecords, RequestRecords, VersionRecords

LEMMA AwaitIsTyped ==
  ASSUME req \in [Requests -> RequestRecords], NEW r \in Requests,
         NEW pc \in {"idle", "task", "launch", "active", "write", "cancel", "writePaused",
                     "view", "orphan", "orphanWrite", "done"},
         Await(r, pc)
  PROVE  req' \in [Requests -> RequestRecords]
<1>1. [pc |-> pc, status |-> "none"] \in RequestRecords
  BY DEF RequestRecords, Statuses
<1> QED
  BY <1>1 DEF Await

LEMMA NextTypes == Typed /\ StagesFollowSteps /\ [Next]_vars => Typed'
<1> SUFFICES ASSUME Typed, StagesFollowSteps, [Next]_vars PROVE Typed'
  OBVIOUS
<1> USE DEF Typed
<1>1. ASSUME NEW e \in Execs, ExecLoad(e) PROVE Typed'
  <2>1. exec' \in [Execs -> ExecRecords]
    <3>1. [exec[e] EXCEPT !.pc = "decide", !.status = run.status, !.step = run.step] \in ExecRecords
      BY PcValues DEF ExecRecords, RunRecords
    <3> QED
      BY <1>1, <3>1, LeaveIsTyped, ToIsTyped, PcValues DEF ExecLoad
  <2> QED
    BY <1>1, <2>1 DEF ExecLoad, dbVars
<1>2. ASSUME NEW e \in Execs, ExecDecide(e) PROVE Typed'
  <2>1. exec' \in [Execs -> ExecRecords]
    <3>1. [exec[e] EXCEPT !.pc = "setRunning", !.status = "none"] \in ExecRecords
      BY PcValues DEF ExecRecords, Statuses
    <3> QED
      BY <1>2, <3>1, LeaveIsTyped, ToIsTyped, PcValues DEF ExecDecide
  <2> QED
    BY <1>2, <2>1 DEF ExecDecide, dbVars
<1>3. ASSUME NEW e \in Execs, ExecSetRunning(e) PROVE Typed'
  <2>1. exec' \in [Execs -> ExecRecords]
    BY <1>3, LeaveIsTyped, ToIsTyped, PcValues DEF ExecSetRunning
  <2>2. run' \in RunRecords
    BY <1>3, StepValues DEF ExecSetRunning, RunRecords, Statuses, Busy, None
  <2> QED
    BY <1>3, <2>1, <2>2 DEF ExecSetRunning, dbVars
<1>4. ASSUME NEW e \in Execs, ExecModel(e) PROVE Typed'
  <2>1. [exec[e] EXCEPT !.pc = "check", !.calls = exec[e].calls + 1] \in ExecRecords
    <3>1. exec[e] \in ExecRecords /\ exec[e].calls \in Nat
      BY DEF ExecRecords
    <3>2. exec[e].calls + 1 \in Nat
      BY <3>1
    <3> DEFINE n == exec[e].calls + 1
    <3> HIDE DEF n
    <3>3. [exec[e] EXCEPT !.pc = "check", !.calls = n] \in ExecRecords
      <4>1. n \in Nat
        BY <3>2 DEF n
      <4> QED
        BY <3>1, <4>1, PcValues DEF ExecRecords
    <3> QED
      BY <3>3 DEF n
  <2>2. \/ exec' = [exec EXCEPT ![e] = [exec[e] EXCEPT !.pc = "check", !.calls = exec[e].calls + 1]]
        \/ Leave(e, "stageError")
    BY <1>4 DEF ExecModel
  <2>3. exec' \in [Execs -> ExecRecords]
    BY <2>1, <2>2, LeaveIsTyped, PcValues
  <2> QED
    BY <1>4, <2>3 DEF ExecModel, dbVars
<1>5. ASSUME NEW e \in Execs, ExecCheck(e) PROVE Typed'
  <2>1. exec[e].step \in ExecPcs /\ run.body \in Execs \cup {None} /\ run.evidence \in Nat
    BY <1>5, PcValues DEF ExecCheck, StagesFollowSteps, RunRecords
  <2>2. [exec[e] EXCEPT !.pc = exec[e].step, !.body = run.body, !.evidence = run.evidence] \in ExecRecords
    BY <2>1 DEF ExecRecords
  <2>3. exec' \in [Execs -> ExecRecords]
    BY <1>5, <2>2, ToIsTyped, PcValues DEF ExecCheck
  <2> QED
    BY <1>5, <2>3 DEF ExecCheck, dbVars
<1>6. ASSUME NEW e \in Execs, ToolFails(e) PROVE Typed'
  <2>1. exec' \in [Execs -> ExecRecords]
    BY <1>6, LeaveIsTyped, ToIsTyped, PcValues DEF ToolFails
  <2> QED
    BY <1>6, <2>1 DEF ToolFails, dbVars
<1>7. ASSUME NEW e \in Execs, RetrieveEvidence(e) PROVE Typed'
  <2>1. exec' \in [Execs -> ExecRecords]
    BY <1>7, LeaveIsTyped, PcValues DEF RetrieveEvidence
  <2>2. [run EXCEPT !.evidence = run.evidence + 1, !.step = "compose_document"] \in RunRecords
    <3> DEFINE n == run.evidence + 1
    <3>1. n \in Nat
      BY DEF RunRecords
    <3> HIDE DEF n
    <3>2. [run EXCEPT !.evidence = n, !.step = "compose_document"] \in RunRecords
      BY <3>1, StepValues DEF ToolSteps, RunRecords
    <3> QED
      BY <3>2 DEF n
  <2>3. run' = [run EXCEPT !.evidence = run.evidence + 1, !.step = "compose_document"]
    BY <1>7 DEF RetrieveEvidence
  <2> QED
    BY <1>7, <2>1, <2>2, <2>3 DEF RetrieveEvidence
<1>7a. ASSUME NEW e \in Execs, SearchMore(e) PROVE Typed'
  <2>1. exec' \in [Execs -> ExecRecords]
    BY <1>7a, ToIsTyped, PcValues DEF SearchMore
  <2> QED
    BY <1>7a, <2>1 DEF SearchMore, dbVars
<1>7b. ASSUME NEW e \in Execs, FreezeEvidence(e) PROVE Typed'
  <2>1. exec' \in [Execs -> ExecRecords]
    BY <1>7b, ToIsTyped, PcValues DEF FreezeEvidence, ToolSteps
  <2>2. [run EXCEPT !.evidence = run.evidence + 1] \in RunRecords
    <3> DEFINE n == run.evidence + 1
    <3>1. n \in Nat
      BY DEF RunRecords
    <3> HIDE DEF n
    <3>2. [run EXCEPT !.evidence = n] \in RunRecords
      BY <3>1 DEF RunRecords
    <3> QED
      BY <3>2 DEF n
  <2>3. run' = run \/ run' = [run EXCEPT !.evidence = run.evidence + 1]
    BY <1>7b DEF FreezeEvidence
  <2> QED
    BY <1>7b, <2>1, <2>2, <2>3 DEF FreezeEvidence
<1>8. ASSUME NEW e \in Execs, ComposeDocument(e) PROVE Typed'
  <2>1. exec' \in [Execs -> ExecRecords]
    BY <1>8, LeaveIsTyped, ToIsTyped, PcValues DEF ComposeDocument
  <2>2. run' \in RunRecords
    BY <1>8, StepValues DEF ToolSteps, ComposeDocument, RunRecords, Statuses, Busy, None
  <2> QED
    BY <1>8, <2>1, <2>2 DEF ComposeDocument, dbVars
<1>9. ASSUME NEW e \in Execs, CommitVersion(e) PROVE Typed'
  <2>1. versions' \in Seq(VersionRecords) /\ Len(versions') \in Nat
    <3>1. [by |-> e, body |-> exec[e].body, evidence |-> exec[e].evidence] \in VersionRecords
      BY DEF ExecRecords, VersionRecords
    <3>2. versions' = Append(versions, [by |-> e, body |-> exec[e].body, evidence |-> exec[e].evidence])
      BY <1>9 DEF CommitVersion, persistVersion
    <3> HIDE DEF VersionRecords
    <3> QED
      BY <3>1, <3>2
  <2>2. [exec[e] EXCEPT !.pc = "finish", !.version = Len(versions')] \in ExecRecords
    BY <2>1, PcValues DEF ExecRecords
  <2> QED
    BY <1>9, <2>1, <2>2 DEF CommitVersion, persistVersion
<1>10. ASSUME NEW e \in Execs, CommitFinish(e) PROVE Typed'
  <2>1. exec' \in [Execs -> ExecRecords]
    BY <1>10, LeaveIsTyped, ToIsTyped, PcValues DEF CommitFinish
  <2>2. run' \in RunRecords
    BY <1>10, StepValues DEF ExecRecords, CommitFinish, RunRecords, Statuses, Busy, None
  <2> QED
    BY <1>10, <2>1, <2>2 DEF CommitFinish, dbVars
<1>11. ASSUME NEW e \in Execs, ToolDone(e) PROVE Typed'
  <2>1. exec' \in [Execs -> ExecRecords]
    BY <1>11, LeaveIsTyped, ToIsTyped, PcValues DEF ToolDone
  <2> QED
    BY <1>11, <2>1 DEF ToolDone, dbVars
<1>12. ASSUME NEW e \in Execs, ExecStageError(e) PROVE Typed'
  <2>1. exec' \in [Execs -> ExecRecords]
    BY <1>12, LeaveIsTyped, ToIsTyped, PcValues DEF ExecStageError
  <2> QED
    BY <1>12, <2>1 DEF ExecStageError, dbVars
<1>13. ASSUME NEW e \in Execs, ExecMark(e) PROVE Typed'
  <2>1. exec' \in [Execs -> ExecRecords]
    BY <1>13, LeaveIsTyped, ToIsTyped, PcValues DEF ExecMark
  <2>2. run' \in RunRecords
    BY <1>13, StepValues DEF ExecMark, RunRecords, Statuses, Busy, None
  <2> QED
    BY <1>13, <2>1, <2>2 DEF ExecMark, dbVars
<1>14. ASSUME NEW e \in Execs, ExecClear(e) PROVE Typed'
  <2>1. Ended \in ExecRecords
    BY StepValues, PcValues DEF Ended, NoExec, ExecRecords, Statuses, None, ToolSteps
  <2> QED
    BY <1>14, <2>1 DEF ExecClear, dbVars, None
<1>15. ASSUME NEW r \in Requests, StartCreate(r) PROVE Typed'
  <2>1. run' \in RunRecords
    BY <1>15 DEF StartCreate, RunRecords, Statuses, Busy
  <2> QED
    BY <1>15, <2>1, AwaitIsTyped DEF StartCreate, Finished
<1>16. ASSUME NEW r \in Requests, Begin(r) PROVE Typed'
  <2>1. \A pc \in {"active", "orphan"} : [pc |-> pc, status |-> run.status] \in RequestRecords
    BY DEF RunRecords, RequestRecords
  <2>2. \A pc \in {"active", "orphan"} : Read(r, pc) => req' \in [Requests -> RequestRecords]
    BY <2>1 DEF Read
  <2>3. \A pc \in {"done", "view", "write"} : Await(r, pc) => req' \in [Requests -> RequestRecords]
    BY AwaitIsTyped
  <2>4. RequestKind[r] \in {"pause", "resume", "view"}
    BY <1>16, WritingRunAssumption DEF Begin
  <2>5. req' \in [Requests -> RequestRecords]
    BY <1>16, <2>2, <2>3, <2>4 DEF Begin
  <2> QED
    BY <1>16, <2>5 DEF Begin, dbVars
<1>17. ASSUME NEW r \in Requests, StartTask(r) PROVE Typed'
  BY <1>17, AwaitIsTyped DEF StartTask, Finished, dbVars
<1>18. ASSUME NEW r \in Requests, Launch(r) PROVE Typed'
  <2>1. PICK e \in Execs : /\ registered' = e
                           /\ exec' = [exec EXCEPT ![e] = [exec[e] EXCEPT !.pc = "load"]]
                           /\ met' = IF Live = {} THEN met ELSE met \cup Live \cup {e}
    BY <1>18 DEF Launch, launch
  <2>2. [exec[e] EXCEPT !.pc = "load"] \in ExecRecords
    BY PcValues DEF ExecRecords
  <2> QED
    BY <1>18, <2>1, <2>2, AwaitIsTyped DEF Launch, Live, dbVars
<1>19. ASSUME NEW r \in Requests, ResumeActive(r) PROVE Typed'
  BY <1>19, AwaitIsTyped DEF ResumeActive, Finished, dbVars
<1>20. ASSUME NEW r \in Requests, ResumeWrite(r) PROVE Typed'
  <2>1. run' \in RunRecords
    BY <1>20 DEF ResumeWrite, RunRecords, Statuses, Busy
  <2> QED
    BY <1>20, <2>1, AwaitIsTyped DEF ResumeWrite, Finished
<1>21. ASSUME NEW r \in Requests, PauseWrite(r) PROVE Typed'
  <2>1. run' \in RunRecords
    BY <1>21 DEF PauseWrite, RunRecords, Statuses, Busy
  <2> QED
    BY <1>21, <2>1, AwaitIsTyped DEF PauseWrite, Finished
<1>22. ASSUME NEW r \in Requests, PauseCancel(r) PROVE Typed'
  <2>1. CASE Active
    <3>1. registered \in Execs
      BY <2>1 DEF Active
    <3>2. [exec[registered] EXCEPT !.cancelled = TRUE] \in ExecRecords
      BY <3>1 DEF ExecRecords
    <3>3. exec' = [exec EXCEPT ![registered] = [exec[registered] EXCEPT !.cancelled = TRUE]]
      BY <1>22, <2>1 DEF PauseCancel, CancelEffect
    <3> QED
      BY <1>22, <3>1, <3>2, <3>3, AwaitIsTyped DEF PauseCancel, dbVars
  <2>2. CASE ~Active
    BY <1>22, <2>2, AwaitIsTyped DEF PauseCancel, CancelEffect, dbVars
  <2> QED
    BY <2>1, <2>2
<1>23. ASSUME NEW r \in Requests, PauseWritePaused(r) PROVE Typed'
  <2>1. run' \in RunRecords
    BY <1>23 DEF PauseWritePaused, RunRecords, Statuses, Busy
  <2> QED
    BY <1>23, <2>1, AwaitIsTyped DEF PauseWritePaused, Finished
<1>24. ASSUME NEW r \in Requests, ViewRead(r) PROVE Typed'
  <2>1. [pc |-> "active", status |-> run.status] \in RequestRecords
        /\ [pc |-> "orphan", status |-> run.status] \in RequestRecords
    BY DEF RunRecords, RequestRecords
  <2> QED
    BY <1>24, <2>1, AwaitIsTyped DEF ViewRead, Read, dbVars
<1>25. ASSUME NEW r \in Requests, OrphanCheck(r) PROVE Typed'
  BY <1>25, AwaitIsTyped DEF OrphanCheck, Finished, dbVars
<1>26. ASSUME NEW r \in Requests, OrphanWrite(r) PROVE Typed'
  <2>1. run' \in RunRecords
    BY <1>26 DEF OrphanWrite, RunRecords, Statuses, Busy
  <2> QED
    BY <1>26, <2>1, AwaitIsTyped DEF OrphanWrite, Finished
<1>27. ASSUME NEW r \in Requests, Abort(r) PROVE Typed'
  BY <1>27, AwaitIsTyped DEF Abort, Finished, dbVars
<1>28. CASE SaveVersion
  <2>1. versions' \in Seq(VersionRecords)
    <3>1. [by |-> None, body |-> None, evidence |-> 0] \in VersionRecords
      BY DEF VersionRecords
    <3>2. versions' = Append(versions, [by |-> None, body |-> None, evidence |-> 0])
      BY <1>28 DEF SaveVersion, persistVersion
    <3> HIDE DEF VersionRecords
    <3> QED
      BY <3>1, <3>2
  <2> QED
    BY <1>28, <2>1 DEF SaveVersion, persistVersion
<1>29. CASE Crash
  <2>1. Ended \in ExecRecords
    BY StepValues, PcValues DEF Ended, NoExec, ExecRecords, Statuses, None, ToolSteps
  <2>2. exec' \in [Execs -> ExecRecords]
    BY <1>29, <2>1 DEF Crash
  <2>3. req' \in [Requests -> RequestRecords]
    BY <1>29 DEF Crash, RequestRecords, Statuses, Finished
  <2> QED
    <3>1. registered' \in Execs \cup {None} /\ crashes' \in Nat
      BY <1>29 DEF Crash
    <3> QED
      BY <1>29, <3>1, <2>2, <2>3 DEF Crash, dbVars
<1>30. CASE UNCHANGED vars
  BY <1>30 DEF vars, dbVars
<1> QED
  BY <1>1, <1>2, <1>3, <1>4, <1>5, <1>6, <1>7, <1>7a, <1>7b, <1>8, <1>9, <1>10,
     <1>11, <1>12, <1>13, <1>14, <1>15, <1>16, <1>17, <1>18, <1>19, <1>20, <1>21,
     <1>22, <1>23, <1>24, <1>25, <1>26, <1>27, <1>28, <1>29, <1>30
  DEF Next, ExecStep, RequestStep

\* What a step of an executor does to the executors.
Alone(e) == \A f \in Execs : f # e => exec'[f] = exec[f]

LEMMA LeaveEffect ==
  ASSUME exec \in [Execs -> ExecRecords], NEW e \in Execs, NEW pc, Leave(e, pc)
  PROVE  /\ Alone(e)
         /\ exec'[e].pc = pc /\ exec'[e].step = "retrieve_evidence" /\ exec'[e].body = None
         /\ exec'[e].evidence = 0 /\ exec'[e].version = None
<1>1. exec'[e] = [NoExec EXCEPT !.pc = pc, !.cancelled = exec[e].cancelled]
  BY DEF Leave
<1>2. /\ exec'[e].pc = pc /\ exec'[e].step = Steps[1] /\ exec'[e].body = None
      /\ exec'[e].evidence = 0 /\ exec'[e].version = None
  BY <1>1 DEF NoExec
<1>3. Alone(e)
  BY DEF Leave, Alone
<1> QED
  BY <1>2, <1>3, StepValues

LEMMA ToEffect ==
  ASSUME exec \in [Execs -> ExecRecords], NEW e \in Execs, NEW pc, To(e, pc)
  PROVE  /\ Alone(e)
         /\ exec'[e].pc = pc /\ exec'[e].step = exec[e].step /\ exec'[e].body = exec[e].body
         /\ exec'[e].evidence = exec[e].evidence /\ exec'[e].version = exec[e].version
<1>1. exec'[e] = [exec[e] EXCEPT !.pc = pc] /\ exec[e] \in ExecRecords
  BY DEF To
<1>2. Alone(e)
  BY DEF To, Alone
<1> QED
  BY <1>1, <1>2 DEF ExecRecords

LEMMA LoadEffect ==
  ASSUME Typed, NEW e \in Execs, ExecLoad(e)
  PROVE  /\ Alone(e) /\ req' = req /\ met' = met
         /\ exec[e].pc = "load" /\ UNCHANGED <<run, versions, registered>>
         /\ \/ exec'[e].pc = "clear" /\ exec'[e].step = "retrieve_evidence"
            \/ exec'[e].pc = "decide" /\ exec'[e].step = run.step
<1>0. exec \in [Execs -> ExecRecords] /\ run \in RunRecords /\ exec[e] \in ExecRecords
  BY DEF Typed
<1>1. CASE exec' = [exec EXCEPT ![e] = [exec[e] EXCEPT !.pc = "decide", !.status = run.status, !.step = run.step]]
  <2>1. exec'[e] = [exec[e] EXCEPT !.pc = "decide", !.status = run.status, !.step = run.step]
    BY <1>0, <1>1
  <2> QED
    BY <1>0, <1>1, <2>1 DEF ExecLoad, ExecRecords, Alone, dbVars
<1>2. CASE ~(exec' = [exec EXCEPT ![e] = [exec[e] EXCEPT !.pc = "decide", !.status = run.status, !.step = run.step]])
  BY <1>0, <1>2, LeaveEffect, ToEffect DEF ExecLoad, dbVars
<1> QED
  BY <1>1, <1>2

LEMMA DecideEffect ==
  ASSUME Typed, NEW e \in Execs, ExecDecide(e)
  PROVE  /\ Alone(e) /\ req' = req /\ met' = met
         /\ exec[e].pc = "decide" /\ UNCHANGED <<run, versions, registered>>
         /\ \/ exec'[e].pc \in {"markPaused", "clear"} /\ exec'[e].step = "retrieve_evidence"
            \/ exec'[e].pc = "setRunning" /\ exec'[e].step = exec[e].step
<1>0. exec \in [Execs -> ExecRecords] /\ run \in RunRecords /\ exec[e] \in ExecRecords
  BY DEF Typed
<1>1. CASE exec' = [exec EXCEPT ![e] = [exec[e] EXCEPT !.pc = "setRunning", !.status = "none"]]
  <2>1. exec'[e] = [exec[e] EXCEPT !.pc = "setRunning", !.status = "none"]
    BY <1>0, <1>1
  <2> QED
    BY <1>0, <1>1, <2>1 DEF ExecDecide, ExecRecords, Alone, dbVars
<1>2. CASE ~(exec' = [exec EXCEPT ![e] = [exec[e] EXCEPT !.pc = "setRunning", !.status = "none"]])
  BY <1>0, <1>2, LeaveEffect, ToEffect DEF ExecDecide, dbVars
<1> QED
  BY <1>1, <1>2

LEMMA ModelEffect ==
  ASSUME Typed, NEW e \in Execs, ExecModel(e)
  PROVE  /\ Alone(e) /\ req' = req /\ met' = met
         /\ exec[e].pc = "model" /\ UNCHANGED <<run, versions, registered>>
         /\ \/ exec'[e].pc = "stageError" /\ exec'[e].step = "retrieve_evidence"
            \/ exec'[e].pc = "check" /\ exec'[e].step = exec[e].step
<1>0. exec \in [Execs -> ExecRecords] /\ run \in RunRecords /\ exec[e] \in ExecRecords
  BY DEF Typed
<1>1. CASE exec' = [exec EXCEPT ![e] = [exec[e] EXCEPT !.pc = "check", !.calls = exec[e].calls + 1]]
  <2>1. exec'[e] = [exec[e] EXCEPT !.pc = "check", !.calls = exec[e].calls + 1]
    BY <1>0, <1>1
  <2> QED
    BY <1>0, <1>1, <2>1 DEF ExecModel, ExecRecords, Alone, dbVars
<1>2. CASE ~(exec' = [exec EXCEPT ![e] = [exec[e] EXCEPT !.pc = "check", !.calls = exec[e].calls + 1]])
  BY <1>0, <1>2, LeaveEffect, ToEffect DEF ExecModel, dbVars
<1> QED
  BY <1>1, <1>2

LEMMA CheckEffect ==
  ASSUME Typed, NEW e \in Execs, ExecCheck(e)
  PROVE  /\ Alone(e) /\ req' = req /\ met' = met
         /\ exec[e].pc = "check" /\ UNCHANGED <<run, versions, registered>>
         /\ exec'[e].step = exec[e].step
         /\ \/ exec'[e].pc = "model"
            \/ /\ exec'[e].pc = exec[e].step /\ run.step = exec[e].step
               /\ exec[e].step = "compose_document" => run.evidence > 0
               /\ exec[e].step = "commit_version" => run.body # None
               /\ exec'[e].body = run.body /\ exec'[e].evidence = run.evidence
<1>0. exec \in [Execs -> ExecRecords] /\ run \in RunRecords /\ exec[e] \in ExecRecords
  BY DEF Typed
<1>1. CASE exec' = [exec EXCEPT ![e] = [exec[e] EXCEPT !.pc = exec[e].step, !.body = run.body, !.evidence = run.evidence]]
  <2>1. exec'[e] = [exec[e] EXCEPT !.pc = exec[e].step, !.body = run.body, !.evidence = run.evidence]
    BY <1>0, <1>1
  <2> QED
    BY <1>0, <1>1, <2>1, ToEffect DEF ExecCheck, ToolAllowed, ExecRecords, Alone, dbVars
<1>2. CASE ~(exec' = [exec EXCEPT ![e] = [exec[e] EXCEPT !.pc = exec[e].step, !.body = run.body, !.evidence = run.evidence]])
  BY <1>0, <1>2, LeaveEffect, ToEffect DEF ExecCheck, ToolAllowed, dbVars
<1> QED
  BY <1>1, <1>2

LEMMA CommitEffect ==
  ASSUME Typed, NEW e \in Execs, CommitVersion(e)
  PROVE  /\ Alone(e) /\ req' = req /\ met' = met
         /\ exec[e].pc = "commit_version" /\ UNCHANGED <<run, registered>>
         /\ exec'[e].pc = "finish" /\ exec'[e].step = exec[e].step /\ exec'[e].body = exec[e].body
         /\ exec'[e].evidence = exec[e].evidence
<1>0. exec \in [Execs -> ExecRecords] /\ run \in RunRecords /\ exec[e] \in ExecRecords
  BY DEF Typed
<1>1. exec' = [exec EXCEPT ![e] = [exec[e] EXCEPT !.pc = "finish", !.version = Len(versions')]]
  BY DEF CommitVersion
<1>2. exec'[e] = [exec[e] EXCEPT !.pc = "finish", !.version = Len(versions')]
  BY <1>0, <1>1
<1> QED
  BY <1>0, <1>1, <1>2 DEF CommitVersion, persistVersion, ExecRecords, Alone

LEMMA SetRunningEffect ==
  ASSUME Typed, NEW e \in Execs, ExecSetRunning(e)
  PROVE  /\ Alone(e) /\ req' = req /\ met' = met
         /\ exec[e].pc = "setRunning" /\ exec[e].step \in ToolSteps \cup {"completed"}
         /\ UNCHANGED <<versions, registered>>
         /\ run'.evidence = run.evidence /\ run'.body = run.body /\ run'.version = run.version
         /\ run'.step = run.step /\ run'.status \in {run.status, "running"}
         /\ \/ exec'[e].pc = "clear" /\ exec'[e].step = "retrieve_evidence"
            \/ /\ exec'[e].pc = IF exec[e].step = "completed" THEN "markCompleted" ELSE "model"
               /\ exec'[e].step = exec[e].step
<1>0. exec \in [Execs -> ExecRecords] /\ run \in RunRecords /\ exec[e] \in ExecRecords
  BY DEF Typed
<1>3. exec[e].step \in ToolSteps \cup {"completed"}
  BY <1>0, StepValues DEF ExecRecords
<1>1. CASE run' = [run EXCEPT !.status = "running"]
          /\ To(e, IF exec[e].step = "completed" THEN "markCompleted" ELSE "model")
  BY <1>0, <1>1, <1>3, ToEffect DEF ExecSetRunning, RunRecords
<1>2. CASE run' = run /\ Leave(e, "clear")
  BY <1>0, <1>2, <1>3, LeaveEffect DEF ExecSetRunning
<1> QED
  BY <1>1, <1>2 DEF ExecSetRunning

LEMMA FailsEffect ==
  ASSUME Typed, NEW e \in Execs, ToolFails(e)
  PROVE  /\ Alone(e) /\ req' = req /\ met' = met
         /\ exec[e].pc \in ToolSteps \cup {"finish"} /\ UNCHANGED <<run, versions, registered>>
         /\ exec'[e].pc = "model" /\ exec'[e].step = exec[e].step
<1>0. exec \in [Execs -> ExecRecords] /\ run \in RunRecords /\ exec[e] \in ExecRecords
  BY DEF Typed
<1> QED
  BY <1>0, ToEffect DEF ToolFails, RunRecords, ToolSteps, dbVars

LEMMA RetrieveEffect ==
  ASSUME Typed, NEW e \in Execs, RetrieveEvidence(e)
  PROVE  /\ Alone(e) /\ req' = req /\ met' = met
         /\ exec[e].pc = "retrieve_evidence" /\ UNCHANGED <<versions, registered>>
         /\ run'.evidence = run.evidence + 1 /\ run'.step = "compose_document"
         /\ run'.body = run.body /\ run'.version = run.version /\ run'.status = run.status
         /\ exec'[e].pc = "toolDone" /\ exec'[e].step = "retrieve_evidence"
<1>0. exec \in [Execs -> ExecRecords] /\ run \in RunRecords /\ exec[e] \in ExecRecords
  BY DEF Typed
<1> QED
  BY <1>0, LeaveEffect DEF RetrieveEvidence, RunRecords

LEMMA SearchEffect ==
  ASSUME Typed, NEW e \in Execs, SearchMore(e)
  PROVE  /\ Alone(e) /\ req' = req /\ met' = met
         /\ exec[e].pc = "compose_document" /\ UNCHANGED <<run, versions, registered>>
         /\ exec'[e].pc = "freeze" /\ exec'[e].step = exec[e].step
<1>0. exec \in [Execs -> ExecRecords] /\ run \in RunRecords /\ exec[e] \in ExecRecords
  BY DEF Typed
<1> QED
  BY <1>0, ToEffect DEF SearchMore, RunRecords, dbVars

LEMMA FreezeEffect ==
  ASSUME Typed, NEW e \in Execs, FreezeEvidence(e)
  PROVE  /\ Alone(e) /\ req' = req /\ met' = met
         /\ exec[e].pc = "freeze" /\ UNCHANGED <<versions, registered>>
         /\ run'.evidence \in {run.evidence, run.evidence + 1} /\ run'.step = run.step
         /\ run'.body = run.body /\ run'.version = run.version /\ run'.status = run.status
         /\ exec'[e].pc = "compose_document" /\ exec'[e].step = exec[e].step
<1>0. exec \in [Execs -> ExecRecords] /\ run \in RunRecords /\ exec[e] \in ExecRecords
  BY DEF Typed
<1>1. CASE run' = run
  BY <1>0, <1>1, ToEffect DEF FreezeEvidence
<1>2. CASE run' = [run EXCEPT !.evidence = run.evidence + 1]
  BY <1>0, <1>2, ToEffect DEF FreezeEvidence, RunRecords
<1> QED
  BY <1>1, <1>2 DEF FreezeEvidence

LEMMA ComposeEffect ==
  ASSUME Typed, NEW e \in Execs, ComposeDocument(e)
  PROVE  /\ Alone(e) /\ req' = req /\ met' = met
         /\ exec[e].pc = "compose_document" /\ UNCHANGED <<versions, registered>>
         /\ run'.evidence = run.evidence /\ run'.step = "commit_version"
         /\ run'.body = e /\ run'.version = run.version /\ run'.status = run.status
         /\ exec'[e].pc = "toolDone" /\ exec'[e].step = "retrieve_evidence"
<1>0. exec \in [Execs -> ExecRecords] /\ run \in RunRecords /\ exec[e] \in ExecRecords
  BY DEF Typed
<1> QED
  BY <1>0, LeaveEffect DEF ComposeDocument, RunRecords

LEMMA FinishEffect ==
  ASSUME Typed, NEW e \in Execs, CommitFinish(e)
  PROVE  /\ Alone(e) /\ req' = req /\ met' = met
         /\ exec[e].pc = "finish" /\ UNCHANGED <<versions, registered>>
         /\ run'.evidence = run.evidence /\ run'.step = "completed" /\ run'.status = "completed"
         /\ run'.body = run.body /\ run'.version = exec[e].version
         /\ exec'[e].pc = "toolDone" /\ exec'[e].step = "retrieve_evidence"
<1>0. exec \in [Execs -> ExecRecords] /\ run \in RunRecords /\ exec[e] \in ExecRecords
  BY DEF Typed
<1> QED
  BY <1>0, LeaveEffect DEF CommitFinish, RunRecords

LEMMA DoneEffect ==
  ASSUME Typed, NEW e \in Execs, ToolDone(e)
  PROVE  /\ Alone(e) /\ req' = req /\ met' = met
         /\ exec[e].pc = "toolDone" /\ UNCHANGED <<run, versions, registered>>
         /\ exec'[e].pc \in {"load", "stageError"} /\ exec'[e].step = "retrieve_evidence"
<1>0. exec \in [Execs -> ExecRecords] /\ run \in RunRecords /\ exec[e] \in ExecRecords
  BY DEF Typed
<1> QED
  BY <1>0, LeaveEffect DEF ToolDone, RunRecords, dbVars

LEMMA ErrorEffect ==
  ASSUME Typed, NEW e \in Execs, ExecStageError(e)
  PROVE  /\ Alone(e) /\ req' = req /\ met' = met
         /\ exec[e].pc = "stageError" /\ UNCHANGED <<run, versions, registered>>
         /\ exec'[e].pc \in {"markPaused", "markFailed"} /\ exec'[e].step = exec[e].step
<1>0. exec \in [Execs -> ExecRecords] /\ run \in RunRecords /\ exec[e] \in ExecRecords
  BY DEF Typed
<1> QED
  BY <1>0, ToEffect DEF ExecStageError, RunRecords, dbVars

LEMMA MarkEffect ==
  ASSUME Typed, NEW e \in Execs, ExecMark(e)
  PROVE  /\ Alone(e) /\ req' = req /\ met' = met
         /\ exec[e].pc \in {"markPaused", "markFailed", "markCompleted"}
         /\ UNCHANGED <<versions, registered>>
         /\ run'.evidence = run.evidence /\ run'.body = run.body /\ run'.version = run.version
         /\ \/ run'.step = run.step /\ run'.status \in {run.status, "paused", "failed"}
            \/ exec[e].pc = "markCompleted" /\ run'.step = "completed" /\ run'.status = "completed"
         /\ exec'[e].pc = "clear" /\ exec'[e].step = exec[e].step
<1>0. exec \in [Execs -> ExecRecords] /\ run \in RunRecords /\ exec[e] \in ExecRecords
  BY DEF Typed
<1>1. CASE run' = run
  BY <1>0, <1>1, ToEffect DEF ExecMark
<1>2. CASE ~(run' = run) /\ exec[e].pc = "markPaused"
  <2>1. run' = [run EXCEPT !.status = "paused", !.step = run.step]
    BY <1>2 DEF ExecMark
  <2> QED
    BY <1>0, <1>2, <2>1, ToEffect DEF ExecMark, RunRecords
<1>3. CASE ~(run' = run) /\ exec[e].pc = "markFailed"
  <2>1. run' = [run EXCEPT !.status = "failed", !.step = run.step]
    BY <1>3 DEF ExecMark
  <2> QED
    BY <1>0, <1>3, <2>1, ToEffect DEF ExecMark, RunRecords
<1>4. CASE ~(run' = run) /\ exec[e].pc = "markCompleted"
  <2>1. run' = [run EXCEPT !.status = "completed", !.step = "completed"]
    BY <1>4 DEF ExecMark
  <2> QED
    BY <1>0, <1>4, <2>1, ToEffect DEF ExecMark, RunRecords
<1> QED
  BY <1>1, <1>2, <1>3, <1>4 DEF ExecMark

LEMMA ClearEffect ==
  ASSUME Typed, NEW e \in Execs, ExecClear(e)
  PROVE  /\ Alone(e) /\ req' = req /\ met' = met
         /\ exec[e].pc = "clear" /\ UNCHANGED <<run, versions>>
         /\ registered' = None
         /\ exec'[e].pc = "ended" /\ exec'[e].step = "retrieve_evidence"
<1>0. exec \in [Execs -> ExecRecords] /\ run \in RunRecords /\ exec[e] \in ExecRecords
  BY DEF Typed
<1>1. exec'[e] = [NoExec EXCEPT !.pc = "ended", !.cancelled = TRUE]
  BY <1>0 DEF ExecClear, Ended
<1>2. exec'[e].pc = "ended" /\ exec'[e].step = Steps[1]
  BY <1>1 DEF NoExec
<1> QED
  BY <1>0, <1>2, StepValues DEF ExecClear, Alone, dbVars

LEMMA LaunchEffect ==
  ASSUME exec \in [Execs -> ExecRecords], launch
  PROVE  \E e \in Execs :
           /\ Alone(e) /\ registered' = e
           /\ met' = IF Live = {} THEN met ELSE met \cup Live \cup {e}
           /\ exec[e].pc = "unborn" /\ exec'[e].pc = "load" /\ exec'[e].step = exec[e].step
<1>1. PICK e \in Execs : /\ exec[e].pc = "unborn" /\ registered' = e
                         /\ exec' = [exec EXCEPT ![e] = [exec[e] EXCEPT !.pc = "load"]]
                         /\ met' = IF Live = {} THEN met ELSE met \cup Live \cup {e}
  BY DEF launch
<1>2. exec'[e] = [exec[e] EXCEPT !.pc = "load"] /\ exec[e] \in ExecRecords
  BY <1>1
<1> QED
  BY <1>1, <1>2 DEF ExecRecords, Alone

LEMMA PersistEffect ==
  ASSUME versions \in Seq(VersionRecords), NEW by, NEW body, NEW evidence, NEW stage,
         persistVersion(by, body, evidence, stage)
  PROVE  /\ \A i \in ByRun : i \in ByRun' /\ versions'[i] = versions[i]
         /\ \A i \in ByRun' : \/ i \in ByRun /\ versions'[i] = versions[i]
                              \/ /\ by # None /\ versions'[i].body = body
                                 /\ i = Len(versions') /\ versions'[i].by = by
                                 /\ versions'[i].evidence = evidence
         /\ by # None => Len(versions') \in ByRun' /\ versions'[Len(versions')].body = body
                         /\ versions'[Len(versions')].evidence = evidence
<1> DEFINE v == [by |-> by, body |-> body, evidence |-> evidence]
<1>1. versions' = Append(versions, v)
  BY DEF persistVersion
<1>2. v.by = by /\ v.body = body /\ v.evidence = evidence
  OBVIOUS
<1> HIDE DEF v
<1> HIDE DEF VersionRecords
<1>3. /\ Len(versions) \in Nat /\ DOMAIN versions = 1..Len(versions)
      /\ Len(versions') = Len(versions) + 1
      /\ DOMAIN versions' = 1..Len(versions')
      /\ \A i \in 1..Len(versions) : versions'[i] = versions[i]
      /\ versions'[Len(versions')] = v
  <2>1. \E S : versions \in Seq(S) /\ v \in S
    <3> WITNESS VersionRecords \cup {v}
    <3>1. \A S, T : S \subseteq T => Seq(S) \subseteq Seq(T)
      OBVIOUS
    <3> QED
      BY <3>1
  <2> QED
    BY <1>1, <2>1
<1>4. \A i \in ByRun : i \in ByRun' /\ versions'[i] = versions[i]
  BY <1>3 DEF ByRun
<1>5. \A i \in ByRun' : (i \in ByRun /\ versions'[i] = versions[i]) \/ (i = Len(versions') /\ by # None)
  <2> SUFFICES ASSUME NEW i \in ByRun'
               PROVE  (i \in ByRun /\ versions'[i] = versions[i]) \/ (i = Len(versions') /\ by # None)
    OBVIOUS
  <2>1. i \in 1..Len(versions') /\ versions'[i].by # None
    BY <1>3 DEF ByRun
  <2>2. i \in 1..Len(versions) \/ i = Len(versions')
    BY <1>3, <2>1
  <2>3. CASE i \in 1..Len(versions)
    <3>1. i \in DOMAIN versions /\ versions'[i] = versions[i] /\ versions[i].by # None
      BY <1>3, <2>1, <2>3
    <3> QED
      BY <3>1 DEF ByRun
  <2>4. CASE i = Len(versions')
    BY <1>2, <1>3, <2>1, <2>4
  <2> QED
    BY <2>2, <2>3, <2>4
<1>6. by # None => Len(versions') \in ByRun'
  <2>1. Len(versions') \in DOMAIN versions'
    BY <1>3
  <2> QED
    BY <1>2, <1>3, <2>1 DEF ByRun
<1> QED
  BY <1>2, <1>3, <1>4, <1>5, <1>6

LEMMA CommitRecord ==
  ASSUME Typed, NEW e \in Execs, CommitVersion(e)
  PROVE  /\ exec'[e].version = Len(versions')
         /\ persistVersion(e, exec[e].body, exec[e].evidence, Stage)
<1>1. exec[e] \in ExecRecords /\ exec' = [exec EXCEPT ![e] = [exec[e] EXCEPT !.pc = "finish", !.version = Len(versions')]]
  BY DEF CommitVersion, Typed
<1>2. exec'[e] = [exec[e] EXCEPT !.pc = "finish", !.version = Len(versions')]
  BY <1>1 DEF Typed
<1> QED
  BY <1>1, <1>2 DEF CommitVersion, ExecRecords

LEMMA BeginEffect ==
  ASSUME Typed, NEW r \in Requests, Begin(r)
  PROVE  /\ UNCHANGED <<run, versions, registered, exec, met>>
         /\ \A s \in Requests : s # r => req'[s] = req[s]
         /\ req[r].pc = "idle" /\ run.status # "none"
         /\ \/ RequestKind[r] = "view" /\ req'[r].pc = "orphan"
            \/ RequestKind[r] = "pause" /\ req'[r].pc \in {"done", "view", "write"}
            \/ /\ RequestKind[r] = "resume" /\ req'[r].pc \in {"done", "active"}
               /\ Patient =>
                    /\ Live = {}
                    /\ \A s \in Requests : RequestKind[s] \in {"start", "resume"} =>
                         req[s].pc \in {"idle", "done", "view", "orphan", "orphanWrite"}
<1>0. req \in [Requests -> RequestRecords]
  BY DEF Typed
<1>1. RequestKind[r] \in {"pause", "resume", "view"}
  BY WritingRunAssumption DEF Begin
<1>2. CASE RequestKind[r] = "view"
  <2>1. Read(r, "orphan")
    BY <1>2 DEF Begin
  <2> QED
    BY <1>0, <1>2, <2>1 DEF Begin, Read, dbVars
<1>3. CASE RequestKind[r] = "pause"
  <2>1. \E pc \in {"done", "view", "write"} : Await(r, pc)
    BY <1>3 DEF Begin
  <2> QED
    BY <1>0, <1>3, <2>1 DEF Begin, Await, dbVars
<1>4. CASE RequestKind[r] = "resume"
  <2>1. Await(r, "done") \/ Read(r, "active")
    BY <1>4 DEF Begin
  <2>2. req' = [req EXCEPT ![r] = req'[r]] /\ req'[r].pc \in {"done", "active"}
    BY <1>0, <2>1 DEF Await, Read
  <2> QED
    BY <1>0, <1>4, <2>2 DEF Begin, dbVars
<1> QED
  BY <1>1, <1>2, <1>3, <1>4

LEMMA NextStagesFollowSteps == Typed /\ StagesFollowSteps /\ [Next]_vars => StagesFollowSteps'
<1> SUFFICES ASSUME Typed, StagesFollowSteps, [Next]_vars PROVE StagesFollowSteps'
  OBVIOUS
<1> USE StepValues DEF Typed, ToolSteps, StagesFollowSteps
<1>1. ASSUME NEW e \in Execs, ExecLoad(e) PROVE StagesFollowSteps'
  BY <1>1, LoadEffect DEF Alone
<1>2. ASSUME NEW e \in Execs, ExecDecide(e) PROVE StagesFollowSteps'
  BY <1>2, DecideEffect DEF Alone
<1>3. ASSUME NEW e \in Execs, ExecSetRunning(e) PROVE StagesFollowSteps'
  BY <1>3, SetRunningEffect DEF Alone
<1>4. ASSUME NEW e \in Execs, ExecModel(e) PROVE StagesFollowSteps'
  BY <1>4, ModelEffect DEF Alone
<1>5. ASSUME NEW e \in Execs, ExecCheck(e) PROVE StagesFollowSteps'
  BY <1>5, CheckEffect DEF Alone
<1>6. ASSUME NEW e \in Execs, ToolFails(e) PROVE StagesFollowSteps'
  BY <1>6, FailsEffect DEF Alone
<1>7. ASSUME NEW e \in Execs, RetrieveEvidence(e) PROVE StagesFollowSteps'
  BY <1>7, RetrieveEffect DEF Alone
<1>7a. ASSUME NEW e \in Execs, SearchMore(e) PROVE StagesFollowSteps'
  BY <1>7a, SearchEffect DEF Alone
<1>7b. ASSUME NEW e \in Execs, FreezeEvidence(e) PROVE StagesFollowSteps'
  BY <1>7b, FreezeEffect DEF Alone
<1>8. ASSUME NEW e \in Execs, ComposeDocument(e) PROVE StagesFollowSteps'
  BY <1>8, ComposeEffect DEF Alone
<1>9. ASSUME NEW e \in Execs, CommitVersion(e) PROVE StagesFollowSteps'
  BY <1>9, CommitEffect DEF Alone
<1>10. ASSUME NEW e \in Execs, CommitFinish(e) PROVE StagesFollowSteps'
  BY <1>10, FinishEffect DEF Alone
<1>11. ASSUME NEW e \in Execs, ToolDone(e) PROVE StagesFollowSteps'
  BY <1>11, DoneEffect DEF Alone
<1>12. ASSUME NEW e \in Execs, ExecStageError(e) PROVE StagesFollowSteps'
  BY <1>12, ErrorEffect DEF Alone
<1>13. ASSUME NEW e \in Execs, ExecMark(e) PROVE StagesFollowSteps'
  BY <1>13, MarkEffect DEF Alone
<1>14. ASSUME NEW e \in Execs, ExecClear(e) PROVE StagesFollowSteps'
  BY <1>14, ClearEffect DEF Alone
<1>15. ASSUME NEW r \in Requests, StartCreate(r) PROVE StagesFollowSteps'
  BY <1>15 DEF StartCreate, Is, Await, dbVars
<1>16. ASSUME NEW r \in Requests, Begin(r) PROVE StagesFollowSteps'
  BY <1>16, BeginEffect
<1>17. ASSUME NEW r \in Requests, StartTask(r) PROVE StagesFollowSteps'
  BY <1>17 DEF StartTask, Is, Await, dbVars
<1>18. ASSUME NEW r \in Requests, Launch(r) PROVE StagesFollowSteps'
  BY <1>18, LaunchEffect DEF Alone, Launch, Await, dbVars
<1>19. ASSUME NEW r \in Requests, ResumeActive(r) PROVE StagesFollowSteps'
  BY <1>19 DEF ResumeActive, Is, Await, dbVars
<1>20. ASSUME NEW r \in Requests, ResumeWrite(r) PROVE StagesFollowSteps'
  BY <1>20 DEF ResumeWrite, Is, Await, dbVars
<1>21. ASSUME NEW r \in Requests, PauseWrite(r) PROVE StagesFollowSteps'
  BY <1>21 DEF PauseWrite, Is, Await, dbVars
<1>22. ASSUME NEW r \in Requests, PauseCancel(r) PROVE StagesFollowSteps'
  BY <1>22 DEF PauseCancel, Is, Await, CancelEffect, Active, dbVars
<1>23. ASSUME NEW r \in Requests, PauseWritePaused(r) PROVE StagesFollowSteps'
  BY <1>23 DEF PauseWritePaused, Is, Await, dbVars
<1>24. ASSUME NEW r \in Requests, ViewRead(r) PROVE StagesFollowSteps'
  BY <1>24 DEF ViewRead, Read, dbVars
<1>25. ASSUME NEW r \in Requests, OrphanCheck(r) PROVE StagesFollowSteps'
  BY <1>25 DEF OrphanCheck, Await, Finished, dbVars
<1>26. ASSUME NEW r \in Requests, OrphanWrite(r) PROVE StagesFollowSteps'
  BY <1>26 DEF OrphanWrite, Await, Finished, dbVars
<1>27. ASSUME NEW r \in Requests, Abort(r) PROVE StagesFollowSteps'
  BY <1>27 DEF Abort, Await, Finished, dbVars
<1>28. CASE SaveVersion
  BY <1>28 DEF SaveVersion, persistVersion, dbVars
<1>29. CASE Crash
  BY <1>29 DEF Crash, Ended, NoExec, Finished, dbVars
<1>30. CASE UNCHANGED vars
  BY <1>30 DEF vars, dbVars
<1> QED
  BY <1>1, <1>2, <1>3, <1>4, <1>5, <1>6, <1>7, <1>7a, <1>7b, <1>8, <1>9, <1>10,
     <1>11, <1>12, <1>13, <1>14, <1>15, <1>16, <1>17, <1>18, <1>19, <1>20, <1>21,
     <1>22, <1>23, <1>24, <1>25, <1>26, <1>27, <1>28, <1>29, <1>30
  DEF Next, ExecStep, RequestStep

LEMMA NextStepsRest == Typed /\ StagesFollowSteps /\ StepsRest /\ [Next]_vars => StepsRest'
<1> SUFFICES ASSUME Typed, StagesFollowSteps, StepsRest, [Next]_vars PROVE StepsRest'
  OBVIOUS
<1> USE StepValues DEF Typed, ToolSteps, StagesFollowSteps, StepsRest, Rests, None
<1>1. ASSUME NEW e \in Execs, ExecLoad(e) PROVE StepsRest'
  BY <1>1, LoadEffect DEF Alone
<1>2. ASSUME NEW e \in Execs, ExecDecide(e) PROVE StepsRest'
  BY <1>2, DecideEffect DEF Alone
<1>3. ASSUME NEW e \in Execs, ExecSetRunning(e) PROVE StepsRest'
  BY <1>3, SetRunningEffect DEF Alone
<1>4. ASSUME NEW e \in Execs, ExecModel(e) PROVE StepsRest'
  BY <1>4, ModelEffect DEF Alone
<1>5. ASSUME NEW e \in Execs, ExecCheck(e) PROVE StepsRest'
  BY <1>5, CheckEffect DEF Alone
<1>6. ASSUME NEW e \in Execs, ToolFails(e) PROVE StepsRest'
  BY <1>6, FailsEffect DEF Alone
<1>7. ASSUME NEW e \in Execs, RetrieveEvidence(e) PROVE StepsRest'
  <2>1. run.evidence + 1 > 0
    BY DEF RunRecords
  <2> QED
    BY <1>7, <2>1, RetrieveEffect DEF Alone
<1>7a. ASSUME NEW e \in Execs, SearchMore(e) PROVE StepsRest'
  BY <1>7a, SearchEffect DEF Alone
<1>7b. ASSUME NEW e \in Execs, FreezeEvidence(e) PROVE StepsRest'
  <2>1. run.evidence \in Nat
    BY DEF RunRecords
  <2>2. run.evidence > 0 => run'.evidence > 0
    BY <1>7b, <2>1, FreezeEffect
  <2> QED
    BY <1>7b, <2>2, FreezeEffect DEF Alone
<1>8. ASSUME NEW e \in Execs, ComposeDocument(e) PROVE StepsRest'
  <2>1. e # None
    BY DEF Execs
  <2> QED
    BY <1>8, <2>1, ComposeEffect DEF Alone
<1>9. ASSUME NEW e \in Execs, CommitVersion(e) PROVE StepsRest'
  BY <1>9, CommitEffect DEF Alone
<1>10. ASSUME NEW e \in Execs, CommitFinish(e) PROVE StepsRest'
  BY <1>10, FinishEffect DEF Alone
<1>11. ASSUME NEW e \in Execs, ToolDone(e) PROVE StepsRest'
  BY <1>11, DoneEffect DEF Alone
<1>12. ASSUME NEW e \in Execs, ExecStageError(e) PROVE StepsRest'
  BY <1>12, ErrorEffect DEF Alone
<1>13. ASSUME NEW e \in Execs, ExecMark(e) PROVE StepsRest'
  BY <1>13, MarkEffect DEF Alone
<1>14. ASSUME NEW e \in Execs, ExecClear(e) PROVE StepsRest'
  BY <1>14, ClearEffect DEF Alone
<1>15. ASSUME NEW r \in Requests, StartCreate(r) PROVE StepsRest'
  BY <1>15 DEF StartCreate, Is, Await, dbVars
<1>16. ASSUME NEW r \in Requests, Begin(r) PROVE StepsRest'
  BY <1>16, BeginEffect
<1>17. ASSUME NEW r \in Requests, StartTask(r) PROVE StepsRest'
  BY <1>17 DEF StartTask, Is, Await, dbVars
<1>18. ASSUME NEW r \in Requests, Launch(r) PROVE StepsRest'
  BY <1>18, LaunchEffect DEF Alone, Launch, Await, dbVars
<1>19. ASSUME NEW r \in Requests, ResumeActive(r) PROVE StepsRest'
  BY <1>19 DEF ResumeActive, Is, Await, dbVars
<1>20. ASSUME NEW r \in Requests, ResumeWrite(r) PROVE StepsRest'
  BY <1>20 DEF ResumeWrite, Is, Await, dbVars
<1>21. ASSUME NEW r \in Requests, PauseWrite(r) PROVE StepsRest'
  BY <1>21 DEF PauseWrite, Is, Await, dbVars
<1>22. ASSUME NEW r \in Requests, PauseCancel(r) PROVE StepsRest'
  BY <1>22 DEF PauseCancel, Is, Await, CancelEffect, Active, dbVars
<1>23. ASSUME NEW r \in Requests, PauseWritePaused(r) PROVE StepsRest'
  BY <1>23 DEF PauseWritePaused, Is, Await, dbVars
<1>24. ASSUME NEW r \in Requests, ViewRead(r) PROVE StepsRest'
  BY <1>24 DEF ViewRead, Read, dbVars
<1>25. ASSUME NEW r \in Requests, OrphanCheck(r) PROVE StepsRest'
  BY <1>25 DEF OrphanCheck, Await, Finished, dbVars
<1>26. ASSUME NEW r \in Requests, OrphanWrite(r) PROVE StepsRest'
  BY <1>26 DEF OrphanWrite, Await, Finished, dbVars
<1>27. ASSUME NEW r \in Requests, Abort(r) PROVE StepsRest'
  BY <1>27 DEF Abort, Await, Finished, dbVars
<1>28. CASE SaveVersion
  BY <1>28 DEF SaveVersion, persistVersion, dbVars
<1>29. CASE Crash
  BY <1>29 DEF Crash, Ended, NoExec, Finished, dbVars
<1>30. CASE UNCHANGED vars
  BY <1>30 DEF vars, dbVars
<1> QED
  BY <1>1, <1>2, <1>3, <1>4, <1>5, <1>6, <1>7, <1>7a, <1>7b, <1>8, <1>9, <1>10,
     <1>11, <1>12, <1>13, <1>14, <1>15, <1>16, <1>17, <1>18, <1>19, <1>20, <1>21,
     <1>22, <1>23, <1>24, <1>25, <1>26, <1>27, <1>28, <1>29, <1>30
  DEF Next, ExecStep, RequestStep

LEMMA NextStagesFollowKind == Typed /\ StagesFollowKind /\ [Next]_vars => StagesFollowKind'
<1> SUFFICES ASSUME Typed, StagesFollowKind, [Next]_vars PROVE StagesFollowKind'
  OBVIOUS
<1> USE StepValues DEF Typed, ToolSteps, StagesFollowKind
<1>1. ASSUME NEW e \in Execs, ExecLoad(e) PROVE StagesFollowKind'
  BY <1>1, LoadEffect DEF Alone
<1>2. ASSUME NEW e \in Execs, ExecDecide(e) PROVE StagesFollowKind'
  BY <1>2, DecideEffect DEF Alone
<1>3. ASSUME NEW e \in Execs, ExecSetRunning(e) PROVE StagesFollowKind'
  BY <1>3, SetRunningEffect DEF Alone
<1>4. ASSUME NEW e \in Execs, ExecModel(e) PROVE StagesFollowKind'
  BY <1>4, ModelEffect DEF Alone
<1>5. ASSUME NEW e \in Execs, ExecCheck(e) PROVE StagesFollowKind'
  BY <1>5, CheckEffect DEF Alone
<1>6. ASSUME NEW e \in Execs, ToolFails(e) PROVE StagesFollowKind'
  BY <1>6, FailsEffect DEF Alone
<1>7. ASSUME NEW e \in Execs, RetrieveEvidence(e) PROVE StagesFollowKind'
  BY <1>7, RetrieveEffect DEF Alone
<1>7a. ASSUME NEW e \in Execs, SearchMore(e) PROVE StagesFollowKind'
  BY <1>7a, SearchEffect DEF Alone
<1>7b. ASSUME NEW e \in Execs, FreezeEvidence(e) PROVE StagesFollowKind'
  BY <1>7b, FreezeEffect DEF Alone
<1>8. ASSUME NEW e \in Execs, ComposeDocument(e) PROVE StagesFollowKind'
  BY <1>8, ComposeEffect DEF Alone
<1>9. ASSUME NEW e \in Execs, CommitVersion(e) PROVE StagesFollowKind'
  BY <1>9, CommitEffect DEF Alone
<1>10. ASSUME NEW e \in Execs, CommitFinish(e) PROVE StagesFollowKind'
  BY <1>10, FinishEffect DEF Alone
<1>11. ASSUME NEW e \in Execs, ToolDone(e) PROVE StagesFollowKind'
  BY <1>11, DoneEffect DEF Alone
<1>12. ASSUME NEW e \in Execs, ExecStageError(e) PROVE StagesFollowKind'
  BY <1>12, ErrorEffect DEF Alone
<1>13. ASSUME NEW e \in Execs, ExecMark(e) PROVE StagesFollowKind'
  BY <1>13, MarkEffect DEF Alone
<1>14. ASSUME NEW e \in Execs, ExecClear(e) PROVE StagesFollowKind'
  BY <1>14, ClearEffect DEF Alone
<1>15. ASSUME NEW r \in Requests, StartCreate(r) PROVE StagesFollowKind'
  BY <1>15 DEF StartCreate, Is, Await, dbVars
<1>16. ASSUME NEW r \in Requests, Begin(r) PROVE StagesFollowKind'
  BY <1>16, BeginEffect
<1>17. ASSUME NEW r \in Requests, StartTask(r) PROVE StagesFollowKind'
  BY <1>17 DEF StartTask, Is, Await, dbVars
<1>18. ASSUME NEW r \in Requests, Launch(r) PROVE StagesFollowKind'
  BY <1>18, LaunchEffect DEF Alone, Launch, Await, dbVars
<1>19. ASSUME NEW r \in Requests, ResumeActive(r) PROVE StagesFollowKind'
  BY <1>19 DEF ResumeActive, Is, Await, dbVars
<1>20. ASSUME NEW r \in Requests, ResumeWrite(r) PROVE StagesFollowKind'
  BY <1>20 DEF ResumeWrite, Is, Await, dbVars
<1>21. ASSUME NEW r \in Requests, PauseWrite(r) PROVE StagesFollowKind'
  BY <1>21 DEF PauseWrite, Is, Await, dbVars
<1>22. ASSUME NEW r \in Requests, PauseCancel(r) PROVE StagesFollowKind'
  BY <1>22 DEF PauseCancel, Is, Await, CancelEffect, Active, dbVars
<1>23. ASSUME NEW r \in Requests, PauseWritePaused(r) PROVE StagesFollowKind'
  BY <1>23 DEF PauseWritePaused, Is, Await, dbVars
<1>24. ASSUME NEW r \in Requests, ViewRead(r) PROVE StagesFollowKind'
  BY <1>24 DEF ViewRead, Read, dbVars
<1>25. ASSUME NEW r \in Requests, OrphanCheck(r) PROVE StagesFollowKind'
  BY <1>25 DEF OrphanCheck, Await, Finished, dbVars
<1>26. ASSUME NEW r \in Requests, OrphanWrite(r) PROVE StagesFollowKind'
  BY <1>26 DEF OrphanWrite, Await, Finished, dbVars
<1>27. ASSUME NEW r \in Requests, Abort(r) PROVE StagesFollowKind'
  BY <1>27 DEF Abort, Await, Finished, dbVars
<1>28. CASE SaveVersion
  BY <1>28 DEF SaveVersion, persistVersion, dbVars
<1>29. CASE Crash
  BY <1>29 DEF Crash, Ended, NoExec, Finished, dbVars
<1>30. CASE UNCHANGED vars
  BY <1>30 DEF vars, dbVars
<1> QED
  BY <1>1, <1>2, <1>3, <1>4, <1>5, <1>6, <1>7, <1>7a, <1>7b, <1>8, <1>9, <1>10,
     <1>11, <1>12, <1>13, <1>14, <1>15, <1>16, <1>17, <1>18, <1>19, <1>20, <1>21,
     <1>22, <1>23, <1>24, <1>25, <1>26, <1>27, <1>28, <1>29, <1>30
  DEF Next, ExecStep, RequestStep

LEMMA NextNoneBegun == Typed /\ NoneBegun /\ StagesFollowKind /\ [Next]_vars => NoneBegun'
<1> SUFFICES ASSUME Typed, NoneBegun, StagesFollowKind, [Next]_vars PROVE NoneBegun'
  OBVIOUS
<1> USE StepValues DEF Typed, ToolSteps, NoneBegun, StagesFollowKind, Live, Statuses, Busy
<1>1. ASSUME NEW e \in Execs, ExecLoad(e) PROVE NoneBegun'
  BY <1>1, LoadEffect DEF Alone
<1>2. ASSUME NEW e \in Execs, ExecDecide(e) PROVE NoneBegun'
  BY <1>2, DecideEffect DEF Alone
<1>3. ASSUME NEW e \in Execs, ExecSetRunning(e) PROVE NoneBegun'
  BY <1>3, SetRunningEffect DEF Alone
<1>4. ASSUME NEW e \in Execs, ExecModel(e) PROVE NoneBegun'
  BY <1>4, ModelEffect DEF Alone
<1>5. ASSUME NEW e \in Execs, ExecCheck(e) PROVE NoneBegun'
  BY <1>5, CheckEffect DEF Alone
<1>6. ASSUME NEW e \in Execs, ToolFails(e) PROVE NoneBegun'
  BY <1>6, FailsEffect DEF Alone
<1>7. ASSUME NEW e \in Execs, RetrieveEvidence(e) PROVE NoneBegun'
  BY <1>7, RetrieveEffect DEF Alone
<1>7a. ASSUME NEW e \in Execs, SearchMore(e) PROVE NoneBegun'
  BY <1>7a, SearchEffect DEF Alone
<1>7b. ASSUME NEW e \in Execs, FreezeEvidence(e) PROVE NoneBegun'
  BY <1>7b, FreezeEffect DEF Alone
<1>8. ASSUME NEW e \in Execs, ComposeDocument(e) PROVE NoneBegun'
  BY <1>8, ComposeEffect DEF Alone
<1>9. ASSUME NEW e \in Execs, CommitVersion(e) PROVE NoneBegun'
  BY <1>9, CommitEffect DEF Alone
<1>10. ASSUME NEW e \in Execs, CommitFinish(e) PROVE NoneBegun'
  BY <1>10, FinishEffect DEF Alone
<1>11. ASSUME NEW e \in Execs, ToolDone(e) PROVE NoneBegun'
  BY <1>11, DoneEffect DEF Alone
<1>12. ASSUME NEW e \in Execs, ExecStageError(e) PROVE NoneBegun'
  BY <1>12, ErrorEffect DEF Alone
<1>13. ASSUME NEW e \in Execs, ExecMark(e) PROVE NoneBegun'
  BY <1>13, MarkEffect DEF Alone
<1>14. ASSUME NEW e \in Execs, ExecClear(e) PROVE NoneBegun'
  BY <1>14, ClearEffect DEF Alone
<1>15. ASSUME NEW r \in Requests, StartCreate(r) PROVE NoneBegun'
  BY <1>15 DEF StartCreate, Is, Await, dbVars
<1>16. ASSUME NEW r \in Requests, Begin(r) PROVE NoneBegun'
  BY <1>16, BeginEffect
<1>17. ASSUME NEW r \in Requests, StartTask(r) PROVE NoneBegun'
  BY <1>17 DEF StartTask, Is, Await, dbVars
<1>18. ASSUME NEW r \in Requests, Launch(r) PROVE NoneBegun'
  BY <1>18, LaunchEffect DEF Alone, Launch, Await, dbVars
<1>19. ASSUME NEW r \in Requests, ResumeActive(r) PROVE NoneBegun'
  BY <1>19 DEF ResumeActive, Is, Await, dbVars
<1>20. ASSUME NEW r \in Requests, ResumeWrite(r) PROVE NoneBegun'
  BY <1>20 DEF ResumeWrite, Is, Await, dbVars
<1>21. ASSUME NEW r \in Requests, PauseWrite(r) PROVE NoneBegun'
  BY <1>21 DEF PauseWrite, Is, Await, dbVars
<1>22. ASSUME NEW r \in Requests, PauseCancel(r) PROVE NoneBegun'
  BY <1>22 DEF PauseCancel, Is, Await, CancelEffect, Active, dbVars
<1>23. ASSUME NEW r \in Requests, PauseWritePaused(r) PROVE NoneBegun'
  BY <1>23 DEF PauseWritePaused, Is, Await, dbVars
<1>24. ASSUME NEW r \in Requests, ViewRead(r) PROVE NoneBegun'
  BY <1>24 DEF ViewRead, Read, dbVars
<1>25. ASSUME NEW r \in Requests, OrphanCheck(r) PROVE NoneBegun'
  BY <1>25 DEF OrphanCheck, Await, Finished, dbVars
<1>26. ASSUME NEW r \in Requests, OrphanWrite(r) PROVE NoneBegun'
  BY <1>26 DEF OrphanWrite, Await, Finished, dbVars
<1>27. ASSUME NEW r \in Requests, Abort(r) PROVE NoneBegun'
  BY <1>27 DEF Abort, Await, Finished, dbVars
<1>28. CASE SaveVersion
  BY <1>28 DEF SaveVersion, persistVersion, dbVars
<1>29. CASE Crash
  BY <1>29 DEF Crash, Ended, NoExec, Finished, dbVars
<1>30. CASE UNCHANGED vars
  BY <1>30 DEF vars, dbVars
<1> QED
  BY <1>1, <1>2, <1>3, <1>4, <1>5, <1>6, <1>7, <1>7a, <1>7b, <1>8, <1>9, <1>10,
     <1>11, <1>12, <1>13, <1>14, <1>15, <1>16, <1>17, <1>18, <1>19, <1>20, <1>21,
     <1>22, <1>23, <1>24, <1>25, <1>26, <1>27, <1>28, <1>29, <1>30
  DEF Next, ExecStep, RequestStep

\* The registry: of two executors that live together each has met the other, so
\* that an entry that names the one or that is gone deceives nobody else.
LEMMA NextActiveIsLive ==
  Typed /\ StagesFollowSteps /\ Companions /\ ActiveIsLive /\ [Next]_vars => Companions' /\ ActiveIsLive'
<1> DEFINE Registry == Companions /\ ActiveIsLive
<1> SUFFICES ASSUME Typed, StagesFollowSteps, Companions, ActiveIsLive, [Next]_vars PROVE Registry'
  OBVIOUS
<1> USE StepValues DEF Typed, ToolSteps, StagesFollowSteps, Companions, ActiveIsLive, Active, Live, None
<1>1. ASSUME NEW e \in Execs, ExecLoad(e) PROVE Registry'
  BY <1>1, LoadEffect DEF Alone
<1>2. ASSUME NEW e \in Execs, ExecDecide(e) PROVE Registry'
  BY <1>2, DecideEffect DEF Alone
<1>3. ASSUME NEW e \in Execs, ExecSetRunning(e) PROVE Registry'
  BY <1>3, SetRunningEffect DEF Alone
<1>4. ASSUME NEW e \in Execs, ExecModel(e) PROVE Registry'
  BY <1>4, ModelEffect DEF Alone
<1>5. ASSUME NEW e \in Execs, ExecCheck(e) PROVE Registry'
  BY <1>5, CheckEffect DEF Alone
<1>6. ASSUME NEW e \in Execs, ToolFails(e) PROVE Registry'
  BY <1>6, FailsEffect DEF Alone
<1>7. ASSUME NEW e \in Execs, RetrieveEvidence(e) PROVE Registry'
  BY <1>7, RetrieveEffect DEF Alone
<1>7a. ASSUME NEW e \in Execs, SearchMore(e) PROVE Registry'
  BY <1>7a, SearchEffect DEF Alone
<1>7b. ASSUME NEW e \in Execs, FreezeEvidence(e) PROVE Registry'
  BY <1>7b, FreezeEffect DEF Alone
<1>8. ASSUME NEW e \in Execs, ComposeDocument(e) PROVE Registry'
  BY <1>8, ComposeEffect DEF Alone
<1>9. ASSUME NEW e \in Execs, CommitVersion(e) PROVE Registry'
  BY <1>9, CommitEffect DEF Alone
<1>10. ASSUME NEW e \in Execs, CommitFinish(e) PROVE Registry'
  BY <1>10, FinishEffect DEF Alone
<1>11. ASSUME NEW e \in Execs, ToolDone(e) PROVE Registry'
  BY <1>11, DoneEffect DEF Alone
<1>12. ASSUME NEW e \in Execs, ExecStageError(e) PROVE Registry'
  BY <1>12, ErrorEffect DEF Alone
<1>13. ASSUME NEW e \in Execs, ExecMark(e) PROVE Registry'
  BY <1>13, MarkEffect DEF Alone
<1>14. ASSUME NEW e \in Execs, ExecClear(e) PROVE Registry'
  BY <1>14, ClearEffect DEF Alone
<1>15. ASSUME NEW r \in Requests, StartCreate(r) PROVE Registry'
  BY <1>15 DEF StartCreate, Is, Await, dbVars
<1>16. ASSUME NEW r \in Requests, Begin(r) PROVE Registry'
  BY <1>16, BeginEffect
<1>17. ASSUME NEW r \in Requests, StartTask(r) PROVE Registry'
  BY <1>17 DEF StartTask, Is, Await, dbVars
<1>18. ASSUME NEW r \in Requests, Launch(r) PROVE Registry'
  BY <1>18, LaunchEffect DEF Alone, Launch, Await, dbVars
<1>19. ASSUME NEW r \in Requests, ResumeActive(r) PROVE Registry'
  BY <1>19 DEF ResumeActive, Is, Await, dbVars
<1>20. ASSUME NEW r \in Requests, ResumeWrite(r) PROVE Registry'
  BY <1>20 DEF ResumeWrite, Is, Await, dbVars
<1>21. ASSUME NEW r \in Requests, PauseWrite(r) PROVE Registry'
  BY <1>21 DEF PauseWrite, Is, Await, dbVars
<1>22. ASSUME NEW r \in Requests, PauseCancel(r) PROVE Registry'
  BY <1>22 DEF PauseCancel, Is, Await, CancelEffect, Active, dbVars
<1>23. ASSUME NEW r \in Requests, PauseWritePaused(r) PROVE Registry'
  BY <1>23 DEF PauseWritePaused, Is, Await, dbVars
<1>24. ASSUME NEW r \in Requests, ViewRead(r) PROVE Registry'
  BY <1>24 DEF ViewRead, Read, dbVars
<1>25. ASSUME NEW r \in Requests, OrphanCheck(r) PROVE Registry'
  BY <1>25 DEF OrphanCheck, Await, Finished, dbVars
<1>26. ASSUME NEW r \in Requests, OrphanWrite(r) PROVE Registry'
  BY <1>26 DEF OrphanWrite, Await, Finished, dbVars
<1>27. ASSUME NEW r \in Requests, Abort(r) PROVE Registry'
  BY <1>27 DEF Abort, Await, Finished, dbVars
<1>28. CASE SaveVersion
  BY <1>28 DEF SaveVersion, persistVersion, dbVars
<1>29. CASE Crash
  BY <1>29 DEF Crash, Ended, NoExec, Finished, dbVars
<1>30. CASE UNCHANGED vars
  BY <1>30 DEF vars, dbVars
<1> QED
  BY <1>1, <1>2, <1>3, <1>4, <1>5, <1>6, <1>7, <1>7a, <1>7b, <1>8, <1>9, <1>10,
     <1>11, <1>12, <1>13, <1>14, <1>15, <1>16, <1>17, <1>18, <1>19, <1>20, <1>21,
     <1>22, <1>23, <1>24, <1>25, <1>26, <1>27, <1>28, <1>29, <1>30
  DEF Next, ExecStep, RequestStep

LEMMA NextOneExecutor == Typed /\ StagesFollowSteps /\ NoneBegun /\ StagesFollowKind /\ OneExecutor /\ [Next]_vars => OneExecutor'
<1> SUFFICES ASSUME Typed, StagesFollowSteps, NoneBegun, StagesFollowKind, OneExecutor, [Next]_vars PROVE OneExecutor'
  OBVIOUS
<1> USE StepValues DEF Typed, ToolSteps, StagesFollowSteps, NoneBegun, StagesFollowKind, OneExecutor, Live, Launching, None
<1>1. ASSUME NEW e \in Execs, ExecLoad(e) PROVE OneExecutor'
  BY <1>1, LoadEffect DEF Alone
<1>2. ASSUME NEW e \in Execs, ExecDecide(e) PROVE OneExecutor'
  BY <1>2, DecideEffect DEF Alone
<1>3. ASSUME NEW e \in Execs, ExecSetRunning(e) PROVE OneExecutor'
  BY <1>3, SetRunningEffect DEF Alone
<1>4. ASSUME NEW e \in Execs, ExecModel(e) PROVE OneExecutor'
  BY <1>4, ModelEffect DEF Alone
<1>5. ASSUME NEW e \in Execs, ExecCheck(e) PROVE OneExecutor'
  BY <1>5, CheckEffect DEF Alone
<1>6. ASSUME NEW e \in Execs, ToolFails(e) PROVE OneExecutor'
  BY <1>6, FailsEffect DEF Alone
<1>7. ASSUME NEW e \in Execs, RetrieveEvidence(e) PROVE OneExecutor'
  BY <1>7, RetrieveEffect DEF Alone
<1>7a. ASSUME NEW e \in Execs, SearchMore(e) PROVE OneExecutor'
  BY <1>7a, SearchEffect DEF Alone
<1>7b. ASSUME NEW e \in Execs, FreezeEvidence(e) PROVE OneExecutor'
  BY <1>7b, FreezeEffect DEF Alone
<1>8. ASSUME NEW e \in Execs, ComposeDocument(e) PROVE OneExecutor'
  BY <1>8, ComposeEffect DEF Alone
<1>9. ASSUME NEW e \in Execs, CommitVersion(e) PROVE OneExecutor'
  BY <1>9, CommitEffect DEF Alone
<1>10. ASSUME NEW e \in Execs, CommitFinish(e) PROVE OneExecutor'
  BY <1>10, FinishEffect DEF Alone
<1>11. ASSUME NEW e \in Execs, ToolDone(e) PROVE OneExecutor'
  BY <1>11, DoneEffect DEF Alone
<1>12. ASSUME NEW e \in Execs, ExecStageError(e) PROVE OneExecutor'
  BY <1>12, ErrorEffect DEF Alone
<1>13. ASSUME NEW e \in Execs, ExecMark(e) PROVE OneExecutor'
  BY <1>13, MarkEffect DEF Alone
<1>14. ASSUME NEW e \in Execs, ExecClear(e) PROVE OneExecutor'
  BY <1>14, ClearEffect DEF Alone
<1>15. ASSUME NEW r \in Requests, StartCreate(r) PROVE OneExecutor'
  BY <1>15 DEF StartCreate, Is, Await, dbVars
<1>16. ASSUME NEW r \in Requests, Begin(r) PROVE OneExecutor'
  BY <1>16, BeginEffect
<1>17. ASSUME NEW r \in Requests, StartTask(r) PROVE OneExecutor'
  BY <1>17 DEF StartTask, Is, Await, dbVars
<1>18. ASSUME NEW r \in Requests, Launch(r) PROVE OneExecutor'
  BY <1>18, LaunchEffect DEF Alone, Launch, Await, dbVars
<1>19. ASSUME NEW r \in Requests, ResumeActive(r) PROVE OneExecutor'
  BY <1>19 DEF ResumeActive, Is, Await, dbVars
<1>20. ASSUME NEW r \in Requests, ResumeWrite(r) PROVE OneExecutor'
  BY <1>20 DEF ResumeWrite, Is, Await, dbVars
<1>21. ASSUME NEW r \in Requests, PauseWrite(r) PROVE OneExecutor'
  BY <1>21 DEF PauseWrite, Is, Await, dbVars
<1>22. ASSUME NEW r \in Requests, PauseCancel(r) PROVE OneExecutor'
  BY <1>22 DEF PauseCancel, Is, Await, CancelEffect, Active, dbVars
<1>23. ASSUME NEW r \in Requests, PauseWritePaused(r) PROVE OneExecutor'
  BY <1>23 DEF PauseWritePaused, Is, Await, dbVars
<1>24. ASSUME NEW r \in Requests, ViewRead(r) PROVE OneExecutor'
  BY <1>24 DEF ViewRead, Read, dbVars
<1>25. ASSUME NEW r \in Requests, OrphanCheck(r) PROVE OneExecutor'
  BY <1>25 DEF OrphanCheck, Await, Finished, dbVars
<1>26. ASSUME NEW r \in Requests, OrphanWrite(r) PROVE OneExecutor'
  BY <1>26 DEF OrphanWrite, Await, Finished, dbVars
<1>27. ASSUME NEW r \in Requests, Abort(r) PROVE OneExecutor'
  BY <1>27 DEF Abort, Await, Finished, dbVars
<1>28. CASE SaveVersion
  BY <1>28 DEF SaveVersion, persistVersion, dbVars
<1>29. CASE Crash
  BY <1>29 DEF Crash, Ended, NoExec, Finished, dbVars
<1>30. CASE UNCHANGED vars
  BY <1>30 DEF vars, dbVars
<1> QED
  BY <1>1, <1>2, <1>3, <1>4, <1>5, <1>6, <1>7, <1>7a, <1>7b, <1>8, <1>9, <1>10,
     <1>11, <1>12, <1>13, <1>14, <1>15, <1>16, <1>17, <1>18, <1>19, <1>20, <1>21,
     <1>22, <1>23, <1>24, <1>25, <1>26, <1>27, <1>28, <1>29, <1>30
  DEF Next, ExecStep, RequestStep

LEMMA NextCommitsAreGrounded == Typed /\ StagesFollowSteps /\ StepsRest /\ CommitsAreGrounded /\ [Next]_vars => CommitsAreGrounded'
<1> SUFFICES ASSUME Typed, StagesFollowSteps, StepsRest, CommitsAreGrounded, [Next]_vars PROVE CommitsAreGrounded'
  OBVIOUS
<1> USE StepValues DEF Typed, ToolSteps, StagesFollowSteps, StepsRest, Rests, CommitsAreGrounded, ByRun
<1>1. ASSUME NEW e \in Execs, ExecLoad(e) PROVE CommitsAreGrounded'
  BY <1>1, LoadEffect DEF Alone
<1>2. ASSUME NEW e \in Execs, ExecDecide(e) PROVE CommitsAreGrounded'
  BY <1>2, DecideEffect DEF Alone
<1>3. ASSUME NEW e \in Execs, ExecSetRunning(e) PROVE CommitsAreGrounded'
  BY <1>3, SetRunningEffect DEF Alone
<1>4. ASSUME NEW e \in Execs, ExecModel(e) PROVE CommitsAreGrounded'
  BY <1>4, ModelEffect DEF Alone
<1>5. ASSUME NEW e \in Execs, ExecCheck(e) PROVE CommitsAreGrounded'
  BY <1>5, CheckEffect DEF Alone
<1>6. ASSUME NEW e \in Execs, ToolFails(e) PROVE CommitsAreGrounded'
  BY <1>6, FailsEffect DEF Alone
<1>7. ASSUME NEW e \in Execs, RetrieveEvidence(e) PROVE CommitsAreGrounded'
  BY <1>7, RetrieveEffect DEF Alone
<1>7a. ASSUME NEW e \in Execs, SearchMore(e) PROVE CommitsAreGrounded'
  BY <1>7a, SearchEffect DEF Alone
<1>7b. ASSUME NEW e \in Execs, FreezeEvidence(e) PROVE CommitsAreGrounded'
  BY <1>7b, FreezeEffect DEF Alone
<1>8. ASSUME NEW e \in Execs, ComposeDocument(e) PROVE CommitsAreGrounded'
  BY <1>8, ComposeEffect DEF Alone
<1>9. ASSUME NEW e \in Execs, CommitVersion(e) PROVE CommitsAreGrounded'
  <2>1. /\ \A i \in ByRun : i \in ByRun' /\ versions'[i] = versions[i]
        /\ Len(versions') \in ByRun' /\ versions'[Len(versions')].body = exec[e].body
        /\ versions'[Len(versions')].evidence = exec[e].evidence
    <3>1. e # None
      BY DEF Execs, None
    <3> QED
      BY <1>9, <3>1, CommitRecord, PersistEffect
  <2>2. \A f \in Execs : f # e => exec'[f] = exec[f]
    BY <1>9, CommitEffect DEF Alone
  <2> HIDE DEF ByRun
  <2> QED
    BY <1>9, <2>1, <2>2, CommitEffect, CommitRecord
<1>10. ASSUME NEW e \in Execs, CommitFinish(e) PROVE CommitsAreGrounded'
  BY <1>10, FinishEffect DEF Alone
<1>11. ASSUME NEW e \in Execs, ToolDone(e) PROVE CommitsAreGrounded'
  BY <1>11, DoneEffect DEF Alone
<1>12. ASSUME NEW e \in Execs, ExecStageError(e) PROVE CommitsAreGrounded'
  BY <1>12, ErrorEffect DEF Alone
<1>13. ASSUME NEW e \in Execs, ExecMark(e) PROVE CommitsAreGrounded'
  BY <1>13, MarkEffect DEF Alone
<1>14. ASSUME NEW e \in Execs, ExecClear(e) PROVE CommitsAreGrounded'
  BY <1>14, ClearEffect DEF Alone
<1>15. ASSUME NEW r \in Requests, StartCreate(r) PROVE CommitsAreGrounded'
  BY <1>15 DEF StartCreate, Is, Await, dbVars
<1>16. ASSUME NEW r \in Requests, Begin(r) PROVE CommitsAreGrounded'
  BY <1>16, BeginEffect
<1>17. ASSUME NEW r \in Requests, StartTask(r) PROVE CommitsAreGrounded'
  BY <1>17 DEF StartTask, Is, Await, dbVars
<1>18. ASSUME NEW r \in Requests, Launch(r) PROVE CommitsAreGrounded'
  BY <1>18, LaunchEffect DEF Alone, Launch, Await, dbVars
<1>19. ASSUME NEW r \in Requests, ResumeActive(r) PROVE CommitsAreGrounded'
  BY <1>19 DEF ResumeActive, Is, Await, dbVars
<1>20. ASSUME NEW r \in Requests, ResumeWrite(r) PROVE CommitsAreGrounded'
  BY <1>20 DEF ResumeWrite, Is, Await, dbVars
<1>21. ASSUME NEW r \in Requests, PauseWrite(r) PROVE CommitsAreGrounded'
  BY <1>21 DEF PauseWrite, Is, Await, dbVars
<1>22. ASSUME NEW r \in Requests, PauseCancel(r) PROVE CommitsAreGrounded'
  BY <1>22 DEF PauseCancel, Is, Await, CancelEffect, Active, dbVars
<1>23. ASSUME NEW r \in Requests, PauseWritePaused(r) PROVE CommitsAreGrounded'
  BY <1>23 DEF PauseWritePaused, Is, Await, dbVars
<1>24. ASSUME NEW r \in Requests, ViewRead(r) PROVE CommitsAreGrounded'
  BY <1>24 DEF ViewRead, Read, dbVars
<1>25. ASSUME NEW r \in Requests, OrphanCheck(r) PROVE CommitsAreGrounded'
  BY <1>25 DEF OrphanCheck, Await, Finished, dbVars
<1>26. ASSUME NEW r \in Requests, OrphanWrite(r) PROVE CommitsAreGrounded'
  BY <1>26 DEF OrphanWrite, Await, Finished, dbVars
<1>27. ASSUME NEW r \in Requests, Abort(r) PROVE CommitsAreGrounded'
  BY <1>27 DEF Abort, Await, Finished, dbVars
<1>28. CASE SaveVersion
  <2>1. \A i \in ByRun : i \in ByRun' /\ versions'[i] = versions[i]
    BY <1>28, PersistEffect DEF SaveVersion
  <2> HIDE DEF ByRun
  <2> QED
    BY <1>28, <2>1 DEF SaveVersion
<1>29. CASE Crash
  BY <1>29 DEF Crash, Ended, NoExec, Finished, dbVars
<1>30. CASE UNCHANGED vars
  BY <1>30 DEF vars, dbVars
<1> QED
  BY <1>1, <1>2, <1>3, <1>4, <1>5, <1>6, <1>7, <1>7a, <1>7b, <1>8, <1>9, <1>10,
     <1>11, <1>12, <1>13, <1>14, <1>15, <1>16, <1>17, <1>18, <1>19, <1>20, <1>21,
     <1>22, <1>23, <1>24, <1>25, <1>26, <1>27, <1>28, <1>29, <1>30
  DEF Next, ExecStep, RequestStep

LEMMA NextVersionsAreGrounded == Typed /\ CommitsAreGrounded /\ VersionsAreGrounded /\ [Next]_vars => VersionsAreGrounded'
<1> SUFFICES ASSUME Typed, CommitsAreGrounded, VersionsAreGrounded, [Next]_vars PROVE VersionsAreGrounded'
  OBVIOUS
<1> USE StepValues DEF Typed, ToolSteps, VersionsAreGrounded, CommitsAreGrounded, ByRun
<1>1. ASSUME NEW e \in Execs, ExecLoad(e) PROVE VersionsAreGrounded'
  BY <1>1, LoadEffect DEF Alone
<1>2. ASSUME NEW e \in Execs, ExecDecide(e) PROVE VersionsAreGrounded'
  BY <1>2, DecideEffect DEF Alone
<1>3. ASSUME NEW e \in Execs, ExecSetRunning(e) PROVE VersionsAreGrounded'
  BY <1>3, SetRunningEffect DEF Alone
<1>4. ASSUME NEW e \in Execs, ExecModel(e) PROVE VersionsAreGrounded'
  BY <1>4, ModelEffect DEF Alone
<1>5. ASSUME NEW e \in Execs, ExecCheck(e) PROVE VersionsAreGrounded'
  BY <1>5, CheckEffect DEF Alone
<1>6. ASSUME NEW e \in Execs, ToolFails(e) PROVE VersionsAreGrounded'
  BY <1>6, FailsEffect DEF Alone
<1>7. ASSUME NEW e \in Execs, RetrieveEvidence(e) PROVE VersionsAreGrounded'
  BY <1>7, RetrieveEffect DEF Alone
<1>7a. ASSUME NEW e \in Execs, SearchMore(e) PROVE VersionsAreGrounded'
  BY <1>7a, SearchEffect DEF Alone
<1>7b. ASSUME NEW e \in Execs, FreezeEvidence(e) PROVE VersionsAreGrounded'
  BY <1>7b, FreezeEffect DEF Alone
<1>8. ASSUME NEW e \in Execs, ComposeDocument(e) PROVE VersionsAreGrounded'
  BY <1>8, ComposeEffect DEF Alone
<1>9. ASSUME NEW e \in Execs, CommitVersion(e) PROVE VersionsAreGrounded'
  <2> HIDE DEF ByRun
  <2>1. \A i \in ByRun' : \/ i \in ByRun /\ versions'[i] = versions[i]
                          \/ /\ versions'[i].body = exec[e].body
                             /\ versions'[i].evidence = exec[e].evidence
    BY <1>9, CommitRecord, PersistEffect
  <2> QED
    BY <1>9, <2>1, CommitEffect
<1>10. ASSUME NEW e \in Execs, CommitFinish(e) PROVE VersionsAreGrounded'
  BY <1>10, FinishEffect DEF Alone
<1>11. ASSUME NEW e \in Execs, ToolDone(e) PROVE VersionsAreGrounded'
  BY <1>11, DoneEffect DEF Alone
<1>12. ASSUME NEW e \in Execs, ExecStageError(e) PROVE VersionsAreGrounded'
  BY <1>12, ErrorEffect DEF Alone
<1>13. ASSUME NEW e \in Execs, ExecMark(e) PROVE VersionsAreGrounded'
  BY <1>13, MarkEffect DEF Alone
<1>14. ASSUME NEW e \in Execs, ExecClear(e) PROVE VersionsAreGrounded'
  BY <1>14, ClearEffect DEF Alone
<1>15. ASSUME NEW r \in Requests, StartCreate(r) PROVE VersionsAreGrounded'
  BY <1>15 DEF StartCreate, Is, Await, dbVars
<1>16. ASSUME NEW r \in Requests, Begin(r) PROVE VersionsAreGrounded'
  BY <1>16, BeginEffect
<1>17. ASSUME NEW r \in Requests, StartTask(r) PROVE VersionsAreGrounded'
  BY <1>17 DEF StartTask, Is, Await, dbVars
<1>18. ASSUME NEW r \in Requests, Launch(r) PROVE VersionsAreGrounded'
  BY <1>18, LaunchEffect DEF Alone, Launch, Await, dbVars
<1>19. ASSUME NEW r \in Requests, ResumeActive(r) PROVE VersionsAreGrounded'
  BY <1>19 DEF ResumeActive, Is, Await, dbVars
<1>20. ASSUME NEW r \in Requests, ResumeWrite(r) PROVE VersionsAreGrounded'
  BY <1>20 DEF ResumeWrite, Is, Await, dbVars
<1>21. ASSUME NEW r \in Requests, PauseWrite(r) PROVE VersionsAreGrounded'
  BY <1>21 DEF PauseWrite, Is, Await, dbVars
<1>22. ASSUME NEW r \in Requests, PauseCancel(r) PROVE VersionsAreGrounded'
  BY <1>22 DEF PauseCancel, Is, Await, CancelEffect, Active, dbVars
<1>23. ASSUME NEW r \in Requests, PauseWritePaused(r) PROVE VersionsAreGrounded'
  BY <1>23 DEF PauseWritePaused, Is, Await, dbVars
<1>24. ASSUME NEW r \in Requests, ViewRead(r) PROVE VersionsAreGrounded'
  BY <1>24 DEF ViewRead, Read, dbVars
<1>25. ASSUME NEW r \in Requests, OrphanCheck(r) PROVE VersionsAreGrounded'
  BY <1>25 DEF OrphanCheck, Await, Finished, dbVars
<1>26. ASSUME NEW r \in Requests, OrphanWrite(r) PROVE VersionsAreGrounded'
  BY <1>26 DEF OrphanWrite, Await, Finished, dbVars
<1>27. ASSUME NEW r \in Requests, Abort(r) PROVE VersionsAreGrounded'
  BY <1>27 DEF Abort, Await, Finished, dbVars
<1>28. CASE SaveVersion
  <2> HIDE DEF ByRun
  <2>1. \A i \in ByRun' : i \in ByRun /\ versions'[i] = versions[i]
    BY <1>28, PersistEffect DEF SaveVersion
  <2> QED
    BY <1>28, <2>1
<1>29. CASE Crash
  BY <1>29 DEF Crash, Ended, NoExec, Finished, dbVars
<1>30. CASE UNCHANGED vars
  BY <1>30 DEF vars, dbVars
<1> QED
  BY <1>1, <1>2, <1>3, <1>4, <1>5, <1>6, <1>7, <1>7a, <1>7b, <1>8, <1>9, <1>10,
     <1>11, <1>12, <1>13, <1>14, <1>15, <1>16, <1>17, <1>18, <1>19, <1>20, <1>21,
     <1>22, <1>23, <1>24, <1>25, <1>26, <1>27, <1>28, <1>29, <1>30
  DEF Next, ExecStep, RequestStep

LEMMA NextOnStep == Typed /\ StagesFollowSteps /\ OneExecutor /\ OnStep /\ [Next]_vars => OnStep'
<1> SUFFICES ASSUME Typed, StagesFollowSteps, OneExecutor, OnStep, [Next]_vars PROVE OnStep'
  OBVIOUS
<1> USE StepValues DEF Typed, ToolSteps, StagesFollowSteps, OneExecutor, Live, OnStep
<1>1. ASSUME NEW e \in Execs, ExecLoad(e) PROVE OnStep'
  BY <1>1, LoadEffect DEF Alone
<1>2. ASSUME NEW e \in Execs, ExecDecide(e) PROVE OnStep'
  BY <1>2, DecideEffect DEF Alone
<1>3. ASSUME NEW e \in Execs, ExecSetRunning(e) PROVE OnStep'
  BY <1>3, SetRunningEffect DEF Alone
<1>4. ASSUME NEW e \in Execs, ExecModel(e) PROVE OnStep'
  BY <1>4, ModelEffect DEF Alone
<1>5. ASSUME NEW e \in Execs, ExecCheck(e) PROVE OnStep'
  BY <1>5, CheckEffect DEF Alone
<1>6. ASSUME NEW e \in Execs, ToolFails(e) PROVE OnStep'
  BY <1>6, FailsEffect DEF Alone
<1>7. ASSUME NEW e \in Execs, RetrieveEvidence(e) PROVE OnStep'
  BY <1>7, RetrieveEffect DEF Alone
<1>7a. ASSUME NEW e \in Execs, SearchMore(e) PROVE OnStep'
  BY <1>7a, SearchEffect DEF Alone
<1>7b. ASSUME NEW e \in Execs, FreezeEvidence(e) PROVE OnStep'
  BY <1>7b, FreezeEffect DEF Alone
<1>8. ASSUME NEW e \in Execs, ComposeDocument(e) PROVE OnStep'
  BY <1>8, ComposeEffect DEF Alone
<1>9. ASSUME NEW e \in Execs, CommitVersion(e) PROVE OnStep'
  BY <1>9, CommitEffect DEF Alone
<1>10. ASSUME NEW e \in Execs, CommitFinish(e) PROVE OnStep'
  BY <1>10, FinishEffect DEF Alone
<1>11. ASSUME NEW e \in Execs, ToolDone(e) PROVE OnStep'
  BY <1>11, DoneEffect DEF Alone
<1>12. ASSUME NEW e \in Execs, ExecStageError(e) PROVE OnStep'
  BY <1>12, ErrorEffect DEF Alone
<1>13. ASSUME NEW e \in Execs, ExecMark(e) PROVE OnStep'
  BY <1>13, MarkEffect DEF Alone
<1>14. ASSUME NEW e \in Execs, ExecClear(e) PROVE OnStep'
  BY <1>14, ClearEffect DEF Alone
<1>15. ASSUME NEW r \in Requests, StartCreate(r) PROVE OnStep'
  <2>1. run'.step = run.step /\ run'.body = run.body /\ run'.version = run.version
    BY <1>15 DEF StartCreate, RunRecords
  <2> QED
    BY <1>15, <2>1 DEF StartCreate, Is, Await, Finished, Active, dbVars
<1>16. ASSUME NEW r \in Requests, Begin(r) PROVE OnStep'
  BY <1>16, BeginEffect
<1>17. ASSUME NEW r \in Requests, StartTask(r) PROVE OnStep'
  BY <1>17 DEF StartTask, Is, Await, dbVars
<1>18. ASSUME NEW r \in Requests, Launch(r) PROVE OnStep'
  BY <1>18, LaunchEffect DEF Alone, Launch, Await, dbVars
<1>19. ASSUME NEW r \in Requests, ResumeActive(r) PROVE OnStep'
  BY <1>19 DEF ResumeActive, Is, Await, dbVars
<1>20. ASSUME NEW r \in Requests, ResumeWrite(r) PROVE OnStep'
  <2>1. run'.step = run.step /\ run'.body = run.body /\ run'.version = run.version
    BY <1>20 DEF ResumeWrite, RunRecords
  <2> QED
    BY <1>20, <2>1 DEF ResumeWrite, Is, Await, Finished, Active, dbVars
<1>21. ASSUME NEW r \in Requests, PauseWrite(r) PROVE OnStep'
  <2>1. run'.step = run.step /\ run'.body = run.body /\ run'.version = run.version
    BY <1>21 DEF PauseWrite, RunRecords
  <2> QED
    BY <1>21, <2>1 DEF PauseWrite, Is, Await, Finished, Active, dbVars
<1>22. ASSUME NEW r \in Requests, PauseCancel(r) PROVE OnStep'
  BY <1>22 DEF PauseCancel, Is, Await, CancelEffect, Active, dbVars
<1>23. ASSUME NEW r \in Requests, PauseWritePaused(r) PROVE OnStep'
  <2>1. run'.step = run.step /\ run'.body = run.body /\ run'.version = run.version
    BY <1>23 DEF PauseWritePaused, RunRecords
  <2> QED
    BY <1>23, <2>1 DEF PauseWritePaused, Is, Await, Finished, Active, dbVars
<1>24. ASSUME NEW r \in Requests, ViewRead(r) PROVE OnStep'
  BY <1>24 DEF ViewRead, Read, dbVars
<1>25. ASSUME NEW r \in Requests, OrphanCheck(r) PROVE OnStep'
  BY <1>25 DEF OrphanCheck, Await, Finished, dbVars
<1>26. ASSUME NEW r \in Requests, OrphanWrite(r) PROVE OnStep'
  <2>1. run'.step = run.step /\ run'.body = run.body /\ run'.version = run.version
    BY <1>26 DEF OrphanWrite, RunRecords
  <2> QED
    BY <1>26, <2>1 DEF OrphanWrite, Is, Await, Finished, Active, dbVars
<1>27. ASSUME NEW r \in Requests, Abort(r) PROVE OnStep'
  BY <1>27 DEF Abort, Await, Finished, dbVars
<1>28. CASE SaveVersion
  BY <1>28 DEF SaveVersion, persistVersion, dbVars
<1>29. CASE Crash
  BY <1>29 DEF Crash, Ended, NoExec, Finished, dbVars
<1>30. CASE UNCHANGED vars
  BY <1>30 DEF vars, dbVars
<1> QED
  BY <1>1, <1>2, <1>3, <1>4, <1>5, <1>6, <1>7, <1>7a, <1>7b, <1>8, <1>9, <1>10,
     <1>11, <1>12, <1>13, <1>14, <1>15, <1>16, <1>17, <1>18, <1>19, <1>20, <1>21,
     <1>22, <1>23, <1>24, <1>25, <1>26, <1>27, <1>28, <1>29, <1>30
  DEF Next, ExecStep, RequestStep

LEMMA NextCompletedIsBacked == Typed /\ StagesFollowSteps /\ CommitsAreGrounded /\ OnStep /\ CompletedIsBacked /\ [Next]_vars => CompletedIsBacked'
<1> SUFFICES ASSUME Typed, StagesFollowSteps, CommitsAreGrounded, OnStep, CompletedIsBacked, [Next]_vars PROVE CompletedIsBacked'
  OBVIOUS
<1> USE StepValues DEF Typed, ToolSteps, StagesFollowSteps, CommitsAreGrounded, OnStep, CompletedIsBacked, ByRun
<1>1. ASSUME NEW e \in Execs, ExecLoad(e) PROVE CompletedIsBacked'
  BY <1>1, LoadEffect DEF Alone
<1>2. ASSUME NEW e \in Execs, ExecDecide(e) PROVE CompletedIsBacked'
  BY <1>2, DecideEffect DEF Alone
<1>3. ASSUME NEW e \in Execs, ExecSetRunning(e) PROVE CompletedIsBacked'
  BY <1>3, SetRunningEffect DEF Alone
<1>4. ASSUME NEW e \in Execs, ExecModel(e) PROVE CompletedIsBacked'
  BY <1>4, ModelEffect DEF Alone
<1>5. ASSUME NEW e \in Execs, ExecCheck(e) PROVE CompletedIsBacked'
  BY <1>5, CheckEffect DEF Alone
<1>6. ASSUME NEW e \in Execs, ToolFails(e) PROVE CompletedIsBacked'
  BY <1>6, FailsEffect DEF Alone
<1>7. ASSUME NEW e \in Execs, RetrieveEvidence(e) PROVE CompletedIsBacked'
  BY <1>7, RetrieveEffect DEF Alone
<1>7a. ASSUME NEW e \in Execs, SearchMore(e) PROVE CompletedIsBacked'
  BY <1>7a, SearchEffect DEF Alone
<1>7b. ASSUME NEW e \in Execs, FreezeEvidence(e) PROVE CompletedIsBacked'
  BY <1>7b, FreezeEffect DEF Alone
<1>8. ASSUME NEW e \in Execs, ComposeDocument(e) PROVE CompletedIsBacked'
  BY <1>8, ComposeEffect DEF Alone
<1>9. ASSUME NEW e \in Execs, CommitVersion(e) PROVE CompletedIsBacked'
  <2>1. \A i \in ByRun : i \in ByRun' /\ versions'[i] = versions[i]
    BY <1>9, CommitRecord, PersistEffect
  <2> HIDE DEF ByRun
  <2> QED
    BY <1>9, <2>1, CommitEffect
<1>10. ASSUME NEW e \in Execs, CommitFinish(e) PROVE CompletedIsBacked'
  BY <1>10, FinishEffect DEF Alone
<1>11. ASSUME NEW e \in Execs, ToolDone(e) PROVE CompletedIsBacked'
  BY <1>11, DoneEffect DEF Alone
<1>12. ASSUME NEW e \in Execs, ExecStageError(e) PROVE CompletedIsBacked'
  BY <1>12, ErrorEffect DEF Alone
<1>13. ASSUME NEW e \in Execs, ExecMark(e) PROVE CompletedIsBacked'
  BY <1>13, MarkEffect DEF Alone
<1>14. ASSUME NEW e \in Execs, ExecClear(e) PROVE CompletedIsBacked'
  BY <1>14, ClearEffect DEF Alone
<1>15. ASSUME NEW r \in Requests, StartCreate(r) PROVE CompletedIsBacked'
  <2>1. run'.step = run.step /\ run'.body = run.body /\ run'.version = run.version
    BY <1>15 DEF StartCreate, RunRecords
  <2> QED
    BY <1>15, <2>1 DEF StartCreate, Is, Await, Finished, Active, dbVars, ByRun
<1>16. ASSUME NEW r \in Requests, Begin(r) PROVE CompletedIsBacked'
  BY <1>16, BeginEffect
<1>17. ASSUME NEW r \in Requests, StartTask(r) PROVE CompletedIsBacked'
  BY <1>17 DEF StartTask, Is, Await, dbVars
<1>18. ASSUME NEW r \in Requests, Launch(r) PROVE CompletedIsBacked'
  BY <1>18, LaunchEffect DEF Alone, Launch, Await, dbVars
<1>19. ASSUME NEW r \in Requests, ResumeActive(r) PROVE CompletedIsBacked'
  BY <1>19 DEF ResumeActive, Is, Await, dbVars
<1>20. ASSUME NEW r \in Requests, ResumeWrite(r) PROVE CompletedIsBacked'
  <2>1. run'.step = run.step /\ run'.body = run.body /\ run'.version = run.version
    BY <1>20 DEF ResumeWrite, RunRecords
  <2> QED
    BY <1>20, <2>1 DEF ResumeWrite, Is, Await, Finished, Active, dbVars, ByRun
<1>21. ASSUME NEW r \in Requests, PauseWrite(r) PROVE CompletedIsBacked'
  <2>1. run'.step = run.step /\ run'.body = run.body /\ run'.version = run.version
    BY <1>21 DEF PauseWrite, RunRecords
  <2> QED
    BY <1>21, <2>1 DEF PauseWrite, Is, Await, Finished, Active, dbVars, ByRun
<1>22. ASSUME NEW r \in Requests, PauseCancel(r) PROVE CompletedIsBacked'
  BY <1>22 DEF PauseCancel, Is, Await, CancelEffect, Active, dbVars
<1>23. ASSUME NEW r \in Requests, PauseWritePaused(r) PROVE CompletedIsBacked'
  <2>1. run'.step = run.step /\ run'.body = run.body /\ run'.version = run.version
    BY <1>23 DEF PauseWritePaused, RunRecords
  <2> QED
    BY <1>23, <2>1 DEF PauseWritePaused, Is, Await, Finished, Active, dbVars, ByRun
<1>24. ASSUME NEW r \in Requests, ViewRead(r) PROVE CompletedIsBacked'
  BY <1>24 DEF ViewRead, Read, dbVars
<1>25. ASSUME NEW r \in Requests, OrphanCheck(r) PROVE CompletedIsBacked'
  BY <1>25 DEF OrphanCheck, Await, Finished, dbVars
<1>26. ASSUME NEW r \in Requests, OrphanWrite(r) PROVE CompletedIsBacked'
  <2>1. run'.step = run.step /\ run'.body = run.body /\ run'.version = run.version
    BY <1>26 DEF OrphanWrite, RunRecords
  <2> QED
    BY <1>26, <2>1 DEF OrphanWrite, Is, Await, Finished, Active, dbVars, ByRun
<1>27. ASSUME NEW r \in Requests, Abort(r) PROVE CompletedIsBacked'
  BY <1>27 DEF Abort, Await, Finished, dbVars
<1>28. CASE SaveVersion
  <2>1. \A i \in ByRun : i \in ByRun' /\ versions'[i] = versions[i]
    BY <1>28, PersistEffect DEF SaveVersion
  <2> HIDE DEF ByRun
  <2> QED
    BY <1>28, <2>1 DEF SaveVersion
<1>29. CASE Crash
  BY <1>29 DEF Crash, Ended, NoExec, Finished, dbVars
<1>30. CASE UNCHANGED vars
  BY <1>30 DEF vars, dbVars
<1> QED
  BY <1>1, <1>2, <1>3, <1>4, <1>5, <1>6, <1>7, <1>7a, <1>7b, <1>8, <1>9, <1>10,
     <1>11, <1>12, <1>13, <1>14, <1>15, <1>16, <1>17, <1>18, <1>19, <1>20, <1>21,
     <1>22, <1>23, <1>24, <1>25, <1>26, <1>27, <1>28, <1>29, <1>30
  DEF Next, ExecStep, RequestStep

LEMMA InitIInv == Init => IInv
<1> SUFFICES ASSUME Init PROVE IInv
  OBVIOUS
<1> USE StepValues DEF Init
<1>1. NoExec \in ExecRecords
  BY PcValues DEF NoExec, ExecRecords, Statuses, ToolSteps, None
<1>2. /\ run \in RunRecords /\ versions = <<>> /\ versions \in Seq(VersionRecords)
      /\ exec \in [Execs -> ExecRecords] /\ req \in [Requests -> RequestRecords]
  BY <1>1 DEF RunRecords, RequestRecords, Statuses, ToolSteps, None
<1>3. Typed
  BY <1>2 DEF Typed
<1>4. \A e \in Execs : exec[e].pc = "unborn" /\ exec[e].step = "retrieve_evidence"
  BY DEF NoExec
<1>5. ByRun = {}
  BY <1>2 DEF ByRun
<1>6. Live = {} /\ Launching = {}
  BY <1>4 DEF Live, Launching
<1>7. run.step = "retrieve_evidence" /\ run.version = None /\ run.status = "none"
  OBVIOUS
<1>8. StagesFollowSteps /\ CommitsAreGrounded /\ OnStep
  BY <1>4 DEF StagesFollowSteps, CommitsAreGrounded, OnStep, ToolSteps
<1>9. StepsRest
  BY <1>4, <1>7 DEF StepsRest, Rests
<1>10. VersionsAreGrounded /\ CompletedIsBacked
  BY <1>5, <1>7 DEF VersionsAreGrounded, CompletedIsBacked
<1>11. StagesFollowKind /\ NoneBegun /\ OneExecutor /\ Companions /\ ActiveIsLive
  BY <1>6 DEF StagesFollowKind, NoneBegun, OneExecutor, Companions, ActiveIsLive, Active, None
<1> QED
  BY <1>3, <1>8, <1>9, <1>10, <1>11 DEF IInv

LEMMA NextIInv == IInv /\ [Next]_vars => IInv'
BY NextTypes, NextStagesFollowSteps, NextStepsRest, NextStagesFollowKind, NextNoneBegun,
   NextActiveIsLive, NextOneExecutor, NextCommitsAreGrounded, NextVersionsAreGrounded, NextOnStep,
   NextCompletedIsBacked DEF IInv

LEMMA SpecIInv == Spec => []IInv
BY InitIInv, NextIInv, PTL DEF Spec

\* Of patient users nobody moves the row but the executor, which knows its step.
LEMMA RowAdvances ==
  ASSUME Patient, IInv, [Next]_vars
  PROVE  /\ Rank(run'.step) >= Rank(run.step)
         /\ run.version # None => run'.version = run.version
<1> DEFINE Forward == /\ Rank(run'.step) >= Rank(run.step)
                      /\ run.version # None => run'.version = run.version
<1> SUFFICES Forward
  OBVIOUS
<1>1. run.step \in ToolSteps \cup {"completed"}
  BY StepValues DEF IInv, Typed, RunRecords
<1>2. /\ Rank("retrieve_evidence") = 1 /\ Rank("compose_document") = 2
      /\ Rank("commit_version") = 3 /\ Rank("completed") = 4
  BY RankValues
<1> HIDE DEF IInv
<1>3. \A step \in ToolSteps \cup {"completed"} : Rank(step) \in 1..4 /\ Rank(step) <= Rank("completed")
  BY <1>2 DEF ToolSteps
<1>4. ASSUME run'.step = run.step, run'.version = run.version PROVE Forward
  BY <1>1, <1>3, <1>4
<1>5. IInv
  OBVIOUS
<1>6. ASSUME NEW e \in Execs, exec[e].pc \in ToolSteps \cup {"finish", "markCompleted"}
      PROVE  /\ run.step = exec[e].step
             /\ exec[e].pc \in ToolSteps => run.step = exec[e].pc
             /\ exec[e].pc = "finish" => run.step = "commit_version"
             /\ exec[e].pc = "markCompleted" => run.step = "completed"
             /\ run.step # "completed" => run.version = None
  BY <1>5, <1>6, Patient DEF IInv, OnStep, StagesFollowSteps, CompletedIsBacked
<1>7. Typed
  BY <1>5 DEF IInv
<1> HIDE DEF Forward
<1>8. ASSUME NEW e \in Execs, ExecStep(e) PROVE Forward
  <2>1. CASE RetrieveEvidence(e)
    BY <1>2, <1>6, <1>7, <2>1, RetrieveEffect DEF Forward, ToolSteps
  <2>1a. CASE FreezeEvidence(e)
    BY <1>4, <1>7, <2>1a, FreezeEffect
  <2>2. CASE ComposeDocument(e)
    BY <1>2, <1>6, <1>7, <2>2, ComposeEffect DEF Forward, ToolSteps
  <2>3. CASE CommitFinish(e)
    BY <1>2, <1>6, <1>7, <2>3, FinishEffect DEF Forward, ToolSteps
  <2>4. CASE ExecMark(e)
    BY <1>4, <1>6, <1>7, <2>4, MarkEffect
  <2>5. CASE ExecSetRunning(e)
    BY <1>4, <1>7, <2>5, SetRunningEffect
  <2>6. CASE run' = run
    BY <1>4, <2>6
  <2> QED
    BY <1>8, <2>1, <2>1a, <2>2, <2>3, <2>4, <2>5, <2>6
    DEF ExecStep, ExecLoad, ExecDecide, ExecModel, ExecCheck, ToolFails, SearchMore, CommitVersion,
        ToolDone, ExecStageError, ExecClear, dbVars
<1>9. ASSUME NEW r \in Requests, StartCreate(r) \/ Begin(r) \/ RequestStep(r) \/ Abort(r)
       PROVE  Forward
  <2>1. CASE \E status : run' = [run EXCEPT !.status = status]
    BY <1>4, <1>7, <2>1 DEF Typed, RunRecords
  <2>2. CASE run' = run
    BY <1>4, <2>2
  <2>3. \/ run' = run
        \/ StartCreate(r) \/ ResumeWrite(r) \/ PauseWrite(r) \/ PauseWritePaused(r) \/ OrphanWrite(r)
    BY <1>9 DEF RequestStep, Begin, Abort, StartTask, Launch, ResumeActive, PauseCancel,
                 ViewRead, OrphanCheck, dbVars
  <2> QED
    BY <2>1, <2>2, <2>3 DEF StartCreate, ResumeWrite, PauseWrite, PauseWritePaused, OrphanWrite
<1>10. CASE SaveVersion \/ Crash
  BY <1>4, <1>10 DEF SaveVersion, Crash, dbVars
<1>11. CASE UNCHANGED vars
  BY <1>4, <1>11 DEF vars, dbVars
<1> QED
  BY <1>8, <1>9, <1>10, <1>11 DEF Next

-----------------------------------------------------------------------------
(* What a launch commits *)

LEMMA CancelStays ==
  ASSUME Typed, NEW e \in Execs, ExecStep(e), exec[e].cancelled
  PROVE  exec'[e].cancelled
<1>1. exec \in [Execs -> ExecRecords] /\ exec[e] \in ExecRecords
  BY DEF Typed
<1>2. ASSUME NEW pc, Leave(e, pc) PROVE exec'[e].cancelled
  <2>1. exec'[e] = [NoExec EXCEPT !.pc = pc, !.cancelled = exec[e].cancelled]
    BY <1>1, <1>2 DEF Leave
  <2> QED
    BY <2>1 DEF NoExec
<1>3. ASSUME NEW pc, To(e, pc) PROVE exec'[e].cancelled
  <2>1. exec'[e] = [exec[e] EXCEPT !.pc = pc]
    BY <1>1, <1>3 DEF To
  <2> QED
    BY <1>1, <2>1 DEF ExecRecords
<1>4. ~Ok(e)
  BY DEF Ok
<1>5. CASE ExecLoad(e)
  BY <1>2, <1>4, <1>5 DEF ExecLoad
<1>6. CASE ExecDecide(e)
  BY <1>2, <1>6 DEF ExecDecide
<1>7. CASE ExecSetRunning(e)
  BY <1>2, <1>4, <1>7 DEF ExecSetRunning
<1>8. CASE ExecModel(e)
  BY <1>2, <1>4, <1>8 DEF ExecModel
<1>9. CASE ExecCheck(e)
  BY <1>3, <1>4, <1>9 DEF ExecCheck
<1>10. CASE ToolFails(e)
  BY <1>3, <1>10 DEF ToolFails
<1>11. ~(\/ RetrieveEvidence(e) \/ SearchMore(e) \/ ComposeDocument(e)
         \/ CommitVersion(e) \/ CommitFinish(e))
  BY <1>4 DEF RetrieveEvidence, SearchMore, ComposeDocument, CommitVersion, CommitFinish
<1>11a. CASE FreezeEvidence(e)
  BY <1>3, <1>11a DEF FreezeEvidence
<1>12. CASE ToolDone(e)
  BY <1>2, <1>12 DEF ToolDone
<1>13. CASE ExecStageError(e)
  BY <1>3, <1>13 DEF ExecStageError
<1>14. CASE ExecMark(e)
  BY <1>3, <1>14 DEF ExecMark
<1>15. CASE ExecClear(e)
  <2>1. exec'[e] = [NoExec EXCEPT !.pc = "ended", !.cancelled = TRUE]
    BY <1>1, <1>15 DEF ExecClear, Ended
  <2> QED
    BY <2>1 DEF NoExec
<1> QED
  BY <1>5, <1>6, <1>7, <1>8, <1>9, <1>10, <1>11, <1>11a, <1>12, <1>13, <1>14, <1>15 DEF ExecStep

LEMMA CompletedStays ==
  ASSUME Patient, IInv, [Next]_vars, run.step = "completed"
  PROVE  run'.step = "completed"
<1>1. run'.step \in StepNames
  BY NextIInv DEF IInv, Typed, RunRecords
<1>2. Rank(run'.step) >= 4
  BY RowAdvances, RankValues
<1> QED
  BY <1>1, <1>2, StepValues, RankValues DEF ToolSteps

\* A step of an executor, as far as it matters here.
LEMMA ExecMoves ==
  ASSUME Typed, NEW e \in Execs, ExecStep(e)
  PROVE  /\ Alone(e) /\ exec[e].pc \notin {"unborn", "ended"} /\ exec'[e].pc # "unborn"
         /\ exec[e].pc = "finish" =>
              run'.step = "completed" \/ exec[e].cancelled \/ DbFails
         /\ ~CommitVersion(e) => versions' = versions
<1> USE DEF ToolSteps
<1>1. CASE ExecLoad(e)
  BY <1>1, LoadEffect
<1>2. CASE ExecDecide(e)
  BY <1>2, DecideEffect
<1>3. CASE ExecSetRunning(e)
  BY <1>3, SetRunningEffect
<1>4. CASE ExecModel(e)
  BY <1>4, ModelEffect
<1>5. CASE ExecCheck(e)
  <2>1. exec'[e].pc \in {"model", exec[e].step} /\ exec[e].step \in StepNames
    BY <1>5, CheckEffect DEF Typed, ExecRecords
  <2> QED
    BY <1>5, <2>1, CheckEffect, StepValues
<1>6. CASE ToolFails(e)
  BY <1>6, FailsEffect DEF ToolFails, Fails
<1>7. CASE RetrieveEvidence(e)
  BY <1>7, RetrieveEffect
<1>7a. CASE SearchMore(e)
  BY <1>7a, SearchEffect
<1>7b. CASE FreezeEvidence(e)
  BY <1>7b, FreezeEffect
<1>8. CASE ComposeDocument(e)
  BY <1>8, ComposeEffect
<1>9. CASE CommitVersion(e)
  BY <1>9, CommitEffect
<1>10. CASE CommitFinish(e)
  BY <1>10, FinishEffect
<1>11. CASE ToolDone(e)
  BY <1>11, DoneEffect
<1>12. CASE ExecStageError(e)
  BY <1>12, ErrorEffect
<1>13. CASE ExecMark(e)
  BY <1>13, MarkEffect
<1>14. CASE ExecClear(e)
  BY <1>14, ClearEffect
<1> QED
  BY <1>1, <1>2, <1>3, <1>4, <1>5, <1>6, <1>7, <1>7a, <1>7b, <1>8, <1>9, <1>10, <1>11, <1>12,
     <1>13, <1>14 DEF ExecStep

LEMMA SpentStays ==
  ASSUME Patient, ~DbFails, IInv, [Next]_vars, NEW f, Spent(f)
  PROVE  Spent(f)'
<1>1. f \in Execs /\ exec \in [Execs -> ExecRecords] /\ exec[f] \in ExecRecords /\ Typed
  BY DEF Spent, IInv, Typed
<1>2. ASSUME exec'[f] = exec[f] PROVE Spent(f)'
  BY <1>2, CompletedStays DEF Spent
<1>3. ASSUME NEW e \in Execs, ExecStep(e) PROVE Spent(f)'
  <2>1. CASE f # e
    BY <1>1, <1>2, <1>3, <2>1, ExecMoves DEF Alone
  <2>2. CASE f = e
    BY <1>1, <1>3, <2>2, ExecMoves, CancelStays, CompletedStays DEF Spent
  <2> QED
    BY <2>1, <2>2
<1>4. ASSUME NEW r \in Requests, StartCreate(r) \/ Begin(r) \/ RequestStep(r) \/ Abort(r)
      PROVE  Spent(f)'
  <2>1. CASE Launch(r)
    <3>1. PICK e \in Execs : Alone(e) /\ exec[e].pc = "unborn"
      BY <1>1, <2>1, LaunchEffect DEF Launch
    <3> QED
      BY <1>1, <1>2, <3>1 DEF Alone, Spent
  <2>2. CASE PauseCancel(r)
    <3>1. exec' = exec \/ (registered \in Execs /\ exec' = [exec EXCEPT ![registered] = [exec[registered] EXCEPT !.cancelled = TRUE]])
      BY <1>1, <2>2 DEF PauseCancel, CancelEffect, Active, Typed
    <3>2. exec'[f] = exec[f] \/ exec'[f] = [exec[f] EXCEPT !.cancelled = TRUE]
      BY <1>1, <3>1
    <3>3. exec'[f] = exec[f] \/ (exec'[f].pc = exec[f].pc /\ exec'[f].cancelled)
      BY <1>1, <3>2 DEF ExecRecords
    <3> QED
      BY <1>1, <1>2, <3>3 DEF Spent
  <2>3. CASE exec' = exec
    BY <1>2, <2>3
  <2> QED
    BY <1>4, <2>1, <2>2, <2>3
       DEF RequestStep, StartCreate, Begin, Abort, StartTask, ResumeActive, ResumeWrite, PauseWrite,
           PauseWritePaused, ViewRead, OrphanCheck, OrphanWrite
<1>5. CASE Crash
  <2>1. exec'[f] = exec[f] \/ exec'[f] = Ended
    BY <1>1, <1>5 DEF Crash
  <2>2. Ended.pc = "ended"
    BY DEF Ended, NoExec
  <2> QED
    BY <1>1, <1>2, <2>1, <2>2 DEF Spent
<1>6. CASE SaveVersion \/ UNCHANGED vars
  BY <1>2, <1>6 DEF SaveVersion, vars
<1> QED
  BY <1>3, <1>4, <1>5, <1>6 DEF Next

LEMMA NextCommitIsLast ==
  Patient /\ ~DbFails /\ IInv /\ CommitIsLast /\ OneVersionPerLaunch /\ [Next]_vars =>
    CommitIsLast' /\ OneVersionPerLaunch'
<1> SUFFICES ASSUME Patient, ~DbFails, IInv, CommitIsLast, OneVersionPerLaunch, [Next]_vars
             PROVE  CommitIsLast' /\ OneVersionPerLaunch'
  OBVIOUS
<1>1. \A f : Spent(f) => Spent(f)'
  BY SpentStays
<1>2. ASSUME \A i \in ByRun' : i \in ByRun /\ versions'[i] = versions[i]
      PROVE  CommitIsLast' /\ OneVersionPerLaunch'
  <2>1. CommitIsLast'
    <3> SUFFICES ASSUME NEW i \in ByRun' PROVE Spent(versions[i].by)'
      BY DEF CommitIsLast
    <3> QED
      BY <1>1, <1>2 DEF CommitIsLast
  <2> QED
    BY <1>2, <2>1 DEF OneVersionPerLaunch
<1>3. CASE versions' = versions
  BY <1>2, <1>3 DEF ByRun
<1>4. versions \in Seq(VersionRecords) /\ Typed
  BY DEF IInv, Typed
<1>5. CASE SaveVersion
  <2>1. \A i \in ByRun' : i \in ByRun /\ versions'[i] = versions[i]
    BY <1>4, <1>5, PersistEffect DEF SaveVersion
  <2> QED
    BY <1>2, <2>1
<1>6. ASSUME NEW e \in Execs, CommitVersion(e) PROVE CommitIsLast' /\ OneVersionPerLaunch'
  <2>1. exec'[e].pc = "finish" /\ exec[e].pc = "commit_version" /\ ~exec[e].cancelled
    BY <1>4, <1>6, CommitEffect DEF CommitVersion, Ok
  <2>2. run.step = "commit_version"
    BY <2>1 DEF IInv, OnStep, StagesFollowSteps, ToolSteps
  <2>3. \A i \in ByRun : versions[i].by # e
    BY <2>1, <2>2 DEF CommitIsLast, Spent
  <2>4. \A i \in ByRun' : \/ i \in ByRun /\ versions'[i] = versions[i]
                          \/ i = Len(versions') /\ versions'[i].by = e
    BY <1>4, <1>6, CommitRecord, PersistEffect
  <2>5. Spent(e)'
    BY <2>1 DEF Spent
  <2>6. CommitIsLast'
    <3> SUFFICES ASSUME NEW i \in ByRun' PROVE Spent(versions[i].by)'
      BY DEF CommitIsLast
    <3>1. CASE i \in ByRun /\ versions'[i] = versions[i]
      BY <1>1, <3>1 DEF CommitIsLast
    <3>2. CASE versions'[i].by = e
      BY <2>5, <3>2
    <3> QED
      BY <2>4, <3>1, <3>2
  <2>7. OneVersionPerLaunch'
    BY <2>3, <2>4 DEF OneVersionPerLaunch
  <2> QED
    BY <2>6, <2>7
<1>7. ASSUME NEW e \in Execs, ExecStep(e) PROVE CommitIsLast' /\ OneVersionPerLaunch'
  BY <1>3, <1>4, <1>6, <1>7, ExecMoves
<1>8. ASSUME NEW r \in Requests, StartCreate(r) \/ Begin(r) \/ RequestStep(r) \/ Abort(r)
      PROVE  versions' = versions
  BY <1>8 DEF RequestStep, StartCreate, Begin, Abort, StartTask, Launch, ResumeActive, ResumeWrite,
     PauseWrite, PauseCancel, PauseWritePaused, ViewRead, OrphanCheck, OrphanWrite, dbVars
<1>9. Crash \/ UNCHANGED vars => versions' = versions
  BY DEF Crash, vars, dbVars
<1> QED
  BY <1>3, <1>5, <1>7, <1>8, <1>9 DEF Next

-----------------------------------------------------------------------------
\* The rows, the executors and the requests keep their kinds of values, through
\* every step, crash and failed statement of writing_run.go.
THEOREM WritingRunTypes == Spec => []TypeOK
<1>1. IInv => TypeOK
  BY TypedIsTypeOK DEF IInv
<1> QED
  BY <1>1, SpecIInv, PTL

\* However many executors, resumes, pauses and crashes overlap, commitVersion
\* never stores a version without a body that was composed and evidence that
\* was frozen: the step in writing_runs, read again by each tool, guards it.
THEOREM VersionsGrounded == Spec => []VersionsAreGrounded
<1>1. IInv => VersionsAreGrounded
  BY DEF IInv
<1> QED
  BY <1>1, SpecIInv, PTL

\* taskrun.Controller (controller.go:20-49) never names a goroutine that has ended
\* and names every live one, whoever resumes, pauses or crashes when, but those that
\* have lived beside another.
THEOREM ActiveTellsTheTruth == Spec => []ActiveIsLive
<1>1. IInv => ActiveIsLive
  BY DEF IInv
<1> QED
  BY <1>1, SpecIInv, PTL

\* As long as a run is resumed only when nothing else starts it and its last
\* executor has ended, the checkpoint that a resume starts from is backed by the
\* evidence, the body and the version that the earlier steps left.
THEOREM CheckpointsBacked ==
  ASSUME Patient
  PROVE  Spec => []CheckpointBacked
<1>1. IInv => CheckpointBacked
  <2> SUFFICES ASSUME IInv PROVE CheckpointBacked
    OBVIOUS
  <2>1. run.step \in ToolSteps \cup {"completed"}
    BY StepValues DEF IInv, Typed, RunRecords
  <2>2. Rank(run.step) >= Rank("compose_document") => run.evidence > 0
    BY <2>1, RankValues DEF IInv, StepsRest, Rests, ToolSteps
  <2>3. Rank(run.step) >= Rank("commit_version") => run.body # None
    BY <2>1, RankValues DEF IInv, StepsRest, Rests, ToolSteps
  <2> QED
    BY <2>2, <2>3, Patient DEF IInv, CompletedIsBacked, CheckpointBacked
<1> QED
  BY <1>1, SpecIInv, PTL

\* For the same users, the checkpoint in writing_runs never moves back and the
\* version it points at stays: every step of an executor advances the row only
\* from the step it has read, and nobody else has moved it since.
THEOREM CheckpointsAdvance ==
  ASSUME Patient
  PROVE  Spec => CheckpointAdvances
<1> DEFINE Forward == /\ Rank(run'.step) >= Rank(run.step)
                      /\ run.version # None => run'.version = run.version
<1>1. IInv /\ [Next]_vars => [Forward]_vars
  BY RowAdvances
<1> QED
  BY <1>1, SpecIInv, PTL DEF Spec, CheckpointAdvances

\* For the same users and a database that does not fail, a launch stores one version
\* at most: commitVersion and the statement that marks the run (writing_run.go:467,
\* 472) are two steps, but who has committed cannot get to commit again.
THEOREM LaunchCommitsOnce ==
  ASSUME Patient, ~DbFails
  PROVE  Spec => []OneVersionPerLaunch
<1> DEFINE CInv == IInv /\ CommitIsLast /\ OneVersionPerLaunch
<1>1. Init => CInv
  <2>1. Init => ByRun = {}
    BY DEF Init, ByRun
  <2> QED
    BY <2>1, InitIInv DEF CommitIsLast, OneVersionPerLaunch
<1>2. CInv /\ [Next]_vars => CInv'
  BY NextIInv, NextCommitIsLast
<1>3. CInv => OneVersionPerLaunch
  OBVIOUS
<1> QED
  BY <1>1, <1>2, <1>3, PTL DEF Spec

-----------------------------------------------------------------------------
(* The refinement of WritingWorkflow *)

Reported == {"queued", "running", "pause_requested", "paused", "failed", "completed"}

LEMMA ReportsAre ==
  ASSUME NEW status \in Reported, status = "completed" => run.step = "completed",
         run' = [run EXCEPT !.status = status], versions' = versions
  PROVE  Workflow!Next
<1>1. Workflow!Report(status)
  BY DEF Workflow!Report, Reported
<1> QED
  BY <1>1 DEF Workflow!Next, Reported

\* What an executor at work knows of the row.
LEMMA WorkerKnows ==
  ASSUME Patient, IInv, NEW e \in Execs, exec[e].pc \in ToolSteps \cup {"freeze", "finish", "markCompleted"}
  PROVE  /\ run.status # "none" /\ run \in RunRecords
         /\ exec[e].pc = "freeze" => run.step = "compose_document"
         /\ exec[e].pc \in ToolSteps => run.step = exec[e].pc
         /\ exec[e].pc = "finish" => run.step = "commit_version"
         /\ exec[e].pc = "markCompleted" => run.step = "completed"
<1>1. e \in Live
  BY DEF Live, ToolSteps
<1> QED
  BY <1>1 DEF IInv, Typed, NoneBegun, OnStep, StagesFollowSteps

LEMMA CommitIsACommit ==
  ASSUME Patient, IInv, NEW e \in Execs, CommitVersion(e)
  PROVE  Workflow!Next
<1>1. exec[e].pc = "commit_version" /\ run' = run
      /\ versions' = Append(versions, [by |-> e, body |-> exec[e].body, evidence |-> exec[e].evidence])
  BY DEF CommitVersion, persistVersion
<1>2. exec[e].body = run.body /\ exec[e].evidence = run.evidence
  BY <1>1 DEF IInv, OnStep
<1>3. run.status # "none" /\ run.step = "commit_version"
  BY <1>1, WorkerKnows DEF ToolSteps
<1>4. Workflow!Commit
  BY <1>1, <1>2, <1>3 DEF Workflow!Commit, Workflow!At
<1> QED
  BY <1>4 DEF Workflow!Next

LEMMA FinishCompletes ==
  ASSUME Patient, IInv, NEW e \in Execs, CommitFinish(e)
  PROVE  Workflow!Next
<1> DEFINE i == exec[e].version
<1>1. /\ exec[e].pc = "finish" /\ versions' = versions
      /\ run' = [run EXCEPT !.status = "completed", !.step = "completed", !.version = i]
  BY DEF CommitFinish
<1>2. exec[e].body = run.body /\ exec[e].evidence = run.evidence
  BY <1>1 DEF IInv, OnStep
<1>3. i \in ByRun /\ versions[i].body = exec[e].body /\ versions[i].evidence = exec[e].evidence
  BY <1>1 DEF IInv, CommitsAreGrounded
<1>4. run.status # "none" /\ run.step = "commit_version"
  BY <1>1, WorkerKnows
<1>5. i \in DOMAIN versions /\ versions[i].by # None
  BY <1>3 DEF ByRun
<1> HIDE DEF i
<1>6. Workflow!Complete
  BY <1>1, <1>2, <1>3, <1>4, <1>5 DEF Workflow!Complete, Workflow!At, Workflow!MadeOfRun
<1> QED
  BY <1>6 DEF Workflow!Next

LEMMA StepFollowsWorkflow ==
  ASSUME Patient, IInv, [Next]_vars
  PROVE  [Workflow!Next]_Workflow!vars
<1> DEFINE Follows == Workflow!Next \/ UNCHANGED <<run, versions>>
<1>1. SUFFICES Follows
  BY DEF Workflow!vars
<1>2. ASSUME UNCHANGED <<run, versions>> PROVE Follows
  BY <1>2
<1>3. ASSUME NEW status \in Reported, status = "completed" => run.step = "completed",
             run' = [run EXCEPT !.status = status], versions' = versions
      PROVE  Follows
  BY <1>3, ReportsAre
<1>4. ASSUME Workflow!Next PROVE Follows
  BY <1>4
<1>5. IInv
  OBVIOUS
<1> HIDE DEF Follows, IInv
<1>6. ASSUME NEW e \in Execs, ExecStep(e) PROVE Follows
  <2>1. CASE RetrieveEvidence(e)
    <3>1. run.status # "none" /\ run.step = "retrieve_evidence"
      BY <1>5, <2>1, WorkerKnows DEF RetrieveEvidence, ToolSteps
    <3>2. Workflow!Retrieve
      BY <2>1, <3>1 DEF RetrieveEvidence, Workflow!Retrieve, Workflow!At
    <3> QED
      BY <1>4, <3>2 DEF Workflow!Next
  <2>1a. CASE FreezeEvidence(e)
    <3>1. run.status # "none" /\ run.step = "compose_document"
      BY <1>5, <2>1a, WorkerKnows DEF FreezeEvidence
    <3>2. CASE run' = run
      BY <1>2, <2>1a, <3>2 DEF FreezeEvidence
    <3>3. CASE run' = [run EXCEPT !.evidence = run.evidence + 1]
      <4>1. Workflow!Supplement
        BY <2>1a, <3>1, <3>3 DEF FreezeEvidence, Workflow!Supplement, Workflow!At
      <4> QED
        BY <1>4, <4>1 DEF Workflow!Next
    <3> QED
      BY <2>1a, <3>2, <3>3 DEF FreezeEvidence
  <2>2. CASE ComposeDocument(e)
    <3>1. run.status # "none" /\ run.step = "compose_document"
      BY <1>5, <2>2, WorkerKnows DEF ComposeDocument, ToolSteps
    <3>2. Workflow!Compose
      BY <2>2, <3>1 DEF ComposeDocument, Workflow!Compose, Workflow!At
    <3> QED
      BY <1>4, <3>2 DEF Workflow!Next
  <2>3. CASE CommitVersion(e)
    BY <1>4, <1>5, <2>3, CommitIsACommit
  <2>4. CASE CommitFinish(e)
    BY <1>4, <1>5, <2>4, FinishCompletes
  <2>5. CASE ExecMark(e)
    <3>1. CASE run' = run
      BY <1>2, <2>5, <3>1 DEF ExecMark
    <3>2. CASE exec[e].pc = "markPaused" /\ run' # run
      <4>1. run' = [run EXCEPT !.status = "paused", !.step = run.step]
        BY <2>5, <3>2 DEF ExecMark
      <4>2. run \in RunRecords
        BY <1>5 DEF IInv, Typed
      <4>3. run' = [run EXCEPT !.status = "paused"]
        BY <4>1, <4>2 DEF RunRecords
      <4> QED
        BY <1>3, <2>5, <4>3 DEF ExecMark, Reported
    <3>3. CASE exec[e].pc = "markFailed" /\ run' # run
      <4>1. run' = [run EXCEPT !.status = "failed", !.step = run.step]
        BY <2>5, <3>3 DEF ExecMark
      <4>2. run \in RunRecords
        BY <1>5 DEF IInv, Typed
      <4>3. run' = [run EXCEPT !.status = "failed"]
        BY <4>1, <4>2 DEF RunRecords
      <4> QED
        BY <1>3, <2>5, <4>3 DEF ExecMark, Reported
    <3>4. CASE exec[e].pc = "markCompleted" /\ run' # run
      <4>1. run' = [run EXCEPT !.status = "completed", !.step = "completed"]
        BY <2>5, <3>4 DEF ExecMark
      <4>2. run \in RunRecords /\ run.step = "completed"
        BY <1>5, <3>4, WorkerKnows
      <4>3. run' = [run EXCEPT !.status = "completed"]
        BY <4>1, <4>2 DEF RunRecords
      <4> QED
        BY <1>3, <2>5, <4>2, <4>3 DEF ExecMark, Reported
    <3> QED
      BY <2>5, <3>1, <3>2, <3>3, <3>4 DEF ExecMark
  <2>6. CASE ExecSetRunning(e)
    BY <1>2, <1>3, <2>6 DEF ExecSetRunning, Reported
  <2>7. CASE UNCHANGED <<run, versions>>
    BY <1>2, <2>7
  <2> QED
    BY <1>6, <2>1, <2>1a, <2>2, <2>3, <2>4, <2>5, <2>6, <2>7
    DEF ExecStep, ExecLoad, ExecDecide, ExecModel, ExecCheck, ToolFails, SearchMore,
        ToolDone, ExecStageError, ExecClear, dbVars
<1>7. ASSUME NEW r \in Requests, StartCreate(r) \/ Begin(r) \/ RequestStep(r) \/ Abort(r)
      PROVE  Follows
  <2>1. \/ UNCHANGED <<run, versions>>
        \/ StartCreate(r) \/ ResumeWrite(r) \/ PauseWrite(r) \/ PauseWritePaused(r) \/ OrphanWrite(r)
    BY <1>7 DEF RequestStep, Begin, Abort, StartTask, Launch, ResumeActive, PauseCancel,
                ViewRead, OrphanCheck, dbVars
  <2>2. CASE StartCreate(r) \/ ResumeWrite(r)
    BY <1>3, <2>2 DEF StartCreate, ResumeWrite, Reported
  <2>3. CASE PauseWrite(r)
    BY <1>3, <2>3 DEF PauseWrite, Reported
  <2>4. CASE PauseWritePaused(r) \/ OrphanWrite(r)
    BY <1>3, <2>4 DEF PauseWritePaused, OrphanWrite, Reported
  <2> QED
    BY <1>2, <2>1, <2>2, <2>3, <2>4
<1>8. CASE SaveVersion
  BY <1>4, <1>8 DEF SaveVersion, persistVersion, Workflow!Next, Workflow!SaveByHand
<1>9. CASE Crash \/ UNCHANGED vars
  BY <1>2, <1>9 DEF Crash, vars, dbVars
<1> QED
  BY <1>6, <1>7, <1>8, <1>9 DEF Next

\* For patient users, a run and the versions of its task behave as WritingWorkflow:
\* whatever is paused, fails or crashes between the statements of
\* retrieveEvidence, composeDocument and commitVersion (writing_run.go:287-477) and
\* of the searches between them (writing_knowledge_search.go:260-322), each step is
\* done once, on what the one before has left, evidence is added until there is a
\* body and not after, and what is committed is the body and the evidence of the row.
THEOREM RunImplementsWorkflow ==
  ASSUME Patient
  PROVE  Spec => FollowsWorkflow
<1>1. Init => Workflow!Init
  BY StepValues DEF Init, Workflow!Init
<1>2. IInv /\ [Next]_vars => [Workflow!Next]_Workflow!vars
  BY StepFollowsWorkflow
<1> QED
  BY <1>1, <1>2, SpecIInv, PTL DEF Spec, FollowsWorkflow, Workflow!Spec
=============================================================================
