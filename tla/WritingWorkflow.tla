-------------------------- MODULE WritingWorkflow --------------------------
(***************************************************************************)
(* What a writing run is to whoever reads its row and the versions of its  *)
(* task: a checkpoint that goes through three steps, each of them one      *)
(* step here, and versions made of what the row holds.  No goroutines, no  *)
(* requests, no controller; a crash or a failed statement is not seen.     *)
(***************************************************************************)
EXTENDS Sequences, Naturals

CONSTANTS
  Authors,   \* who may generate a body and commit it: the executors
  None       \* a version saved by hand has no author of that kind

VARIABLES run, versions

vars == <<run, versions>>

Init ==
  /\ run = [status |-> "none", step |-> "retrieve_evidence", evidence |-> 0,
            body |-> None, version |-> None]
  /\ versions = <<>>

\* The status says what the executors and requests do; only "completed" is a
\* statement about the checkpoint.
Report(status) ==
  /\ status # "none"
  /\ status = "completed" => run.step = "completed"
  /\ run' = [run EXCEPT !.status = status]
  /\ UNCHANGED versions

At(step) == run.status # "none" /\ run.step = step

Retrieve ==
  /\ At("retrieve_evidence")
  /\ run' = [run EXCEPT !.evidence = @ + 1, !.step = "compose_document"]
  /\ UNCHANGED versions

\* The author of the body may look for more ...
Supplement ==
  /\ At("compose_document")
  /\ run' = [run EXCEPT !.evidence = @ + 1]
  /\ UNCHANGED versions

\* ... and with the body the evidence is frozen.
Compose ==
  /\ At("compose_document")
  /\ \E author \in Authors :
       run' = [run EXCEPT !.body = author, !.step = "commit_version"]
  /\ UNCHANGED versions

MadeOfRun(version) == version.body = run.body /\ version.evidence = run.evidence

\* What fails after a commit may lead to another one, of the same body.
Commit ==
  /\ At("commit_version")
  /\ \E author \in Authors :
       versions' = Append(versions, [by |-> author, body |-> run.body, evidence |-> run.evidence])
  /\ UNCHANGED run

Complete ==
  /\ At("commit_version")
  /\ \E i \in DOMAIN versions :
       /\ versions[i].by # None /\ MadeOfRun(versions[i])
       /\ run' = [run EXCEPT !.status = "completed", !.step = "completed", !.version = i]
  /\ UNCHANGED versions

SaveByHand ==
  /\ versions' = Append(versions, [by |-> None, body |-> None, evidence |-> 0])
  /\ UNCHANGED run

Next ==
  \/ \E status \in {"queued", "running", "pause_requested", "paused", "failed", "completed"} :
       Report(status)
  \/ Retrieve \/ Supplement \/ Compose \/ Commit \/ Complete
  \/ SaveByHand

Spec == Init /\ [][Next]_vars
=============================================================================
