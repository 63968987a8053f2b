---------------------------- MODULE MCWritingRun ----------------------------
(* One run with its requests: start, pause, resume and a poller.           *)
EXTENDS WritingRun

CONSTANTS start, pause, resume, poll

KindOf(requests) ==
  [r \in requests |-> CASE r = start -> "start" [] r = pause -> "pause"
                        [] r = resume -> "resume" [] r = poll -> "view"]

\* Without the poller: each request ends with a view of its own.
Unwatched == {start, pause, resume}
UnwatchedKinds == KindOf(Unwatched)

\* A start and a resume at any time: two executors at once.
Resumed == {start, resume}
ResumedKinds == KindOf(Resumed)

\* One launch, a pause and a poller.
Paused == {start, pause, poll}
PausedKinds == KindOf(Paused)
=============================================================================
