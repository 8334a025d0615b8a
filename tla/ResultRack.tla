----------------------------- MODULE ResultRack -----------------------------
(***************************************************************************)
(* src/src/result-rack/store.js and the gateway's captureResult(): the     *)
(* Result Rack keeps, in a database of its own, the exact machine output   *)
(* of every tool call, and a bounded projection of it for attention.       *)
(*                                                                         *)
(* One result is captured by a sequence of transactions: the job, its      *)
(* output, its artifact, its terminal status, its projection.  Each may be *)
(* refused, and then the job stays where it got to; output or an artifact  *)
(* over the capture ceiling seals the job failed.  The Hub runs them in    *)
(* one turn, so one action captures one result.  Bytes, ranges and hashes  *)
(* are abstracted: a job tells which of its parts it holds.                *)
(***************************************************************************)
EXTENDS Naturals, Sequences

VARIABLE rack        \* the jobs, in the order they were created

Job == [status : {"running", "settled", "failed"}, exact : BOOLEAN, projected : BOOLEAN]

RackInit == rack = <<>>

\* createJob()
Created == [status |-> "running", exact |-> FALSE, projected |-> FALSE]

\* What is sealed takes nothing any more.
Open(job) == job.status = "running"

\* appendOutputChunk() and addArtifact() of an open job, after which its exact
\* parts are there; a part over the ceiling is not stored and seals it failed.
Stored(job) == IF Open(job) THEN [job EXCEPT !.exact = TRUE] ELSE job
OverCeiling(job) == IF Open(job) THEN [job EXCEPT !.status = "failed"] ELSE job

\* appendJobStatus() with a terminal status
Sealed(job) == IF Open(job) THEN [job EXCEPT !.status = "settled"] ELSE job

\* createProjection() requires sealed terminal custody
Projected(job) == IF Open(job) THEN job ELSE [job EXCEPT !.projected = TRUE]

\* captureResult() went through: its result has the pointer of the new job.
Capture == rack' = Append(rack, Projected(Sealed(Stored(Created))))

\* captureResultSafely(): a stage was refused, the job stays where it got to, and
\* the result has no pointer.
LeftBehind == {Created, OverCeiling(Created), Stored(Created), Sealed(Stored(Created))}
CaptureFails == \E job \in LeftBehind : rack' = Append(rack, job)

\* The pointer the next capture will give
NextPointer == Len(rack) + 1

\* reopenProjection() and validateProjectionReceipt() for a pointer of this
\* lifespan: the projection is there, its job is sealed, and the exact parts it
\* was cut from still read back.  0 is no pointer.
Verified(pointer) ==
  /\ pointer \in DOMAIN rack
  /\ rack[pointer].projected /\ rack[pointer].exact
  /\ ~Open(rack[pointer])
=============================================================================
