-------------------------------- MODULE Kiln --------------------------------
(***************************************************************************)
(* The kiln: named recipes that run in the background.  Three records of   *)
(* one process have to agree: the overlay of the fixture in the World      *)
(* (world_fixture_runtime, durable), the Gateway's kilnRuns map            *)
(* (src/src/world/gateway.js) and the runner                               *)
(* (src/src/places/hub/workshop/recipes.js and sandbox-recipes.js).  The   *)
(* Resident's tools, the completion callback, the Hub's shutdown and the   *)
(* reset after a promotion all end runs.                                   *)
(*                                                                         *)
(* live tells which runner there is: RecipeRunner on the host (fake mode)  *)
(* or SandboxRecipeRunner over a Docker bay (live mode).  Every await is a *)
(* place where other steps may come in between.  Which recipe is run, its  *)
(* arguments and its output are left out; all runs are of one recipe.      *)
(***************************************************************************)
EXTENDS Naturals

CONSTANTS Run, NoRun      \* ids kiln runs may be given

ASSUME KilnAssumption == NoRun \notin Run

VARIABLES
  live,       \* config.mode = "live"
  overlay,    \* world_fixture_runtime of the kiln
  kilnRuns,   \* Gateway's map; phase "none" is a run that is not in it
  runner,     \* active token, closed flag, state of the sandbox job, last run finished
  child,      \* the process of each run, who asked for its end, and its result
  call,       \* the Resident's run or cancel tool, while it awaits
  closer      \* Gateway.close(), while it awaits

kilnVars == <<live, overlay, kilnRuns, runner, child, call, closer>>

Terminal == {"settled", "failed", "cancelled"}
Untracked == [phase |-> "none", owner |-> "nobody", queued |-> FALSE]
Fresh(phase) == [phase |-> phase, owner |-> "nobody", queued |-> FALSE]
Idle == [at |-> "idle", run |-> NoRun]
NewRunner == [active |-> NoRun, closed |-> FALSE, job |-> "none", last |-> NoRun]

KilnInit ==
  /\ live \in BOOLEAN
  /\ overlay = [status |-> "absent", run |-> NoRun]
  /\ kilnRuns = [r \in Run |-> Untracked]
  /\ runner = NewRunner
  /\ child = [r \in Run |-> [state |-> "none", cancelled |-> "no", result |-> "none"]]
  /\ call = Idle
  /\ closer = [at |-> "open", run |-> NoRun, active |-> FALSE]

\* reduceWorldEvent(fixture_runtime.replaced/v1): which transitions are installed.
From(action) ==
  CASE action = "recipe_started" -> {"absent"} \cup Terminal
    [] action \in {"recipe_cancelled", "hub_close_requested"} -> {"running"}
    [] OTHER -> {"running", "stopping"}
Installed(action, r) ==
  /\ overlay.status \in From(action)
  /\ action # "recipe_started" => overlay.run = r

\* noteKiln() outside a transaction of its caller: an event that is not
\* installed throws and leaves the overlay as it was.
Note(action, r, status) ==
  overlay' = IF Installed(action, r) THEN [status |-> status, run |-> r] ELSE overlay

\* Variant: a completion before the commit of the start is not kept.
Completion_Early(r, t, result) ==
  IF t.phase = "running" /\ t.owner = "nobody"
  THEN kilnRuns' = [kilnRuns EXCEPT ![r] = Untracked] /\ Note("recipe_completed", r, result)
  ELSE kilnRuns' = [kilnRuns EXCEPT ![r] = t] /\ UNCHANGED overlay

\* handleRecipeComplete() of run r, whose entry in the map is t.
Completion(r, t, result) ==
  \/ /\ t.phase \in {"none", "compensating"} \/ t.owner # "nobody"
     /\ kilnRuns' = [kilnRuns EXCEPT ![r] = t]
     /\ UNCHANGED overlay
  \/ /\ t.phase = "starting" /\ t.owner = "nobody"
     /\ kilnRuns' = [kilnRuns EXCEPT ![r] = [t EXCEPT !.queued = TRUE]]
     /\ UNCHANGED overlay
  \/ /\ t.phase = "running" /\ t.owner = "nobody"
     /\ kilnRuns' = [kilnRuns EXCEPT ![r] = Untracked]
     /\ Note("recipe_completed", r, result)

\* Somebody asks for the end of the active process: the token remembers who,
\* and a sandbox job takes no further execution.
Ending(why) ==
  /\ child' = [r \in Run |-> IF r = runner.active /\ child[r].state = "live"
                             THEN [child[r] EXCEPT !.cancelled = why] ELSE child[r]]

Spent(job) == IF job = "none" THEN "none" ELSE "spent"

\* The execution that was awaited, if any, has ended.
Over(r) == r # NoRun => child[r].state = "gone"

\* A promise that was awaited has settled: its continuation runs before any
\* other event, up to the end of the tool or of the close (the Docker bay
\* destroys its jobs synchronously).
ContinuationDue ==
  \/ call.at \in {"compensating", "cancelling"} /\ Over(call.run)
  \/ closer.at = "waiting" /\ Over(closer.run) /\ call.at # "provisioning"

-----------------------------------------------------------------------------
(* The Resident's tools *)

\* Variants: the busy check is missing; the last result is not forgotten.
RunRecipe_WhileBusy(r) ==
  /\ call = Idle
  /\ child[r].state = "none" /\ kilnRuns[r] = Untracked
  /\ ~live /\ ~runner.closed
  /\ kilnRuns' = [kilnRuns EXCEPT ![r] = Fresh("starting")]
  /\ runner' = [runner EXCEPT !.active = r, !.last = NoRun]
  /\ call' = [at |-> "launched", run |-> r]
  /\ child' = [child EXCEPT ![r].state = "live"]
  /\ UNCHANGED <<live, overlay, closer>>
RunRecipe_KeepsLastResult(r) ==
  /\ call = Idle
  /\ child[r].state = "none" /\ kilnRuns[r] = Untracked
  /\ ~live /\ ~runner.closed /\ runner.active = NoRun
  /\ kilnRuns' = [kilnRuns EXCEPT ![r] = Fresh("starting")]
  /\ runner' = [runner EXCEPT !.active = r]
  /\ call' = [at |-> "launched", run |-> r]
  /\ child' = [child EXCEPT ![r].state = "live"]
  /\ UNCHANGED <<live, overlay, closer>>

\* workshop_run_recipe up to the first await; the host runner has spawned by then.  A runner that is closed or busy
\* throws, and the run is discarded before anyone has seen it.
RunRecipe(r) ==
  /\ call = Idle
  /\ child[r].state = "none" /\ kilnRuns[r] = Untracked
  /\ \A q \in Run : q < r => child[q].state # "none"
  /\ ~runner.closed /\ runner.active = NoRun
  /\ kilnRuns' = [kilnRuns EXCEPT ![r] = Fresh("starting")]
  /\ runner' = [runner EXCEPT !.active = r, !.last = NoRun]
  /\ \/ /\ live
        /\ call' = [at |-> "provisioning", run |-> r]
        /\ child' = [child EXCEPT ![r].state = "spawning"]
     \/ /\ ~live
        /\ call' = [at |-> "launched", run |-> r]
        /\ child' = [child EXCEPT ![r].state = "live"]
  /\ UNCHANGED <<live, overlay, closer>>

\* The sandbox job exists (again) and executes.  A job that was cancelled or
\* killed refuses, and that is the run's result.
Launch(r) ==
  /\ call = [at |-> "provisioning", run |-> r]
  /\ ~runner.closed
  /\ runner' = [runner EXCEPT !.job = IF @ = "none" THEN "ready" ELSE @]
  /\ child' = [child EXCEPT ![r].state = "live"]
  /\ call' = [at |-> "launched", run |-> r]
  /\ UNCHANGED <<live, overlay, kilnRuns, closer>>

\* The bay cannot create the job, or the runner was closed in the meantime.
LaunchFails(r) ==
  /\ call = [at |-> "provisioning", run |-> r]
  /\ runner.closed \/ runner.job = "none"
  /\ runner' = [runner EXCEPT !.active = IF @ = r THEN NoRun ELSE @]
  /\ kilnRuns' = [kilnRuns EXCEPT ![r] = Untracked]
  /\ child' = [child EXCEPT ![r].state = "gone"]
  /\ call' = Idle
  /\ UNCHANGED <<live, overlay, closer>>

\* Variant: the two outcomes of the activation are swapped.
CommitStart_Swapped(r) ==
  /\ call = [at |-> "launched", run |-> r]
  /\ Installed("recipe_started", r)
  /\ overlay' = [status |-> IF kilnRuns[r].queued THEN "running" ELSE child[r].result, run |-> r]
  /\ kilnRuns' = [kilnRuns EXCEPT ![r] = IF kilnRuns[r].queued THEN Untracked ELSE [@ EXCEPT !.phase = "running"]]
  /\ call' = Idle
  /\ UNCHANGED <<live, runner, child, closer>>

\* commitOutcome() and activateKilnRun(): the overlay says running, and a
\* completion that came too early is delivered now.
CommitStart(r) ==
  /\ call = [at |-> "launched", run |-> r]
  /\ Installed("recipe_started", r)
  /\ kilnRuns[r].phase = "starting"
  /\ overlay' = [status |-> IF kilnRuns[r].queued THEN child[r].result ELSE "running", run |-> r]
  /\ kilnRuns' = [kilnRuns EXCEPT ![r] = IF kilnRuns[r].queued THEN Untracked ELSE [@ EXCEPT !.phase = "running"]]
  /\ call' = Idle
  /\ UNCHANGED <<live, runner, child, closer>>

\* The World refuses the commit or custody fails; compensateRecipeStart()
\* takes the run over and asks for its end.
CommitStartFails(r) ==
  /\ call = [at |-> "launched", run |-> r]
  /\ kilnRuns' = [kilnRuns EXCEPT ![r] = [phase |-> "compensating", owner |-> "start_compensation", queued |-> FALSE]]
  /\ Ending("commit")
  /\ runner' = [runner EXCEPT !.job = IF runner.active = NoRun THEN @ ELSE Spent(@)]
  /\ call' = [at |-> "compensating", run |-> r]
  /\ UNCHANGED <<live, overlay, closer>>

Compensated(r) ==
  /\ call = [at |-> "compensating", run |-> r]
  /\ Over(r)
  /\ kilnRuns' = [kilnRuns EXCEPT ![r] = Untracked]
  /\ call' = Idle
  /\ UNCHANGED <<live, overlay, runner, child, closer>>

\* cancelKilnRunCommand() up to its await.  The runner may have nothing to
\* cancel, and on the host the signal may not be delivered.
RequestCancel ==
  /\ call = Idle
  /\ overlay.status = "running"
  /\ LET r == overlay.run
         tracked == IF kilnRuns[r].phase = "none" THEN Fresh("running") ELSE kilnRuns[r]
     IN \/ /\ runner.active # NoRun
           /\ kilnRuns' = [kilnRuns EXCEPT ![r] = [tracked EXCEPT !.owner = "resident_cancel"]]
           /\ Ending("tool")
           /\ runner' = [runner EXCEPT !.job = Spent(@)]
           /\ call' = [at |-> "cancelling", run |-> r]
        \/ /\ runner.active = NoRun \/ ~live
           /\ kilnRuns' = [kilnRuns EXCEPT ![r] = [tracked EXCEPT !.owner = "nobody"]]
           /\ UNCHANGED <<runner, child, call>>
  /\ UNCHANGED <<live, overlay, closer>>

\* Variant: the end of the run is not noted.
CancelSettles_Unnoted ==
  /\ call.at = "cancelling"
  /\ Over(call.run)
  /\ kilnRuns' = [kilnRuns EXCEPT ![call.run] = Untracked]
  /\ call' = Idle
  /\ UNCHANGED <<live, overlay, runner, child, closer>>

\* The process has ended: "recipe_cancelled" is the Resident's own event; if
\* the World refuses it, the runtime notes the end in its own name.
CancelSettles ==
  /\ call.at = "cancelling"
  /\ Over(call.run)
  /\ \/ Installed("recipe_cancelled", call.run) /\ Note("recipe_cancelled", call.run, "cancelled")
     \/ Note("recipe_runtime_cancelled", call.run, "cancelled")
  /\ kilnRuns' = [kilnRuns EXCEPT ![call.run] = Untracked]
  /\ call' = Idle
  /\ UNCHANGED <<live, runner, child, closer>>

-----------------------------------------------------------------------------
(* The process *)

\* The timer of the runner: on the host it signals the process tree, in a
\* sandbox it kills the container.
TimeOut(r) ==
  /\ child[r].state = "live" /\ child[r].cancelled = "no"
  /\ child' = [child EXCEPT ![r].cancelled = "timeout"]
  /\ runner' = [runner EXCEPT !.job = Spent(@)]
  /\ UNCHANGED <<live, overlay, kilnRuns, call, closer>>

\* finish(), or the tail of token.promise: the result is known, the callback
\* is called unless the sandbox runner is closed, and the token is let go.  Before
\* the commit of its start only an execution that could not begin has ended.
ChildEnds(r) ==
  /\ child[r].state = "live"
  /\ \E result \in Terminal :
       /\ IF child[r].cancelled # "no" THEN result = "cancelled"
          ELSE result = "failed" \/ (result = "settled" /\ runner.job # "spent" /\ call.at # "launched")
       /\ child' = [child EXCEPT ![r].state = "gone", ![r].result = result]
       /\ IF live /\ runner.closed THEN UNCHANGED <<overlay, kilnRuns>> ELSE Completion(r, kilnRuns[r], result)
  /\ runner' = [runner EXCEPT !.active = IF @ = r THEN NoRun ELSE @, !.last = r]
  /\ UNCHANGED <<live, call, closer>>

-----------------------------------------------------------------------------
(* Shutdown, reset after a promotion, restart *)

\* SandboxRecipeRunner.close(), where destroy() and reset() begin.
CloseRunner(why) ==
  /\ runner' = [runner EXCEPT !.closed = TRUE,
                  !.job = IF runner.closed \/ runner.active = NoRun THEN @ ELSE Spent(@)]
  /\ IF runner.closed THEN UNCHANGED child ELSE Ending(why)

\* The execution that destroy() awaits; one that is provisioning has no promise yet.
Executing == IF runner.active # NoRun /\ child[runner.active].state = "live" THEN runner.active ELSE NoRun

\* Gateway.close() up to its await.
RequestClose ==
  /\ closer.at = "open"
  /\ LET active == overlay.status \in {"running", "stopping"}
     IN /\ kilnRuns' = IF active /\ kilnRuns[overlay.run].phase # "none"
                       THEN [kilnRuns EXCEPT ![overlay.run].owner = "hub_close"] ELSE kilnRuns
        /\ overlay' = IF overlay.status = "running" THEN [overlay EXCEPT !.status = "stopping"] ELSE overlay
        /\ \/ live /\ CloseRunner("close") /\ closer' = [at |-> "waiting", run |-> Executing, active |-> active]
           \/ ~live /\ Ending("close") /\ UNCHANGED runner
              /\ closer' = [at |-> "waiting", run |-> Executing, active |-> active]
           \/ ~live /\ UNCHANGED <<runner, child>>
              /\ closer' = [at |-> "waiting", run |-> NoRun, active |-> active]
  /\ UNCHANGED <<live, call>>

\* Variant: the result is read before the await.
CloseSettles_ResultBeforeAwait ==
  /\ closer.at = "waiting"
  /\ Over(closer.run)
  /\ call.at # "provisioning"
  /\ closer' = [closer EXCEPT !.at = "closed"]
  /\ runner' = [runner EXCEPT !.job = "none"]
  /\ UNCHANGED <<live, overlay, kilnRuns, child, call>>

\* The awaited execution ended and the job was destroyed.  If the overlay was
\* active when the close began, the last result known to the runner ends it;
\* the World refuses if somebody else has ended it in the meantime.
CloseSettles ==
  /\ closer.at = "waiting"
  /\ Over(closer.run)
  /\ call.at # "provisioning"
  /\ LET known == closer.active /\ runner.last # NoRun
         result == child[runner.last].result
     IN /\ IF known THEN Note("hub_closed", overlay.run, result) ELSE UNCHANGED overlay
        /\ kilnRuns' = IF known /\ Installed("hub_closed", overlay.run)
                       THEN [kilnRuns EXCEPT ![overlay.run] = Untracked] ELSE kilnRuns
        /\ closer' = [closer EXCEPT !.at = IF known /\ ~Installed("hub_closed", overlay.run) THEN "failed" ELSE "closed"]
  /\ runner' = [runner EXCEPT !.job = "none"]
  /\ UNCHANGED <<live, child, call>>

\* destroy() throws: the overlay stays "stopping", for the next startup to see.
CloseFails ==
  /\ closer.at = "waiting"
  /\ Over(closer.run)
  /\ live /\ call.at # "provisioning" /\ runner.job # "none"
  /\ closer' = [closer EXCEPT !.at = "failed"]
  /\ UNCHANGED <<live, overlay, kilnRuns, runner, child, call>>

\* SandboxRecipeRunner.reset() after its destroy() has settled.
ResetRunner ==
  /\ runner' = [runner EXCEPT !.closed = FALSE, !.active = NoRun, !.job = "none"]
  /\ UNCHANGED <<live, overlay, kilnRuns, child, call, closer>>

\* The process of the Hub dies; what its recipes do then is their own affair.
KilnCrash ==
  /\ kilnRuns' = [r \in Run |-> Untracked]
  /\ runner' = NewRunner
  /\ child' = [r \in Run |-> IF child[r].state \in {"live", "spawning"}
                             THEN [state |-> "gone", cancelled |-> "restart", result |-> "cancelled"] ELSE child[r]]
  /\ call' = Idle
  /\ closer' = [at |-> "open", run |-> NoRun, active |-> FALSE]
  /\ UNCHANGED <<live, overlay>>

\* reconcileStartup()
ReconcileKiln ==
  /\ overlay' = IF overlay.status \in {"running", "stopping"} THEN [overlay EXCEPT !.status = "cancelled"] ELSE overlay
  /\ UNCHANGED <<live, kilnRuns, runner, child, call, closer>>

-----------------------------------------------------------------------------
KilnTypeOK ==
  /\ live \in BOOLEAN
  /\ overlay \in [status : {"absent", "running", "stopping"} \cup Terminal, run : Run \cup {NoRun}]
  /\ kilnRuns \in [Run -> [phase : {"none", "starting", "running", "compensating"},
                           owner : {"nobody", "start_compensation", "resident_cancel", "hub_close"},
                           queued : BOOLEAN]]
  /\ runner \in [active : Run \cup {NoRun}, closed : BOOLEAN, job : {"none", "ready", "spent"}, last : Run \cup {NoRun}]
  /\ child \in [Run -> [state : {"none", "spawning", "live", "gone"},
                        cancelled : {"no", "tool", "timeout", "commit", "close", "reset", "restart"},
                        result : {"none"} \cup Terminal]]
  /\ call \in [at : {"idle", "provisioning", "launched", "compensating", "cancelling"}, run : Run \cup {NoRun}]
  /\ closer \in [at : {"open", "waiting", "closed", "failed"}, run : Run \cup {NoRun}, active : BOOLEAN]
=============================================================================
