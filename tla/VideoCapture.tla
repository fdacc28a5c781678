---------------------------- MODULE VideoCapture ----------------------------
(***************************************************************************)
(* The capture of the target's screen (video.py): one supervisor task runs   *)
(* a v4l2-ctl process and starts another when it fails; select_mode takes    *)
(* the supervisor down, tries a new mode and falls back to the one before;   *)
(* stop ends it all.  Whoever takes a process down waits for its end and     *)
(* kills it when it is overdue, unless it is itself cancelled while waiting. *)
(***************************************************************************)
EXTENDS Integers, FiniteSets

CONSTANTS
  Modes,        \* the validated profiles
  Default,      \* config.default_profile
  None,
  Pids,         \* v4l2-ctl processes that can be alive at a time
  MaxSessions   \* bound: sessions committed, the generation

ASSUME CaptureAssumption ==
  /\ Default \in Modes /\ None \notin Modes \cup Pids
  /\ IsFiniteSet(Pids) /\ MaxSessions \in Nat

VARIABLES
  state,      \* _state
  active,     \* _active_profile
  desired,    \* _desired_profile
  generation, \* _generation
  latest,     \* _latest: the generation, the mode and whether it is recent
  task,       \* the supervisor, and whether _task refers to it
  process,    \* _process
  live, told, \* the processes alive, and those of them sent a SIGTERM
  switch,     \* the select_mode that holds _switch_lock
  stopper,    \* stop()
  proven      \* history: the modes that were ever negotiated

vars == <<state, active, desired, generation, latest, task, process, live, told,
          switch, stopper, proven>>
frames    == <<state, active, generation, latest>>
processes == <<process, live, told>>

NoFrame == [generation |-> 0, mode |-> None, recent |-> FALSE]
NoTask  == [step |-> "none", mode |-> None, success |-> "ready", then |-> "end",
            pid |-> None, held |-> FALSE, dying |-> FALSE]
NoSwitch == [step |-> "idle", stage |-> "switch", mode |-> None, previous |-> None,
             pid |-> None, took |-> FALSE, promise |-> "none"]

Init ==
  /\ state = "stopped" /\ active = None /\ desired = Default
  /\ generation = 0 /\ latest = NoFrame
  /\ task = NoTask /\ process = None /\ live = {} /\ told = {}
  /\ switch = NoSwitch
  /\ stopper = [step |-> "no", pid |-> None, took |-> FALSE]
  /\ proven = {}

Stopping == stopper.step # "no"

Ready ==
  /\ state \in {"ready", "rolled_back"}
  /\ latest # NoFrame /\ latest.generation = generation /\ latest.recent

(* _invalidate_frames *)
Invalidate(s) ==
  /\ state' = s /\ active' = None /\ latest' = NoFrame
  /\ UNCHANGED generation

-----------------------------------------------------------------------------
(* _terminate_process, up to its wait: takes the process and asks it to end. *)
Ask == process' = None /\ told' = told \cup ({process} \cap live) /\ UNCHANGED live

(* The rest of the wait: the process has ended, or is overdue and killed. *)
Reaped(pid) ==
  /\ live' = live \ {pid} /\ told' = told \ {pid}
  /\ UNCHANGED process

(* _cancel_capture_task, up to its gather. *)
Cancelled(t) == [t EXCEPT !.held = FALSE, !.dying = @ \/ (t.held /\ t.step # "ended")]

(* _start_supervisor.  Once stop() has begun a supervisor returns at once. *)
Supervisor(mode, success) ==
  IF Stopping THEN task
  ELSE [NoTask EXCEPT !.step = "spawn", !.mode = mode, !.success = success, !.held = TRUE]

Start ==
  /\ task.step = "none" /\ ~Stopping
  /\ state' = "starting"
  /\ task' = Supervisor(desired, "ready")
  /\ UNCHANGED <<active, desired, generation, latest, processes, switch, stopper, proven>>

-----------------------------------------------------------------------------
(* _supervise and _capture_once. *)
Goes(step) == task.step = step /\ ~task.dying

Spawn ==
  /\ Goes("spawn")
  /\ \E p \in Pids \ live :
       /\ task' = [task EXCEPT !.step = "probing"]
       /\ process' = p /\ live' = live \cup {p}
  /\ UNCHANGED <<frames, desired, told, switch, stopper, proven>>

(* The first frame has the size asked for and so has the mode in force. *)
Commit ==
  /\ Goes("probing") /\ generation < MaxSessions
  /\ generation' = generation + 1 /\ active' = task.mode /\ state' = task.success
  /\ latest' = [generation |-> generation + 1, mode |-> task.mode, recent |-> TRUE]
  /\ proven' = proven \cup {task.mode}
  /\ task' = [task EXCEPT !.step = "streaming"]
  /\ switch' = [switch EXCEPT !.promise = IF @ = "pending" THEN "set" ELSE @]
  /\ UNCHANGED <<desired, processes, stopper>>

Publish ==
  /\ Goes("streaming") /\ active = task.mode
  /\ latest' = [generation |-> generation, mode |-> task.mode, recent |-> TRUE]
  /\ UNCHANGED <<state, active, desired, generation, task, processes, switch, stopper, proven>>

(* stale_seconds pass without a frame. *)
Ages ==
  /\ latest.recent
  /\ latest' = [latest EXCEPT !.recent = FALSE]
  /\ UNCHANGED <<state, active, desired, generation, task, processes, switch, stopper, proven>>

(* The finally of _supervise. *)
Finally(then) ==
  /\ task' = [task EXCEPT !.step = "reaping", !.then = then, !.pid = process, !.dying = FALSE]
  /\ Ask

(* VideoNegotiationError: the capture stays down until a mode is selected. *)
NegotiationFails ==
  /\ Goes("probing") \/ Goes("streaming")
  /\ Invalidate("degraded")
  /\ Finally("end")
  /\ switch' = [switch EXCEPT !.promise = IF @ = "pending" THEN "failed" ELSE @]
  /\ UNCHANGED <<desired, stopper, proven>>

(* v4l2-ctl ended, could not be started, or sends nothing for too long. *)
CaptureFails ==
  /\ Goes("probing") \/ Goes("streaming")
  /\ Invalidate("reconnecting")
  /\ Finally("sleep")
  /\ UNCHANGED <<desired, switch, stopper, proven>>

TaskReaps ==
  /\ Goes("reaping")
  /\ Reaped(task.pid)
  /\ task' = [task EXCEPT !.step = IF task.then = "end" \/ Stopping THEN "ended" ELSE "sleeping",
                          !.pid = None]
  /\ UNCHANGED <<frames, desired, switch, stopper, proven>>

Wakes ==
  /\ Goes("sleeping")
  /\ task' = [task EXCEPT !.step = "spawn"]
  /\ UNCHANGED <<frames, desired, processes, switch, stopper, proven>>

(* CancelledError reaches the supervisor: in the middle of a capture it takes *)
(* the process down first, anywhere else, its own wait for a process included,*)
(* it just ends.                                                             *)
TaskDies ==
  /\ task.dying
  /\ IF task.step \in {"probing", "streaming"}
     THEN Finally("end")
     ELSE /\ task' = [task EXCEPT !.step = "ended", !.pid = None, !.dying = FALSE]
          /\ UNCHANGED processes
  /\ UNCHANGED <<frames, desired, switch, stopper, proven>>

ProcessEnds ==
  /\ \E p \in live : live' = live \ {p} /\ told' = told \ {p}
  /\ UNCHANGED <<frames, desired, task, process, switch, stopper, proven>>

-----------------------------------------------------------------------------
(* select_mode, for a client that has seen the present generation. *)
Cancel(stage) ==
  /\ switch' = [switch EXCEPT !.stage = stage, !.step = "gather", !.took = task.held,
                              !.promise = "none"]
  /\ task' = Cancelled(task)

SelectActive(mode) ==
  /\ switch.step = "idle" /\ task.step # "none"
  /\ Ready /\ active = mode
  /\ desired' = mode /\ state' = "ready"
  /\ UNCHANGED <<active, generation, latest, task, processes, switch, stopper, proven>>

Select(mode) ==
  /\ switch.step = "idle" /\ task.step # "none"
  /\ ~(Ready /\ active = mode)
  /\ switch' = [NoSwitch EXCEPT
                  !.step = "gather", !.mode = mode, !.took = task.held,
                  !.previous = IF active # None THEN active ELSE desired]
  /\ task' = Cancelled(task)
  /\ desired' = mode /\ state' = "switching"
  /\ UNCHANGED <<active, generation, latest, processes, stopper, proven>>

(* The supervisor that was cancelled has ended. *)
Gathered ==
  /\ switch.step = "gather" /\ (switch.took => task.step = "ended")
  /\ switch' = [switch EXCEPT !.step = "reap", !.pid = process]
  /\ Ask
  /\ UNCHANGED <<frames, desired, task, stopper, proven>>

Begin(mode, success) ==
  /\ Invalidate("switching")
  /\ task' = Supervisor(mode, success)
  /\ switch' = [switch EXCEPT !.step = "await", !.pid = None, !.promise = "pending"]

(* Defect: the end of a switch does not settle the public state. *)
EndOpen(s) == Invalidate("switching") /\ switch' = NoSwitch /\ UNCHANGED task

End(s) == Invalidate(s) /\ switch' = NoSwitch /\ UNCHANGED task

(* Defect: the mode that failed stays the desired one. *)
ContinueForgets ==
  \/ switch.stage = "switch"   /\ Begin(switch.mode, "ready") /\ UNCHANGED desired
  \/ switch.stage = "rollback" /\ Begin(switch.previous, "rolled_back") /\ UNCHANGED desired
  \/ switch.stage = "failed"   /\ End("degraded") /\ UNCHANGED desired
  \/ switch.stage = "stopping" /\ End("stopped") /\ UNCHANGED desired

(* What follows once _cancel_capture_task returns. *)
Continue ==
  \/ switch.stage = "switch"   /\ Begin(switch.mode, "ready") /\ UNCHANGED desired
  \/ switch.stage = "rollback" /\ Begin(switch.previous, "rolled_back")
                               /\ desired' = switch.previous
  \/ switch.stage = "failed"   /\ End("degraded") /\ UNCHANGED desired
  \/ switch.stage = "stopping" /\ End("stopped") /\ UNCHANGED desired

SwitchReaps ==
  /\ switch.step = "reap"
  /\ Reaped(switch.pid)
  /\ Continue
  /\ UNCHANGED <<stopper, proven>>

(* _wait_for_transition *)
TransitionDone ==
  /\ switch.step = "await" /\ switch.promise = "set"
  /\ switch' = NoSwitch
  /\ UNCHANGED <<frames, desired, task, processes, stopper, proven>>

(* Defect: no timeout. *)
TransitionWaits ==
  /\ switch.step = "await" /\ switch.promise = "failed"
  /\ Cancel(IF switch.stage = "switch" THEN "rollback" ELSE "failed")
  /\ UNCHANGED <<frames, desired, processes, stopper, proven>>

(* The capture was refused, or switch_timeout_seconds have passed. *)
TransitionFails ==
  /\ switch.step = "await" /\ switch.promise \in {"failed", "pending"}
  /\ Cancel(IF switch.stage = "switch" THEN "rollback" ELSE "failed")
  /\ UNCHANGED <<frames, desired, processes, stopper, proven>>

TransitionStops ==
  /\ switch.step = "await" /\ Stopping
  /\ Cancel("stopping")
  /\ UNCHANGED <<frames, desired, processes, stopper, proven>>

-----------------------------------------------------------------------------
(* Defect: the supervisor is left to find out by itself. *)
StopUncancelled ==
  /\ stopper.step = "no" /\ task.step # "none"
  /\ stopper' = [step |-> "gather", pid |-> None, took |-> FALSE]
  /\ UNCHANGED <<frames, desired, task, processes, switch, proven>>

(* stop *)
Stop ==
  /\ stopper.step = "no" /\ task.step # "none"
  /\ stopper' = [step |-> "gather", pid |-> None, took |-> task.held]
  /\ task' = Cancelled(task)
  /\ UNCHANGED <<frames, desired, processes, switch, proven>>

StopGathered ==
  /\ stopper.step = "gather" /\ (stopper.took => task.step = "ended")
  /\ stopper' = [stopper EXCEPT !.step = "reap", !.pid = process]
  /\ Ask
  /\ UNCHANGED <<frames, desired, task, switch, proven>>

StopReaps ==
  /\ stopper.step = "reap"
  /\ Reaped(stopper.pid)
  /\ Invalidate("stopped")
  /\ stopper' = [stopper EXCEPT !.step = "done", !.pid = None]
  /\ UNCHANGED <<desired, task, switch, proven>>

-----------------------------------------------------------------------------
Supervise == Spawn \/ Commit \/ TaskReaps \/ Wakes \/ TaskDies
Switching == Gathered \/ SwitchReaps \/ TransitionDone \/ TransitionFails \/ TransitionStops
Ending    == StopGathered \/ StopReaps

Next ==
  \/ Start \/ Supervise \/ Publish \/ Ages \/ NegotiationFails \/ CaptureFails
  \/ ProcessEnds
  \/ \E mode \in Modes : SelectActive(mode) \/ Select(mode)
  \/ Switching \/ Stop \/ Ending

Spec == Init /\ [][Next]_vars

(* Every coroutine is run on, and its timeouts expire. *)
FairSpec ==
  Spec /\ WF_vars(TaskReaps) /\ WF_vars(TaskDies) /\ WF_vars(Switching) /\ WF_vars(Ending)

-----------------------------------------------------------------------------
(* The variables have their types. *)
TypeOK ==
  /\ state \in {"stopped", "starting", "ready", "rolled_back", "switching",
                "degraded", "reconnecting"}
  /\ active \in Modes \cup {None} /\ desired \in Modes
  /\ generation \in 0..MaxSessions /\ latest.generation \in 0..generation
  /\ process \in Pids \cup {None} /\ live \subseteq Pids /\ told \subseteq live
  /\ switch.step \in {"idle", "gather", "reap", "await"}
  /\ task.step \in {"none", "spawn", "probing", "streaming", "reaping", "sleeping", "ended"}

(* A frame that is served as ready comes from the mode that is said to be in *)
(* force, and from a capture that is still running in that mode              *)
(* (video.py:240-247, 491-497, 607-622).                                     *)
ShownIsActive ==
  Ready /\ ~Stopping =>
    /\ latest.mode = active
    /\ task.step = "streaming" /\ task.mode = active /\ ~task.dying

(* The public state says switching only while a switch is on its way, which   *)
(* is what clients disable their mode actions by (video.py:401-403).         *)
SwitchingIsReal == state = "switching" => switch.step # "idle"

(* Of all processes alive, at most one was not yet asked to end: no switch,   *)
(* retry or stop leaves an unattended capture behind (video.py:470-476, 707). *)
OneUnasked == Cardinality(live \ told) <= 1

(* The type invariant, with what the status document claims: the mode in force *)
(* is the one that is shown, a switch is under way when it says so, and no     *)
(* other capture was left to itself.                                          *)
Consistent == TypeOK /\ ShownIsActive /\ SwitchingIsReal /\ OneUnasked

(* "Own exactly one streaming V4L2 process": at most one is alive.           *)
(* (video.py:208-209).                                                       *)
OneProcess == Cardinality(live) <= 1

(* What a failed switch falls back to was negotiated at some time, or is the  *)
(* default: a mode that was only asked for never becomes the fallback         *)
(* (video.py:371-375, 400).                                                  *)
FallbackProven ==
  switch.step = "idle" /\ ~Stopping => desired \in proven \cup {Default}

(* When stop() has returned, nothing is captured and nothing is shown, whatever *)
(* a switch that it interrupted still does (video.py:313-316, 386-389, 412-415). *)
StopIsFinal ==
  stopper.step = "done" =>
    /\ ~Ready /\ active = None
    /\ live \subseteq told

(* Every switch ends, in the new mode, in the old one or degraded, and stop() *)
(* returns: a capture that neither answers nor fails is given up              *)
(* (video.py:313-316, 436-455).                                              *)
SwitchSettles == switch.step # "idle" ~> switch.step = "idle"
StopReturns   == Stopping ~> stopper.step = "done"
AllSettles    == SwitchSettles /\ StopReturns
=============================================================================
