-------------------------- MODULE VideoCaptureProofs --------------------------
(***************************************************************************)
(* Theorems about VideoCapture, for any set of modes, any number of v4l2-ctl *)
(* processes and any number of sessions.                                    *)
(***************************************************************************)
EXTENDS VideoCapture, FiniteSetTheorems, TLAPS

Tasks    == [step : {"none", "spawn", "probing", "streaming", "reaping", "sleeping", "ended"},
             mode : Modes \cup {None}, success : {"ready", "rolled_back"},
             then : {"end", "sleep"}, pid : Pids \cup {None},
             held : BOOLEAN, dying : BOOLEAN]
Switches == [step : {"idle", "gather", "reap", "await"},
             stage : {"switch", "rollback", "failed", "stopping"},
             mode : Modes \cup {None}, previous : Modes \cup {None},
             pid : Pids \cup {None}, took : BOOLEAN,
             promise : {"none", "pending", "set", "failed"}]
Stoppers == [step : {"no", "gather", "reap", "done"}, pid : Pids \cup {None}, took : BOOLEAN]
Frames   == [generation : Nat, mode : Modes \cup {None}, recent : BOOLEAN]

Typed ==
  /\ TypeOK
  /\ task \in Tasks /\ switch \in Switches /\ stopper \in Stoppers /\ latest \in Frames
  /\ proven \subseteq Modes
  /\ task.step # "none" => task.mode \in Modes
  /\ switch.step # "idle" =>
       task.step # "none" /\ switch.mode \in Modes /\ switch.previous \in Modes

(* The process in hand is that of a running supervisor, and every other one
   was asked to end. *)
Owned ==
  /\ process # None => task.step \in {"probing", "streaming"}
  /\ live \ told \subseteq {process}

(* A supervisor nobody refers to any more is on its way out. *)
Doomed == task.dying \/ task.step = "ended" \/ (task.step = "reaping" /\ task.then = "end")
Taken ==
  /\ task.dying => ~task.held /\ task.step # "none"
  /\ task.step # "none" /\ ~task.held => Doomed
  /\ Stopping => ~task.held /\ task.step # "none"

(* Who took the supervisor down waits for its end before there is a new one. *)
Handed ==
  ~Stopping =>
    /\ switch.step = "gather" => ~task.held /\ (switch.took \/ task.step = "ended")
    /\ switch.step = "reap" => ~task.held /\ task.step = "ended"
    /\ switch.step = "await" => task.held
    /\ switch.step = "idle" => task.held \/ task.step \in {"none", "ended"}

(* The transition event, and what it says of the supervisor. *)
Promised ==
  /\ switch.promise # "none" <=> switch.step = "await"
  /\ switch.promise = "set" => state # "switching"
  /\ switch.promise = "failed" =>
       task.step = "ended" \/ (task.step = "reaping" /\ task.then = "end")

(* The public state says that frames are served. *)
Served ==
  ~Stopping /\ state \in {"ready", "rolled_back"} =>
    /\ task.step = "streaming" /\ ~task.dying
    /\ task.mode = active /\ latest.mode = active
    /\ switch.promise \in {"none", "set"} /\ switch.step \in {"idle", "await"}

(* The modes that a switch goes through. *)
Proven == proven \cup {Default}
Chosen ==
  /\ active # None => active \in proven
  /\ switch.stage = "stopping" => Stopping
  /\ ~Stopping =>
       /\ switch.step = "idle" => desired \in Proven
       /\ switch.step # "idle" => switch.previous \in Proven
       /\ switch.step # "idle" /\ switch.stage = "switch" => desired = switch.mode
       /\ switch.step = "await" /\ switch.stage = "switch" =>
            /\ task.mode = switch.mode
            /\ switch.promise = "set" => switch.mode \in proven
       /\ \/ switch.stage = "failed"
          \/ switch.stage = "rollback" /\ switch.step = "await"
          => desired = switch.previous
  /\ switch.stage # "switch" => switch.step # "idle"

(* stop() has let go of the process, then of the picture. *)
Stopped ==
  /\ stopper.step \in {"reap", "done"} => process = None
  /\ stopper.step = "done" => active = None /\ latest = NoFrame

IInv == /\ Typed /\ Owned /\ Taken /\ Handed /\ Promised /\ Served /\ SwitchingIsReal
        /\ Chosen /\ Stopped

-----------------------------------------------------------------------------
(* Every action keeps the invariant: the supervisor and its process. *)

LEMMA StartKeeps ==
  ASSUME IInv, Start
  PROVE  IInv'
<1> USE CaptureAssumption DEF IInv, Start, Stopping, Supervisor, NoTask, processes
<1>1. Typed'
  <2>1. task' \in Tasks
    BY DEF Typed, TypeOK, Tasks, Switches, Stoppers, Frames
  <2>2. TypeOK'
    BY DEF Typed, TypeOK, Tasks, Switches, Stoppers, Frames
  <2> QED
    BY <2>1, <2>2 DEF Typed, TypeOK, Tasks, Switches, Stoppers, Frames
<1>2. Owned'
  BY DEF Owned
<1>3. Taken'
  BY DEF Taken, Doomed
<1>4. Handed'
  BY DEF Handed, Typed, TypeOK, Tasks, Switches, Stoppers, Frames
<1>5. Promised'
  BY DEF Promised
<1>6. Served'
  BY DEF Served
<1>7. SwitchingIsReal'
  BY DEF SwitchingIsReal
<1>8. Chosen'
  BY DEF Chosen, Proven
<1>9. Stopped'
  BY DEF Stopped
<1> QED
  BY <1>1, <1>2, <1>3, <1>4, <1>5, <1>6, <1>7, <1>8, <1>9 DEF IInv

LEMMA SpawnKeeps ==
  ASSUME IInv, Spawn
  PROVE  IInv'
<1> USE CaptureAssumption DEF IInv, Spawn, Goes, frames, Stopping
<1>1. Typed'
  BY DEF Typed, TypeOK, Tasks, Switches, Stoppers, Frames
<1>2. Owned'
  BY DEF Owned, Typed, TypeOK, Tasks, Switches, Stoppers, Frames
<1>3. Taken'
  BY DEF Taken, Doomed
<1>4. Handed'
  BY DEF Handed
<1>5. Promised'
  BY DEF Promised
<1>6. Served'
  BY DEF Served
<1>7. Chosen'
  BY DEF Chosen, Proven
<1>8. Stopped'
  BY DEF Stopped, Typed, TypeOK, Tasks, Switches, Stoppers, Frames, Taken, Doomed, Handed
<1>9. SwitchingIsReal'
  BY DEF SwitchingIsReal
<1> QED
  BY <1>1, <1>2, <1>3, <1>4, <1>5, <1>6, <1>7, <1>8, <1>9 DEF IInv

LEMMA CommitKeeps ==
  ASSUME IInv, Commit
  PROVE  IInv'
<1> USE CaptureAssumption DEF IInv, Commit, Goes, processes, Stopping
<1>1. Typed'
  BY DEF Typed, TypeOK, Tasks, Switches, Stoppers, Frames
<1>2. Owned'
  BY DEF Owned
<1>3. Taken'
  BY DEF Taken, Doomed
<1>4. Handed'
  BY DEF Handed
<1>5. Promised'
  BY DEF Promised, Typed, TypeOK, Tasks, Switches, Stoppers, Frames
<1>6. Served'
  BY DEF Served, Typed, TypeOK, Tasks, Switches, Stoppers, Frames, Taken, Doomed, Handed,
       Owned, Promised, SwitchingIsReal, Chosen, Proven, Stopped
<1>7. SwitchingIsReal'
  BY DEF SwitchingIsReal, Typed, TypeOK, Tasks, Switches, Stoppers, Frames
<1>8. Chosen'
  BY DEF Chosen, Proven
<1>9. Stopped'
  BY DEF Stopped, Typed, TypeOK, Tasks, Switches, Stoppers, Frames, Taken, Doomed, Handed
<1> QED
  BY <1>1, <1>2, <1>3, <1>4, <1>5, <1>6, <1>7, <1>8, <1>9 DEF IInv

LEMMA PublishKeeps ==
  ASSUME IInv, Publish
  PROVE  IInv'
<1> USE CaptureAssumption DEF IInv, Publish, Goes, processes, Stopping
<1>1. Typed'
  BY DEF Typed, TypeOK, Tasks, Switches, Stoppers, Frames
<1>2. Served'
  BY DEF Served
<1>3. Stopped'
  BY DEF Stopped, Typed, TypeOK, Tasks, Switches, Stoppers, Frames
<1>4. Owned' /\ Taken' /\ Handed' /\ Promised' /\ SwitchingIsReal' /\ Chosen'
  BY DEF Owned, Taken, Doomed, Handed, Promised, SwitchingIsReal, Chosen, Proven
<1> QED
  BY <1>1, <1>2, <1>3, <1>4 DEF IInv

LEMMA AgesKeeps ==
  ASSUME IInv, Ages
  PROVE  IInv'
<1> USE CaptureAssumption DEF IInv, Ages, processes, Stopping
<1>1. Typed'
  <2>1. latest' \in Frames
    BY DEF Typed, TypeOK, Tasks, Switches, Stoppers, Frames
  <2>2. TypeOK'
    BY DEF Typed, TypeOK, Tasks, Switches, Stoppers, Frames
  <2> QED
    BY <2>1, <2>2 DEF Typed, TypeOK, Tasks, Switches, Stoppers, Frames
<1>2. Served'
  BY DEF Served
<1>3. Stopped'
  BY DEF Stopped, NoFrame
<1>4. Owned' /\ Taken' /\ Handed' /\ Promised' /\ SwitchingIsReal' /\ Chosen'
  BY DEF Owned, Taken, Doomed, Handed, Promised, SwitchingIsReal, Chosen, Proven
<1> QED
  BY <1>1, <1>2, <1>3, <1>4 DEF IInv

LEMMA NegotiationFailsKeeps ==
  ASSUME IInv, NegotiationFails
  PROVE  IInv'
<1> USE CaptureAssumption DEF IInv, NegotiationFails, Invalidate, Ask, Goes, Finally,
     NoFrame, Stopping
<1>1. Typed'
  <2>1. task' \in Tasks
    BY DEF Typed, TypeOK, Tasks, Switches, Stoppers, Frames
  <2>2. switch' \in Switches
    BY DEF Typed, TypeOK, Tasks, Switches, Stoppers, Frames
  <2>3. latest' \in Frames
    BY DEF Typed, TypeOK, Tasks, Switches, Stoppers, Frames
  <2>4. TypeOK'
    BY DEF Typed, TypeOK, Tasks, Switches, Stoppers, Frames
  <2> QED
    BY <2>1, <2>2, <2>3, <2>4 DEF Typed, TypeOK, Tasks, Switches, Stoppers, Frames
<1>2. Owned'
  BY DEF Owned
<1>3. Taken'
  BY DEF Taken, Doomed
<1>4. Handed'
  BY DEF Handed
<1>5. Promised'
  BY DEF Promised
<1>6. Served'
  BY DEF Served
<1>7. SwitchingIsReal'
  BY DEF SwitchingIsReal
<1>8. Chosen'
  BY DEF Chosen, Proven
<1>9. Stopped'
  BY DEF Stopped
<1> QED
  BY <1>1, <1>2, <1>3, <1>4, <1>5, <1>6, <1>7, <1>8, <1>9 DEF IInv

LEMMA CaptureFailsKeeps ==
  ASSUME IInv, CaptureFails
  PROVE  IInv'
<1> USE CaptureAssumption DEF IInv, CaptureFails, Invalidate, Ask, Goes, Finally, NoFrame,
     Stopping
<1>1. Typed'
  <2>1. task' \in Tasks /\ latest' \in Frames
    BY DEF Typed, TypeOK, Tasks, Switches, Stoppers, Frames
  <2>2. TypeOK'
    BY DEF Typed, TypeOK, Tasks, Switches, Stoppers, Frames
  <2> QED
    BY <2>1, <2>2 DEF Typed, TypeOK, Tasks, Switches, Stoppers, Frames
<1>2. Owned'
  BY DEF Owned
<1>3. Taken'
  BY DEF Taken, Doomed
<1>4. Handed'
  BY DEF Handed
<1>5. Promised'
  BY DEF Promised
<1>6. Served'
  BY DEF Served
<1>7. SwitchingIsReal'
  BY DEF SwitchingIsReal
<1>8. Chosen'
  BY DEF Chosen, Proven
<1>9. Stopped'
  BY DEF Stopped
<1> QED
  BY <1>1, <1>2, <1>3, <1>4, <1>5, <1>6, <1>7, <1>8, <1>9 DEF IInv

LEMMA TaskReapsKeeps ==
  ASSUME IInv, TaskReaps
  PROVE  IInv'
<1> USE CaptureAssumption DEF IInv, TaskReaps, Stopping, Reaped, Goes, frames
<1>1. Typed'
  <2>1. task' \in Tasks
    BY DEF Typed, TypeOK, Tasks, Switches, Stoppers, Frames
  <2>2. TypeOK'
    BY DEF Typed, TypeOK, Tasks, Switches, Stoppers, Frames
  <2> QED
    BY <2>1, <2>2 DEF Typed, TypeOK, Tasks, Switches, Stoppers, Frames
<1>2. Owned'
  BY DEF Owned
<1>3. Taken'
  BY DEF Taken, Doomed
<1>4. Handed'
  BY DEF Handed
<1>5. Promised'
  BY DEF Promised
<1>6. Served'
  BY DEF Served
<1>7. Chosen'
  BY DEF Chosen, Proven
<1>8. Stopped'
  BY DEF Stopped
<1>9. SwitchingIsReal'
  BY DEF SwitchingIsReal
<1> QED
  BY <1>1, <1>2, <1>3, <1>4, <1>5, <1>6, <1>7, <1>8, <1>9 DEF IInv

LEMMA WakesKeeps ==
  ASSUME IInv, Wakes
  PROVE  IInv'
<1> USE CaptureAssumption DEF IInv, Wakes, Goes, frames, processes, Stopping
<1>1. Typed'
  BY DEF Typed, TypeOK, Tasks, Switches, Stoppers, Frames
<1>2. Owned'
  BY DEF Owned
<1>3. Taken'
  BY DEF Taken, Doomed
<1>4. Handed'
  BY DEF Handed
<1>5. Promised'
  BY DEF Promised
<1>6. Served'
  BY DEF Served
<1>7. Chosen'
  BY DEF Chosen, Proven
<1>8. SwitchingIsReal' /\ Stopped'
  BY DEF SwitchingIsReal, Stopped
<1> QED
  BY <1>1, <1>2, <1>3, <1>4, <1>5, <1>6, <1>7, <1>8 DEF IInv

LEMMA TaskDiesKeeps ==
  ASSUME IInv, TaskDies
  PROVE  IInv'
<1> USE CaptureAssumption DEF IInv, TaskDies, Finally, Ask, frames, processes, Stopping
<1>1. CASE task.step \in {"probing", "streaming"}
  <2>1. /\ task' = [task EXCEPT !.step = "reaping", !.then = "end", !.pid = process,
                                !.dying = FALSE]
        /\ process' = None /\ told' = told \cup ({process} \cap live) /\ UNCHANGED live
    BY <1>1
  <2>2. Typed'
    <3>1. task' \in Tasks
      BY <2>1 DEF Typed, TypeOK, Tasks
    <3>2. TypeOK'
      BY <2>1 DEF Typed, TypeOK, Tasks
    <3> QED
      BY <1>1, <2>1, <3>1, <3>2 DEF Typed, Tasks
  <2>3. Owned' /\ Taken' /\ Promised' /\ Stopped'
    BY <1>1, <2>1 DEF Typed, TypeOK, Tasks, Owned, Taken, Doomed, Promised, Stopped
  <2>4. Handed' /\ Served' /\ Chosen' /\ SwitchingIsReal'
    BY <1>1, <2>1 DEF Typed, Tasks, Taken, Handed, Served, Chosen, Proven, SwitchingIsReal
  <2> QED
    BY <2>2, <2>3, <2>4
<1>2. CASE task.step \notin {"probing", "streaming"}
  <2>1. /\ task' = [task EXCEPT !.step = "ended", !.pid = None, !.dying = FALSE]
        /\ UNCHANGED <<process, live, told>>
    BY <1>2
  <2>2. Typed'
    <3>1. task' \in Tasks
      BY <2>1 DEF Typed, TypeOK, Tasks
    <3>2. TypeOK'
      BY <2>1, <3>1 DEF Typed, TypeOK, Tasks
    <3>3. task.step # "none"
      BY DEF Taken, Doomed, Typed, Tasks
    <3> QED
      BY <1>2, <2>1, <3>1, <3>2, <3>3 DEF Typed, Tasks
  <2>3. Owned' /\ Taken' /\ Promised' /\ Stopped'
    BY <1>2, <2>1 DEF Typed, TypeOK, Tasks, Owned, Taken, Doomed, Promised, Stopped
  <2>4. Handed' /\ Served' /\ Chosen' /\ SwitchingIsReal'
    BY <1>2, <2>1 DEF Typed, Tasks, Taken, Handed, Served, Chosen, Proven, SwitchingIsReal
  <2> QED
    BY <2>2, <2>3, <2>4
<1> QED
  BY <1>1, <1>2

LEMMA ProcessEndsKeeps ==
  ASSUME IInv, ProcessEnds
  PROVE  IInv'
<1> USE CaptureAssumption DEF IInv, ProcessEnds, frames, Stopping
<1>1. Typed'
  BY DEF Typed, TypeOK, Tasks, Switches, Stoppers, Frames
<1>2. Owned'
  BY DEF Owned
<1>3. Taken' /\ Handed' /\ Promised' /\ Served' /\ SwitchingIsReal' /\ Chosen' /\ Stopped'
  BY DEF Taken, Doomed, Handed, Promised, Served, SwitchingIsReal, Chosen, Proven, Stopped
<1> QED
  BY <1>1, <1>2, <1>3 DEF IInv

-----------------------------------------------------------------------------
(* The actions of select_mode. *)

LEMMA SelectActiveKeeps ==
  ASSUME IInv, NEW mode \in Modes, SelectActive(mode)
  PROVE  IInv'
<1> USE CaptureAssumption DEF IInv, SelectActive, Ready, NoFrame, processes, Stopping
<1>1. Typed'
  BY DEF Typed, TypeOK, Tasks, Switches, Stoppers, Frames
<1>2. Promised'
  BY DEF Promised
<1>3. Served'
  BY DEF Served
<1>4. SwitchingIsReal'
  BY DEF SwitchingIsReal
<1>5. Chosen'
  BY DEF Chosen, Proven
<1>6. Owned' /\ Taken' /\ Handed' /\ Stopped'
  BY DEF Owned, Taken, Doomed, Handed, Stopped
<1> QED
  BY <1>1, <1>2, <1>3, <1>4, <1>5, <1>6 DEF IInv

LEMMA SelectKeeps ==
  ASSUME IInv, NEW mode \in Modes, Select(mode)
  PROVE  IInv'
<1> USE CaptureAssumption DEF IInv, Select, Ready, Cancelled, NoFrame, NoSwitch, processes,
     Stopping
<1>1. Typed'
  <2>1. task' \in Tasks /\ switch' \in Switches
    BY DEF Typed, TypeOK, Tasks, Switches, Stoppers, Frames
  <2>2. TypeOK'
    BY DEF Typed, TypeOK, Tasks, Switches, Stoppers, Frames
  <2> QED
    BY <2>1, <2>2 DEF Typed, TypeOK, Tasks, Switches, Stoppers, Frames
<1>2. Owned'
  BY DEF Owned
<1>3. Taken'
  BY DEF Taken, Doomed, Typed, TypeOK, Tasks, Switches, Stoppers, Frames
<1>4. Handed'
  BY DEF Handed
<1>5. Promised'
  BY DEF Promised
<1>6. Served'
  BY DEF Served
<1>7. SwitchingIsReal'
  BY DEF SwitchingIsReal
<1>8. Chosen'
  BY DEF Chosen, Proven
<1>9. Stopped'
  BY DEF Stopped
<1> QED
  BY <1>1, <1>2, <1>3, <1>4, <1>5, <1>6, <1>7, <1>8, <1>9 DEF IInv

LEMMA GatheredKeeps ==
  ASSUME IInv, Gathered
  PROVE  IInv'
<1> USE CaptureAssumption DEF IInv, Gathered, Ask, frames, Stopping
<1>1. Typed'
  <2>1. switch' \in Switches
    BY DEF Typed, TypeOK, Tasks, Switches, Stoppers, Frames
  <2>2. TypeOK'
    BY DEF Typed, TypeOK, Tasks, Switches, Stoppers, Frames
  <2> QED
    BY <2>1, <2>2 DEF Typed, TypeOK, Tasks, Switches, Stoppers, Frames
<1>2. Owned'
  BY DEF Owned
<1>3. Handed'
  BY DEF Handed
<1>4. Promised'
  BY DEF Promised
<1>5. Served'
  BY DEF Served
<1>6. SwitchingIsReal'
  BY DEF SwitchingIsReal
<1>7. Chosen'
  BY DEF Chosen, Proven
<1>8. Stopped'
  BY DEF Stopped
<1>9. Taken'
  BY DEF Taken, Doomed
<1> QED
  BY <1>1, <1>2, <1>3, <1>4, <1>5, <1>6, <1>7, <1>8, <1>9 DEF IInv

LEMMA TransitionDoneKeeps ==
  ASSUME IInv, TransitionDone
  PROVE  IInv'
<1> USE CaptureAssumption DEF IInv, TransitionDone, NoSwitch, frames, processes, Stopping
<1>1. Typed'
  BY DEF Typed, TypeOK, Tasks, Switches, Stoppers, Frames
<1>2. Handed'
  BY DEF Handed
<1>3. Promised'
  BY DEF Promised
<1>4. Served'
  BY DEF Served
<1>5. SwitchingIsReal'
  BY DEF SwitchingIsReal, Typed, TypeOK, Tasks, Switches, Stoppers, Frames, Taken, Doomed,
       Handed, Owned, Promised, Served, Chosen, Proven, Stopped
<1>6. Chosen'
  BY DEF Chosen, Proven, Typed, TypeOK, Tasks, Switches, Stoppers, Frames
<1>7. Owned' /\ Taken' /\ Stopped'
  BY DEF Owned, Taken, Doomed, Stopped
<1> QED
  BY <1>1, <1>2, <1>3, <1>4, <1>5, <1>6, <1>7 DEF IInv

LEMMA TransitionFailsKeeps ==
  ASSUME IInv, TransitionFails
  PROVE  IInv'
<1> USE CaptureAssumption DEF IInv, TransitionFails, Cancelled, Cancel, frames, processes,
     Stopping
<1>1. Typed'
  <2>1. task' \in Tasks
    BY DEF Typed, TypeOK, Tasks, Switches, Stoppers, Frames
  <2>2. switch' \in Switches
    BY DEF Typed, TypeOK, Tasks, Switches, Stoppers, Frames
  <2>3. TypeOK'
    BY DEF Typed, TypeOK, Tasks, Switches, Stoppers, Frames
  <2> QED
    BY <2>1, <2>2, <2>3 DEF Typed, TypeOK, Tasks, Switches, Stoppers, Frames
<1>2. Owned'
  BY DEF Owned
<1>3. Taken'
  BY DEF Taken, Doomed, Typed, TypeOK, Tasks, Switches, Stoppers, Frames
<1>4. Handed'
  BY DEF Handed
<1>5. Promised'
  BY DEF Promised
<1>6. Served'
  BY DEF Served
<1>7. SwitchingIsReal'
  BY DEF SwitchingIsReal
<1>8. Chosen'
  BY DEF Chosen, Proven, Typed, TypeOK, Tasks, Switches, Stoppers, Frames
<1>9. Stopped'
  BY DEF Stopped
<1> QED
  BY <1>1, <1>2, <1>3, <1>4, <1>5, <1>6, <1>7, <1>8, <1>9 DEF IInv

LEMMA TransitionStopsKeeps ==
  ASSUME IInv, TransitionStops
  PROVE  IInv'
<1> USE CaptureAssumption DEF IInv, TransitionStops, Stopping, Cancelled, Cancel, frames,
     processes
<1>1. Typed'
  <2>1. task' \in Tasks /\ switch' \in Switches
    BY DEF Typed, TypeOK, Tasks, Switches, Stoppers, Frames
  <2>2. TypeOK'
    BY DEF Typed, TypeOK, Tasks, Switches, Stoppers, Frames
  <2> QED
    BY <2>1, <2>2 DEF Typed, TypeOK, Tasks, Switches, Stoppers, Frames
<1>2. Owned'
  BY DEF Owned
<1>3. Taken'
  BY DEF Taken, Doomed, Typed, TypeOK, Tasks, Switches, Stoppers, Frames
<1>4. Handed'
  BY DEF Handed
<1>5. Promised'
  BY DEF Promised
<1>6. Served'
  BY DEF Served
<1>7. SwitchingIsReal'
  BY DEF SwitchingIsReal
<1>8. Chosen'
  BY DEF Chosen, Proven
<1>9. Stopped'
  BY DEF Stopped
<1> QED
  BY <1>1, <1>2, <1>3, <1>4, <1>5, <1>6, <1>7, <1>8, <1>9 DEF IInv

(* A new supervisor, for the mode that was asked for or for the one before. *)
LEMMA BeginKeeps ==
  ASSUME IInv, switch.step = "reap", Reaped(switch.pid), UNCHANGED <<stopper, proven>>,
         NEW mode \in Modes, NEW success \in {"ready", "rolled_back"}, Begin(mode, success),
         \/ switch.stage = "switch" /\ mode = switch.mode /\ UNCHANGED desired
         \/ switch.stage = "rollback" /\ mode = switch.previous /\ desired' = mode
  PROVE  IInv'
<1> USE CaptureAssumption DEF IInv, Reaped, Begin, Invalidate, Stopping
<1>1. /\ state' = "switching" /\ active' = None /\ latest' = NoFrame
      /\ UNCHANGED <<generation, process, stopper, proven>>
      /\ live' = live \ {switch.pid} /\ told' = told \ {switch.pid}
      /\ switch' = [switch EXCEPT !.step = "await", !.pid = None, !.promise = "pending"]
  OBVIOUS
<1>2. switch' \in Switches /\ latest' \in Frames
  <2>1. switch' \in Switches
    BY <1>1 DEF Typed, Switches
  <2>2. latest' \in Frames
    BY <1>1 DEF Frames, NoFrame
  <2> QED
    BY <2>1, <2>2
<1>3. CASE Stopping
  <2>1. task' = task
    BY <1>3 DEF Supervisor
  <2>2. Typed'
    BY <1>1, <1>2, <2>1 DEF Typed, TypeOK, Tasks, Switches, Frames, NoFrame
  <2>3. Owned' /\ Taken' /\ Promised' /\ Stopped'
    BY <1>1, <1>3, <2>1 DEF Typed, Switches, Owned, Taken, Doomed, Promised, Stopped
  <2>4. Handed' /\ Served' /\ SwitchingIsReal' /\ Chosen'
    BY <1>1, <1>3, <2>1 DEF Typed, Switches, Handed, Served, SwitchingIsReal, Chosen
  <2> QED
    BY <2>2, <2>3, <2>4
<1>4. CASE ~Stopping
  <2>1. task' = [NoTask EXCEPT !.step = "spawn", !.mode = mode, !.success = success,
                               !.held = TRUE]
    BY <1>4 DEF Supervisor
  <2>2. task' \in Tasks /\ task'.step = "spawn" /\ task'.mode = mode /\ task'.held /\ ~task'.dying
    BY <2>1 DEF NoTask, Tasks
  <2>3. Typed'
    <3>1. TypeOK'
      BY <1>1, <1>2, <2>2 DEF Typed, TypeOK, NoFrame, Switches
    <3> QED
      BY <1>1, <1>2, <2>2, <3>1 DEF Typed, Switches
  <2>4. process = None
    BY <1>4 DEF Handed, Owned
  <2>5. Owned' /\ Taken' /\ Promised' /\ Stopped'
    BY <1>1, <1>4, <2>2, <2>4 DEF Typed, Switches, Owned, Taken, Promised, Stopped
  <2>6. Handed' /\ Served' /\ SwitchingIsReal'
    BY <1>1, <1>4, <2>2 DEF Typed, Switches, Handed, Served, SwitchingIsReal
  <2>7. Chosen'
    BY <1>1, <1>4, <2>2 DEF Typed, Switches, Chosen, Proven
  <2> QED
    BY <2>3, <2>5, <2>6, <2>7
<1> QED
  BY <1>3, <1>4

LEMMA EndKeeps ==
  ASSUME IInv, switch.step = "reap", Reaped(switch.pid),
         UNCHANGED <<desired, stopper, proven>>,
         \/ switch.stage = "failed" /\ End("degraded")
         \/ switch.stage = "stopping" /\ End("stopped")
  PROVE  IInv'
<1> USE CaptureAssumption DEF IInv, Reaped, End, Invalidate, Stopping
<1>1. /\ state' \in {"degraded", "stopped"} /\ active' = None /\ latest' = NoFrame
      /\ switch' = NoSwitch /\ UNCHANGED <<generation, process, task>>
      /\ live' = live \ {switch.pid} /\ told' = told \ {switch.pid}
  OBVIOUS
<1>2. switch' \in Switches /\ latest' \in Frames
  BY <1>1 DEF Switches, Frames, NoFrame, NoSwitch
<1>3. Typed'
  BY <1>1, <1>2 DEF Typed, TypeOK, NoFrame, NoSwitch
<1>4. Owned' /\ Taken' /\ Promised' /\ Stopped'
  BY <1>1 DEF Owned, Taken, Doomed, Promised, Stopped, NoSwitch
<1>5. Handed' /\ Served' /\ SwitchingIsReal' /\ Chosen'
  BY <1>1 DEF Handed, Served, SwitchingIsReal, Chosen, Proven, NoSwitch
<1> QED
  BY <1>3, <1>4, <1>5

LEMMA SwitchReapsKeeps ==
  ASSUME IInv, SwitchReaps
  PROVE  IInv'
<1>1. switch.mode \in Modes /\ switch.previous \in Modes
  BY DEF IInv, Typed, SwitchReaps
<1> QED
  BY <1>1, BeginKeeps, EndKeeps DEF SwitchReaps, Continue

-----------------------------------------------------------------------------
(* The actions of stop. *)

LEMMA StopKeeps ==
  ASSUME IInv, Stop
  PROVE  IInv'
<1> USE CaptureAssumption DEF IInv, Stop, Cancelled, frames, processes, Stopping
<1>1. Typed'
  <2>1. task' \in Tasks /\ stopper' \in Stoppers
    BY DEF Typed, TypeOK, Tasks, Switches, Stoppers, Frames
  <2>2. TypeOK'
    BY DEF Typed, TypeOK, Tasks, Switches, Stoppers, Frames
  <2> QED
    BY <2>1, <2>2 DEF Typed, TypeOK, Tasks, Switches, Stoppers, Frames
<1>2. Owned'
  BY DEF Owned
<1>3. Taken'
  BY DEF Taken, Doomed, Typed, TypeOK, Tasks, Switches, Stoppers, Frames
<1>4. Handed'
  BY DEF Handed
<1>5. Promised'
  BY DEF Promised
<1>6. Served'
  BY DEF Served
<1>7. Chosen'
  BY DEF Chosen, Proven
<1>8. Stopped'
  BY DEF Stopped
<1>9. SwitchingIsReal'
  BY DEF SwitchingIsReal
<1> QED
  BY <1>1, <1>2, <1>3, <1>4, <1>5, <1>6, <1>7, <1>8, <1>9 DEF IInv

LEMMA StopGatheredKeeps ==
  ASSUME IInv, StopGathered
  PROVE  IInv'
<1> USE CaptureAssumption DEF IInv, StopGathered, Ask, frames, Stopping
<1>1. Typed'
  <2>1. stopper' \in Stoppers
    BY DEF Typed, TypeOK, Tasks, Switches, Stoppers, Frames
  <2>2. TypeOK'
    BY DEF Typed, TypeOK, Tasks, Switches, Stoppers, Frames
  <2> QED
    BY <2>1, <2>2 DEF Typed, TypeOK, Tasks, Switches, Stoppers, Frames
<1>2. Owned'
  BY DEF Owned
<1>3. Taken'
  BY DEF Taken, Doomed
<1>4. Handed'
  BY DEF Handed
<1>5. Served'
  BY DEF Served
<1>6. Chosen'
  BY DEF Chosen, Proven
<1>7. Stopped'
  BY DEF Stopped
<1>8. Promised' /\ SwitchingIsReal'
  BY DEF Promised, SwitchingIsReal
<1> QED
  BY <1>1, <1>2, <1>3, <1>4, <1>5, <1>6, <1>7, <1>8 DEF IInv

LEMMA StopReapsKeeps ==
  ASSUME IInv, StopReaps
  PROVE  IInv'
<1> USE CaptureAssumption DEF IInv, StopReaps, Invalidate, Reaped, NoFrame, Stopping
<1>1. Typed'
  <2>1. stopper' \in Stoppers /\ latest' \in Frames
    BY DEF Typed, TypeOK, Tasks, Switches, Stoppers, Frames
  <2>2. TypeOK'
    BY DEF Typed, TypeOK, Tasks, Switches, Stoppers, Frames
  <2> QED
    BY <2>1, <2>2 DEF Typed, TypeOK, Tasks, Switches, Stoppers, Frames
<1>2. Owned'
  BY DEF Owned
<1>3. Taken'
  BY DEF Taken, Doomed
<1>4. Handed'
  BY DEF Handed
<1>5. Promised'
  BY DEF Promised
<1>6. Served'
  BY DEF Served
<1>7. SwitchingIsReal'
  BY DEF SwitchingIsReal
<1>8. Chosen'
  BY DEF Chosen, Proven
<1>9. Stopped'
  BY DEF Stopped
<1> QED
  BY <1>1, <1>2, <1>3, <1>4, <1>5, <1>6, <1>7, <1>8, <1>9 DEF IInv

-----------------------------------------------------------------------------
(* The invariant. *)

LEMMA InitIInv == Init => IInv
<1> SUFFICES ASSUME Init PROVE IInv
  OBVIOUS
<1> USE CaptureAssumption DEF Init
<1>1. task \in Tasks /\ switch \in Switches /\ stopper \in Stoppers /\ latest \in Frames
  BY DEF Tasks, Switches, Stoppers, Frames, NoTask, NoSwitch, NoFrame
<1>2. Typed
  BY <1>1 DEF Typed, TypeOK, NoTask, NoSwitch, NoFrame
<1>3. Owned /\ Taken /\ Handed /\ Promised /\ Served /\ SwitchingIsReal /\ Stopped
  BY DEF Owned, Taken, Handed, Promised, Served, SwitchingIsReal, Stopped, Stopping,
         NoTask, NoSwitch
<1>4. Chosen
  BY DEF Chosen, Proven, NoSwitch
<1> QED
  BY <1>2, <1>3, <1>4 DEF IInv

LEMMA StepIInv == IInv /\ [Next]_vars => IInv'
<1> SUFFICES ASSUME IInv, [Next]_vars PROVE IInv'
  OBVIOUS
<1>1. CASE Supervise \/ Start \/ Publish \/ Ages \/ NegotiationFails \/ CaptureFails \/ ProcessEnds
  BY <1>1, SpawnKeeps, CommitKeeps, TaskReapsKeeps, WakesKeeps, TaskDiesKeeps, StartKeeps,
     PublishKeeps, AgesKeeps, NegotiationFailsKeeps, CaptureFailsKeeps, ProcessEndsKeeps
  DEF Supervise
<1>2. CASE Switching \/ \E mode \in Modes : SelectActive(mode) \/ Select(mode)
  BY <1>2, GatheredKeeps, SwitchReapsKeeps, TransitionDoneKeeps, TransitionFailsKeeps,
     TransitionStopsKeeps, SelectActiveKeeps, SelectKeeps DEF Switching
<1>3. CASE Stop \/ Ending
  BY <1>3, StopKeeps, StopGatheredKeeps, StopReapsKeeps DEF Ending
<1>4. CASE UNCHANGED vars
  <2>1. /\ (Typed /\ Owned /\ Taken)'
        /\ (Handed /\ Promised /\ Served /\ SwitchingIsReal /\ Chosen /\ Stopped)'
    BY <1>4 DEF vars, IInv, Typed, TypeOK, Owned, Taken, Doomed, Handed, Promised, Served,
                SwitchingIsReal, Chosen, Proven, Stopped, Stopping
  <2> QED
    BY <2>1 DEF IInv
<1> QED
  BY <1>1, <1>2, <1>3, <1>4 DEF Next

LEMMA Invariant == Spec => []IInv
  BY InitIInv, StepIInv, PTL DEF Spec

-----------------------------------------------------------------------------
(* What follows from it. *)

(* At most one process was not yet asked to end: no retry, switch or stop
   leaves a capture behind that nobody attends to. *)
LEMMA OneLeft == IInv => OneUnasked
<1> SUFFICES ASSUME IInv PROVE Cardinality(live \ told) <= 1
  BY DEF OneUnasked
<1>1. IsFiniteSet({process}) /\ Cardinality({process}) = 1
  BY FS_Singleton
<1>2. live \ told \subseteq {process}
  BY DEF IInv, Owned
<1>3. /\ IsFiniteSet(live \ told)
      /\ Cardinality(live \ told) <= Cardinality({process})
  BY <1>1, <1>2, FS_Subset
<1> QED
  BY <1>1, <1>3

(* The status of the capture is true of it: a frame served as ready is one of
   the mode in force and of a capture that runs in that mode, "switching" means
   that a switch is on its way, and no capture is left to itself. *)
THEOREM StatusIsTrue == Spec => []Consistent
<1>1. IInv => TypeOK /\ SwitchingIsReal
  BY DEF IInv, Typed
<1>2. IInv => ShownIsActive
  BY DEF IInv, Served, ShownIsActive, Ready
<1>3. IInv => Consistent
  BY <1>1, <1>2, OneLeft DEF Consistent
<1> QED
  BY <1>3, Invariant, PTL

(* A failed switch falls back to a mode that was negotiated before, or to the
   default: a mode that was only asked for never becomes the fallback. *)
THEOREM FallsBackToProven == Spec => []FallbackProven
<1>1. IInv => FallbackProven
  BY DEF IInv, Chosen, Proven, FallbackProven
<1> QED
  BY <1>1, Invariant, PTL

(* Once stop() has returned nothing is captured and nothing is shown, also when
   the switch it interrupted has still to find out. *)
THEOREM NothingAfterStop == Spec => []StopIsFinal
<1>1. ASSUME IInv, stopper.step = "done" PROVE ~Ready /\ active = None /\ live \subseteq told
  <2>1. live \subseteq Pids /\ live \ told \subseteq {None}
    BY <1>1 DEF IInv, Typed, TypeOK, Owned, Stopped
  <2> QED
    BY <1>1, <2>1, CaptureAssumption DEF IInv, Stopped, Ready
<1>2. IInv => StopIsFinal
  BY <1>1 DEF StopIsFinal
<1> QED
  BY <1>2, Invariant, PTL
=============================================================================
