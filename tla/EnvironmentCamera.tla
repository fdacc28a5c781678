-------------------------- MODULE EnvironmentCamera --------------------------
(***************************************************************************)
(* The gateway's client of the room camera (environment_camera.py).  It       *)
(* keeps a view of the camera: the boot and the generation it last heard of,  *)
(* a public generation of its own, what was verified and the last frame.  A   *)
(* loop asks for the status, another reads the stream, browsers fetch frames  *)
(* and send changes that name the public generation they saw.  Answers are    *)
(* on their way while the view changes; _mutation_lock is held across a       *)
(* change and taken to apply any other answer.                                *)
(*                                                                           *)
(* The camera itself (camera/main) is here as far as an answer shows it.      *)
(***************************************************************************)
EXTENDS Integers, FiniteSets

CONSTANTS
  Browsers,               \* concurrent requests of browsers
  Wishes,                 \* what they may ask for, one of these at a time
  StatusLoop, StreamLoop, \* the two background tasks
  None,
  MaxViewers,             \* config.max_clients
  BootEnabled,            \* CONFIG_NOOB_CAMERA_BOOT_ENABLED
  MaxBoots,               \* bound: boots of the camera
  MaxGeneration,          \* bound: generations within a boot
  MaxFaults               \* bound: requests lost and answers rejected

ASSUME CameraAssumption ==
  /\ StatusLoop # StreamLoop /\ {StatusLoop, StreamLoop, None} \cap Browsers = {}
  /\ None \notin {StatusLoop, StreamLoop} \cup Nat \cup {"on", "off", "store", "frame", "watch"}
  /\ IsFiniteSet(Browsers)
  /\ Wishes \subseteq [Browsers -> SUBSET {"on", "off", "store", "frame", "watch"}]
  /\ MaxViewers \in Nat /\ MaxFaults \in Nat
  /\ BootEnabled \in BOOLEAN
  /\ MaxBoots \in Nat \ {0} /\ MaxGeneration \in Nat \ {0}

VARIABLES
  camera,  \* the camera: boot, generation, and whether its sensor is on
  phase,   \* start() and stop()
  view,    \* what the gateway holds of the camera
  lock,    \* _mutation_lock
  task,    \* the requests in progress
  may,     \* what each browser may ask for
  faults   \* faults so far

vars == <<camera, phase, view, lock, task, may, faults>>

Tasks == Browsers \cup {StatusLoop, StreamLoop}

Switches  == {"on", "off"}        \* set_enabled
Mutations == Switches \cup {"store"}  \* and create_snapshot, create_clip
Fetches   == {"frame", "watch"}   \* get_frame, and the stream of the gateway

NoFrame == [public |-> 0, boot |-> 0, generation |-> 0, fetched |-> FALSE]
Nothing == [ok |-> FALSE, boot |-> 0, generation |-> 0, on |-> FALSE]

(* seen and overtaken are the browser's: the public generation it goes by and *)
(* whether the camera was changed since by someone else.  current says that   *)
(* _connection_epoch is what it was at the request.                           *)
Idle == [step |-> "idle", op |-> None, seen |-> 0, overtaken |-> FALSE, current |-> FALSE, answer |-> Nothing]

(* The probe of the sensor is one generation and, unless the camera is to be  *)
(* enabled, its end another; the API is started after it (app_main.cpp).      *)
Booted(b) == [boot |-> b, generation |-> IF BootEnabled THEN 1 ELSE 2, on |-> BootEnabled]

Init ==
  /\ camera = Booted(1)
  /\ phase = "off"
  /\ view = [boot |-> None, generation |-> 0, public |-> 0, reachable |-> FALSE,
             pinned |-> FALSE, enabled |-> FALSE, latest |-> NoFrame]
  /\ lock = None
  /\ task = [t \in Tasks |-> Idle]
  /\ may \in Wishes
  /\ faults = 0

At(t, s) == task[t].step = s
Moved(t, s) == [task[t] EXCEPT !.step = s]
Put(t, r) == task' = [task EXCEPT ![t] = r]

(* A task goes on and the connection epoch moves for all the others.          *)
PutEpoch(t, r, epoch) ==
  task' = [u \in Tasks |-> IF u = t THEN r
                           ELSE [task[u] EXCEPT !.current = @ /\ ~epoch]]

(* A browser that saw a state and is going to change it. *)
Concerned(u) == At(u, "looked") \/ task[u].op \in Mutations

Viewers == Cardinality({b \in Browsers : task[b].op = "watch"})

Ready(v) ==
  /\ v.reachable /\ v.pinned /\ v.enabled
  /\ v.latest # NoFrame /\ v.latest.public = v.public

Free == lock = None

-----------------------------------------------------------------------------
(* The view. *)

(* Defect: a reboot, which counts from the beginning, is taken for old news. *)
AcceptsNewer(v, b, g) == g >= v.generation

(* _update_remote_generation: one boot never goes back; any other change is   *)
(* a public generation of its own, and the end of the frame and the epoch.    *)
Accepts(v, b, g) == ~(v.boot = b /\ g < v.generation)
Changes(v, b, g) == <<v.boot, v.generation>> # <<b, g>>

(* Defect: a reboot into the same generation changes nothing. *)
RecordedAnyBoot(v, b, g) ==
  [v EXCEPT !.boot = b, !.generation = g,
            !.public = IF v.boot = None THEN g ELSE IF g # v.generation THEN @ + 1 ELSE @,
            !.latest = IF g # v.generation THEN NoFrame ELSE @]

Recorded(v, b, g) ==
  LET next == IF v.boot = None THEN g
              ELSE IF Changes(v, b, g) THEN v.public + 1 ELSE v.public
      kept == IF v.boot # None /\ Changes(v, b, g) THEN NoFrame ELSE v.latest
  IN  [v EXCEPT !.boot = b, !.generation = g, !.public = next, !.latest = kept]

(* refresh_status, of an answer that is in order. *)
Refreshed(v, a) ==
  [Recorded(v, a.boot, a.generation)
     EXCEPT !.pinned = TRUE, !.enabled = a.on, !.reachable = TRUE,
            !.latest = IF a.on THEN @ ELSE NoFrame]

(* _invalidate_authenticated_status *)
Invalidated(v) ==
  [v EXCEPT !.pinned = FALSE, !.enabled = FALSE,
            !.reachable = FALSE, !.latest = NoFrame]

-----------------------------------------------------------------------------
(* The camera (camera_manager.cpp). *)
Reboots ==
  /\ camera.boot < MaxBoots
  /\ camera' = Booted(camera.boot + 1)
  /\ task' = [t \in Tasks |-> [task[t] EXCEPT !.overtaken = FALSE]]
  /\ UNCHANGED <<phase, view, lock, faults, may>>

(* CameraManager::set_enabled at the generation asked for, and how it answers. *)
Switched(want) ==
  IF want = camera.on THEN {[camera |-> camera, ok |-> TRUE]}
  ELSE IF camera.generation = MaxGeneration THEN {}
  ELSE LET off == [camera EXCEPT !.on = FALSE, !.generation = @ + 1]
       IN  IF ~want THEN {[camera |-> off, ok |-> TRUE]}
           ELSE {[camera |-> [off EXCEPT !.on = TRUE], ok |-> TRUE],
                 [camera |-> off, ok |-> FALSE]}

Refuses == [camera |-> camera, ok |-> FALSE]

(* What a change may come to: refused when the generation it was sent with,   *)
(* which the lock keeps, is another one, or because a clip is being recorded. *)
Outcomes(t) ==
  {Refuses} \cup
  (IF view.generation # camera.generation THEN {}
   ELSE IF task[t].op = "store" THEN {[camera |-> camera, ok |-> camera.on]}
   ELSE Switched(task[t].op = "on"))

CameraActs(t) ==
  /\ phase = "on" /\ At(t, "sent")
  /\ \E o \in Outcomes(t) :
       /\ camera' = o.camera
       /\ task' = [u \in Tasks |->
            IF u = t THEN [Moved(t, "acted") EXCEPT
                 !.answer = [Nothing EXCEPT !.ok = o.ok, !.generation = o.camera.generation]]
            ELSE [task[u] EXCEPT !.overtaken = @ \/ (o.camera # camera /\ Concerned(u))]]
  /\ UNCHANGED <<phase, view, lock, faults, may>>

Told == [ok |-> TRUE, boot |-> camera.boot, generation |-> camera.generation,
         on |-> camera.on]

(* Its answers to a read are of this moment and reach the gateway later.      *)
CameraTells(t) ==
  \/ /\ At(t, "asking") /\ Put(t, [Moved(t, "told") EXCEPT !.answer = Told])
  \/ /\ At(t, "fetching") /\ camera.on
     /\ Put(t, [Moved(t, "framed") EXCEPT
          !.answer = [Nothing EXCEPT !.boot = camera.boot, !.generation = camera.generation]])
  \/ /\ At(t, "connecting") /\ camera.on
     /\ Put(t, [Moved(t, "streaming") EXCEPT !.answer.boot = camera.boot])

CameraAnswers(t) ==
  /\ phase = "on" /\ CameraTells(t)
  /\ view' = [view EXCEPT !.reachable = @ \/ At(t, "connecting")]
  /\ UNCHANGED <<camera, phase, lock, faults, may>>

(* A frame refused: the camera is off, or has no fresh one.                   *)
FrameRefused(t) ==
  /\ phase = "on" /\ (At(t, "fetching") \/ At(t, "connecting"))
  /\ Put(t, Idle)
  /\ UNCHANGED <<camera, phase, view, lock, faults, may>>

-----------------------------------------------------------------------------
(* start: without a pinned identity or a token of its own the lane is inert.  *)
Start ==
  /\ phase = "off"
  /\ phase' \in {"on", "inert"}
  /\ UNCHANGED <<camera, view, lock, task, faults, may>>

(* stop, when the server is down and no request left: the loops are cancelled *)
(* and the session closed.                                                    *)
Stop ==
  /\ phase = "on" /\ phase' = "stopped"
  /\ task' = [t \in Tasks |-> Idle] /\ lock' = None
  /\ view' = [view EXCEPT !.reachable = FALSE, !.latest = NoFrame]
  /\ UNCHANGED <<camera, faults, may>>

(* A request fails or its answer is lost, after the camera may have acted.    *)
Fails(t) ==
  /\ faults < MaxFaults /\ faults' = faults + 1
  /\ task[t].step \in {"asking", "sent", "acted", "fetching", "connecting", "streaming"}
  /\ view' = [view EXCEPT !.reachable = @ /\ ~At(t, "asking")]
  /\ lock' = IF lock = t THEN None ELSE lock
  /\ Put(t, Idle)
  /\ UNCHANGED <<camera, phase, may>>

-----------------------------------------------------------------------------
(* A browser reads the status. *)
Look(b) ==
  /\ phase = "on" /\ may[b] \cap Mutations # {}
  /\ At(b, "idle") \/ At(b, "looked")
  /\ Put(b, [Idle EXCEPT !.step = "looked", !.seen = view.public])
  /\ UNCHANGED <<camera, phase, view, lock, faults, may>>

(* Defect: the public generation is not compared again under the lock. *)
LockedUnseen(r, v) == [Idle EXCEPT !.step = "sent", !.op = r.op, !.overtaken = r.overtaken]

(* Under the lock the generation a browser named is compared. *)
Locked(r, v) == IF r.seen = v.public THEN [Idle EXCEPT !.step = "sent", !.op = r.op,
                                                      !.overtaken = r.overtaken]
                ELSE Idle

(* What a request r does once the status is known (the checks of get_frame).  *)
Proceeds(r, v) ==
  IF r.op \in Mutations THEN IF Free THEN Locked(r, v) ELSE [r EXCEPT !.step = "locking", !.answer = Nothing]
  ELSE IF ~(v.enabled /\ v.pinned) THEN Idle
  ELSE IF ~Ready(v) THEN [r EXCEPT !.step = "fetching", !.current = TRUE, !.answer = Nothing]
  ELSE IF r.op = "watch" THEN [Idle EXCEPT !.step = "watching", !.op = "watch"] ELSE Idle

Takes(t) == lock' = IF Free /\ task'[t].step = "sent" THEN t ELSE lock

(* _ensure_status: asks only when the camera is not known to be reachable.    *)
Enters(b, op) ==
  /\ phase = "on"
  /\ At(b, IF op \in Mutations THEN "looked" ELSE "idle")
  /\ op = "watch" => Viewers < MaxViewers
  /\ LET entered == [task[b] EXCEPT !.op = op, !.step = "asking"]
     IN  Put(b, IF view.reachable /\ view.boot # None THEN Proceeds(entered, view) ELSE entered)
  /\ Takes(b)
  /\ UNCHANGED <<camera, phase, view, faults, may>>

Asks ==
  /\ phase = "on" /\ At(StatusLoop, "idle")
  /\ Put(StatusLoop, Moved(StatusLoop, "asking"))
  /\ UNCHANGED <<camera, phase, view, lock, faults, may>>

AfterRefresh(t, v) == IF t = StatusLoop THEN Idle ELSE Proceeds(task[t], v)

(* refresh_status, once its answer is here and the lock is free.  One older   *)
(* than the view is let go without a word.                                    *)
Refreshes(t) ==
  /\ At(t, "told") /\ Free
  /\ LET a == task[t].answer
         taken == Accepts(view, a.boot, a.generation)
     IN  /\ view' = IF taken THEN Refreshed(view, a) ELSE view
         /\ PutEpoch(t, AfterRefresh(t, view'), taken /\ Changes(view, a.boot, a.generation))
  /\ Takes(t)
  /\ UNCHANGED <<camera, phase, faults, may>>

(* The answer is of another device, or not one of this api. *)
Rejects(t) ==
  /\ At(t, "told") /\ Free /\ faults < MaxFaults
  /\ view' = Invalidated(view) /\ faults' = faults + 1
  /\ PutEpoch(t, Idle, TRUE)
  /\ UNCHANGED <<camera, phase, lock, may>>

-----------------------------------------------------------------------------
(* set_enabled, create_snapshot and create_clip keep the lock until the       *)
(* camera answers; this one has waited for it.                                *)
Locks(b) ==
  /\ At(b, "locking") /\ Free
  /\ Put(b, Locked(task[b], view)) /\ Takes(b)
  /\ UNCHANGED <<camera, phase, view, faults, may>>

(* The new generation is put down to the boot the gateway knows of. *)
Completes(b) ==
  /\ At(b, "acted") /\ lock' = None
  /\ LET a == task[b].answer
         on == task[b].op = "on"
         taken == a.ok /\ task[b].op \in Switches /\ Accepts(view, view.boot, a.generation)
     IN  /\ view' = IF taken
                    THEN [Recorded(view, view.boot, a.generation)
                            EXCEPT !.enabled = on, !.latest = IF on THEN @ ELSE NoFrame]
                    ELSE view
         /\ PutEpoch(b, Idle, taken /\ Changes(view, view.boot, a.generation))
  /\ UNCHANGED <<camera, phase, faults, may>>

-----------------------------------------------------------------------------
(* Defect: the epoch of the connection is not looked at. *)
PublishableStale(t) == view.enabled

(* _publish_frame *)
Publishable(t) == view.enabled /\ task[t].current

Published(t, g, v) ==
  [v EXCEPT !.latest = [public |-> v.public, boot |-> task[t].answer.boot,
                        generation |-> g, fetched |-> t # StreamLoop]]

AfterPublish(t) ==
  IF ~Publishable(t) THEN Idle
  ELSE IF t = StreamLoop THEN [Moved(t, "streaming") EXCEPT !.answer.generation = 0]
  ELSE IF task[t].op = "watch" THEN [Idle EXCEPT !.step = "watching", !.op = "watch"]
  ELSE Idle

(* A frame of generation g, published at once or when the lock is free.       *)
PublishOrWait(t, g, v) ==
  IF Free
  THEN Put(t, AfterPublish(t)) /\ view' = IF Publishable(t) THEN Published(t, g, v) ELSE v
  ELSE /\ Put(t, [Moved(t, "publishing") EXCEPT !.answer.generation = g])
       /\ view' = v

Publishes(t) ==
  /\ At(t, "publishing") /\ Free /\ PublishOrWait(t, task[t].answer.generation, view)
  /\ UNCHANGED <<camera, phase, lock, faults, may>>

(* get_frame: the answer must be of the boot the gateway knows of. *)
FrameArrives(b) ==
  /\ At(b, "framed")
  /\ IF task[b].answer.boot # view.boot THEN Put(b, Idle) /\ UNCHANGED view
     ELSE PublishOrWait(b, task[b].answer.generation, [view EXCEPT !.reachable = TRUE])
  /\ UNCHANGED <<camera, phase, lock, faults, may>>

(* A watcher leaves, at the end of its response. *)
Leaves(b) ==
  /\ At(b, "watching") /\ Put(b, Idle)
  /\ UNCHANGED <<camera, phase, view, lock, faults, may>>

(* _get_jpeg_path: a stored image arrives, whoever the camera was last found  *)
(* to be; its request left nothing behind.                                    *)
MediaArrives ==
  /\ phase = "on"
  /\ view' = [view EXCEPT !.reachable = TRUE]
  /\ UNCHANGED <<camera, phase, lock, task, faults, may>>

-----------------------------------------------------------------------------
(* _stream_loop and _consume_stream. *)
Streamable == view.reachable /\ view.enabled /\ Viewers > 0 /\ view.pinned

Connects ==
  /\ phase = "on" /\ At(StreamLoop, "idle") /\ Streamable
  /\ Put(StreamLoop, [Idle EXCEPT !.step = "connecting", !.current = TRUE])
  /\ UNCHANGED <<camera, phase, view, lock, faults, may>>

StreamGoesOn == view.reachable /\ Viewers > 0 /\ view.enabled /\ task[StreamLoop].current

ChunkArrives ==
  /\ phase = "on" /\ At(StreamLoop, "streaming")
  /\ camera.on /\ task[StreamLoop].answer.boot = camera.boot
  /\ IF StreamGoesOn THEN PublishOrWait(StreamLoop, camera.generation, view)
     ELSE Put(StreamLoop, Idle) /\ UNCHANGED view
  /\ UNCHANGED <<camera, phase, lock, faults, may>>

(* The camera ends the stream when its sensor is off; a reboot breaks it.     *)
StreamEnds ==
  /\ At(StreamLoop, "streaming")
  /\ ~camera.on \/ task[StreamLoop].answer.boot # camera.boot
  /\ Put(StreamLoop, Idle)
  /\ UNCHANGED <<camera, phase, view, lock, faults, may>>

(* The last frame grows older than stale_seconds and counts for nothing.      *)
Ages ==
  /\ view.latest # NoFrame
  /\ view' = [view EXCEPT !.latest = NoFrame]
  /\ UNCHANGED <<camera, phase, lock, task, faults, may>>

-----------------------------------------------------------------------------
Browser(b) ==
  \/ Look(b)
  \/ \E op \in may[b] : Enters(b, op)

Step(t) ==
  \/ CameraAnswers(t) \/ CameraActs(t) \/ FrameRefused(t)
  \/ Refreshes(t) \/ Publishes(t)

Served(b) ==
  \/ Step(b) \/ Locks(b) \/ Completes(b)
  \/ FrameArrives(b)

Next ==
  \/ Reboots
  \/ Start \/ Stop \/ Asks \/ Ages \/ MediaArrives
  \/ \E t \in Tasks : Fails(t) \/ Rejects(t)
  \/ \E b \in Browsers : Browser(b) \/ Served(b) \/ Leaves(b)
  \/ Step(StatusLoop) \/ Step(StreamLoop)
  \/ Connects \/ ChunkArrives \/ StreamEnds

(* The loop asks again every status_interval and every request has a total    *)
(* timeout; asyncio.Lock is handed out in the order it was asked for, so that *)
(* an answer gets it however often it is taken.                               *)
Fairness ==
  /\ WF_vars(Asks) /\ WF_vars(CameraAnswers(StatusLoop)) /\ SF_vars(Refreshes(StatusLoop))
  /\ WF_vars(\E b \in Browsers : CameraActs(b) \/ Completes(b))

Spec == Init /\ [][Next]_vars /\ Fairness

-----------------------------------------------------------------------------
(* The view, the lock and the tasks have their shape, and whoever holds the   *)
(* lock is waiting for the camera to act on its change.                       *)
TypeOK ==
  /\ camera.boot \in 1..MaxBoots /\ camera.generation \in 1..MaxGeneration
  /\ phase \in {"off", "on", "inert", "stopped"}
  /\ view.public \in Nat /\ faults \in 0..MaxFaults
  /\ \A b \in Browsers : lock = b <=> task[b].step \in {"sent", "acted"}
  /\ Viewers <= MaxViewers

(* A public generation stands for one boot and one generation of the camera:  *)
(* no late answer makes an old number good again ("monotonic across upstream  *)
(* state changes and camera reboot identities").                              *)
GenerationNamesOne ==
  [][/\ view'.public >= view.public
     /\ Changes(view, view'.boot, view'.generation) => view'.public > view.public]_vars

(* The view is never ahead of the camera within its boot, whatever boot a     *)
(* change was put down to: the next status is always accepted.                *)
NeverAhead == view.boot = camera.boot => view.generation <= camera.generation

(* A frame the gateway calls ready is never of a generation before the one it *)
(* is shown under and, when it was fetched, it is of that boot; a stream may  *)
(* have gone over to a boot the gateway does not know of yet.                 *)
FramesAreCurrent ==
  Ready(view) =>
    \/ view.latest.boot = view.boot /\ view.latest.generation >= view.generation
    \/ ~view.latest.fetched /\ view.latest.boot > view.boot

(* Neither the state nor the picture the gateway shows is of another camera   *)
(* than the one it names: NeverAhead and FramesAreCurrent.                    *)
ViewIsCurrent == NeverAhead /\ FramesAreCurrent

(* A change that the camera carries out meets the camera as its browser saw   *)
(* it: nobody's change comes in between ("so two operator interfaces cannot   *)
(* silently overwrite one another", docs/environment-camera.md:108), be it    *)
(* one whose answer was lost.                                                 *)
NoChangeLost ==
  [][\A b \in Browsers :
       At(b, "sent") /\ task'[b].step = "acted" /\ task'[b].answer.ok
         => ~task[b].overtaken]_vars

(* Once the losses and the reboots are over the view is the camera's state    *)
(* and stays so, although late answers may have set it back.                  *)
Converges ==
  <>[](phase = "on" => /\ view.boot = camera.boot /\ view.generation = camera.generation
                      /\ view.enabled = camera.on /\ view.reachable /\ view.pinned)

(* "reachable proves an authenticated API response from the pinned ID"        *)
(* (docs/environment-camera.md:110).                                          *)
ReachableIsPinned == view.reachable => view.pinned

(* No frame of a boot the gateway does not know of yet. *)
StreamOfThisBoot == Ready(view) => view.latest.boot = view.boot
=============================================================================
