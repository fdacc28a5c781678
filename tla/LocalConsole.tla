---------------------------- MODULE LocalConsole ----------------------------
(***************************************************************************)
(* The console on the appliance's own screen (noob_local_console.py).  Its    *)
(* window is one thread, which alone changes what it shows; each button       *)
(* starts a thread that asks the gateway and puts the result on a bounded     *)
(* queue, and a poll thread puts samples there.  The gateway answers over     *)
(* HTTP, later perhaps than the console waits; a request it gave up stays     *)
(* with the gateway.                                                          *)
(***************************************************************************)
EXTENDS Integers, Sequences, FiniteSets, SequencesExt

CONSTANTS
  Uses,        \* what the operator may do and go through, one of these:
               \* a set of buttons, and bounds on requests that fail or reboots
               \* of the camera (faults) and on requests given up (late)
  Media,       \* what is stored on the camera
  None,
  QueueSize,   \* events.maxsize
  KeptJobs,    \* kMaxJobsRemembered
  MaxJobs,     \* bound: clips recorded by the camera
  MaxReaders,  \* bound: threads that read one medium
  MaxListers   \* bound: threads that list the media

Buttons == {"arm", "disarm", "desktop", "source", "other", "clip", "media", "close"}

ASSUME ConsoleAssumption ==
  /\ Uses \subseteq [buttons : SUBSET Buttons, faults : Nat, late : Nat]
  /\ None \notin Media \cup {"worker", "close"}
  /\ {QueueSize, KeptJobs} \subseteq Nat \ {0} /\ {MaxJobs, MaxReaders, MaxListers} \subseteq Nat

VARIABLES
  ui,       \* the state of the window
  close,    \* how far _close is: open, posting, asking, closed
  worker,   \* the thread of the action in progress
  readers,  \* the threads that read each medium
  listers,  \* the threads that list the media
  poll,     \* the sample the poll thread has taken, or that it has ended
  events,   \* the queue
  gateway,  \* its local input: armed, and armed by a request given up
  requests, \* arm and disarm requests it has not answered, oldest first
  camera,   \* its clips, and the one the gateway last heard to be recorded
  may,      \* the one of Uses
  faults, late

vars == <<ui, close, worker, readers, listers, poll, events, gateway,
          requests, camera, may, faults, late>>

-----------------------------------------------------------------------------
Event(kind) == [kind |-> kind, ok |-> FALSE, armed |-> FALSE, job |-> 0, over |-> FALSE, item |-> None]
NoEvent == Event("none")

Rest == [step |-> "rest", op |-> None, result |-> NoEvent]

Init ==
  /\ ui = [source |-> "target", busy |-> FALSE, leaving |-> FALSE, hidden |-> FALSE,
           shown |-> "unknown", job |-> 0, asked |-> None, viewed |-> None, listing |-> FALSE]
  /\ close = "open"
  /\ worker = Rest
  /\ readers = [i \in Media |-> 0] /\ listers = 0
  /\ poll = NoEvent
  /\ events = <<>>
  /\ gateway = [armed |-> FALSE, stray |-> FALSE]
  /\ requests = <<>>
  /\ camera = [jobs |-> 0, known |-> {}, running |-> 0, reported |-> 0]
  /\ may \in Uses
  /\ faults = 0 /\ late = 0

Releasing == {"disarm", "desktop", "source"}   \* client.disarm
Held == <<readers, listers, poll, camera, may>>

AtWork(s) == worker.step = s

(* ActionGate is held from the first request of an action to its last answer. *)
InGate == worker.step \in {"posting", "mending", "asking"}

Ended(ok, e) == worker' = [step |-> "offering", op |-> e.kind, result |-> [e EXCEPT !.ok = ok]]

Sample(kind) == [Event(kind) EXCEPT !.ok = TRUE, !.job = camera.reported, !.armed = gateway.armed]

-----------------------------------------------------------------------------
(* The buttons.  One action at a time: action_inflight is set until its       *)
(* result has been taken from the queue.                                      *)
Idle == close = "open" /\ ~ui.hidden /\ ~ui.busy

Begins(op) == /\ worker' = [step |-> "starting", op |-> op, result |-> Event(op)]
              /\ UNCHANGED <<close, Held, events, gateway, requests, faults, late>>

Arm ==
  /\ "arm" \in may.buttons /\ Idle /\ ui.source = "target" /\ ui.shown = "free"
  /\ ui' = [ui EXCEPT !.busy = TRUE] /\ Begins("arm")

Disarm ==
  /\ "disarm" \in may.buttons /\ Idle /\ ui.shown = "armed"
  /\ ui' = [ui EXCEPT !.busy = TRUE] /\ Begins("disarm")

(* _return_to_desktop *)
Desktop ==
  /\ "desktop" \in may.buttons /\ Idle
  /\ ui' = [ui EXCEPT !.busy = TRUE, !.leaving = TRUE] /\ Begins("desktop")

(* A screenshot is written without ActionGate. *)
Screenshot ==
  /\ "other" \in may.buttons /\ Idle
  /\ ui' = [ui EXCEPT !.busy = TRUE]
  /\ \E ok \in BOOLEAN : Ended(ok, Event("screenshot"))
  /\ UNCHANGED <<close, Held, events, gateway, requests, faults, late>>

(* _select_video_mode *)
SelectMode ==
  /\ "other" \in may.buttons /\ Idle /\ ui.source = "target" /\ ui.shown = "free"
  /\ ui' = [ui EXCEPT !.busy = TRUE] /\ Begins("mode")

(* _toggle_environment_camera *)
ToggleCamera ==
  /\ "other" \in may.buttons /\ Idle /\ ui.source = "environment"
  /\ ui' = [ui EXCEPT !.busy = TRUE] /\ Begins("toggle")

Snapshot ==
  /\ "other" \in may.buttons /\ Idle /\ ui.source = "environment" /\ ui.job = 0
  /\ ui' = [ui EXCEPT !.busy = TRUE] /\ Begins("snapshot")

Clip ==
  /\ "clip" \in may.buttons /\ Idle /\ ui.source = "environment"
  /\ ui' = [ui EXCEPT !.busy = TRUE]
  /\ IF ui.job = 0 THEN Begins("start")
     ELSE /\ worker' = [step |-> "starting", op |-> "stop", result |-> [Event("stop") EXCEPT !.job = ui.job]]
          /\ UNCHANGED <<close, Held, events, gateway, requests, faults, late>>

(* _refresh_storage, one at a time as far as the window knows. *)
Lists(u) == "media" \in may.buttons /\ u.source = "environment" /\ ~u.listing /\ listers < MaxListers
Refreshed(u) == IF Lists(u) THEN [u EXCEPT !.listing = TRUE] ELSE u
Listing(u) == listers' = listers + IF Lists(u) THEN 1 ELSE 0

(* The button that lists them again. *)
RefreshStorage ==
  /\ Idle /\ Lists(ui) /\ ui' = Refreshed(ui) /\ Listing(ui)
  /\ UNCHANGED <<close, worker, readers, poll, events, gateway, requests, camera, may, faults, late>>

(* _apply_source *)
Viewing(u, source) == [u EXCEPT !.source = source, !.asked = None, !.viewed = None]

ChooseEnvironment ==
  /\ "source" \in may.buttons /\ Idle /\ ui.source = "target" /\ ui.shown # "unknown"
  /\ ui' = [ui EXCEPT !.busy = TRUE] /\ Begins("source")

ChooseTarget ==
  /\ "source" \in may.buttons /\ Idle /\ ui.source = "environment"
  /\ ui' = Viewing(ui, "target")
  /\ UNCHANGED <<close, worker, Held, events, gateway, requests, faults, late>>

(* _request_media_preview and _close_media_preview *)
Preview(i) ==
  /\ "media" \in may.buttons /\ close = "open" /\ ~ui.hidden /\ ui.source = "environment" /\ ui.asked = None
  /\ readers[i] < MaxReaders
  /\ ui' = [ui EXCEPT !.asked = i]
  /\ readers' = [readers EXCEPT ![i] = @ + 1]
  /\ UNCHANGED <<close, worker, listers, poll, events, gateway, requests, camera, may, faults, late>>

ClosePreview ==
  /\ close = "open" /\ ~ui.hidden /\ ui.viewed # None /\ ui.asked = None
  /\ ui' = [ui EXCEPT !.viewed = None]
  /\ UNCHANGED <<close, worker, Held, events, gateway, requests, faults, late>>

(* The window is brought back from the desktop. *)
Reopen ==
  /\ close = "open" /\ ui.hidden /\ ui' = [ui EXCEPT !.hidden = FALSE]
  /\ UNCHANGED <<close, worker, Held, events, gateway, requests, faults, late>>

-----------------------------------------------------------------------------
(* The requests to arm and to disarm.                                         *)
Asked(op, by) == Append(requests, [op |-> op, by |-> by])

(* _close disarms in the window's own thread, which does nothing else.        *)
Close ==
  /\ "close" \in may.buttons /\ close = "open" /\ ~ui.busy /\ ~InGate
  /\ close' = "posting" /\ requests' = Asked("disarm", "close")
  /\ UNCHANGED <<ui, worker, Held, events, gateway, faults, late>>

(* ActionGate.run: nothing is asked once the console is closed.               *)
Enters ==
  /\ AtWork("starting") /\ close \in {"open", "closed"}
  /\ IF close = "closed" THEN worker' = Rest /\ UNCHANGED requests
     ELSE /\ worker' = [worker EXCEPT !.step = "posting"]
          /\ requests' = IF worker.op = "arm" THEN Asked("arm", "worker")
                         ELSE IF worker.op \in Releasing THEN Asked("disarm", "worker")
                         ELSE requests
  /\ UNCHANGED <<ui, close, Held, events, gateway, faults, late>>

Failed == [step |-> "offering", op |-> worker.op, result |-> Event(worker.op)]

(* Any failure of an arm is followed by a disarm (GatewayClient.arm), which   *)
(* may fail as well (over); but only one that the console raises itself.  An  *)
(* OSError in reading the body of an HTTP error, or an answer that is not     *)
(* HTTP, ends the thread: nothing is mended and no result comes.              *)
Dies == worker' = [worker EXCEPT !.step = "dead"]

(* Defect: only a failed POST is followed by a disarm. *)
MendsAfterPost == worker.op = "arm" /\ AtWork("posting")

Mends == worker.op = "arm" /\ ~AtWork("mending")

Undone(qs) ==
  \/ /\ Mends
     /\ worker' = [worker EXCEPT !.step = "mending"]
     /\ requests' = Append(qs, [op |-> "disarm", by |-> "worker"])
  \/ /\ ~Mends
     /\ worker' = [Failed EXCEPT !.result.over = AtWork("mending")]
     /\ requests' = qs
  \/ Dies /\ requests' = qs

CloseAnswered(ok) == IF ok THEN "asking" ELSE "open"

Answered(by, ok, qs) ==
  CASE by = "close"  -> close' = CloseAnswered(ok) /\ requests' = qs /\ UNCHANGED worker
    [] by = "worker" -> /\ UNCHANGED close
                        /\ IF ok /\ ~AtWork("mending")
                           THEN worker' = [worker EXCEPT !.step = "asking"] /\ requests' = qs
                           ELSE IF ok THEN worker' = Failed /\ requests' = qs
                           ELSE Undone(qs)
    [] OTHER         -> requests' = qs /\ UNCHANGED <<close, worker>>

(* The event lock is handed out in order and arm waits for control_gate       *)
(* before it asks for it (app.py), so that a disarm may overtake an arm.      *)
Due(i) == \A j \in 1 .. i - 1 : requests[j].op \notin {"disarm", requests[i].op}

Handles(i) ==
  /\ Due(i)
  /\ \E ok \in BOOLEAN :
       /\ IF requests[i].op = "arm"
          THEN gateway' = IF ok THEN [armed |-> TRUE, stray |-> gateway.stray \/ requests[i].by = None]
                          ELSE gateway
          ELSE gateway' = [armed |-> FALSE, stray |-> FALSE]
       /\ faults' = IF ok \/ requests[i].op = "arm" THEN faults ELSE faults + 1
       /\ faults' <= may.faults
       /\ Answered(requests[i].by, ok, RemoveAt(requests, i))
  /\ UNCHANGED <<ui, Held, events, late>>

(* The request did not get there. *)
Unreachable(i) ==
  /\ requests[i].by # None /\ faults < may.faults /\ faults' = faults + 1
  /\ Answered(requests[i].by, FALSE, RemoveAt(requests, i))
  /\ UNCHANGED <<ui, Held, events, gateway, late>>

(* The client's timeout: what it asked for may still be done. *)
GivesUp(i) ==
  /\ requests[i].by # None /\ late < may.late /\ late' = late + 1
  /\ Answered(requests[i].by, FALSE, [requests EXCEPT ![i].by = None])
  /\ UNCHANGED <<ui, Held, events, gateway, faults>>

(* The status that follows a confirmed request, and the end of _close.        *)
StatusAnswered ==
  \/ /\ AtWork("asking")
     /\ worker' = [worker EXCEPT !.step = "offering", !.result = Sample(worker.op)]
     /\ UNCHANGED <<ui, close, Held, events, gateway, requests, faults, late>>
  \/ /\ close = "asking" /\ close' = "closed"
     /\ UNCHANGED <<ui, worker, Held, events, gateway, requests, faults, late>>

StatusFails ==
  /\ faults < may.faults /\ faults' = faults + 1
  /\ \/ AtWork("asking") /\ Undone(requests) /\ UNCHANGED close
     \/ close = "asking" /\ close' = "open" /\ UNCHANGED <<worker, requests>>
  /\ UNCHANGED <<ui, Held, events, gateway, late>>

(* Ctrl+Alt+Esc, or a device lost. *)
HandsBack ==
  /\ gateway.armed /\ gateway' = [armed |-> FALSE, stray |-> FALSE]
  /\ UNCHANGED <<ui, close, worker, Held, events, requests, faults, late>>

-----------------------------------------------------------------------------
(* The clips.  The camera remembers the last of its jobs, until it reboots.   *)
Active == camera.running
Remembered(c, n) == {j \in c.known \cup {n} : j > n - KeptJobs}
Recording(c) == [c EXCEPT !.jobs = @ + 1, !.known = Remembered(c, c.jobs + 1), !.running = c.jobs + 1]

Starts ==
  /\ AtWork("posting") /\ worker.op = "start" /\ Active = 0 /\ camera.jobs < MaxJobs
  /\ camera' = Recording(camera)
  /\ \E told \in BOOLEAN : Ended(told, [Event("start") EXCEPT !.job = IF told THEN camera'.running ELSE 0])
  /\ UNCHANGED <<ui, close, readers, listers, poll, may, events, gateway, requests, faults, late>>

(* A clip that is over is refused, unless it was cancelled before.            *)
Stops ==
  /\ AtWork("posting") /\ worker.op = "stop"
  /\ \E ok, over \in BOOLEAN :
       /\ ok => worker.result.job \in camera.known /\ (over => Active # worker.result.job)
       /\ Ended(ok, [Event("stop") EXCEPT !.job = worker.result.job, !.over = over])
  /\ UNCHANGED <<ui, close, Held, events, gateway, requests, faults, late>>

(* What the camera was asked for is done, or was not to be had. *)
CameraEnds ==
  /\ AtWork("posting") /\ worker.op \in {"toggle", "snapshot", "start"}
  /\ \E ok \in BOOLEAN :
       Ended(ok /\ worker.op # "start",
             [Event(worker.op) EXCEPT !.job = IF worker.op = "toggle" THEN camera.reported ELSE 0])
  /\ UNCHANGED <<ui, close, Held, events, gateway, requests, faults, late>>

(* set_video_mode: its success is followed by the status. *)
ModeEnds ==
  /\ AtWork("posting") /\ worker.op = "mode"
  /\ worker' = [worker EXCEPT !.step = "asking"] \/ worker' = Failed
  /\ UNCHANGED <<ui, close, Held, events, gateway, requests, faults, late>>

(* The answer to any of these ends the thread (Dies).                         *)
AnswerBreaks ==
  /\ AtWork("posting") /\ worker.op \notin Releasing \cup {"arm"} /\ Dies
  /\ UNCHANGED <<ui, close, Held, events, gateway, requests, faults, late>>

(* Of its own accord, by another operator, or because its time is up.         *)
ClipEnds == Active # 0 /\ camera' = [camera EXCEPT !.running = 0]
OthersRecord == "clip" \in may.buttons /\ Active = 0 /\ camera.jobs < MaxJobs /\ camera' = Recording(camera)
GatewayHears == camera.reported # Active /\ camera' = [camera EXCEPT !.reported = Active]
CameraReboots == /\ camera.known # {} /\ faults < may.faults
                 /\ camera' = [camera EXCEPT !.known = {}, !.running = 0]

CameraGoesOn ==
  /\ \/ (ClipEnds \/ OthersRecord \/ GatewayHears) /\ UNCHANGED faults
     \/ CameraReboots /\ faults' = faults + 1
  /\ UNCHANGED <<ui, close, worker, readers, listers, poll, may, events, gateway, requests, late>>

-----------------------------------------------------------------------------
(* The queue.  A result waits for room, a sample is let go without it.        *)
Room == Len(events) < QueueSize

(* Defect: a sample makes room for itself. *)
OfferEvicting(e) == events' = Append(IF Room THEN events ELSE Tail(events), e)

OfferSample(e) == events' = IF Room THEN Append(events, e) ELSE events

Offer(e) == Room /\ events' = Append(events, e)

WorkerOffers ==
  /\ AtWork("offering") /\ worker' = Rest
  /\ IF close = "closed" THEN UNCHANGED events ELSE Offer(worker.result)
  /\ UNCHANGED <<ui, close, Held, gateway, requests, faults, late>>

ReaderOffers(i) ==
  /\ readers[i] > 0 /\ readers' = [readers EXCEPT ![i] = @ - 1]
  /\ IF close = "closed" THEN UNCHANGED events
     ELSE \E ok \in BOOLEAN : Offer([Event("media") EXCEPT !.ok = ok, !.item = i])
  /\ UNCHANGED <<ui, close, worker, listers, poll, gateway, requests, camera, may, faults, late>>

(* item is one that is not listed any more *)
Catalog(i) == [Sample("storage") EXCEPT !.armed = FALSE, !.item = i]

ListerOffers ==
  /\ listers > 0 /\ listers' = listers - 1
  /\ \/ \E i \in Media \cup {None} : OfferSample(Catalog(i))
     \/ OfferSample(Event("storage"))
  /\ UNCHANGED <<ui, close, worker, readers, poll, gateway, requests, camera, may, faults, late>>

(* _poll_loop *)
(* Defect: a clip is followed only while the environment is looked at. *)
AsksJobInView == ui.job # 0 /\ ui.source = "environment"

AsksJob == ui.job # 0

PollAsks ==
  /\ poll = NoEvent /\ close # "closed"
  /\ \/ poll' = Sample("status")
     \/ /\ "media" \in may.buttons /\ ui.source = "environment"
        /\ \E i \in Media \cup {None} : poll' = Catalog(i)
     \/ /\ AsksJob /\ ui.job \in camera.known
        /\ poll' = [Event("job") EXCEPT !.ok = TRUE, !.job = ui.job, !.over = Active # ui.job]
  /\ UNCHANGED <<ui, close, worker, readers, listers, events, gateway, requests, camera, may, faults, late>>

(* What ends a worker ends this thread as well. *)
Gone == Event("gone")

PollDies ==
  /\ poll = NoEvent /\ close # "closed" /\ poll' = Gone
  /\ faults < may.faults /\ faults' = faults + 1
  /\ UNCHANGED <<ui, close, worker, readers, listers, events, gateway, requests, camera, may, late>>

PollOffers ==
  /\ poll \notin {NoEvent, Gone} /\ poll' = NoEvent
  /\ IF close = "closed" THEN UNCHANGED events
     ELSE IF poll.kind = "job" THEN Offer(poll)
     ELSE OfferSample(poll)
  /\ UNCHANGED <<ui, close, worker, readers, listers, gateway, requests, camera, may, faults, late>>

-----------------------------------------------------------------------------
(* _drain_events: what the window makes of an event. *)
(* Defect: what a status says of control is ignored outside the target view. *)
KnownInView(u, e) ==
  [u EXCEPT !.shown = IF u.source # "target" THEN @ ELSE IF e.armed THEN "armed" ELSE "free",
            !.job = IF @ = 0 THEN e.job ELSE @]

Known(u, e) == [u EXCEPT !.shown = IF e.armed THEN "armed" ELSE "free",
                         !.job = IF @ = 0 THEN e.job ELSE @]

Done(u) == [u EXCEPT !.busy = FALSE]

ModeResult(u, e) == IF e.ok THEN Known(Done(u), e) ELSE Done(u)

ToggleResult(u, e) == [Done(u) EXCEPT !.job = IF e.ok /\ @ = 0 THEN e.job ELSE @]

(* Defect: a failed disarm leaves hide_after_disarm set. *)
ActionResultKept(u, e) ==
  IF ~e.ok THEN Done(u)
  ELSE [Known(Done(u), e) EXCEPT !.leaving = FALSE, !.hidden = @ \/ u.leaving]

ActionResult(u, e) ==
  IF ~e.ok THEN [Done(u) EXCEPT !.leaving = FALSE]
  ELSE [Known(Done(u), e) EXCEPT !.leaving = FALSE, !.hidden = @ \/ u.leaving]

SourceResult(u, e) ==
  IF e.ok THEN Viewing(Known(Done(u), e), "environment") ELSE Done(u)

ClipResult(u, e) ==
  IF ~e.ok THEN Done(u)
  ELSE IF e.kind = "start" THEN [Done(u) EXCEPT !.job = e.job]
  ELSE [Done(u) EXCEPT !.job = IF e.over THEN 0 ELSE @]

JobResult(u, e) == IF u.job = e.job /\ e.over THEN [u EXCEPT !.job = 0] ELSE u

MediaResult(u, e) ==
  IF u.asked # e.item THEN u
  ELSE [u EXCEPT !.asked = None, !.viewed = IF e.ok THEN e.item ELSE @]

StorageResult(u, e) ==
  IF ~e.ok THEN [u EXCEPT !.listing = FALSE]
  ELSE LET gone == u.viewed # None /\ u.viewed = e.item
       IN  [u EXCEPT !.listing = FALSE, !.viewed = IF gone THEN None ELSE @,
                     !.asked = IF gone THEN None ELSE @,
                     !.job = IF @ = 0 THEN e.job ELSE @]

Applied(u, e) ==
  CASE e.kind = "status"                      -> Known(u, e)
    [] e.kind \in {"arm", "disarm", "desktop"} -> ActionResult(u, e)
    [] e.kind = "source"                      -> SourceResult(u, e)
    [] e.kind = "mode"                        -> ModeResult(u, e)
    [] e.kind = "toggle"                      -> ToggleResult(u, e)
    [] e.kind \in {"start", "stop"}           -> ClipResult(u, e)
    [] e.kind = "job"                         -> JobResult(u, e)
    [] e.kind = "media"                       -> MediaResult(u, e)
    [] e.kind = "storage"                     -> StorageResult(u, e)
    [] OTHER                                  -> Done(u)

(* The results after which the media are listed again: a clip may have failed *)
(* and is not looked for then.                                                *)
Stores(u, e) ==
  /\ e.ok
  /\ \/ e.kind \in {"source", "snapshot"}
     \/ e.kind = "stop" /\ e.over
     \/ e.kind = "job" /\ e.over /\ e.job = u.job

Drain ==
  /\ close = "open" /\ events # <<>>
  /\ events' = Tail(events)
  /\ LET e == Head(events)
         u == Applied(ui, e)
     IN  \/ Stores(ui, e) /\ ui' = Refreshed(u) /\ Listing(u)
         \/ (Stores(ui, e) => e.kind = "job") /\ ui' = u /\ UNCHANGED listers
  /\ UNCHANGED <<close, worker, readers, poll, gateway, requests, camera, may, faults, late>>

-----------------------------------------------------------------------------
Operator ==
  \/ Arm \/ Disarm \/ Desktop \/ Clip \/ Close
  \/ Screenshot \/ SelectMode \/ ToggleCamera \/ Snapshot \/ RefreshStorage
  \/ ChooseEnvironment \/ ChooseTarget
  \/ \E i \in Media : Preview(i)
  \/ ClosePreview \/ Reopen

Gateway ==
  \E i \in DOMAIN requests : Handles(i) \/ Unreachable(i) \/ GivesUp(i)

Work == Enters \/ StatusAnswered \/ Starts \/ Stops \/ CameraEnds \/ ModeEnds

Next ==
  \/ Operator \/ Gateway \/ Work \/ StatusFails \/ AnswerBreaks \/ HandsBack \/ CameraGoesOn
  \/ WorkerOffers \/ ListerOffers \/ PollAsks \/ PollOffers \/ PollDies \/ Drain
  \/ \E i \in Media : ReaderOffers(i)

(* The gateway answers or the console gives up, the window drains its queue   *)
(* every 40 ms, the poll thread comes round to each of its samples, and the   *)
(* queue is not found full for ever.                                          *)
Fairness ==
  /\ WF_vars(\E i \in DOMAIN requests : Handles(i))
  /\ WF_vars(Work) /\ SF_vars(WorkerOffers) /\ WF_vars(Drain) /\ WF_vars(PollOffers)
  /\ \A kind \in {"status", "job"} : SF_vars(PollAsks /\ poll'.kind = kind)
  /\ WF_vars(CameraGoesOn /\ (ClipEnds \/ GatewayHears))
  /\ <>[][~(PollOffers /\ ~Room)]_vars

Spec == Init /\ [][Next]_vars /\ Fairness

-----------------------------------------------------------------------------
(* The queue and the budgets keep their bounds, nothing is begun while _close *)
(* waits for the gateway, and _close holds ActionGate alone.                  *)
TypeOK ==
  /\ Len(events) <= QueueSize /\ late \in 0 .. may.late /\ faults \in 0 .. may.faults
  /\ close \in {"posting", "asking"} => ~InGate
  /\ close = "open" \/ ~ui.busy

Answers == Releasing \cup {"arm", "screenshot", "mode", "toggle", "snapshot", "start", "stop"}

(* action_inflight and the preview in flight are set exactly as long as a     *)
(* thread or an event in the queue is there to clear them ("losing it would   *)
(* leave action_inflight latched", noob_local_console.py:2117): no result is  *)
(* lost in a full queue, none clears what another action has set.  A thread   *)
(* that has ended on an error it does not catch counts: see ButtonsComeBack.  *)
NothingStranded ==
  close # "closed" =>
    /\ ui.busy <=> worker # Rest \/ \E i \in DOMAIN events : events[i].kind \in Answers
    /\ ui.asked # None => \/ readers[ui.asked] > 0
                         \/ \E i \in DOMAIN events : events[i].kind = "media" /\ events[i].item = ui.asked

(* The target is out of reach of the appliance's keyboard, unless an arm the  *)
(* console had given up was carried out since.                                *)
Released == gateway.armed => gateway.stray

FailedArmUndone == AtWork("offering") /\ worker.op = "arm" /\ ~worker.result.ok /\ ~worker.result.over

(* Where the console tells its operator that the target is released, it is:   *)
(* once it is closed, while the environment is looked at, and when an arm was *)
(* not confirmed and the disarm that follows it was.                          *)
SaysReleased ==
  close = "closed" \/ ui.source = "environment" \/ FailedArmUndone => Released

(* "The viewer confirms local disarm before minimizing"                       *)
(* (docs/local-console.md:18), whatever actions failed before.                *)
HidesReleased == [][~ui.hidden /\ ui'.hidden => Released]_vars

(* A target that is armed, by a lost answer or after it was given up, is      *)
(* shown as armed in the end, as long as the poll thread lives.  That is what *)
(* enables the button to disarm.                                              *)
ArmedIsShown ==
  gateway.armed ~> (~gateway.armed \/ ui.shown = "armed" \/ close = "closed" \/ poll = Gone)

(* A clip that is over does not block the next one, whoever recorded it and   *)
(* however old the status is that brought it up again: the console drops it,  *)
(* if the camera still knows of it and the poll thread lives.                 *)
ClipsAreForgotten ==
  <>[](close = "closed" \/ ui.job = 0 \/ ui.job \notin camera.known \/ poll = Gone)

(* "Serialize arm/disarm with shutdown so the final action is always disarm"  *)
(* (noob_local_console.py:259), of what the gateway carries out.              *)
ClosedIsDisarmed == close = "closed" => ~gateway.armed

(* "Environment camera is live. Target input remains safely disarmed."        *)
(* (noob_local_console.py:2539)                                               *)
EnvironmentIsDisarmed == ui.source = "environment" => ~gateway.armed

(* A clip that the camera has forgotten, by a reboot or over later ones, is   *)
(* dropped as well: the button is "STOP CLIP while the job is queued or       *)
(* running" (docs/local-console.md:51).                                       *)
NoClipLost == <>[](close = "closed" \/ ui.job = 0 \/ poll = Gone)

(* Every action comes to an end, and the buttons are there again ("Never      *)
(* evict an older action result: losing it would leave action_inflight        *)
(* latched and could strand an operator", noob_local_console.py:2116).        *)
ButtonsComeBack == ui.busy ~> ~ui.busy \/ close = "closed"
=============================================================================
