# Verification of N.O.O.B

TLA+ models of the program in `gateway/`, `pico/`, `camera/`, `appliance/`,
`operator/` and `integrations/`, the TLC runs that check them and the proofs
TLAPS checks. Line numbers are those of the repository at the modelled commit;
`PROJECT.json` maps every definition to its lines, every property to the run
that checks it and to a mutation of the code that breaks it.

## 1. The system

N.O.O.B puts a keyboard, a mouse and a screen grabber between a *target*
machine and whoever operates it. A small computer runs the *gateway*, one
asyncio process. It reads the target's HDMI output through a `v4l2-ctl` child
process and types at the target through a *Pico*, a microcontroller on a UART
that is a USB keyboard and mouse. Controllers are HTTP clients (the Electron
operator, the agent plugin, the static viewer) and the keyboard and trackball
built into the appliance.

    operator / plugin / viewer --HTTP--> gateway <--evdev-- built-in keyboard,
                                         |  |  |             trackball
                          v4l2-ctl <-----+  |  +--HTTP--> environment camera
                          (HDMI frames)     |
                                          UART --> Pico --USB HID--> target

| Component | State | Operations | Talks to | What is hard | What makes it correct |
|---|---|---|---|---|---|
| control lease (`control_lease.py`) | id, deadline, release latch | claim, renew, validate, release, expire, force_clear, mark_release_required, snapshot | handlers | expiry is noticed lazily by whichever method comes first | a lapsed lease is never revived; its release is owed until consumed; no grant over a release that is owed |
| control plane (`app.py`) | lease, `control_gate`, `_local_lease_id`, `_video_switching` | endpoints, deadman watchdog, submit and release of the built-in controls | all of the below | handlers interleave at every await, two locks, a command outlives the gate that authorised it | one pair of hands at a time; what is down is live or its release is on record; silence ends in release |
| serial link (`serial_link.py`) | session, sequence number, abort generation, two locks, pending exchanges | send_command, emergency_release, heartbeat, supervisor, reader | Pico | loss, retransmission, stale answers, restarts of the Pico, fencing | at most once, in public order, nothing after a release |
| Pico (`pico/`) | session, answer cache, held keys and buttons, timers | session, ping, release_all, key, button, click, type, combo, move | target | junk, silence, USB errors | nothing stays down unwatched or for ever |
| built-in controls (`local_input.py`) | armed, grabs, physical and forwarded keys, withheld chord, motion, idle task | arm, disarm, read, feed, idle release | control plane | batches read before a disarm, device loss, the emergency chord | what is down is tracked; the chord stays home; the lease goes back |
| command models (`models.py`) | none | validation, cost | handlers, link | edges of report and batch limits | every admitted move fits one burst |
| HDMI capture (`video.py`) | state, active and desired mode, generation, frame, child process | supervise, select_mode, rollback, stop | control plane, `v4l2-ctl` | cancellation in the middle of a cleanup, rollback, stop at any time | one process, no stale frame, every switch settles |
| environment camera client (`environment_camera.py`) | boot id, generation and public generation of the camera, what was verified, the last frame, `_mutation_lock`, `_connection_epoch` | status loop, stream loop, frames, `set_enabled`, snapshot, clip, stored media | camera, browsers | answers that arrive after the view moved on, restarts and refusals of the camera, lost answers | a public number names one state of one boot; no frame of another camera; no change over an unseen one; the view catches up |
| camera firmware (`camera/main`) | enabled, generation, clip job, media index, network state | capture task, API, provisioning | gateway | tasks, timers, SD card | an acknowledged enable holds; a job ends in one state |
| local console (`appliance/`) | the window's state, `ActionGate`, event queue, clip job, media in flight | buttons, poll, worker, media and listing threads, drain, close | gateway, camera | results over a bounded queue, requests given up after a timeout, late samples | no button stays disabled; what it says of the target is so, or it says nothing |
| operator (`operator/`) | input queue, ownership, device store | claim, arm, input, blur, emergency | gateway | overlapping polls and transitions | late answers do not restore ownership |
| agent plugin (`integrations/`) | sessions, control, receipts | claim, input, drag, renew, emergency | gateway | retries after uncertain transport | a request is executed once |

The control plane is what the rest exists for, and the part a test reaches
least: most of its hazards take two coroutines and a lost session. It is
modelled first, together with everything below it down to the target; then the
camera's client and the console, which show a person what is in front of them
and so must not show something else. The hazards, each at its line, are in
`PROJECT.json`; those of parts without a module are named in section 8.

## 2. Modules

| Module | Models | State and actions |
|---|---|---|
| `Lease` | the methods of `ControlLease` as operators on a record `[id, lapsed, owed]` | `lapsed` is "the deadline has passed"; `Clock(L)` offers both answers a method may get from the clock |
| `LeaseService` | the lease without a clock: what its callers may rely on | one variable, one action per method |
| `ControlLease` | `control_lease.py` with the deadline | one action per method and outcome; `Tick` is the monotonic clock; `debt` is history |
| `GatewayControl` | `app.py` with the lease (`Lease`), the locks of `local_input.py` and the link as a service | one record per coroutine (`co`): where it waits, the section it runs under `control_gate`, what it wants of the link |
| `SerialSession` | `serial_link.py` and the Pico as far as it shows on the UART | queues for `_public_lock` and `_wire_lock`, one exchange, lines in flight both ways |
| `PicoFirmware` | `pico/code.py`, `pico/protocol.py` | one action per pass of the main loop or line consumed; `usb` is what is down at the target |
| `LocalInput` | `local_input.py` | readers with their batches, one action per record fed |
| `MouseMotion` | motion in `local_input.py`, limits in `models.py`, splitting in `serial_link.py` | gather, flush, split, send; `packed` is what the burst so far carries, `owed` is history. Its definitions are `MotionInit`, `MotionNext`, `MotionSpec`, as its proofs stand beside those of `LocalInput` |
| `VideoCapture` | `video.py` | program counters of the supervisor, of select_mode and of stop; a set of live child processes |
| `EnvironmentCamera` | `environment_camera.py`, the camera's boot, generation and answers (`camera/main`) | one record per request in progress (`task`): where it is, the public number it saw, the answer on its way; `view` is what the gateway holds |
| `LocalConsole` | `noob_local_console.py`, as much of the gateway and the camera as it sees | the window's state `ui`, one worker, counted readers and listers, the poll's sample, the bounded queue, requests the gateway has not carried out |

`MC*` modules give the constants to TLC, `*Proofs` modules hold theorems.

How the modules fit together: `ControlLease` implements `LeaseService`
(refinement, checked and proved), whose operators are those of `Lease`, and
`GatewayControl` is built on `Lease`. So the control plane can treat "has the
deadline passed" as a free choice at every read of the clock, and loses
nothing. `GatewayControl` has the link as a service that carries one command at
a time, may lose its session at any moment and refuses a command whose
generation is stale; `SerialSession` shows that the link is one. `SerialSession`
has of the Pico the session, the cache and the order of execution; `PicoFirmware`
has the rest of it. `LocalInput` sees a submitted command accepted or refused;
`GatewayControl` has what the submission meets. `EnvironmentCamera` and
`LocalConsole` stand beside it: the camera shares no state with the control
plane, and the console is to the gateway a client of the local-input endpoints
whose requests may be carried out after it has given them up. In
`GatewayControl` such a request is a coroutine like any other.

### Atomicity

A coroutine gives up the event loop only where it really waits, so one action
is what it does between two such points. In `GatewayControl` these are: waiting
for `control_gate`, for the event lock, for the link, for a mode switch. The
lease has a lock of its own that is never held across an await that suspends,
so a method of it is one step. `asyncio.Lock` is first come, first served: both
locks are queues whose head is the holder. In `LocalInput` a handler runs under
the event lock from beginning to end, and what it can meet outside that lock is
the subject of `GatewayControl`; it is one step there. The Pico has one thread.
In `VideoCapture` every await of the supervisor, of `select_mode` and of `stop`
is a step of its own, because a cancellation may strike there. In
`EnvironmentCamera` a request, the camera's answer and its application under
`_mutation_lock` are three steps, and a wait for the lock a fourth; the lock is
kept by a change from its check to its answer. The console has real threads:
what a thread does to the window is the putting and the draining of one event,
and `ActionGate` is held from an action's first request to its last answer.

### Abstractions

Text, key names and modes are model values. A line on the UART is one command
or junk. Positions and deltas are small integers with the limits scaled, kept
apart where the code keeps them apart. A lease id is its number. A rate-limit
refusal and a validation error are outcomes that may happen. Time is a counter
in `ControlLease` and `PicoFirmware`, and a choice elsewhere. Counters that the
code leaves unbounded have a bound that is a constant (`Max...`), each named as
a bound where it is declared.

In `EnvironmentCamera` the connection epoch is a flag of each request, "it is
still what it was"; the ageing of a frame is a step that may come at any time;
the number of viewers is that of the browsers that watch; every answer carries
the proof of the hardware and of the network, because the camera starts its API
after its probe. `seen` and `overtaken` of a request are the browser's side, for
`NoChangeLost`. `stop` comes when no request is left, as the server closes its
connections first. In `LocalConsole` a failed listing may or may not name the
stored media, a thread in the middle of a request is only counted, and the
camera is configured; it remembers its last `KeptJobs` clips.

The console catches in its threads only the error it raises itself
(`noob_local_console.py:1648`, `:2878`, `:2914`). Any other, an `OSError` while
the body of an HTTP error is read (`:1364`) or an answer that is not HTTP, ends
the thread: the worker without a result (`Dies`, step `dead`), the poll thread
with everything it samples (`PollDies`, `Gone`). Wherever a request may fail it
may end its thread instead, carried out or not, which is more than the code can
do. A reader or a lister that ends so is one that does not go on, as no fairness
is assumed of either. The same error during `_close` leaves it closing for good
and is left out.

In `LocalInput`, `grabbed` is what the manager believes it has grabbed and
`exclusive` what the kernel keeps from everybody else. They part when a device
cannot be given back (`local_input.py:333`, `:617`), which the code goes on over;
`stuck` remembers those, for the properties. The kernel refuses to grab what is
still grabbed, and gives back by itself what is closed. A drain that fails
leaves its device's records.

## 3. Runs

| Run | Instance | Question |
|---|---|---|
| `control_lease` | ttl 2, 3 grants, 8 ticks | Is expiry ever forgotten, or a lease granted over a release that is owed? Does the class implement `LeaseService`? |
| `http_control` | 2 requests that claim, send input, release or call emergency; 2 leases; 1 loss of the session or self-release of the Pico; the watchdog | Is what is down always owned or on record, is a command fenced from later leases, is every request answered, does silence end in release? (No readers and no arm: the cycle of the two locks is the question of `lock_order`.) |
| `local_control` | 1 request of every kind beside a reader, the idle task and the watchdog, or 2 that claim, arm, disarm and switch the mode; 2 leases; 1 fault | Is only one controller's input ever down; is the remembered local lease the live one; can an HTTP lease coexist with armed controls, or a mode switch with hands? |
| `lock_order` | 2 requests, arm and emergency; 1 lease | Is the emergency endpoint answered? (It is not, see section 6.) |
| `pico_firmware` | 2 sessions, 1 key, 1 button, 2 sequence numbers, cache of 1, clock to 5 | Is what is down tracked, watched and let go in time? |
| `serial_session` | a text of 2 chunks, a burst of 1 report, an emergency release; 2 sessions; 1 line lost or spoilt, restart or error | At most once, in order, nothing after a release, fail closed, clean sessions |
| `serial_live` | a burst of 2 reports beside the heartbeat with numbers modulo 5 that wrap; 2 sessions; 1 fault | Are callers answered, is a lost session noticed, was an acknowledged piece executed? |
| `local_input` | 4 movements of hands over 2 chord keys, a plain key and a button; 2 arms; 1 refused command, release not confirmed, or device not grabbed, drained or given back; devices lost at any time | Is arming all or nothing, is what is down tracked, does the chord stay home, does the lease go back, does a key let go of come up? |
| `mouse_motion` | a report of 4, a burst of 2, an axis of 8, an accumulator of 19; deltas -3, 1, 6; requests around the edges | Is no movement lost, does every move fit a burst, is its cost right? |
| `video_capture` | 2 modes, 2 processes alive at a time, 3 sessions | Are published mode, frame and state consistent, is a rollback target proven, does a switch settle and stop return and stay? |
| `environment_camera` | 2 browsers with one of four pairs of wishes (change and fetch, change and watch, change and change, store); 2 boots, 3 generations, 1 lost request or rejected answer | Is the view, or a frame, ever of another camera than the one named; is a change made over one its browser had not seen; does the view catch up? |
| `local_console` | an operator who arms and leaves, one who records clips, one who looks at stored media, one who saves pictures; a queue of 2, 2 media, 2 clips, 2 readers, 1 lister; 1 clip remembered; up to 2 failed requests and 2 given up; threads that end | Does a button stay disabled; does the console say, or hide over, a release that is not; is an armed target shown; does a finished clip block the next? |

### Why the bounds are enough

* Two requests, two leases and one fault: every hazard listed for the control
  plane is between two actors (an old controller and a new one, a handler and
  the watchdog, a reader and the idle task), and one loss of the session is
  what turns a command into one of unknown fate. A third lease shows nothing a
  second does not, as an id is never reused. `local_control` has one request at
  a time because the built-in controls bring three more coroutines.
  Expiry, which may happen at any time, is not counted as a fault.
* A lease of two ticks can be renewed once and run out unnoticed; eight ticks
  let two more follow.
* A text of two chunks in `serial_session` and a burst of two reports in
  `serial_live` are the shortest that can be interrupted in the middle, and the
  cache of 2 for a burst of 2 is tighter than 16 for 8. The instance with both
  at full length (5.8 million states) was searched too and showed nothing else;
  the safety proofs hold for every length. Sequence numbers wrap in `serial_live`
  only, where the heartbeat uses them up: `Modulus > 2 * CacheSize` is assumed
  in both, which 2^32 and 16 satisfy by far, for with fewer numbers an answer
  in the cache could be taken for the answer to a new command.
* The Pico: a cache of one with two numbers makes every entry be evicted; the
  clock reaches past the watchdog of 1 and the held limit of 2 with passes of
  length 1. The proofs hold for every value of these.
* Four movements are enough to press and release a key around the chord, or to
  leave a key in a batch that outlives a disarm; batches are of up to two.
* `mouse_motion`: moves one below, at and one above a report, a burst and the
  accumulator, and the constants keep the proportions that the code's have:
  the axis limit is a report times a burst, the wheel limit one report, the
  accumulator more than twice the axis limit. The proofs hold for every value.
* `environment_camera`: two changes can overtake each other, a reboot starts the
  generations from the beginning, so that the same number comes twice, and three
  generations let a boot be left with a higher one than the next has. One lost
  answer is the change its browser never heard of. An instance with all the
  wishes at once was searched for the safety properties alone (7.5 million
  states) and showed nothing else. The proofs hold for every value of these.
* `local_console`: the four operators use disjoint parts of the window but for
  the source, which is in all of them. A queue of two fills with a sample and a
  result, where a third has to wait or is dropped; the code's is of 32. Two
  readers of one medium are what a second look at it starts. The camera's firmware
  remembers eight jobs (`media_store.cpp:33`); with one of two, a clip is
  forgotten over a later one as well as by a reboot.
* `local_input`: one failure is enough to break an arm off at either device or in
  a drain; two arms let the second meet what the first left behind.
* Two modes and a rollback; two processes at a time show the overlap that one
  orphan makes, three sessions let a switch fail, roll back and be followed by
  another.

Deadlock checking is on where the system must always have something to do. It
is off where the bounds or the system itself let everything come to rest: hands
no longer move, sessions are used up, capture is stopped, the console is
closed. What must not stop is
then said by the liveness properties.

### Fairness

Clients, hands and faults are never assumed to act. What is assumed:

* `GatewayControl`: a coroutine that can go on does (the event loop runs ready
  tasks in turn); the Pico answers; the supervisor tears down and reconnects
  (its loop has a bounded backoff); the watchdog and the idle timer wake up;
  time passes; a session with a Pico that has none is lost in the end (the
  heartbeat gets a NACK). Strong fairness only of the end of one event: a
  reader cannot have a record that consists of infinitely many commands.
* `SerialSession`: callers, wire, reader, Pico, heartbeat, opening and teardown,
  each weakly fair. Faults are bounded, so a retransmission succeeds eventually
  or the session ends.
* `LocalInput`: a reader whose device has data reads and feeds it, the idle
  timer fires, the gateway's watchdog completes a release that failed.
* `VideoCapture`: a supervisor that was cancelled comes to its end, one that
  waits for its process kills it when it is overdue; `select_mode` and `stop` go
  on. Nothing is assumed of `SIGTERM` or of frames: the code has timeouts for
  both.
* `EnvironmentCamera`: the status loop asks again, the camera answers it and a
  change that has the lock (every request has a total timeout), and the status
  gets the lock however often others take it (`asyncio.Lock` is first come,
  first served). Reboots and faults are bounded.
* `LocalConsole`: the gateway carries out what it was sent, threads go on, the
  window drains its queue every 40 ms, the poll thread comes round to the status
  and to the job. That samples are not dropped over a full queue for ever
  (`<>[][~(PollOffers /\ ~Room)]_vars`) is an assumption on the load: the queue
  is drained faster than the poll thread fills it.

## 4. Properties

What each one says is in the comment above it. Those worth knowing:

* `SingleHand`, `ReleaseOnRecord`, `FencedSend`, `DeadmanReleases`
  (`GatewayControl`) are together the promise of the control plane: nobody's
  key is down under somebody else's lease; what is down belongs to the live
  lease or its release is owed or being sent; a command that waited too long
  reaches the wire only while its undoing is still to come; and a controller
  that falls silent is cleaned up.
* `AtMostOnce`, `PublicOrder`, `ReleaseIsFinal`, `FailClosed` (`SerialSession`)
  are the promise of the link.
* `HeldNeedsSession`, `DownIsTracked`, `WatchdogBound`, `HeldBound`
  (`PicoFirmware`) are the promise of the last line of defence, which has to
  hold whatever the gateway does; the last two make up `LetGoInTime`. They have the slack the code has:
  the time is read at the top of a pass, so both may be late by two passes.
* `LetGoWhenReleased` (`LocalInput`) has the premise that no batch was carried
  over into a second arming. Without it the property fails, a consequence of
  the stale batch of section 6: a key down from before the disarm is forwarded
  and its key up was drained.
* `GenerationNamesOne`, `ViewIsCurrent`, `NoChangeLost`, `Converges`
  (`EnvironmentCamera`) are the promise of the camera's client. `NeverAhead`, part
  of the second, is the one that keeps a result put down to the wrong boot from
  locking out the status that would correct it. A stream may already show the
  next boot, which the gateway does not know of; a fetched frame may not.
* `SaysReleased`, `HidesReleased`, `ArmedIsShown`, `NothingStranded`,
  `ClipsAreForgotten` (`LocalConsole`) are what its operator relies on. The first
  two except a target that was armed by a request the console had given up, see
  section 6. `NothingStranded` counts a thread that has ended on an error it does
  not catch, and `ArmedIsShown` and `ClipsAreForgotten` are said of a console
  whose poll thread lives: without it nothing is sampled.
* `AllOrNothing` (`LocalInput`) sets what the manager believes against what the
  kernel does: both devices or none, through an arm that fails half way and is
  rolled back. What is left out of reach is only what the kernel refused to give
  back; the code reports `exclusive_ungrab_failed` and does not try again.
* `Implements` (`ControlLease`): every step of the class is a step of
  `LeaseService` or a stutter, under the mapping `lapsed == expires_at <= now`.

## 5. Proofs

Checked by TLAPS for every value of the constants that satisfies the module's
ASSUME.

| Module | Theorems | Argument |
|---|---|---|
| `GatewayControlProofs` | `Typing`, `NeverForgotten`, `OneHandAtATime`, `LocalLeaseIsOwn`, `ArmedExcludesHttp`, `NoHandsWithoutEyes`, `FencedHolds` | `IInv` says of every coroutine what it may rely on where it waits (`Coherent`): who sends a release or arms has `control_gate`, a reader at work has the event lock, nobody has a lease while a release is sent, a command waiting for the link carries the lease under which it was admitted unless its generation has passed, and what is on the wire is what its sender sent. With it, what is down, or on its way down, is on record (`InputKnown`). `SingleHand` is not inductive: that a claim finds nothing down rests on the drain it waits for having reached the Pico, which is the part about the wire. Every step is reduced to one of a few lemmas on what it leaves alone (`StillKeeps`, one coroutine moves, the lease changes under the gate); `FencedSend` is then a property of the one step that puts a command on the wire |
| `SerialSessionProofs` | `Typing`, `UnknownTakesGeneration`, `ReadyIsFresh`, `ExecutedOnce`, `InPublicOrder`, `AckedWasExecuted`, `ReleaseFinal` | `IInv`: the queues hold who their place says (`Queued`), only the head of the wire has begun (`OneAtATime`), a generation that was given is not ahead and has passed once the session of an exchange that began is gone (`Fates`), the lines to the Pico are sorted by session (`Sorted`), and whatever names a session in an answer shows that the Pico has come to it and that nothing of an earlier one can follow (`Told`). `FreshReady` rests on the last: `ready` is set by an answer, which may be an old one from a cache or a driver's buffer. `ExecutedOnce` and `InPublicOrder` rest on a second layer, `JInv`, which follows a piece of a command on its way: it gets its number when it joins the queue for the wire (`Numbered`), is written once or again with nothing but its own burst in between (`Grouped`, `Rewritable`), and as long as a line may come a second time the Pico still has its answer (`Repeats`, `Kept`); that the cache is long enough is a pigeonhole argument (`KeptOn`). The pieces of a command are together and in order over what was executed and what is still to come (`Ordered`, `Unfinished`), and nothing of a session comes before the line that opens it (`Opened`). The last two theorems rest on a third layer, `KInv`, see below |
| `VideoCaptureProofs` | `StatusIsTrue`, `FallsBackToProven`, `NothingAfterStop` | `IInv` says whose supervisor and process there are: a supervisor that nobody refers to any more is on its way out (`Taken`), who took it down waits for its end before there is a new one (`Handed`), the transition event says of it what it did (`Promised`), and a public state that promises frames has a supervisor streaming in the active mode (`Served`) |
| `EnvironmentCameraProofs` | `Invariance`, `ViewHolds`, `NamesOne`, `ChangesAreSeen` | `IInv` says of the view that it is never ahead of the camera; of each request that an answer on its way is of a state the camera was in, that only the holder of the lock is at the camera (`HeldBy`), that a change in between shows in the generation as long as the number its browser saw is the current one (`FenceOf`), and that what it brings fits the view while its epoch is current (`EpochOf`). Lemmas say what a step leaves of the requests it does not move: the view stays of the same state, or its public number grows and the epoch ends (`OneMoves`, `EpochStep`). None of the parts is inductive alone: a frame fits because its epoch is current, the fence holds because a status cannot be applied while a change has the lock |
| `ControlLeaseProofs` | `Typing`, `ClaimOverNoDebt`, `DebtIsNeverForgotten`, `LapsedStaysLapsed`, `Refinement` | `IInv` is the conjunction of typing, "no running lease with a debt" and "a debt is latched or about to be"; no part is inductive alone, as claim may be granted only because every expiry was latched. `StepIInv` goes through the methods; the refinement uses `IInv` for the record that the mapping makes of the state, one case per method |
| `PicoFirmwareProofs` | `Typing`, `SessionOverInput`, `InputIsTracked`, `WatchdogHolds`, `HeldHolds`, `LetGoHolds` | `IInv` adds to typing that the target's state is within `held_keys` and `held_buttons`, and that these are empty without a session. The time bounds need `TimeInv`: the time the pass has read is at most one pass behind the clock, and the session and every key held are overdue by at most one more pass, and by none once the deadlines have been looked at |
| `LocalInputProofs` | of `LocalInput`: `DownStaysHeld`, `ChordIsKeptBack`, `NeverHalfArmed`, `IdleReleaseIsScheduled`; of `MouseMotion`: `MotionTyping`, `ArriveWhole`, `NothingLost`, `BurstsFit`, `CostIsRight`, `NoOvershoot` | `KeysInv`: what is down is forwarded, what is forwarded or kept back is physically down, and the whole chord is never physically down, because its last member resets the state; so it never gets out, not even as what a refused command leaves behind. `NeverHalfArmed` is `AllOrNothing`: `GrabInv` adds that what the kernel keeps exclusive is what the manager has grabbed or what is `stuck`; the roll back of a failed arm gives back what it had got, but for what it fails to. The idle release needs that a lease is only had while armed (`LeaseInv`); a handler either hands back, schedules or touches none of it. For the movements: lemmas about clamping and about division by the report limit, stated with symbolic limits, then conservation over gather, flush and send |
| `LocalConsoleProofs` | `Typing`, `NothingIsStranded`, `ReleasedAsSaid`, `HiddenIsReleased` | `IInv`: one action at a time, by its thread or by its one result in the queue (`OneAction`), which is the action of the button last pressed (`OfButton`); a request somebody waits for is the one request of that thread or of `_close` (`Waited`). `SaysReleased` and `HidesReleased` are not inductive: the window says what an event says, the event what its thread was told, the thread what the gateway did. `Confirmed` is all of that way, from the answer to the disarm to the view it brings up, and whatever is on it finds the target released. That stays so because whoever could arm is at the start of the same way: an arm somebody waits for is the one action, so nothing is confirmed; an arm nobody waits for any more makes the gateway `stray`. What an event does to the window is one relation (`Does`), shown for each kind (`AppliedDoes`) |

The assumptions are on constants only and are those the code's configuration
and constants satisfy: a positive lease time, a chord of two to four keys,
`AxisLimit <= BatchLimit * ReportLimit`, background tasks that are not browsers,
a generation that is `None` being none of the numbers and a request that nobody
waits for having no caller.

`KInv` of `SerialSessionProofs` says that an answer to a number is an answer to
the exchange that has it now. The Pico answers from a cache by session and number,
numbers come round, and a release that is acknowledged by an old answer would
raise the fence over lines that are still to be executed. Its parts follow a number
from `_next_sequence` until it is forgotten: the numbers in the queue are distinct
(`Distinct`), an exchange that has not begun has numbers that nothing else has
(`Unseen`), what has a number of the exchange on the wire is a line of it (`Mine`),
once something shows of that exchange nothing older is before it at the Pico, in
its cache or in the answers (`InTurn`), so what is acknowledged was executed
(`Genuine`) and what may still be executed is not behind the fence (`Fenced`). All
of it rests on `Recent`: how far a number is behind `sequence` on the circle of
numbers is bounded for the exchanges in the queue by what joined after them (an
input, a heartbeat, the releases), for what is in the UART by that and one exchange
more for each release that may yet overtake an input, for the cache by one more for
each entry after it. A release overtakes an input after the input has taken its
numbers and before it is written, so these are skipped, and the cache then spans
more of the circle; that is why the releases of a behaviour count against the
numbers, and nothing else does, neither inputs nor heartbeats, faults or sessions.
Hence the hypothesis of both theorems, `RoomForReleases`: there are finitely many
releases and `Modulus > CacheSize * (CacheSize + 2 * Cardinality(Releases) + 5) + 1`.
The code's 2^32 numbers and cache of 16 satisfy it up to 134217717 emergency
releases. It is sufficient, not necessary: the two runs use fewer numbers, and TLC
finds both properties to hold there as well.

TLC found each inductive invariant to hold on the instances of the runs before
it was proved, `KInv` on such instances with as many numbers as its hypothesis asks
for. Induction over numbers goes through a smallest counterexample
(`WFMin`), as in `Smallest` and `InOrderExists`: that the unanswered lines of a
burst can be put in order. The sequence numbers of a burst are written in closed
form in the model; `NumbersFollow` proves that they are what as many calls of
`_next_sequence` give.

Every safety property of the passing runs, invariant or action property, is a
theorem, `AckedIsExecuted` and `ReleaseIsFinal` under `RoomForReleases`; so are
the type invariants that no run repeats (`Typing`).
Only model-checked: all liveness and everything that depends on fairness
(`Answered`, `DeadmanReleases`, `CallersReturn`, `LostSessionNoticed`,
`LetGoWhenReleased`, `AllSettles`, `Converges`, `ArmedIsShown`,
`ClipsAreForgotten`): it needs `ENABLED`, which this prover cannot reason about.

## 6. Where code and text disagree

One is checked as a run that TLC must find violated:

* **Lock order** (`lock_order`, `EmergencyAnswered`). `arm_local_input`
  (`app.py:436`) waits for the event lock with `control_gate` held. A reader, the
  idle release or a disarm holds the event lock and waits for `control_gate`.
  A second arm while the controls are armed and one event is under way is
  enough: neither goes on, and the emergency endpoint, which takes the event
  lock first, is never answered. `docs/recovery.md:43` names that endpoint as
  the way out.

Others are reproduced by a configuration of their own, each with one
property that is known not to hold (`tlc -config <cfg> <module>`):

| Configuration, module | Property | What the code does | What is said |
|---|---|---|---|
| `GatewayControlPreempt.cfg`, `MCGatewayControl` | `NoSilentPreemption` | a command of an earlier controller that fails late ends whatever lease there is (`app.py:359`) | `README.md:205` "cannot silently preempt one another" |
| `GatewayControlConfirm.cfg`, `MCGatewayControl` | `ConfirmedIsReleased` | a disarm is confirmed when the local lease is gone, with its release still owed (`app.py:412`) | `docs/local-console.md:165` "if release cannot be proven, the viewer stays visible" |
| `PicoFirmwareAck.cfg`, `MCPicoFirmware` | `AckedDownIsDown` | a click of a held button lets it go and leaves it in `held_buttons`; the next press is acknowledged and not executed (`pico/code.py:249`) | `docs/acceptance.md:54` "accepted and executed" |
| `LocalInputChord.cfg`, `MCLocalInput` | `ChordStaysHome` | a plain key pressed with part of the chord flushes that part to the target, and completing the chord then disarms (`local_input.py:451`) | `README.md:172` "the reserved chord is never forwarded". `ChordNeverWhole`, which holds, is what remains |
| `VideoCaptureOne.cfg`, `MCVideoCapture` | `OneProcess` | the supervisor forgets its process before it waits for its end (`video.py:475`); cancelled there, it leaves it to nobody and the next one starts beside it. At most one is alive that was not asked to end (`Consistent`) | `video.py:209` "Own exactly one streaming V4L2 process" |
| `EnvironmentCameraReachable.cfg`, `MCEnvironmentCamera` | `ReachableIsPinned` | a stored image that arrives after the identity was rejected makes the camera reachable again (`environment_camera.py:1260`) | `docs/environment-camera.md:110` "reachable proves an authenticated API response from the pinned ID" |
| `EnvironmentCameraStream.cfg`, `MCEnvironmentCamera` | `StreamOfThisBoot` | a stream opened after a reboot shows the new boot under the public number of the old one until the next status | nothing; `FramesAreCurrent` says how far it goes |
| `LocalConsoleClose.cfg`, `MCLocalConsole` | `ClosedIsDisarmed` | an arm given up after 1.5 s still waits for `control_gate` (`app.py:436`); the disarm of the close overtakes it, and the arm is carried out after it. `EnvironmentIsDisarmed` fails the same way | `noob_local_console.py:259` "so the final action is always disarm"; `:2539` "Target input remains safely disarmed" |
| `LocalConsoleClip.cfg`, `MCLocalConsole` | `NoClipLost` | a clip that the camera has forgotten, by a reboot or over eight later ones (`media_store.cpp:33`, `:816`), is known to nobody, its status is an error, and the console keeps the job | `docs/local-console.md:51` "STOP CLIP while the job is queued or running" |
| `LocalConsoleThread.cfg`, `MCLocalConsole` | `ButtonsComeBack` | a connection that breaks off in the body of an HTTP error (`noob_local_console.py:1364`) ends the worker with `action_inflight` set; no button works until the console is restarted | `noob_local_console.py:2116` "losing it would leave action_inflight latched and could strand an operator" |
| `LocalInputStale.cfg`, `MCLocalInput` | `NothingFromBefore` | the rest of a batch read before a disarm is fed after the next arm (`local_input.py:421`) | `local_input.py:195` "Discard any event records queued before the explicit arm boundary" |

## 7. What is not modelled

Authentication, configuration parsing, HTTP routing, JSON, the JPEG stream
parser and the viewers' condition variable of `video.py`, cancellation of the
HTTP handler that waits for a mode switch, start-up and shutdown of the
gateway. A USB error in the release that follows a USB error ends the
firmware's loop; the board restarts it, outside the repository.

Of the camera's client: the validation of its answers field by field, the sizes
of bodies, the listing of media and clip jobs (passed through with their
numbers), a probe of the sensor that times out. Of the console: drawing, zoom,
pinning and full screen, the decoding of frames, the instance lock, pairing.
Of the firmware of the camera: the capture task, the store of media and the
network, planned below. The provisioning scripts run once on a host against a
bootloader and a network whose state is not in the repository. Packaging,
styles and components are I/O or presentation. The operator and the plugin are
planned below.

## 8. Plan

Order of work, the most important behaviour first:

1. *Done*: `Lease`, `LeaseService`, `ControlLease`, `GatewayControl`,
   `SerialSession`, `PicoFirmware`, `LocalInput`, `MouseMotion`, `VideoCapture`,
   `EnvironmentCamera`, `LocalConsole` and the proofs above.
2. The other end of the camera's client: `CameraManager` (probe, standby, enable
   generations; hazard: `set_enabled` during the probe,
   `camera_manager.cpp:248`), `MediaStore` (clip job, cancel against publish at
   `media_store.cpp:740`, retention) and `NetworkManager` (reconnect,
   provisioning). Runs: one clip with a cancel and a change of generation;
   reconnect as liveness under a fair timer.
3. `OperatorControl`: the input queue with its barriers and invalidation, the
   ownership transitions with the mutation generation, overlapping polls
   (`useOperatorController.ts:376`), blur and emergency. `PluginControl`:
   receipts, a request id that is remembered only after its action
   (`runtime.ts:403`), expiry during a drag. Both over the gateway's promises,
   one client and one rival.
4. The provisioning run of `provision_from_uconsole.py` with its lock and its
   undoing, the token bucket, the device store's lock, the JPEG stream parser as
   a pure algorithm against a reference definition, the bounds of `config.py`,
   shutdown.
5. `ExclusiveControl`, an abstract specification of the control plane (who has
   hands, what is owed), implemented by `GatewayControl`.
