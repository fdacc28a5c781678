--------------------------- MODULE GatewayControl ---------------------------
(***************************************************************************)
(* The control plane of the gateway: every coroutine that can grant, use,  *)
(* end or clean up after a controller of the target's keyboard and mouse.  *)
(*                                                                         *)
(*   gateway/noob_gateway/app.py          HTTP handlers, GatewayRuntime    *)
(*   gateway/noob_gateway/control_lease.py  the lease (module Lease)       *)
(*   gateway/noob_gateway/local_input.py  arming, disarming, forwarding    *)
(*   gateway/noob_gateway/serial_link.py  as a service: one exchange at a  *)
(*       time, a generation that fences older commands, session loss       *)
(*                                                                         *)
(* One action is what a coroutine does between two points where it really  *)
(* gives up the event loop: waiting for control_gate, for the event lock   *)
(* of the built-in controls, for the serial link or for a mode switch.     *)
(***************************************************************************)
EXTENDS Lease, Sequences, FiniteSets

CONSTANTS Requests,    \* concurrent HTTP requests, each a task of its own
          Readers,     \* the evdev reader tasks; {} when local input is disabled
          IdleTask,    \* LocalInputManager._release_after_idle
          Watchdog,    \* GatewayRuntime._lease_watchdog
          Uses         \* what happens, one of these: the endpoints each request
                       \* may call, and a bound on the session losses and
                       \* self-releases of the Pico

Procs == Requests \cup Readers \cup {IdleTask, Watchdog}

AllEndpoints == {"claim", "renew", "release", "input", "status",
                 "emergency", "arm", "disarm", "switch"}

ASSUME ControlAssumption ==
  /\ Uses \subseteq [calls : [Requests -> SUBSET AllEndpoints], faults : Nat]
  /\ Requests \cap Readers = {}
  /\ {IdleTask, Watchdog} \cap (Requests \cup Readers) = {}
  /\ IdleTask # Watchdog

None == "none"

(* A coroutine: where it waits, the handler it runs, the section it runs or
   is about to run under control_gate, why it talks to the serial link, the
   lease it presents and the effect of the command it sends. *)
Labels   == {"idle", "gate", "send", "wire", "event", "armevent", "switching", "reply"}
Sections == AllEndpoints \cup {None, "unswitch", "watchdog", "submit",
                               "localrelease", "invalidate"}
Reasons  == {None, "input", "drain", "final", "confirmed", "unconfirmed"}
Effects  == {"down", "up", "release"}

Coroutine == [pc : Labels, task : AllEndpoints \cup {None}, sect : Sections,
              why : Reasons, lid : LeaseIds \cup {NoLease}, job : Effects]

Asleep == [pc |-> "idle", task |-> None, sect |-> None, why |-> None,
           lid |-> NoLease, job |-> "up"]

(* What the UART carries: nothing, one command, or the answer to it. *)
Commands == [lease : LeaseIds \cup {NoLease}, eff : Effects]
Silent   == [lease |-> NoLease, eff |-> "silent"]
Ack      == [lease |-> NoLease, eff |-> "ack"]
Nack     == [lease |-> NoLease, eff |-> "nack"]

VARIABLES
  lease,       \* GatewayRuntime.lease
  issued,      \* how many leases were granted; the next id is issued + 1
  localIds,    \* history: the leases granted to the built-in controls
  localLease,  \* GatewayRuntime._local_lease_id
  switching,   \* GatewayRuntime._video_switching
  armed,       \* LocalInputManager._armed
  forwarded,   \* the built-in controls have a key or button down at the target
  gate,        \* control_gate: holder, then waiters in order of arrival
  events,      \* LocalInputManager._event_lock, likewise
  co,          \* the coroutines
  fresh,       \* whose captured generation is SerialLink._abort_generation
  session,     \* SerialLink: "up", "failing" (marked unhealthy) or "down"
  wire,        \* holder of SerialLink._wire_lock, as a set
  line,        \* what the UART carries
  pico,        \* the Pico has an active session
  held,        \* leases whose controller has input down at the target
  use,         \* the one of Uses
  faults       \* faults so far

leaseVars  == <<lease, issued, localIds, localLease>>
localVars  == <<armed, forwarded>>
serialVars == <<session, wire, line, pico, held, faults>>
moving == <<leaseVars, localVars, serialVars, switching, gate, events, co, fresh>>
vars == <<moving, use>>

Init ==
  /\ use \in Uses
  /\ lease = FreshLease /\ issued = 0 /\ localIds = {} /\ localLease = NoLease
  /\ switching = FALSE /\ armed = FALSE /\ forwarded = FALSE
  /\ gate = <<>> /\ events = <<>>
  /\ co = [p \in Procs |-> Asleep]
  /\ fresh = {} /\ session = "down" /\ wire = {} /\ line = Silent
  /\ pico = FALSE /\ held = {} /\ faults = 0

-----------------------------------------------------------------------------
(* Control flow of one coroutine. *)

(* asyncio.Lock is fair: the head of the queue holds it, and a newcomer never
   overtakes a waiter. *)
Holds(lock, p) == lock # <<>> /\ Head(lock) = p

Sleep(p) == co' = [co EXCEPT ![p] = Asleep]

(* Wait for control_gate to run section s; g is the queue to join. *)
JoinGate(p, s, g) ==
  /\ gate' = Append(g, p)
  /\ co' = [co EXCEPT ![p].pc = "gate", ![p].sect = s, ![p].why = None]

(* Defect: the generation is not raised. *)
StartReleaseUnfenced(p, w) ==
  /\ fresh' = fresh \cup {p}
  /\ co' = [co EXCEPT ![p].pc = "send", ![p].why = w, ![p].job = "release"]
  /\ UNCHANGED <<gate, events, localVars, switching>>

(* emergency_release: raise the generation, which makes every captured one
   stale, and send release_all; control_gate stays held. *)
StartRelease(p, w) ==
  /\ fresh' = {p}
  /\ co' = [co EXCEPT ![p].pc = "send", ![p].why = w, ![p].job = "release"]
  /\ UNCHANGED <<gate, events, localVars, switching>>

(* Defect: the lease id of the built-in controls is kept. *)
DrainKeepsLocal(p, L) ==
  /\ lease' = Consumed(L)
  /\ UNCHANGED <<issued, localIds, localLease>>
  /\ StartRelease(p, "drain")

(* release_expired_input with an obligation: consume it and release. *)
Drain(p, L) ==
  /\ lease' = Consumed(L)
  /\ localLease' = NoLease
  /\ UNCHANGED <<issued, localIds>>
  /\ StartRelease(p, "drain")

(* _disarm_locked with the event lock held: forget the input state, then hand
   back the lease of the built-in controls. *)
DisarmLocked(p, g) ==
  /\ armed' = FALSE
  /\ forwarded' = FALSE
  /\ JoinGate(p, "localrelease", g)
  /\ UNCHANGED events

(* What follows a section that ends with outcome ok. *)
EndSection(p, ok) ==
  LET c == co[p] IN
  /\ UNCHANGED switching
  /\ fresh' = fresh \ {p}
  /\ CASE c.sect = "submit" \/ (c.sect = "invalidate" /\ p \in Readers) ->
            DisarmLocked(p, Tail(gate))
       [] c.sect = "localrelease" /\ c.task = "emergency" ->
            /\ events' = Tail(events)
            /\ JoinGate(p, "emergency", Tail(gate))
            /\ UNCHANGED localVars
       [] c.sect = "localrelease" /\ c.task = "disarm" ->
            /\ events' = Tail(events) /\ gate' = Tail(gate)
            /\ co' = [co EXCEPT ![p].pc = "reply",
                                ![p].why = IF ok THEN "confirmed" ELSE "unconfirmed"]
            /\ UNCHANGED localVars
       [] c.sect = "localrelease" /\ c.task = None ->
            /\ events' = Tail(events) /\ gate' = Tail(gate)
            /\ Sleep(p)
            /\ armed' = (armed /\ (ok \/ p # IdleTask))
            /\ forwarded' = (forwarded /\ (ok \/ p # IdleTask))
       [] OTHER ->
            /\ gate' = Tail(gate)
            /\ Sleep(p)
            /\ UNCHANGED <<events, localVars>>

(* Defect: the command is sent with control_gate held. *)
SendInputInGate(p, i) ==
  /\ fresh' = fresh \cup {p}
  /\ \E e \in {"down", "up"} :
       co' = [co EXCEPT ![p].pc = "send", ![p].why = "input",
                        ![p].lid = i, ![p].job = e]
  /\ UNCHANGED <<gate, events, localVars, switching>>

(* Capture the generation, leave the gate and send a command for lease i. *)
SendInput(p, i) ==
  /\ fresh' = fresh \cup {p}
  /\ gate' = Tail(gate)
  /\ \E e \in {"down", "up"} :
       co' = [co EXCEPT ![p].pc = "send", ![p].why = "input",
                        ![p].lid = i, ![p].job = e]
  /\ UNCHANGED <<events, localVars, switching>>

-----------------------------------------------------------------------------
(* The sections under control_gate, from the point where no release is owed.
   Every method of the lease reads the clock again. *)

(* _claim: refused while the built-in controls are armed. *)
ClaimBody(p) ==
  \/ /\ armed
     /\ EndSection(p, FALSE) /\ UNCHANGED leaseVars
  \/ /\ ~armed
     /\ \E c \in Clock(lease) :
          \/ /\ ClaimBusy(c) \/ (issued = MaxLease /\ ~ClaimOwed(c))
             /\ EndSection(p, FALSE) /\ UNCHANGED leaseVars
          \/ /\ ClaimOwed(c)
             /\ Drain(p, c)
          \/ /\ ~ClaimBusy(c) /\ ~ClaimOwed(c) /\ issued < MaxLease
             /\ lease' = Granted(issued + 1)
             /\ issued' = issued + 1
             /\ EndSection(p, TRUE)
             /\ UNCHANGED <<localIds, localLease>>

(* The common tail of _renew, _release and _input: on LeaseInvalid they drain
   an expiry they have just noticed and answer lease_invalid. *)
LeaseRejected(p, c) ==
  \/ /\ ReleaseOwed(c)
     /\ Drain(p, c)
  \/ /\ ~ReleaseOwed(c)
     /\ EndSection(p, FALSE) /\ UNCHANGED leaseVars

RenewBody(p) ==
  \E c \in Clock(lease) :
    \/ /\ Valid(c, co[p].lid)
       /\ lease' = Renewed(c)
       /\ EndSection(p, TRUE)
       /\ UNCHANGED <<issued, localIds, localLease>>
    \/ ~Valid(c, co[p].lid) /\ LeaseRejected(p, c)

ReleaseBody(p) ==
  \E c \in Clock(lease) :
    \/ /\ Valid(c, co[p].lid)
       /\ lease' = Released(c)
       /\ StartRelease(p, "final")
       /\ UNCHANGED <<issued, localIds, localLease>>
    \/ ~Valid(c, co[p].lid) /\ LeaseRejected(p, c)

InputBody(p) ==
  \E c \in Clock(lease) :
    \/ /\ Valid(c, co[p].lid)
       /\ SendInput(p, co[p].lid) /\ UNCHANGED leaseVars
    \/ ~Valid(c, co[p].lid) /\ LeaseRejected(p, c)

(* switch_video_mode: no lease and disarmed, else control_active. *)
SwitchBody(p) ==
  \E c \in Clock(lease) :
    /\ lease' = TransitionExpired(c)
    /\ UNCHANGED <<issued, localIds, localLease>>
    /\ \/ /\ SnapshotActive(c) \/ armed
          /\ EndSection(p, FALSE)
       \/ /\ ~SnapshotActive(c) /\ ~armed
          /\ switching' = TRUE
          /\ gate' = Tail(gate)
          /\ co' = [co EXCEPT ![p].pc = "switching"]
          /\ UNCHANGED <<events, localVars, fresh>>

(* Another controller has the lease.  Defect: only a local lease is noticed. *)
OtherControllerLocal(L) == SnapshotActive(L) /\ localLease # NoLease
OtherController(L)      == SnapshotActive(L) /\ localLease = NoLease

(* arm_local_input waits for the event lock with control_gate held. *)
ArmBody(p) ==
  \E c \in Clock(lease) :
    /\ lease' = TransitionExpired(c)
    /\ UNCHANGED <<issued, localIds, localLease>>
    /\ \/ /\ OtherController(c) \/ Readers = {}
          /\ EndSection(p, FALSE)
       \/ /\ ~OtherController(c) /\ Readers # {}
          /\ events' = Append(events, p)
          /\ co' = [co EXCEPT ![p].pc = "armevent"]
          /\ UNCHANGED <<gate, localVars, switching, fresh>>

(* submit_local_input: renew the local lease or claim one. *)
SubmitBody(p) ==
  \E c \in Clock(lease) :
    \/ /\ Valid(c, localLease)
       /\ lease' = Renewed(c)
       /\ SendInput(p, localLease)
       /\ UNCHANGED <<issued, localIds, localLease>>
    \/ /\ ~Valid(c, localLease)
       /\ ClaimBusy(c) \/ ClaimOwed(c) \/ issued = MaxLease
       /\ lease' = TransitionExpired(c)
       /\ localLease' = NoLease
       /\ EndSection(p, FALSE)
       /\ UNCHANGED <<issued, localIds>>
    \/ /\ ~Valid(c, localLease)
       /\ ~ClaimBusy(c) /\ ~ClaimOwed(c) /\ issued < MaxLease
       /\ lease' = Granted(issued + 1)
       /\ issued' = issued + 1
       /\ localIds' = localIds \cup {issued + 1}
       /\ localLease' = issued + 1
       /\ SendInput(p, issued + 1)

(* release_local_input, once its lease id has been taken out of the runtime. *)
LocalReleaseBody(p, i) ==
  \E c \in Clock(lease) :
    /\ localLease' = NoLease
    /\ UNCHANGED <<issued, localIds>>
    /\ \/ /\ Valid(c, i)
          /\ lease' = Released(c)
          /\ StartRelease(p, "final")
       \/ /\ ~Valid(c, i)
          /\ lease' = TransitionExpired(c)
          /\ EndSection(p, TRUE)

Body(p) ==
  LET s == co[p].sect IN
  \/ s = "claim"   /\ ClaimBody(p)
  \/ s = "renew"   /\ RenewBody(p)
  \/ s = "release" /\ ReleaseBody(p)
  \/ s = "input"   /\ InputBody(p)
  \/ s = "switch"  /\ SwitchBody(p)
  \/ s = "arm"     /\ ArmBody(p)
  \/ s = "submit"  /\ SubmitBody(p)
  \/ s = "localrelease" /\ LocalReleaseBody(p, co[p].lid)
  \/ s \in {"status", "watchdog"} /\ EndSection(p, TRUE) /\ UNCHANGED leaseVars

-----------------------------------------------------------------------------
(* Entering control_gate. *)

AtGate(p) == co[p].pc = "gate" /\ Holds(gate, p)

(* Sections that refuse to run during a capture mode switch.  Defect: claim is
   not one of them. *)
GuardedExceptClaim == {"submit", "arm", "switch"}
GuardedByMode == {"claim", "submit", "arm", "switch"}

EnterRefused(p) ==
  /\ AtGate(p)
  /\ switching /\ co[p].sect \in GuardedByMode
  /\ EndSection(p, FALSE)
  /\ UNCHANGED <<leaseVars, serialVars>>

Enter(p) ==
  /\ AtGate(p)
  /\ co[p].sect \notin {"localrelease", "emergency", "invalidate", "unswitch"}
  /\ ~(switching /\ co[p].sect \in GuardedByMode)
  /\ \/ ~ReleaseOwed(lease) /\ Body(p)
     \/ \E c \in Clock(lease) : ReleaseOwed(c) /\ Drain(p, c)
  /\ UNCHANGED serialVars

(* release_local_input takes the local lease id before anything else, and is
   satisfied at once when there is none. *)
EnterLocalRelease(p) ==
  /\ AtGate(p) /\ co[p].sect = "localrelease"
  /\ UNCHANGED serialVars
  /\ \/ /\ localLease = NoLease
        /\ EndSection(p, TRUE) /\ UNCHANGED leaseVars
     \/ /\ localLease # NoLease /\ ~ReleaseOwed(lease)
        /\ LocalReleaseBody(p, localLease)
     \/ /\ localLease # NoLease
        /\ \E c \in Clock(lease) : ReleaseOwed(c) /\ Drain(p, c)

(* _emergency_release and invalidate_indeterminate_input clear whatever lease
   there is and release; the latter through mark_release_required. *)
EnterForced(p) ==
  /\ AtGate(p) /\ co[p].sect \in {"emergency", "invalidate"}
  /\ lease' = ForceCleared(lease)
  /\ localLease' = NoLease
  /\ StartRelease(p, "final")
  /\ UNCHANGED <<issued, localIds, serialVars>>

EnterUnswitch(p) ==
  /\ AtGate(p) /\ co[p].sect = "unswitch"
  /\ switching' = FALSE
  /\ gate' = Tail(gate)
  /\ Sleep(p)
  /\ UNCHANGED <<leaseVars, localVars, serialVars, events, fresh>>

-----------------------------------------------------------------------------
(* Clients, timers and evdev readers start their coroutines. *)

StartGated(r, t) ==
  /\ r \in Requests /\ co[r].pc = "idle"
  /\ t \in use.calls[r] \ {"disarm", "emergency"}
  /\ \E i \in IF t \in {"renew", "release", "input"}
              THEN 1..issued \ localIds ELSE {NoLease} :
       co' = [co EXCEPT ![r] = [Asleep EXCEPT !.pc = "gate", !.task = t,
                                              !.sect = t, !.lid = i]]
  /\ gate' = Append(gate, r)
  /\ UNCHANGED <<leaseVars, localVars, serialVars, switching, events, fresh>>

(* disarm_local_input comes first in both. *)
StartDisarm(r, t) ==
  /\ r \in Requests /\ co[r].pc = "idle"
  /\ t \in use.calls[r] \cap {"disarm", "emergency"}
  /\ co' = [co EXCEPT ![r] = [Asleep EXCEPT !.pc = "event", !.task = t]]
  /\ events' = Append(events, r)
  /\ UNCHANGED <<leaseVars, localVars, serialVars, switching, gate, fresh>>

WatchdogTick ==
  /\ co[Watchdog].pc = "idle"
  /\ JoinGate(Watchdog, "watchdog", gate)
  /\ UNCHANGED <<leaseVars, localVars, serialVars, switching, events, fresh>>

(* A reader has read an event while armed; the idle timer runs while armed and
   nothing is down. *)
StartEvent(p) ==
  /\ co[p].pc = "idle" /\ armed
  /\ p \in Readers \/ (p = IdleTask /\ ~forwarded)
  /\ events' = Append(events, p)
  /\ co' = [co EXCEPT ![p].pc = "event"]
  /\ UNCHANGED <<leaseVars, localVars, serialVars, switching, gate, fresh>>

(* select_mode returns or raises; either way the flag is cleared under the gate. *)
SwitchReturns(r) ==
  /\ co[r].pc = "switching"
  /\ JoinGate(r, "unswitch", gate)
  /\ UNCHANGED <<leaseVars, localVars, serialVars, switching, events, fresh>>

Respond(r) ==
  /\ co[r].pc = "reply"
  /\ Sleep(r)
  /\ UNCHANGED <<leaseVars, localVars, serialVars, switching, gate, events, fresh>>

-----------------------------------------------------------------------------
(* Under the event lock. *)

AtEvents(p) == co[p].pc = "event" /\ Holds(events, p)

(* feed_event: one more command of this event. *)
EventSubmits(p) ==
  /\ AtEvents(p) /\ p \in Readers /\ armed
  /\ JoinGate(p, "submit", gate)
  /\ UNCHANGED <<leaseVars, localVars, serialVars, switching, events, fresh>>

(* _disarm_locked: the emergency chord, a lost device, a rate-limited event,
   the disarm endpoint, or the first half of the emergency endpoint. *)
EventDisarms(p) ==
  /\ AtEvents(p) /\ p \in Readers \cup Requests /\ armed
  /\ DisarmLocked(p, gate)
  /\ UNCHANGED <<leaseVars, serialVars, switching, fresh>>

(* _release_after_idle: nothing is down, give the lease back. *)
IdleReleases ==
  /\ AtEvents(IdleTask) /\ armed /\ ~forwarded
  /\ JoinGate(IdleTask, "localrelease", gate)
  /\ UNCHANGED <<leaseVars, localVars, serialVars, switching, events, fresh>>

(* Nothing (more) to do: the event is handled, or the controls are disarmed. *)
EventEnds(p) ==
  /\ AtEvents(p)
  /\ \/ p \in Readers
     \/ p \in Requests /\ ~armed
     \/ p = IdleTask /\ (~armed \/ forwarded)
  /\ events' = Tail(events)
  /\ CASE co[p].task = "emergency" -> JoinGate(p, "emergency", gate)
       [] co[p].task = "disarm" ->
            /\ co' = [co EXCEPT ![p].pc = "reply", ![p].why = "confirmed"]
            /\ UNCHANGED gate
       [] OTHER -> Sleep(p) /\ UNCHANGED gate
  /\ UNCHANGED <<leaseVars, localVars, serialVars, switching, fresh>>

(* LocalInputManager.arm: grab both devices or neither. *)
Arm(p) ==
  /\ co[p].pc = "armevent" /\ Holds(events, p)
  /\ \E ok \in BOOLEAN :
       /\ armed' = (armed \/ ok)
       /\ forwarded' = (armed /\ forwarded)
  /\ events' = Tail(events)
  /\ gate' = Tail(gate)
  /\ Sleep(p)
  /\ UNCHANGED <<leaseVars, serialVars, switching, fresh>>

-----------------------------------------------------------------------------
(* The serial link. *)

(* What a coroutine does with the result of an exchange: "ok", "refused" (a
   NACK, a stale generation) or "lost" (a timeout, no session). *)
Resume(p, result) ==
  LET c == co[p] IN
  \/ /\ c.why = "input"
     /\ UNCHANGED <<leaseVars, switching, events>>
     /\ fresh' = fresh \ {p}
     /\ CASE result = "lost" ->
               JoinGate(p, "invalidate", gate) /\ UNCHANGED localVars
          [] result # "lost" /\ p \in Requests ->
               Sleep(p) /\ UNCHANGED <<gate, localVars>>
          [] result = "ok" /\ p \in Readers ->
               /\ forwarded' = (c.job = "down")
               /\ co' = [co EXCEPT ![p] = [Asleep EXCEPT !.pc = "event"]]
               /\ UNCHANGED <<gate, armed>>
          [] result = "refused" /\ p \in Readers ->
               /\ armed' = FALSE /\ forwarded' = FALSE
               /\ JoinGate(p, "localrelease", gate)
  \/ c.why = "drain" /\ result = "ok" /\ Body(p)
  \/ c.why = "final" /\ result = "ok" /\ EndSection(p, TRUE) /\ UNCHANGED leaseVars
  \/ /\ c.why \in {"drain", "final"} /\ result # "ok"
     /\ lease' = MarkReleaseRequired(lease)
     /\ EndSection(p, FALSE)
     /\ UNCHANGED <<issued, localIds, localLease>>

(* The wire lock is taken and the generation is checked before the write. *)
SendStart(p) ==
  /\ co[p].pc = "send" /\ session = "up" /\ p \in fresh /\ wire = {}
  /\ wire' = {p}
  /\ line' = [lease |-> IF co[p].job = "release" THEN NoLease ELSE co[p].lid,
              eff |-> co[p].job]
  /\ co' = [co EXCEPT ![p].pc = "wire"]
  /\ UNCHANGED <<leaseVars, localVars, switching, gate, events, fresh,
                 session, pico, held, faults>>

SendFails(p) ==
  /\ co[p].pc = "send"
  /\ \/ p \notin fresh /\ Resume(p, "refused")
     \/ session # "up" /\ Resume(p, "lost")
  /\ UNCHANGED serialVars

(* The Pico executes what it reads; after a lost session the answer finds
   nobody waiting. *)
PicoExecutes ==
  /\ line \in Commands
  /\ \/ /\ pico
        /\ held' = CASE line.eff = "down" -> held \cup {line.lease}
                     [] line.eff = "up"   -> held \ {line.lease}
                     [] line.eff = "release" -> {}
        /\ line' = IF wire = {} THEN Silent ELSE Ack
     \/ /\ pico /\ line.eff # "release"     \* exec_failed
        /\ held' = {}
        /\ line' = IF wire = {} THEN Silent ELSE Nack
     \/ /\ ~pico                            \* no_session
        /\ line' = IF wire = {} THEN Silent ELSE Nack
        /\ UNCHANGED held
  /\ UNCHANGED <<leaseVars, localVars, switching, gate, events, co, fresh,
                 session, wire, pico, faults>>

ReplyArrives(p) ==
  /\ co[p].pc = "wire" /\ wire = {p} /\ line \in {Ack, Nack}
  /\ Resume(p, IF line = Ack THEN "ok" ELSE "refused")
  /\ wire' = {} /\ line' = Silent
  /\ UNCHANGED <<session, pico, held, faults>>

ExchangeFails(p) ==
  /\ co[p].pc = "wire" /\ wire = {p} /\ session # "up"
  /\ Resume(p, "lost")
  /\ wire' = {}
  /\ line' = IF line \in Commands THEN line ELSE Silent
  /\ UNCHANGED <<session, pico, held, faults>>

(* _mark_transport_unhealthy: read or write error, ACK timeout, or the Pico
   reports that it released the session. *)
SessionLost ==
  /\ session = "up"
  /\ session' = "failing"
  /\ fresh' = {}
  /\ \/ pico /\ faults < use.faults /\ faults' = faults + 1
     \/ ~pico /\ UNCHANGED faults
  /\ UNCHANGED <<leaseVars, localVars, switching, gate, events, co, wire, line, pico, held>>

(* The supervisor's cleanup raises the generation once more. *)
SessionTornDown ==
  /\ session = "failing"
  /\ session' = "down"
  /\ fresh' = {}
  /\ UNCHANGED <<leaseVars, localVars, switching, gate, events, co, wire, line,
                 pico, held, faults>>

(* A new session: bytes of the old one were read before the session command,
   which releases everything. *)
SessionUp ==
  /\ session = "down" /\ wire = {}
  /\ session' = "up"
  /\ pico' = TRUE /\ held' = {} /\ line' = Silent
  /\ UNCHANGED <<leaseVars, localVars, switching, gate, events, co, fresh, wire, faults>>

(* The Pico's watchdog or its held-input timeout. *)
PicoSelfReleases ==
  /\ pico
  /\ IF session = "up" THEN faults < use.faults /\ faults' = faults + 1
                       ELSE UNCHANGED faults
  /\ pico' = FALSE /\ held' = {}
  /\ UNCHANGED <<leaseVars, localVars, switching, gate, events, co, fresh,
                 session, wire, line>>

(* The deadline of the lease passes. *)
LeaseLapses ==
  /\ lease.id # NoLease /\ ~lease.lapsed
  /\ lease' = Lapsed(lease)
  /\ UNCHANGED <<issued, localIds, localLease, localVars, serialVars, switching,
                 gate, events, co, fresh>>

-----------------------------------------------------------------------------
(* Everything coroutine p does once it has been started. *)
Step(p) ==
  \/ EnterRefused(p) \/ Enter(p) \/ EnterLocalRelease(p) \/ EnterForced(p)
  \/ EnterUnswitch(p) \/ SwitchReturns(p) \/ Respond(p)
  \/ EventSubmits(p) \/ EventDisarms(p) \/ EventEnds(p) \/ Arm(p)
  \/ SendStart(p) \/ SendFails(p) \/ ReplyArrives(p) \/ ExchangeFails(p)

Link == PicoExecutes \/ SessionTornDown \/ SessionUp

Happens ==
  \/ \E r \in Requests : \E t \in use.calls[r] : StartGated(r, t) \/ StartDisarm(r, t)
  \/ WatchdogTick
  \/ \E p \in Readers \cup {IdleTask} : StartEvent(p)
  \/ IdleReleases
  \/ \E p \in Procs : Step(p)
  \/ Link \/ SessionLost \/ PicoSelfReleases
  \/ LeaseLapses

Next == Happens /\ UNCHANGED use

Spec == Init /\ [][Next]_vars

(* What the event loop and the timers guarantee: a coroutine that can go on
   does, the Pico answers, the supervisor reconnects, the watchdog wakes up,
   time passes, and an event is a finite number of commands.  Nothing is
   assumed of clients, and a lease may be renewed for ever. *)
Fairness ==
  /\ \A p \in Procs : WF_moving(Step(p))
  /\ \A p \in Readers : SF_moving(EventEnds(p))
  /\ WF_moving(PicoExecutes) /\ WF_moving(SessionTornDown) /\ WF_moving(SessionUp)
  /\ WF_moving(SessionLost /\ ~pico)
  /\ WF_moving(WatchdogTick) /\ WF_moving(IdleReleases) /\ WF_moving(LeaseLapses)

FairSpec == Spec /\ Fairness

-----------------------------------------------------------------------------
(* Properties. *)

(* Every variable stays in its type. *)
TypeOK ==
  /\ lease \in LeaseState /\ issued \in 0..MaxLease
  /\ localIds \subseteq LeaseIds /\ localLease \in LeaseIds \cup {NoLease}
  /\ {switching, armed, forwarded, pico} \subseteq BOOLEAN
  /\ gate \in Seq(Procs) /\ events \in Seq(Procs)
  /\ co \in [Procs -> Coroutine]
  /\ fresh \subseteq Procs /\ wire \subseteq Procs
  /\ session \in {"up", "failing", "down"}
  /\ line \in Commands \cup {Silent, Ack, Nack}
  /\ held \subseteq LeaseIds \cup {NoLease} /\ faults \in 0..use.faults

(* While a controller owns the target, no key or button pressed under an
   earlier lease is down: claim and submit_local_input never get past a
   release that is still owed, and a queued command of the earlier lease is
   fenced by the generation it captured. *)
SingleHand == lease.id # NoLease => held \subseteq {lease.id}

(* Input that is down belongs to the live lease, or its release is on record
   (ControlLease._release_required), or a coroutine that holds control_gate is
   sending release_all: it is never forgotten. *)
ReleaseOnRecord ==
  \A i \in held :
    \/ lease.id = i
    \/ lease.owed
    \/ \E p \in Procs : /\ Holds(gate, p) /\ co[p].pc \in {"send", "wire"}
                        /\ co[p].why \in {"drain", "final"}

(* Arming is an ownership boundary: no HTTP controller has a lease while the
   built-in controls are armed (app.py, _claim and arm_local_input). *)
ArmedExclusive == armed => lease.id \in localIds \cup {NoLease}

(* A capture mode switch runs only while nobody controls the target
   (switch_video_mode and the checks of _video_switching). *)
EyesBeforeHands == switching => lease.id = NoLease /\ ~armed

(* A command goes out on the wire only under the live lease, or while the
   release that undoes it is still owed: the fence of send_command and
   _exchange. *)
FencedSend ==
  [][\A p \in Procs :
       co[p].pc = "send" /\ co'[p].pc = "wire" /\ co[p].why = "input"
       => \/ lease.id = co[p].lid
          \/ lease.id = NoLease /\ lease.owed]_vars

(* The lease id the runtime remembers for the built-in controls is the live
   lease, or the release of what they held is on record: release_local_input
   can never mistake the lease of another controller for its own. *)
LocalLeaseKnown == localLease # NoLease => lease.id = localLease \/ lease.owed

(* An input whose outcome is unknown ends only the lease it was sent under
   (invalidate_indeterminate_input). *)
NoSilentPreemption ==
  [][\A p \in Procs :
       /\ co[p].pc = "gate" /\ co[p].sect = "invalidate" /\ co'[p].pc = "send"
       => lease.id \in {co[p].lid, NoLease}]_vars

(* A disarm that is confirmed to the viewer has released the target. *)
ConfirmedIsReleased ==
  [][\A r \in Requests :
       /\ co[r].pc # "reply" /\ co'[r].pc = "reply" /\ co'[r].why = "confirmed"
       => held' \cap localIds = {}]_vars

(* Every request is answered. *)
Answered == \A r \in Requests : co[r].pc # "idle" ~> co[r].pc = "idle"

(* The emergency endpoint is answered, whatever else is going on. *)
EmergencyAnswered ==
  \A r \in Requests : co[r].task = "emergency" ~> co[r].task # "emergency"

(* Deadman: what a controller holds down is let go once its lease has lapsed
   or ended, even if no client calls again (_lease_watchdog). *)
DeadmanReleases ==
  \A i \in LeaseIds :
    i \in held /\ (lease.id # i \/ lease.lapsed) ~> i \notin held
=============================================================================
