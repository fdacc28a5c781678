----------------------------- MODULE MouseMotion -----------------------------
(***************************************************************************)
(* The way of a pointer movement from the trackball or an HTTP client to    *)
(* the HID reports of the Pico: what evdev reports is gathered and clamped  *)
(* (local_input.py), a flush cuts it into moves a command may carry         *)
(* (models.py), and the serial link cuts a move into the reports of a       *)
(* signed byte that go to the Pico as one burst (serial_link.py).           *)
(***************************************************************************)
EXTENDS Integers

CONSTANTS
  ReportLimit,   \* HID_MOUSE_DELTA_LIMIT = 127
  BatchLimit,    \* MOUSE_MOVE_BATCH_LIMIT = 8
  AxisLimit,     \* GATEWAY_MOUSE_AXIS_LIMIT = 127 * 8
  WheelLimit,    \* GATEWAY_MOUSE_WHEEL_LIMIT = 127
  MotionLimit,   \* _MAX_ACCUMULATED_MOTION = 4096
  Deltas,        \* what a record of evdev carries
  Requests       \* the moves HTTP clients ask for

Axes  == {"dx", "dy", "wheel"}
Moves == [Axes -> Int]

ASSUME MotionAssumption ==
  /\ ReportLimit \in Nat \ {0} /\ BatchLimit \in Nat \ {0}
  /\ AxisLimit \in Nat \ {0} /\ WheelLimit \in Nat /\ MotionLimit \in Nat
  /\ AxisLimit <= BatchLimit * ReportLimit
  /\ WheelLimit <= BatchLimit * ReportLimit
  /\ Deltas \subseteq Int /\ Requests \subseteq Moves

VARIABLES
  phase,    \* idle, flushing what was gathered, splitting a move, or raised
  motion,   \* _motion_x, _motion_y: gathered since the last SYN_REPORT
  rest,     \* dx, dy of the flush: not yet submitted
  left,     \* remaining_x, remaining_y, remaining_wheel of the split
  packed,   \* the sum of the reports split off so far
  reports,  \* their number
  cost,     \* what mouse_move_chunk_count says of the move being sent
  owed      \* history: movement asked for that is not yet at the target

motionVars == <<phase, motion, rest, left, packed, reports, cost, owed>>

Still == [a \in Axes |-> 0]

Clamp(bound, n) == IF n > bound THEN bound ELSE IF n < -bound THEN -bound ELSE n
Abs(n)          == IF n < 0 THEN -n ELSE n
Larger(n, k)    == IF n > k THEN n ELSE k

Plus(v, w)  == [a \in Axes |-> v[a] + w[a]]
Minus(v, w) == [a \in Axes |-> v[a] - w[a]]

(* A move a command may carry is the clamped part of the flush. *)
MoveOf(v)   == [a \in Axes |-> Clamp(AxisLimit, v[a])]

(* A report carries a signed byte on each axis. *)
ReportOf(v) == [a \in Axes |-> Clamp(ReportLimit, v[a])]

(* validate_input_command for mouse_move. *)
Fits(v) ==
  /\ \A a \in {"dx", "dy"} : -AxisLimit <= v[a] /\ v[a] <= AxisLimit
  /\ -WheelLimit <= v["wheel"] /\ v["wheel"] <= WheelLimit

Largest(v) == Larger(Abs(v["dx"]), Larger(Abs(v["dy"]), Abs(v["wheel"])))

ChunkCount(v) == Larger(1, (Largest(v) + ReportLimit - 1) \div ReportLimit)

-----------------------------------------------------------------------------
MotionInit ==
  /\ phase = "idle"
  /\ motion = Still /\ rest = Still /\ left = Still /\ packed = Still
  /\ reports = 0 /\ cost = 0
  /\ owed = Still

(* EV_REL: what the clamp cuts off is not owed to anybody. *)
Gather(a, d) ==
  /\ phase = "idle"
  /\ motion' = [motion EXCEPT ![a] = Clamp(MotionLimit, motion[a] + d)]
  /\ owed' = [owed EXCEPT ![a] = owed[a] - motion[a] + Clamp(MotionLimit, motion[a] + d)]
  /\ UNCHANGED <<phase, rest, left, packed, reports, cost>>

(* Defect: the accumulator is not reset. *)
FlushKeeps ==
  /\ phase = "idle" /\ motion # Still
  /\ rest' = motion /\ phase' = "flushing"
  /\ UNCHANGED <<motion, left, packed, reports, cost, owed>>

(* EV_SYN: _flush_motion_locked takes all that was gathered. *)
Flush ==
  /\ phase = "idle"
  /\ rest' = motion /\ motion' = Still
  /\ phase' = IF motion = Still THEN "idle" ELSE "flushing"
  /\ UNCHANGED <<left, packed, reports, cost, owed>>

StartMove(v) ==
  /\ phase' = "splitting"
  /\ left' = v /\ packed' = Still /\ reports' = 0
  /\ cost' = ChunkCount(v)

(* One round of the flush's loop. *)
Submit ==
  /\ phase = "flushing" /\ Fits(MoveOf(rest))
  /\ StartMove(MoveOf(rest))
  /\ rest' = Minus(rest, MoveOf(rest))
  /\ UNCHANGED <<motion, owed>>

(* A move the gateway refuses disarms the built-in controls, and all that    *)
(* was gathered is forgotten.                                               *)
MoveRefused ==
  /\ phase = "flushing"
  /\ phase' = "idle" /\ rest' = Still /\ motion' = Still
  /\ owed' = Still
  /\ UNCHANGED <<left, packed, reports, cost>>

(* A mouse_move of an HTTP client. *)
Request(v) ==
  /\ phase = "idle" /\ motion = Still
  /\ Fits(v)
  /\ StartMove(v)
  /\ owed' = v
  /\ UNCHANGED <<motion, rest>>

(* One round of _split_mouse_move: it raises when the burst grows too long. *)
Split ==
  /\ phase = "splitting" /\ left # Still
  /\ packed' = Plus(packed, ReportOf(left))
  /\ left' = Minus(left, ReportOf(left))
  /\ reports' = reports + 1
  /\ phase' = IF reports + 1 > BatchLimit THEN "raised" ELSE "splitting"
  /\ UNCHANGED <<motion, rest, cost, owed>>

(* The burst is acknowledged; a move of nothing is still one report. *)
Sent ==
  /\ phase = "splitting" /\ left = Still
  /\ reports' = Larger(1, reports)
  /\ owed' = Minus(owed, packed) /\ packed' = Still
  /\ phase' = IF rest = Still THEN "idle" ELSE "flushing"
  /\ UNCHANGED <<motion, rest, left, cost>>

MotionNext ==
  \/ \E a \in {"dx", "dy"}, d \in Deltas : Gather(a, d)
  \/ Flush \/ Submit \/ MoveRefused
  \/ \E v \in Requests : Request(v)
  \/ Split \/ Sent

MotionSpec == MotionInit /\ [][MotionNext]_motionVars

-----------------------------------------------------------------------------
(* The variables have their types, and what is gathered, asked and reported  *)
(* stays within the limits of its field.                                    *)
MotionTypeOK ==
  /\ phase \in {"idle", "flushing", "splitting", "raised"}
  /\ motion \in Moves /\ rest \in Moves /\ left \in Moves
  /\ packed \in Moves /\ owed \in Moves
  /\ reports \in Nat /\ cost \in Nat
  /\ \A a \in Axes : Abs(motion[a]) <= MotionLimit /\ Abs(rest[a]) <= MotionLimit

(* No movement is lost, doubled or moved to another axis on its way through  *)
(* the clamps, the flush and the split (local_input.py:534-553,              *)
(* serial_link.py:92-116).                                                   *)
Conserved == \A a \in Axes : owed[a] = motion[a] + rest[a] + left[a] + packed[a]

(* A move that validation lets through never needs more reports than the     *)
(* Pico may get in one burst: _split_mouse_move never raises                 *)
(* (serial_link.py:114-115, models.py:26-29).                                *)
BurstFits == phase # "raised" /\ reports <= BatchLimit

(* The number of reports of a move is the cost mouse_move_chunk_count states *)
(* for it, at the edges of a report too (models.py:149-155).                 *)
CostIsReports == phase \in {"idle", "flushing"} => reports = cost

(* A movement arrives whole, within the limit of a burst and at the cost that *)
(* was charged for it: Conserved, BurstFits and CostIsReports.               *)
MovesArriveWhole == Conserved /\ BurstFits /\ CostIsReports

(* What a burst brings to the target never carries the pointer past where it *)
(* was asked to go, nor away from it (local_input.py:538-552,                *)
(* serial_link.py:99-113).                                                   *)
NeverPast ==
  \A a \in Axes :
    /\ packed[a] > 0 => motion[a] + rest[a] + left[a] >= 0
    /\ packed[a] < 0 => motion[a] + rest[a] + left[a] <= 0
=============================================================================
