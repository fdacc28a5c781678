----------------------- MODULE EnvironmentCameraProofs -----------------------
(***************************************************************************)
(* Theorems about EnvironmentCamera, for every number of browsers, boots,    *)
(* generations and faults, and whatever the browsers may ask for.            *)
(***************************************************************************)
EXTENDS EnvironmentCamera, TLAPS

Ops == Mutations \cup Fetches \cup {None}

Answers == [ok : BOOLEAN, boot : Nat, generation : Nat, on : BOOLEAN]
Steps ==
  {"idle", "looked", "asking", "told", "locking", "sent", "acted",
   "fetching", "framed", "connecting", "streaming", "publishing", "watching"}

Records == [step : Steps, op : Ops, seen : Nat, overtaken : BOOLEAN,
            current : BOOLEAN, answer : Answers]
Frames == [public : Nat, boot : Nat, generation : Nat, fetched : BOOLEAN]
Cameras == [boot : Nat, generation : Nat \ {0}, on : BOOLEAN]
Views == [boot : Nat \cup {None}, generation : Nat, public : Nat, reachable : BOOLEAN,
          pinned : BOOLEAN, enabled : BOOLEAN, latest : Frames]

Typed ==
  /\ camera \in Cameras /\ view \in Views
  /\ task \in [Tasks -> Records] /\ lock \in Tasks \cup {None}
  /\ may \in Wishes

(* What each task may be at. *)
Places(t) ==
  IF t = StatusLoop THEN {"idle", "asking", "told"}
  ELSE IF t = StreamLoop THEN {"idle", "connecting", "streaming", "publishing"}
  ELSE {"idle", "looked", "asking", "told", "locking", "sent", "acted",
        "fetching", "framed", "publishing", "watching"}

(* The view v against the camera c. *)
KnownOf(v, c) ==
  /\ v.boot = None => v.public = 0 /\ v.generation = 0 /\ v.latest = NoFrame
  /\ v.enabled => v.boot # None
  /\ v.boot # None => v.public > 0 /\ v.boot <= c.boot
  /\ v.boot = c.boot => v.generation <= c.generation

FrameOf(v) ==
  v.latest # NoFrame /\ v.latest.public = v.public =>
    \/ v.latest.boot = v.boot /\ v.latest.generation >= v.generation
    \/ ~v.latest.fetched /\ v.latest.boot > v.boot

(* A task t with its record r, of a lock held by l. *)
HeldBy(t, r, v, l) ==
  /\ r.step \in Places(t)
  /\ r.step \in {"sent", "acted"} => l = t
  /\ r.step \in {"locking", "sent", "acted"} => v.boot # None
  /\ r.step = "idle" => r.op \notin Mutations

AnswerOf(r, v, c) ==
  /\ r.step = "told" =>
       /\ r.answer.boot <= c.boot /\ r.answer.generation > 0
       /\ r.answer.boot = c.boot => r.answer.generation <= c.generation
  /\ r.step = "acted" =>
       /\ r.answer.generation > 0
       /\ v.boot = c.boot => r.answer.generation <= c.generation

(* A change that came in between shows in the generation. *)
FenceOf(r, v, c) ==
  /\ r.seen <= v.public
  /\ r.step = "idle" => ~r.overtaken
  /\ r.overtaken /\ r.step = "sent" => v.generation < c.generation
  /\ r.overtaken /\ r.step \in {"looked", "asking", "told", "locking"} /\ r.seen = v.public
       => v.generation < c.generation

(* While the epoch is that of its request, what a task brings fits the view.  *)
EpochOf(t, r, v) ==
  r.current /\ r.step \in {"fetching", "framed", "connecting", "streaming", "publishing"} =>
    /\ v.boot # None
    /\ r.step \in {"framed", "publishing"} /\ r.answer.boot = v.boot
         => r.answer.generation >= v.generation
    /\ r.step = "publishing" /\ t # StreamLoop => r.answer.boot = v.boot
    /\ r.step \in {"streaming", "publishing"} => r.answer.boot >= v.boot

TaskOf(t, r, v, c, l) ==
  /\ HeldBy(t, r, v, l) /\ AnswerOf(r, v, c)
  /\ FenceOf(r, v, c) /\ EpochOf(t, r, v)

IInv ==
  /\ Typed
  /\ KnownOf(view, camera) /\ FrameOf(view)
  /\ \A t \in Tasks : TaskOf(t, task[t], view, camera, lock)

-----------------------------------------------------------------------------
(* What a step leaves of a task it does not move. *)

LEMMA EpochStays ==
  ASSUME NEW r \in Records
  PROVE  [r EXCEPT !.current = @ /\ ~FALSE] = r
  BY DEF Records

LEMMA EpochMoves ==
  ASSUME NEW r \in Records, NEW q, q = [r EXCEPT !.current = @ /\ ~TRUE]
  PROVE  /\ q \in Records /\ q.current = FALSE
         /\ q.step = r.step /\ q.op = r.op /\ q.seen = r.seen
         /\ q.overtaken = r.overtaken /\ q.answer = r.answer
  BY DEF Records

SameState(v, w) == w.boot = v.boot /\ w.generation = v.generation /\ w.public = v.public

(* The view is still of the same state of the camera. *)
LEMMA TaskKept ==
  ASSUME NEW t, NEW l, NEW m, NEW r \in Records, NEW v \in Views, NEW w \in Views,
         NEW c \in Cameras, TaskOf(t, r, v, c, l), SameState(v, w),
         l = t => m = t
  PROVE  TaskOf(t, r, w, c, m)
  BY DEF TaskOf, HeldBy, AnswerOf, FenceOf, EpochOf, SameState

(* The epoch has moved: the view is of a newer state and the task is not the  *)
(* one under the lock, or it was only given up.                               *)
Newer(t, l, v, w) == l # t /\ w.boot # None /\ w.public > v.public

LEMMA TaskOutdated ==
  ASSUME NEW t, NEW l, NEW m, NEW r \in Records, NEW q \in Records,
         NEW v \in Views, NEW w \in Views, NEW c \in Cameras,
         TaskOf(t, r, v, c, l), l = t => m = t,
         q = [r EXCEPT !.current = @ /\ ~TRUE],
         Newer(t, l, v, w) \/ SameState(v, w)
  PROVE  TaskOf(t, q, w, c, m)
<1>1. /\ q.step = r.step /\ q.op = r.op /\ q.seen = r.seen /\ q.answer = r.answer
      /\ q.overtaken = r.overtaken /\ q.current = FALSE
  BY EpochMoves
<1>2. CASE SameState(v, w)
  BY <1>1, <1>2, TaskKept DEF TaskOf, HeldBy, AnswerOf, FenceOf, EpochOf, SameState
<1>3. CASE Newer(t, l, v, w)
  <2>1. r.step \notin {"sent", "acted"}
    BY <1>3 DEF TaskOf, HeldBy, Newer
  <2>2. r.seen \in Nat /\ v.public \in Nat /\ w.public \in Nat
    BY DEF Records, Views
  <2>3. HeldBy(t, q, w, m) /\ AnswerOf(q, w, c) /\ EpochOf(t, q, w)
    BY <1>1, <1>3, <2>1 DEF TaskOf, HeldBy, AnswerOf, EpochOf, Newer
  <2>4. FenceOf(q, w, c)
    BY <1>1, <1>3, <2>1, <2>2 DEF TaskOf, FenceOf, Newer
  <2> QED
    BY <2>3, <2>4 DEF TaskOf
<1> QED
  BY <1>2, <1>3

LEMMA IdleIsFine ==
  ASSUME NEW t, NEW v \in Views, NEW c, NEW l
  PROVE  Idle \in Records /\ TaskOf(t, Idle, v, c, l)
<1>1. Idle \in Records
  <2>1. Nothing \in Answers /\ None \in Ops
    BY DEF Nothing, Answers, Ops
  <2> QED
    BY <2>1 DEF Idle, Records, Steps
<1>2. /\ Idle.step = "idle" /\ ~Idle.overtaken /\ ~Idle.current
      /\ Idle.seen = 0 /\ Idle.op \notin Mutations
  BY CameraAssumption DEF Idle, Mutations, Switches
<1>3. v.public \in Nat
  BY DEF Views
<1>4. HeldBy(t, Idle, v, l)
  BY <1>2 DEF HeldBy, Places
<1>5. AnswerOf(Idle, v, c) /\ EpochOf(t, Idle, v)
  BY <1>2 DEF AnswerOf, EpochOf
<1>6. FenceOf(Idle, v, c)
  BY <1>2, <1>3 DEF FenceOf
<1> QED
  BY <1>1, <1>4, <1>5, <1>6 DEF TaskOf

-----------------------------------------------------------------------------
(* A step of one task that leaves the state of the camera in the view alone.  *)
LEMMA OneMoves ==
  ASSUME IInv, NEW t \in Tasks, NEW r \in Records, Put(t, r),
         UNCHANGED <<camera, may>>, view' \in Views, SameState(view, view'),
         KnownOf(view', camera), FrameOf(view'), TaskOf(t, r, view', camera, lock'),
         lock' \in Tasks \cup {None}, \A u \in Tasks \ {t} : lock = u => lock' = u
  PROVE  IInv'
<1>1. task' \in [Tasks -> Records] /\ Typed'
  BY DEF IInv, Typed, Put
<1>2. ASSUME NEW u \in Tasks PROVE TaskOf(u, task'[u], view', camera, lock')
  <2>1. CASE u = t
    BY <2>1 DEF IInv, Typed, Put
  <2>2. CASE u # t
    <3>1. task'[u] = task[u] /\ task[u] \in Records
      BY <2>2 DEF IInv, Typed, Put
    <3> QED
      BY <2>2, <3>1, TaskKept DEF IInv, Typed
  <2> QED
    BY <2>1, <2>2
<1> QED
  BY <1>1, <1>2 DEF IInv

(* One that moves the epoch for the others. *)
LEMMA EpochStep ==
  ASSUME IInv, NEW t \in Tasks, NEW r \in Records, PutEpoch(t, r, TRUE),
         UNCHANGED <<camera, may>>, view' \in Views,
         \/ view'.boot # None /\ view'.public > view.public /\ lock \in {t, None}
         \/ SameState(view, view'),
         KnownOf(view', camera), FrameOf(view'), TaskOf(t, r, view', camera, lock'),
         lock' \in Tasks \cup {None}, \A u \in Tasks \ {t} : lock = u => lock' = u
  PROVE  IInv'
<1>1. ASSUME NEW u \in Tasks, u # t
      PROVE  task'[u] = [task[u] EXCEPT !.current = @ /\ ~TRUE] /\ task'[u] \in Records
  BY <1>1, EpochMoves DEF IInv, Typed, PutEpoch
<1>2. task' \in [Tasks -> Records] /\ task'[t] = r
  BY <1>1 DEF PutEpoch
<1>3. Typed'
  BY <1>2 DEF IInv, Typed
<1>4. ASSUME NEW u \in Tasks PROVE TaskOf(u, task'[u], view', camera, lock')
  <2>1. CASE u = t
    BY <2>1, <1>2
  <2>2. CASE u # t
    <3>1. Newer(u, lock, view, view') \/ SameState(view, view')
      BY <2>2, CameraAssumption DEF Newer, Tasks
    <3> QED
      BY <1>1, <2>2, <3>1, TaskOutdated DEF IInv, Typed
  <2> QED
    BY <2>1, <2>2
<1> QED
  BY <1>3, <1>4 DEF IInv

LEMMA EpochKept ==
  ASSUME IInv, NEW t \in Tasks, NEW r, PutEpoch(t, r, FALSE)
  PROVE  Put(t, r)
<1>1. ASSUME NEW u \in Tasks PROVE [task[u] EXCEPT !.current = @ /\ ~FALSE] = task[u]
  BY EpochStays DEF IInv, Typed
<1> QED
  BY <1>1 DEF PutEpoch, Put, IInv, Typed

-----------------------------------------------------------------------------
(* What becomes of the view. *)

(* It is of the same state, and its frame at most dropped. *)
LEMMA ViewKept ==
  ASSUME NEW v \in Views, NEW w \in Views, NEW c \in Cameras, KnownOf(v, c), FrameOf(v),
         SameState(v, w), w.enabled => v.boot # None, w.latest \in {v.latest, NoFrame}
  PROVE  KnownOf(w, c) /\ FrameOf(w)
  BY DEF KnownOf, FrameOf, SameState

(* An answer that is accepted names a state the view may be of. *)
Fits(b, g, c) == b <= c.boot /\ (b = c.boot => g <= c.generation)

LEMMA RecordedFits ==
  ASSUME NEW v \in Views, NEW c \in Cameras, NEW b \in Nat, NEW g \in Nat \ {0},
         KnownOf(v, c), FrameOf(v), Fits(b, g, c), NEW w, w = Recorded(v, b, g)
  PROVE  /\ w \in Views /\ KnownOf(w, c) /\ FrameOf(w) /\ w.boot = b
         /\ w.enabled = v.enabled
         /\ IF Changes(v, b, g) THEN w.public > v.public
            ELSE SameState(v, w) /\ w.latest = v.latest
<1>1. NoFrame \in Frames
  BY DEF NoFrame, Frames
<1>2. CASE v.boot = None
  <2>1. v.public = 0 /\ v.latest = NoFrame /\ Changes(v, b, g) /\ ~v.enabled
    BY <1>2, CameraAssumption DEF KnownOf, Changes
  <2>2. w = [v EXCEPT !.boot = b, !.generation = g, !.public = g, !.latest = NoFrame]
    BY <1>2, <2>1 DEF Recorded
  <2>3. w \in Views
    BY <2>2, <1>1 DEF Views
  <2>4. /\ w.boot = b /\ w.generation = g /\ w.public = g /\ w.latest = NoFrame
        /\ w.enabled = v.enabled
    BY <2>1, <2>2 DEF Views
  <2>5. b # None /\ b \in Nat /\ g > 0
    BY CameraAssumption
  <2> QED
    BY <2>1, <2>3, <2>4, <2>5 DEF KnownOf, FrameOf, Fits
<1>3. CASE v.boot # None /\ Changes(v, b, g)
  <2>1. w = [v EXCEPT !.boot = b, !.generation = g, !.public = v.public + 1,
                      !.latest = NoFrame]
    BY <1>3 DEF Recorded
  <2>2. w \in Views
    <3>1. v.public + 1 \in Nat
      BY DEF Views
    <3> QED
      BY <2>1, <1>1, <3>1 DEF Views
  <2>3. /\ w.boot = b /\ w.generation = g /\ w.public = v.public + 1 /\ w.latest = NoFrame
        /\ w.enabled = v.enabled
    BY <2>1 DEF Views
  <2>4. b # None /\ v.public \in Nat /\ w.public > v.public
    BY <2>3, CameraAssumption DEF Views
  <2> QED
    BY <1>3, <2>2, <2>3, <2>4 DEF KnownOf, FrameOf, Fits
<1>4. CASE ~Changes(v, b, g) /\ v.boot # None
  <2>1. v.boot = b /\ v.generation = g
    BY <1>4 DEF Changes
  <2>2. w = [v EXCEPT !.boot = v.boot, !.generation = v.generation, !.public = v.public,
                      !.latest = v.latest]
    BY <1>4, <2>1 DEF Recorded
  <2>3. w = v
    BY <2>2 DEF Views
  <2> QED
    BY <1>4, <2>1, <2>3 DEF SameState
<1> QED
  BY <1>2, <1>3, <1>4

LEMMA RefreshedFits ==
  ASSUME NEW v \in Views, NEW c \in Cameras, NEW a \in Answers, a.generation > 0,
         KnownOf(v, c), FrameOf(v), Fits(a.boot, a.generation, c),
         NEW w, w = Refreshed(v, a)
  PROVE  /\ w \in Views /\ KnownOf(w, c) /\ FrameOf(w) /\ w.boot # None
         /\ IF Changes(v, a.boot, a.generation) THEN w.public > v.public ELSE SameState(v, w)
<1> DEFINE x == Recorded(v, a.boot, a.generation)
<1>1. a.boot \in Nat /\ a.generation \in Nat \ {0} /\ a.on \in BOOLEAN
  BY DEF Answers
<1>2. /\ x \in Views /\ KnownOf(x, c) /\ FrameOf(x) /\ x.boot = a.boot
      /\ IF Changes(v, a.boot, a.generation) THEN x.public > v.public ELSE SameState(v, x)
  BY <1>1, RecordedFits
<1>3. w = [x EXCEPT !.pinned = TRUE, !.enabled = a.on, !.reachable = TRUE,
                    !.latest = IF a.on THEN x.latest ELSE NoFrame]
  BY DEF Refreshed
<1>4. NoFrame \in Frames
  BY DEF NoFrame, Frames
<1> HIDE DEF x
<1>5. w \in Views
  BY <1>1, <1>2, <1>3, <1>4 DEF Views
<1>6. SameState(x, w) /\ w.latest \in {x.latest, NoFrame}
  BY <1>2, <1>3 DEF SameState, Views
<1>7. x.boot # None
  BY <1>1, <1>2, CameraAssumption
<1>8. KnownOf(w, c) /\ FrameOf(w)
  BY <1>2, <1>5, <1>6, <1>7, ViewKept
<1> QED
  BY <1>2, <1>5, <1>6, <1>7, <1>8 DEF SameState

-----------------------------------------------------------------------------
(* What a browser's request does under a lock that is free. *)
LEMMA LockedFits ==
  ASSUME NEW t \in Browsers, NEW r \in Records, NEW v \in Views, NEW c \in Cameras,
         v.boot # None, FenceOf(r, v, c), r.step \in {"asking", "told", "locking"},
         NEW l, Locked(r, v).step = "sent" => l = t
  PROVE  Locked(r, v) \in Records /\ TaskOf(t, Locked(r, v), v, c, l)
<1>1. CASE r.seen = v.public
  <2> DEFINE q == [Idle EXCEPT !.step = "sent", !.op = r.op, !.overtaken = r.overtaken]
  <2>1. Locked(r, v) = q
    BY <1>1 DEF Locked
  <2>2. /\ r.op \in Ops /\ r.overtaken \in BOOLEAN
    BY DEF Records
  <2>3. q \in Records
    BY <2>2, IdleIsFine DEF Records, Steps
  <2>4. q.step = "sent" /\ q.seen = 0 /\ q.overtaken = r.overtaken
    BY DEF Idle
  <2> HIDE DEF q
  <2>5. v.public \in Nat
    BY DEF Views
  <2>6. t # StatusLoop /\ t # StreamLoop
    BY CameraAssumption
  <2>7. HeldBy(t, q, v, l) /\ AnswerOf(q, v, c) /\ EpochOf(t, q, v)
    BY <2>1, <2>4, <2>6 DEF HeldBy, AnswerOf, EpochOf, Places
  <2>8. FenceOf(q, v, c)
    BY <1>1, <2>4, <2>5 DEF FenceOf
  <2> QED
    BY <2>1, <2>3, <2>7, <2>8 DEF TaskOf
<1>2. CASE r.seen # v.public
  BY <1>2, IdleIsFine DEF Locked
<1> QED
  BY <1>1, <1>2

LEMMA ProceedsFits ==
  ASSUME NEW t \in Browsers, NEW r \in Records, NEW v \in Views, NEW c \in Cameras,
         v.boot # None, FenceOf(r, v, c), r.step \in {"asking", "told"},
         NEW l, Free /\ Proceeds(r, v).step = "sent" => l = t
  PROVE  Proceeds(r, v) \in Records /\ TaskOf(t, Proceeds(r, v), v, c, l)
<1> DEFINE p == Proceeds(r, v)
<1>1. t # StatusLoop /\ t # StreamLoop
  BY CameraAssumption
<1>2. Nothing \in Answers /\ "watch" \in Ops
  BY DEF Nothing, Answers, Ops, Fetches
<1>3. CASE r.op \in Mutations /\ Free
  BY <1>3, LockedFits DEF Proceeds
<1>4. CASE r.op \in Mutations /\ ~Free
  <2>1. p = [r EXCEPT !.step = "locking", !.answer = Nothing]
    BY <1>4 DEF Proceeds
  <2>2. p \in Records
    BY <2>1, <1>2 DEF Records, Steps
  <2>3. /\ p.step = "locking" /\ p.seen = r.seen /\ p.overtaken = r.overtaken
    BY <2>1 DEF Records
  <2> HIDE DEF p
  <2>4. HeldBy(t, p, v, l) /\ AnswerOf(p, v, c) /\ EpochOf(t, p, v)
    BY <2>3, <1>1 DEF HeldBy, AnswerOf, EpochOf, Places
  <2>5. FenceOf(p, v, c)
    BY <2>3 DEF FenceOf
  <2> QED
    BY <2>2, <2>4, <2>5 DEF TaskOf, p
<1>5. CASE r.op \notin Mutations /\ v.enabled /\ v.pinned /\ ~Ready(v)
  <2>1. p = [r EXCEPT !.step = "fetching", !.current = TRUE, !.answer = Nothing]
    BY <1>5 DEF Proceeds
  <2>2. p \in Records
    BY <2>1, <1>2 DEF Records, Steps
  <2>3. /\ p.step = "fetching" /\ p.seen = r.seen
    BY <2>1 DEF Records
  <2> HIDE DEF p
  <2>4. HeldBy(t, p, v, l) /\ AnswerOf(p, v, c) /\ EpochOf(t, p, v)
    BY <2>3, <1>1 DEF HeldBy, AnswerOf, EpochOf, Places
  <2>5. FenceOf(p, v, c)
    BY <2>3 DEF FenceOf
  <2> QED
    BY <2>2, <2>4, <2>5 DEF TaskOf, p
<1>6. CASE r.op \notin Mutations /\ v.enabled /\ v.pinned /\ Ready(v) /\ r.op = "watch"
  <2>1. p = [Idle EXCEPT !.step = "watching", !.op = "watch"]
    BY <1>6 DEF Proceeds
  <2>2. p \in Records
    BY <2>1, <1>2, IdleIsFine DEF Records, Steps
  <2>3. p.step = "watching" /\ p.seen = 0
    BY <2>1 DEF Idle
  <2> HIDE DEF p
  <2>4. HeldBy(t, p, v, l) /\ AnswerOf(p, v, c) /\ EpochOf(t, p, v)
    BY <2>3, <1>1 DEF HeldBy, AnswerOf, EpochOf, Places
  <2>5. FenceOf(p, v, c)
    BY <2>3 DEF FenceOf, Views
  <2> QED
    BY <2>2, <2>4, <2>5 DEF TaskOf, p
<1>7. CASE p = Idle
  BY <1>7, IdleIsFine
<1> QED
  BY <1>3, <1>4, <1>5, <1>6, <1>7 DEF Proceeds

-----------------------------------------------------------------------------
(* Every step keeps the invariant. *)

(* The status told is one the camera was in, and the view is of it from now on,
   unless it is of a later one. *)
LEMMA StatusFits ==
  ASSUME IInv, NEW t \in Tasks, Refreshes(t)
  PROVE  LET a == task[t].answer
             moved == /\ Accepts(view, a.boot, a.generation)
                      /\ Changes(view, a.boot, a.generation)
         IN  /\ view' \in Views /\ KnownOf(view', camera) /\ FrameOf(view')
             /\ view'.boot # None
             /\ moved => view'.public > view.public
             /\ ~moved => SameState(view, view')
             /\ t # StreamLoop
<1> DEFINE a == task[t].answer
           changed == Changes(view, a.boot, a.generation)
           taken == Accepts(view, a.boot, a.generation)
<1>1. /\ task[t] \in Records /\ a \in Answers /\ view \in Views /\ camera \in Cameras
      /\ task[t].step = "told"
  BY DEF IInv, Typed, Records, Refreshes, At
<1>2. a.generation > 0 /\ Fits(a.boot, a.generation, camera) /\ t # StreamLoop
  BY <1>1, CameraAssumption DEF IInv, TaskOf, HeldBy, AnswerOf, Fits, Places
<1>3. view' = IF taken THEN Refreshed(view, a) ELSE view
  BY DEF Refreshes
<1>4. CASE taken
  BY <1>1, <1>2, <1>3, <1>4, RefreshedFits DEF IInv
<1>5. CASE ~taken
  <2>1. view' = view /\ view.boot = a.boot /\ a.boot \in Nat
    BY <1>1, <1>3, <1>5 DEF Accepts, Answers
  <2> QED
    BY <2>1, <1>1, <1>2, <1>5, CameraAssumption DEF IInv, SameState
<1> QED
  BY <1>4, <1>5

LEMMA StatusKeeps ==
  ASSUME IInv, NEW t \in Tasks, Refreshes(t)
  PROVE  IInv'
<1> DEFINE a == task[t].answer
           changed == Changes(view, a.boot, a.generation)
           taken == Accepts(view, a.boot, a.generation)
           q == AfterRefresh(t, view')
<1>1. /\ task[t] \in Records /\ view \in Views /\ camera \in Cameras
      /\ lock = None /\ task[t].step = "told"
  BY DEF IInv, Typed, Refreshes, Free, At
<1>2. FenceOf(task[t], view, camera)
  BY DEF IInv, TaskOf
<1>3. /\ PutEpoch(t, q, taken /\ changed)
      /\ lock' = IF Free /\ q.step = "sent" THEN t ELSE lock
      /\ UNCHANGED <<camera, may>>
  <2>1. task'[t] = q
    BY DEF Refreshes, PutEpoch
  <2> QED
    BY <2>1 DEF Refreshes, Takes
<1>4. /\ view' \in Views /\ KnownOf(view', camera) /\ FrameOf(view') /\ view'.boot # None
      /\ taken /\ changed => view'.public > view.public
      /\ ~(taken /\ changed) => SameState(view, view')
      /\ t # StreamLoop
  BY StatusFits
<1>5. FenceOf(task[t], view', camera)
  <2>1. task[t].seen \in Nat /\ view.public \in Nat /\ view'.public \in Nat
    BY <1>1, <1>4 DEF Records, Views
  <2> QED
    BY <1>1, <1>2, <1>4, <2>1 DEF FenceOf, SameState
<1> HIDE DEF a, changed, taken
<1>6. q \in Records /\ TaskOf(t, q, view', camera, lock')
  <2>1. CASE t = StatusLoop
    BY <2>1, <1>4, IdleIsFine DEF AfterRefresh
  <2>2. CASE t # StatusLoop
    <3>1. t \in Browsers
      BY <2>2, <1>4 DEF Tasks
    <3> QED
      BY <2>2, <3>1, <1>1, <1>3, <1>4, <1>5, ProceedsFits DEF AfterRefresh
  <2> QED
    BY <2>1, <2>2
<1> HIDE DEF q
<1>7. lock' \in Tasks \cup {None} /\ \A u \in Tasks \ {t} : lock = u => lock' = u
  BY <1>1, <1>3, CameraAssumption DEF Tasks
<1>8. CASE taken /\ changed
  <2>1. PutEpoch(t, q, TRUE)
    BY <1>3, <1>8 DEF PutEpoch
  <2> QED
    BY <2>1, <1>1, <1>3, <1>4, <1>6, <1>7, <1>8, EpochStep
<1>9. CASE ~(taken /\ changed)
  <2>1. PutEpoch(t, q, FALSE)
    BY <1>3, <1>9 DEF PutEpoch
  <2>2. Put(t, q)
    BY <2>1, EpochKept
  <2> QED
    BY <2>2, <1>3, <1>4, <1>6, <1>7, <1>9, OneMoves
<1> QED
  BY <1>8, <1>9

(* The view is of the same state and at most loses its frame: the rest of the *)
(* step is that of the task.                                                  *)
ViewStays ==
  /\ view' \in Views /\ SameState(view, view')
  /\ view'.enabled => view.boot # None
  /\ view'.latest \in {view.latest, NoFrame}

LEMMA TaskKeeps ==
  ASSUME IInv, NEW t \in Tasks, NEW r \in Records, Put(t, r), UNCHANGED <<camera, may>>,
         ViewStays, TaskOf(t, r, view', camera, lock'),
         lock' \in Tasks \cup {None}, \A u \in Tasks \ {t} : lock = u => lock' = u
  PROVE  IInv'
<1>1. KnownOf(view', camera) /\ FrameOf(view')
  BY ViewKept DEF IInv, Typed, ViewStays
<1> QED
  BY <1>1, OneMoves DEF ViewStays

LEMMA QuietKeeps ==
  ASSUME IInv, UNCHANGED <<camera, may, task, lock>>, ViewStays
  PROVE  IInv'
<1>1. KnownOf(view', camera) /\ FrameOf(view')
  BY ViewKept DEF IInv, Typed, ViewStays
<1>2. ASSUME NEW u \in Tasks PROVE TaskOf(u, task'[u], view', camera, lock')
  <2>1. task[u] \in Records
    BY DEF IInv, Typed
  <2> QED
    BY <2>1, TaskKept DEF IInv, Typed, ViewStays
<1> QED
  BY <1>1, <1>2 DEF IInv, Typed, ViewStays

(* The lock is not this task's, unless it is what the camera is to act on.    *)
LEMMA BackToIdle ==
  ASSUME IInv, NEW t \in Tasks, Put(t, Idle), UNCHANGED <<camera, may>>,
         ViewStays, lock' = lock \/ (lock = t /\ lock' = None)
  PROVE  IInv'
<1>1. lock' \in Tasks \cup {None} /\ \A u \in Tasks \ {t} : lock = u => lock' = u
  BY DEF IInv, Typed
<1>2. Idle \in Records /\ TaskOf(t, Idle, view', camera, lock')
  BY IdleIsFine DEF ViewStays
<1> QED
  BY <1>1, <1>2, TaskKeeps

LEMMA ViewUnchanged == ASSUME IInv, view' = view PROVE ViewStays
  BY DEF IInv, Typed, ViewStays, SameState, KnownOf

LEMMA ViewFlags ==
  ASSUME IInv, NEW x \in BOOLEAN, view' = [view EXCEPT !.reachable = x]
  PROVE  ViewStays
<1>1. view \in Views
  BY DEF IInv, Typed
<1>2. view' \in Views
  BY <1>1 DEF Views
<1>3. /\ view'.boot = view.boot /\ view'.generation = view.generation
      /\ view'.public = view.public /\ view'.latest = view.latest
      /\ view'.enabled = view.enabled
  BY <1>1 DEF Views
<1> QED
  BY <1>2, <1>3 DEF IInv, ViewStays, SameState, KnownOf

LEMMA ViewDropsFrame ==
  ASSUME IInv, view' = [view EXCEPT !.latest = NoFrame]
  PROVE  ViewStays
<1>1. view \in Views /\ NoFrame \in Frames
  BY DEF IInv, Typed, NoFrame, Frames
<1>2. view' \in Views
  BY <1>1 DEF Views
<1>3. /\ view'.boot = view.boot /\ view'.generation = view.generation
      /\ view'.public = view.public /\ view'.latest = NoFrame
      /\ view'.enabled = view.enabled
  BY <1>1 DEF Views
<1> QED
  BY <1>2, <1>3 DEF IInv, ViewStays, SameState, KnownOf

LEMMA ViewActionsKeep == IInv /\ (Start \/ Ages \/ MediaArrives) => IInv'
<1> SUFFICES ASSUME IInv, Start \/ Ages \/ MediaArrives PROVE IInv'
  OBVIOUS
<1>1. CASE Start
  BY <1>1, ViewUnchanged, QuietKeeps DEF Start
<1>2. CASE Ages
  BY <1>2, ViewDropsFrame, QuietKeeps DEF Ages
<1>3. CASE MediaArrives
  <2>1. view' = [view EXCEPT !.reachable = TRUE] /\ UNCHANGED <<camera, may, task, lock>>
    BY <1>3 DEF MediaArrives
  <2>2. ViewStays
    BY <2>1, ViewFlags
  <2> QED
    BY <2>1, <2>2, QuietKeeps
<1> QED
  BY <1>1, <1>2, <1>3

LEMMA GivingUpKeeps ==
  ASSUME IInv, NEW t \in Tasks, FrameRefused(t) \/ Leaves(t) \/ Fails(t)
                                  \/ (t = StreamLoop /\ StreamEnds)
  PROVE  IInv'
<1>1. CASE FrameRefused(t) \/ Leaves(t) \/ (t = StreamLoop /\ StreamEnds)
  <2>1. Put(t, Idle) /\ UNCHANGED <<camera, may, view, lock>>
    BY <1>1 DEF FrameRefused, Leaves, StreamEnds
  <2>2. ViewStays
    BY <2>1, ViewUnchanged
  <2> QED
    BY <2>1, <2>2, BackToIdle
<1>2. CASE Fails(t)
  <2>1. PICK x \in BOOLEAN : view' = [view EXCEPT !.reachable = x]
    <3>1. (view.reachable /\ ~At(t, "asking")) \in BOOLEAN
      OBVIOUS
    <3> QED
      BY <1>2, <3>1, Zenon DEF Fails
  <2>2. /\ Put(t, Idle) /\ UNCHANGED <<camera, may>>
        /\ (lock' = lock \/ (lock = t /\ lock' = None))
    BY <1>2 DEF Fails
  <2>3. ViewStays
    BY <2>1, ViewFlags
  <2> QED
    BY <2>2, <2>3, BackToIdle
<1> QED
  BY <1>1, <1>2

LEMMA StopKeeps == IInv /\ Stop => IInv'
<1> SUFFICES ASSUME IInv, Stop PROVE IInv'
  OBVIOUS
<1>1. view \in Views /\ NoFrame \in Frames
  BY DEF IInv, Typed, NoFrame, Frames
<1>2. view' \in Views
  BY <1>1 DEF Stop, Views
<1>3. /\ view'.boot = view.boot /\ view'.generation = view.generation
      /\ view'.public = view.public /\ view'.latest = NoFrame
      /\ view'.enabled = view.enabled
  BY <1>1 DEF Stop, Views
<1>4. KnownOf(view', camera) /\ FrameOf(view')
  BY <1>1, <1>2, <1>3, ViewKept DEF IInv, Typed, SameState, KnownOf
<1>5. UNCHANGED <<camera, may>> /\ task' = [t \in Tasks |-> Idle] /\ lock' = None
  BY DEF Stop
<1>6. Typed'
  BY <1>2, <1>5, IdleIsFine DEF IInv, Typed
<1> QED
  BY <1>2, <1>4, <1>5, <1>6, IdleIsFine DEF IInv

LEMMA RejectKeeps ==
  ASSUME IInv, NEW t \in Tasks, Rejects(t)
  PROVE  IInv'
<1>1. view \in Views /\ NoFrame \in Frames
  BY DEF IInv, Typed, NoFrame, Frames
<1>2. view' \in Views
  BY <1>1 DEF Rejects, Invalidated, Views
<1>3. /\ view'.boot = view.boot /\ view'.generation = view.generation
      /\ view'.public = view.public /\ view'.latest = NoFrame
      /\ view'.enabled = FALSE
  BY <1>1 DEF Rejects, Invalidated, Views
<1>4. KnownOf(view', camera) /\ FrameOf(view') /\ SameState(view, view')
  BY <1>1, <1>2, <1>3, ViewKept DEF IInv, Typed, SameState
<1> QED
  BY <1>2, <1>4, IdleIsFine, EpochStep DEF Rejects, IInv, Typed

LEMMA LookKeeps ==
  ASSUME IInv, NEW b \in Browsers, Look(b)
  PROVE  IInv'
<1> DEFINE r == [Idle EXCEPT !.step = "looked", !.seen = view.public]
<1>1. Put(b, r) /\ UNCHANGED <<camera, may, view, lock>>
  BY DEF Look
<1>2. view \in Views /\ view.public \in Nat /\ b \in Tasks
  BY DEF IInv, Typed, Views, Tasks
<1>3. r \in Records
  BY <1>2, IdleIsFine DEF Records, Steps
<1>4. r.step = "looked" /\ r.seen = view.public /\ ~r.overtaken
  BY DEF Idle
<1> HIDE DEF r
<1>5. HeldBy(b, r, view, lock) /\ AnswerOf(r, view, camera) /\ EpochOf(b, r, view)
  BY <1>4, CameraAssumption DEF HeldBy, AnswerOf, EpochOf, Places
<1>6. FenceOf(r, view, camera)
  BY <1>2, <1>4 DEF FenceOf
<1>7. ViewStays
  BY <1>1, ViewUnchanged
<1>8. lock' \in Tasks \cup {None}
  BY <1>1 DEF IInv, Typed
<1>9. TaskOf(b, r, view', camera, lock')
  BY <1>1, <1>5, <1>6 DEF TaskOf
<1> QED
  BY <1>1, <1>2, <1>3, <1>7, <1>8, <1>9, TaskKeeps

LEMMA EnterKeeps ==
  ASSUME IInv, NEW b \in Browsers, NEW op \in may[b], Enters(b, op)
  PROVE  IInv'
<1> DEFINE r == [task[b] EXCEPT !.op = op, !.step = "asking"]
           known == view.reachable /\ view.boot # None
           q == IF known THEN Proceeds(r, view) ELSE r
<1>1. /\ Put(b, q) /\ UNCHANGED <<camera, may, view>>
      /\ lock' = IF Free /\ task'[b].step = "sent" THEN b ELSE lock
      /\ task[b].step \in {"idle", "looked"}
  BY DEF Enters, Takes, At
<1>2. /\ view \in Views /\ camera \in Cameras /\ b \in Tasks /\ task[b] \in Records
      /\ task'[b] = q
  BY <1>1 DEF IInv, Typed, Tasks, Put
<1>3. op \in Ops
  <2>1. may[b] \subseteq {"on", "off", "store", "frame", "watch"}
    BY CameraAssumption DEF IInv, Typed
  <2> QED
    BY <2>1 DEF Ops, Mutations, Switches, Fetches
<1>4. r \in Records
  BY <1>2, <1>3 DEF Records, Steps
<1>5. r.step = "asking" /\ r.seen = task[b].seen /\ r.overtaken = task[b].overtaken
  BY <1>2 DEF Records
<1> HIDE DEF r
<1>6. FenceOf(r, view, camera)
  <2>1. FenceOf(task[b], view, camera)
    BY <1>2 DEF IInv, TaskOf
  <2> QED
    BY <1>1, <1>5, <2>1 DEF FenceOf
<1>7. q \in Records /\ TaskOf(b, q, view, camera, lock')
  <2>1. CASE known
    <3>1. Free /\ Proceeds(r, view).step = "sent" => lock' = b
      BY <1>1, <1>2, <2>1
    <3> QED
      BY <1>2, <1>4, <1>5, <1>6, <2>1, <3>1, ProceedsFits
  <2>2. CASE ~known
    <3>1. HeldBy(b, r, view, lock') /\ AnswerOf(r, view, camera) /\ EpochOf(b, r, view)
      BY <1>5, CameraAssumption DEF HeldBy, AnswerOf, EpochOf, Places
    <3> QED
      BY <2>2, <3>1, <1>4, <1>6 DEF TaskOf
  <2> QED
    BY <2>1, <2>2
<1> HIDE DEF q
<1>8. ViewStays
  BY <1>1, ViewUnchanged
<1>9. lock' \in Tasks \cup {None} /\ \A u \in Tasks \ {b} : lock = u => lock' = u
  BY <1>1, <1>2, CameraAssumption DEF IInv, Typed, Free, Tasks
<1>10. TaskOf(b, q, view', camera, lock')
  BY <1>1, <1>7
<1> QED
  BY <1>1, <1>2, <1>7, <1>8, <1>9, <1>10, TaskKeeps

LEMMA LockKeeps ==
  ASSUME IInv, NEW b \in Browsers, Locks(b)
  PROVE  IInv'
<1> DEFINE q == Locked(task[b], view)
<1>1. /\ Put(b, q) /\ UNCHANGED <<camera, may, view>>
      /\ lock' = IF Free /\ task'[b].step = "sent" THEN b ELSE lock
      /\ task[b].step = "locking" /\ lock = None
  BY DEF Locks, Takes, At, Free
<1>2. /\ view \in Views /\ camera \in Cameras /\ b \in Tasks /\ task[b] \in Records
      /\ task'[b] = q
  BY <1>1 DEF IInv, Typed, Tasks, Put
<1>3. FenceOf(task[b], view, camera) /\ view.boot # None
  BY <1>1, <1>2 DEF IInv, TaskOf, HeldBy
<1>4. q.step = "sent" => lock' = b
  BY <1>1, <1>2 DEF Free
<1>5. q \in Records /\ TaskOf(b, q, view, camera, lock')
  BY <1>1, <1>2, <1>3, <1>4, LockedFits
<1> HIDE DEF q
<1>6. ViewStays
  BY <1>1, ViewUnchanged
<1>7. lock' \in Tasks \cup {None} /\ \A u \in Tasks \ {b} : lock = u => lock' = u
  BY <1>1, <1>2, CameraAssumption DEF IInv, Typed, Free, Tasks
<1>8. TaskOf(b, q, view', camera, lock')
  BY <1>1, <1>5
<1> QED
  BY <1>1, <1>2, <1>5, <1>6, <1>7, <1>8, TaskKeeps

LEMMA LoopsKeep == IInv /\ (Asks \/ Connects) => IInv'
<1> SUFFICES ASSUME IInv, Asks \/ Connects PROVE IInv'
  OBVIOUS
<1>1. UNCHANGED <<camera, may, view, lock>>
  BY DEF Asks, Connects
<1>2. ViewStays /\ lock' \in Tasks \cup {None} /\ view \in Views
  BY <1>1, ViewUnchanged DEF IInv, Typed
<1>3. CASE Asks
  <2> DEFINE r == Moved(StatusLoop, "asking")
  <2>1. Put(StatusLoop, r) /\ StatusLoop \in Tasks /\ task[StatusLoop].step = "idle"
    BY <1>3 DEF Asks, Tasks, At
  <2>2. task[StatusLoop] \in Records /\ TaskOf(StatusLoop, task[StatusLoop], view, camera, lock)
    BY <2>1 DEF IInv, Typed
  <2>3. r \in Records
    BY <2>2 DEF Moved, Records, Steps
  <2>4. r.step = "asking" /\ r.seen = task[StatusLoop].seen
        /\ r.overtaken = task[StatusLoop].overtaken
    BY <2>2 DEF Moved, Records
  <2> HIDE DEF r
  <2>5. HeldBy(StatusLoop, r, view, lock) /\ AnswerOf(r, view, camera)
        /\ EpochOf(StatusLoop, r, view)
    BY <2>4 DEF HeldBy, AnswerOf, EpochOf, Places
  <2>6. FenceOf(r, view, camera)
    BY <2>1, <2>2, <2>4 DEF TaskOf, FenceOf
  <2>7. TaskOf(StatusLoop, r, view', camera, lock')
    BY <1>1, <2>5, <2>6 DEF TaskOf
  <2> QED
    BY <1>1, <1>2, <2>1, <2>3, <2>7, TaskKeeps
<1>4. CASE Connects
  <2> DEFINE r == [Idle EXCEPT !.step = "connecting", !.current = TRUE]
  <2>1. Put(StreamLoop, r) /\ StreamLoop \in Tasks /\ view.enabled
    BY <1>4 DEF Connects, Streamable, Tasks
  <2>2. r \in Records
    BY IdleIsFine, <1>2 DEF Records, Steps
  <2>3. r.step = "connecting" /\ r.seen = 0
    BY DEF Idle
  <2> HIDE DEF r
  <2>4. view.boot # None /\ view.public \in Nat
    BY <2>1, <1>2 DEF IInv, KnownOf, Views
  <2>5. HeldBy(StreamLoop, r, view, lock) /\ AnswerOf(r, view, camera)
        /\ EpochOf(StreamLoop, r, view)
    BY <2>3, <2>4, CameraAssumption DEF HeldBy, AnswerOf, EpochOf, Places
  <2>6. FenceOf(r, view, camera)
    BY <2>3, <2>4 DEF FenceOf
  <2>7. TaskOf(StreamLoop, r, view', camera, lock')
    BY <1>1, <2>5, <2>6 DEF TaskOf
  <2> QED
    BY <1>1, <1>2, <2>1, <2>2, <2>7, TaskKeeps
<1> QED
  BY <1>3, <1>4

LEMMA ToldIsAnswer == ASSUME IInv PROVE Told \in Answers
  BY DEF IInv, Typed, Told, Cameras, Answers

(* An answer is of the camera as it is now. *)
LEMMA AnswerKeeps ==
  ASSUME IInv, NEW t \in Tasks, CameraAnswers(t)
  PROVE  IInv'
<1>1. UNCHANGED <<camera, may, lock>> /\ CameraTells(t)
  BY DEF CameraAnswers
<1>2. /\ view \in Views /\ camera \in Cameras /\ task[t] \in Records
      /\ TaskOf(t, task[t], view, camera, lock) /\ KnownOf(view, camera)
      /\ lock \in Tasks \cup {None}
  BY DEF IInv, Typed
<1>3. camera.boot \in Nat /\ camera.generation \in Nat /\ camera.generation > 0
  BY <1>2 DEF Cameras
<1>4. PICK x \in BOOLEAN : view' = [view EXCEPT !.reachable = x]
  <2>1. (view.reachable \/ At(t, "connecting")) \in BOOLEAN
    OBVIOUS
  <2> QED
    BY <2>1, Zenon DEF CameraAnswers
<1>5. ViewStays
  BY <1>4, ViewFlags
<1>6. ASSUME NEW r \in Records, Put(t, r), TaskOf(t, r, view, camera, lock)
      PROVE  IInv'
  <2>1. TaskOf(t, r, view', camera, lock)
    BY <1>2, <1>5, <1>6, TaskKept DEF ViewStays
  <2> QED
    BY <1>1, <1>2, <1>5, <1>6, <2>1, TaskKeeps
<1>7. CASE At(t, "asking") /\ Put(t, [Moved(t, "told") EXCEPT !.answer = Told])
  <2> DEFINE r == [Moved(t, "told") EXCEPT !.answer = Told]
  <2>1. r \in Records
    BY <1>2, ToldIsAnswer DEF Moved, Records, Steps
  <2>2. /\ r.step = "told" /\ r.seen = task[t].seen /\ r.overtaken = task[t].overtaken
        /\ r.answer = Told
    BY <1>2 DEF Moved, Records
  <2> HIDE DEF r
  <2>3. HeldBy(t, r, view, lock) /\ EpochOf(t, r, view)
    BY <1>2, <1>7, <2>2 DEF TaskOf, HeldBy, EpochOf, Places, At
  <2>4. AnswerOf(r, view, camera)
    BY <1>3, <2>2 DEF AnswerOf, Told
  <2>5. FenceOf(r, view, camera)
    BY <1>2, <1>7, <2>2 DEF TaskOf, FenceOf, At
  <2> QED
    BY <1>6, <1>7, <2>1, <2>3, <2>4, <2>5 DEF TaskOf, r
<1>8. ASSUME At(t, "fetching"),
             Put(t, [Moved(t, "framed") EXCEPT
               !.answer = [Nothing EXCEPT !.boot = camera.boot, !.generation = camera.generation]])
      PROVE  IInv'
  <2> DEFINE n == [Nothing EXCEPT !.boot = camera.boot, !.generation = camera.generation]
             r == [Moved(t, "framed") EXCEPT !.answer = n]
  <2>1. n \in Answers /\ n.boot = camera.boot /\ n.generation = camera.generation
    BY <1>3 DEF Nothing, Answers
  <2> HIDE DEF n
  <2>2. r \in Records
    BY <1>2, <2>1 DEF Moved, Records, Steps
  <2>3. /\ r.step = "framed" /\ r.seen = task[t].seen /\ r.current = task[t].current
        /\ r.answer = n
    BY <1>2 DEF Moved, Records
  <2> HIDE DEF r
  <2>4. HeldBy(t, r, view, lock) /\ AnswerOf(r, view, camera) /\ FenceOf(r, view, camera)
    BY <1>2, <1>8, <2>3 DEF TaskOf, HeldBy, AnswerOf, FenceOf, Places, At
  <2>5. EpochOf(t, r, view)
    BY <1>2, <1>3, <1>8, <2>1, <2>3 DEF TaskOf, EpochOf, KnownOf, At, Views
  <2> QED
    BY <1>6, <1>8, <2>2, <2>4, <2>5 DEF TaskOf, r, n
<1>9. CASE At(t, "connecting") /\ Put(t, [Moved(t, "streaming") EXCEPT !.answer.boot = camera.boot])
  <2> DEFINE r == [Moved(t, "streaming") EXCEPT !.answer.boot = camera.boot]
  <2>1. [task[t].answer EXCEPT !.boot = camera.boot] \in Answers
    BY <1>2, <1>3 DEF Records, Answers
  <2>2. r = [Moved(t, "streaming") EXCEPT !.answer = [task[t].answer EXCEPT !.boot = camera.boot]]
    BY <1>2 DEF Moved, Records
  <2>3. r \in Records
    BY <1>2, <2>1, <2>2 DEF Moved, Records, Steps
  <2>4. /\ r.step = "streaming" /\ r.seen = task[t].seen /\ r.current = task[t].current
        /\ r.answer.boot = camera.boot
    BY <1>2 DEF Moved, Records, Answers
  <2> HIDE DEF r
  <2>5. HeldBy(t, r, view, lock) /\ AnswerOf(r, view, camera) /\ FenceOf(r, view, camera)
    BY <1>2, <1>9, <2>4 DEF TaskOf, HeldBy, AnswerOf, FenceOf, Places, At
  <2>6. EpochOf(t, r, view)
    BY <1>2, <1>3, <1>9, <2>4 DEF TaskOf, EpochOf, KnownOf, At, Views
  <2> QED
    BY <1>6, <1>9, <2>3, <2>5, <2>6 DEF TaskOf, r
<1> QED
  BY <1>1, <1>7, <1>8, <1>9 DEF CameraTells

LEMMA CompletedFits ==
  ASSUME IInv, NEW b \in Browsers, Completes(b)
  PROVE  LET g == task[b].answer.generation
             moved == /\ task[b].answer.ok /\ task[b].op \in Switches
                      /\ Accepts(view, view.boot, g) /\ Changes(view, view.boot, g)
         IN  /\ view' \in Views /\ KnownOf(view', camera) /\ FrameOf(view')
             /\ moved => view'.boot # None /\ view'.public > view.public
             /\ ~moved => ViewStays
<1> DEFINE g == task[b].answer.generation
           on == task[b].op = "on"
           taken == task[b].answer.ok /\ task[b].op \in Switches /\ Accepts(view, view.boot, g)
           changed == Changes(view, view.boot, g)
           w == Recorded(view, view.boot, g)
<1>1. /\ b \in Tasks /\ task[b] \in Records /\ view \in Views /\ camera \in Cameras
      /\ task[b].step = "acted"
      /\ view' = IF taken THEN [w EXCEPT !.enabled = on, !.latest = IF on THEN w.latest ELSE NoFrame]
                 ELSE view
  BY DEF IInv, Typed, Completes, Tasks, At
<1>2. /\ view.boot \in Nat /\ g \in Nat \ {0} /\ Fits(view.boot, g, camera)
  BY <1>1 DEF IInv, TaskOf, HeldBy, AnswerOf, KnownOf, Fits, Views, Records, Answers
<1>3. /\ w \in Views /\ KnownOf(w, camera) /\ FrameOf(w) /\ w.boot = view.boot
      /\ IF changed THEN w.public > view.public
         ELSE SameState(view, w) /\ w.latest = view.latest
  BY <1>1, <1>2, RecordedFits DEF IInv
<1>4. NoFrame \in Frames /\ on \in BOOLEAN /\ view.boot # None
  BY <1>2, CameraAssumption DEF NoFrame, Frames
<1> HIDE DEF w
<1>5. CASE taken
  <2> HIDE DEF g, on, changed, taken
  <2>1. view' \in Views
    BY <1>1, <1>3, <1>4, <1>5 DEF Views
  <2>2. SameState(w, view') /\ view'.latest \in {w.latest, NoFrame}
    BY <1>1, <1>3, <1>5 DEF SameState, Views
  <2>3. KnownOf(view', camera) /\ FrameOf(view')
    BY <1>1, <1>3, <1>4, <2>1, <2>2, ViewKept
  <2>4. IF changed THEN view'.boot # None /\ view'.public > view.public ELSE ViewStays
    BY <1>3, <1>4, <2>1, <2>2 DEF ViewStays, SameState
  <2> QED
    BY <1>5, <2>1, <2>3, <2>4 DEF taken, changed, g
<1>6. CASE ~taken
  <2>1. ViewStays
    BY <1>1, <1>6, ViewUnchanged
  <2>2. view' \in Views /\ KnownOf(view', camera) /\ FrameOf(view')
    BY <1>1, <1>6 DEF IInv
  <2> QED
    BY <1>6, <2>1, <2>2
<1> QED
  BY <1>5, <1>6

LEMMA CompleteKeeps ==
  ASSUME IInv, NEW b \in Browsers, Completes(b)
  PROVE  IInv'
<1> DEFINE g == task[b].answer.generation
           moved == /\ task[b].answer.ok /\ task[b].op \in Switches
                    /\ Accepts(view, view.boot, g) /\ Changes(view, view.boot, g)
<1>1. /\ b \in Tasks /\ lock' = None /\ UNCHANGED <<camera, may>>
      /\ PutEpoch(b, Idle, moved) /\ lock = b
  BY DEF IInv, TaskOf, HeldBy, Completes, Tasks, At
<1>2. /\ view' \in Views /\ KnownOf(view', camera) /\ FrameOf(view')
      /\ moved => view'.boot # None /\ view'.public > view.public
      /\ ~moved => ViewStays
  BY CompletedFits
<1> HIDE DEF moved
<1>3. CASE moved
  <2>1. PutEpoch(b, Idle, TRUE)
    BY <1>1, <1>3 DEF PutEpoch
  <2>2. Idle \in Records /\ TaskOf(b, Idle, view', camera, lock')
    BY <1>2, IdleIsFine
  <2>3. lock' \in Tasks \cup {None} /\ \A u \in Tasks \ {b} : lock = u => lock' = u
    BY <1>1
  <2>4. view'.boot # None /\ view'.public > view.public /\ lock \in {b, None}
    BY <1>1, <1>2, <1>3
  <2> QED
    BY <1>1, <1>2, <2>1, <2>2, <2>3, <2>4, EpochStep
<1>4. CASE ~moved
  <2>1. PutEpoch(b, Idle, FALSE)
    BY <1>1, <1>4 DEF PutEpoch
  <2> QED
    BY <1>1, <1>2, <1>4, <2>1, EpochKept, BackToIdle
<1> QED
  BY <1>3, <1>4

(* What a task brings fits the view, if the epoch is that of its request.     *)
Brings(t, g) ==
  task[t].current =>
    /\ view.boot # None
    /\ task[t].answer.boot = view.boot => g >= view.generation
    /\ t # StreamLoop => task[t].answer.boot = view.boot
    /\ task[t].answer.boot >= view.boot

LEMMA PublishKeeps ==
  ASSUME IInv, NEW t \in Tasks, t # StatusLoop, NEW g \in Nat, Brings(t, g),
         NEW x \in BOOLEAN, NEW v, v = [view EXCEPT !.reachable = x],
         PublishOrWait(t, g, v), UNCHANGED <<camera, may, lock>>
  PROVE  IInv'
<1>1. /\ view \in Views /\ camera \in Cameras /\ task[t] \in Records
      /\ FenceOf(task[t], view, camera) /\ KnownOf(view, camera) /\ FrameOf(view)
      /\ lock' \in Tasks \cup {None} /\ lock' = lock
  BY DEF IInv, Typed, TaskOf
<1>2. /\ task[t].answer \in Answers /\ task[t].answer.boot \in Nat /\ task[t].seen \in Nat
      /\ view.public \in Nat /\ view.boot \in Nat \cup {None} /\ view.generation \in Nat
  BY <1>1 DEF Records, Answers, Views
<1>3. /\ v \in Views /\ SameState(view, v) /\ v.latest = view.latest
      /\ v.enabled = view.enabled /\ v.public = view.public
  BY <1>1 DEF SameState, Views
<1>4. ASSUME NEW r \in Records, r.step = "publishing" \/ r.step = "streaming" \/ r.step = "watching",
             r.seen <= view.public, r.step \in Places(t), EpochOf(t, r, view)
      PROVE  TaskOf(t, r, view, camera, lock)
  BY <1>4 DEF TaskOf, HeldBy, AnswerOf, FenceOf
<1>5. CASE ~Free
  <2> DEFINE r == [Moved(t, "publishing") EXCEPT !.answer.generation = g]
             a == [task[t].answer EXCEPT !.generation = g]
  <2>1. Put(t, r) /\ view' = v
    BY <1>5 DEF PublishOrWait
  <2>2. a \in Answers /\ a.generation = g /\ a.boot = task[t].answer.boot
    BY <1>2 DEF Answers
  <2>3. r = [Moved(t, "publishing") EXCEPT !.answer = a]
    BY <1>1 DEF Moved, Records
  <2> HIDE DEF a
  <2>4. r \in Records
    BY <1>1, <2>2, <2>3 DEF Moved, Records, Steps
  <2>5. /\ r.step = "publishing" /\ r.seen = task[t].seen /\ r.current = task[t].current
        /\ r.answer = a
    BY <1>1, <2>3 DEF Moved, Records
  <2> HIDE DEF r
  <2>6. EpochOf(t, r, view)
    BY <2>2, <2>5 DEF EpochOf, Brings
  <2>7. r.seen <= view.public /\ r.step \in Places(t)
    BY <1>1, <2>5 DEF FenceOf, Places
  <2>8. TaskOf(t, r, view, camera, lock)
    BY <1>4, <2>4, <2>5, <2>6, <2>7
  <2>9. ViewStays
    BY <1>1, <1>3, <2>1 DEF ViewStays, KnownOf
  <2>10. TaskOf(t, r, view', camera, lock')
    BY <1>1, <2>4, <2>8, <2>9, TaskKept DEF ViewStays
  <2> QED
    BY <1>1, <2>1, <2>4, <2>9, <2>10, TaskKeeps
<1>6. CASE Free /\ ~Publishable(t)
  <2>1. Put(t, Idle) /\ view' = v
    BY <1>6 DEF PublishOrWait, AfterPublish
  <2>2. ViewStays
    BY <1>1, <1>3, <2>1 DEF ViewStays, KnownOf
  <2> QED
    BY <2>1, <2>2, BackToIdle
<1>7. CASE Free /\ Publishable(t)
  <2> DEFINE f == [public |-> v.public, boot |-> task[t].answer.boot,
                   generation |-> g, fetched |-> t # StreamLoop]
             r == AfterPublish(t)
  <2>1. Put(t, r) /\ view' = [v EXCEPT !.latest = f] /\ task[t].current
    BY <1>7 DEF PublishOrWait, Published, Publishable
  <2>2. f \in Frames
    BY <1>2, <1>3 DEF Frames
  <2>3. /\ f.public = view.public /\ f.boot = task[t].answer.boot /\ f.generation = g
        /\ f.fetched = (t # StreamLoop)
    BY <1>3
  <2> HIDE DEF f
  <2>4. view' \in Views /\ SameState(view, view') /\ view'.latest = f
        /\ view'.enabled = view.enabled
    BY <1>3, <2>1, <2>2 DEF Views, SameState
  <2>5. FrameOf(view')
    <3>1. /\ view.boot \in Nat /\ f.boot >= view.boot
          /\ f.boot = view.boot => f.generation >= view.generation
          /\ t # StreamLoop => f.boot = view.boot
      BY <1>2, <2>1, <2>3 DEF Brings
    <3>2. CASE t # StreamLoop
      BY <2>4, <3>1, <3>2 DEF FrameOf, SameState
    <3>3. CASE t = StreamLoop
      <4>1. ~f.fetched /\ f.boot \in Nat
        BY <1>2, <2>3, <3>3
      <4> QED
        BY <2>4, <3>1, <4>1 DEF FrameOf, SameState
    <3> QED
      BY <3>2, <3>3
  <2>6. KnownOf(view', camera)
    BY <1>1, <2>1, <2>4 DEF KnownOf, SameState, Brings
  <2>7. r \in Records /\ TaskOf(t, r, view, camera, lock)
    <3>1. CASE t = StreamLoop
      <4> DEFINE a == [task[t].answer EXCEPT !.generation = 0]
      <4>1. r = [Moved(t, "streaming") EXCEPT !.answer = a]
        BY <1>1, <1>7, <3>1 DEF AfterPublish, Moved, Records
      <4>2. a \in Answers /\ a.boot = task[t].answer.boot
        BY <1>2 DEF Answers
      <4> HIDE DEF a
      <4>3. r \in Records
        BY <1>1, <4>1, <4>2 DEF Moved, Records, Steps
      <4>4. /\ r.step = "streaming" /\ r.seen = task[t].seen /\ r.answer = a
        BY <1>1, <4>1 DEF Moved, Records
      <4> HIDE DEF r
      <4>5. EpochOf(t, r, view)
        BY <2>1, <4>2, <4>4 DEF EpochOf, Brings
      <4>6. r.seen <= view.public /\ r.step \in Places(t)
        BY <1>1, <3>1, <4>4, CameraAssumption DEF FenceOf, Places
      <4> QED
        BY <1>4, <4>3, <4>4, <4>5, <4>6
    <3>2. CASE t # StreamLoop /\ task[t].op = "watch"
      <4>1. r = [Idle EXCEPT !.step = "watching", !.op = "watch"]
        BY <1>7, <3>2 DEF AfterPublish
      <4>2. r \in Records
        BY <1>1, <4>1, IdleIsFine DEF Records, Steps, Ops, Fetches
      <4>3. r.step = "watching" /\ r.seen = 0
        BY <4>1 DEF Idle
      <4> HIDE DEF r
      <4>4. EpochOf(t, r, view) /\ r.seen <= view.public /\ r.step \in Places(t)
        BY <1>2, <3>2, <4>3 DEF EpochOf, Places
      <4> QED
        BY <1>4, <4>2, <4>3, <4>4
    <3>3. CASE t # StreamLoop /\ task[t].op # "watch"
      BY <1>1, <1>7, <3>3, IdleIsFine DEF AfterPublish
    <3> QED
      BY <3>1, <3>2, <3>3
  <2> HIDE DEF r
  <2>8. TaskOf(t, r, view', camera, lock')
    BY <1>1, <2>4, <2>7, TaskKept
  <2> QED
    BY <1>1, <2>1, <2>4, <2>5, <2>6, <2>7, <2>8, OneMoves
<1> QED
  BY <1>5, <1>6, <1>7

LEMMA FrameActionsKeep ==
  ASSUME IInv, NEW t \in Tasks,
         Publishes(t) \/ (t \in Browsers /\ FrameArrives(t)) \/ (t = StreamLoop /\ ChunkArrives)
  PROVE  IInv'
<1>1. /\ view \in Views /\ camera \in Cameras /\ task[t] \in Records
      /\ TaskOf(t, task[t], view, camera, lock) /\ KnownOf(view, camera)
      /\ UNCHANGED <<camera, may, lock>>
  BY DEF IInv, Typed, Publishes, FrameArrives, ChunkArrives
<1>2. /\ view.reachable \in BOOLEAN /\ view = [view EXCEPT !.reachable = view.reachable]
      /\ task[t].answer.generation \in Nat /\ task[t].answer.boot \in Nat
      /\ view.generation \in Nat /\ view.boot \in Nat \cup {None}
      /\ camera.boot \in Nat /\ camera.generation \in Nat
  BY <1>1 DEF Views, Records, Answers, Cameras
<1>3. CASE Publishes(t)
  <2>1. /\ task[t].step = "publishing"
        /\ PublishOrWait(t, task[t].answer.generation, view)
    BY <1>3 DEF Publishes, At
  <2>2. t # StatusLoop /\ Brings(t, task[t].answer.generation)
    BY <1>1, <2>1, CameraAssumption DEF TaskOf, HeldBy, EpochOf, Places, Brings
  <2> QED
    BY <1>1, <1>2, <2>1, <2>2, PublishKeeps
<1>4. CASE t \in Browsers /\ FrameArrives(t)
  <2>1. CASE task[t].answer.boot # view.boot
    <3>1. Put(t, Idle) /\ view' = view
      BY <1>4, <2>1 DEF FrameArrives
    <3> QED
      BY <1>1, <3>1, ViewUnchanged, BackToIdle
  <2>2. CASE task[t].answer.boot = view.boot
    <3>1. /\ task[t].step = "framed"
          /\ PublishOrWait(t, task[t].answer.generation, [view EXCEPT !.reachable = TRUE])
      BY <1>4, <2>2 DEF FrameArrives, At
    <3>2. t # StatusLoop /\ Brings(t, task[t].answer.generation)
      BY <1>1, <1>2, <1>4, <2>2, <3>1, CameraAssumption DEF TaskOf, EpochOf, Brings
    <3> QED
      BY <1>1, <1>2, <3>1, <3>2, PublishKeeps
  <2> QED
    BY <2>1, <2>2
<1>5. CASE t = StreamLoop /\ ChunkArrives
  <2>1. CASE StreamGoesOn
    <3>1. /\ task[t].step = "streaming" /\ task[t].answer.boot = camera.boot
          /\ PublishOrWait(t, camera.generation, view)
      BY <1>5, <2>1 DEF ChunkArrives, At
    <3>2. t # StatusLoop /\ Brings(t, camera.generation)
      BY <1>1, <1>2, <1>5, <3>1, CameraAssumption DEF TaskOf, EpochOf, KnownOf, Brings
    <3> QED
      BY <1>1, <1>2, <3>1, <3>2, PublishKeeps
  <2>2. CASE ~StreamGoesOn
    <3>1. Put(t, Idle) /\ view' = view
      BY <1>5, <2>2 DEF ChunkArrives
    <3> QED
      BY <1>1, <3>1, ViewUnchanged, BackToIdle
  <2> QED
    BY <2>1, <2>2
<1> QED
  BY <1>3, <1>4, <1>5

-----------------------------------------------------------------------------
(* The camera moves. *)

LEMMA RebootKeeps == IInv /\ Reboots => IInv'
<1> SUFFICES ASSUME IInv, Reboots PROVE IInv'
  OBVIOUS
<1>1. /\ view \in Views /\ camera \in Cameras /\ UNCHANGED <<view, lock, may>>
      /\ camera' = Booted(camera.boot + 1)
      /\ task' = [t \in Tasks |-> [task[t] EXCEPT !.overtaken = FALSE]]
      /\ task \in [Tasks -> Records]
  BY DEF IInv, Typed, Reboots
<1>2. /\ camera' \in Cameras /\ camera'.boot = camera.boot + 1 /\ camera.boot \in Nat
      /\ camera'.boot > camera.boot
  BY <1>1, CameraAssumption DEF Booted, Cameras
<1>3. view.boot \in Nat \cup {None}
  BY <1>1 DEF Views
<1>4. KnownOf(view', camera') /\ FrameOf(view')
  BY <1>1, <1>2, <1>3, CameraAssumption DEF IInv, KnownOf
<1>5. ASSUME NEW u \in Tasks
      PROVE  task'[u] \in Records /\ TaskOf(u, task'[u], view', camera', lock')
  <2> DEFINE r == task[u]
             q == [r EXCEPT !.overtaken = FALSE]
  <2>1. r \in Records /\ TaskOf(u, r, view, camera, lock) /\ task'[u] = q
    BY <1>1 DEF IInv
  <2>2. /\ q \in Records /\ q.step = r.step /\ q.seen = r.seen /\ q.answer = r.answer
        /\ q.current = r.current /\ ~q.overtaken /\ q.op = r.op
    BY <2>1 DEF Records
  <2>3. r.answer.boot \in Nat
    BY <2>1 DEF Records, Answers
  <2> HIDE DEF q, r
  <2>4. HeldBy(u, q, view, lock) /\ FenceOf(q, view, camera') /\ EpochOf(u, q, view)
    BY <2>1, <2>2 DEF TaskOf, HeldBy, FenceOf, EpochOf
  <2>5. AnswerOf(q, view, camera')
    BY <1>1, <1>2, <1>3, <2>1, <2>2, <2>3, CameraAssumption DEF TaskOf, AnswerOf, IInv, KnownOf, HeldBy
  <2> QED
    BY <1>1, <2>1, <2>2, <2>4, <2>5 DEF TaskOf
<1>6. Typed'
  BY <1>1, <1>2, <1>5 DEF IInv, Typed
<1> QED
  BY <1>4, <1>5, <1>6 DEF IInv

(* A change meets the generation it was sent with, and moves it up. *)
LEMMA OutcomeFits ==
  ASSUME camera \in Cameras, NEW t, NEW o \in Outcomes(t)
  PROVE  /\ o.camera \in Cameras /\ o.ok \in BOOLEAN
         /\ o.camera.boot = camera.boot /\ o.camera.generation >= camera.generation
         /\ o.ok => view.generation = camera.generation
         /\ o.camera # camera => /\ view.generation = camera.generation
                                 /\ o.camera.generation > camera.generation
<1>1. camera.generation \in Nat \ {0} /\ camera.on \in BOOLEAN
  BY DEF Cameras
<1>2. CASE o = Refuses
  BY <1>1, <1>2 DEF Refuses
<1>3. CASE view.generation = camera.generation /\ o = [camera |-> camera, ok |-> camera.on]
  BY <1>1, <1>3
<1>4. ASSUME NEW want \in BOOLEAN, o \in Switched(want), view.generation = camera.generation
      PROVE  /\ o.camera \in Cameras /\ o.ok \in BOOLEAN
             /\ o.camera.boot = camera.boot /\ o.camera.generation >= camera.generation
             /\ o.camera # camera => o.camera.generation > camera.generation
  <2> DEFINE off == [camera EXCEPT !.on = FALSE, !.generation = camera.generation + 1]
             again == [off EXCEPT !.on = TRUE]
  <2>1. camera.generation + 1 \in Nat \ {0}
    BY <1>1
  <2>2. off \in Cameras /\ off.boot = camera.boot /\ off.generation = camera.generation + 1
    BY <2>1 DEF Cameras
  <2>3. o \in {[camera |-> camera, ok |-> TRUE], [camera |-> off, ok |-> TRUE],
              [camera |-> again, ok |-> TRUE], [camera |-> off, ok |-> FALSE]}
    BY <1>4, Zenon DEF Switched
  <2> HIDE DEF off
  <2>4. /\ again \in Cameras /\ again.boot = camera.boot
        /\ again.generation = camera.generation + 1
    BY <2>2 DEF Cameras
  <2> HIDE DEF again
  <2>5. /\ o.ok \in {TRUE, FALSE}
        /\ o.camera = camera \/ o.camera = off \/ o.camera = again
    <3>1. CASE o = [camera |-> camera, ok |-> TRUE]
      BY <3>1
    <3>2. CASE o = [camera |-> off, ok |-> TRUE]
      BY <3>2
    <3>3. CASE o = [camera |-> again, ok |-> TRUE]
      BY <3>3
    <3>4. CASE o = [camera |-> off, ok |-> FALSE]
      BY <3>4
    <3> QED
      BY <2>3, <3>1, <3>2, <3>3, <3>4
  <2>6. o.ok \in BOOLEAN
    BY <2>5
  <2>7. /\ o.camera \in Cameras /\ o.camera.boot = camera.boot
        /\ o.camera = camera \/ o.camera.generation = camera.generation + 1
    BY <2>2, <2>4, <2>5
  <2>8. o.camera.generation >= camera.generation
    BY <1>1, <2>7
  <2>9. o.camera # camera => o.camera.generation > camera.generation
    BY <1>1, <2>7
  <2> QED
    BY <2>6, <2>7, <2>8, <2>9
<1>5. CASE view.generation = camera.generation /\ o \in Switched(task[t].op = "on")
  BY <1>4, <1>5
<1> QED
  BY <1>2, <1>3, <1>5 DEF Outcomes

LEMMA ActKeeps ==
  ASSUME IInv, NEW t \in Tasks, CameraActs(t)
  PROVE  IInv'
<1>1. PICK o \in Outcomes(t) :
        /\ camera' = o.camera
        /\ task' = [u \in Tasks |->
             IF u = t THEN [Moved(t, "acted") EXCEPT
                  !.answer = [Nothing EXCEPT !.ok = o.ok, !.generation = o.camera.generation]]
             ELSE [task[u] EXCEPT !.overtaken = @ \/ (o.camera # camera /\ Concerned(u))]]
  BY Zenon DEF CameraActs
<1>2. /\ view \in Views /\ camera \in Cameras /\ task \in [Tasks -> Records]
      /\ UNCHANGED <<view, lock, may>> /\ task[t].step = "sent"
      /\ KnownOf(view, camera) /\ FrameOf(view)
  BY DEF IInv, Typed, CameraActs, At
<1>3. /\ camera' \in Cameras /\ o.ok \in BOOLEAN
      /\ camera'.boot = camera.boot /\ camera'.generation >= camera.generation
      /\ o.camera # camera => /\ view.generation = camera.generation
                              /\ camera'.generation > camera.generation
  BY <1>1, <1>2, OutcomeFits
<1>4. /\ camera.boot \in Nat /\ camera.generation \in Nat /\ camera'.generation \in Nat \ {0}
      /\ view.generation \in Nat /\ view.public \in Nat
  BY <1>2, <1>3 DEF Cameras, Views
<1>5. KnownOf(view', camera') /\ FrameOf(view')
  BY <1>2, <1>3, <1>4 DEF KnownOf
<1>6. task'[t] \in Records /\ TaskOf(t, task'[t], view', camera', lock')
  <2> DEFINE n == [Nothing EXCEPT !.ok = o.ok, !.generation = o.camera.generation]
             r == [Moved(t, "acted") EXCEPT !.answer = n]
  <2>1. n \in Answers /\ n.generation = camera'.generation
    BY <1>1, <1>3, <1>4 DEF Nothing, Answers
  <2>2. task'[t] = r
    BY <1>1
  <2> HIDE DEF n
  <2>3. task[t] \in Records /\ TaskOf(t, task[t], view, camera, lock)
    BY <1>2 DEF IInv
  <2>4. r \in Records
    BY <2>1, <2>3 DEF Moved, Records, Steps
  <2>5. r.step = "acted" /\ r.seen = task[t].seen /\ r.answer = n
    BY <2>3 DEF Moved, Records
  <2> HIDE DEF r
  <2>6. HeldBy(t, r, view, lock) /\ FenceOf(r, view, camera') /\ EpochOf(t, r, view)
    BY <1>2, <2>3, <2>5 DEF TaskOf, HeldBy, FenceOf, EpochOf, Places
  <2>7. AnswerOf(r, view, camera')
    BY <1>4, <2>1, <2>5 DEF AnswerOf
  <2> QED
    BY <1>2, <2>2, <2>4, <2>6, <2>7 DEF TaskOf
<1>7. ASSUME NEW u \in Tasks, u # t
      PROVE  task'[u] \in Records /\ TaskOf(u, task'[u], view', camera', lock')
  <2> DEFINE r == task[u]
             x == r.overtaken \/ (o.camera # camera /\ Concerned(u))
             q == [r EXCEPT !.overtaken = x]
  <2>1. r \in Records /\ TaskOf(u, r, view, camera, lock)
    BY <1>2 DEF IInv
  <2>2. task'[u] = q
    BY <1>1, <1>7, Zenon
  <2>3. x \in BOOLEAN
    OBVIOUS
  <2>4. r.step \notin {"sent", "acted"}
    BY <1>2, <1>7, <2>1 DEF IInv, TaskOf, HeldBy
  <2>5. r.step = "idle" => ~x
    <3>1. r.step = "idle" => ~Concerned(u)
      <4>1. r.step = "idle" => r.op \notin Mutations
        BY <2>1 DEF TaskOf, HeldBy
      <4> QED
        BY <4>1 DEF Concerned, At
    <3> QED
      BY <2>1, <3>1 DEF TaskOf, FenceOf
  <2>6. x => r.overtaken \/ view.generation < camera'.generation
    BY <1>3, <1>4
  <2> HIDE DEF x
  <2>7. /\ q \in Records /\ q.step = r.step /\ q.seen = r.seen /\ q.answer = r.answer
        /\ q.current = r.current /\ q.overtaken = x /\ q.op = r.op
    BY <2>1, <2>3 DEF Records
  <2>8. r.answer.generation \in Nat /\ r.answer.boot \in Nat
    BY <2>1 DEF Records, Answers
  <2> HIDE DEF q, r
  <2>9. HeldBy(u, q, view, lock) /\ EpochOf(u, q, view)
    BY <2>1, <2>7 DEF TaskOf, HeldBy, EpochOf
  <2>10. AnswerOf(q, view, camera')
    BY <1>3, <1>4, <2>1, <2>4, <2>7, <2>8 DEF TaskOf, AnswerOf
  <2>11. FenceOf(q, view, camera')
    BY <1>3, <1>4, <2>1, <2>4, <2>5, <2>6, <2>7 DEF TaskOf, FenceOf
  <2> QED
    BY <1>2, <2>2, <2>7, <2>9, <2>10, <2>11 DEF TaskOf
<1>8. Typed'
  <2>1. task' \in [Tasks -> Records]
    BY <1>1, <1>6, <1>7
  <2> QED
    BY <1>2, <1>3, <2>1 DEF IInv, Typed
<1> QED
  BY <1>5, <1>6, <1>7, <1>8 DEF IInv

-----------------------------------------------------------------------------
LEMMA InitIInv == Init => IInv
<1> SUFFICES ASSUME Init PROVE IInv
  OBVIOUS
<1>1. camera = Booted(1) /\ lock = None /\ task = [t \in Tasks |-> Idle] /\ may \in Wishes
  BY DEF Init
<1>2. /\ view.boot = None /\ view.generation = 0 /\ view.public = 0 /\ ~view.enabled
      /\ view.latest = NoFrame
  BY DEF Init
<1>3. camera \in Cameras /\ camera.boot = 1
  BY <1>1, CameraAssumption DEF Booted, Cameras
<1>4. view \in Views
  <2>1. NoFrame \in Frames
    BY DEF NoFrame, Frames
  <2> QED
    BY <2>1 DEF Init, Views
<1>5. KnownOf(view, camera) /\ FrameOf(view)
  BY <1>2, <1>3, CameraAssumption DEF KnownOf, FrameOf
<1> QED
  BY <1>1, <1>3, <1>4, <1>5, IdleIsFine DEF IInv, Typed

LEMMA StepIInv == IInv /\ [Next]_vars => IInv'
<1> SUFFICES ASSUME IInv, [Next]_vars PROVE IInv'
  OBVIOUS
<1>1. ASSUME NEW t \in Tasks, Step(t) PROVE IInv'
  <2>1. CASE CameraAnswers(t) \/ CameraActs(t)
    BY <2>1, AnswerKeeps, ActKeeps
  <2>2. CASE FrameRefused(t)
    BY <2>2, GivingUpKeeps
  <2>3. CASE Refreshes(t)
    BY <2>3, StatusKeeps
  <2>4. CASE Publishes(t)
    BY <2>4, FrameActionsKeep
  <2> QED
    BY <1>1, <2>1, <2>2, <2>3, <2>4 DEF Step
<1>2. CASE Reboots \/ Start \/ Stop \/ Asks \/ Ages \/ MediaArrives \/ Connects
  BY <1>2, RebootKeeps, ViewActionsKeep, StopKeeps, LoopsKeep
<1>3. ASSUME NEW t \in Tasks, Fails(t) \/ Rejects(t) PROVE IInv'
  BY <1>3, GivingUpKeeps, RejectKeeps
<1>4. ASSUME NEW b \in Browsers, Browser(b) \/ Served(b) \/ Leaves(b) PROVE IInv'
  <2>1. b \in Tasks
    BY DEF Tasks
  <2>2. CASE Browser(b)
    BY <2>2, LookKeeps, EnterKeeps DEF Browser
  <2>3. CASE Served(b)
    BY <1>1, <2>1, <2>3, LockKeeps, CompleteKeeps, FrameActionsKeep DEF Served
  <2>4. CASE Leaves(b)
    BY <2>1, <2>4, GivingUpKeeps
  <2> QED
    BY <1>4, <2>2, <2>3, <2>4
<1>5. CASE Step(StatusLoop) \/ Step(StreamLoop) \/ ChunkArrives \/ StreamEnds
  <2>1. StatusLoop \in Tasks /\ StreamLoop \in Tasks
    BY DEF Tasks
  <2> QED
    BY <1>1, <1>5, <2>1, FrameActionsKeep, GivingUpKeeps
<1>6. CASE UNCHANGED vars
  BY <1>6, ViewUnchanged, QuietKeeps DEF vars
<1> QED
  BY <1>2, <1>3, <1>4, <1>5, <1>6 DEF Next

(* The inductive invariant holds in every state: the view never names a boot or
   a generation that the camera has not reached, and what is on its way fits it. *)
THEOREM Invariance == Spec => []IInv
<1> QED
  BY InitIInv, StepIInv, PTL DEF Spec

(* Neither the state nor the picture that the gateway shows is of another     *)
(* camera than the one it names.                                              *)
THEOREM ViewHolds == Spec => []ViewIsCurrent
<1>1. IInv => ViewIsCurrent
  BY DEF IInv, KnownOf, FrameOf, ViewIsCurrent, NeverAhead, FramesAreCurrent, Ready
<1> QED
  BY <1>1, Invariance, PTL

(* Only a status or a completed change moves the view to another state. *)
LEMMA StateMoves == IInv /\ [Next]_vars => SameState(view, view') \/ view'.public > view.public
<1> SUFFICES ASSUME IInv, [Next]_vars
             PROVE  SameState(view, view') \/ view'.public > view.public
  OBVIOUS
<1>1. view \in Views
  BY DEF IInv, Typed
<1>2. ASSUME NEW x, view' = [view EXCEPT !.reachable = x] PROVE SameState(view, view')
  BY <1>1, <1>2 DEF SameState, Views
<1>3. ASSUME NEW t \in Tasks, NEW g, NEW x, PublishOrWait(t, g, [view EXCEPT !.reachable = x])
      PROVE  SameState(view, view')
  <2> DEFINE v == [view EXCEPT !.reachable = x]
  <2>1. view' = v \/ view' = Published(t, g, v)
    BY <1>3 DEF PublishOrWait
  <2>2. CASE view' = v
    BY <1>2, <2>2
  <2>3. CASE view' = Published(t, g, v)
    BY <1>1, <2>3 DEF Published, SameState, Views
  <2> QED
    BY <2>1, <2>2, <2>3
<1>4. view = [view EXCEPT !.reachable = view.reachable]
  BY <1>1 DEF Views
<1>5. ASSUME view' = view PROVE SameState(view, view')
  BY <1>5 DEF SameState
<1>6. ASSUME NEW t \in Tasks, Step(t) PROVE SameState(view, view') \/ view'.public > view.public
  <2>1. CASE CameraAnswers(t)
    BY <1>2, <2>1, Zenon DEF CameraAnswers
  <2>2. CASE CameraActs(t) \/ FrameRefused(t)
    BY <1>5, <2>2 DEF CameraActs, FrameRefused
  <2>3. CASE Refreshes(t)
    BY <2>3, StatusFits
  <2>4. CASE Publishes(t)
    BY <1>3, <1>4, <2>4 DEF Publishes
  <2> QED
    BY <1>6, <2>1, <2>2, <2>3, <2>4 DEF Step
<1>7. CASE Reboots \/ Start \/ Asks \/ Connects \/ StreamEnds \/ UNCHANGED vars
  BY <1>5, <1>7 DEF Reboots, Start, Asks, Connects, StreamEnds, vars
<1>8. CASE Stop \/ Ages \/ MediaArrives
  BY <1>1, <1>8 DEF Stop, Ages, MediaArrives, SameState, Views
<1>9. ASSUME NEW t \in Tasks, Fails(t) \/ Rejects(t) PROVE SameState(view, view')
  <2>1. CASE Fails(t)
    BY <1>2, <2>1, Zenon DEF Fails
  <2>2. CASE Rejects(t)
    BY <1>1, <2>2 DEF Rejects, Invalidated, SameState, Views
  <2> QED
    BY <1>9, <2>1, <2>2
<1>10. ASSUME NEW b \in Browsers, Browser(b) \/ Served(b) \/ Leaves(b)
       PROVE  SameState(view, view') \/ view'.public > view.public
  <2>1. b \in Tasks
    BY DEF Tasks
  <2>2. CASE Browser(b) \/ Locks(b) \/ Leaves(b)
    BY <1>5, <2>2 DEF Browser, Look, Enters, Locks, Leaves
  <2>3. CASE Completes(b)
    BY <2>3, CompletedFits DEF ViewStays
  <2>4. CASE FrameArrives(b)
    BY <1>3, <1>5, <2>1, <2>4 DEF FrameArrives
  <2> QED
    BY <1>6, <1>10, <2>1, <2>2, <2>3, <2>4 DEF Served
<1>11. CASE ChunkArrives
  BY <1>3, <1>4, <1>5, <1>11 DEF ChunkArrives, Tasks
<1>12. StatusLoop \in Tasks /\ StreamLoop \in Tasks
  BY DEF Tasks
<1> QED
  BY <1>6, <1>7, <1>8, <1>9, <1>10, <1>11, <1>12 DEF Next

(* A public generation stands for one boot and one generation of the camera:  *)
(* no late answer makes an old number good again.                             *)
THEOREM NamesOne == Spec => GenerationNamesOne
<1>1. IInv /\ IInv' /\ [Next]_vars =>
        [/\ view'.public >= view.public
         /\ Changes(view, view'.boot, view'.generation) => view'.public > view.public]_vars
  <2> SUFFICES ASSUME IInv, IInv', [Next]_vars
               PROVE  /\ view'.public >= view.public
                      /\ Changes(view, view'.boot, view'.generation) => view'.public > view.public
    OBVIOUS
  <2>1. view.public \in Nat /\ view'.public \in Nat
    BY DEF IInv, Typed, Views
  <2> QED
    BY <2>1, StateMoves DEF SameState, Changes
<1> QED
  BY <1>1, Invariance, PTL DEF Spec, GenerationNamesOne

(* Only the camera makes a change out of one that was sent. *)
LEMMA OnlyTheCameraActs ==
  ASSUME IInv, [Next]_vars, NEW b \in Browsers, At(b, "sent"), task'[b].step = "acted"
  PROVE  CameraActs(b)
<1>1. task \in [Tasks -> Records] /\ task[b].step = "sent" /\ b \in Tasks
      /\ b # StatusLoop /\ b # StreamLoop
  BY CameraAssumption DEF IInv, Typed, Tasks, At
<1>2. ASSUME NEW t \in Tasks, NEW r, Put(t, r) PROVE t = b /\ r.step = "acted"
  BY <1>1, <1>2 DEF Put
<1>3. ASSUME NEW t \in Tasks, NEW r, NEW e, PutEpoch(t, r, e) PROVE t = b /\ r.step = "acted"
  <2>1. CASE t # b
    <3>1. task'[b] = [task[b] EXCEPT !.current = @ /\ ~e]
      BY <1>1, <1>3, <2>1 DEF PutEpoch
    <3>2. task'[b].step = task[b].step
      BY <1>1, <3>1 DEF Records
    <3> QED
      BY <1>1, <3>2
  <2>2. CASE t = b
    BY <1>1, <1>3, <2>2 DEF PutEpoch
  <2> QED
    BY <2>1, <2>2
<1>4. Idle.step = "idle"
  BY DEF Idle
<1>5. task' # task
  BY <1>1
<1>6. ASSUME NEW t \in Tasks, Step(t) PROVE CameraActs(b)
  <2>1. CASE CameraActs(t)
    <3>1. CASE t # b
      <4>1. PICK o \in Outcomes(t) :
              task'[b] = [task[b] EXCEPT !.overtaken = @ \/ (o.camera # camera /\ Concerned(b))]
        BY <1>1, <2>1, <3>1, Zenon DEF CameraActs
      <4>2. task'[b].step = task[b].step
        BY <1>1, <4>1 DEF Records
      <4> QED
        BY <1>1, <4>2
    <3> QED
      BY <2>1, <3>1
  <2>2. ~CameraAnswers(t)
    BY <1>1, <1>2 DEF CameraAnswers, CameraTells, At
  <2>3. ~FrameRefused(t) /\ ~Publishes(t)
    BY <1>1, <1>2 DEF FrameRefused, Publishes, PublishOrWait, At
  <2>4. ~Refreshes(t)
    BY <1>1, <1>3 DEF Refreshes, At
  <2> QED
    BY <1>6, <2>1, <2>2, <2>3, <2>4 DEF Step
<1>7. ~Start /\ ~Ages /\ ~MediaArrives /\ ~(UNCHANGED vars)
  BY <1>5 DEF Start, Ages, MediaArrives, vars
<1>8. ~Stop
  BY <1>1, <1>4 DEF Stop
<1>9. ~Reboots
  <2>1. Reboots => task'[b].step = task[b].step
    BY <1>1 DEF Reboots, Records
  <2> QED
    BY <1>1, <2>1
<1>10. ~Asks /\ ~Connects /\ ~ChunkArrives /\ ~StreamEnds
  BY <1>1, <1>2 DEF Asks, Connects, ChunkArrives, StreamEnds, PublishOrWait, Tasks
<1>11. ASSUME NEW t \in Tasks PROVE ~Fails(t) /\ ~Rejects(t)
  BY <1>2, <1>3, <1>4 DEF Fails, Rejects
<1>12. ASSUME NEW c \in Browsers PROVE ~Browser(c) /\ ~Leaves(c) /\ ~Locks(c)
                                      /\ ~Completes(c) /\ ~FrameArrives(c)
  <2>1. c \in Tasks
    BY DEF Tasks
  <2>2. ~Leaves(c) /\ ~Completes(c)
    BY <1>2, <1>3, <1>4, <2>1 DEF Leaves, Completes
  <2>3. ~Browser(c) /\ ~Locks(c) /\ ~FrameArrives(c)
    BY <1>1, <1>2, <2>1 DEF Browser, Look, Enters, Locks, FrameArrives, PublishOrWait, At
  <2> QED
    BY <2>2, <2>3
<1>13. StatusLoop \in Tasks /\ StreamLoop \in Tasks
  BY DEF Tasks
<1>14. \/ \E t \in Tasks : Step(t) \/ Fails(t) \/ Rejects(t)
       \/ \E c \in Browsers : \/ Browser(c) \/ Leaves(c) \/ Locks(c)
                              \/ Completes(c) \/ FrameArrives(c)
  <2>1. Next
    BY <1>7
  <2>2. \A c \in Browsers : Served(c) => \/ Step(c) /\ c \in Tasks
                                        \/ Locks(c) \/ Completes(c) \/ FrameArrives(c)
    BY DEF Served, Tasks
  <2> QED
    BY <2>1, <2>2, <1>7, <1>8, <1>9, <1>10, <1>13, Zenon DEF Next
<1> QED
  BY <1>6, <1>11, <1>12, <1>14

(* A change that the camera carries out meets the camera as its browser saw   *)
(* it: nobody's change comes in between.                                      *)
THEOREM ChangesAreSeen == Spec => NoChangeLost
<1>1. IInv /\ [Next]_vars =>
        [\A b \in Browsers :
           At(b, "sent") /\ task'[b].step = "acted" /\ task'[b].answer.ok
             => ~task[b].overtaken]_vars
  <2> SUFFICES ASSUME IInv, [Next]_vars, NEW b \in Browsers,
                      At(b, "sent"), task'[b].step = "acted", task'[b].answer.ok
               PROVE  ~task[b].overtaken
    OBVIOUS
  <2>1. CameraActs(b)
    BY OnlyTheCameraActs
  <2>2. b \in Tasks /\ camera \in Cameras /\ task[b] \in Records /\ view \in Views
        /\ FenceOf(task[b], view, camera) /\ task[b].step = "sent"
    BY DEF IInv, Typed, TaskOf, Tasks, At
  <2>3. PICK o \in Outcomes(b) :
          task'[b] = [Moved(b, "acted") EXCEPT
             !.answer = [Nothing EXCEPT !.ok = o.ok, !.generation = o.camera.generation]]
    BY <2>1, <2>2 DEF CameraActs
  <2>4. task'[b].answer = [Nothing EXCEPT !.ok = o.ok, !.generation = o.camera.generation]
    BY <2>2, <2>3 DEF Moved, Records
  <2>5. view.generation = camera.generation
    <3>1. task'[b].answer.ok = o.ok
      BY <2>4 DEF Nothing
    <3> QED
      BY <2>2, <3>1, OutcomeFits
  <2>6. view.generation \in Nat
    BY <2>2 DEF Views
  <2> QED
    BY <2>2, <2>5, <2>6 DEF FenceOf
<1> QED
  BY <1>1, Invariance, PTL DEF Spec, NoChangeLost
=============================================================================
