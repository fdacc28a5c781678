------------------------- MODULE LocalConsoleProofs -------------------------
(***************************************************************************)
(* Theorems about the console on the appliance's screen (LocalConsole), for *)
(* any media, queue and budgets.                                            *)
(***************************************************************************)
EXTENDS LocalConsole, TLAPS, SequenceTheorems

-----------------------------------------------------------------------------
(* The inductive invariant. *)

Items     == Media \cup {None}
Kinds     == Answers \cup {"status", "storage", "media", "job"}
EventType == [kind : Kinds, ok : BOOLEAN, armed : BOOLEAN, job : Nat, over : BOOLEAN, item : Items]
Steps     == {"starting", "posting", "mending", "asking", "offering", "dead"}

UiType    == [source : {"target", "environment"}, busy : BOOLEAN, leaving : BOOLEAN,
              hidden : BOOLEAN, shown : {"unknown", "armed", "free"}, job : Nat,
              asked : Items, viewed : Items, listing : BOOLEAN]
CameraType == [jobs : Nat, known : SUBSET Nat, running : Nat, reported : Nat]

Typed ==
  /\ ui \in UiType
  /\ close \in {"open", "posting", "asking", "closed"}
  /\ worker \in {Rest} \cup [step : Steps, op : Answers, result : EventType]
  /\ readers \in [Media -> Nat] /\ listers \in Nat
  /\ poll \in EventType \cup {NoEvent, Gone} /\ poll.kind \notin Answers
  /\ events \in Seq(EventType) /\ Len(events) <= QueueSize
  /\ gateway \in [armed : BOOLEAN, stray : BOOLEAN]
  /\ requests \in Seq([op : {"arm", "disarm"}, by : {None, "worker", "close"}])
  /\ camera \in CameraType
  /\ may \in Uses /\ faults \in 0..may.faults /\ late \in 0..may.late

(* An action in progress, by its thread or by its result in the queue, is the
   only one, and the window knows of it. *)
OneAction ==
  /\ ui.busy <=> worker # Rest \/ \E i \in DOMAIN events : events[i].kind \in Answers
  /\ worker # Rest =>
       /\ worker.result.kind = worker.op
       /\ \A i \in DOMAIN events : events[i].kind \notin Answers
  /\ \A i, j \in DOMAIN events :
       events[i].kind \in Answers /\ events[j].kind \in Answers => i = j

(* The one action is that of the button last pressed: while the console goes to
   the desktop it is the disarm, and nothing is armed out of the environment. *)
OfButton ==
  /\ ui.leaving =>
       /\ ui.busy
       /\ worker # Rest => worker.op = "desktop"
       /\ \A i \in DOMAIN events : events[i].kind \in Answers => events[i].kind = "desktop"
  /\ ui.source = "environment" /\ worker # Rest => worker.op # "arm"

(* _close comes when nothing is in progress, and nothing is begun after it. *)
Shut == close # "open" => ~ui.busy

(* A request that somebody waits for is the one this thread has come to. *)
Waited ==
  /\ \A i \in DOMAIN requests : requests[i].by = "worker" =>
       \/ AtWork("mending") /\ requests[i].op = "disarm"
       \/ AtWork("posting") /\ worker.op = "arm" /\ requests[i].op = "arm"
       \/ AtWork("posting") /\ worker.op \in Releasing /\ requests[i].op = "disarm"
  /\ \A i \in DOMAIN requests : requests[i].by = "close" =>
       close = "posting" /\ requests[i].op = "disarm"
  /\ \A i, j \in DOMAIN requests :
       requests[i].by = requests[j].by /\ requests[i].by # None => i = j

(* A preview that is awaited is on its way. *)
Previewed ==
  close # "closed" /\ ui.asked # None =>
    \/ readers[ui.asked] > 0
    \/ \E i \in DOMAIN events : events[i].kind = "media" /\ events[i].item = ui.asked

(* What the console takes for a confirmed release, on its way to the window or
   shown there. *)
Confirmed ==
  \/ close \in {"asking", "closed"} \/ ui.source = "environment" \/ FailedArmUndone
  \/ worker.op \in Releasing /\ (AtWork("asking") \/ (AtWork("offering") /\ worker.result.ok))
  \/ \E i \in DOMAIN events : events[i].kind \in Releasing /\ events[i].ok

IInv ==
  /\ Typed /\ OneAction /\ OfButton /\ Shut /\ Waited /\ Previewed
  /\ Confirmed => Released

LEMMA InitIInv == Init => IInv
<1> SUFFICES ASSUME Init PROVE IInv
  OBVIOUS
<1>1. events \in Seq(EventType) /\ Len(events) <= QueueSize /\ DOMAIN events = {}
      /\ requests = <<>> /\ DOMAIN requests = {}
  BY ConsoleAssumption, EmptySeq DEF Init
<1>2. may \in [buttons : SUBSET Buttons, faults : Nat, late : Nat]
  BY ConsoleAssumption DEF Init
<1>3. Typed
  BY <1>1, <1>2 DEF Init, Typed, UiType, CameraType, NoEvent, Event, EventType, Kinds, Items, Answers, Releasing
<1>4. OneAction /\ OfButton /\ Shut /\ Waited /\ Previewed
  BY <1>1 DEF Init, OneAction, OfButton, Shut, Waited, Previewed
<1>5. Released
  BY DEF Init, Released
<1> QED BY <1>3, <1>4, <1>5 DEF IInv

-----------------------------------------------------------------------------
(* Sequences as queues. *)

LEMMA Appended ==
  ASSUME NEW S, NEW s \in Seq(S), NEW e \in S
  PROVE  /\ Append(s, e) \in Seq(S) /\ Len(Append(s, e)) = Len(s) + 1
         /\ DOMAIN Append(s, e) = DOMAIN s \cup {Len(s) + 1}
         /\ DOMAIN s = 1..Len(s) /\ Len(s) \in Nat /\ Len(s) + 1 \notin DOMAIN s
         /\ \A i \in DOMAIN s : Append(s, e)[i] = s[i]
         /\ Append(s, e)[Len(s) + 1] = e
<1>1. DOMAIN s = 1..Len(s) /\ Len(s) \in Nat
  BY LenProperties
<1>2. Len(s) + 1 \notin 1..Len(s)
  BY <1>1
<1> QED BY <1>1, <1>2, AppendProperties, LenProperties

LEMMA Shortened ==
  ASSUME NEW S, NEW s \in Seq(S), s # <<>>
  PROVE  /\ Head(s) = s[1] /\ s[1] \in S /\ 1 \in DOMAIN s
         /\ Tail(s) \in Seq(S) /\ Len(s) \in Nat /\ Len(Tail(s)) = Len(s) - 1
         /\ \A i \in DOMAIN Tail(s) : /\ i + 1 \in DOMAIN s /\ Tail(s)[i] = s[i + 1]
                                      /\ i \in Nat /\ i > 0
         /\ \A i \in DOMAIN s : i = 1 \/ (i - 1 \in DOMAIN Tail(s) /\ Tail(s)[i - 1] = s[i])
<1>1. /\ Head(s) = s[1] /\ s[1] \in S /\ Tail(s) \in Seq(S)
      /\ Len(s) \in Nat /\ Len(s) > 0 /\ Len(Tail(s)) = Len(s) - 1
      /\ DOMAIN s = 1..Len(s) /\ DOMAIN Tail(s) = 1..(Len(s) - 1)
      /\ \A i \in DOMAIN Tail(s) : i + 1 \in DOMAIN s /\ Tail(s)[i] = s[i + 1]
  BY HeadTailProperties, LenProperties, EmptySeq
<1>2. ASSUME NEW i \in DOMAIN s, i # 1
      PROVE  i - 1 \in DOMAIN Tail(s) /\ Tail(s)[i - 1] = s[i]
  <2>1. i - 1 \in 1..(Len(s) - 1) /\ (i - 1) + 1 = i
    BY <1>1, <1>2
  <2> QED BY <1>1, <2>1
<1> QED BY <1>1, <1>2

(* What is left of the requests, in qs, when nobody waits for the i-th any more. *)
RequestType == [op : {"arm", "disarm"}, by : {None, "worker", "close"}]

Left(qs, i) ==
  /\ qs \in Seq(RequestType)
  /\ \E f \in [DOMAIN qs -> DOMAIN requests] :
       /\ \A j, k \in DOMAIN qs : f[j] = f[k] => j = k
       /\ \A k \in DOMAIN qs :
            qs[k].by = None \/ (f[k] # i /\ qs[k] = requests[f[k]])

LEMMA RequestBy ==
  ASSUME NEW s \in Seq(RequestType), NEW i \in DOMAIN s
  PROVE  s[i] \in RequestType /\ (s[i].by = None \/ s[i].by = "worker" \/ s[i].by = "close")
<1>1. s[i] \in RequestType
  <2>1. i \in 1..Len(s)
    BY LenProperties
  <2> HIDE DEF RequestType
  <2> QED BY <2>1, ElementOfSeq
<1> QED BY <1>1 DEF RequestType

LEMMA LeftRemoved ==
  ASSUME Typed, NEW i \in DOMAIN requests PROVE Left(RemoveAt(requests, i), i)
<1> DEFINE s == requests
           qs == RemoveAt(s, i)
           a == SubSeq(s, 1, i - 1)
           b == SubSeq(s, i + 1, Len(s))
           n == Len(s)
<1>1. s \in Seq(RequestType)
  BY DEF Typed, RequestType
<1>2. /\ DOMAIN s = 1..n /\ n \in Nat /\ i \in 1..n /\ \A k \in 1..n : s[k] \in RequestType
  BY <1>1, LenProperties, ElementOfSeq
<1>3. a \in Seq(RequestType) /\ Len(a) = i - 1 /\ \A k \in 1..(i - 1) : a[k] = s[k]
  <2>1. i - 1 \in Int /\ \A k \in 1..(i - 1) : s[k] \in RequestType
    BY <1>2
  <2> QED BY <1>2, <2>1, SubSeqProperties
<1>4. b \in Seq(RequestType) /\ Len(b) = n - i /\ \A k \in 1..(n - i) : b[k] = s[k + i]
  <2>1. i + 1 \in Int /\ \A k \in (i + 1)..n : s[k] \in RequestType
    BY <1>2
  <2> QED BY <1>2, <2>1, SubSeqProperties
<1>5. qs = a \o b
  BY DEF RemoveAt
<1> HIDE DEF a, b, qs, s
<1>6. /\ qs \in Seq(RequestType) /\ DOMAIN qs = 1..(n - 1)
      /\ \A k \in 1..(n - 1) : qs[k] = IF k <= i - 1 THEN a[k] ELSE b[k - (i - 1)]
  <2>1. /\ qs \in Seq(RequestType) /\ Len(qs) = Len(a) + Len(b)
        /\ \A k \in 1..(Len(a) + Len(b)) :
             qs[k] = IF k <= Len(a) THEN a[k] ELSE b[k - Len(a)]
    BY <1>3, <1>4, <1>5, ConcatProperties
  <2>2. Len(a) = i - 1 /\ Len(a) + Len(b) = n - 1
    BY <1>2, <1>3, <1>4
  <2> QED BY <2>1, <2>2, LenProperties
<1> DEFINE f == [k \in 1..(n - 1) |-> IF k < i THEN k ELSE k + 1]
<1>7. /\ f \in [DOMAIN qs -> DOMAIN s] /\ \A k \in DOMAIN qs : f[k] # i
      /\ \A j, k \in DOMAIN qs : f[j] = f[k] => j = k
  <2>1. \A k \in 1..(n - 1) : (IF k < i THEN k ELSE k + 1) \in 1..n
    BY <1>2
  <2>2. f \in [DOMAIN qs -> DOMAIN s]
        /\ \A k \in DOMAIN qs : f[k] = IF k < i THEN k ELSE k + 1
    BY <1>2, <1>6, <2>1
  <2> HIDE DEF f
  <2> QED BY <1>2, <1>6, <2>2
<1>8. ASSUME NEW k \in DOMAIN qs PROVE qs[k] = s[f[k]]
  <2>1. CASE k < i
    BY <1>2, <1>3, <1>6, <1>8, <2>1
  <2>2. CASE ~(k < i)
    <3>1. k - (i - 1) \in 1..(n - i) /\ (k - (i - 1)) + i = k + 1 /\ ~(k <= i - 1) /\ k \in 1..(n - 1)
      BY <1>2, <1>6, <1>8, <2>2
    <3>2. b[k - (i - 1)] = s[k + 1]
      BY <1>4, <3>1
    <3> QED BY <1>6, <2>2, <3>1, <3>2
  <2> QED BY <2>1, <2>2
<1> HIDE DEF f
<1>9. Left(qs, i)
  BY <1>6, <1>7, <1>8 DEF Left, s
<1> QED BY <1>9 DEF qs, s

LEMMA LeftBehind ==
  ASSUME Typed, NEW i \in DOMAIN requests PROVE Left([requests EXCEPT ![i].by = None], i)
<1> DEFINE qs == [requests EXCEPT ![i].by = None]
<1>1. requests \in Seq(RequestType) /\ requests[i] \in RequestType
  <2>1. requests \in Seq(RequestType)
    BY DEF Typed, RequestType
  <2>2. i \in 1..Len(requests)
    BY <2>1, LenProperties
  <2> QED BY <2>1, <2>2, ElementOfSeq
<1>2. [requests[i] EXCEPT !.by = None] \in RequestType /\ [requests[i] EXCEPT !.by = None].by = None
  BY <1>1 DEF RequestType
<1>3. /\ qs = [requests EXCEPT ![i] = [requests[i] EXCEPT !.by = None]]
      /\ qs \in Seq(RequestType) /\ DOMAIN qs = DOMAIN requests
  <2>1. qs = [requests EXCEPT ![i] = [requests[i] EXCEPT !.by = None]]
    OBVIOUS
  <2> QED BY <1>1, <1>2, <2>1, ExceptSeq, LenProperties
<1>4. qs[i].by = None /\ \A k \in DOMAIN requests : k # i => qs[k] = requests[k]
  BY <1>2
<1> HIDE DEF qs
<1> DEFINE f == [k \in DOMAIN qs |-> k]
<1>5. f \in [DOMAIN qs -> DOMAIN requests] /\ \A k \in DOMAIN qs : f[k] = k
  BY <1>3
<1> HIDE DEF f
<1>6. Left(qs, i)
  BY <1>3, <1>4, <1>5 DEF Left
<1> QED BY <1>6 DEF qs

(* Nobody but the i-th waits for what the i-th waits for. *)
LEMMA LeftWaited ==
  ASSUME IInv, NEW i \in DOMAIN requests, NEW qs, Left(qs, i)
  PROVE  /\ \A k \in DOMAIN qs : qs[k].by # None =>
              /\ \E j \in DOMAIN requests : qs[k] = requests[j]
              /\ qs[k].by # requests[i].by
         /\ \A j, k \in DOMAIN qs : qs[j].by = qs[k].by /\ qs[j].by # None => j = k
<1>1. PICK f \in [DOMAIN qs -> DOMAIN requests] :
        /\ \A j, k \in DOMAIN qs : f[j] = f[k] => j = k
        /\ \A k \in DOMAIN qs : qs[k].by = None \/ (f[k] # i /\ qs[k] = requests[f[k]])
  BY DEF Left
<1>2. \A j, k \in DOMAIN requests :
        requests[j].by = requests[k].by /\ requests[j].by # None => j = k
  BY DEF IInv, Waited
<1> QED BY <1>1, <1>2

-----------------------------------------------------------------------------
(* The window, the threads that read and the poll. *)

(* Nothing happens to the action in progress, and none begins. *)
LEMMA QuietStep ==
  ASSUME IInv, Typed', Previewed', UNCHANGED <<close, worker, gateway, requests>>,
         ui'.busy = ui.busy, ui'.leaving = ui.leaving, ui'.source \in {ui.source, "target"},
         \/ events' = events
         \/ \E e \in EventType : e.kind \notin Answers /\ events' = Append(events, e)
  PROVE  IInv'
<1>1. events \in Seq(EventType)
  BY DEF IInv, Typed
<1>2. /\ \A i \in DOMAIN events' : events'[i].kind \in Answers => i \in DOMAIN events
      /\ \A i \in DOMAIN events : i \in DOMAIN events' /\ events'[i] = events[i]
  <2>1. CASE events' = events
    BY <2>1
  <2>2. ASSUME NEW e \in EventType, e.kind \notin Answers, events' = Append(events, e)
        PROVE  /\ \A i \in DOMAIN events' : events'[i].kind \in Answers => i \in DOMAIN events
               /\ \A i \in DOMAIN events : i \in DOMAIN events' /\ events'[i] = events[i]
    BY <1>1, <2>2, Appended
  <2> QED BY <2>1, <2>2
<1>3. OneAction' /\ OfButton' /\ Shut' /\ Waited'
  <2>1. OneAction'
    BY <1>2 DEF IInv, OneAction
  <2>2. OfButton'
    BY <1>2 DEF IInv, OfButton
  <2>3. Shut' /\ Waited'
    BY DEF IInv, Shut, Waited, AtWork
  <2> QED BY <2>1, <2>2, <2>3
<1>4. Confirmed' => Confirmed
  <2>1. \A i \in DOMAIN events' : events'[i].kind \in Releasing => i \in DOMAIN events
    BY <1>2 DEF Answers
  <2> QED BY <1>2, <2>1 DEF Confirmed, FailedArmUndone, AtWork
<1>5. Released' = Released
  BY DEF Released
<1> QED BY <1>3, <1>4, <1>5 DEF IInv

LEMMA SamePreviewed ==
  ASSUME IInv, close' = close, UNCHANGED <<readers, events>>, ui'.asked \in {None, ui.asked}
  PROVE  Previewed'
BY DEF IInv, Previewed

LEMMA RefreshStorageStep == ASSUME IInv, RefreshStorage PROVE IInv'
<1>1. /\ Typed /\ ui' = [ui EXCEPT !.listing = TRUE] /\ listers' = listers + 1
      /\ UNCHANGED <<close, worker, readers, poll, events, gateway, requests, camera, may, faults, late>>
  BY DEF IInv, RefreshStorage, Refreshed, Listing
<1>2. /\ ui' \in UiType /\ listers' \in Nat
      /\ ui'.busy = ui.busy /\ ui'.leaving = ui.leaving /\ ui'.source = ui.source
      /\ ui'.asked = ui.asked
  <2>1. ui \in UiType /\ listers \in Nat
    BY <1>1 DEF Typed
  <2>2. ui' \in UiType
    BY <1>1, <2>1 DEF UiType
  <2> QED BY <1>1, <2>1, <2>2 DEF UiType
<1>3. Typed'
  BY <1>1, <1>2 DEF Typed
<1>4. Previewed'
  BY <1>1, <1>2, SamePreviewed
<1> QED BY <1>1, <1>2, <1>3, <1>4, QuietStep

LEMMA LookStep ==
  ASSUME IInv, ChooseTarget \/ ClosePreview \/ Reopen PROVE IInv'
<1>1. /\ Typed
      /\ \/ ui' = [ui EXCEPT !.source = "target", !.asked = None, !.viewed = None]
         \/ ui' = [ui EXCEPT !.viewed = None]
         \/ ui' = [ui EXCEPT !.hidden = FALSE]
      /\ UNCHANGED <<close, worker, readers, listers, poll, camera, may, events, gateway, requests, faults, late>>
  BY DEF IInv, ChooseTarget, ClosePreview, Reopen, Viewing, Held
<1>2. /\ ui' \in UiType
      /\ ui'.busy = ui.busy /\ ui'.leaving = ui.leaving /\ ui'.source \in {ui.source, "target"}
      /\ ui'.asked \in {None, ui.asked}
  <2>1. ui \in UiType /\ None \in Items
    BY <1>1 DEF Typed, Items
  <2>2. CASE ui' = [ui EXCEPT !.source = "target", !.asked = None, !.viewed = None]
    BY <2>1, <2>2 DEF UiType
  <2>3. CASE ui' = [ui EXCEPT !.viewed = None]
    BY <2>1, <2>3 DEF UiType
  <2>4. CASE ui' = [ui EXCEPT !.hidden = FALSE]
    BY <2>1, <2>4 DEF UiType
  <2> QED BY <1>1, <2>2, <2>3, <2>4
<1>3. Typed'
  BY <1>1, <1>2 DEF Typed
<1>4. Previewed'
  BY <1>1, <1>2, SamePreviewed
<1> QED BY <1>1, <1>2, <1>3, <1>4, QuietStep

LEMMA PreviewStep == ASSUME IInv, NEW i \in Media, Preview(i) PROVE IInv'
<1>1. /\ Typed /\ ui' = [ui EXCEPT !.asked = i] /\ readers' = [readers EXCEPT ![i] = @ + 1]
      /\ UNCHANGED <<close, worker, listers, poll, events, gateway, requests, camera, may, faults, late>>
  BY DEF IInv, Preview
<1>2. /\ ui' \in UiType
      /\ ui'.busy = ui.busy /\ ui'.leaving = ui.leaving /\ ui'.source = ui.source
      /\ ui'.asked = i
  BY <1>1 DEF Typed, UiType, Items
<1>3. readers' \in [Media -> Nat] /\ readers'[i] > 0
  BY <1>1 DEF Typed
<1>4. Typed'
  BY <1>1, <1>2, <1>3 DEF Typed
<1>5. Previewed'
  BY <1>2, <1>3 DEF Previewed
<1> QED BY <1>1, <1>2, <1>4, <1>5, QuietStep

LEMMA RecordingTyped ==
  ASSUME NEW c \in CameraType
  PROVE  Recording(c) \in CameraType /\ Recording(c).running = c.jobs + 1 /\ c.jobs + 1 \in Nat
<1> DEFINE n == c.jobs + 1
           k == Remembered(c, n)
<1>1. n \in Nat /\ k \subseteq Nat
  <2>1. n \in Nat /\ c.known \subseteq Nat
    BY DEF CameraType
  <2> HIDE DEF n
  <2> QED BY <2>1 DEF Remembered
<1>2. Recording(c) = [c EXCEPT !.jobs = n, !.known = k, !.running = n]
  BY DEF Recording
<1> HIDE DEF n, k
<1>3. Recording(c) \in CameraType /\ Recording(c).running = n
  BY <1>1, <1>2 DEF CameraType
<1> QED BY <1>1, <1>3 DEF n

LEMMA CameraStep == ASSUME IInv, CameraGoesOn PROVE IInv'
<1>1. Typed /\ may \in [buttons : SUBSET Buttons, faults : Nat, late : Nat]
  BY ConsoleAssumption DEF IInv, Typed
<1>2. camera' \in CameraType
  <2>1. camera \in CameraType
    BY <1>1 DEF Typed
  <2>2. CASE camera' = [camera EXCEPT !.running = 0]
    BY <2>1, <2>2 DEF CameraType
  <2>3. CASE OthersRecord
    BY <2>1, <2>3, RecordingTyped DEF OthersRecord
  <2>4. CASE GatewayHears
    BY <2>1, <2>4 DEF GatewayHears, Active, CameraType
  <2>5. CASE camera' = [camera EXCEPT !.known = {}, !.running = 0]
    BY <2>1, <2>5 DEF CameraType
  <2> QED BY <2>2, <2>3, <2>4, <2>5 DEF CameraGoesOn, ClipEnds, CameraReboots
<1>3. faults' \in 0..may.faults
  BY <1>1 DEF Typed, CameraGoesOn, CameraReboots
<1>4. UNCHANGED <<ui, close, worker, readers, listers, poll, may, events, gateway, requests, late>>
  BY DEF CameraGoesOn
<1>5. Typed'
  BY <1>1, <1>2, <1>3, <1>4 DEF Typed
<1>6. Previewed'
  BY <1>4, SamePreviewed
<1> QED BY <1>4, <1>5, <1>6, QuietStep

LEMMA HandsBackStep == ASSUME IInv, HandsBack PROVE IInv'
<1>1. UNCHANGED <<ui, close, worker, readers, listers, poll, camera, may, events, requests, faults, late>>
      /\ gateway' = [armed |-> FALSE, stray |-> FALSE]
  BY DEF HandsBack, Held
<1>2. Typed' /\ OneAction' /\ OfButton' /\ Shut' /\ Waited' /\ Previewed'
  BY <1>1 DEF IInv, Typed, OneAction, OfButton, Shut, Waited, Previewed, AtWork
<1>3. Released'
  BY <1>1 DEF Released
<1> QED BY <1>2, <1>3 DEF IInv

LEMMA OfferedTyped ==
  ASSUME Typed, NEW e \in EventType
  PROVE  /\ Append(events, e) \in Seq(EventType)
         /\ Room => Len(Append(events, e)) <= QueueSize
BY Appended, ConsoleAssumption DEF Typed, Room

LEMMA SampleTyped ==
  ASSUME Typed, NEW kind \in Kinds
  PROVE  /\ Event(kind) \in EventType /\ Event(kind).kind = kind /\ ~Event(kind).ok
         /\ ~Event(kind).over
         /\ Sample(kind) \in EventType /\ Sample(kind).kind = kind /\ Sample(kind).ok
BY DEF Typed, CameraType, Event, EventType, Sample, Items

LEMMA CatalogTyped ==
  ASSUME Typed, NEW i \in Media \cup {None}
  PROVE  Catalog(i) \in EventType /\ Catalog(i).kind = "storage"
<1>1. "storage" \in Kinds
  BY DEF Kinds
<1>2. Sample("storage") \in EventType /\ Sample("storage").kind = "storage"
  BY <1>1, SampleTyped
<1> HIDE DEF Sample
<1> QED BY <1>2 DEF Catalog, EventType, Items

LEMMA AsideKinds ==
  /\ {"status", "storage", "media", "job"} \subseteq Kinds
  /\ {"status", "storage", "media", "job"} \cap Answers = {}
  /\ Releasing \subseteq Answers /\ Answers \subseteq Kinds
BY DEF Kinds, Answers, Releasing

LEMMA PollAsksStep == ASSUME IInv, PollAsks PROVE IInv'
<1>1. Typed /\ UNCHANGED <<ui, close, worker, readers, listers, events, gateway, requests, camera, may, faults, late>>
  BY DEF IInv, PollAsks
<1>2. poll' \in EventType /\ poll'.kind \notin Answers
  <2>1. CASE poll' = Sample("status")
    BY <1>1, <2>1, SampleTyped, AsideKinds
  <2>2. ASSUME NEW i \in Media \cup {None}, poll' = Catalog(i)
        PROVE  poll' \in EventType /\ poll'.kind \notin Answers
    BY <1>1, <2>2, CatalogTyped, AsideKinds
  <2>3. CASE poll' = [Event("job") EXCEPT !.ok = TRUE, !.job = ui.job, !.over = Active # ui.job]
    <3>1. Event("job") \in EventType /\ Event("job").kind = "job"
      BY <1>1, SampleTyped, AsideKinds
    <3>2. ui.job \in Nat /\ (Active # ui.job) \in BOOLEAN
      BY <1>1 DEF Typed, UiType
    <3> QED BY <2>3, <3>1, <3>2, AsideKinds DEF EventType
  <2> QED BY <2>1, <2>2, <2>3 DEF PollAsks
<1>3. Typed'
  BY <1>1, <1>2 DEF Typed
<1>4. Previewed'
  BY <1>1, SamePreviewed
<1> QED BY <1>1, <1>3, <1>4, QuietStep

(* An event that is no result of an action is offered, or let go. *)
LEMMA OfferedPreviewed ==
  ASSUME IInv, UNCHANGED <<ui, close, readers>>,
         events' = events \/ \E e \in EventType : events' = Append(events, e)
  PROVE  Previewed'
<1>1. \A i \in DOMAIN events : i \in DOMAIN events' /\ events'[i] = events[i]
  <2>1. ASSUME NEW e \in EventType, events' = Append(events, e)
        PROVE  \A i \in DOMAIN events : i \in DOMAIN events' /\ events'[i] = events[i]
    <3>1. events \in Seq(EventType)
      BY DEF IInv, Typed
    <3> QED BY <2>1, <3>1, Appended
  <2> QED BY <2>1
<1> QED BY <1>1 DEF IInv, Previewed

(* The poll thread is no more. *)
LEMMA PollDiesStep == ASSUME IInv, PollDies PROVE IInv'
<1>1. /\ Typed /\ poll' = Gone /\ faults' = faults + 1 /\ faults < may.faults
      /\ UNCHANGED <<ui, close, worker, readers, listers, events, gateway, requests, camera, may, late>>
  BY DEF IInv, PollDies
<1>2. poll'.kind \notin Answers
  BY <1>1 DEF Gone, Event, Answers, Releasing
<1>3. faults' \in 0..may.faults
  <2>1. may.faults \in Nat
    BY <1>1, ConsoleAssumption DEF Typed
  <2> QED BY <1>1, <2>1 DEF Typed
<1>4. Typed'
  BY <1>1, <1>2, <1>3 DEF Typed
<1>5. Previewed'
  BY <1>1, SamePreviewed
<1> QED BY <1>1, <1>4, <1>5, QuietStep

LEMMA PollOffersStep == ASSUME IInv, PollOffers PROVE IInv'
<1>1. /\ Typed /\ poll' = NoEvent /\ poll \in EventType
      /\ UNCHANGED <<ui, close, worker, readers, listers, gateway, requests, camera, may, faults, late>>
  BY DEF IInv, PollOffers, Typed
<1>2. events' = events \/ (Room /\ events' = Append(events, poll))
  BY DEF PollOffers, Offer, OfferSample
<1>3. poll' \in {NoEvent} /\ poll'.kind \notin Answers
  BY <1>1 DEF NoEvent, Event, Answers, Releasing
<1>4. Typed'
  <2>1. events' \in Seq(EventType) /\ Len(events') <= QueueSize
    BY <1>1, <1>2, OfferedTyped DEF Typed
  <2> QED BY <1>1, <1>3, <2>1 DEF Typed
<1>5. events' = events \/ \E e \in EventType : e.kind \notin Answers /\ events' = Append(events, e)
  BY <1>1, <1>2 DEF Typed
<1>6. Previewed'
  BY <1>1, <1>5, OfferedPreviewed
<1> QED BY <1>1, <1>4, <1>5, <1>6, QuietStep

LEMMA ListerOffersStep == ASSUME IInv, ListerOffers PROVE IInv'
<1>1. /\ Typed /\ listers > 0 /\ listers' = listers - 1
      /\ UNCHANGED <<ui, close, worker, readers, poll, gateway, requests, camera, may, faults, late>>
  BY DEF IInv, ListerOffers
<1>2. \E e \in EventType :
        e.kind \notin Answers /\ (events' = events \/ (Room /\ events' = Append(events, e)))
  <2>1. ASSUME NEW i \in Media \cup {None}, OfferSample(Catalog(i))
        PROVE  \E e \in EventType :
                 e.kind \notin Answers /\ (events' = events \/ (Room /\ events' = Append(events, e)))
    BY <1>1, <2>1, CatalogTyped, AsideKinds DEF OfferSample
  <2>2. CASE OfferSample(Event("storage"))
    BY <1>1, <2>2, SampleTyped, AsideKinds DEF OfferSample
  <2> QED BY <2>1, <2>2 DEF ListerOffers
<1>3. Typed'
  <2>1. events' \in Seq(EventType) /\ Len(events') <= QueueSize
    <3>1. events \in Seq(EventType) /\ Len(events) <= QueueSize
      BY <1>1 DEF Typed
    <3> QED BY <1>1, <1>2, <3>1, OfferedTyped
  <2>2. listers' \in Nat
    BY <1>1 DEF Typed
  <2> QED BY <1>1, <2>1, <2>2 DEF Typed
<1>4. Previewed'
  BY <1>1, <1>2, OfferedPreviewed
<1> QED BY <1>1, <1>2, <1>3, <1>4, QuietStep

LEMMA ReaderOffersStep == ASSUME IInv, NEW i \in Media, ReaderOffers(i) PROVE IInv'
<1>1. /\ Typed /\ readers[i] > 0 /\ readers' = [readers EXCEPT ![i] = @ - 1]
      /\ UNCHANGED <<ui, close, worker, listers, poll, gateway, requests, camera, may, faults, late>>
  BY DEF IInv, ReaderOffers
<1>2. /\ readers' \in [Media -> Nat]
      /\ \A j \in Media : j # i => readers'[j] = readers[j]
  BY <1>1 DEF Typed
<1>3. CASE close = "closed" /\ events' = events
  <2>1. Typed'
    BY <1>1, <1>2, <1>3 DEF Typed
  <2>2. Previewed'
    BY <1>1, <1>3 DEF Previewed
  <2> QED BY <1>1, <1>3, <2>1, <2>2, QuietStep
<1>4. ASSUME NEW ok \in BOOLEAN, close # "closed",
             Offer([Event("media") EXCEPT !.ok = ok, !.item = i])
      PROVE  IInv'
  <2> DEFINE e == [Event("media") EXCEPT !.ok = ok, !.item = i]
  <2>1. e \in EventType /\ e.kind = "media" /\ e.item = i
    <3>1. Event("media") \in EventType /\ Event("media").kind = "media"
      BY <1>1, SampleTyped, AsideKinds
    <3> QED BY <3>1 DEF EventType, Items
  <2>2. Room /\ events' = Append(events, e)
    BY <1>4 DEF Offer
  <2> HIDE DEF e
  <2>3. Typed'
    <3>1. events' \in Seq(EventType) /\ Len(events') <= QueueSize
      BY <1>1, <2>1, <2>2, OfferedTyped
    <3> QED BY <1>1, <1>2, <3>1 DEF Typed
  <2>4. Previewed'
    <3>1. events \in Seq(EventType)
      BY <1>1 DEF Typed
    <3>2. /\ \A j \in DOMAIN events : j \in DOMAIN events' /\ events'[j] = events[j]
          /\ Len(events) + 1 \in DOMAIN events' /\ events'[Len(events) + 1] = e
      BY <2>1, <2>2, <3>1, Appended
    <3>3. CASE ui.asked = i
      BY <1>1, <2>1, <3>2, <3>3 DEF Previewed
    <3>4. CASE ui.asked # i
      BY <1>1, <1>2, <3>2, <3>4 DEF IInv, Previewed, Typed, Items
    <3> QED BY <3>3, <3>4
  <2> QED BY <1>1, <2>1, <2>2, <2>3, <2>4, AsideKinds, QuietStep
<1> QED BY <1>3, <1>4 DEF ReaderOffers

-----------------------------------------------------------------------------
(* An action begins. *)

LEMMA AtRest ==
  ASSUME IInv, ~ui.busy
  PROVE  /\ worker = Rest /\ ~ui.leaving
         /\ \A i \in DOMAIN events : events[i].kind \notin Answers
         /\ \A i \in DOMAIN requests : requests[i].by # "worker"
<1>1. worker = Rest /\ ~ui.leaving /\ \A i \in DOMAIN events : events[i].kind \notin Answers
  BY DEF IInv, OneAction, OfButton
<1> QED BY <1>1 DEF IInv, Waited, AtWork, Rest

LEMMA BeginStep ==
  ASSUME IInv, ~ui.busy, close = "open",
         NEW w \in [step : {"starting", "offering"}, op : Answers, result : EventType],
         w.result.kind = w.op, w.step = "offering" => w.op = "screenshot",
         w.op = "arm" => ui.source = "target",
         NEW leaving \in BOOLEAN, leaving => w.op = "desktop",
         ui' = [ui EXCEPT !.busy = TRUE, !.leaving = leaving], worker' = w,
         UNCHANGED <<close, Held, events, gateway, requests, faults, late>>
  PROVE  IInv'
<1>1. /\ UNCHANGED <<close, readers, listers, poll, camera, may, events, gateway, requests>>
      /\ UNCHANGED <<faults, late>>
  BY DEF Held
<1>2. Typed /\ ui \in UiType
  BY DEF IInv, Typed
<1>3. /\ ui' \in UiType /\ ui'.busy /\ ui'.leaving = leaving /\ ui'.source = ui.source
      /\ ui'.asked = ui.asked
  BY <1>2 DEF UiType
<1>4. /\ worker' \in [step : Steps, op : Answers, result : EventType] /\ worker' # Rest
      /\ worker'.step = w.step /\ worker'.op = w.op /\ worker'.result.kind = w.op
  BY DEF Steps, Rest
<1>5. Typed'
  BY <1>1, <1>2, <1>3, <1>4 DEF Typed
<1>6. /\ \A i \in DOMAIN events : events[i].kind \notin Answers
      /\ \A i \in DOMAIN requests : requests[i].by # "worker"
  BY AtRest
<1>7. OneAction' /\ OfButton' /\ Shut' /\ Waited'
  <2>1. OneAction'
    BY <1>1, <1>3, <1>4, <1>6 DEF OneAction
  <2>2. OfButton'
    BY <1>1, <1>3, <1>4, <1>6 DEF OfButton, UiType
  <2>3. Shut' /\ Waited'
    BY <1>1, <1>6 DEF IInv, Shut, Waited
  <2> QED BY <2>1, <2>2, <2>3
<1>8. Previewed'
  BY <1>1, <1>3, SamePreviewed
<1>9. Confirmed' => Confirmed
  <2>1. ~FailedArmUndone' /\ ~AtWork("asking")'
    BY <1>4 DEF FailedArmUndone, AtWork
  <2>2. AtWork("offering")' => worker'.op \notin Releasing
    BY <1>4 DEF AtWork, Releasing
  <2> QED BY <1>1, <1>3, <2>1, <2>2 DEF Confirmed
<1>10. Released' = Released
  BY <1>1 DEF Released
<1> QED BY <1>5, <1>7, <1>8, <1>9, <1>10 DEF IInv

LEMMA ButtonStep ==
  ASSUME IInv, Idle, NEW op \in Answers, op = "arm" => ui.source = "target",
         NEW result \in EventType, result.kind = op,
         NEW leaving \in BOOLEAN, leaving => op = "desktop",
         ui' = [ui EXCEPT !.busy = TRUE, !.leaving = leaving],
         worker' = [step |-> "starting", op |-> op, result |-> result],
         UNCHANGED <<close, Held, events, gateway, requests, faults, late>>
  PROVE  IInv'
<1> DEFINE w == [step |-> "starting", op |-> op, result |-> result]
<1>1. /\ w \in [step : {"starting", "offering"}, op : Answers, result : EventType]
      /\ w.result.kind = w.op /\ w.step # "offering" /\ w.op = op
  OBVIOUS
<1> HIDE DEF w
<1>2. worker' = w
  BY DEF w
<1> QED BY <1>1, <1>2, BeginStep DEF Idle

LEMMA NotLeaving ==
  ASSUME IInv, ~ui.busy
  PROVE  [ui EXCEPT !.busy = TRUE] = [ui EXCEPT !.busy = TRUE, !.leaving = FALSE]
BY AtRest DEF IInv, Typed, UiType

LEMMA ButtonsStep ==
  ASSUME IInv, \/ Arm \/ Disarm \/ Desktop \/ SelectMode \/ ToggleCamera \/ Snapshot \/ Clip
               \/ ChooseEnvironment
  PROVE  IInv'
<1>1. Typed /\ Answers \subseteq Kinds
  BY AsideKinds DEF IInv
<1>2. ASSUME NEW op \in Answers, Idle, Begins(op), op = "arm" => ui.source = "target",
             NEW leaving \in BOOLEAN, leaving => op = "desktop",
             ui' = [ui EXCEPT !.busy = TRUE, !.leaving = leaving]
      PROVE  IInv'
  <2>1. Event(op) \in EventType /\ Event(op).kind = op
    BY <1>1, SampleTyped
  <2> QED BY <1>2, <2>1, ButtonStep DEF Begins
<1>3. ASSUME NEW op \in Answers, Idle, Begins(op), op = "arm" => ui.source = "target",
             ui' = [ui EXCEPT !.busy = TRUE]
      PROVE  IInv'
  <2>1. ui' = [ui EXCEPT !.busy = TRUE, !.leaving = FALSE]
    BY <1>3, NotLeaving DEF Idle
  <2> QED BY <1>2, <1>3, <2>1
<1>4. {"arm", "disarm", "desktop", "mode", "toggle", "snapshot", "start", "stop", "source"}
      \subseteq Answers
  BY DEF Answers, Releasing
<1>5. CASE Arm
  BY <1>3, <1>4, <1>5 DEF Arm
<1>6. CASE Disarm
  BY <1>3, <1>4, <1>6 DEF Disarm
<1>7. CASE Desktop
  BY <1>2, <1>4, <1>7 DEF Desktop
<1>8. CASE SelectMode
  BY <1>3, <1>4, <1>8 DEF SelectMode
<1>9. CASE ToggleCamera
  BY <1>3, <1>4, <1>9 DEF ToggleCamera
<1>10. CASE Snapshot
  BY <1>3, <1>4, <1>10 DEF Snapshot
<1>11. CASE ChooseEnvironment
  BY <1>3, <1>4, <1>11 DEF ChooseEnvironment
<1>12. CASE Clip
  <2>1. CASE ui.job = 0
    BY <1>3, <1>4, <1>12, <2>1 DEF Clip
  <2>2. CASE ui.job # 0
    <3> DEFINE e == [Event("stop") EXCEPT !.job = ui.job]
    <3>1. e \in EventType /\ e.kind = "stop"
      <4>1. Event("stop") \in EventType /\ Event("stop").kind = "stop"
        BY <1>1, <1>4, SampleTyped
      <4>2. ui.job \in Nat
        BY <1>1 DEF Typed, UiType
      <4> QED BY <4>1, <4>2 DEF EventType
    <3>2. /\ worker' = [step |-> "starting", op |-> "stop", result |-> e]
          /\ ui' = [ui EXCEPT !.busy = TRUE] /\ Idle
          /\ UNCHANGED <<close, Held, events, gateway, requests, faults, late>>
      BY <1>12, <2>2 DEF Clip
    <3>3. ui' = [ui EXCEPT !.busy = TRUE, !.leaving = FALSE]
      BY <3>2, NotLeaving DEF Idle
    <3> HIDE DEF e
    <3> QED BY <1>4, <3>1, <3>2, <3>3, ButtonStep
  <2> QED BY <2>1, <2>2
<1> QED BY <1>5, <1>6, <1>7, <1>8, <1>9, <1>10, <1>11, <1>12

LEMMA ScreenshotStep == ASSUME IInv, Screenshot PROVE IInv'
<1>1. /\ Idle /\ ui' = [ui EXCEPT !.busy = TRUE]
      /\ UNCHANGED <<close, Held, events, gateway, requests, faults, late>>
  BY DEF Screenshot
<1>2. PICK ok \in BOOLEAN : Ended(ok, Event("screenshot"))
  BY DEF Screenshot
<1> DEFINE e == [Event("screenshot") EXCEPT !.ok = ok]
           w == [step |-> "offering", op |-> Event("screenshot").kind, result |-> e]
<1>3. "screenshot" \in Answers /\ Event("screenshot").kind = "screenshot" /\ e \in EventType
      /\ e.kind = "screenshot"
  <2>1. "screenshot" \in Answers
    BY DEF Answers
  <2>2. Event("screenshot") \in EventType /\ Event("screenshot").kind = "screenshot"
    BY <2>1, SampleTyped, AsideKinds DEF IInv
  <2> QED BY <2>1, <2>2 DEF EventType
<1>4. worker' = w
  BY <1>2 DEF Ended
<1> HIDE DEF e
<1>5. /\ w \in [step : {"starting", "offering"}, op : Answers, result : EventType]
      /\ w.result.kind = w.op /\ w.op = "screenshot"
  BY <1>3
<1>6. ui' = [ui EXCEPT !.busy = TRUE, !.leaving = FALSE]
  BY <1>1, NotLeaving DEF Idle
<1> HIDE DEF w
<1> QED BY <1>1, <1>4, <1>5, <1>6, BeginStep DEF Idle

LEMMA CloseStep == ASSUME IInv, Close PROVE IInv'
<1> DEFINE r == [op |-> "disarm", by |-> "close"]
<1>1. /\ ~ui.busy /\ close = "open" /\ close' = "posting" /\ requests' = Append(requests, r)
      /\ UNCHANGED <<ui, worker, readers, listers, poll, camera, may, events, gateway, faults, late>>
  BY DEF Close, Asked, Held
<1>2. requests \in Seq(RequestType) /\ Typed /\ r \in RequestType
  BY DEF IInv, Typed, RequestType
<1>3. /\ requests' \in Seq(RequestType)
      /\ \A i \in DOMAIN requests' : i \in DOMAIN requests \/ (i = Len(requests) + 1)
      /\ \A i \in DOMAIN requests : requests'[i] = requests[i]
      /\ requests'[Len(requests) + 1].by = "close" /\ requests'[Len(requests) + 1].op = "disarm"
  BY <1>1, <1>2, Appended
<1>4. \A i \in DOMAIN requests : requests[i].by \notin {"worker", "close"}
  BY <1>1, AtRest DEF IInv, Waited
<1>5. Typed'
  BY <1>1, <1>2, <1>3 DEF Typed, RequestType
<1>6. Waited'
  BY <1>1, <1>2, <1>3, <1>4, RequestBy DEF Waited
<1>7. OneAction' /\ OfButton' /\ Shut' /\ Previewed'
  BY <1>1 DEF IInv, OneAction, OfButton, Shut, Previewed
<1>8. Confirmed' => Confirmed
  BY <1>1 DEF Confirmed, FailedArmUndone, AtWork
<1>9. Released' = Released
  BY <1>1 DEF Released
<1> QED BY <1>5, <1>6, <1>7, <1>8, <1>9 DEF IInv

-----------------------------------------------------------------------------
(* The action goes on: the lock, the camera, the result in the queue. *)

LEMMA AtWorkIs ==
  ASSUME IInv, worker # Rest
  PROVE  /\ worker \in [step : Steps, op : Answers, result : EventType]
         /\ worker.result.kind = worker.op /\ ui.busy /\ close = "open"
         /\ ui.source = "environment" => worker.op # "arm"
         /\ ui.leaving => worker.op = "desktop"
         /\ \A i \in DOMAIN events : events[i].kind \notin Answers
BY DEF IInv, Typed, OneAction, OfButton, Shut

LEMMA FailedTyped ==
  ASSUME IInv, worker # Rest
  PROVE  /\ Failed \in [step : Steps, op : Answers, result : EventType]
         /\ Failed.op = worker.op /\ Failed.step = "offering"
         /\ Failed.result.kind = worker.op /\ ~Failed.result.ok /\ ~Failed.result.over
<1>1. worker.op \in Answers
  BY AtWorkIs
<1>2. /\ Event(worker.op) \in EventType /\ Event(worker.op).kind = worker.op
      /\ ~Event(worker.op).ok /\ ~Event(worker.op).over
  BY <1>1, SampleTyped, AsideKinds DEF IInv
<1> QED BY <1>1, <1>2 DEF Failed, Steps

(* The thread goes on with the same action, and asks nothing. *)
LEMMA GoesOn ==
  ASSUME IInv, worker # Rest,
         NEW w \in [step : Steps, op : Answers, result : EventType],
         w.op = worker.op, w.result.kind = w.op, worker' = w,
         UNCHANGED <<ui, close, readers, events>>,
         Typed', Waited',
         \/ w.op \in Releasing /\ (w.step = "asking" \/ (w.step = "offering" /\ w.result.ok))
         \/ w.op = "arm" /\ w.step = "offering" /\ ~w.result.ok /\ ~w.result.over
         => Released',
         Released => Released' \/ ~Confirmed
  PROVE  IInv'
<1>1. worker' # Rest /\ worker'.op = worker.op
  BY DEF Rest, Steps
<1>2. OneAction' /\ OfButton' /\ Shut' /\ Previewed'
  BY <1>1 DEF IInv, OneAction, OfButton, Shut, Previewed
<1>3. ASSUME Confirmed' PROVE Released'
  <2>1. CASE close \in {"asking", "closed"} \/ ui.source = "environment"
    BY <2>1 DEF IInv, Confirmed
  <2>2. CASE FailedArmUndone'
    BY <2>2 DEF FailedArmUndone, AtWork
  <2>3. CASE worker'.op \in Releasing
             /\ (AtWork("asking") \/ (AtWork("offering") /\ worker.result.ok))'
    BY <2>3 DEF AtWork
  <2>4. CASE \E i \in DOMAIN events' : events'[i].kind \in Releasing /\ events'[i].ok
    BY <2>4, AtWorkIs, AsideKinds
  <2> QED BY <1>3, <2>1, <2>2, <2>3, <2>4 DEF Confirmed
<1> QED BY <1>2, <1>3 DEF IInv

LEMMA EntersStep == ASSUME IInv, Enters PROVE IInv'
<1>1. AtWork("starting") /\ worker # Rest /\ Typed
  BY DEF Enters, AtWork, Rest, IInv
<1>2. worker \in [step : Steps, op : Answers, result : EventType] /\ close = "open"
      /\ worker.result.kind = worker.op
  BY <1>1, AtWorkIs
<1>3. /\ UNCHANGED <<ui, close, readers, listers, poll, camera, may, events, gateway, faults, late>>
      /\ worker' = [worker EXCEPT !.step = "posting"]
      /\ requests' = IF worker.op = "arm" THEN Asked("arm", "worker")
                     ELSE IF worker.op \in Releasing THEN Asked("disarm", "worker")
                     ELSE requests
  BY <1>2 DEF Enters, Held
<1> DEFINE w == [worker EXCEPT !.step = "posting"]
<1>4. /\ w \in [step : Steps, op : Answers, result : EventType]
      /\ w.op = worker.op /\ w.result.kind = w.op /\ w.step = "posting"
  BY <1>2 DEF Steps
<1>5. worker' = w
  BY <1>3
<1> HIDE DEF w
<1>6. requests \in Seq(RequestType) /\ \A i \in DOMAIN requests : requests[i].by # "worker"
  BY <1>1 DEF IInv, Typed, Waited, AtWork, RequestType
<1>7. CASE requests' = requests /\ worker.op # "arm" /\ worker.op \notin Releasing
  <2>1. Typed' /\ Waited'
    BY <1>1, <1>3, <1>4, <1>5, <1>6, <1>7 DEF IInv, Typed, Waited
  <2>2. Released' = Released
    BY <1>3 DEF Released
  <2> QED BY <1>1, <1>3, <1>4, <1>5, <2>1, <2>2, GoesOn
<1>8. ASSUME NEW op \in {"arm", "disarm"}, requests' = Append(requests, [op |-> op, by |-> "worker"]),
             op = "arm" => worker.op = "arm",
             op = "disarm" => worker.op \in Releasing
      PROVE  IInv'
  <2> DEFINE r == [op |-> op, by |-> "worker"]
  <2>1. r \in RequestType /\ r.op = op /\ r.by = "worker"
    BY <1>8 DEF RequestType
  <2> HIDE DEF r
  <2>2. requests' = Append(requests, r)
    BY <1>8 DEF r
  <2>3. /\ requests' \in Seq(RequestType)
        /\ \A i \in DOMAIN requests' : i \in DOMAIN requests \/ (i = Len(requests) + 1)
        /\ \A i \in DOMAIN requests : requests'[i] = requests[i]
        /\ requests'[Len(requests) + 1] = r
    BY <1>6, <2>1, <2>2, Appended
  <2>4. Typed'
    BY <1>1, <1>3, <1>4, <1>5, <2>3 DEF Typed, RequestType
  <2>5. Waited'
    <3>1. \A i \in DOMAIN requests' : requests'[i].by = "close" =>
            close' = "posting" /\ requests'[i].op = "disarm"
      BY <1>3, <2>1, <2>3 DEF IInv, Waited
    <3>2. \A i, j \in DOMAIN requests' :
            requests'[i].by = requests'[j].by /\ requests'[i].by # None => i = j
      BY <1>6, <2>1, <2>3 DEF IInv, Waited
    <3>3. \A i \in DOMAIN requests' : requests'[i].by = "worker" =>
             \/ AtWork("posting")' /\ worker'.op = "arm" /\ requests'[i].op = "arm"
             \/ AtWork("posting")' /\ worker'.op \in Releasing /\ requests'[i].op = "disarm"
      BY <1>4, <1>5, <1>6, <1>8, <2>1, <2>3 DEF AtWork
    <3> QED BY <3>1, <3>2, <3>3 DEF Waited
  <2>6. Released' = Released
    BY <1>3 DEF Released
  <2> QED BY <1>1, <1>3, <1>4, <1>5, <2>4, <2>5, <2>6, GoesOn
<1> QED BY <1>3, <1>7, <1>8 DEF Asked

(* The camera and the capture are asked while no request is. *)
LEMMA NotAsking ==
  ASSUME IInv, worker # Rest, \/ AtWork("posting") /\ worker.op # "arm" /\ worker.op \notin Releasing
                              \/ AtWork("asking")
  PROVE  \A i \in DOMAIN requests : requests[i].by # "worker"
BY DEF IInv, Waited, AtWork

LEMMA AnsweredStep ==
  ASSUME IInv, worker # Rest, AtWork("posting") \/ AtWork("asking"),
         NEW w \in [step : Steps, op : Answers, result : EventType],
         w.op = worker.op, w.result.kind = w.op, worker' = w,
         \/ AtWork("posting") /\ w.op # "arm" /\ w.op \notin Releasing
         \/ AtWork("asking") /\ w.step = "offering" /\ w.result.ok,
         camera' \in CameraType,
         UNCHANGED <<ui, close, readers, listers, poll, may, events, gateway, requests>>,
         UNCHANGED <<faults, late>>
  PROVE  IInv'
<1>1. Typed'
  BY DEF IInv, Typed
<1>2. Waited'
  BY NotAsking DEF IInv, Waited
<1>3. Released' = Released
  BY DEF Released
<1>4. w.op \in Releasing => Confirmed
  BY DEF Confirmed
<1>5. w.op = "arm" /\ ~w.result.ok => FALSE
  OBVIOUS
<1> QED BY <1>1, <1>2, <1>3, <1>4, <1>5, GoesOn DEF IInv

LEMMA EndedStep ==
  ASSUME IInv, AtWork("posting"), NEW ok \in BOOLEAN, NEW e \in EventType, e.kind = worker.op,
         e.kind \notin Releasing \cup {"arm"}, Ended(ok, e),
         camera' \in CameraType,
         UNCHANGED <<ui, close, readers, listers, poll, may, events, gateway, requests>>,
         UNCHANGED <<faults, late>>
  PROVE  IInv'
<1> DEFINE d == [e EXCEPT !.ok = ok]
           w == [step |-> "offering", op |-> e.kind, result |-> d]
<1>1. worker # Rest
  BY DEF AtWork, Rest
<1>2. d \in EventType /\ d.kind = e.kind
  BY DEF EventType
<1>3. worker' = w
  BY DEF Ended
<1> HIDE DEF d
<1>4. /\ w \in [step : Steps, op : Answers, result : EventType]
      /\ w.op = worker.op /\ w.result.kind = w.op
  BY <1>1, <1>2, AtWorkIs DEF Steps
<1> HIDE DEF w
<1> QED BY <1>1, <1>3, <1>4, AnsweredStep

LEMMA CameraOpsStep ==
  ASSUME IInv, Starts \/ Stops \/ CameraEnds \/ ModeEnds PROVE IInv'
<1>1. Typed /\ AtWork("posting") /\ worker # Rest
  <2>1. AtWork("posting")
    BY DEF Starts, Stops, CameraEnds, ModeEnds
  <2> QED BY <2>1 DEF IInv, AtWork, Rest
<1>2. /\ worker \in [step : Steps, op : Answers, result : EventType]
      /\ worker.result.kind = worker.op
  BY <1>1, AtWorkIs
<1>3. /\ {"start", "stop", "toggle", "snapshot", "mode"} \subseteq Answers
      /\ {"start", "stop", "toggle", "snapshot", "mode"} \cap (Releasing \cup {"arm"}) = {}
  BY DEF Answers, Releasing
<1>4. ASSUME NEW op \in Answers, NEW job \in Nat, NEW over \in BOOLEAN
      PROVE  /\ [Event(op) EXCEPT !.job = job] \in EventType
             /\ [Event(op) EXCEPT !.job = job].kind = op
             /\ [Event(op) EXCEPT !.job = job, !.over = over] \in EventType
             /\ [Event(op) EXCEPT !.job = job, !.over = over].kind = op
  <2>1. Event(op) \in EventType /\ Event(op).kind = op
    BY <1>1, SampleTyped, AsideKinds
  <2> QED BY <2>1 DEF EventType
<1>5. CASE Starts
  <2>1. camera' = Recording(camera) /\ worker.op = "start"
        /\ UNCHANGED <<ui, close, readers, listers, poll, may, events, gateway, requests>>
        /\ UNCHANGED <<faults, late>>
    BY <1>5 DEF Starts
  <2>2. camera' \in CameraType /\ camera'.running \in Nat
    BY <1>1, <2>1, RecordingTyped DEF Typed
  <2>3. PICK told \in BOOLEAN :
          Ended(told, [Event("start") EXCEPT !.job = IF told THEN camera'.running ELSE 0])
    BY <1>5 DEF Starts
  <2> DEFINE job == IF told THEN camera'.running ELSE 0
             e == [Event("start") EXCEPT !.job = job]
  <2>4. job \in Nat
    BY <2>2
  <2>5. Ended(told, e)
    BY <2>3
  <2> HIDE DEF job
  <2>6. e \in EventType /\ e.kind = "start"
    <3>1. "start" \in Answers
      BY <1>3
    <3> QED BY <3>1, <1>4, <2>4
  <2> HIDE DEF e
  <2> QED BY <1>1, <1>3, <2>1, <2>2, <2>5, <2>6, EndedStep
<1>6. CASE Stops
  <2>1. /\ worker.op = "stop" /\ camera' \in CameraType
        /\ UNCHANGED <<ui, close, readers, listers, poll, may, events, gateway, requests>>
        /\ UNCHANGED <<faults, late>>
    BY <1>1, <1>6 DEF Stops, Held, Typed
  <2>2. PICK ok \in BOOLEAN, over \in BOOLEAN :
          Ended(ok, [Event("stop") EXCEPT !.job = worker.result.job, !.over = over])
    BY <1>6 DEF Stops
  <2> DEFINE job == worker.result.job
             e == [Event("stop") EXCEPT !.job = job, !.over = over]
  <2>3. job \in Nat
    BY <1>2 DEF EventType
  <2>4. Ended(ok, e)
    BY <2>2
  <2> HIDE DEF job
  <2>5. e \in EventType /\ e.kind = "stop"
    <3>1. "stop" \in Answers
      BY <1>3
    <3> QED BY <3>1, <1>4, <2>3
  <2> HIDE DEF e
  <2> QED BY <1>1, <1>3, <2>1, <2>3, <2>4, <2>5, EndedStep
<1>7. CASE CameraEnds
  <2>1. /\ worker.op \in {"toggle", "snapshot", "start"} /\ camera' \in CameraType
        /\ UNCHANGED <<ui, close, readers, listers, poll, may, events, gateway, requests>>
        /\ UNCHANGED <<faults, late>>
    BY <1>1, <1>7 DEF CameraEnds, Held, Typed
  <2>2. PICK told \in BOOLEAN :
          Ended(told /\ worker.op # "start",
                [Event(worker.op) EXCEPT !.job = IF worker.op = "toggle" THEN camera.reported ELSE 0])
    BY <1>7 DEF CameraEnds
  <2> DEFINE ok == told /\ worker.op # "start"
             job == IF worker.op = "toggle" THEN camera.reported ELSE 0
             e == [Event(worker.op) EXCEPT !.job = job]
  <2>3. job \in Nat /\ ok \in BOOLEAN
    BY <1>1 DEF Typed, CameraType
  <2>4. Ended(ok, e)
    BY <2>2
  <2> HIDE DEF job, ok
  <2>5. e \in EventType /\ e.kind = worker.op
    <3>1. worker.op \in Answers
      BY <1>2
    <3> QED BY <1>4, <2>3, <3>1
  <2> HIDE DEF e
  <2> QED BY <1>1, <1>3, <2>1, <2>3, <2>4, <2>5, EndedStep
<1>8. CASE ModeEnds
  <2>1. /\ worker.op = "mode" /\ camera' \in CameraType
        /\ UNCHANGED <<ui, close, readers, listers, poll, may, events, gateway, requests>>
        /\ UNCHANGED <<faults, late>>
        /\ worker' = [worker EXCEPT !.step = "asking"] \/ worker' = Failed
    BY <1>1, <1>8 DEF ModeEnds, Held, Typed
  <2>2. /\ worker' \in [step : Steps, op : Answers, result : EventType]
        /\ worker'.op = worker.op /\ worker'.result.kind = worker'.op
    <3>1. CASE worker' = [worker EXCEPT !.step = "asking"]
      BY <1>2, <3>1 DEF Steps
    <3>2. CASE worker' = Failed
      BY <1>1, <1>2, <3>2, FailedTyped
    <3> QED BY <2>1, <3>1, <3>2
  <2> QED BY <1>1, <1>3, <2>1, <2>2, AnsweredStep
<1> QED BY <1>5, <1>6, <1>7, <1>8

(* A thread that ends takes its action with it. *)
LEMMA DeadTyped ==
  ASSUME IInv, worker # Rest, NEW w, w = [worker EXCEPT !.step = "dead"]
  PROVE  /\ w \in [step : Steps, op : Answers, result : EventType]
         /\ w.op = worker.op /\ w.result.kind = w.op /\ w.step = "dead"
BY AtWorkIs DEF Steps

LEMMA AnswerBreaksStep == ASSUME IInv, AnswerBreaks PROVE IInv'
<1> DEFINE w == [worker EXCEPT !.step = "dead"]
<1>1. /\ AtWork("posting") /\ worker.op \notin Releasing \cup {"arm"} /\ worker' = w
      /\ UNCHANGED <<ui, close, readers, listers, poll, camera, may, events, gateway, requests>>
      /\ UNCHANGED <<faults, late>>
  BY DEF AnswerBreaks, Dies, Held
<1>2. worker # Rest
  BY <1>1 DEF AtWork, Rest
<1>3. /\ w \in [step : Steps, op : Answers, result : EventType]
      /\ w.op = worker.op /\ w.result.kind = w.op
  BY <1>2, DeadTyped
<1> HIDE DEF w
<1>4. camera' \in CameraType
  BY <1>1 DEF IInv, Typed
<1> QED BY <1>1, <1>2, <1>3, <1>4, AnsweredStep

LEMMA StatusAnsweredStep == ASSUME IInv, StatusAnswered PROVE IInv'
<1>1. CASE /\ AtWork("asking")
           /\ worker' = [worker EXCEPT !.step = "offering", !.result = Sample(worker.op)]
           /\ UNCHANGED <<ui, close, Held, events, gateway, requests, faults, late>>
  <2>1. Typed /\ worker # Rest
    BY <1>1 DEF IInv, AtWork, Rest
  <2>2. worker \in [step : Steps, op : Answers, result : EventType]
    BY <2>1, AtWorkIs
  <2> DEFINE s == Sample(worker.op)
             w == [worker EXCEPT !.step = "offering", !.result = s]
  <2>3. s \in EventType /\ s.kind = worker.op /\ s.ok
    BY <2>1, <2>2, SampleTyped, AsideKinds
  <2> HIDE DEF s
  <2>4. /\ w \in [step : Steps, op : Answers, result : EventType] /\ w.step = "offering"
        /\ w.op = worker.op /\ w.result.kind = w.op /\ w.result.ok
    BY <2>2, <2>3 DEF Steps
  <2>5. worker' = w
    BY <1>1 DEF s
  <2> HIDE DEF w
  <2>6. camera' \in CameraType
    BY <1>1, <2>1 DEF Held, Typed
  <2> QED BY <1>1, <2>1, <2>4, <2>5, <2>6, AnsweredStep DEF Held
<1>2. CASE /\ close = "asking" /\ close' = "closed"
           /\ UNCHANGED <<ui, worker, Held, events, gateway, requests, faults, late>>
  <2>1. Typed'
    BY <1>2 DEF IInv, Typed, Held
  <2>2. OneAction' /\ OfButton' /\ Shut' /\ Waited' /\ Previewed'
    BY <1>2 DEF IInv, OneAction, OfButton, Shut, Waited, Previewed, AtWork
  <2>3. Confirmed /\ Released' = Released
    BY <1>2 DEF Confirmed, Released
  <2> QED BY <2>1, <2>2, <2>3 DEF IInv
<1> QED BY <1>1, <1>2 DEF StatusAnswered

(* The result comes to the queue; what it confirms was confirmed. *)
LEMMA WorkerOffersStep == ASSUME IInv, WorkerOffers PROVE IInv'
<1>1. /\ Typed /\ AtWork("offering") /\ worker # Rest /\ worker' = Rest
      /\ UNCHANGED <<ui, close, readers, listers, poll, camera, may, gateway, requests>>
      /\ UNCHANGED <<faults, late>>
  BY DEF IInv, WorkerOffers, AtWork, Rest, Held
<1>2. /\ worker \in [step : Steps, op : Answers, result : EventType]
      /\ worker.result.kind = worker.op /\ ui.busy /\ close = "open"
      /\ ui.leaving => worker.op = "desktop"
      /\ \A i \in DOMAIN events : events[i].kind \notin Answers
  BY <1>1, AtWorkIs
<1> DEFINE e == worker.result
<1>3. e \in EventType /\ e.kind = worker.op /\ e.kind \in Answers
  BY <1>2
<1>4. Room /\ events' = Append(events, e)
  BY <1>2 DEF WorkerOffers, Offer
<1>5. worker.step = "offering" /\ Rest.step = "rest"
  BY <1>1 DEF AtWork, Rest
<1> HIDE DEF e
<1>6. events \in Seq(EventType)
  BY <1>1 DEF Typed
<1>7. /\ \A i \in DOMAIN events' : i \in DOMAIN events \/ (i = Len(events) + 1)
      /\ \A i \in DOMAIN events : events'[i] = events[i]
      /\ Len(events) + 1 \in DOMAIN events' /\ events'[Len(events) + 1] = e
  BY <1>3, <1>4, <1>6, Appended
<1>8. Typed'
  <2>1. events' \in Seq(EventType) /\ Len(events') <= QueueSize
    BY <1>1, <1>3, <1>4, OfferedTyped
  <2> QED BY <1>1, <2>1 DEF Typed
<1>9. OneAction'
  BY <1>1, <1>2, <1>3, <1>7 DEF OneAction
<1>10. OfButton'
  BY <1>1, <1>2, <1>3, <1>7 DEF OfButton
<1>11. Shut' /\ Previewed'
  BY <1>1, <1>3, <1>4, OfferedPreviewed DEF IInv, Shut
<1>12. Waited'
  BY <1>1, <1>5 DEF IInv, Waited, AtWork
<1>13. Confirmed' => Confirmed
  <2>1. ~AtWork("asking")' /\ ~AtWork("offering")'
    BY <1>1, <1>5 DEF AtWork
  <2>2. ASSUME NEW i \in DOMAIN events', events'[i].kind \in Releasing, events'[i].ok
        PROVE  worker.op \in Releasing /\ worker.result.ok
    BY <1>2, <1>3, <1>7, <2>2, AsideKinds DEF e
  <2> QED BY <1>1, <1>5, <2>1, <2>2 DEF Confirmed, FailedArmUndone, AtWork
<1>14. Released' = Released
  BY <1>1 DEF Released
<1> QED BY <1>8, <1>9, <1>10, <1>11, <1>12, <1>13, <1>14 DEF IInv

-----------------------------------------------------------------------------
(* The gateway answers, or the console gives up. *)

(* An action that failed is over, or its arm is mended. *)
LEMMA UndoneKeeps ==
  ASSUME IInv, worker # Rest, worker.step \in {"posting", "mending", "asking"},
         NEW qs \in Seq(RequestType), Undone(qs),
         \A i \in DOMAIN qs : qs[i].by = None \/ (qs[i].by = "close" /\ close = "posting" /\ qs[i].op = "disarm"),
         \A i, j \in DOMAIN qs : qs[i].by = qs[j].by /\ qs[i].by # None => i = j,
         UNCHANGED <<ui, close, Held, events>>,
         gateway' \in [armed : BOOLEAN, stray : BOOLEAN],
         faults' \in 0..may.faults, late' \in 0..may.late,
         Released => Released'
  PROVE  IInv'
<1>1. /\ worker \in [step : Steps, op : Answers, result : EventType]
      /\ worker.result.kind = worker.op
      /\ UNCHANGED <<readers, listers, poll, camera, may>>
  BY AtWorkIs DEF Held
<1>2. "worker" # None /\ "close" # None /\ "worker" # "close"
  BY ConsoleAssumption
<1>3. CASE /\ Mends /\ worker' = [worker EXCEPT !.step = "mending"]
           /\ requests' = Append(qs, [op |-> "disarm", by |-> "worker"])
  <2> DEFINE w == [worker EXCEPT !.step = "mending"]
             r == [op |-> "disarm", by |-> "worker"]
  <2>1. /\ w \in [step : Steps, op : Answers, result : EventType]
        /\ w.op = worker.op /\ w.result.kind = w.op /\ w.step = "mending"
    BY <1>1 DEF Steps
  <2>2. r \in RequestType /\ r.op = "disarm" /\ r.by = "worker"
    BY DEF RequestType
  <2>3. worker' = w /\ requests' = Append(qs, r)
    BY <1>3
  <2> HIDE DEF w, r
  <2>4. /\ requests' \in Seq(RequestType)
        /\ \A i \in DOMAIN requests' : i \in DOMAIN qs \/ (i = Len(qs) + 1)
        /\ \A i \in DOMAIN qs : requests'[i] = qs[i]
        /\ requests'[Len(qs) + 1] = r
    BY <2>2, <2>3, Appended
  <2>5. Typed'
    BY <1>1, <2>1, <2>3, <2>4 DEF IInv, Typed, RequestType
  <2>6. Waited'
    <3>1. \A i \in DOMAIN requests' : requests'[i].by = "worker" =>
            AtWork("mending")' /\ requests'[i].op = "disarm"
      BY <1>2, <2>1, <2>2, <2>3, <2>4 DEF AtWork
    <3>2. \A i \in DOMAIN requests' : requests'[i].by = "close" =>
            close' = "posting" /\ requests'[i].op = "disarm"
      BY <1>2, <2>2, <2>4
    <3>3. \A i, j \in DOMAIN requests' :
            requests'[i].by = requests'[j].by /\ requests'[i].by # None => i = j
      BY <1>2, <2>2, <2>4
    <3> QED BY <3>1, <3>2, <3>3 DEF Waited
  <2> QED BY <2>1, <2>3, <2>5, <2>6, GoesOn, <1>1
<1>4. CASE /\ ~Mends /\ worker' = [Failed EXCEPT !.result.over = AtWork("mending")]
           /\ requests' = qs
  <2> DEFINE over == AtWork("mending")
             w == [Failed EXCEPT !.result.over = over]
  <2>1. over \in BOOLEAN
    BY DEF AtWork
  <2>2. worker' = w /\ requests' = qs
    BY <1>4
  <2>3. worker.op = "arm" => over
    BY <1>4 DEF Mends
  <2> HIDE DEF over
  <2>4. /\ w \in [step : Steps, op : Answers, result : EventType]
        /\ w.op = worker.op /\ w.result.kind = w.op /\ w.step = "offering"
        /\ ~w.result.ok /\ w.result.over = over
    <3> DEFINE d == [Failed.result EXCEPT !.over = over]
    <3>1. d \in EventType /\ d.kind = worker.op /\ ~d.ok /\ d.over = over
      <4>1. Failed.result \in EventType /\ Failed.result.kind = worker.op /\ ~Failed.result.ok
        BY FailedTyped
      <4> QED BY <2>1, <4>1 DEF EventType
    <3>2. w = [Failed EXCEPT !.result = d]
      BY FailedTyped
    <3> HIDE DEF d, w
    <3>3. /\ Failed \in [step : Steps, op : Answers, result : EventType]
          /\ Failed.op = worker.op /\ Failed.step = "offering"
      BY FailedTyped
    <3> QED BY <3>1, <3>2, <3>3
  <2> HIDE DEF w
  <2>5. Typed'
    BY <1>1, <2>2, <2>4 DEF IInv, Typed, RequestType
  <2>6. Waited'
    BY <1>1, <1>2, <2>2 DEF Waited
  <2> QED BY <1>1, <2>2, <2>3, <2>4, <2>5, <2>6, GoesOn
<1>5. CASE Dies /\ requests' = qs
  <2> DEFINE w == [worker EXCEPT !.step = "dead"]
  <2>1. worker' = w
    BY <1>5 DEF Dies
  <2>2. /\ w \in [step : Steps, op : Answers, result : EventType]
        /\ w.op = worker.op /\ w.result.kind = w.op /\ w.step = "dead"
    BY DeadTyped
  <2> HIDE DEF w
  <2>3. Typed'
    BY <1>1, <1>5, <2>1, <2>2 DEF IInv, Typed, RequestType
  <2>4. Waited'
    BY <1>1, <1>2, <1>5 DEF Waited
  <2> QED BY <1>1, <2>1, <2>2, <2>3, <2>4, GoesOn
<1> QED BY <1>3, <1>4, <1>5 DEF Undone

(* The i-th request is answered, and qs are left. *)
LEMMA AnsweringStep ==
  ASSUME IInv, NEW i \in DOMAIN requests, NEW ok \in BOOLEAN,
         NEW qs, Left(qs, i), Answered(requests[i].by, ok, qs),
         UNCHANGED <<ui, Held, events>>,
         gateway' \in [armed : BOOLEAN, stray : BOOLEAN],
         faults' \in 0..may.faults, late' \in 0..may.late,
         Released => Released' \/ (ok /\ requests[i].op = "arm" /\ requests[i].by # None),
         ok /\ requests[i].op = "disarm" => Released'
  PROVE  IInv'
<1> DEFINE by == requests[i].by
<1>1. /\ requests \in Seq(RequestType) /\ qs \in Seq(RequestType)
      /\ UNCHANGED <<readers, listers, poll, camera, may>>
  BY DEF IInv, Typed, RequestType, Left, Held
<1>2. "worker" # None /\ "close" # None /\ "worker" # "close"
  BY ConsoleAssumption
<1>3. /\ \A k \in DOMAIN qs : qs[k].by # None =>
           /\ \E j \in DOMAIN requests : qs[k] = requests[j]
           /\ qs[k].by # by
      /\ \A j, k \in DOMAIN qs : qs[j].by = qs[k].by /\ qs[j].by # None => j = k
  BY LeftWaited
<1>4. \A k \in DOMAIN qs : qs[k].by = "close" => close = "posting" /\ qs[k].op = "disarm"
  BY <1>2, <1>3 DEF IInv, Waited
<1>5. \A k \in DOMAIN qs : qs[k].by = "worker" =>
        \/ AtWork("mending") /\ qs[k].op = "disarm"
        \/ AtWork("posting") /\ worker.op = "arm" /\ qs[k].op = "arm"
        \/ AtWork("posting") /\ worker.op \in Releasing /\ qs[k].op = "disarm"
  BY <1>2, <1>3 DEF IInv, Waited
<1>6. CASE by = "close"
  <2>1. close = "posting" /\ requests[i].op = "disarm"
    BY <1>6 DEF IInv, Waited
  <2>2. close' = CloseAnswered(ok) /\ requests' = qs /\ UNCHANGED worker
    BY <1>6 DEF Answered
  <2>3. close' \in {"asking", "open"} /\ (close' = "asking" => Released')
    BY <2>1, <2>2 DEF CloseAnswered
  <2>4. Released => Released'
    BY <2>1
  <2>5. Typed'
    BY <1>1, <2>2, <2>3 DEF IInv, Typed, RequestType
  <2>6. ~ui.busy /\ worker = Rest
    BY <2>1, AtRest DEF IInv, Shut
  <2>7. OneAction' /\ OfButton' /\ Shut' /\ Previewed'
    BY <1>1, <2>1, <2>2, <2>6 DEF IInv, OneAction, OfButton, Shut, Previewed
  <2>8. Waited'
    <3>1. \A k \in DOMAIN qs : qs[k].by # "close"
      BY <1>2, <1>3, <1>6
    <3>2. \A k \in DOMAIN qs : qs[k].by # "worker"
      BY <1>5, <2>6 DEF AtWork, Rest
    <3> QED BY <1>3, <2>2, <3>1, <3>2 DEF Waited
  <2>9. Confirmed' => Released'
    BY <2>2, <2>3, <2>4 DEF IInv, Confirmed, FailedArmUndone, AtWork
  <2> QED BY <2>5, <2>7, <2>8, <2>9 DEF IInv
<1>7. CASE by = "worker"
  <2>1. \/ AtWork("mending") /\ requests[i].op = "disarm"
        \/ AtWork("posting") /\ worker.op = "arm" /\ requests[i].op = "arm"
        \/ AtWork("posting") /\ worker.op \in Releasing /\ requests[i].op = "disarm"
    BY <1>7 DEF IInv, Waited
  <2>2. worker # Rest /\ worker.step \in {"posting", "mending"}
    BY <2>1 DEF AtWork, Rest
  <2>3. /\ worker \in [step : Steps, op : Answers, result : EventType]
        /\ worker.result.kind = worker.op /\ close = "open"
        /\ ui.source = "environment" => worker.op # "arm"
        /\ \A k \in DOMAIN events : events[k].kind \notin Answers
    BY <2>2, AtWorkIs
  <2>4. \A k \in DOMAIN qs : qs[k].by # "worker"
    BY <1>2, <1>3, <1>7
  <2>5. close' = close
    BY <1>2, <1>7 DEF Answered
  <2>6. CASE ok /\ ~AtWork("mending")
    <3> DEFINE w == [worker EXCEPT !.step = "asking"]
    <3>1. worker' = w /\ requests' = qs
      BY <1>2, <1>7, <2>6 DEF Answered
    <3>2. /\ w \in [step : Steps, op : Answers, result : EventType]
          /\ w.op = worker.op /\ w.result.kind = w.op /\ w.step = "asking"
      BY <2>3 DEF Steps
    <3> HIDE DEF w
    <3>3. Typed'
      BY <1>1, <2>3, <2>5, <3>1, <3>2 DEF IInv, Typed, RequestType
    <3>4. Waited'
      BY <1>3, <1>4, <2>4, <2>5, <3>1 DEF Waited
    <3>5. w.op \in Releasing => Released'
      BY <2>1, <2>6, <3>2 DEF Releasing
    <3>6. Released => Released' \/ ~Confirmed
      <4>1. CASE requests[i].op = "disarm"
        BY <2>6, <4>1
      <4>2. CASE requests[i].op = "arm"
        <5>1. AtWork("posting") /\ worker.op = "arm"
          BY <2>1, <4>2
        <5>2. worker.op \notin Releasing /\ ui.source # "environment" /\ close = "open"
          BY <2>3, <5>1 DEF Releasing
        <5>3. ~FailedArmUndone /\ ~AtWork("asking") /\ ~AtWork("offering")
          BY <5>1 DEF AtWork, FailedArmUndone
        <5>4. \A k \in DOMAIN events : events[k].kind \notin Releasing
          BY <2>3, AsideKinds
        <5> QED BY <5>2, <5>3, <5>4 DEF Confirmed
      <4> QED BY <2>1, <4>1, <4>2
    <3>7. UNCHANGED <<ui, close, readers, events>>
      BY <1>1, <2>5
    <3> QED BY <2>2, <3>1, <3>2, <3>3, <3>4, <3>5, <3>6, <3>7, GoesOn
  <2>7. CASE ok /\ AtWork("mending")
    <3>1. worker' = Failed /\ requests' = qs
      BY <1>2, <1>7, <2>7 DEF Answered
    <3>2. /\ Failed \in [step : Steps, op : Answers, result : EventType]
          /\ Failed.op = worker.op /\ Failed.result.kind = Failed.op /\ ~Failed.result.ok
          /\ Failed.step = "offering"
      BY <2>2, FailedTyped
    <3>3. Released'
      BY <2>1, <2>7 DEF AtWork
    <3> DEFINE w == Failed
    <3> HIDE DEF w
    <3>4. /\ w \in [step : Steps, op : Answers, result : EventType]
          /\ w.op = worker.op /\ w.result.kind = w.op /\ worker' = w
      BY <3>1, <3>2 DEF w
    <3>5. Typed'
      BY <1>1, <2>3, <2>5, <3>1, <3>4 DEF IInv, Typed, RequestType
    <3>6. Waited'
      BY <1>3, <1>4, <2>4, <2>5, <3>1 DEF Waited
    <3>7. UNCHANGED <<ui, close, readers, events>>
      BY <1>1, <2>5
    <3> QED BY <2>2, <3>3, <3>4, <3>5, <3>6, <3>7, GoesOn
  <2>8. CASE ~ok
    <3>1. Undone(qs)
      BY <1>2, <1>7, <2>8 DEF Answered
    <3>2. \A k \in DOMAIN qs :
            qs[k].by = None \/ (qs[k].by = "close" /\ close = "posting" /\ qs[k].op = "disarm")
      BY <1>1, <1>4, <2>4, RequestBy
    <3>3. Released => Released'
      BY <2>8
    <3>4. UNCHANGED <<ui, close, Held, events>>
      BY <2>5
    <3> QED BY <1>1, <1>3, <2>2, <3>1, <3>2, <3>3, <3>4, UndoneKeeps
  <2> QED BY <2>6, <2>7, <2>8
<1>8. CASE by = None
  <2>1. requests' = qs /\ UNCHANGED <<close, worker>>
    BY <1>2, <1>8 DEF Answered
  <2>2. Released => Released'
    BY <1>8
  <2>3. Typed'
    BY <1>1, <2>1 DEF IInv, Typed, RequestType
  <2>4. OneAction' /\ OfButton' /\ Shut' /\ Previewed'
    BY <1>1, <2>1 DEF IInv, OneAction, OfButton, Shut, Previewed
  <2>5. Waited'
    BY <1>3, <1>4, <1>5, <2>1 DEF Waited, AtWork
  <2>6. Confirmed' = Confirmed
    BY <2>1 DEF Confirmed, FailedArmUndone, AtWork
  <2> QED BY <2>2, <2>3, <2>4, <2>5, <2>6 DEF IInv
<1> QED BY <1>1, <1>6, <1>7, <1>8, RequestBy

LEMMA HandlesStep == ASSUME IInv, NEW i \in DOMAIN requests, Handles(i) PROVE IInv'
<1> DEFINE q == requests[i]
           qs == RemoveAt(requests, i)
<1>1. PICK ok \in BOOLEAN :
        /\ IF q.op = "arm"
           THEN gateway' = IF ok THEN [armed |-> TRUE, stray |-> gateway.stray \/ q.by = None]
                           ELSE gateway
           ELSE gateway' = [armed |-> FALSE, stray |-> FALSE]
        /\ faults' = IF ok \/ q.op = "arm" THEN faults ELSE faults + 1
        /\ faults' <= may.faults
        /\ Answered(q.by, ok, qs)
  BY DEF Handles
<1>2. /\ Typed /\ gateway \in [armed : BOOLEAN, stray : BOOLEAN]
      /\ UNCHANGED <<ui, Held, events, late>>
  BY DEF IInv, Typed, Handles
<1>3. Left(qs, i)
  BY <1>2, LeftRemoved
<1>4. gateway' \in [armed : BOOLEAN, stray : BOOLEAN]
  <2>1. (gateway.stray \/ q.by = None) \in BOOLEAN
    BY <1>2
  <2> DEFINE stray == gateway.stray \/ q.by = None
  <2>2. \/ gateway' = [armed |-> TRUE, stray |-> stray] \/ gateway' = gateway
        \/ gateway' = [armed |-> FALSE, stray |-> FALSE]
    BY <1>1
  <2> HIDE DEF stray
  <2>3. stray \in BOOLEAN
    BY <2>1 DEF stray
  <2>4. [armed |-> TRUE, stray |-> stray] \in [armed : BOOLEAN, stray : BOOLEAN]
    BY <2>3
  <2>5. [armed |-> FALSE, stray |-> FALSE] \in [armed : BOOLEAN, stray : BOOLEAN]
    OBVIOUS
  <2>6. CASE gateway' = gateway
    BY <1>2, <2>6
  <2> QED BY <2>2, <2>4, <2>5, <2>6
<1>5. faults' \in 0..may.faults /\ late' \in 0..may.late
  <2>1. may.faults \in Nat /\ may' = may
    BY <1>2, ConsoleAssumption DEF Typed, Held
  <2> QED BY <1>1, <1>2, <2>1 DEF Typed
<1>6. Released => Released' \/ (ok /\ q.op = "arm" /\ q.by # None)
  BY <1>1, <1>2 DEF Released
<1>7. ok /\ q.op = "disarm" => Released'
  BY <1>1 DEF Released
<1> HIDE DEF qs
<1> QED BY <1>1, <1>2, <1>3, <1>4, <1>5, <1>6, <1>7, AnsweringStep

LEMMA NotAnsweredStep ==
  ASSUME IInv, NEW i \in DOMAIN requests, Unreachable(i) \/ GivesUp(i) PROVE IInv'
<1>1. /\ Typed /\ gateway \in [armed : BOOLEAN, stray : BOOLEAN]
      /\ may.faults \in Nat /\ may.late \in Nat
  BY ConsoleAssumption DEF IInv, Typed
<1>2. /\ UNCHANGED <<ui, Held, events, gateway>>
      /\ \/ Answered(requests[i].by, FALSE, RemoveAt(requests, i))
         \/ Answered(requests[i].by, FALSE, [requests EXCEPT ![i].by = None])
  BY DEF Unreachable, GivesUp
<1>3. faults' \in 0..may.faults /\ late' \in 0..may.late
  <2>1. CASE Unreachable(i)
    <3>1. faults < may.faults /\ faults' = faults + 1 /\ late' = late
      BY <2>1 DEF Unreachable
    <3> QED BY <1>1, <3>1 DEF Typed
  <2>2. CASE GivesUp(i)
    <3>1. late < may.late /\ late' = late + 1 /\ faults' = faults
      BY <2>2 DEF GivesUp
    <3> QED BY <1>1, <3>1 DEF Typed
  <2> QED BY <2>1, <2>2
<1>4. Released' = Released
  BY <1>2 DEF Released
<1>5. PICK qs : Left(qs, i) /\ Answered(requests[i].by, FALSE, qs)
  BY <1>1, <1>2, LeftRemoved, LeftBehind
<1> QED BY <1>1, <1>2, <1>3, <1>4, <1>5, AnsweringStep

LEMMA StatusFailsStep == ASSUME IInv, StatusFails PROVE IInv'
<1>1. /\ Typed /\ UNCHANGED <<ui, Held, events, gateway, late>>
      /\ faults' \in 0..may.faults /\ may.faults \in Nat
      /\ gateway' \in [armed : BOOLEAN, stray : BOOLEAN] /\ late' \in 0..may.late
  <2>1. may.faults \in Nat /\ may.late \in Nat
    BY ConsoleAssumption DEF IInv, Typed
  <2> QED BY <2>1 DEF StatusFails, IInv, Typed
<1>2. Released' = Released
  BY <1>1 DEF Released
<1>3. CASE AtWork("asking") /\ Undone(requests) /\ UNCHANGED close
  <2>1. worker # Rest /\ worker.step = "asking" /\ requests \in Seq(RequestType)
    BY <1>1, <1>3 DEF AtWork, Rest, Typed, RequestType
  <2>2. \A k \in DOMAIN requests : requests[k].by = None
          \/ (requests[k].by = "close" /\ close = "posting" /\ requests[k].op = "disarm")
    BY <1>3, <2>1, NotAsking, RequestBy DEF IInv, Waited
  <2>3. \A j, k \in DOMAIN requests :
          requests[j].by = requests[k].by /\ requests[j].by # None => j = k
    BY DEF IInv, Waited
  <2>4. UNCHANGED <<ui, close, Held, events>>
    BY <1>1, <1>3
  <2> QED BY <1>1, <1>2, <1>3, <2>1, <2>2, <2>3, <2>4, UndoneKeeps
<1>4. CASE close = "asking" /\ close' = "open" /\ UNCHANGED <<worker, requests>>
  <2>1. Typed'
    BY <1>1, <1>4 DEF Typed, Held
  <2>2. \A k \in DOMAIN requests : requests[k].by # "close"
    BY <1>4 DEF IInv, Waited
  <2>3. ~ui.busy
    BY <1>4 DEF IInv, Shut
  <2>4. OneAction' /\ OfButton' /\ Shut' /\ Previewed'
    BY <1>1, <1>4, <2>3 DEF IInv, OneAction, OfButton, Shut, Previewed, Held
  <2>5. Waited'
    BY <1>4, <2>2 DEF IInv, Waited, AtWork
  <2>6. Confirmed' => Confirmed
    BY <1>1, <1>4 DEF Confirmed, FailedArmUndone, AtWork
  <2> QED BY <1>2, <2>1, <2>4, <2>5, <2>6 DEF IInv
<1> QED BY <1>3, <1>4 DEF StatusFails

-----------------------------------------------------------------------------
(* The window takes an event from the queue. *)

LEMMA DoneIs ==
  ASSUME NEW u \in UiType
  PROVE  /\ Done(u) \in UiType /\ Done(u).busy = FALSE
         /\ Done(u).source = u.source /\ Done(u).leaving = u.leaving
         /\ Done(u).hidden = u.hidden /\ Done(u).asked = u.asked /\ Done(u).viewed = u.viewed
         /\ Done(u).job = u.job
BY DEF Done, UiType

LEMMA KnownIs ==
  ASSUME NEW u \in UiType, NEW e \in EventType
  PROVE  /\ Known(u, e) \in UiType /\ Known(u, e).busy = u.busy
         /\ Known(u, e).source = u.source /\ Known(u, e).leaving = u.leaving
         /\ Known(u, e).hidden = u.hidden /\ Known(u, e).asked = u.asked
<1> DEFINE shown == IF e.armed THEN "armed" ELSE "free"
           job == IF u.job = 0 THEN e.job ELSE u.job
<1>1. shown \in {"unknown", "armed", "free"} /\ job \in Nat
  BY DEF UiType, EventType
<1>2. Known(u, e) = [u EXCEPT !.shown = shown, !.job = job]
  BY DEF Known
<1> HIDE DEF shown, job
<1> QED BY <1>1, <1>2 DEF UiType

LEMMA KnownDoneIs ==
  ASSUME NEW u \in UiType, NEW e \in EventType
  PROVE  LET d == Known(Done(u), e)
         IN  /\ d \in UiType /\ d.busy = FALSE /\ d.source = u.source /\ d.leaving = u.leaving
             /\ d.hidden = u.hidden /\ d.asked = u.asked
<1>1. PICK d \in UiType : d = Done(u)
  BY DoneIs
<1>2. d.busy = FALSE /\ d.source = u.source /\ d.leaving = u.leaving
      /\ d.hidden = u.hidden /\ d.asked = u.asked
  BY <1>1, DoneIs
<1>3. /\ Known(d, e) \in UiType /\ Known(d, e).busy = d.busy
      /\ Known(d, e).source = d.source /\ Known(d, e).leaving = d.leaving
      /\ Known(d, e).hidden = d.hidden /\ Known(d, e).asked = d.asked
  BY KnownIs
<1> QED BY <1>1, <1>2, <1>3

(* What an event may do to the window, v being what it shows then. *)
Does(u, e, v) ==
  /\ v \in UiType
  /\ v.busy = (u.busy /\ e.kind \notin Answers)
  /\ v.leaving => u.leaving /\ e.kind \notin {"arm", "disarm", "desktop"}
  /\ \/ v.source = u.source
     \/ v.source = "environment" /\ e.kind = "source" /\ e.ok
  /\ v.asked \in {None, u.asked}
  /\ e.kind = "media" /\ u.asked = e.item => v.asked = None
  /\ v.hidden => u.hidden \/ (e.ok /\ u.leaving /\ e.kind \in {"arm", "disarm", "desktop"})

LEMMA ActionDoes ==
  ASSUME NEW u \in UiType, NEW e \in EventType, e.kind \in {"arm", "disarm", "desktop"}
  PROVE  Does(u, e, ActionResult(u, e))
<1>1. e.kind \in Answers /\ e.kind # "media"
  BY DEF Answers, Releasing
<1>2. CASE ~e.ok
  <2> DEFINE d == Done(u)
             v == [d EXCEPT !.leaving = FALSE]
  <2>1. ActionResult(u, e) = v
    BY <1>2 DEF ActionResult
  <2>2. d \in UiType /\ d.busy = FALSE /\ d.source = u.source /\ d.hidden = u.hidden
        /\ d.asked = u.asked
    BY DoneIs
  <2> HIDE DEF d
  <2>3. /\ v \in UiType /\ v.busy = FALSE /\ v.source = u.source /\ v.hidden = u.hidden
        /\ v.asked = u.asked /\ v.leaving = FALSE
    BY <2>2 DEF UiType
  <2> HIDE DEF v
  <2> QED BY <1>1, <2>1, <2>3 DEF Does
<1>3. CASE e.ok
  <2> DEFINE d == Known(Done(u), e)
             v == [d EXCEPT !.leaving = FALSE, !.hidden = d.hidden \/ u.leaving]
  <2>1. ActionResult(u, e) = v
    BY <1>3 DEF ActionResult
  <2>2. d \in UiType /\ d.busy = FALSE /\ d.source = u.source /\ d.hidden = u.hidden
        /\ d.asked = u.asked
    BY KnownDoneIs
  <2> HIDE DEF d
  <2>3. (d.hidden \/ u.leaving) \in BOOLEAN
    BY <2>2 DEF UiType
  <2>4. /\ v \in UiType /\ v.busy = FALSE /\ v.source = u.source
        /\ v.hidden = (d.hidden \/ u.leaving)
        /\ v.asked = u.asked /\ v.leaving = FALSE
    BY <2>2, <2>3 DEF UiType
  <2> HIDE DEF v
  <2>5. v.hidden => u.hidden \/ u.leaving
    BY <2>2, <2>4
  <2> QED BY <1>1, <1>3, <2>1, <2>4, <2>5 DEF Does
<1> QED BY <1>2, <1>3

LEMMA SourceDoes ==
  ASSUME NEW u \in UiType, NEW e \in EventType, e.kind = "source"
  PROVE  Does(u, e, SourceResult(u, e))
<1>1. e.kind \in Answers /\ e.kind \notin {"arm", "disarm", "desktop", "media"}
  BY DEF Answers, Releasing
<1>2. CASE ~e.ok
  BY <1>1, <1>2, DoneIs DEF SourceResult, Does
<1>3. CASE e.ok
  <2> DEFINE d == Known(Done(u), e)
             v == [d EXCEPT !.source = "environment", !.asked = None, !.viewed = None]
  <2>1. SourceResult(u, e) = v
    BY <1>3 DEF SourceResult, Viewing
  <2>2. d \in UiType /\ d.busy = FALSE /\ d.leaving = u.leaving /\ d.hidden = u.hidden
    BY KnownDoneIs
  <2> HIDE DEF d
  <2>3. /\ v \in UiType /\ v.busy = FALSE /\ v.leaving = u.leaving /\ v.hidden = u.hidden
        /\ v.asked = None /\ v.source = "environment"
    BY <2>2 DEF UiType, Items
  <2> HIDE DEF v
  <2> QED BY <1>1, <1>3, <2>1, <2>3 DEF Does
<1> QED BY <1>2, <1>3

LEMMA JobTyped ==
  ASSUME NEW u \in UiType, NEW job \in Nat
  PROVE  /\ [u EXCEPT !.job = job] \in UiType
         /\ [u EXCEPT !.job = job].busy = u.busy /\ [u EXCEPT !.job = job].source = u.source
         /\ [u EXCEPT !.job = job].leaving = u.leaving /\ [u EXCEPT !.job = job].hidden = u.hidden
         /\ [u EXCEPT !.job = job].asked = u.asked
BY DEF UiType

(* What only drops or brings up a clip. *)
LEMMA JobDoes ==
  ASSUME NEW u \in UiType, NEW e \in EventType, NEW job \in Nat, NEW v,
         \/ /\ e.kind \in Answers \ {"arm", "disarm", "desktop"}
            /\ v \in {Done(u), [Done(u) EXCEPT !.job = job]}
         \/ e.kind = "job" /\ v \in {u, [u EXCEPT !.job = job]}
  PROVE  Does(u, e, v)
<1>1. /\ Done(u) \in UiType /\ Done(u).busy = FALSE /\ Done(u).source = u.source
      /\ Done(u).leaving = u.leaving /\ Done(u).hidden = u.hidden /\ Done(u).asked = u.asked
  BY DoneIs
<1>2. "media" \notin Answers /\ "job" \notin Answers
  BY DEF Answers, Releasing
<1> DEFINE d == Done(u)
<1>3. CASE v = d /\ e.kind \in Answers \ {"arm", "disarm", "desktop"}
  BY <1>1, <1>2, <1>3 DEF Does
<1>4. CASE v = [d EXCEPT !.job = job] /\ e.kind \in Answers \ {"arm", "disarm", "desktop"}
  <2> HIDE DEF d
  <2>1. d \in UiType
    BY <1>1 DEF d
  <2>2. /\ v \in UiType /\ v.busy = d.busy /\ v.source = d.source
        /\ v.leaving = d.leaving /\ v.hidden = d.hidden /\ v.asked = d.asked
    BY <1>4, <2>1, JobTyped
  <2> QED BY <1>1, <1>2, <1>4, <2>2 DEF Does, d
<1>5. CASE e.kind = "job" /\ v = u
  BY <1>2, <1>5 DEF Does, UiType
<1>6. CASE e.kind = "job" /\ v = [u EXCEPT !.job = job]
  <2>1. /\ v \in UiType /\ v.busy = u.busy /\ v.source = u.source
        /\ v.leaving = u.leaving /\ v.hidden = u.hidden /\ v.asked = u.asked
    BY <1>6, JobTyped
  <2>2. u.busy \in BOOLEAN
    BY DEF UiType
  <2> QED BY <1>2, <1>6, <2>1, <2>2 DEF Does
<1> QED BY <1>3, <1>4, <1>5, <1>6

LEMMA ModeDoes ==
  ASSUME NEW u \in UiType, NEW e \in EventType, e.kind = "mode"
  PROVE  Does(u, e, ModeResult(u, e))
<1>1. e.kind \in Answers /\ e.kind \notin {"arm", "disarm", "desktop", "media"}
  BY DEF Answers, Releasing
<1> DEFINE v == ModeResult(u, e)
<1>2. /\ v \in UiType /\ v.busy = FALSE /\ v.source = u.source
      /\ v.leaving = u.leaving /\ v.hidden = u.hidden /\ v.asked = u.asked
  BY DoneIs, KnownDoneIs DEF ModeResult
<1> HIDE DEF v
<1>3. Does(u, e, v)
  BY <1>1, <1>2 DEF Does
<1> QED BY <1>3 DEF v

LEMMA StatusDoes ==
  ASSUME NEW u \in UiType, NEW e \in EventType, e.kind = "status"
  PROVE  Does(u, e, Known(u, e))
<1>1. e.kind \notin Answers /\ e.kind # "media" /\ u.busy \in BOOLEAN
  BY DEF Answers, Releasing, UiType
<1> DEFINE v == Known(u, e)
<1>2. /\ v \in UiType /\ v.busy = u.busy /\ v.source = u.source
      /\ v.leaving = u.leaving /\ v.hidden = u.hidden /\ v.asked = u.asked
  BY KnownIs
<1> HIDE DEF v
<1>3. Does(u, e, v)
  BY <1>1, <1>2 DEF Does
<1> QED BY <1>3 DEF v

LEMMA MediaDoes ==
  ASSUME NEW u \in UiType, NEW e \in EventType, e.kind = "media"
  PROVE  Does(u, e, MediaResult(u, e))
<1>1. e.kind \notin Answers /\ u.busy \in BOOLEAN
  BY DEF Answers, Releasing, UiType
<1>2. CASE u.asked # e.item
  BY <1>1, <1>2 DEF Does, MediaResult
<1>3. CASE u.asked = e.item
  <2> DEFINE viewed == IF e.ok THEN e.item ELSE u.viewed
             v == [u EXCEPT !.asked = None, !.viewed = viewed]
  <2>1. viewed \in Items
    BY DEF UiType, EventType
  <2>2. MediaResult(u, e) = v
    BY <1>3 DEF MediaResult
  <2> HIDE DEF viewed
  <2>3. /\ v \in UiType /\ v.busy = u.busy /\ v.source = u.source
        /\ v.leaving = u.leaving /\ v.hidden = u.hidden /\ v.asked = None
    BY <2>1 DEF UiType, Items
  <2> HIDE DEF v
  <2> QED BY <1>1, <2>2, <2>3 DEF Does
<1> QED BY <1>2, <1>3

LEMMA StorageDoes ==
  ASSUME NEW u \in UiType, NEW e \in EventType, e.kind = "storage"
  PROVE  Does(u, e, StorageResult(u, e))
<1>1. e.kind \notin Answers /\ e.kind # "media" /\ u.busy \in BOOLEAN
  BY DEF Answers, Releasing, UiType
<1> DEFINE gone == u.viewed # None /\ u.viewed = e.item
           viewed == IF gone THEN None ELSE u.viewed
           asked == IF gone THEN None ELSE u.asked
           job == IF u.job = 0 THEN e.job ELSE u.job
           v == [u EXCEPT !.listing = FALSE, !.viewed = viewed, !.asked = asked, !.job = job]
           w == [u EXCEPT !.listing = FALSE]
<1>2. viewed \in Items /\ asked \in {None, u.asked} /\ asked \in Items /\ job \in Nat
  BY DEF UiType, EventType, Items
<1>3. StorageResult(u, e) \in {v, w}
  BY DEF StorageResult
<1> HIDE DEF viewed, asked, job
<1>4. /\ v \in UiType /\ v.busy = u.busy /\ v.source = u.source
      /\ v.leaving = u.leaving /\ v.hidden = u.hidden /\ v.asked = asked
  BY <1>2 DEF UiType
<1>5. /\ w \in UiType /\ w.busy = u.busy /\ w.source = u.source
      /\ w.leaving = u.leaving /\ w.hidden = u.hidden /\ w.asked = u.asked
  BY DEF UiType
<1> HIDE DEF v, w
<1>6. Does(u, e, v)
  BY <1>1, <1>2, <1>4 DEF Does
<1>7. Does(u, e, w)
  BY <1>1, <1>5 DEF Does
<1> QED BY <1>3, <1>6, <1>7

LEMMA AppliedDoes ==
  ASSUME NEW u \in UiType, NEW e \in EventType PROVE Does(u, e, Applied(u, e))
<1>1. CASE e.kind = "status"
  BY <1>1, StatusDoes DEF Applied
<1>2. CASE e.kind \in {"arm", "disarm", "desktop"}
  BY <1>2, ActionDoes DEF Applied
<1>3. CASE e.kind = "source"
  BY <1>3, SourceDoes DEF Applied
<1>4. CASE e.kind = "mode"
  BY <1>4, ModeDoes DEF Applied
<1>5. CASE e.kind = "toggle"
  <2> DEFINE job == IF e.ok /\ Done(u).job = 0 THEN e.job ELSE Done(u).job
  <2>1. job \in Nat /\ e.kind \in Answers \ {"arm", "disarm", "desktop"}
    BY <1>5, DoneIs DEF UiType, EventType, Answers
  <2>2. Applied(u, e) = [Done(u) EXCEPT !.job = job]
    BY <1>5 DEF Applied, ToggleResult
  <2> HIDE DEF job
  <2> QED BY <2>1, <2>2, JobDoes
<1>6. CASE e.kind \in {"start", "stop"}
  <2> DEFINE job == IF e.kind = "start" THEN e.job ELSE IF e.over THEN 0 ELSE Done(u).job
  <2>1. job \in Nat /\ e.kind \in Answers \ {"arm", "disarm", "desktop"}
    BY <1>6, DoneIs DEF UiType, EventType, Answers
  <2>2. Applied(u, e) = ClipResult(u, e)
    BY <1>6 DEF Applied
  <2>3. Applied(u, e) \in {Done(u), [Done(u) EXCEPT !.job = job]}
    BY <1>6, <2>2 DEF ClipResult
  <2> HIDE DEF job
  <2> QED BY <2>1, <2>3, JobDoes
<1>7. CASE e.kind = "job"
  <2>1. Applied(u, e) \in {u, [u EXCEPT !.job = 0]}
    BY <1>7 DEF Applied, JobResult
  <2> QED BY <1>7, <2>1, JobDoes
<1>8. CASE e.kind = "media"
  BY <1>8, MediaDoes DEF Applied
<1>9. CASE e.kind = "storage"
  BY <1>9, StorageDoes DEF Applied
<1>10. CASE e.kind \in {"screenshot", "snapshot"}
  <2>1. Applied(u, e) = Done(u) /\ e.kind \in Answers \ {"arm", "disarm", "desktop"}
    BY <1>10 DEF Applied, Answers
  <2> QED BY <2>1, JobDoes
<1>11. e.kind \in Kinds
  BY DEF EventType
<1> QED BY <1>1, <1>2, <1>3, <1>4, <1>5, <1>6, <1>7, <1>8, <1>9, <1>10, <1>11
        DEF Kinds, Answers, Releasing

LEMMA RefreshedDoes ==
  ASSUME NEW u \in UiType, NEW e \in EventType, NEW v, Does(u, e, v)
  PROVE  Does(u, e, Refreshed(v))
<1> DEFINE w == [v EXCEPT !.listing = TRUE]
<1>1. v \in UiType
  BY DEF Does
<1>2. /\ w \in UiType /\ w.busy = v.busy /\ w.source = v.source
      /\ w.leaving = v.leaving /\ w.hidden = v.hidden /\ w.asked = v.asked
  BY <1>1 DEF UiType
<1> HIDE DEF w
<1>3. Does(u, e, w)
  BY <1>2 DEF Does
<1> QED BY <1>3 DEF Refreshed, w

(* The event leaves the queue and does what it does. *)
LEMMA DrainIs ==
  ASSUME IInv, Drain
  PROVE  /\ events \in Seq(EventType) /\ events # <<>> /\ events[1] \in EventType
         /\ 1 \in DOMAIN events /\ events' = Tail(events) /\ close = "open"
         /\ Does(ui, events[1], ui') /\ listers' \in Nat
         /\ UNCHANGED <<close, worker, readers, poll, gateway, requests, camera, may, faults, late>>
<1>1. /\ events \in Seq(EventType) /\ ui \in UiType /\ listers \in Nat /\ events # <<>>
      /\ events' = Tail(events) /\ close = "open"
      /\ UNCHANGED <<close, worker, readers, poll, gateway, requests, camera, may, faults, late>>
  BY DEF IInv, Typed, Drain
<1>2. events[1] \in EventType /\ Head(events) = events[1] /\ 1 \in DOMAIN events
  BY <1>1, Shortened
<1> DEFINE v == Applied(ui, events[1])
<1>3. /\ ui' = v \/ ui' = Refreshed(v)
      /\ listers' = listers \/ \E u : Listing(u)
  BY <1>2 DEF Drain
<1>4. listers' \in Nat
  BY <1>1, <1>3 DEF Listing
<1>5. Does(ui, events[1], v)
  BY <1>1, <1>2, AppliedDoes
<1> HIDE DEF v
<1>6. Does(ui, events[1], ui')
  BY <1>1, <1>2, <1>3, <1>5, RefreshedDoes
<1> QED BY <1>1, <1>2, <1>4, <1>6

LEMMA DrainStep == ASSUME IInv, Drain PROVE IInv'
<1> DEFINE e == events[1]
<1>1. /\ events \in Seq(EventType) /\ events # <<>> /\ e \in EventType
      /\ 1 \in DOMAIN events /\ events' = Tail(events) /\ close = "open"
      /\ Does(ui, e, ui') /\ listers' \in Nat
      /\ UNCHANGED <<close, worker, readers, poll, gateway, requests, camera, may, faults, late>>
  BY DrainIs
<1>2. /\ Tail(events) \in Seq(EventType) /\ Len(events) \in Nat /\ Len(events') = Len(events) - 1
      /\ \A i \in DOMAIN events' : /\ i + 1 \in DOMAIN events /\ events'[i] = events[i + 1]
                                   /\ i \in Nat /\ i > 0
      /\ \A i \in DOMAIN events : i = 1 \/ (i - 1 \in DOMAIN events' /\ events'[i - 1] = events[i])
  BY <1>1, Shortened
<1> HIDE DEF e
<1>3. Typed'
  <2>1. ui' \in UiType
    BY <1>1 DEF Does
  <2>2. Len(events') <= QueueSize
    BY <1>2, ConsoleAssumption DEF IInv, Typed
  <2> QED BY <1>1, <1>2, <2>1, <2>2 DEF IInv, Typed
(* What was in the queue beyond the event, and only that, is still there. *)
<1>4. \A i \in DOMAIN events' : \E j \in DOMAIN events : j # 1 /\ events'[i] = events[j]
  BY <1>2
<1>5. \A j \in DOMAIN events : j # 1 => \E i \in DOMAIN events' : events'[i] = events[j]
  BY <1>2
<1>6. /\ ui.busy <=> worker # Rest \/ \E i \in DOMAIN events : events[i].kind \in Answers
      /\ worker # Rest =>
           /\ worker.result.kind = worker.op
           /\ \A i \in DOMAIN events : events[i].kind \notin Answers
      /\ \A i, j \in DOMAIN events :
           events[i].kind \in Answers /\ events[j].kind \in Answers => i = j
      /\ ui.busy \in BOOLEAN /\ ui'.busy = (ui.busy /\ e.kind \notin Answers)
  BY <1>1 DEF IInv, OneAction, Typed, UiType, Does
<1>7. OneAction'
  <2>1. CASE e.kind \in Answers
    <3>1. worker = Rest /\ ~ui'.busy
      BY <1>1, <1>6, <2>1 DEF e
    <3>2. \A i \in DOMAIN events' : events'[i].kind \notin Answers
      BY <1>1, <1>4, <1>6, <2>1 DEF e
    <3> QED BY <1>1, <3>1, <3>2 DEF OneAction
  <2>2. CASE e.kind \notin Answers
    <3>1. ui'.busy = ui.busy
      BY <1>6, <2>2
    <3>2. (\E i \in DOMAIN events' : events'[i].kind \in Answers)
          <=> \E j \in DOMAIN events : events[j].kind \in Answers
      BY <1>4, <1>5, <2>2 DEF e
    <3>3. worker # Rest =>
            /\ worker.result.kind = worker.op
            /\ \A i \in DOMAIN events' : events'[i].kind \notin Answers
      BY <1>4, <1>6
    <3>4. \A i, j \in DOMAIN events' :
            events'[i].kind \in Answers /\ events'[j].kind \in Answers => i = j
      <4> SUFFICES ASSUME NEW i \in DOMAIN events', NEW j \in DOMAIN events',
                          events'[i].kind \in Answers, events'[j].kind \in Answers
                   PROVE  i = j
        OBVIOUS
      <4>1. i + 1 = j + 1
        BY <1>2, <1>6
      <4> QED BY <1>2, <4>1
    <3> QED BY <1>1, <1>6, <3>1, <3>2, <3>3, <3>4 DEF OneAction
  <2> QED BY <2>1, <2>2
<1>8. OfButton'
  <2>1. ASSUME ui'.leaving
        PROVE  /\ ui'.busy /\ (worker # Rest => worker.op = "desktop")
               /\ \A i \in DOMAIN events' : events'[i].kind \in Answers => events'[i].kind = "desktop"
    <3>1. ui.leaving /\ e.kind \notin {"arm", "disarm", "desktop"}
      BY <1>1, <2>1 DEF Does
    <3>2. /\ ui.busy /\ (worker # Rest => worker.op = "desktop")
          /\ \A i \in DOMAIN events : events[i].kind \in Answers => events[i].kind = "desktop"
      BY <3>1 DEF IInv, OfButton
    <3>3. e.kind \notin Answers
      BY <1>1, <3>1, <3>2 DEF e
    <3> QED BY <1>4, <1>6, <3>2, <3>3
  <2>2. ASSUME ui'.source = "environment", worker # Rest
        PROVE  worker.op # "arm"
    <3>1. e.kind \notin Answers
      BY <1>1, <1>6, <2>2 DEF e
    <3>2. ui'.source = ui.source
      BY <1>1, <3>1 DEF Does, Answers, Releasing
    <3> QED BY <2>2, <3>2 DEF IInv, OfButton
  <2> QED BY <1>1, <2>1, <2>2 DEF OfButton
<1>9. Shut' /\ Waited'
  BY <1>1 DEF IInv, Shut, Waited, AtWork
<1>10. Previewed'
  <2> SUFFICES ASSUME ui'.asked # None
               PROVE  \/ readers'[ui'.asked] > 0
                      \/ \E i \in DOMAIN events' :
                           events'[i].kind = "media" /\ events'[i].item = ui'.asked
    BY DEF Previewed
  <2>1. ui'.asked = ui.asked /\ ~(e.kind = "media" /\ e.item = ui.asked)
    BY <1>1 DEF Does
  <2>2. \/ readers[ui.asked] > 0
        \/ \E j \in DOMAIN events : events[j].kind = "media" /\ events[j].item = ui.asked
    BY <1>1, <2>1 DEF IInv, Previewed
  <2> QED BY <1>1, <1>5, <2>1, <2>2 DEF e
<1>11. Confirmed' => Confirmed
  <2>1. ui'.source = "environment" => ui.source = "environment" \/ (e.kind \in Releasing /\ e.ok)
    BY <1>1 DEF Does, Releasing
  <2> QED BY <1>1, <1>4, <2>1 DEF Confirmed, FailedArmUndone, AtWork, e
<1>12. Released' = Released
  BY <1>1 DEF Released
<1> QED BY <1>3, <1>7, <1>8, <1>9, <1>10, <1>11, <1>12 DEF IInv

(* The window goes to the desktop by the disarm it was to wait for. *)
LEMMA DrainHides == ASSUME IInv, Drain, ~ui.hidden, ui'.hidden PROVE Released
<1> DEFINE e == events[1]
<1>1. 1 \in DOMAIN events /\ Does(ui, e, ui')
  BY DrainIs
<1>2. e.ok /\ ui.leaving /\ e.kind \in {"arm", "disarm", "desktop"}
  BY <1>1 DEF Does
<1>3. e.kind = "desktop"
  BY <1>1, <1>2 DEF IInv, OfButton, Answers, Releasing
<1> QED BY <1>1, <1>2, <1>3 DEF IInv, Confirmed, Releasing

-----------------------------------------------------------------------------
(* Every step. *)

LEMMA StepIInv == IInv /\ [Next]_vars => IInv'
<1> SUFFICES ASSUME IInv, [Next]_vars PROVE IInv'
  OBVIOUS
<1>1. CASE Operator
  <2>1. CASE \/ Arm \/ Disarm \/ Desktop \/ SelectMode \/ ToggleCamera \/ Snapshot \/ Clip
             \/ ChooseEnvironment
    BY <2>1, ButtonsStep
  <2>2. CASE Screenshot
    BY <2>2, ScreenshotStep
  <2>3. CASE Close
    BY <2>3, CloseStep
  <2>4. CASE RefreshStorage
    BY <2>4, RefreshStorageStep
  <2>5. CASE ChooseTarget \/ ClosePreview \/ Reopen
    BY <2>5, LookStep
  <2>6. CASE \E i \in Media : Preview(i)
    BY <2>6, PreviewStep
  <2> QED BY <1>1, <2>1, <2>2, <2>3, <2>4, <2>5, <2>6 DEF Operator
<1>2. CASE Gateway
  BY <1>2, HandlesStep, NotAnsweredStep DEF Gateway
<1>3. CASE Work
  BY <1>3, EntersStep, StatusAnsweredStep, CameraOpsStep DEF Work
<1>4. CASE StatusFails \/ AnswerBreaks
  BY <1>4, StatusFailsStep, AnswerBreaksStep
<1>5. CASE HandsBack
  BY <1>5, HandsBackStep
<1>6. CASE CameraGoesOn
  BY <1>6, CameraStep
<1>7. CASE WorkerOffers
  BY <1>7, WorkerOffersStep
<1>8. CASE ListerOffers
  BY <1>8, ListerOffersStep
<1>9. CASE PollAsks
  BY <1>9, PollAsksStep
<1>10. CASE PollOffers \/ PollDies
  BY <1>10, PollOffersStep, PollDiesStep
<1>11. CASE Drain
  BY <1>11, DrainStep
<1>12. CASE \E i \in Media : ReaderOffers(i)
  BY <1>12, ReaderOffersStep
<1>13. CASE UNCHANGED vars
  <2>1. Typed' /\ OneAction' /\ OfButton' /\ Shut'
    BY <1>13 DEF IInv, vars, Typed, OneAction, OfButton, Shut
  <2>2. Waited' /\ Previewed' /\ (Confirmed' => Released')
    BY <1>13 DEF IInv, vars, Waited, Previewed, Confirmed, Released, FailedArmUndone, AtWork
  <2> QED BY <2>1, <2>2 DEF IInv
<1> QED BY <1>1, <1>2, <1>3, <1>4, <1>5, <1>6, <1>7, <1>8, <1>9, <1>10, <1>11, <1>12, <1>13
        DEF Next

(* No other step brings the window to the desktop. *)
LEMMA OthersHide == ASSUME IInv, Next, ~Drain, ui'.hidden PROVE ui.hidden
<1>1. ui \in UiType
  BY DEF IInv, Typed
<1>2. CASE Operator
  <2>1. CASE \/ Arm \/ Disarm \/ Desktop \/ SelectMode \/ ToggleCamera \/ Snapshot \/ Clip
             \/ ChooseEnvironment \/ Screenshot
    <3>1. ui'.hidden = ui.hidden
      <4>1. \/ ui' = [ui EXCEPT !.busy = TRUE]
            \/ ui' = [ui EXCEPT !.busy = TRUE, !.leaving = TRUE]
        BY <2>1 DEF Arm, Disarm, Desktop, SelectMode, ToggleCamera, Snapshot, Clip,
                    ChooseEnvironment, Screenshot
      <4> QED BY <1>1, <4>1 DEF UiType
    <3> QED BY <3>1
  <2>2. CASE Close
    BY <2>2 DEF Close
  <2>3. CASE RefreshStorage
    BY <1>1, <2>3 DEF RefreshStorage, Refreshed, UiType
  <2>4. CASE ChooseTarget \/ ClosePreview \/ Reopen
    BY <1>1, <2>4 DEF ChooseTarget, ClosePreview, Reopen, Viewing, UiType
  <2>5. CASE \E i \in Media : Preview(i)
    BY <1>1, <2>5 DEF Preview, UiType
  <2> QED BY <1>2, <2>1, <2>2, <2>3, <2>4, <2>5 DEF Operator
<1>3. CASE ~Operator
  <2>1. UNCHANGED ui
    BY <1>3 DEF Next, Gateway, Handles, Unreachable, GivesUp, Work, Enters, StatusAnswered,
                Starts, Stops, CameraEnds, ModeEnds, StatusFails, AnswerBreaks, HandsBack, CameraGoesOn,
                WorkerOffers, ListerOffers, PollAsks, PollOffers, PollDies, ReaderOffers
  <2> QED BY <2>1
<1> QED BY <1>2, <1>3

LEMMA Invariant == Spec => []IInv
<1>1. IInv /\ [Next]_vars => IInv'
  BY StepIInv
<1> QED BY InitIInv, <1>1, PTL DEF Spec

-----------------------------------------------------------------------------
(* The theorems. *)

(* The queue and the budgets keep their bounds, whatever QueueSize is; an     *)
(* action is begun neither while _close waits for the gateway nor after it.   *)
THEOREM Typing == Spec => []TypeOK
<1>1. IInv => TypeOK
  <2> SUFFICES ASSUME IInv PROVE TypeOK
    OBVIOUS
  <2>1. worker # Rest => ui.busy
    BY DEF IInv, OneAction
  <2>2. InGate => worker # Rest
    BY DEF InGate, Rest
  <2> QED BY <2>1, <2>2 DEF IInv, Typed, Shut, TypeOK
<1> QED BY Invariant, <1>1, PTL

(* action_inflight (set by a button, cleared by _drain_events) is up exactly  *)
(* while the action's thread or its result in the queue is still to come, and *)
(* a preview asked for is on its way: with any number of other events, of any *)
(* threads, in a queue of any size.                                           *)
THEOREM NothingIsStranded == Spec => []NothingStranded
<1>1. IInv => NothingStranded
  BY DEF IInv, OneAction, Previewed, NothingStranded
<1> QED BY Invariant, <1>1, PTL

(* A target the console says is released (_close, the environment view, an    *)
(* arm that failed and was undone by GatewayClient.arm) is out of reach of    *)
(* the appliance's keyboard, unless an arm it gave up was carried out since:  *)
(* however many requests fail, come late or are overtaken.                    *)
THEOREM ReleasedAsSaid == Spec => []SaysReleased
<1>1. IInv => SaysReleased
  BY DEF IInv, Confirmed, SaysReleased
<1> QED BY Invariant, <1>1, PTL

(* The window is brought to the desktop (_return_to_desktop) only when the    *)
(* target is released, whatever actions failed before.                        *)
THEOREM HiddenIsReleased == Spec => HidesReleased
<1>1. IInv /\ [Next]_vars => (~ui.hidden /\ ui'.hidden => Released) \/ UNCHANGED vars
  <2> SUFFICES ASSUME IInv, Next, ~ui.hidden, ui'.hidden PROVE Released
    OBVIOUS
  <2> QED BY DrainHides, OthersHide
<1>2. IInv /\ [Next]_vars => [~ui.hidden /\ ui'.hidden => Released]_vars
  BY <1>1
<1> QED BY Invariant, <1>2, PTL DEF Spec, HidesReleased
=============================================================================
