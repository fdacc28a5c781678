------------------------- MODULE SerialSessionProofs -------------------------
(***************************************************************************)
(* Theorems about the serial link (SerialSession), for any number of        *)
(* callers, sessions and faults.                                           *)
(***************************************************************************)
EXTENDS SerialSession, TLAPS, FiniteSetTheorems, SequenceTheorems

---------------------------------------------------------
(* The inductive invariant. *)

Whos      == Callers \cup {"handshake", "heartbeat"}
Answers   == {"ok", "nack", "unavailable", "interrupted", "unknown"}
Places    == Waiting \cup {"idle", "busy"} \cup Answers
LineType  == [sid : Nat, seq : Nat, op : {"junk", "session", "heartbeat", "input", "release"},
              unit : {None} \cup (Inputs \X Nat), gen : Nat \cup {None}]
MessageType == [kind : {"ack", "nack", "bare", "junk", "released", "restarted"},
                sid : Nat, seq : Nat]
ExchangeType == [who : Whos, gen : Nat \cup {None}, sid : Nat, attempt : 0..2,
                 nacked : BOOLEAN, lines : Seq(LineType), answered : SUBSET Nat]
LinkType == [phase : {"down", "handshake", "up", "failed"}, ready : BOOLEAN,
             disconnect : BOOLEAN, acknowledged : BOOLEAN, reading : BOOLEAN,
             sid : Nat, sessions : 0..MaxSessions, generation : Nat]
PicoType == [sid : Nat, cache : Seq(MessageType), down : SUBSET LineType]

Typed ==
  /\ link \in LinkType
  /\ sequence \in 0..(Modulus - 1)
  /\ pc \in [Callers -> Places]
  /\ asked \in [Callers -> Nat] /\ done \in [Inputs -> Nat]
  /\ public \in Seq(Inputs) /\ wire \in Seq(ExchangeType)
  /\ toPico \in Seq(LineType) /\ toGateway \in Seq(MessageType)
  /\ pico \in PicoType
  /\ executed \in Seq(LineType) /\ fence \in Nat /\ faults \in Nat

(* The session there is: it is the last one opened, and ready only when up. *)
Current ==
  /\ link.ready => link.phase = "up"
  /\ link.phase # "down" => link.sid = link.sessions /\ link.sid > 0
  /\ link.phase = "down" => link.sid = 0

(* The wire is used by one exchange at a time, the others have not begun. *)
OneAtATime ==
  /\ \A i, j \in DOMAIN wire : wire[i].who = wire[j].who => i = j
  /\ \A i \in DOMAIN wire : wire[i].attempt > 0 => i = 1
  /\ \A i \in DOMAIN wire : wire[i].attempt = 0 => wire[i].answered = {}
  /\ \A i \in DOMAIN wire : wire[i].who = "handshake" =>
       link.phase = "handshake" /\ wire[i].sid = link.sid

(* Every exchange and every line is of a session that was opened. *)
Addressed ==
  /\ \A i \in DOMAIN wire :
       /\ wire[i].sid \in 1..link.sessions /\ wire[i].lines # <<>>
       /\ \A k \in DOMAIN wire[i].lines :
            wire[i].lines[k].sid = wire[i].sid /\ wire[i].lines[k].op # "junk"
  /\ \A i \in DOMAIN toPico :
       toPico[i].op # "junk" => toPico[i].sid \in 1..link.sessions
  /\ pico.sid \in 0..link.sessions

(* A caller holds the locks that its place says, in the order of arrival. *)
Queued ==
  /\ \A i \in DOMAIN wire : wire[i].who \in Callers => pc[wire[i].who] = "wire"
  /\ \A i, j \in DOMAIN public : public[i] = public[j] => i = j
  /\ \A i \in DOMAIN public :
       pc[public[i]] = "public" \/ (i = 1 /\ pc[public[i]] = "wire")
  /\ \A c \in Inputs : pc[c] = "public" => \E i \in DOMAIN public : public[i] = c
  /\ \A c \in Inputs : pc[c] = "wire" => public # <<>> /\ public[1] = c

(* No more commands wait than may. *)
Limited ==
  /\ IsFiniteSet({c \in Inputs : pc[c] \in Waiting})
  /\ Cardinality({c \in Inputs : pc[c] \in Waiting}) <= MaxPending
  /\ Len(pico.cache) <= CacheSize

(* What is acknowledged of a command, and what of it is on the wire. *)
Portions ==
  /\ \A c \in Inputs :
       /\ done[c] <= Size[c]
       /\ pc[c] \in Waiting \cup {"idle"} =>
            done[c] < Size[c] /\ (c \in Batches => done[c] = 0)
  /\ \A i \in DOMAIN wire : wire[i].who \in Inputs =>
       Len(wire[i].lines) = IF wire[i].who \in Batches THEN Size[wire[i].who] ELSE 1

(* A generation that was given is not ahead, and it has passed when the session
   of an exchange that has begun is no longer the one that is ready. *)
Fates ==
  /\ \A c \in Callers : asked[c] <= link.generation
  /\ fence <= link.generation
  /\ \A c \in Callers : pc[c] = "unknown" => asked[c] < link.generation
  /\ \A i \in DOMAIN wire : wire[i].attempt > 0 /\ wire[i].who \in Callers =>
       (link.ready /\ link.sid = wire[i].sid) \/ asked[wire[i].who] < link.generation

(* The lines to the Pico come in the order of their sessions. *)
Sorted ==
  /\ \A i, j \in DOMAIN toPico :
       i < j /\ toPico[i].op # "junk" /\ toPico[j].op # "junk" =>
         toPico[i].sid <= toPico[j].sid
  /\ \A i \in DOMAIN toPico : toPico[i].op = "junk" => toPico[i] = Spoilt

(* The Pico has come to session s, and nothing of an earlier one can follow. *)
Reached(s) ==
  /\ s <= link.sessions
  /\ pico.sid = 0 \/ s <= pico.sid
  /\ \A i \in DOMAIN toPico : toPico[i].op # "junk" => s <= toPico[i].sid

(* Whatever names a session in an answer shows that the Pico has come to it. *)
Told ==
  /\ \A i \in DOMAIN toGateway : Reached(toGateway[i].sid)
  /\ \A i \in DOMAIN pico.cache : Reached(pico.cache[i].sid)
  /\ \A i \in DOMAIN wire : wire[i].answered # {} => Reached(wire[i].sid)
  /\ link.ready => Reached(link.sid)

(* What is down was pressed in the session the Pico has. *)
DownIsOwn == \A line \in pico.down : line.sid = pico.sid /\ pico.sid > 0

IInv ==
  /\ Typed /\ Current /\ OneAtATime /\ Addressed /\ Queued /\ Limited /\ Portions
  /\ Fates /\ Sorted /\ Told /\ DownIsOwn

---------------------------------------------------------
(* Sequences as queues. *)

LEMMA Appended ==
  ASSUME NEW S, NEW s \in Seq(S), NEW e \in S
  PROVE  /\ Append(s, e) \in Seq(S)
         /\ Len(Append(s, e)) = Len(s) + 1
         /\ DOMAIN Append(s, e) = DOMAIN s \cup {Len(s) + 1}
         /\ DOMAIN s = 1..Len(s)
         /\ \A i \in DOMAIN s : Append(s, e)[i] = s[i]
         /\ Append(s, e)[Len(s) + 1] = e
BY AppendProperties, LenProperties

LEMMA Shortened ==
  ASSUME NEW S, NEW s \in Seq(S), s # <<>>
  PROVE  /\ Head(s) = s[1] /\ s[1] \in S
         /\ Tail(s) \in Seq(S)
         /\ Len(s) \in Nat /\ Len(s) > 0 /\ Len(Tail(s)) = Len(s) - 1
         /\ DOMAIN s = 1..Len(s)
         /\ DOMAIN Tail(s) = 1..(Len(s) - 1)
         /\ \A i \in DOMAIN Tail(s) : i + 1 \in DOMAIN s /\ Tail(s)[i] = s[i + 1]
BY HeadTailProperties, LenProperties, EmptySeq

LEMMA NotEmpty ==
  ASSUME NEW S, NEW s \in Seq(S), s # <<>>
  PROVE  /\ DOMAIN s = 1..Len(s) /\ Len(s) \in Nat /\ Len(s) > 0
         /\ 1 \in DOMAIN s /\ s[1] \in S /\ Head(s) = s[1]
BY HeadTailProperties, LenProperties, EmptySeq

LEMMA Replaced ==
  ASSUME NEW S, NEW s \in Seq(S), s # <<>>, NEW e \in S
  PROVE  /\ [s EXCEPT ![1] = e] \in Seq(S)
         /\ DOMAIN [s EXCEPT ![1] = e] = DOMAIN s
         /\ DOMAIN s = 1..Len(s)
         /\ 1 \in DOMAIN s
         /\ [s EXCEPT ![1] = e][1] = e
         /\ \A i \in DOMAIN s : i # 1 => [s EXCEPT ![1] = e][i] = s[i]
BY ExceptSeq, LenProperties, EmptySeq

LEMMA Joined ==
  ASSUME NEW S, NEW s \in Seq(S), NEW t \in Seq(S)
  PROVE  /\ s \o t \in Seq(S)
         /\ DOMAIN s = 1..Len(s) /\ DOMAIN t = 1..Len(t)
         /\ Len(s \o t) = Len(s) + Len(t)
         /\ DOMAIN (s \o t) = 1..(Len(s) + Len(t))
         /\ \A i \in DOMAIN s : (s \o t)[i] = s[i]
         /\ \A i \in DOMAIN (s \o t) :
              i \notin DOMAIN s => i - Len(s) \in DOMAIN t /\ (s \o t)[i] = t[i - Len(s)]
<1>1. Len(s) \in Nat /\ Len(t) \in Nat
  BY LenProperties
<1> QED BY <1>1, ConcatProperties, LenProperties

LEMMA Removed ==
  ASSUME NEW S, NEW s \in Seq(S), NEW k \in DOMAIN s
  PROVE  /\ RemoveAt(s, k) \in Seq(S)
         /\ DOMAIN s = 1..Len(s) /\ Len(s) \in Nat
         /\ DOMAIN RemoveAt(s, k) = 1..(Len(s) - 1)
         /\ \A i \in 1..(Len(s) - 1) :
              RemoveAt(s, k)[i] = IF i < k THEN s[i] ELSE s[i + 1]
<1>1. DOMAIN s = 1..Len(s) /\ Len(s) \in Nat /\ k \in 1..Len(s)
  BY LenProperties
<1>2. \A i \in 1..Len(s) : s[i] \in S
  BY ElementOfSeq
<1> DEFINE a == SubSeq(s, 1, k - 1)
           b == SubSeq(s, k + 1, Len(s))
<1>3. a \in Seq(S) /\ Len(a) = k - 1 /\ \A i \in 1..(k - 1) : a[i] = s[i]
  <2>1. k - 1 \in Int /\ \A i \in 1..(k - 1) : s[i] \in S
    BY <1>1, <1>2
  <2> QED BY <1>1, <2>1, SubSeqProperties
<1>4. b \in Seq(S) /\ Len(b) = Len(s) - k /\ \A i \in 1..(Len(s) - k) : b[i] = s[i + k]
  <2>1. k + 1 \in Int /\ \A i \in (k + 1)..Len(s) : s[i] \in S
    BY <1>1, <1>2
  <2> QED BY <1>1, <2>1, SubSeqProperties
<1>5. RemoveAt(s, k) = a \o b
  BY DEF RemoveAt
<1> HIDE DEF a, b
<1>6. /\ a \o b \in Seq(S) /\ Len(a \o b) = Len(s) - 1
      /\ \A i \in 1..(Len(s) - 1) : (a \o b)[i] = IF i <= k - 1 THEN a[i] ELSE b[i - (k - 1)]
  <2>1. /\ a \o b \in Seq(S) /\ Len(a \o b) = Len(a) + Len(b)
        /\ \A i \in 1..(Len(a) + Len(b)) :
             (a \o b)[i] = IF i <= Len(a) THEN a[i] ELSE b[i - Len(a)]
    BY <1>3, <1>4, ConcatProperties
  <2>2. Len(a) = k - 1 /\ Len(a) + Len(b) = Len(s) - 1
    BY <1>1, <1>3, <1>4
  <2> QED BY <2>1, <2>2
<1>7. DOMAIN (a \o b) = 1..(Len(s) - 1)
  BY <1>6, LenProperties
<1>8. ASSUME NEW i \in 1..(Len(s) - 1)
      PROVE  (a \o b)[i] = IF i < k THEN s[i] ELSE s[i + 1]
  <2>1. CASE i < k
    BY <1>1, <1>3, <1>6, <2>1
  <2>2. CASE ~(i < k)
    <3>1. i - (k - 1) \in 1..(Len(s) - k) /\ (i - (k - 1)) + k = i + 1 /\ ~(i <= k - 1)
      BY <1>1, <2>2
    <3>2. b[i - (k - 1)] = s[i + 1]
      BY <1>4, <3>1
    <3> QED BY <1>6, <2>2, <3>1, <3>2
  <2> QED BY <2>1, <2>2
<1> QED BY <1>1, <1>5, <1>6, <1>7, <1>8

---------------------------------------------------------
(* The operators of the model. *)

(* A set of natural numbers has a smallest member, which is the induction that
   the lemmas below need. *)
LEMMA Smallest ==
  ASSUME NEW S, S \subseteq Nat, S # {}
  PROVE  \E m \in S : \A k \in S : m <= k
<1> DEFINE R == {ss \in Nat \X Nat : ss[1] < ss[2]}
<1>1. IsWellFoundedOn(R, Nat)
  BY NatLessThanWellFounded DEF OpToRel
<1>2. \A x, y \in Nat : <<y, x>> \in R <=> y < x
  OBVIOUS
<1> HIDE DEF R
<1>3. \E x \in S : \A y \in S : ~(<<y, x>> \in R)
  BY <1>1, WFMin
<1>4. PICK m \in S : \A y \in S : ~(<<y, m>> \in R)
  BY <1>3
<1>5. \A k \in S : ~(k < m)
  BY <1>2, <1>4
<1> QED BY <1>5

(* Every finite set of positions can be listed in order. *)
LEMMA InOrderExists ==
  ASSUME NEW n \in Nat, NEW S \in SUBSET (1..n)
  PROVE  /\ Cardinality(S) \in Nat /\ IsFiniteSet(S)
         /\ \E f \in [1..Cardinality(S) -> S] :
              \A i, j \in 1..Cardinality(S) : i < j => f[i] < f[j]
<1> DEFINE Listed(T) ==
             /\ IsFiniteSet(T) /\ Cardinality(T) \in Nat
             /\ \E f \in [1..Cardinality(T) -> T] :
                  \A i, j \in 1..Cardinality(T) : i < j => f[i] < f[j]
           Bad == {m \in Nat : \E T \in SUBSET (1..m) : ~Listed(T)}
<1>1. SUFFICES Bad = {}
  <2>1. n \notin Bad
    BY <1>1
  <2> QED BY <2>1
<1>2. SUFFICES ASSUME Bad # {} PROVE FALSE
  OBVIOUS
<1>3. PICK m \in Bad : \A k \in Bad : m <= k
  <2> HIDE DEF Bad
  <2>1. Bad \subseteq Nat
    BY DEF Bad
  <2> QED BY <1>2, <2>1, Smallest
<1>4. PICK T \in SUBSET (1..m) : ~Listed(T)
  OBVIOUS
<1>5. m \in Nat
  OBVIOUS
<1>6. m # 0
  <2>1. SUFFICES ASSUME m = 0 PROVE FALSE
    OBVIOUS
  <2>2. T = {}
    BY <1>4, <2>1
  <2>3. IsFiniteSet(T) /\ Cardinality(T) = 0
    BY <2>2, FS_EmptySet
  <2>4. 1..Cardinality(T) = {}
    BY <2>3
  <2>5. [i \in {} |-> 1] \in [1..Cardinality(T) -> T]
    BY <2>4
  <2>6. \E f \in [1..Cardinality(T) -> T] :
          \A i, j \in 1..Cardinality(T) : i < j => f[i] < f[j]
    BY <2>4, <2>5
  <2>7. IsFiniteSet(T) /\ Cardinality(T) \in Nat
    BY <2>3
  <2>8. Listed(T)
    BY <2>6, <2>7, Zenon
  <2> QED BY <1>4, <2>8
<1>7. m - 1 \in Nat /\ m - 1 \notin Bad
  <2>1. m - 1 \in Nat /\ m - 1 < m
    BY <1>5, <1>6
  <2> HIDE DEF Bad
  <2> QED BY <1>3, <1>5, <2>1
<1>8. T \ {m} \in SUBSET (1..(m - 1))
  BY <1>4, <1>5, <1>6
<1>9. Listed(T \ {m})
  BY <1>7, <1>8
<1>10. CASE m \notin T
  <2>1. T \ {m} = T
    BY <1>10
  <2> HIDE DEF Listed
  <2> QED BY <1>4, <1>9, <2>1
<1>11. CASE m \in T
  <2> DEFINE U == T \ {m}
             c == Cardinality(U)
  <2>1. IsFiniteSet(U) /\ c \in Nat
    BY <1>9
  <2>2. PICK f \in [1..c -> U] : \A i, j \in 1..c : i < j => f[i] < f[j]
    BY <1>9
  <2>3. T = U \cup {m} /\ m \notin U
    BY <1>11
  <2>4. IsFiniteSet(T) /\ Cardinality(T) = c + 1
    <3> HIDE DEF U
    <3> QED BY <2>1, <2>3, FS_AddElement
  <2> DEFINE g == [i \in 1..(c + 1) |-> IF i = c + 1 THEN m ELSE f[i]]
  <2>5. U \subseteq 1..(m - 1)
    BY <1>8
  <2> HIDE DEF U, c
  <2>6. \A i \in 1..c : f[i] \in U /\ f[i] < m
    <3>1. \A i \in 1..c : f[i] \in U
      BY <2>2
    <3>2. \A u \in U : u < m
      BY <1>5, <2>5
    <3> QED BY <3>1, <3>2
  <2>7. g \in [1..(c + 1) -> T]
    BY <2>1, <2>3, <2>6
  <2>8. \A i, j \in 1..(c + 1) : i < j => g[i] < g[j]
    BY <2>1, <2>2, <2>6
  <2> HIDE DEF g
  <2>9. Listed(T)
    BY <2>1, <2>4, <2>7, <2>8
  <2> QED BY <1>4, <2>9
<1> QED BY <1>10, <1>11

(* What is written is a sequence of lines of the exchange that have no answer. *)
LEMMA Written ==
  ASSUME NEW x \in ExchangeType
  PROVE  /\ Unanswered(x) \in Seq(LineType)
         /\ \A k \in DOMAIN Unanswered(x) :
              \E i \in Pending(x) : Unanswered(x)[k] = x.lines[i]
<1> DEFINE S == Pending(x)
           n == Cardinality(S)
<1>1. x.lines \in Seq(LineType)
  BY DEF ExchangeType
<1>2. DOMAIN x.lines = 1..Len(x.lines) /\ Len(x.lines) \in Nat
  BY <1>1, LenProperties
<1>3. S \in SUBSET (1..Len(x.lines))
  BY <1>2 DEF Pending
<1>4. /\ n \in Nat
      /\ \E f \in [1..n -> S] : \A i, j \in 1..n : i < j => f[i] < f[j]
  BY <1>2, <1>3, InOrderExists
<1>5. InOrder(S) \in [1..n -> S]
  BY <1>4 DEF InOrder
<1>6. Unanswered(x) = [k \in 1..n |-> x.lines[InOrder(S)[k]]]
  BY DEF Unanswered
<1>7. \A k \in 1..n : InOrder(S)[k] \in S /\ InOrder(S)[k] \in 1..Len(x.lines)
  <2> HIDE DEF S, n
  <2> QED BY <1>3, <1>5
<1>8. \A k \in 1..n : x.lines[InOrder(S)[k]] \in LineType
  BY <1>1, <1>7, ElementOfSeq
<1> HIDE DEF S, n
<1>9. Unanswered(x) \in Seq(LineType) /\ DOMAIN Unanswered(x) = 1..n
  BY <1>4, <1>6, <1>8
<1> QED BY <1>6, <1>7, <1>9 DEF S

(* Counting round a circle of K. *)
LEMMA ModStep ==
  ASSUME NEW K \in Nat, K > 0, NEW a \in Nat
  PROVE  /\ a % K \in 0..(K - 1)
         /\ (a + 1) % K = IF a % K = K - 1 THEN 0 ELSE (a % K) + 1
<1> DEFINE q == a \div K
           r == a % K
<1>1. q \in Nat /\ r \in 0..(K - 1) /\ a = K * q + r
  BY SMT
<1>2. \A p \in Nat : \A u \in 0..(K - 1) : (K * p + u) % K = u
  BY SMT
<1>3. CASE r = K - 1
  <2>1. a + 1 = K * (q + 1) + 0
    BY <1>1, <1>3, SMT
  <2>2. q + 1 \in Nat /\ 0 \in 0..(K - 1)
    BY <1>1
  <2>3. (K * (q + 1) + 0) % K = 0
    BY <1>2, <2>2
  <2> QED BY <1>1, <1>3, <2>1, <2>3
<1>4. CASE r # K - 1
  <2>1. a + 1 = K * q + (r + 1)
    BY <1>1, SMT
  <2>2. r + 1 \in 0..(K - 1)
    BY <1>1, <1>4
  <2>3. (K * q + (r + 1)) % K = r + 1
    BY <1>1, <1>2, <2>2
  <2> QED BY <1>1, <1>4, <2>1, <2>3
<1> QED BY <1>3, <1>4

(* The sequence numbers of a burst: what as many calls of _next_sequence give. *)
LEMMA NumbersFollow ==
  ASSUME NEW s \in 0..(Modulus - 1), s = sequence, NEW n \in Nat
  PROVE  /\ Numbers(n) \in Seq(1..(Modulus - 1)) /\ Len(Numbers(n)) = n
         /\ NextSequence(s) \in 1..(Modulus - 1)
         /\ n > 0 => Numbers(n)[1] = NextSequence(s)
         /\ \A i \in 1..(n - 1) : Numbers(n)[i + 1] = NextSequence(Numbers(n)[i])
<1> DEFINE K == Modulus - 1
           N(a) == (a % K) + 1
<1>1. K \in Nat /\ K >= 2 /\ Modulus = K + 1 /\ s \in 0..K
  BY SerialAssumption
<1>2. \A a \in Nat : N(a) \in 1..K /\ a % K \in 0..(K - 1)
  <2> HIDE DEF K
  <2>1. \A a \in Nat : a % K \in 0..(K - 1)
    BY <1>1, ModStep
  <2> QED BY <1>1, <2>1
<1>3. ASSUME NEW u \in 0..K
      PROVE  NextSequence(u) = IF u = K THEN 1 ELSE u + 1
  <2>1. CASE u = K
    <3>1. (u + 1) % Modulus = 0
      BY <1>1, <2>1
    <3> QED BY <2>1, <3>1 DEF NextSequence
  <2>2. CASE u # K
    <3>1. (u + 1) % Modulus = u + 1
      BY <1>1, <2>2
    <3> QED BY <1>1, <2>2, <3>1 DEF NextSequence
  <2> QED BY <2>1, <2>2
<1>4. ASSUME NEW a \in Nat
      PROVE  N(a + 1) = NextSequence(N(a))
  <2>1. (a + 1) % K = IF a % K = K - 1 THEN 0 ELSE (a % K) + 1
    <3> HIDE DEF K
    <3>1. K \in Nat /\ K > 0
      BY <1>1
    <3> QED BY <3>1, ModStep, Zenon
  <2>2. N(a) \in 0..K /\ (N(a) = K <=> a % K = K - 1) /\ a % K \in Int
    <3> HIDE DEF K
    <3>1. a % K \in 0..(K - 1)
      BY <1>2
    <3> QED BY <1>1, <3>1
  <2>3. NextSequence(N(a)) = IF N(a) = K THEN 1 ELSE N(a) + 1
    BY <1>3, <2>2
  <2> QED BY <2>1, <2>2, <2>3
<1>5. N(s) = NextSequence(s)
  <2>1. CASE s = K
    <3>1. s % K = 0
      BY <1>1, <2>1
    <3> QED BY <1>1, <1>3, <2>1, <3>1
  <2>2. CASE s # K
    <3>1. s % K = s
      BY <1>1, <2>2
    <3> QED BY <1>1, <1>3, <2>2, <3>1
  <2> QED BY <2>1, <2>2
<1>6. Numbers(n) = [i \in 1..n |-> N(s + i - 1)]
  BY DEF Numbers
<1>7. \A i \in 1..n : s + i - 1 \in Nat
  BY <1>1
<1> HIDE DEF K, N
<1>8. \A i \in 1..n : Numbers(n)[i] = N(s + i - 1) /\ N(s + i - 1) \in 1..K
  BY <1>2, <1>6, <1>7
<1>9. Numbers(n) \in Seq(1..K) /\ Len(Numbers(n)) = n
  <2> DEFINE e(i) == N(s + i - 1)
  <2>1. \A i \in 1..n : e(i) \in 1..K
    BY <1>8
  <2>2. Numbers(n) = [i \in 1..n |-> e(i)]
    BY <1>6
  <2> HIDE DEF e
  <2> QED BY <2>1, <2>2
<1>10. NextSequence(s) \in 1..K
  BY <1>1, <1>2, <1>5
<1>11. ASSUME n > 0 PROVE Numbers(n)[1] = NextSequence(s)
  <2>1. 1 \in 1..n /\ s + 1 - 1 = s
    BY <1>1, <1>11
  <2> QED BY <1>5, <1>8, <2>1
<1>12. ASSUME NEW i \in 1..(n - 1)
       PROVE  Numbers(n)[i + 1] = NextSequence(Numbers(n)[i])
  <2>1. i \in 1..n /\ i + 1 \in 1..n /\ s + (i + 1) - 1 = (s + i - 1) + 1
    BY <1>1
  <2>2. N((s + i - 1) + 1) = NextSequence(N(s + i - 1))
    BY <1>4, <1>7, <2>1
  <2> QED BY <1>8, <2>1, <2>2
<1> QED BY <1>9, <1>10, <1>11, <1>12 DEF K

---------------------------------------------------------
(* The initial state. *)

LEMMA InitIInv == Init => IInv
<1> SUFFICES ASSUME Init PROVE IInv
  OBVIOUS
<1> USE DEF Init
<1>1. Typed
  BY SerialAssumption DEF Typed, LinkType, PicoType, Places
<1>2. Current /\ OneAtATime /\ Addressed /\ Sorted /\ Told /\ DownIsOwn
  BY DEF Current, OneAtATime, Addressed, Sorted, Told, Reached, DownIsOwn
<1>3. Queued
  BY DEF Queued, Callers
<1>4. Limited
  <2>1. {c \in Inputs : pc[c] \in Waiting} = {}
    BY DEF Callers, Waiting
  <2>2. 0 <= MaxPending
    BY SerialAssumption
  <2>3. pico.cache = <<>> /\ Len(pico.cache) <= CacheSize
    BY SerialAssumption
  <2> QED BY <2>1, <2>2, <2>3, FS_EmptySet DEF Limited
<1>5. Portions
  BY SerialAssumption DEF Portions
<1>6. Fates
  BY DEF Fates, Callers
<1> QED BY <1>1, <1>2, <1>3, <1>4, <1>5, <1>6 DEF IInv

---------------------------------------------------------
(* What several actions have in common. *)

(* The link when only the generation moves on. *)
LEMMA Raised ==
  ASSUME NEW l \in LinkType, NEW m, m = [l EXCEPT !.generation = @ + 1]
  PROVE  /\ m \in LinkType /\ m.generation = l.generation + 1 /\ l.generation \in Nat
         /\ m.phase = l.phase /\ m.ready = l.ready /\ m.sid = l.sid
         /\ m.sessions = l.sessions /\ m.disconnect = l.disconnect
BY DEF LinkType

(* Callers that leave make no queue longer. *)
LEMMA LimitedHolds ==
  ASSUME Limited, Len(pico'.cache) <= CacheSize,
         \A c \in Inputs : pc'[c] \in Waiting => pc[c] \in Waiting
  PROVE  Limited'
<1> DEFINE W == {c \in Inputs : pc[c] \in Waiting}
           V == {c \in Inputs : pc'[c] \in Waiting}
<1>1. IsFiniteSet(W) /\ Cardinality(W) <= MaxPending /\ V \in SUBSET W
  BY DEF Limited
<1>2. /\ IsFiniteSet(V) /\ Cardinality(V) <= Cardinality(W)
      /\ Cardinality(W) \in Nat /\ Cardinality(V) \in Nat
  <2> HIDE DEF W, V
  <2> QED BY <1>1, FS_Subset, FS_CardinalityType
<1>3. Cardinality(V) <= MaxPending
  BY <1>1, <1>2, SerialAssumption
<1> QED BY <1>2, <1>3 DEF Limited

(* The types of what the queues and the cache hold. *)
LEMMA TypedParts ==
  ASSUME IInv
  PROVE  /\ \A i \in DOMAIN wire : wire[i] \in ExchangeType /\ wire[i].sid \in Nat
         /\ \A i \in DOMAIN wire : wire[i].lines \in Seq(LineType)
         /\ \A i \in DOMAIN toPico : toPico[i] \in LineType /\ toPico[i].sid \in Nat
         /\ \A i \in DOMAIN toGateway :
              toGateway[i] \in MessageType /\ toGateway[i].sid \in Nat
         /\ \A i \in DOMAIN pico.cache :
              pico.cache[i] \in MessageType /\ pico.cache[i].sid \in Nat
         /\ pico.cache \in Seq(MessageType) /\ link.sid \in Nat /\ pico.sid \in Nat
         /\ link.sessions \in Nat /\ link.generation \in Nat
<1>1. /\ wire \in Seq(ExchangeType) /\ toPico \in Seq(LineType)
      /\ toGateway \in Seq(MessageType) /\ pico.cache \in Seq(MessageType)
      /\ link.sid \in Nat /\ pico.sid \in Nat /\ link.sessions \in Nat
      /\ link.generation \in Nat
  BY DEF IInv, Typed, PicoType, LinkType
<1>2. /\ \A i \in DOMAIN wire : wire[i] \in ExchangeType
      /\ \A i \in DOMAIN toPico : toPico[i] \in LineType
      /\ \A i \in DOMAIN toGateway : toGateway[i] \in MessageType
      /\ \A i \in DOMAIN pico.cache : pico.cache[i] \in MessageType
  BY <1>1, ElementOfSeq, LenProperties
<1> QED BY <1>1, <1>2 DEF ExchangeType, LineType, MessageType

(* What is on the wire, when an exchange that has not begun joins the queue. *)
LEMMA Joins ==
  ASSUME IInv, NEW x \in ExchangeType, wire' = Append(wire, x),
         x.attempt = 0, x.answered = {}, x.sid = link'.sid, x.sid \in 1..link'.sessions,
         x.lines # <<>>,
         \A k \in DOMAIN x.lines : x.lines[k].sid = x.sid /\ x.lines[k].op # "junk",
         \A i \in DOMAIN wire : wire[i].who # x.who,
         x.who = "handshake" => link'.phase = "handshake",
         \A i \in DOMAIN wire : wire[i].who = "handshake" =>
           link'.phase = "handshake" /\ link'.sid = link.sid,
         link.sessions <= link'.sessions, link'.sessions \in Nat,
         link'.ready => link.ready /\ link'.sid = link.sid,
         UNCHANGED <<toPico, pico>>,
         \A i \in DOMAIN toGateway' : \E j \in DOMAIN toGateway : toGateway'[i] = toGateway[j]
  PROVE  /\ wire' \in Seq(ExchangeType)
         /\ DOMAIN wire' = DOMAIN wire \cup {Len(wire) + 1} /\ DOMAIN wire = 1..Len(wire)
         /\ \A i \in DOMAIN wire : wire'[i] = wire[i]
         /\ wire'[Len(wire) + 1] = x
         /\ OneAtATime' /\ Addressed' /\ Told'
<1>1. /\ wire' \in Seq(ExchangeType) /\ Len(wire) \in Nat
      /\ DOMAIN wire' = DOMAIN wire \cup {Len(wire) + 1} /\ DOMAIN wire = 1..Len(wire)
      /\ \A i \in DOMAIN wire : wire'[i] = wire[i]
      /\ wire'[Len(wire) + 1] = x
  BY Appended, LenProperties DEF IInv, Typed
<1>2. OneAtATime'
  BY <1>1 DEF IInv, OneAtATime
<1>3. Addressed'
  <2>1. \A n \in 1..link.sessions : n \in 1..link'.sessions
    BY DEF IInv, Typed, LinkType
  <2>2. \A i \in DOMAIN wire' :
          /\ wire'[i].sid \in 1..link'.sessions /\ wire'[i].lines # <<>>
          /\ \A k \in DOMAIN wire'[i].lines :
               wire'[i].lines[k].sid = wire'[i].sid /\ wire'[i].lines[k].op # "junk"
    BY <1>1, <2>1 DEF IInv, Addressed
  <2>3. pico'.sid \in 0..link'.sessions
    BY DEF IInv, Typed, LinkType, Addressed
  <2> QED BY <2>1, <2>2, <2>3 DEF IInv, Addressed
<1>4. Told'
  <2>1. \A s \in Nat : Reached(s) => Reached(s)'
    BY DEF Reached, IInv, Typed, LinkType
  <2>2. /\ \A i \in DOMAIN toGateway : toGateway[i].sid \in Nat
        /\ \A i \in DOMAIN pico.cache : pico.cache[i].sid \in Nat
        /\ \A i \in DOMAIN wire : wire[i].sid \in Nat
        /\ link.sid \in Nat
    BY TypedParts
  <2> QED BY <1>1, <2>1, <2>2 DEF IInv, Told
<1> QED BY <1>1, <1>2, <1>3, <1>4

---------------------------------------------------------
(* The callers. *)

LEMMA CallStep == ASSUME IInv, NEW c \in Callers, Call(c) PROVE IInv'
<1> USE DEF Call, callers, uart, history
<1>1. /\ Typed /\ Current /\ OneAtATime /\ Addressed /\ Queued /\ Limited /\ Portions
      /\ Fates /\ Sorted /\ Told /\ DownIsOwn
  BY DEF IInv
<1>2. /\ c \in Inputs /\ pc[c] = "idle" /\ pc' = [pc EXCEPT ![c] = pc'[c]]
      /\ pc'[c] \in {"busy", "entering"}
  BY <1>1 DEF Typed
<1>3. Typed'
  BY <1>1, <1>2 DEF Typed, LinkType, Places, Waiting
<1>4. Current' /\ OneAtATime' /\ Addressed' /\ Sorted' /\ DownIsOwn'
  BY <1>1 DEF Current, OneAtATime, Addressed, Sorted, DownIsOwn
<1>5. Told'
  BY <1>1 DEF Told, Reached
<1>6. Queued'
  BY <1>1, <1>2 DEF Queued, Typed, Callers
<1>7. Limited'
  <2> DEFINE W == {d \in Inputs : pc[d] \in Waiting}
             V == {d \in Inputs : pc'[d] \in Waiting}
  <2>1. CASE Busy
    <3>1. \A d \in Inputs : pc'[d] \in Waiting => pc[d] \in Waiting
      BY <1>1, <1>2, <2>1 DEF Typed, Waiting, Callers
    <3> QED BY <1>1, <3>1, LimitedHolds DEF Limited
  <2>2. CASE ~Busy
    <3>1. V = W \cup {c} /\ c \notin W
      BY <1>1, <1>2, <2>2 DEF Typed, Waiting, Callers
    <3>2. IsFiniteSet(W) /\ ~(Cardinality(W) >= MaxPending)
      BY <1>1, <2>2 DEF Limited, Busy
    <3>3. IsFiniteSet(V) /\ Cardinality(V) = Cardinality(W) + 1 /\ Cardinality(W) \in Nat
      <4> HIDE DEF V, W
      <4> QED BY <3>1, <3>2, FS_AddElement, FS_CardinalityType
    <3>4. Cardinality(V) <= MaxPending
      BY <3>2, <3>3, SerialAssumption
    <3> QED BY <1>1, <3>3, <3>4 DEF Limited
  <2> QED BY <2>1, <2>2
<1>8. Portions'
  BY <1>1, <1>2 DEF Portions, Typed, Waiting, Callers
<1>9. Fates'
  BY <1>1, <1>2 DEF Fates, Typed, Callers, Queued, LinkType
<1> QED BY <1>3, <1>4, <1>5, <1>6, <1>7, <1>8, <1>9 DEF IInv

LEMMA CallReleaseStep == ASSUME IInv, NEW c \in Callers, CallRelease(c) PROVE IInv'
<1> USE DEF CallRelease, callers, uart, history
<1>1. /\ Typed /\ Current /\ OneAtATime /\ Addressed /\ Queued /\ Limited /\ Portions
      /\ Fates /\ Sorted /\ Told /\ DownIsOwn
  BY DEF IInv
<1>2. /\ c \in Releases /\ c \notin Inputs /\ pc[c] = "idle"
      /\ pc' = [pc EXCEPT ![c] = "entering"]
  BY SerialAssumption
<1>3. /\ link' \in LinkType /\ link'.generation = link.generation + 1
      /\ link'.phase = link.phase /\ link'.ready = link.ready /\ link'.sid = link.sid
      /\ link'.sessions = link.sessions /\ link.generation \in Nat
  BY <1>1, Raised DEF Typed
<1>4. Typed'
  BY <1>1, <1>2, <1>3 DEF Typed, Places, Waiting
<1>5. Current' /\ OneAtATime' /\ Addressed' /\ Sorted' /\ DownIsOwn'
  BY <1>1, <1>3 DEF Current, OneAtATime, Addressed, Sorted, DownIsOwn
<1>6. Told'
  BY <1>1, <1>3 DEF Told, Reached
<1>7. Queued'
  BY <1>1, <1>2 DEF Queued, Typed, Callers
<1>8. Limited'
  <2>1. \A d \in Inputs : pc'[d] \in Waiting => pc[d] \in Waiting
    BY <1>1, <1>2 DEF Typed, Callers
  <2> QED BY <1>1, <2>1, LimitedHolds DEF Limited
<1>9. Portions'
  BY <1>1, <1>2 DEF Portions, Typed, Callers
<1>10. Fates'
  BY <1>1, <1>2, <1>3 DEF Fates, Typed, Callers, Queued
<1> QED BY <1>4, <1>5, <1>6, <1>7, <1>8, <1>9, <1>10 DEF IInv

LEMMA WaitReadyFailsStep == ASSUME IInv, NEW c \in Callers, WaitReadyFails(c) PROVE IInv'
<1> USE DEF WaitReadyFails, callers, uart, history
<1>1. /\ Typed /\ Current /\ OneAtATime /\ Addressed /\ Queued /\ Limited /\ Portions
      /\ Fates /\ Sorted /\ Told /\ DownIsOwn
  BY DEF IInv
<1>2. Typed'
  BY <1>1 DEF Typed, Places, Answers
<1>3. Current' /\ OneAtATime' /\ Addressed' /\ Sorted' /\ DownIsOwn'
  BY <1>1 DEF Current, OneAtATime, Addressed, Sorted, DownIsOwn
<1>4. Told'
  BY <1>1 DEF Told, Reached
<1>5. Queued'
  BY <1>1 DEF Queued, Typed, Callers
<1>6. Limited'
  <2>1. \A d \in Inputs : pc'[d] \in Waiting => pc[d] \in Waiting
    BY <1>1 DEF Typed, Callers, Waiting
  <2> QED BY <1>1, <2>1, LimitedHolds DEF Limited
<1>7. Portions'
  BY <1>1 DEF Portions, Typed, Callers, Waiting
<1>8. Fates'
  BY <1>1 DEF Fates, Typed, Callers, Queued
<1> QED BY <1>2, <1>3, <1>4, <1>5, <1>6, <1>7, <1>8 DEF IInv

LEMMA EnterPublicStep == ASSUME IInv, NEW c \in Callers, EnterPublic(c) PROVE IInv'
<1>1. /\ Typed /\ Current /\ OneAtATime /\ Addressed /\ Queued /\ Limited /\ Portions
      /\ Fates /\ Sorted /\ Told /\ DownIsOwn
  BY DEF IInv
<1>2. /\ c \in Inputs /\ pc[c] = "entering" /\ pc' = [pc EXCEPT ![c] = pc'[c]]
      /\ \/ pc'[c] = "interrupted" /\ public' = public
         \/ pc'[c] = "public" /\ public' = Append(public, c)
      /\ UNCHANGED <<link, sequence, asked, done, wire, toPico, toGateway, pico, executed,
                     fence, faults>>
  BY <1>1 DEF EnterPublic, callers, uart, history, Typed
<1>3. /\ public' \in Seq(Inputs)
      /\ pc' \in [Callers -> Places]
  <2>1. public' \in Seq(Inputs)
    <3>1. public \in Seq(Inputs)
      BY <1>1 DEF Typed
    <3>2. Append(public, c) \in Seq(Inputs)
      BY <1>2, <3>1, Appended
    <3> QED BY <1>2, <3>1, <3>2
  <2> QED BY <1>1, <1>2, <2>1 DEF Typed, Places, Waiting, Answers
<1>4. Typed'
  BY <1>1, <1>2, <1>3 DEF Typed
<1>5. Current' /\ OneAtATime' /\ Addressed' /\ Sorted' /\ DownIsOwn'
  BY <1>1, <1>2 DEF Current, OneAtATime, Addressed, Sorted, DownIsOwn
<1>6. Told'
  BY <1>1, <1>2 DEF Told, Reached
<1>7. Queued'
  <2>0. /\ \A d \in Callers : d # c => pc'[d] = pc[d]
        /\ \A i \in DOMAIN wire : wire[i].who \in Callers => wire[i].who # c
        /\ \A i \in DOMAIN public : public[i] # c /\ public[i] \in Callers
    <3>1. \A i \in DOMAIN public : public[i] \in Inputs
      BY <1>1, ElementOfSeq, LenProperties DEF Typed
    <3> QED BY <1>1, <1>2, <3>1 DEF Queued, Typed, Callers
  <2>1. CASE pc'[c] = "interrupted"
    <3>1. public' = public
      BY <1>2, <2>1
    <3> QED BY <1>1, <1>2, <2>0, <2>1, <3>1 DEF Queued, Callers
  <2>2. CASE pc'[c] = "public"
    <3>1. public' = Append(public, c)
      BY <1>2, <2>2
    <3>2. /\ Len(public) \in Nat /\ DOMAIN public = 1..Len(public)
          /\ DOMAIN public' = DOMAIN public \cup {Len(public) + 1}
          /\ \A i \in DOMAIN public : public'[i] = public[i]
          /\ public'[Len(public) + 1] = c
      BY <1>1, <1>2, <3>1, Appended, LenProperties DEF Typed
    <3>3. \A i \in DOMAIN public : public[i] # c /\ public[i] \in Callers
      BY <1>1, <1>2, ElementOfSeq, <3>2 DEF Queued, Typed, Callers
    <3>4. \A d \in Callers : d # c => pc'[d] = pc[d]
      BY <1>1, <1>2 DEF Typed
    <3>5. \A i \in DOMAIN wire : wire[i].who \in Callers => wire[i].who # c
      BY <1>1, <1>2 DEF Queued
    <3>6. /\ \A i, j \in DOMAIN public' : public'[i] = public'[j] => i = j
          /\ \A i \in DOMAIN public' :
               pc'[public'[i]] = "public" \/ (i = 1 /\ pc'[public'[i]] = "wire")
      BY <1>1, <2>2, <3>2, <3>3, <3>4 DEF Queued
    <3>7. /\ \A d \in Inputs : pc'[d] = "public" => \E i \in DOMAIN public' : public'[i] = d
          /\ \A d \in Inputs : pc'[d] = "wire" => public' # <<>> /\ public'[1] = d
      <4>1. \A d \in Inputs : pc[d] = "wire" => 1 \in DOMAIN public /\ public'[1] = d
        BY <1>1, <3>2, NotEmpty DEF Queued, Typed
      <4>2. public' # <<>>
        BY <1>1, <1>2, <3>1, AppendProperties DEF Typed
      <4> QED BY <1>1, <2>2, <3>2, <3>4, <4>1, <4>2 DEF Queued, Callers
    <3> QED BY <1>1, <1>2, <3>4, <3>5, <3>6, <3>7 DEF Queued
  <2> QED BY <1>2, <2>1, <2>2
<1>8. Limited'
  <2>1. \A d \in Inputs : pc'[d] \in Waiting => pc[d] \in Waiting
    BY <1>1, <1>2 DEF Typed, Callers, Waiting
  <2> QED BY <1>1, <1>2, <2>1, LimitedHolds DEF Limited
<1>9. Portions'
  BY <1>1, <1>2 DEF Portions, Typed, Callers, Waiting
<1>10. Fates'
  BY <1>1, <1>2 DEF Fates, Typed, Callers, Queued
<1> QED BY <1>4, <1>5, <1>6, <1>7, <1>8, <1>9, <1>10 DEF IInv

(* An exchange of one line, as the release and the heartbeat put it together. *)
LEMMA OperationIs ==
  ASSUME IInv, NEW who \in Whos, NEW op \in {"heartbeat", "release"},
         NEW gen \in Nat \cup {None}, link.ready
  PROVE  /\ Operation(who, op, gen) \in ExchangeType
         /\ Operation(who, op, gen).who = who
         /\ Operation(who, op, gen).attempt = 0
         /\ Operation(who, op, gen).answered = {}
         /\ Operation(who, op, gen).sid = link.sid
         /\ link.sid \in 1..link.sessions
         /\ Operation(who, op, gen).lines # <<>>
         /\ \A k \in DOMAIN Operation(who, op, gen).lines :
              /\ Operation(who, op, gen).lines[k].sid = link.sid
              /\ Operation(who, op, gen).lines[k].op # "junk"
<1>1. /\ link.sid \in Nat /\ link.sid \in 1..link.sessions
      /\ \A c \in Callers : asked[c] \in Nat
      /\ sequence \in 0..(Modulus - 1)
  BY DEF IInv, Typed, Current, LinkType
<1>2. NextSequence(sequence) \in Nat
  BY <1>1, NumbersFollow
<1> DEFINE line == Line(link.sid, NextSequence(sequence), op, None,
                        IF who \in Callers THEN asked[who] ELSE None)
<1>3. line \in LineType /\ line.sid = link.sid /\ line.op = op
  BY <1>1, <1>2 DEF LineType, Line
<1>4. Operation(who, op, gen) =
        [who |-> who, gen |-> gen, sid |-> link.sid, attempt |-> 0, nacked |-> FALSE,
         lines |-> [i \in 1..1 |-> line], answered |-> {}]
  <2> DEFINE n == NextSequence(sequence)
             f == [i \in DOMAIN <<None>> |->
                     Line(link.sid, <<n>>[i], op, <<None>>[i],
                          IF who \in Callers THEN asked[who] ELSE None)]
  <2>1. Operation(who, op, gen) =
          [who |-> who, gen |-> gen, sid |-> link.sid, attempt |-> 0, nacked |-> FALSE,
           lines |-> f, answered |-> {}]
    BY DEF Operation, Exchange
  <2>2. DOMAIN <<None>> = 1..1 /\ \A i \in 1..1 : <<n>>[i] = n /\ <<None>>[i] = None
    OBVIOUS
  <2>3. f = [i \in 1..1 |-> line]
    BY <2>2
  <2> QED BY <2>1, <2>3
<1> HIDE DEF line
<1>5. [i \in 1..1 |-> line] \in Seq(LineType) /\ [i \in 1..1 |-> line] # <<>>
  BY <1>3
<1> QED BY <1>1, <1>3, <1>4, <1>5 DEF ExchangeType

LEMMA EnterReleaseStep == ASSUME IInv, NEW c \in Callers, EnterRelease(c) PROVE IInv'
<1> DEFINE x == Operation(c, "release", asked[c])
<1>1. /\ Typed /\ Current /\ OneAtATime /\ Addressed /\ Queued /\ Limited /\ Portions
      /\ Fates /\ Sorted /\ Told /\ DownIsOwn
  BY DEF IInv
<1>2. /\ c \in Releases /\ c \notin Inputs /\ pc[c] = "entering" /\ link.ready
      /\ pc' = [pc EXCEPT ![c] = "wire"] /\ wire' = Append(wire, x)
      /\ sequence' = NextSequence(sequence)
      /\ UNCHANGED <<link, asked, done, public, toPico, toGateway, pico, executed, fence,
                     faults>>
  BY SerialAssumption DEF EnterRelease, uart, history
<1>3. /\ x \in ExchangeType /\ x.who = c /\ x.attempt = 0 /\ x.answered = {}
      /\ x.sid = link.sid /\ link.sid \in 1..link.sessions /\ x.lines # <<>>
      /\ \A k \in DOMAIN x.lines : x.lines[k].sid = link.sid /\ x.lines[k].op # "junk"
  <2> DEFINE g == asked[c]
  <2>1. c \in Whos /\ g \in Nat \cup {None} /\ "release" \in {"heartbeat", "release"}
    BY <1>1 DEF Typed, Whos
  <2>2. x = Operation(c, "release", g)
    OBVIOUS
  <2> HIDE DEF x, g
  <2> QED BY <1>2, <2>1, <2>2, OperationIs
<1> HIDE DEF x
<1>4. c # "handshake"
  BY SerialAssumption DEF Callers
<1>5. \A i \in DOMAIN wire : wire[i].who # c
  BY <1>1, <1>2 DEF Queued
<1>6. /\ wire' \in Seq(ExchangeType)
      /\ DOMAIN wire' = DOMAIN wire \cup {Len(wire) + 1} /\ DOMAIN wire = 1..Len(wire)
      /\ \A i \in DOMAIN wire : wire'[i] = wire[i]
      /\ wire'[Len(wire) + 1] = x
      /\ OneAtATime' /\ Addressed' /\ Told'
  <2>1. link.sessions \in Nat /\ link.sessions <= link.sessions
    BY <1>1 DEF Typed, LinkType
  <2>2. \A i \in DOMAIN wire : wire[i].who = "handshake" => link.phase = "handshake"
    BY <1>1 DEF OneAtATime
  <2> QED BY <1>2, <1>3, <1>4, <1>5, <2>1, <2>2, Joins
<1>7. Typed'
  <2>1. sequence' \in 0..(Modulus - 1)
    BY <1>1, <1>2, NumbersFollow DEF Typed
  <2> QED BY <1>1, <1>2, <1>6, <2>1 DEF Typed, Places, Waiting
<1>8. Current' /\ Sorted' /\ DownIsOwn'
  BY <1>1, <1>2 DEF Current, Sorted, DownIsOwn
<1>9. \A d \in Callers : pc'[d] = IF d = c THEN "wire" ELSE pc[d]
  BY <1>1, <1>2 DEF Typed
<1>10. Queued'
  <2>1. \A i \in DOMAIN public : public[i] \in Inputs
    BY <1>1, ElementOfSeq, LenProperties DEF Typed
  <2>2. \A d \in Inputs : d \in Callers /\ d # c
    BY <1>2 DEF Callers
  <2>3. \A i \in DOMAIN wire' : wire'[i].who \in Callers => pc'[wire'[i].who] = "wire"
    BY <1>1, <1>3, <1>6, <1>9 DEF Queued
  <2> QED BY <1>1, <1>2, <1>9, <2>1, <2>2, <2>3 DEF Queued
<1>11. Limited'
  <2>1. \A d \in Inputs : pc'[d] \in Waiting => pc[d] \in Waiting
    BY <1>2, <1>9 DEF Callers
  <2> QED BY <1>1, <1>2, <2>1, LimitedHolds DEF Limited
<1>12. Portions'
  <2>1. \A d \in Inputs : pc'[d] = pc[d]
    BY <1>2, <1>9 DEF Callers
  <2> QED BY <1>1, <1>2, <1>3, <1>6, <2>1 DEF Portions
<1>13. Fates'
  BY <1>1, <1>2, <1>3, <1>6, <1>9 DEF Fates
<1> QED BY <1>6, <1>7, <1>8, <1>10, <1>11, <1>12, <1>13 DEF IInv

LEMMA HeartbeatStep == ASSUME IInv, Heartbeat PROVE IInv'
<1> DEFINE x == Operation("heartbeat", "heartbeat", None)
<1>1. /\ Typed /\ Current /\ OneAtATime /\ Addressed /\ Queued /\ Limited /\ Portions
      /\ Fates /\ Sorted /\ Told /\ DownIsOwn
  BY DEF IInv
<1>2. /\ link.ready /\ wire' = Append(wire, x) /\ sequence' = NextSequence(sequence)
      /\ \A i \in DOMAIN wire : wire[i].who # "heartbeat"
      /\ UNCHANGED <<link, pc, asked, done, public, toPico, toGateway, pico, executed, fence,
                     faults>>
  BY DEF Heartbeat, callers, uart, history
<1>3. /\ x \in ExchangeType /\ x.who = "heartbeat" /\ x.attempt = 0 /\ x.answered = {}
      /\ x.sid = link.sid /\ link.sid \in 1..link.sessions /\ x.lines # <<>>
      /\ \A k \in DOMAIN x.lines : x.lines[k].sid = link.sid /\ x.lines[k].op # "junk"
  <2>1. "heartbeat" \in Whos /\ None \in Nat \cup {None}
        /\ "heartbeat" \in {"heartbeat", "release"}
    BY DEF Whos
  <2> HIDE DEF x
  <2> QED BY <1>2, <2>1, OperationIs DEF x
<1> HIDE DEF x
<1>4. x.who \notin Callers
  BY <1>3, SerialAssumption DEF Callers
<1>5. /\ wire' \in Seq(ExchangeType)
      /\ DOMAIN wire' = DOMAIN wire \cup {Len(wire) + 1} /\ DOMAIN wire = 1..Len(wire)
      /\ \A i \in DOMAIN wire : wire'[i] = wire[i]
      /\ wire'[Len(wire) + 1] = x
      /\ OneAtATime' /\ Addressed' /\ Told'
  <2>1. link.sessions \in Nat /\ link.sessions <= link.sessions
    BY <1>1 DEF Typed, LinkType
  <2>2. \A i \in DOMAIN wire : wire[i].who = "handshake" => link.phase = "handshake"
    BY <1>1 DEF OneAtATime
  <2> QED BY <1>2, <1>3, <2>1, <2>2, Joins
<1>6. Typed'
  <2>1. sequence' \in 0..(Modulus - 1)
    BY <1>1, <1>2, NumbersFollow DEF Typed
  <2> QED BY <1>1, <1>2, <1>5, <2>1 DEF Typed
<1>7. Current' /\ Sorted' /\ DownIsOwn' /\ Limited'
  BY <1>1, <1>2 DEF Current, Sorted, DownIsOwn, Limited
<1>8. Queued'
  BY <1>1, <1>2, <1>4, <1>5 DEF Queued
<1>9. Portions'
  BY <1>1, <1>2, <1>4, <1>5 DEF Portions, Callers
<1>10. Fates'
  BY <1>1, <1>2, <1>3, <1>5 DEF Fates
<1> QED BY <1>5, <1>6, <1>7, <1>8, <1>9, <1>10 DEF IInv

(* The holder of _public_lock leaves it with a result. *)
LEMMA Leaves ==
  ASSUME Typed, Queued, NEW c \in Inputs, public # <<>>, public[1] = c,
         public' = Tail(public), NEW r, r \notin {"public", "wire"},
         pc' = [pc EXCEPT ![c] = r],
         \A i \in DOMAIN wire' : wire'[i].who \in Callers =>
           wire'[i].who # c /\ pc[wire'[i].who] = "wire"
  PROVE  Queued' /\ public' \in Seq(Inputs)
<1>1. /\ public' \in Seq(Inputs) /\ Len(public) \in Nat /\ Len(public) > 0
      /\ DOMAIN public = 1..Len(public) /\ DOMAIN public' = 1..(Len(public) - 1)
      /\ \A i \in DOMAIN public' : i + 1 \in DOMAIN public /\ public'[i] = public[i + 1]
  BY Shortened DEF Typed
<1>2. \A i \in DOMAIN public : public[i] \in Inputs
  BY <1>1, ElementOfSeq DEF Typed
<1>3. \A d \in Callers : pc'[d] = IF d = c THEN r ELSE pc[d]
  BY DEF Typed
<1>4. \A d \in Inputs : d \in Callers
  BY DEF Callers
<1>5. \A i \in DOMAIN public' : public'[i] \in Inputs /\ public'[i] # c
  <2>1. ASSUME NEW i \in DOMAIN public' PROVE public'[i] # c
    <3>1. i + 1 # 1 /\ i + 1 \in DOMAIN public /\ 1 \in DOMAIN public
      BY <1>1
    <3> QED BY <1>1, <3>1 DEF Queued
  <2> QED BY <1>1, <1>2, <2>1
<1>6. \A i, j \in DOMAIN public' : public'[i] = public'[j] => i = j
  <2>1. ASSUME NEW i \in DOMAIN public', NEW j \in DOMAIN public', public'[i] = public'[j]
        PROVE  i = j
    <3>1. i + 1 = j + 1
      BY <1>1, <2>1 DEF Queued
    <3> QED BY <1>1, <3>1
  <2> QED BY <2>1
<1>7. \A i \in DOMAIN public' : pc'[public'[i]] = "public"
  <2>1. ASSUME NEW i \in DOMAIN public' PROVE pc[public'[i]] = "public"
    <3>1. i + 1 # 1 /\ i + 1 \in DOMAIN public
      BY <1>1
    <3> QED BY <1>1, <3>1 DEF Queued
  <2> QED BY <1>3, <1>4, <1>5, <2>1
<1>8. ASSUME NEW d \in Inputs, pc'[d] = "public"
      PROVE  \E i \in DOMAIN public' : public'[i] = d
  <2>1. d # c /\ pc[d] = "public"
    BY <1>3, <1>4, <1>8
  <2>2. PICK j \in DOMAIN public : public[j] = d
    BY <2>1 DEF Queued
  <2>3. j # 1
    BY <2>1, <2>2
  <2>4. j - 1 \in DOMAIN public' /\ (j - 1) + 1 = j
    BY <1>1, <2>3
  <2> QED BY <1>1, <2>2, <2>4
<1>9. \A d \in Inputs : pc'[d] # "wire"
  BY <1>3, <1>4 DEF Queued
<1>10. \A i \in DOMAIN wire' : wire'[i].who \in Callers => pc'[wire'[i].who] = "wire"
  BY <1>3
<1> QED BY <1>1, <1>6, <1>7, <1>8, <1>9, <1>10 DEF Queued

(* The exchange that the holder of _public_lock sends next. *)
NextExchange(c) ==
  Exchange(c, "input", NextPieces(c), Numbers(Len(NextPieces(c))), asked[c])

LEMMA ExchangeIs ==
  ASSUME NEW who \in Whos, NEW gen \in Nat \cup {None}, NEW sid \in Nat,
         NEW lines \in Seq(LineType)
  PROVE  [who |-> who, gen |-> gen, sid |-> sid, attempt |-> 0, nacked |-> FALSE,
          lines |-> lines, answered |-> {}] \in ExchangeType
BY DEF ExchangeType

LEMMA PiecesAre ==
  ASSUME IInv, NEW c \in Inputs, pc[c] = "public", link.ready,
         NEW x, x = NextExchange(c)
  PROVE  /\ x \in ExchangeType /\ x.who = c /\ x.attempt = 0 /\ x.answered = {}
         /\ x.sid = link.sid /\ link.sid \in 1..link.sessions /\ x.lines # <<>>
         /\ \A k \in DOMAIN x.lines : x.lines[k].sid = link.sid /\ x.lines[k].op # "junk"
         /\ Len(x.lines) = IF c \in Batches THEN Size[c] ELSE 1
         /\ Last(Numbers(Len(NextPieces(c)))) \in 1..(Modulus - 1)
<1>1. /\ link.sid \in Nat /\ link.sid \in 1..link.sessions
      /\ asked[c] \in Nat /\ done[c] \in Nat /\ c \in Callers
      /\ sequence \in 0..(Modulus - 1) /\ Modulus \in Nat
      /\ Size[c] \in Nat /\ Size[c] > 0
  BY SerialAssumption DEF IInv, Typed, Current, LinkType, Callers
<1> DEFINE pieces == NextPieces(c)
           n == IF c \in Batches THEN Size[c] ELSE 1
<1>2. n \in Nat /\ n > 0
  BY <1>1
<1>3. DOMAIN pieces = 1..n /\ Len(pieces) = n /\ \A i \in 1..n : pieces[i] \in Inputs \X Nat
  <2>1. CASE c \in Batches
    BY <1>1, <2>1 DEF NextPieces
  <2>2. CASE c \notin Batches
    <3>1. pieces = <<<<c, done[c] + 1>>>>
      BY <2>2 DEF NextPieces
    <3> QED BY <1>1, <2>2, <3>1
  <2> QED BY <2>1, <2>2
<1> DEFINE seqs == Numbers(n)
<1>4. seqs \in Seq(1..(Modulus - 1)) /\ Len(seqs) = n
  BY <1>1, <1>2, NumbersFollow
<1>5. \A i \in 1..n : seqs[i] \in Nat /\ seqs[i] \in 1..(Modulus - 1)
  <2>1. \A i \in 1..n : seqs[i] \in 1..(Modulus - 1)
    <3> HIDE DEF seqs, n
    <3> QED BY <1>4, ElementOfSeq
  <2> QED BY <1>1, <2>1
<1> DEFINE f == [i \in 1..n |-> Line(link.sid, seqs[i], "input", pieces[i], asked[c])]
<1>6. x = [who |-> c, gen |-> asked[c], sid |-> link.sid, attempt |-> 0, nacked |-> FALSE,
           lines |-> f, answered |-> {}]
  <2> HIDE DEF pieces, n
  <2> QED BY <1>1, <1>3 DEF Exchange, NextExchange, pieces
<1> HIDE DEF pieces, n, seqs
<1>7. \A i \in 1..n : /\ f[i] \in LineType /\ f[i].sid = link.sid /\ f[i].op = "input"
  BY <1>1, <1>3, <1>5 DEF LineType, Line
<1>8. f \in Seq(LineType) /\ DOMAIN f = 1..n /\ Len(f) = n
  BY <1>2, <1>7
<1> HIDE DEF f
<1>9. f # <<>>
  BY <1>2, <1>8
<1>10. x \in ExchangeType
  <2> DEFINE g == asked[c]
  <2>1. c \in Whos /\ g \in Nat \cup {None} /\ 0 \in 0..2 /\ {} \in SUBSET Nat
    BY <1>1 DEF Whos
  <2>2. x = [who |-> c, gen |-> g, sid |-> link.sid, attempt |-> 0, nacked |-> FALSE,
             lines |-> f, answered |-> {}]
    BY <1>6
  <2> HIDE DEF g
  <2> QED BY <1>1, <1>8, <2>1, <2>2, ExchangeIs
<1>11. Last(Numbers(Len(NextPieces(c)))) \in 1..(Modulus - 1)
  BY <1>2, <1>3, <1>4, <1>5 DEF Last, seqs, pieces
<1> QED BY <1>1, <1>6, <1>7, <1>8, <1>9, <1>10, <1>11 DEF n

LEMMA SendPiecesStep == ASSUME IInv, NEW c \in Callers, SendPieces(c) PROVE IInv'
<1>1. /\ Typed /\ Current /\ OneAtATime /\ Addressed /\ Queued /\ Limited /\ Portions
      /\ Fates /\ Sorted /\ Told /\ DownIsOwn
  BY DEF IInv
<1>2. /\ c \in Inputs /\ pc[c] = "public" /\ Head(public) = c
      /\ UNCHANGED <<link, asked, done, toPico, toGateway, pico, executed, fence, faults>>
  BY DEF SendPieces, MayGo, uart, history
<1>3. public # <<>> /\ public[1] = c /\ 1 \in DOMAIN public
  <2>1. public # <<>>
    BY <1>1, <1>2 DEF Queued, Typed
  <2> QED BY <1>1, <1>2, <2>1, NotEmpty DEF Typed
<1>4. \A i \in DOMAIN wire : wire[i].who # c
  BY <1>1, <1>2 DEF Queued
<1>5. Current' /\ Sorted' /\ DownIsOwn'
  BY <1>1, <1>2 DEF Current, Sorted, DownIsOwn
<1>6. CASE asked[c] # link.generation \/ ~link.ready
  <2>1. PICK r \in {"interrupted", "unavailable"} : pc' = [pc EXCEPT ![c] = r]
    BY <1>2, <1>6 DEF SendPieces, GivenGeneration
  <2>2. public' = Tail(public) /\ UNCHANGED <<wire, sequence>>
    BY <1>2, <1>6 DEF SendPieces, GivenGeneration
  <2>3. Queued' /\ public' \in Seq(Inputs)
    <3>1. \A i \in DOMAIN wire' : wire'[i].who \in Callers =>
            wire'[i].who # c /\ pc[wire'[i].who] = "wire"
      BY <1>1, <1>4, <2>2 DEF Queued
    <3> QED BY <1>1, <1>2, <1>3, <2>1, <2>2, <3>1, Leaves
  <2>4. \A d \in Callers : pc'[d] = IF d = c THEN r ELSE pc[d]
    BY <1>1, <2>1 DEF Typed
  <2>5. Typed'
    BY <1>1, <1>2, <2>1, <2>2, <2>3 DEF Typed, Places, Answers
  <2>6. OneAtATime' /\ Addressed'
    BY <1>1, <1>2, <2>2 DEF OneAtATime, Addressed
  <2>7. Told'
    BY <1>1, <1>2, <2>2 DEF Told, Reached
  <2>8. Limited'
    <3>1. \A d \in Inputs : pc'[d] \in Waiting => pc[d] \in Waiting
      BY <2>1, <2>4 DEF Callers, Waiting
    <3> QED BY <1>1, <1>2, <3>1, LimitedHolds DEF Limited
  <2>9. Portions'
    BY <1>1, <1>2, <2>1, <2>2, <2>4 DEF Portions, Callers, Waiting
  <2>10. Fates'
    BY <1>1, <1>2, <2>1, <2>2, <2>4 DEF Fates
  <2> QED BY <1>5, <2>3, <2>5, <2>6, <2>7, <2>8, <2>9, <2>10 DEF IInv
<1>7. CASE ~(asked[c] # link.generation \/ ~link.ready)
  <2> DEFINE x == NextExchange(c)
  <2>1. /\ wire' = Append(wire, x) /\ sequence' = Last(Numbers(Len(NextPieces(c))))
        /\ pc' = [pc EXCEPT ![c] = "wire"] /\ UNCHANGED public
    BY <1>2, <1>7 DEF SendPieces, GivenGeneration, NextExchange
  <2>2. /\ x \in ExchangeType /\ x.who = c /\ x.attempt = 0 /\ x.answered = {}
        /\ x.sid = link.sid /\ link.sid \in 1..link.sessions /\ x.lines # <<>>
        /\ \A k \in DOMAIN x.lines : x.lines[k].sid = link.sid /\ x.lines[k].op # "junk"
        /\ Len(x.lines) = IF c \in Batches THEN Size[c] ELSE 1
        /\ sequence' \in 0..(Modulus - 1)
    <3>1. link.ready
      BY <1>7
    <3>2. x = NextExchange(c)
      OBVIOUS
    <3>3. Modulus \in Nat
      BY SerialAssumption
    <3> HIDE DEF x
    <3>4. /\ x \in ExchangeType /\ x.who = c /\ x.attempt = 0 /\ x.answered = {}
          /\ x.sid = link.sid /\ link.sid \in 1..link.sessions /\ x.lines # <<>>
          /\ \A k \in DOMAIN x.lines : x.lines[k].sid = link.sid /\ x.lines[k].op # "junk"
          /\ Len(x.lines) = IF c \in Batches THEN Size[c] ELSE 1
          /\ Last(Numbers(Len(NextPieces(c)))) \in 1..(Modulus - 1)
      BY <1>2, <3>1, <3>2, PiecesAre
    <3>5. sequence' \in 0..(Modulus - 1)
      BY <2>1, <3>3, <3>4
    <3> QED BY <3>4, <3>5
  <2> HIDE DEF x
  <2>3. /\ wire' \in Seq(ExchangeType)
        /\ DOMAIN wire' = DOMAIN wire \cup {Len(wire) + 1} /\ DOMAIN wire = 1..Len(wire)
        /\ \A i \in DOMAIN wire : wire'[i] = wire[i]
        /\ wire'[Len(wire) + 1] = x
        /\ OneAtATime' /\ Addressed' /\ Told'
    <3>1. link.sessions \in Nat /\ link.sessions <= link.sessions
      BY <1>1 DEF Typed, LinkType
    <3>2. \A i \in DOMAIN wire : wire[i].who = "handshake" => link.phase = "handshake"
      BY <1>1 DEF OneAtATime
    <3>3. x.who # "handshake"
      BY <1>2, <2>2, SerialAssumption
    <3> QED BY <1>2, <1>4, <2>1, <2>2, <3>1, <3>2, <3>3, Joins
  <2>4. Typed'
    BY <1>1, <1>2, <2>1, <2>2, <2>3 DEF Typed, Places, Waiting
  <2>5. \A d \in Callers : pc'[d] = IF d = c THEN "wire" ELSE pc[d]
    BY <1>1, <2>1 DEF Typed
  <2>6. \A d \in Inputs : d \in Callers
    BY DEF Callers
  <2>7. Queued'
    <3>1. \A i \in DOMAIN public : public[i] \in Inputs
      BY <1>1, ElementOfSeq, LenProperties DEF Typed
    <3>2. \A i \in DOMAIN wire' : wire'[i].who \in Callers => pc'[wire'[i].who] = "wire"
      BY <1>1, <2>2, <2>3, <2>5 DEF Queued
    <3>3. \A i \in DOMAIN public :
            pc'[public[i]] = "public" \/ (i = 1 /\ pc'[public[i]] = "wire")
      BY <1>1, <1>3, <2>5, <2>6, <3>1 DEF Queued
    <3>4. \A d \in Inputs : pc'[d] = "wire" => public # <<>> /\ public[1] = d
      BY <1>1, <1>3, <2>5, <2>6 DEF Queued
    <3> QED BY <1>1, <2>1, <2>5, <2>6, <3>2, <3>3, <3>4 DEF Queued
  <2>8. Limited'
    <3>1. \A d \in Inputs : pc'[d] \in Waiting => pc[d] \in Waiting
      BY <1>2, <2>5, <2>6 DEF Waiting
    <3> QED BY <1>1, <1>2, <3>1, LimitedHolds DEF Limited
  <2>9. Portions'
    <3>1. \A d \in Inputs : pc'[d] \in Waiting \cup {"idle"} => pc[d] \in Waiting \cup {"idle"}
      BY <1>2, <2>5, <2>6 DEF Waiting
    <3> QED BY <1>1, <1>2, <2>2, <2>3, <3>1 DEF Portions
  <2>10. Fates'
    BY <1>1, <1>2, <2>2, <2>3, <2>5 DEF Fates
  <2> QED BY <1>5, <2>3, <2>4, <2>7, <2>8, <2>9, <2>10 DEF IInv
<1> QED BY <1>6, <1>7

---------------------------------------------------------
(* The exchange that has the wire. *)

(* A write: the exchange has made one more attempt, and the UART holds lines of
   the session there is behind all the others. *)
LEMMA WriteStep ==
  ASSUME IInv, wire # <<>>, Head(wire).attempt \in {0, 1}, SameSession(Head(wire)),
         Head(wire).attempt = 0 => Head(wire).who = "handshake" \/ link.ready,
         Write
  PROVE  IInv'
<1> DEFINE x == wire[1]
           y == [x EXCEPT !.attempt = x.attempt + 1]
           u == Unanswered(y)
<1>1. /\ Typed /\ Current /\ OneAtATime /\ Addressed /\ Queued /\ Limited /\ Portions
      /\ Fates /\ Sorted /\ Told /\ DownIsOwn
  BY DEF IInv
<1>2. /\ Head(wire) = x /\ 1 \in DOMAIN wire /\ x \in ExchangeType /\ x.sid = link.sid
      /\ x.attempt \in {0, 1} /\ (x.attempt = 0 => x.who = "handshake" \/ link.ready)
  BY <1>1, NotEmpty DEF Typed, SameSession
<1>3. /\ wire' = [wire EXCEPT ![1] = y] /\ toPico' = toPico \o u
      /\ UNCHANGED <<link, sequence, pc, asked, done, public, toGateway, pico, executed,
                     fence, faults>>
  BY <1>2 DEF Write, Rewritten, callers, history
<1>4. /\ y \in ExchangeType /\ y.who = x.who /\ y.sid = x.sid /\ y.lines = x.lines
      /\ y.answered = x.answered /\ y.attempt = x.attempt + 1 /\ y.attempt \in 1..2
  BY <1>2 DEF ExchangeType
<1> HIDE DEF y
<1>5. /\ wire' \in Seq(ExchangeType) /\ DOMAIN wire' = DOMAIN wire
      /\ DOMAIN wire = 1..Len(wire) /\ wire'[1] = y
      /\ \A i \in DOMAIN wire : i # 1 => wire'[i] = wire[i]
  BY <1>1, <1>3, <1>4, Replaced DEF Typed
<1>6. /\ u \in Seq(LineType)
      /\ \A k \in DOMAIN u : u[k].sid = link.sid /\ u[k].op # "junk"
  <2>1. u \in Seq(LineType) /\ \A k \in DOMAIN u : \E i \in Pending(y) : u[k] = y.lines[i]
    BY <1>4, Written
  <2>2. \A i \in Pending(y) : y.lines[i].sid = link.sid /\ y.lines[i].op # "junk"
    BY <1>1, <1>2, <1>4 DEF Addressed, Pending
  <2> HIDE DEF u
  <2> QED BY <2>1, <2>2
<1> HIDE DEF x, u
<1>7. link.sid = link.sessions /\ link.sid \in Nat /\ link.sid > 0 /\ link.sid \in 1..link.sessions
  BY <1>1, <1>2 DEF Addressed, Current, Typed, LinkType, x
<1>8. /\ toPico' \in Seq(LineType) /\ DOMAIN toPico = 1..Len(toPico) /\ Len(toPico) \in Nat
      /\ DOMAIN toPico' = 1..(Len(toPico) + Len(u)) /\ Len(u) \in Nat
      /\ \A i \in DOMAIN toPico : toPico'[i] = toPico[i]
      /\ \A i \in DOMAIN toPico' : i \notin DOMAIN toPico =>
           toPico'[i].sid = link.sid /\ toPico'[i].op # "junk"
  <2>1. toPico \in Seq(LineType)
    BY <1>1 DEF Typed
  <2>2. /\ toPico' \in Seq(LineType) /\ DOMAIN toPico = 1..Len(toPico)
        /\ DOMAIN toPico' = 1..(Len(toPico) + Len(u))
        /\ \A i \in DOMAIN toPico : toPico'[i] = toPico[i]
        /\ \A i \in DOMAIN toPico' : i \notin DOMAIN toPico =>
             i - Len(toPico) \in DOMAIN u /\ toPico'[i] = u[i - Len(toPico)]
    BY <1>3, <1>6, <2>1, Joined
  <2>3. Len(toPico) \in Nat /\ Len(u) \in Nat
    BY <1>6, <2>1, LenProperties
  <2> QED BY <1>6, <2>2, <2>3
<1>9. Typed'
  BY <1>1, <1>3, <1>5, <1>8 DEF Typed
<1>10. Current' /\ Limited' /\ DownIsOwn'
  BY <1>1, <1>3 DEF Current, Limited, DownIsOwn
<1>11. OneAtATime'
  <2>1. \A i \in DOMAIN wire : wire'[i].who = wire[i].who /\ wire'[i].sid = wire[i].sid
    BY <1>4, <1>5 DEF x
  <2>2. \A i \in DOMAIN wire : wire'[i].attempt > 0 => i = 1
    BY <1>1, <1>5 DEF OneAtATime
  <2>3. \A i \in DOMAIN wire : wire'[i].attempt = 0 => wire'[i].answered = {}
    BY <1>1, <1>4, <1>5 DEF OneAtATime
  <2> QED BY <1>1, <1>3, <1>5, <2>1, <2>2, <2>3 DEF OneAtATime
<1>12. Addressed'
  <2>1. \A i \in DOMAIN wire : wire'[i].lines = wire[i].lines /\ wire'[i].sid = wire[i].sid
    BY <1>4, <1>5 DEF x
  <2>2. \A i \in DOMAIN toPico' : toPico'[i].op # "junk" => toPico'[i].sid \in 1..link.sessions
    BY <1>1, <1>7, <1>8 DEF Addressed
  <2> QED BY <1>1, <1>3, <1>5, <2>1, <2>2 DEF Addressed
<1>13. Queued' /\ Portions'
  <2>1. \A i \in DOMAIN wire : wire'[i].lines = wire[i].lines /\ wire'[i].who = wire[i].who
    BY <1>4, <1>5 DEF x
  <2> QED BY <1>1, <1>3, <1>5, <2>1 DEF Queued, Portions
<1>14. Fates'
  <2>1. x.who \in Callers =>
          (link.ready /\ link.sid = x.sid) \/ asked[x.who] < link.generation
    <3>1. x.who \in Callers => x.who # "handshake"
      BY SerialAssumption DEF Callers
    <3>2. CASE x.attempt = 0
      BY <1>2, <3>1, <3>2
    <3>3. CASE x.attempt = 1
      BY <1>1, <1>2, <3>3 DEF Fates, x
    <3> QED BY <1>2, <3>2, <3>3
  <2>2. \A i \in DOMAIN wire' : wire'[i].attempt > 0 /\ wire'[i].who \in Callers =>
          (link.ready /\ link.sid = wire'[i].sid) \/ asked[wire'[i].who] < link.generation
    BY <1>1, <1>4, <1>5, <2>1 DEF Fates
  <2> QED BY <1>1, <1>3, <2>2 DEF Fates
<1>15. Sorted'
  <2>0. \A i \in DOMAIN toPico' : toPico'[i].op = "junk" => toPico'[i] = Spoilt
    BY <1>1, <1>8 DEF Sorted
  <2> SUFFICES ASSUME NEW i \in DOMAIN toPico', NEW j \in DOMAIN toPico', i < j,
                      toPico'[i].op # "junk", toPico'[j].op # "junk"
               PROVE  toPico'[i].sid <= toPico'[j].sid
    BY <2>0 DEF Sorted
  <2>1. CASE j \in DOMAIN toPico
    <3>1. i \in DOMAIN toPico
      BY <1>8, <2>1
    <3> QED BY <1>1, <1>8, <2>1, <3>1 DEF Sorted
  <2>2. CASE j \notin DOMAIN toPico
    <3>1. toPico'[j].sid = link.sid
      BY <1>8, <2>2
    <3>2. CASE i \in DOMAIN toPico
      BY <1>1, <1>7, <1>8, <3>1, <3>2 DEF Addressed
    <3>3. CASE i \notin DOMAIN toPico
      BY <1>7, <1>8, <3>1, <3>3
    <3> QED BY <3>2, <3>3
  <2> QED BY <2>1, <2>2
<1>16. Told'
  <2>1. \A s \in Nat : Reached(s) => Reached(s)'
    BY <1>3, <1>7, <1>8 DEF Reached
  <2>2. \A i \in DOMAIN wire : wire'[i].answered = wire[i].answered /\ wire'[i].sid = wire[i].sid
    BY <1>4, <1>5 DEF x
  <2> QED BY <1>1, <1>3, <1>5, <2>1, <2>2, TypedParts DEF Told
<1> QED BY <1>9, <1>10, <1>11, <1>12, <1>13, <1>14, <1>15, <1>16 DEF IInv

LEMMA Unhealthier ==
  ASSUME NEW l \in LinkType, NEW m, m = Unhealthy(l)
  PROVE  /\ m \in LinkType /\ m.phase = l.phase /\ m.sid = l.sid /\ m.sessions = l.sessions
         /\ ~m.ready /\ m.disconnect
         /\ l.generation \in Nat /\ m.generation \in Nat /\ l.generation <= m.generation
         /\ l.ready => l.generation < m.generation
<1> DEFINE g == IF l.ready \/ ~l.disconnect THEN l.generation + 1 ELSE l.generation
<1>1. l.generation \in Nat /\ g \in Nat /\ l.generation <= g
      /\ (l.ready => l.generation < g)
  BY DEF LinkType
<1>2. m = [l EXCEPT !.ready = FALSE, !.disconnect = TRUE, !.generation = g]
  BY DEF Unhealthy
<1> HIDE DEF g
<1>3. /\ m \in LinkType /\ m.phase = l.phase /\ m.sid = l.sid /\ m.sessions = l.sessions
      /\ ~m.ready /\ m.disconnect /\ m.generation = g
  BY <1>1, <1>2 DEF LinkType
<1> QED BY <1>1, <1>3

(* The link as an exchange leaves it: it is published by a handshake only, and
   when it is withdrawn the generation moves on. *)
LEMMA LinkLeft ==
  ASSUME IInv, wire # <<>>, NEW l \in {link, Unhealthy(link)}, NEW result \in Answers,
         Ends(l, result)
  PROVE  /\ link' \in LinkType /\ link'.sid = link.sid /\ link'.sessions = link.sessions
         /\ link'.generation \in Nat /\ link.generation <= l.generation
         /\ l.generation <= link'.generation /\ l.generation \in Nat
         /\ link'.phase = "down" <=> link.phase = "down"
         /\ link'.ready => link'.phase = "up"
         /\ link'.ready => link.ready \/ (Head(wire).who = "handshake" /\ result = "ok")
         /\ Head(wire).who # "handshake" => link'.phase = link.phase
<1>1. link \in LinkType /\ Unhealthy(link) \in LinkType /\ l \in LinkType
  BY Unhealthier DEF IInv, Typed
<1>2. /\ l.phase = link.phase /\ l.sid = link.sid /\ l.sessions = link.sessions
      /\ link.generation \in Nat /\ l.generation \in Nat /\ link.generation <= l.generation
      /\ (l.ready => link.ready)
  <2>1. CASE l = link
    BY <1>1, <2>1 DEF LinkType
  <2>2. CASE l = Unhealthy(link)
    BY <1>1, <2>2, Unhealthier
  <2> QED BY <2>1, <2>2
<1>3. Head(wire) = wire[1] /\ 1 \in DOMAIN wire
  BY NotEmpty DEF IInv, Typed
<1>4. link.ready => link.phase = "up"
  BY DEF IInv, Current
<1>5. CASE link' = l
  BY <1>1, <1>2, <1>4, <1>5
<1>6. CASE link' = Unhealthy(l)
  BY <1>1, <1>2, <1>6, Unhealthier
<1>7. CASE Head(wire).who = "handshake" /\ HandshakeEnds(l, result)
  <2>1. link.phase = "handshake"
    BY <1>3, <1>7 DEF IInv, OneAtATime
  <2>2. CASE result = "ok" /\ ~l.disconnect
    <3>1. link' = [l EXCEPT !.phase = "up", !.ready = TRUE]
      BY <1>7, <2>2 DEF HandshakeEnds
    <3>2. link' \in LinkType /\ link'.phase = "up" /\ link'.sid = l.sid
          /\ link'.sessions = l.sessions /\ link'.generation = l.generation
      BY <1>1, <3>1 DEF LinkType
    <3> QED BY <1>2, <1>7, <2>1, <2>2, <3>2
  <2>3. CASE ~(result = "ok" /\ ~l.disconnect)
    <3> DEFINE m == Unhealthy(l)
    <3>1. link' = [m EXCEPT !.phase = "failed"]
      BY <1>7, <2>3 DEF HandshakeEnds
    <3>2. /\ m \in LinkType /\ m.sid = l.sid /\ m.sessions = l.sessions /\ ~m.ready
          /\ m.generation \in Nat /\ l.generation <= m.generation
      BY <1>1, Unhealthier
    <3> HIDE DEF m
    <3>3. link' \in LinkType /\ link'.phase = "failed" /\ link'.sid = m.sid
          /\ link'.sessions = m.sessions /\ link'.generation = m.generation /\ ~link'.ready
      BY <3>1, <3>2 DEF LinkType
    <3> QED BY <1>2, <1>7, <2>1, <3>2, <3>3
  <2> QED BY <2>2, <2>3
<1>8. \/ link' = l \/ link' = Unhealthy(l)
      \/ Head(wire).who = "handshake" /\ HandshakeEnds(l, result)
  BY DEF Ends, HeartbeatEnds, HeartbeatLink, ReleaseEnds, InputEnds
<1> QED BY <1>5, <1>6, <1>7, <1>8

(* What the end of an exchange does to its caller. *)
LEMMA CallerLeft ==
  ASSUME IInv, wire # <<>>, NEW l \in {link, Unhealthy(link)}, NEW result \in Answers,
         Ends(l, result),
         result = "unknown" /\ Head(wire).who \in Callers =>
           asked[Head(wire).who] < l.generation
  PROVE  /\ pc' \in [Callers -> Places] /\ done' \in [Inputs -> Nat]
         /\ public' \in Seq(Inputs) /\ fence' \in Nat /\ fence' <= link'.generation
         /\ asked' = asked
         /\ Queued' /\ Portions'
         /\ \A d \in Inputs : pc'[d] \in Waiting => pc[d] \in Waiting
         /\ \A d \in Callers : pc'[d] = "unknown" => asked[d] < link'.generation
<1> DEFINE who == Head(wire).who
<1>1. /\ Typed /\ OneAtATime /\ Queued /\ Portions /\ Fates
  BY DEF IInv
<1>2. Head(wire) = wire[1] /\ 1 \in DOMAIN wire /\ wire[1] \in ExchangeType
  BY <1>1, NotEmpty DEF Typed
<1>3. /\ link'.generation \in Nat /\ link.generation <= link'.generation
      /\ l.generation <= link'.generation /\ l.generation \in Nat /\ link.generation \in Nat
  BY LinkLeft, TypedParts
<1>4. /\ wire' = Tail(wire)
      /\ DOMAIN wire' = 1..(Len(wire) - 1) /\ Len(wire) \in Nat /\ DOMAIN wire = 1..Len(wire)
      /\ \A i \in DOMAIN wire' : i + 1 \in DOMAIN wire /\ wire'[i] = wire[i + 1]
  BY <1>1, Shortened DEF Typed, Ends
<1>5. \A i \in DOMAIN wire' :
        /\ wire'[i].who # who
        /\ wire'[i].who \in Callers => pc[wire'[i].who] = "wire"
  <2>1. \A i \in DOMAIN wire' : i + 1 # 1
    BY <1>4
  <2> QED BY <1>1, <1>2, <1>4, <2>1 DEF OneAtATime, Queued
<1>6. \A i \in DOMAIN wire' : wire'[i].who \in Inputs =>
        Len(wire'[i].lines) = IF wire'[i].who \in Batches THEN Size[wire'[i].who] ELSE 1
  BY <1>1, <1>4 DEF Portions
<1>7. \A d \in Callers : asked[d] \in Nat /\ asked[d] <= link'.generation
  BY <1>1, <1>3 DEF Fates, Typed
<1>8. fence \in Nat /\ fence <= link'.generation
  BY <1>1, <1>3 DEF Fates, Typed
<1>9. \A d \in Callers : pc[d] = "unknown" => asked[d] < link'.generation
  BY <1>1, <1>3, <1>7 DEF Fates
<1>10. CASE UNCHANGED <<pc, asked, done, public, fence>>
  <2>1. Queued'
    BY <1>1, <1>5, <1>10 DEF Queued
  <2>2. Portions'
    BY <1>1, <1>6, <1>10 DEF Portions
  <2> QED BY <1>1, <1>8, <1>9, <1>10, <2>1, <2>2 DEF Typed
<1>11. CASE who \in Releases /\ ReleaseEnds(who, l, result)
  <2>1. /\ pc' = [pc EXCEPT ![who] = result] /\ UNCHANGED <<asked, done, public>>
        /\ fence' \in {fence, asked[who]}
        /\ who \in Callers /\ who \notin Inputs /\ pc[who] = "wire"
    BY <1>1, <1>2, <1>11, SerialAssumption DEF ReleaseEnds, Callers, Queued
  <2>2. \A d \in Callers : pc'[d] = IF d = who THEN result ELSE pc[d]
    BY <1>1, <2>1 DEF Typed
  <2>3. \A d \in Inputs : d \in Callers /\ pc'[d] = pc[d]
    BY <2>1, <2>2 DEF Callers
  <2>4. Queued'
    <3>1. \A i \in DOMAIN public : public[i] \in Inputs
      BY <1>1, ElementOfSeq, LenProperties DEF Typed
    <3>2. \A i \in DOMAIN wire' : wire'[i].who \in Callers => pc'[wire'[i].who] = "wire"
      BY <1>5, <2>2
    <3> QED BY <1>1, <2>1, <2>3, <3>1, <3>2 DEF Queued
  <2>5. Portions'
    BY <1>1, <1>6, <2>1, <2>3 DEF Portions
  <2>6. \A d \in Callers : pc'[d] = "unknown" => asked[d] < link'.generation
    BY <1>3, <1>7, <1>9, <2>1, <2>2
  <2>7. pc' \in [Callers -> Places] /\ done' \in [Inputs -> Nat] /\ public' \in Seq(Inputs)
    BY <1>1, <2>1 DEF Typed, Places
  <2> QED BY <1>7, <1>8, <2>1, <2>3, <2>4, <2>5, <2>6, <2>7
<1>12. CASE who \in Inputs /\ InputEnds(who, l, result)
  <2> DEFINE sent == done[who] + Len(wire[1].lines)
  <2>1. who \in Inputs /\ who \in Callers /\ pc[who] = "wire" /\ who = wire[1].who
    BY <1>1, <1>2, <1>12 DEF Queued, Callers
  <2>2. public # <<>> /\ public[1] = who /\ 1 \in DOMAIN public
    BY <1>1, <2>1, NotEmpty DEF Queued, Typed
  <2>3. /\ done[who] \in Nat /\ Size[who] \in Nat /\ sent \in Nat /\ sent <= Size[who]
        /\ (who \in Batches => sent = Size[who])
    <3>1. /\ done[who] \in Nat /\ Size[who] \in Nat /\ done[who] < Size[who]
          /\ (who \in Batches => done[who] = 0)
      BY <1>1, <2>1, SerialAssumption DEF Portions, Typed, Waiting
    <3>2. Len(wire[1].lines) = IF who \in Batches THEN Size[who] ELSE 1
      BY <1>1, <1>2, <2>1 DEF Portions
    <3> QED BY <3>1, <3>2
  <2>4. UNCHANGED <<asked, fence>>
    BY <1>12 DEF InputEnds
  <2>5. ASSUME NEW r \in Answers, pc' = [pc EXCEPT ![who] = r], public' = Tail(public),
               done' = done \/ done' = [done EXCEPT ![who] = sent],
               r = "unknown" => asked[who] < link'.generation
        PROVE  /\ pc' \in [Callers -> Places] /\ done' \in [Inputs -> Nat]
               /\ public' \in Seq(Inputs) /\ Queued' /\ Portions'
               /\ \A d \in Inputs : pc'[d] \in Waiting => pc[d] \in Waiting
               /\ \A d \in Callers : pc'[d] = "unknown" => asked[d] < link'.generation
    <3>1. r \notin {"public", "wire", "entering", "idle"}
      BY DEF Answers
    <3>2. Queued' /\ public' \in Seq(Inputs)
      BY <1>1, <1>5, <2>1, <2>2, <2>5, <3>1, Leaves
    <3>3. pc' \in [Callers -> Places] /\ \A d \in Callers : pc'[d] = IF d = who THEN r ELSE pc[d]
      BY <1>1, <2>5 DEF Typed, Places
    <3>4. done' \in [Inputs -> Nat] /\ \A d \in Inputs : d # who => done'[d] = done[d]
      BY <1>1, <2>3, <2>5 DEF Typed
    <3>5. done'[who] \in {done[who], sent}
      BY <1>1, <2>1, <2>5 DEF Typed
    <3>6. \A d \in Inputs : d \in Callers
      BY DEF Callers
    <3>7. Portions'
      <4>1. \A d \in Inputs : done'[d] <= Size[d]
        BY <1>1, <2>3, <3>4, <3>5 DEF Portions
      <4>2. \A d \in Inputs : pc'[d] \in Waiting \cup {"idle"} =>
              done'[d] < Size[d] /\ (d \in Batches => done'[d] = 0)
        BY <1>1, <3>1, <3>3, <3>4, <3>6 DEF Portions, Waiting
      <4> QED BY <1>6, <4>1, <4>2 DEF Portions
    <3>8. \A d \in Inputs : pc'[d] \in Waiting => pc[d] \in Waiting
      BY <3>1, <3>3, <3>6 DEF Waiting
    <3>9. \A d \in Callers : pc'[d] = "unknown" => asked[d] < link'.generation
      BY <1>9, <2>5, <3>3
    <3> QED BY <3>2, <3>3, <3>4, <3>7, <3>8, <3>9
  <2>6. CASE result # "ok"
    <3>1. pc' = [pc EXCEPT ![who] = result] /\ public' = Tail(public) /\ done' = done
      BY <1>12, <2>6 DEF InputEnds
    <3>2. result = "unknown" => asked[who] < link'.generation
      BY <1>3, <1>7, <2>1
    <3> QED BY <1>8, <2>4, <2>5, <3>1, <3>2
  <2>7. CASE result = "ok" /\ ~(sent < Size[who])
    <3>1. pc' = [pc EXCEPT ![who] = "ok"] /\ public' = Tail(public)
          /\ done' = [done EXCEPT ![who] = sent]
      BY <1>2, <1>12, <2>7 DEF InputEnds
    <3>2. "ok" \in Answers
      BY DEF Answers
    <3> HIDE DEF sent
    <3> QED BY <1>8, <2>4, <2>5, <3>1, <3>2
  <2>8. CASE result = "ok" /\ sent < Size[who]
    <3>1. pc' = [pc EXCEPT ![who] = "public"] /\ public' = public
          /\ done' = [done EXCEPT ![who] = sent]
      BY <1>2, <1>12, <2>8 DEF InputEnds
    <3>2. pc' \in [Callers -> Places]
          /\ \A d \in Callers : pc'[d] = IF d = who THEN "public" ELSE pc[d]
      BY <1>1, <3>1 DEF Typed, Places, Waiting
    <3>3. done' \in [Inputs -> Nat]
          /\ \A d \in Inputs : done'[d] = IF d = who THEN sent ELSE done[d]
      BY <1>1, <2>3, <3>1 DEF Typed
    <3>4. \A d \in Inputs : d \in Callers
      BY DEF Callers
    <3>5. who \notin Batches
      BY <2>3, <2>8
    <3>6. Portions'
      <4>1. \A d \in Inputs : done'[d] <= Size[d]
        BY <1>1, <2>3, <3>3 DEF Portions
      <4>2. \A d \in Inputs : pc'[d] \in Waiting \cup {"idle"} =>
              done'[d] < Size[d] /\ (d \in Batches => done'[d] = 0)
        BY <1>1, <2>8, <3>2, <3>3, <3>4, <3>5 DEF Portions
      <4> QED BY <1>6, <4>1, <4>2 DEF Portions
    <3>7. Queued'
      <4>1. \A i \in DOMAIN public : public[i] \in Inputs
        BY <1>1, ElementOfSeq, LenProperties DEF Typed
      <4>2. \A i \in DOMAIN wire' : wire'[i].who \in Callers => pc'[wire'[i].who] = "wire"
        BY <1>5, <3>2
      <4>3. \A i \in DOMAIN public :
              pc'[public[i]] = "public" \/ (i = 1 /\ pc'[public[i]] = "wire")
        BY <1>1, <3>2, <3>4, <4>1 DEF Queued
      <4>4. \A d \in Inputs : pc'[d] = "public" => \E i \in DOMAIN public : public[i] = d
        BY <1>1, <2>2, <3>2, <3>4 DEF Queued
      <4>5. \A d \in Inputs : pc'[d] = "wire" => public # <<>> /\ public[1] = d
        BY <1>1, <3>2, <3>4 DEF Queued
      <4> QED BY <1>1, <3>1, <4>2, <4>3, <4>4, <4>5 DEF Queued
    <3>8. \A d \in Inputs : pc'[d] \in Waiting => pc[d] \in Waiting
      BY <2>1, <3>2, <3>4 DEF Waiting
    <3>9. \A d \in Callers : pc'[d] = "unknown" => asked[d] < link'.generation
      BY <1>9, <3>2
    <3>10. public' \in Seq(Inputs)
      BY <1>1, <3>1 DEF Typed
    <3> QED BY <1>8, <2>4, <3>2, <3>3, <3>6, <3>7, <3>8, <3>9, <3>10
  <2> QED BY <2>6, <2>7, <2>8
<1> QED BY <1>10, <1>11, <1>12 DEF Ends, HandshakeEnds, HeartbeatEnds, callers

LEMMA EndsStep ==
  ASSUME IInv, wire # <<>>, NEW l \in {link, Unhealthy(link)}, NEW result \in Answers,
         Ends(l, result),
         result = "unknown" /\ Head(wire).who \in Callers =>
           asked[Head(wire).who] < l.generation,
         result = "ok" /\ Head(wire).who = "handshake" => Reached(link.sid),
         UNCHANGED <<sequence, toGateway, pico, executed>>, faults' \in Nat,
         toPico' = toPico \/ toPico' = Append(toPico, Spoilt)
  PROVE  IInv'
<1>1. /\ Typed /\ Current /\ OneAtATime /\ Addressed /\ Queued /\ Limited /\ Portions
      /\ Fates /\ Sorted /\ Told /\ DownIsOwn
  BY DEF IInv
<1>2. /\ link' \in LinkType /\ link'.sid = link.sid /\ link'.sessions = link.sessions
      /\ link'.generation \in Nat /\ link.generation <= link'.generation
      /\ link'.phase = "down" <=> link.phase = "down"
      /\ link'.ready => link'.phase = "up"
      /\ link'.ready => link.ready \/ (Head(wire).who = "handshake" /\ result = "ok")
      /\ Head(wire).who # "handshake" => link'.phase = link.phase
      /\ link.generation \in Nat
  <2>1. /\ link' \in LinkType /\ link'.sid = link.sid /\ link'.sessions = link.sessions
        /\ link'.generation \in Nat /\ link.generation <= l.generation
        /\ l.generation <= link'.generation /\ l.generation \in Nat
        /\ link'.phase = "down" <=> link.phase = "down"
        /\ link'.ready => link'.phase = "up"
        /\ link'.ready => link.ready \/ (Head(wire).who = "handshake" /\ result = "ok")
        /\ Head(wire).who # "handshake" => link'.phase = link.phase
    BY LinkLeft
  <2> QED BY <2>1, TypedParts
<1>3. /\ pc' \in [Callers -> Places] /\ done' \in [Inputs -> Nat]
      /\ public' \in Seq(Inputs) /\ fence' \in Nat /\ fence' <= link'.generation
      /\ asked' = asked
      /\ Queued' /\ Portions'
      /\ \A d \in Inputs : pc'[d] \in Waiting => pc[d] \in Waiting
      /\ \A d \in Callers : pc'[d] = "unknown" => asked[d] < link'.generation
  BY CallerLeft
<1>4. Head(wire) = wire[1] /\ 1 \in DOMAIN wire
  BY <1>1, NotEmpty DEF Typed
<1>5. /\ wire' \in Seq(ExchangeType) /\ Len(wire) \in Nat
      /\ DOMAIN wire' = 1..(Len(wire) - 1) /\ DOMAIN wire = 1..Len(wire)
      /\ \A i \in DOMAIN wire' : i + 1 \in DOMAIN wire /\ wire'[i] = wire[i + 1]
  BY <1>1, Shortened DEF Typed, Ends
<1>6. \A i \in DOMAIN wire' : wire'[i].attempt = 0 /\ wire'[i].answered = {}
  <2> SUFFICES ASSUME NEW i \in DOMAIN wire'
               PROVE  wire[i + 1].attempt = 0 /\ wire[i + 1].answered = {}
    BY <1>5
  <2>1. i + 1 # 1 /\ i + 1 \in DOMAIN wire
    BY <1>5
  <2>2. wire[i + 1].attempt \in 0..2
    BY <2>1, TypedParts DEF ExchangeType
  <2> QED BY <1>1, <2>1, <2>2 DEF OneAtATime
<1>7. /\ toPico' \in Seq(LineType) /\ DOMAIN toPico = 1..Len(toPico)
      /\ \A i \in DOMAIN toPico' : toPico'[i].op # "junk" =>
           i \in DOMAIN toPico /\ toPico'[i] = toPico[i]
  <2>1. toPico \in Seq(LineType) /\ DOMAIN toPico = 1..Len(toPico)
    BY <1>1, LenProperties DEF Typed
  <2>2. CASE toPico' = toPico
    BY <2>1, <2>2
  <2>3. CASE toPico' = Append(toPico, Spoilt)
    <3>1. Spoilt \in LineType /\ Spoilt.op = "junk"
      BY DEF Spoilt, Line, LineType
    <3> HIDE DEF Spoilt
    <3> QED BY <2>1, <2>3, <3>1, Appended
  <2> QED BY <2>2, <2>3
<1>8. Typed'
  BY <1>1, <1>2, <1>3, <1>5, <1>7 DEF Typed
<1>9. Current'
  BY <1>1, <1>2 DEF Current
<1>10. OneAtATime'
  <2>1. \A i, j \in DOMAIN wire' : wire'[i].who = wire'[j].who => i = j
    <3>1. ASSUME NEW i \in DOMAIN wire', NEW j \in DOMAIN wire', wire'[i].who = wire'[j].who
          PROVE  i = j
      <4>1. i + 1 = j + 1
        BY <1>1, <1>5, <3>1 DEF OneAtATime
      <4> QED BY <1>5, <4>1
    <3> QED BY <3>1
  <2>2. ASSUME NEW i \in DOMAIN wire', wire'[i].who = "handshake"
        PROVE  link'.phase = "handshake" /\ wire'[i].sid = link'.sid
    <3>1. i + 1 # 1 /\ i + 1 \in DOMAIN wire /\ wire[i + 1].who = "handshake"
      BY <1>5, <2>2
    <3>2. link.phase = "handshake" /\ wire[i + 1].sid = link.sid
      BY <1>1, <3>1 DEF OneAtATime
    <3>3. Head(wire).who # "handshake"
      BY <1>1, <1>4, <3>1 DEF OneAtATime
    <3> QED BY <1>2, <1>5, <3>2, <3>3
  <2> QED BY <1>6, <2>1, <2>2 DEF OneAtATime
<1>11. Addressed'
  BY <1>1, <1>2, <1>5, <1>7 DEF Addressed
<1>12. Limited'
  BY <1>1, <1>3, LimitedHolds DEF Limited
<1>13. Fates'
  <2>1. \A d \in Callers : asked[d] <= link'.generation
    BY <1>1, <1>2 DEF Fates, Typed
  <2>2. \A i \in DOMAIN wire' : ~(wire'[i].attempt > 0)
    BY <1>6
  <2> QED BY <1>3, <2>1, <2>2 DEF Fates
<1>14. Sorted'
  BY <1>1, <1>7 DEF Sorted
<1>15. Told'
  <2>1. \A s \in Nat : Reached(s) => Reached(s)'
    BY <1>2, <1>7 DEF Reached
  <2>2. link'.ready => Reached(link.sid)
    BY <1>1, <1>2 DEF Told
  <2> QED BY <1>1, <1>2, <1>6, <2>1, <2>2, TypedParts DEF Told
<1>16. DownIsOwn'
  BY <1>1 DEF DownIsOwn
<1> QED BY <1>3, <1>8, <1>9, <1>10, <1>11, <1>12, <1>13, <1>14, <1>15, <1>16 DEF IInv

(* Giving up is an end that leaves the UART as it is. *)
LEMMA GivesUpStep ==
  ASSUME IInv, wire # <<>>, NEW l \in {link, Unhealthy(link)}, NEW result \in Answers,
         GivesUp(l, result),
         result = "unknown" /\ Head(wire).who \in Callers =>
           asked[Head(wire).who] < l.generation,
         result = "ok" /\ Head(wire).who = "handshake" => Reached(link.sid)
  PROVE  IInv'
<1>1. /\ Ends(l, result) /\ UNCHANGED <<sequence, toGateway, pico, executed>>
      /\ toPico' = toPico /\ faults' = faults
  BY DEF GivesUp, uart
<1>2. faults' \in Nat
  BY <1>1 DEF IInv, Typed
<1> QED BY <1>1, <1>2, EndsStep

(* After an exchange that has begun the session or the generation has passed. *)
LEMMA FateOfHead ==
  ASSUME IInv, wire # <<>>, Head(wire).attempt > 0, Head(wire).who \in Callers
  PROVE  /\ (link.ready /\ link.sid = Head(wire).sid)
            \/ asked[Head(wire).who] < link.generation
         /\ asked[Head(wire).who] \in Nat /\ asked[Head(wire).who] <= link.generation
         /\ asked[Head(wire).who] < Unhealthy(link).generation \/ ~link.ready
<1>1. Head(wire) = wire[1] /\ 1 \in DOMAIN wire
  BY NotEmpty DEF IInv, Typed
<1>2. /\ link.generation \in Nat /\ Unhealthy(link).generation \in Nat
      /\ (link.ready => link.generation < Unhealthy(link).generation)
  BY Unhealthier DEF IInv, Typed
<1>3. asked[Head(wire).who] \in Nat /\ asked[Head(wire).who] <= link.generation
  BY DEF IInv, Typed, Fates
<1> QED BY <1>1, <1>2, <1>3 DEF IInv, Fates

LEMMA UnhealthyRises ==
  ASSUME IInv
  PROVE  /\ link.generation \in Nat /\ Unhealthy(link).generation \in Nat
         /\ link.generation <= Unhealthy(link).generation
         /\ link.ready => link.generation < Unhealthy(link).generation
BY Unhealthier DEF IInv, Typed

LEMMA FailedWrite ==
  ASSUME IInv, wire # <<>>, WriteFails,
         Head(wire).who \in Callers =>
           link.ready \/ asked[Head(wire).who] < link.generation
  PROVE  IInv'
<1>1. /\ Ends(Unhealthy(link), "unknown")
      /\ UNCHANGED <<sequence, toGateway, pico, executed>>
      /\ toPico' = toPico \/ toPico' = Append(toPico, Spoilt)
      /\ faults' = faults + 1
  BY DEF WriteFails
<1>2. faults' \in Nat
  BY <1>1 DEF IInv, Typed
<1>3. "unknown" \in Answers
  BY DEF Answers
<1>4. Head(wire).who \in Callers => asked[Head(wire).who] < Unhealthy(link).generation
  <2>1. Head(wire).who \in Callers =>
          asked[Head(wire).who] \in Nat /\ asked[Head(wire).who] <= link.generation
    BY DEF IInv, Typed, Fates
  <2> QED BY <2>1, UnhealthyRises
<1> QED BY <1>1, <1>2, <1>3, <1>4, EndsStep

LEMMA FirstAttemptStep == ASSUME IInv, FirstAttempt PROVE IInv'
<1>1. wire # <<>> /\ Head(wire).attempt = 0
  BY DEF FirstAttempt
<1>2. {"interrupted", "unavailable"} \subseteq Answers
  BY DEF Answers
<1>3. Head(wire).who \in Callers => Head(wire).who # "handshake"
  BY SerialAssumption DEF Callers
<1>4. CASE GivesUp(link, "interrupted") \/ GivesUp(link, "unavailable")
  BY <1>1, <1>2, <1>4, GivesUpStep
<1>5. CASE /\ SameSession(Head(wire)) /\ (Head(wire).who = "handshake" \/ link.ready)
           /\ Write
  BY <1>1, <1>5, WriteStep
<1>6. CASE (Head(wire).who = "handshake" \/ link.ready) /\ WriteFails
  BY <1>1, <1>3, <1>6, FailedWrite
<1> QED BY <1>4, <1>5, <1>6 DEF FirstAttempt

LEMMA SecondAttemptStep == ASSUME IInv, SecondAttempt PROVE IInv'
<1>1. wire # <<>> /\ Head(wire).attempt = 1 /\ SameSession(Head(wire))
  BY DEF SecondAttempt
<1>2. {"interrupted", "unknown"} \subseteq Answers
  BY DEF Answers
<1>3. Head(wire).who \in Callers =>
        (link.ready /\ link.sid = Head(wire).sid) \/ asked[Head(wire).who] < link.generation
  BY <1>1, FateOfHead
<1>4. CASE GivesUp(link, "interrupted")
  BY <1>1, <1>2, <1>4, GivesUpStep
<1>5. CASE NotOvertaken(Head(wire)) /\ ~link.ready /\ GivesUp(link, "unknown")
  BY <1>1, <1>2, <1>3, <1>5, GivesUpStep
<1>6. CASE Write
  BY <1>1, <1>6, WriteStep
<1>7. CASE WriteFails
  BY <1>1, <1>3, <1>7, FailedWrite
<1> QED BY <1>4, <1>5, <1>6, <1>7 DEF SecondAttempt

LEMMA AckTimeoutStep == ASSUME IInv, AckTimeout PROVE IInv'
<1>1. wire # <<>> /\ Head(wire).attempt = 2
  BY DEF AckTimeout
<1>2. {"interrupted", "unknown"} \subseteq Answers
  BY DEF Answers
<1>3. Head(wire).who \in Callers =>
        asked[Head(wire).who] < Unhealthy(link).generation
  <2>1. Head(wire).who \in Callers =>
          /\ link.ready \/ asked[Head(wire).who] < link.generation
          /\ asked[Head(wire).who] \in Nat /\ asked[Head(wire).who] <= link.generation
    BY <1>1, FateOfHead
  <2> QED BY <2>1, UnhealthyRises
<1>4. CASE GivesUp(link, "interrupted")
  BY <1>1, <1>2, <1>4, GivesUpStep
<1>5. CASE GivesUp(Unhealthy(link), "unknown")
  BY <1>1, <1>2, <1>3, <1>5, GivesUpStep
<1> QED BY <1>4, <1>5 DEF AckTimeout, AfterTimeout

(* A handshake that was answered shows that the Pico has come to its session. *)
LEMMA CompleteStep == ASSUME IInv, Complete PROVE IInv'
<1>1. wire # <<>> /\ Head(wire).attempt > 0 /\ Pending(Head(wire)) = {}
  BY DEF Complete, Answered
<1>2. Head(wire) = wire[1] /\ 1 \in DOMAIN wire
  BY <1>1, NotEmpty DEF IInv, Typed
<1>3. Reached(wire[1].sid)
  <2>1. wire[1].lines # <<>> /\ wire[1].lines \in Seq(LineType)
    BY <1>2, TypedParts DEF IInv, Addressed
  <2>2. 1 \in DOMAIN wire[1].lines
    BY <2>1, NotEmpty
  <2>3. wire[1].answered # {}
    BY <1>1, <1>2, <2>2 DEF Pending
  <2> QED BY <1>2, <2>3 DEF IInv, Told
<1>4. Head(wire).who = "handshake" => Reached(link.sid)
  BY <1>2, <1>3 DEF IInv, OneAtATime
<1>5. PICK result \in {"nack", "interrupted", "ok"} : GivesUp(link, result)
  BY DEF Complete
<1>6. result \in Answers /\ result # "unknown"
  BY <1>5 DEF Answers
<1> QED BY <1>1, <1>4, <1>5, <1>6, GivesUpStep

LEMMA SessionEndedStep == ASSUME IInv, SessionEnded PROVE IInv'
<1>1. wire # <<>> /\ Head(wire).attempt > 0 /\ Head(wire).sid # link.sid
  BY DEF SessionEnded, SameSession
<1>2. "unknown" \in Answers
  BY DEF Answers
<1>3. Head(wire).who \in Callers =>
        /\ asked[Head(wire).who] < link.generation
        /\ asked[Head(wire).who] < Unhealthy(link).generation
  <2>1. Head(wire).who \in Callers =>
          asked[Head(wire).who] \in Nat /\ asked[Head(wire).who] < link.generation
    BY <1>1, FateOfHead
  <2> QED BY <2>1, UnhealthyRises
<1>4. CASE GivesUp(link, "unknown")
  BY <1>1, <1>2, <1>3, <1>4, GivesUpStep
<1>5. CASE /\ faults' = faults + 1 /\ Ends(Unhealthy(link), "unknown")
           /\ UNCHANGED <<sequence, uart, pico, executed>>
  <2>1. faults' \in Nat /\ toPico' = toPico /\ toGateway' = toGateway
    BY <1>5 DEF IInv, Typed, uart
  <2> QED BY <1>1, <1>2, <1>3, <1>5, <2>1, EndsStep
<1> QED BY <1>4, <1>5 DEF SessionEnded

---------------------------------------------------------
(* The supervisor. *)

LEMMA LinkIs ==
  ASSUME NEW phase \in {"down", "handshake", "up", "failed"}, NEW ready \in BOOLEAN,
         NEW disconnect \in BOOLEAN, NEW acknowledged \in BOOLEAN, NEW reading \in BOOLEAN,
         NEW sid \in Nat, NEW sessions \in 0..MaxSessions, NEW generation \in Nat
  PROVE  [phase |-> phase, ready |-> ready, disconnect |-> disconnect,
          acknowledged |-> acknowledged, reading |-> reading, sid |-> sid,
          sessions |-> sessions, generation |-> generation] \in LinkType
BY DEF LinkType

LEMMA LinkFields ==
  ASSUME NEW l \in LinkType
  PROVE  /\ l.ready \in BOOLEAN /\ l.disconnect \in BOOLEAN
         /\ l.generation \in Nat /\ l.generation + 1 \in Nat /\ l.sessions \in 0..MaxSessions
BY DEF LinkType

LEMMA OpenStep == ASSUME IInv, Open PROVE IInv'
<1> DEFINE n == link.sessions + 1
           line == Line(n, 0, "session", None, None)
           x == [who |-> "handshake", gen |-> None, sid |-> n, attempt |-> 0,
                 nacked |-> FALSE, answered |-> {}, lines |-> <<line>>]
<1>1. /\ Typed /\ Current /\ OneAtATime /\ Addressed /\ Queued /\ Limited /\ Portions
      /\ Fates /\ Sorted /\ Told /\ DownIsOwn
  BY DEF IInv
<1>2. /\ link.phase = "down" /\ link.sessions < MaxSessions
      /\ link' = [link EXCEPT !.phase = "handshake", !.disconnect = FALSE,
                              !.acknowledged = FALSE, !.reading = TRUE,
                              !.sid = n, !.sessions = n]
      /\ sequence' = 0 /\ wire' = Append(wire, x)
      /\ \E k \in 0..Len(toGateway) : toGateway' = SubSeq(toGateway, k + 1, Len(toGateway))
      /\ UNCHANGED <<pc, asked, done, public, toPico, pico, executed, fence, faults>>
  BY DEF Open, callers, history
<1>3. n \in 1..MaxSessions /\ n \in Nat /\ link.sessions \in Nat /\ link.sessions <= n
  <2>1. link.sessions \in Nat /\ MaxSessions \in Nat
    BY TypedParts, SerialAssumption
  <2> QED BY <1>2, <2>1
<1>4. line \in LineType /\ line.sid = n /\ line.op = "session"
  BY <1>3 DEF Line, LineType
<1> HIDE DEF n, line
<1>5. ~link.ready
  BY <1>1, <1>2 DEF Current
<1>6. /\ link' \in LinkType /\ link'.phase = "handshake" /\ link'.sid = n
      /\ link'.sessions = n /\ ~link'.ready /\ link'.generation = link.generation
  <2>1. link \in LinkType /\ n \in 0..MaxSessions
    BY <1>1, <1>3, SerialAssumption DEF Typed
  <2> DEFINE r == link.ready
             g == link.generation
             m == [phase |-> "handshake", ready |-> r, disconnect |-> FALSE,
                   acknowledged |-> FALSE, reading |-> TRUE, sid |-> n, sessions |-> n,
                   generation |-> g]
  <2>2. link' = m
    BY <1>2, <2>1 DEF LinkType
  <2>3. r \in BOOLEAN /\ g \in Nat /\ n \in Nat
    BY <1>3, <2>1, LinkFields
  <2>4. m \in LinkType
    <3> HIDE DEF r, g
    <3> QED BY <2>1, <2>3, LinkIs
  <2> QED BY <1>5, <2>2, <2>4
<1>7. /\ x \in ExchangeType /\ x.who = "handshake" /\ x.attempt = 0 /\ x.answered = {}
      /\ x.sid = n /\ x.lines # <<>>
      /\ \A k \in DOMAIN x.lines : x.lines[k].sid = n /\ x.lines[k].op # "junk"
  <2>1. <<line>> \in Seq(LineType) /\ <<line>> # <<>>
        /\ \A k \in DOMAIN <<line>> : <<line>>[k] = line
    BY <1>4
  <2>2. x \in ExchangeType
    BY <1>3, <2>1 DEF ExchangeType, Whos
  <2> QED BY <1>4, <2>1, <2>2
<1> HIDE DEF x
<1>8. \A i \in DOMAIN wire : wire[i].who # "handshake"
  BY <1>1, <1>2 DEF OneAtATime
<1>9. /\ toGateway' \in Seq(MessageType)
      /\ \A i \in DOMAIN toGateway' : \E j \in DOMAIN toGateway : toGateway'[i] = toGateway[j]
  <2>1. PICK k \in 0..Len(toGateway) : toGateway' = SubSeq(toGateway, k + 1, Len(toGateway))
    BY <1>2
  <2>2. toGateway \in Seq(MessageType) /\ DOMAIN toGateway = 1..Len(toGateway)
        /\ Len(toGateway) \in Nat /\ \A j \in 1..Len(toGateway) : toGateway[j] \in MessageType
    BY <1>1, LenProperties, ElementOfSeq DEF Typed
  <2>3. k + 1 \in Int /\ \A i \in (k + 1)..Len(toGateway) : toGateway[i] \in MessageType
    BY <2>2
  <2>4. /\ toGateway' \in Seq(MessageType)
        /\ Len(toGateway') = IF k + 1 <= Len(toGateway) THEN Len(toGateway) - (k + 1) + 1 ELSE 0
        /\ \A i \in 1..(Len(toGateway) - (k + 1) + 1) : toGateway'[i] = toGateway[(k + 1) + i - 1]
    BY <2>1, <2>2, <2>3, SubSeqProperties
  <2>5. DOMAIN toGateway' = 1..Len(toGateway')
    BY <2>4, LenProperties
  <2>6. ASSUME NEW i \in DOMAIN toGateway' PROVE \E j \in DOMAIN toGateway : toGateway'[i] = toGateway[j]
    <3>1. i \in 1..(Len(toGateway) - (k + 1) + 1) /\ (k + 1) + i - 1 \in 1..Len(toGateway)
      <4>1. i \in 1..Len(toGateway')
        BY <2>5
      <4>2. CASE k + 1 <= Len(toGateway)
        BY <2>2, <2>4, <4>1, <4>2
      <4>3. CASE ~(k + 1 <= Len(toGateway))
        BY <2>2, <2>4, <4>1, <4>3
      <4> QED BY <4>2, <4>3
    <3> QED BY <2>2, <2>4, <3>1
  <2> QED BY <2>4, <2>6
<1>10. /\ wire' \in Seq(ExchangeType)
       /\ DOMAIN wire' = DOMAIN wire \cup {Len(wire) + 1} /\ DOMAIN wire = 1..Len(wire)
       /\ \A i \in DOMAIN wire : wire'[i] = wire[i]
       /\ wire'[Len(wire) + 1] = x
       /\ OneAtATime' /\ Addressed' /\ Told'
  <2>1. n \in 1..n
    BY <1>3
  <2> QED BY <1>2, <1>3, <1>6, <1>7, <1>8, <1>9, <2>1, Joins
<1>11. Typed'
  <2>1. 0 \in 0..(Modulus - 1)
    BY SerialAssumption
  <2> QED BY <1>1, <1>2, <1>6, <1>9, <1>10, <2>1 DEF Typed
<1>12. Current'
  BY <1>3, <1>6 DEF Current
<1>13. Sorted' /\ DownIsOwn' /\ Limited'
  BY <1>1, <1>2 DEF Sorted, DownIsOwn, Limited
<1>14. x.who \notin Callers
  BY <1>7, SerialAssumption DEF Callers
<1>15. Queued'
  BY <1>1, <1>2, <1>10, <1>14 DEF Queued
<1>16. Portions'
  BY <1>1, <1>2, <1>10, <1>14 DEF Portions, Callers
<1>17. Fates'
  BY <1>1, <1>2, <1>5, <1>6, <1>7, <1>10 DEF Fates
<1> QED BY <1>10, <1>11, <1>12, <1>13, <1>15, <1>16, <1>17 DEF IInv

LEMMA TeardownStep == ASSUME IInv, Teardown PROVE IInv'
<1>1. /\ Typed /\ Current /\ OneAtATime /\ Addressed /\ Queued /\ Limited /\ Portions
      /\ Fates /\ Sorted /\ Told /\ DownIsOwn
  BY DEF IInv
<1>2. /\ link.phase \in {"up", "failed"}
      /\ link' = [link EXCEPT !.phase = "down", !.ready = FALSE, !.reading = FALSE,
                              !.sid = 0, !.acknowledged = FALSE, !.generation = @ + 1]
      /\ \/ UNCHANGED wire
         \/ \E k \in DOMAIN wire : wire' = RemoveAt(wire, k)
      /\ UNCHANGED <<sequence, pc, asked, done, public, toPico, toGateway, pico, executed,
                     fence, faults>>
  BY DEF Teardown, callers, uart, history
<1>3. /\ link' \in LinkType /\ link'.phase = "down" /\ link'.sid = 0
      /\ link'.sessions = link.sessions /\ ~link'.ready /\ link.generation \in Nat
      /\ link'.generation = link.generation + 1
  <2> DEFINE d == link.disconnect
             g == link.generation + 1
             k == link.sessions
             m == [phase |-> "down", ready |-> FALSE, disconnect |-> d, acknowledged |-> FALSE,
                   reading |-> FALSE, sid |-> 0, sessions |-> k, generation |-> g]
  <2>1. link \in LinkType
    BY <1>1 DEF Typed
  <2>2. link' = m
    BY <1>2, <2>1 DEF LinkType
  <2>3. d \in BOOLEAN /\ g \in Nat /\ k \in 0..MaxSessions /\ link.generation \in Nat
    BY <2>1, LinkFields
  <2>4. m \in LinkType
    <3> HIDE DEF d, g, k
    <3> QED BY <2>3, LinkIs
  <2> QED BY <2>2, <2>3, <2>4
<1>4. /\ wire' \in Seq(ExchangeType) /\ DOMAIN wire' \subseteq Nat
      /\ \A i \in DOMAIN wire' : \E j \in DOMAIN wire :
           wire'[i] = wire[j] /\ i <= j /\ j <= i + 1
      /\ \A i, j \in DOMAIN wire' : wire'[i].who = wire'[j].who => i = j
  <2>1. wire \in Seq(ExchangeType) /\ DOMAIN wire = 1..Len(wire) /\ Len(wire) \in Nat
    BY <1>1, LenProperties DEF Typed
  <2>2. CASE UNCHANGED wire
    BY <1>1, <2>1, <2>2 DEF OneAtATime
  <2>3. ASSUME NEW k \in DOMAIN wire, wire' = RemoveAt(wire, k)
        PROVE  /\ wire' \in Seq(ExchangeType) /\ DOMAIN wire' \subseteq Nat
               /\ \A i \in DOMAIN wire' : \E j \in DOMAIN wire :
                    wire'[i] = wire[j] /\ i <= j /\ j <= i + 1
               /\ \A i, j \in DOMAIN wire' : wire'[i].who = wire'[j].who => i = j
    <3>1. /\ wire' \in Seq(ExchangeType) /\ DOMAIN wire' = 1..(Len(wire) - 1)
          /\ \A i \in 1..(Len(wire) - 1) :
               wire'[i] = IF i < k THEN wire[i] ELSE wire[i + 1]
      BY <2>1, <2>3, Removed
    <3>2. \A i \in DOMAIN wire' : i \in DOMAIN wire /\ i + 1 \in DOMAIN wire
      BY <2>1, <3>1
    <3>3. ASSUME NEW i \in DOMAIN wire', NEW j \in DOMAIN wire',
                 wire'[i].who = wire'[j].who
          PROVE  i = j
      <4> DEFINE a == IF i < k THEN i ELSE i + 1
                 b == IF j < k THEN j ELSE j + 1
      <4>1. a \in DOMAIN wire /\ b \in DOMAIN wire /\ wire'[i] = wire[a] /\ wire'[j] = wire[b]
        BY <3>1, <3>2
      <4>2. a = b
        BY <1>1, <3>3, <4>1 DEF OneAtATime
      <4> QED BY <2>1, <3>1, <4>2
    <3>4. \A i \in DOMAIN wire' : \E j \in DOMAIN wire :
            wire'[i] = wire[j] /\ i <= j /\ j <= i + 1
      BY <2>1, <3>1, <3>2
    <3> QED BY <3>1, <3>3, <3>4
  <2> QED BY <1>2, <2>2, <2>3
<1>5. \A i \in DOMAIN wire' : wire'[i].who # "handshake"
  BY <1>1, <1>2, <1>4 DEF OneAtATime
<1>6. OneAtATime'
  <2>1. \A i \in DOMAIN wire' : wire'[i].attempt > 0 => i = 1
    <3>1. ASSUME NEW i \in DOMAIN wire', wire'[i].attempt > 0 PROVE i = 1
      <4>1. PICK j \in DOMAIN wire : wire'[i] = wire[j] /\ i <= j
        BY <1>4
      <4>2. j = 1
        BY <1>1, <3>1, <4>1 DEF OneAtATime
      <4>3. i \in 1..Len(wire')
        BY <1>4, LenProperties
      <4> QED BY <4>1, <4>2, <4>3
    <3> QED BY <3>1
  <2>2. \A i \in DOMAIN wire' : wire'[i].attempt = 0 => wire'[i].answered = {}
    BY <1>1, <1>4 DEF OneAtATime
  <2> QED BY <1>4, <1>5, <2>1, <2>2 DEF OneAtATime
<1>7. Typed'
  BY <1>1, <1>2, <1>3, <1>4 DEF Typed
<1>8. Current'
  BY <1>3 DEF Current
<1>9. Addressed'
  <2>1. \A i \in DOMAIN wire' :
          /\ wire'[i].sid \in 1..link.sessions /\ wire'[i].lines # <<>>
          /\ \A k \in DOMAIN wire'[i].lines :
               wire'[i].lines[k].sid = wire'[i].sid /\ wire'[i].lines[k].op # "junk"
    BY <1>1, <1>4 DEF Addressed
  <2> QED BY <1>1, <1>2, <1>3, <2>1 DEF Addressed
<1>10. Queued'
  <2>1. \A i \in DOMAIN wire' : wire'[i].who \in Callers => pc[wire'[i].who] = "wire"
    BY <1>1, <1>4 DEF Queued
  <2> QED BY <1>1, <1>2, <2>1 DEF Queued
<1>11. Limited' /\ Sorted' /\ DownIsOwn'
  BY <1>1, <1>2 DEF Limited, Sorted, DownIsOwn
<1>12. Portions'
  <2>1. \A i \in DOMAIN wire' : wire'[i].who \in Inputs =>
          Len(wire'[i].lines) = IF wire'[i].who \in Batches THEN Size[wire'[i].who] ELSE 1
    BY <1>1, <1>4 DEF Portions
  <2> QED BY <1>1, <1>2, <2>1 DEF Portions
<1>13. Fates'
  <2>1. \A c \in Callers : asked[c] \in Nat /\ asked[c] <= link.generation
    BY <1>1 DEF Fates, Typed
  <2>2. fence \in Nat /\ fence <= link.generation
    BY <1>1 DEF Fates, Typed
  <2> QED BY <1>2, <1>3, <2>1, <2>2 DEF Fates
<1>14. Told'
  <2>1. \A s \in Nat : Reached(s) => Reached(s)'
    BY <1>2, <1>3 DEF Reached
  <2>2. \A i \in DOMAIN wire' : wire'[i].answered # {} => Reached(wire'[i].sid)
                                                          /\ wire'[i].sid \in Nat
    BY <1>1, <1>4, TypedParts DEF Told
  <2> QED BY <1>1, <1>2, <1>3, <2>1, <2>2, TypedParts DEF Told
<1> QED BY <1>6, <1>7, <1>8, <1>9, <1>10, <1>11, <1>12, <1>13, <1>14 DEF IInv

---------------------------------------------------------
(* The reader. *)

LEMMA LinkRead ==
  ASSUME IInv, NEW m, NEW a \in BOOLEAN,
         link' = IF IsFatal(m) THEN [Unhealthy(link) EXCEPT !.reading = FALSE]
                 ELSE [link EXCEPT !.acknowledged = a]
  PROVE  /\ link' \in LinkType /\ link'.phase = link.phase /\ link'.sid = link.sid
         /\ link'.sessions = link.sessions
         /\ link.generation \in Nat /\ link.generation <= link'.generation
         /\ link'.ready => link.ready
         /\ link.ready /\ ~link'.ready => link.generation < link'.generation
<1>1. link \in LinkType /\ link.generation \in Nat
  BY TypedParts DEF IInv, Typed
<1>2. CASE IsFatal(m)
  <2> DEFINE u == Unhealthy(link)
  <2>1. /\ u \in LinkType /\ u.phase = link.phase /\ u.sid = link.sid
        /\ u.sessions = link.sessions /\ ~u.ready
        /\ link.generation \in Nat /\ u.generation \in Nat /\ link.generation <= u.generation
        /\ (link.ready => link.generation < u.generation)
    BY <1>1, Unhealthier
  <2>2. link' = [u EXCEPT !.reading = FALSE]
    BY <1>2
  <2> HIDE DEF u
  <2>3. /\ link' \in LinkType /\ link'.phase = u.phase /\ link'.sid = u.sid
        /\ link'.sessions = u.sessions /\ link'.ready = u.ready
        /\ link'.generation = u.generation
    BY <2>1, <2>2 DEF LinkType
  <2> QED BY <2>1, <2>3
<1>3. CASE ~IsFatal(m)
  <2>1. link' = [link EXCEPT !.acknowledged = a]
    BY <1>3
  <2>2. /\ link' \in LinkType /\ link'.phase = link.phase /\ link'.sid = link.sid
        /\ link'.sessions = link.sessions /\ link'.ready = link.ready
        /\ link'.generation = link.generation
    BY <1>1, <2>1 DEF LinkType
  <2> QED BY <1>1, <2>2
<1> QED BY <1>2, <1>3

(* What is on the wire, when at most an answer to its first exchange came in. *)
LEMMA WireRead ==
  ASSUME IInv, NEW m \in MessageType, Reached(m.sid),
         wire' = IF IsMine(m) /\ Awaited(m)
                 THEN [wire EXCEPT ![1].answered = @ \cup {m.seq},
                                   ![1].nacked = @ \/ m.kind = "nack"]
                 ELSE wire
  PROVE  /\ wire' \in Seq(ExchangeType) /\ DOMAIN wire' = DOMAIN wire
         /\ \A i \in DOMAIN wire :
              /\ wire'[i].who = wire[i].who /\ wire'[i].sid = wire[i].sid
              /\ wire'[i].lines = wire[i].lines /\ wire'[i].attempt = wire[i].attempt
              /\ wire'[i].answered # {} => Reached(wire[i].sid)
              /\ wire'[i].attempt = 0 => wire'[i].answered = {}
<1>1. wire \in Seq(ExchangeType)
  BY DEF IInv, Typed
<1>2. CASE IsMine(m) /\ Awaited(m)
  <2> DEFINE x == wire[1]
             k == x.nacked \/ m.kind = "nack"
             s == x.answered \cup {m.seq}
             y == [x EXCEPT !.answered = s, !.nacked = k]
  <2>1. wire # <<>> /\ Head(wire).attempt > 0 /\ m.sid = link.sid /\ Head(wire).sid = link.sid
    BY <1>2 DEF Awaited, SameSession, IsMine
  <2>2. Head(wire) = x /\ 1 \in DOMAIN wire /\ x \in ExchangeType
    BY <1>1, <2>1, NotEmpty
  <2>3. wire' = [wire EXCEPT ![1] = y]
    BY <1>2, <2>2 DEF ExchangeType
  <2>4. k \in BOOLEAN /\ s \in SUBSET Nat
    BY <2>2 DEF ExchangeType, MessageType
  <2> HIDE DEF k, s
  <2>5. /\ y \in ExchangeType /\ y.who = x.who /\ y.sid = x.sid /\ y.lines = x.lines
        /\ y.attempt = x.attempt
    BY <2>2, <2>4 DEF ExchangeType
  <2> HIDE DEF y
  <2>6. /\ wire' \in Seq(ExchangeType) /\ DOMAIN wire' = DOMAIN wire /\ wire'[1] = y
        /\ \A i \in DOMAIN wire : i # 1 => wire'[i] = wire[i]
    <3>1. y \in ExchangeType /\ wire # <<>>
      BY <2>1, <2>5
    <3> QED BY ONLY <1>1, <2>3, <3>1, Replaced
  <2>7. \A i \in DOMAIN wire :
          /\ wire[i].answered # {} => Reached(wire[i].sid)
          /\ wire[i].attempt = 0 => wire[i].answered = {}
    BY DEF IInv, Told, OneAtATime
  <2>8. Reached(wire[1].sid) /\ x.attempt # 0
    BY <2>1, <2>2 DEF ExchangeType
  <2> QED BY <2>2, <2>5, <2>6, <2>7, <2>8
<1>3. CASE ~(IsMine(m) /\ Awaited(m))
  BY <1>1, <1>3 DEF IInv, Told, OneAtATime
<1> QED BY <1>2, <1>3

LEMMA ReadLineStep == ASSUME IInv, ReadLine PROVE IInv'
<1> DEFINE m == toGateway[1]
           a == link.acknowledged \/ (IsMine(m) /\ m.kind = "ack" /\ m.seq = 0)
<1>1. /\ Typed /\ Current /\ OneAtATime /\ Addressed /\ Queued /\ Limited /\ Portions
      /\ Fates /\ Sorted /\ Told /\ DownIsOwn
  BY DEF IInv
<1>2. /\ toGateway # <<>> /\ toGateway' = Tail(toGateway)
      /\ UNCHANGED <<sequence, pc, asked, done, public, toPico, pico, executed, fence, faults>>
  BY DEF ReadLine, callers, history
<1>3. Head(toGateway) = m /\ 1 \in DOMAIN toGateway /\ m \in MessageType
  BY <1>1, <1>2, NotEmpty DEF Typed
<1>4. /\ link' = IF IsFatal(m) THEN [Unhealthy(link) EXCEPT !.reading = FALSE]
                 ELSE [link EXCEPT !.acknowledged = a]
      /\ wire' = IF IsMine(m) /\ Awaited(m)
                 THEN [wire EXCEPT ![1].answered = @ \cup {m.seq},
                                   ![1].nacked = @ \/ m.kind = "nack"]
                 ELSE wire
  BY <1>3 DEF ReadLine
<1>5. a \in BOOLEAN
  OBVIOUS
<1>6. Reached(m.sid)
  BY <1>1, <1>3 DEF Told
<1> HIDE DEF m, a
<1>7. /\ link' \in LinkType /\ link'.phase = link.phase /\ link'.sid = link.sid
      /\ link'.sessions = link.sessions
      /\ link.generation \in Nat /\ link.generation <= link'.generation
      /\ link'.ready => link.ready
      /\ link.ready /\ ~link'.ready => link.generation < link'.generation
  BY <1>4, <1>5, LinkRead
<1>8. /\ wire' \in Seq(ExchangeType) /\ DOMAIN wire' = DOMAIN wire
      /\ \A i \in DOMAIN wire :
           /\ wire'[i].who = wire[i].who /\ wire'[i].sid = wire[i].sid
           /\ wire'[i].lines = wire[i].lines /\ wire'[i].attempt = wire[i].attempt
           /\ wire'[i].answered # {} => Reached(wire[i].sid)
           /\ wire'[i].attempt = 0 => wire'[i].answered = {}
  BY <1>3, <1>4, <1>6, WireRead
<1>9. /\ toGateway' \in Seq(MessageType)
      /\ \A i \in DOMAIN toGateway' : \E j \in DOMAIN toGateway : toGateway'[i] = toGateway[j]
  BY <1>1, <1>2, Shortened DEF Typed
<1>10. Typed'
  BY <1>1, <1>2, <1>7, <1>8, <1>9 DEF Typed
<1>11. Current' /\ OneAtATime'
  BY <1>1, <1>7, <1>8 DEF Current, OneAtATime
<1>12. Addressed'
  BY <1>1, <1>2, <1>7, <1>8 DEF Addressed
<1>13. Queued' /\ Portions'
  BY <1>1, <1>2, <1>8 DEF Queued, Portions
<1>14. Limited' /\ Sorted' /\ DownIsOwn'
  BY <1>1, <1>2 DEF Limited, Sorted, DownIsOwn
<1>15. Fates'
  <2>1. \A c \in Callers : asked[c] \in Nat
    BY <1>1 DEF Typed
  <2>2. fence \in Nat /\ link'.generation \in Nat
    BY <1>1, <1>7 DEF Typed, LinkType
  <2>3. \A i \in DOMAIN wire : wire[i].attempt > 0 /\ wire[i].who \in Callers =>
          (link'.ready /\ link'.sid = wire[i].sid) \/ asked[wire[i].who] < link'.generation
    BY <1>1, <1>7, <2>1, <2>2 DEF Fates
  <2> QED BY <1>1, <1>2, <1>7, <1>8, <2>1, <2>2, <2>3 DEF Fates
<1>16. Told'
  <2>1. \A s \in Nat : Reached(s) => Reached(s)'
    BY <1>2, <1>7 DEF Reached
  <2> QED BY <1>1, <1>2, <1>7, <1>8, <1>9, <2>1, TypedParts DEF Told
<1> QED BY <1>10, <1>11, <1>12, <1>13, <1>14, <1>15, <1>16 DEF IInv

---------------------------------------------------------
(* The Pico and the UART. *)

(* A step beyond the UART. *)
LEMMA FarSide ==
  ASSUME IInv, UNCHANGED <<link, sequence, pc, asked, done, public, wire, fence>>,
         pico' \in PicoType, Len(pico'.cache) <= CacheSize, pico'.sid \in 0..link.sessions,
         DownIsOwn', toPico' \in Seq(LineType), Sorted',
         \A i \in DOMAIN toPico' : toPico'[i].op # "junk" =>
           \E j \in DOMAIN toPico : toPico'[i] = toPico[j],
         toGateway' \in Seq(MessageType), executed' \in Seq(LineType), faults' \in Nat,
         NEW s \in Nat, Reached(s)',
         pico'.sid # 0 => pico'.sid = pico.sid
                          \/ \E j \in DOMAIN toPico :
                               toPico[j].op # "junk" /\ toPico[j].sid = pico'.sid,
         \A i \in DOMAIN toGateway' :
           \/ \E j \in DOMAIN toGateway : toGateway'[i] = toGateway[j]
           \/ toGateway'[i].sid = s,
         \A i \in DOMAIN pico'.cache :
           \/ \E j \in DOMAIN pico.cache : pico'.cache[i] = pico.cache[j]
           \/ pico'.cache[i].sid = s
  PROVE  IInv'
<1>1. /\ Typed /\ Current /\ OneAtATime /\ Addressed /\ Queued /\ Limited /\ Portions
      /\ Fates /\ Sorted /\ Told /\ DownIsOwn
  BY DEF IInv
<1>2. Typed'
  BY <1>1 DEF Typed
<1>3. Current' /\ OneAtATime'
  BY <1>1 DEF Current, OneAtATime
<1>4. Addressed'
  BY <1>1 DEF Addressed
<1>5. Queued' /\ Portions' /\ Fates'
  BY <1>1 DEF Queued, Portions, Fates
<1>6. Limited'
  BY <1>1 DEF Limited
<1>7. \A r \in Nat : Reached(r) => Reached(r)'
  <2>1. \A i \in DOMAIN toPico' : toPico'[i].op # "junk" =>
          \E j \in DOMAIN toPico : toPico[j].op # "junk" /\ toPico'[i] = toPico[j]
    OBVIOUS
  <2> QED BY <2>1 DEF Reached
<1>8. Told'
  BY <1>1, <1>7, TypedParts DEF Told
<1> QED BY <1>2, <1>3, <1>4, <1>5, <1>6, <1>8 DEF IInv

(* The head of the UART is taken: what follows is of its session or later ones. *)
LEMMA LineTaken ==
  ASSUME IInv, toPico # <<>>, toPico' = Tail(toPico)
  PROVE  /\ Head(toPico) = toPico[1] /\ 1 \in DOMAIN toPico /\ toPico[1] \in LineType
         /\ toPico' \in Seq(LineType) /\ Sorted'
         /\ \A i \in DOMAIN toPico' : \E j \in DOMAIN toPico :
              toPico'[i] = toPico[j] /\ (toPico[1].op # "junk" /\ toPico[j].op # "junk" =>
                                           toPico[1].sid <= toPico[j].sid)
         /\ toPico[1].op # "junk" => toPico[1].sid \in 1..link.sessions
<1>1. toPico \in Seq(LineType) /\ Sorted /\ Addressed
  BY DEF IInv, Typed
<1>2. /\ Head(toPico) = toPico[1] /\ toPico[1] \in LineType
      /\ toPico' \in Seq(LineType) /\ Len(toPico) \in Nat /\ Len(toPico) > 0
      /\ DOMAIN toPico = 1..Len(toPico) /\ DOMAIN toPico' = 1..(Len(toPico) - 1)
      /\ \A i \in DOMAIN toPico' : i + 1 \in DOMAIN toPico /\ toPico'[i] = toPico[i + 1]
  BY <1>1, Shortened
<1>3. 1 \in DOMAIN toPico
  BY <1>2
<1>4. Sorted'
  <2>0. \A i \in DOMAIN toPico' : toPico'[i].op = "junk" => toPico'[i] = Spoilt
    BY <1>1, <1>2 DEF Sorted
  <2> SUFFICES ASSUME NEW i \in DOMAIN toPico', NEW j \in DOMAIN toPico', i < j,
                      toPico'[i].op # "junk", toPico'[j].op # "junk"
               PROVE  toPico'[i].sid <= toPico'[j].sid
    BY <2>0 DEF Sorted
  <2>1. i + 1 < j + 1
    BY <1>2
  <2> QED BY <1>1, <1>2, <2>1 DEF Sorted
<1>5. ASSUME NEW i \in DOMAIN toPico'
      PROVE  \E j \in DOMAIN toPico :
               toPico'[i] = toPico[j] /\ (toPico[1].op # "junk" /\ toPico[j].op # "junk" =>
                                            toPico[1].sid <= toPico[j].sid)
  <2>1. 1 < i + 1 /\ i + 1 \in DOMAIN toPico
    BY <1>2
  <2> QED BY <1>1, <1>2, <1>3, <2>1 DEF Sorted
<1> QED BY <1>1, <1>2, <1>3, <1>4, <1>5 DEF Addressed

(* What the cache holds after one more answer. *)
LEMMA RememberedIs ==
  ASSUME NEW cache \in Seq(MessageType), Len(cache) <= CacheSize, NEW m \in MessageType
  PROVE  /\ Remembered(cache, m) \in Seq(MessageType)
         /\ Len(Remembered(cache, m)) <= CacheSize
         /\ \A i \in DOMAIN Remembered(cache, m) :
              \/ \E j \in DOMAIN cache : Remembered(cache, m)[i] = cache[j]
              \/ Remembered(cache, m)[i] = m
<1>1. CacheSize \in Nat /\ CacheSize > 0 /\ Len(cache) \in Nat
  BY SerialAssumption, LenProperties
<1>2. CASE Len(cache) = CacheSize
  <2> DEFINE t == Tail(cache)
  <2>1. cache # <<>>
    BY <1>1, <1>2
  <2>2. /\ t \in Seq(MessageType) /\ Len(t) = Len(cache) - 1
        /\ \A i \in DOMAIN t : \E j \in DOMAIN cache : t[i] = cache[j]
    BY <2>1, Shortened
  <2> HIDE DEF t
  <2>3. /\ Append(t, m) \in Seq(MessageType) /\ Len(Append(t, m)) = Len(t) + 1
        /\ DOMAIN Append(t, m) = DOMAIN t \cup {Len(t) + 1}
        /\ \A i \in DOMAIN t : Append(t, m)[i] = t[i]
        /\ Append(t, m)[Len(t) + 1] = m
    BY <2>2, Appended
  <2>4. Remembered(cache, m) = Append(t, m)
    BY <1>2 DEF Remembered, t
  <2> QED BY <1>1, <1>2, <2>2, <2>3, <2>4
<1>3. CASE Len(cache) # CacheSize
  <2>1. Remembered(cache, m) = Append(cache, m)
    BY <1>3 DEF Remembered
  <2>2. /\ Append(cache, m) \in Seq(MessageType) /\ Len(Append(cache, m)) = Len(cache) + 1
        /\ DOMAIN Append(cache, m) = DOMAIN cache \cup {Len(cache) + 1}
        /\ \A i \in DOMAIN cache : Append(cache, m)[i] = cache[i]
        /\ Append(cache, m)[Len(cache) + 1] = m
    BY Appended
  <2> QED BY <1>1, <1>3, <2>1, <2>2
<1> QED BY <1>2, <1>3

(* A line is answered, and the answer is remembered. *)
LEMMA RepliesStep ==
  ASSUME IInv, toPico # <<>>, toPico' = Tail(toPico), Head(toPico).op # "junk",
         NEW kind \in {"ack", "nack"}, NEW p \in PicoType, Replies(Head(toPico), kind, p),
         p.cache \in {pico.cache, <<>>}, p.sid \in {0, Head(toPico).sid},
         \A line \in p.down : line.sid = p.sid /\ p.sid > 0,
         executed' \in Seq(LineType), faults' \in Nat,
         UNCHANGED <<link, sequence, pc, asked, done, public, wire, fence>>
  PROVE  IInv'
<1> DEFINE line == toPico[1]
           m == Message(kind, line.sid, line.seq)
           cache == Remembered(p.cache, m)
<1>1. /\ Head(toPico) = line /\ 1 \in DOMAIN toPico /\ line \in LineType
      /\ toPico' \in Seq(LineType) /\ Sorted'
      /\ \A i \in DOMAIN toPico' : \E j \in DOMAIN toPico :
           toPico'[i] = toPico[j] /\ (line.op # "junk" /\ toPico[j].op # "junk" =>
                                        line.sid <= toPico[j].sid)
      /\ line.op # "junk" => line.sid \in 1..link.sessions
  BY LineTaken
<1>2. /\ pico' = [p EXCEPT !.cache = cache]
      /\ toGateway' = Append(toGateway, m)
      /\ line.op # "junk" /\ p.sid \in {0, line.sid}
  BY <1>1 DEF Replies
<1>3. m \in MessageType /\ m.sid = line.sid
  BY <1>1 DEF Message, MessageType, LineType
<1> HIDE DEF m
<1>4. p.cache \in Seq(MessageType) /\ Len(p.cache) <= CacheSize
      /\ \A i \in DOMAIN p.cache : \E j \in DOMAIN pico.cache : p.cache[i] = pico.cache[j]
  <2>1. Len(<<>>) <= CacheSize
    BY SerialAssumption
  <2>2. Len(pico.cache) <= CacheSize
    BY DEF IInv, Limited
  <2> QED BY <2>1, <2>2, TypedParts, EmptySeq DEF PicoType
<1>5. /\ cache \in Seq(MessageType) /\ Len(cache) <= CacheSize
      /\ \A i \in DOMAIN cache :
           (\E j \in DOMAIN p.cache : cache[i] = p.cache[j]) \/ cache[i] = m
  BY <1>3, <1>4, RememberedIs
<1> HIDE DEF cache
<1>6. pico' \in PicoType /\ pico'.cache = cache /\ pico'.sid = p.sid /\ pico'.down = p.down
  BY <1>2, <1>5 DEF PicoType
<1>7. link.sessions \in Nat /\ line.sid \in Nat /\ line.sid \in 1..link.sessions
  BY <1>1, <1>2, TypedParts
<1>8. pico'.sid \in 0..link.sessions
  BY <1>2, <1>6, <1>7
<1> PICK s \in Nat : s = line.sid
  BY <1>7
<1>9. Reached(s)'
  <2>1. line.sid <= link'.sessions
    BY <1>7
  <2>2. pico'.sid = 0 \/ line.sid <= pico'.sid
    BY <1>2, <1>6, <1>7
  <2>3. \A i \in DOMAIN toPico' : toPico'[i].op # "junk" => line.sid <= toPico'[i].sid
    BY <1>1, <1>2
  <2> QED BY <2>1, <2>2, <2>3 DEF Reached
<1>10. /\ toGateway' \in Seq(MessageType)
       /\ \A i \in DOMAIN toGateway' :
            \/ \E j \in DOMAIN toGateway : toGateway'[i] = toGateway[j]
            \/ toGateway'[i].sid = s
  <2>1. toGateway \in Seq(MessageType)
    BY DEF IInv, Typed
  <2>2. /\ toGateway' \in Seq(MessageType)
        /\ DOMAIN toGateway' = DOMAIN toGateway \cup {Len(toGateway) + 1}
        /\ \A i \in DOMAIN toGateway : toGateway'[i] = toGateway[i]
        /\ toGateway'[Len(toGateway) + 1] = m
    BY <1>2, <1>3, <2>1, Appended
  <2> QED BY <1>3, <2>2
<1>11. \A i \in DOMAIN pico'.cache :
         \/ \E j \in DOMAIN pico.cache : pico'.cache[i] = pico.cache[j]
         \/ pico'.cache[i].sid = s
  BY <1>3, <1>4, <1>5, <1>6
<1>12. DownIsOwn'
  BY <1>6 DEF DownIsOwn
<1>13. pico'.sid # 0 =>
         \E j \in DOMAIN toPico : toPico[j].op # "junk" /\ toPico[j].sid = pico'.sid
  BY <1>1, <1>2, <1>6
<1>14. \A i \in DOMAIN toPico' : \E j \in DOMAIN toPico : toPico'[i] = toPico[j]
  BY <1>1
<1>15. Len(pico'.cache) <= CacheSize
  BY <1>5, <1>6
<1> HIDE DEF line
<1> QED BY <1>1, <1>6, <1>7, <1>8, <1>9, <1>10, <1>11, <1>12, <1>13, <1>14, <1>15, FarSide

LEMMA ReachedNone ==
  ASSUME link'.sessions \in Nat, toPico' \in Seq(LineType), pico' \in PicoType
  PROVE  0 \in Nat /\ Reached(0)'
<1>1. \A i \in 1..Len(toPico') : toPico'[i] \in LineType
  BY ElementOfSeq
<1>2. \A i \in DOMAIN toPico' : toPico'[i].sid \in Nat
  BY <1>1, LenProperties DEF LineType
<1>3. pico'.sid \in Nat
  BY DEF PicoType
<1> QED BY <1>2, <1>3 DEF Reached

LEMMA PicoReadsStep == ASSUME IInv, PicoReads PROVE IInv'
<1> DEFINE line == toPico[1]
<1>1. /\ Typed /\ Addressed /\ Limited /\ Sorted /\ Told /\ DownIsOwn
  BY DEF IInv
<1>2. /\ toPico # <<>> /\ toPico' = Tail(toPico)
      /\ UNCHANGED <<link, sequence, pc, asked, done, public, wire, fence>>
  BY DEF PicoReads, callers
<1>3. /\ Head(toPico) = line /\ 1 \in DOMAIN toPico /\ line \in LineType
      /\ toPico' \in Seq(LineType) /\ Sorted'
      /\ \A i \in DOMAIN toPico' : \E j \in DOMAIN toPico : toPico'[i] = toPico[j]
  BY <1>2, LineTaken
<1>4. /\ pico \in PicoType /\ executed \in Seq(LineType) /\ faults \in Nat
      /\ toGateway \in Seq(MessageType) /\ link.sessions \in Nat
      /\ pico.sid \in 0..link.sessions
  BY <1>1, TypedParts DEF Typed, Addressed
<1>5. line # Spoilt => line.op # "junk"
  BY <1>1, <1>3 DEF Sorted
<1>6. /\ Len(pico.cache) <= CacheSize
      /\ \A i \in DOMAIN pico.cache : Reached(pico.cache[i].sid)
      /\ \A i \in DOMAIN pico.cache : pico.cache[i] \in MessageType
  BY <1>1, TypedParts DEF Limited, Told
<1>7. \A s \in Nat : Reached(s) => Reached(s)' \/ pico'.sid # pico.sid
  BY <1>2, <1>3 DEF Reached
<1>8. CASE line = Spoilt /\ Malformed
  <2>1. /\ pico' = [pico EXCEPT !.down = {}] /\ UNCHANGED <<executed, faults>>
        /\ toGateway' = Append(toGateway, Message("bare", 0, 0))
    BY <1>8 DEF Malformed
  <2>2. /\ pico' \in PicoType /\ pico'.sid = pico.sid /\ pico'.cache = pico.cache
        /\ pico'.down = {}
    BY <1>4, <2>1 DEF PicoType
  <2>3. Message("bare", 0, 0) \in MessageType /\ Message("bare", 0, 0).sid = 0
    BY DEF Message, MessageType
  <2>4. /\ toGateway' \in Seq(MessageType)
        /\ \A i \in DOMAIN toGateway' :
             \/ \E j \in DOMAIN toGateway : toGateway'[i] = toGateway[j]
             \/ toGateway'[i].sid = 0
    BY <1>4, <2>1, <2>3, Appended
  <2>5. Reached(0)'
    BY <1>2, <1>3, <1>4, <2>2, ReachedNone
  <2>6. DownIsOwn'
    BY <2>2 DEF DownIsOwn
  <2>7. executed' \in Seq(LineType) /\ faults' \in Nat /\ Len(pico'.cache) <= CacheSize
        /\ pico'.sid \in 0..link.sessions
    BY <1>4, <1>6, <2>1, <2>2
  <2>8. \A i \in DOMAIN pico'.cache : \E j \in DOMAIN pico.cache : pico'.cache[i] = pico.cache[j]
    BY <2>2
  <2> HIDE DEF line
  <2> QED BY <1>2, <1>3, <2>2, <2>4, <2>5, <2>6, <2>7, <2>8, FarSide
<1>9. CASE line # Spoilt /\ Repeat(line)
  <2> PICK k \in DOMAIN pico.cache : toGateway' = Append(toGateway, pico.cache[k])
    BY <1>9 DEF Repeat, Cached
  <2>1. UNCHANGED <<pico, executed, faults>>
    BY <1>9 DEF Repeat
  <2> PICK s \in Nat : s = pico.cache[k].sid
    BY TypedParts
  <2>2. Reached(s)'
    BY <1>6, <1>7, <2>1
  <2>3. /\ toGateway' \in Seq(MessageType)
        /\ \A i \in DOMAIN toGateway' :
             \/ \E j \in DOMAIN toGateway : toGateway'[i] = toGateway[j]
             \/ toGateway'[i].sid = s
    BY <1>4, <1>6, Appended
  <2>4. DownIsOwn'
    BY <1>1, <2>1 DEF DownIsOwn
  <2>5. /\ executed' \in Seq(LineType) /\ faults' \in Nat /\ Len(pico'.cache) <= CacheSize
        /\ pico'.sid \in 0..link.sessions /\ pico' \in PicoType
    BY <1>4, <1>6, <2>1
  <2> HIDE DEF line
  <2> QED BY <1>2, <1>3, <2>1, <2>2, <2>3, <2>4, <2>5, FarSide
<1>10. CASE line # Spoilt /\ OpenSession(line)
  <2> DEFINE p == NewSession(line)
  <2>1. p \in PicoType /\ p.cache = <<>> /\ p.sid = line.sid /\ p.down = {}
    BY <1>3, EmptySeq DEF NewSession, PicoType, LineType
  <2>2. Replies(line, "ack", p) /\ UNCHANGED <<executed, faults>>
    BY <1>10 DEF OpenSession
  <2> HIDE DEF line, p
  <2> QED BY <1>2, <1>3, <1>4, <1>5, <1>10, <2>1, <2>2, RepliesStep
<1>11. CASE line # Spoilt /\ Refuse(line)
  <2> DEFINE p == [pico EXCEPT !.sid = 0, !.down = {}]
  <2>1. p \in PicoType /\ p.cache = pico.cache /\ p.sid = 0 /\ p.down = {}
    BY <1>4 DEF PicoType
  <2>2. Replies(line, "nack", p) /\ UNCHANGED <<executed, faults>>
    BY <1>11 DEF Refuse
  <2> HIDE DEF line, p
  <2> QED BY <1>2, <1>3, <1>4, <1>5, <1>11, <2>1, <2>2, RepliesStep
<1>12. CASE line # Spoilt /\ Execute(line)
  <2>1. line.sid = pico.sid /\ line.op # "junk"
    BY <1>5, <1>12 DEF Execute
  <2>2. line.sid > 0
    BY <1>1, <1>3, <1>4, <2>1 DEF Addressed
  <2>3. \A d \in pico.down : d.sid = pico.sid /\ pico.sid > 0
    BY <1>1 DEF DownIsOwn
  <2>4. ASSUME NEW kind \in {"ack", "nack"}, NEW d \in SUBSET LineType,
               d \subseteq pico.down \cup {line},
               Replies(line, kind, [pico EXCEPT !.down = d]),
               executed' \in Seq(LineType), faults' \in Nat
        PROVE  IInv'
    <3> DEFINE p == [pico EXCEPT !.down = d]
    <3>1. p \in PicoType /\ p.cache = pico.cache /\ p.sid = pico.sid /\ p.down = d
      BY <1>4 DEF PicoType
    <3>2. \A x \in p.down : x.sid = p.sid /\ p.sid > 0
      BY <2>1, <2>2, <2>3, <2>4, <3>1
    <3> HIDE DEF line, p
    <3> QED BY <1>2, <1>3, <2>1, <2>4, <3>1, <3>2, RepliesStep DEF p
  <2> DEFINE none == {}
  <2>9. none \in SUBSET LineType /\ none \subseteq pico.down \cup {line}
    OBVIOUS
  <2> HIDE DEF line
  <2>5. CASE /\ Replies(line, "ack", [pico EXCEPT !.down = @ \cup {line}])
             /\ executed' = Append(executed, line) /\ UNCHANGED faults
    <3>1. executed' \in Seq(LineType) /\ faults' \in Nat
      BY <1>3, <1>4, <2>5, Appended
    <3>2. pico.down \cup {line} \in SUBSET LineType
      BY <1>3, <1>4 DEF PicoType
    <3>3. Replies(line, "ack", [pico EXCEPT !.down = pico.down \cup {line}])
      BY <1>4, <2>5 DEF PicoType
    <3> QED BY <2>4, <3>1, <3>2, <3>3
  <2>6. CASE /\ Replies(line, "ack", [pico EXCEPT !.down = {}])
             /\ UNCHANGED <<executed, faults>>
    <3> HIDE DEF none
    <3>1. [pico EXCEPT !.down = {}] = [pico EXCEPT !.down = none]
      BY DEF none
    <3> QED BY <1>4, <2>4, <2>6, <2>9, <3>1
  <2>7. CASE Replies(line, "ack", pico) /\ UNCHANGED <<executed, faults>>
    <3>1. pico = [pico EXCEPT !.down = pico.down] /\ pico.down \in SUBSET LineType
      BY <1>4 DEF PicoType
    <3> QED BY <1>4, <2>4, <2>7, <3>1
  <2>8. CASE /\ Replies(line, "nack", [pico EXCEPT !.down = {}])
             /\ faults' = faults + 1 /\ UNCHANGED executed
    <3> HIDE DEF none
    <3>1. [pico EXCEPT !.down = {}] = [pico EXCEPT !.down = none]
      BY DEF none
    <3>2. executed' \in Seq(LineType) /\ faults' \in Nat
      BY <1>4, <2>8
    <3>3. Replies(line, "nack", [pico EXCEPT !.down = none])
      BY <2>8, <3>1
    <3> QED BY <2>4, <2>9, <3>2, <3>3
  <2> QED BY <1>12, <2>5, <2>6, <2>7, <2>8 DEF Execute
<1> QED BY <1>3, <1>8, <1>9, <1>10, <1>11, <1>12 DEF PicoReads

(* The Pico drops the session by itself. *)
LEMMA Dropped ==
  ASSUME IInv, NEW kind \in {"released", "restarted"}, faults' = faults + 1,
         toGateway' = Append(toGateway, Message(kind, 0, 0)),
         pico' \in PicoType, pico'.sid = 0, pico'.down = {},
         pico'.cache = pico.cache \/ pico'.cache = <<>>,
         UNCHANGED <<link, sequence, pc, asked, done, public, wire, toPico, executed, fence>>
  PROVE  IInv'
<1>1. Typed /\ Limited /\ Sorted
  BY DEF IInv
<1>2. /\ toGateway \in Seq(MessageType) /\ toPico \in Seq(LineType)
      /\ executed \in Seq(LineType) /\ faults \in Nat /\ link.sessions \in Nat
  BY <1>1, TypedParts DEF Typed
<1> DEFINE m == Message(kind, 0, 0)
<1>3. m \in MessageType /\ m.sid = 0
  BY DEF Message, MessageType
<1> HIDE DEF m
<1>4. toGateway' = Append(toGateway, m)
  BY DEF m
<1>5. /\ toGateway' \in Seq(MessageType)
      /\ \A i \in DOMAIN toGateway' :
           \/ \E j \in DOMAIN toGateway : toGateway'[i] = toGateway[j]
           \/ toGateway'[i].sid = 0
  BY <1>2, <1>3, <1>4, Appended
<1>6. Reached(0)'
  BY <1>2, ReachedNone
<1>7. DownIsOwn' /\ Sorted'
  BY <1>1 DEF DownIsOwn, Sorted
<1>8. /\ Len(pico'.cache) <= CacheSize
      /\ \A i \in DOMAIN pico'.cache :
           \E j \in DOMAIN pico.cache : pico'.cache[i] = pico.cache[j]
  BY <1>1, SerialAssumption DEF Limited
<1>9. /\ executed' \in Seq(LineType) /\ faults' \in Nat /\ pico'.sid \in 0..link.sessions
      /\ toPico' \in Seq(LineType)
  BY <1>2
<1>10. 0 \in Nat
  OBVIOUS
<1> QED BY <1>5, <1>6, <1>7, <1>8, <1>9, <1>10, FarSide

LEMMA PicoReleasesStep == ASSUME IInv, PicoReleases PROVE IInv'
<1>1. /\ faults' = faults + 1 /\ toGateway' = Append(toGateway, Message("released", 0, 0))
      /\ pico' = [pico EXCEPT !.sid = 0, !.down = {}]
      /\ UNCHANGED <<link, sequence, pc, asked, done, public, wire, toPico, executed, fence>>
  BY DEF PicoReleases, callers, history
<1>2. /\ pico' \in PicoType /\ pico'.sid = 0 /\ pico'.down = {} /\ pico'.cache = pico.cache
  BY <1>1 DEF IInv, Typed, PicoType
<1> QED BY <1>1, <1>2, Dropped

LEMMA PicoRestartsStep == ASSUME IInv, PicoRestarts PROVE IInv'
<1>1. /\ faults' = faults + 1 /\ toGateway' = Append(toGateway, Message("restarted", 0, 0))
      /\ pico' = [sid |-> 0, cache |-> <<>>, down |-> {}]
      /\ UNCHANGED <<link, sequence, pc, asked, done, public, wire, toPico, executed, fence>>
  BY DEF PicoRestarts, callers, history
<1>2. /\ pico' \in PicoType /\ pico'.sid = 0 /\ pico'.down = {} /\ pico'.cache = <<>>
  BY <1>1, EmptySeq DEF PicoType
<1> QED BY <1>1, <1>2, Dropped

(* What a channel holds after a line of it is lost or spoilt. *)
LEMMA LosesIs ==
  ASSUME NEW S, NEW s \in Seq(S), NEW e \in S, s # <<>>,
         NEW t, t \in {Tail(s), [s EXCEPT ![1] = e]}
  PROVE  /\ t \in Seq(S)
         /\ \A i \in DOMAIN t : (\E j \in DOMAIN s : t[i] = s[j]) \/ t[i] = e
<1>1. CASE t = Tail(s)
  BY <1>1, Shortened
<1>2. CASE t = [s EXCEPT ![1] = e]
  BY <1>2, Replaced
<1> QED BY <1>1, <1>2

LEMMA UartFaultStep == ASSUME IInv, UartFault PROVE IInv'
<1>1. Typed /\ Limited /\ Sorted /\ Addressed /\ DownIsOwn
  BY DEF IInv
<1>2. /\ toGateway \in Seq(MessageType) /\ toPico \in Seq(LineType)
      /\ executed \in Seq(LineType) /\ faults \in Nat /\ link.sessions \in Nat
      /\ pico \in PicoType
  BY <1>1, TypedParts DEF Typed
<1>3. /\ UNCHANGED <<link, sequence, pc, asked, done, public, wire, pico, executed, fence>>
      /\ faults' = faults + 1
  BY DEF UartFault, Loses, callers, history
<1>4. /\ pico' \in PicoType /\ Len(pico'.cache) <= CacheSize /\ pico'.sid \in 0..link.sessions
      /\ DownIsOwn' /\ executed' \in Seq(LineType) /\ faults' \in Nat
  BY <1>1, <1>2, <1>3 DEF Limited, Addressed, DownIsOwn
<1>5. CASE Loses(toPico, toPico', Spoilt) /\ UNCHANGED toGateway
  <2>1. toPico # <<>> /\ toPico' \in {Tail(toPico), [toPico EXCEPT ![1] = Spoilt]}
    BY <1>5 DEF Loses
  <2>2. Spoilt \in LineType /\ Spoilt.op = "junk"
    BY DEF Spoilt, Line, LineType
  <2>3. /\ toPico' \in Seq(LineType)
        /\ \A i \in DOMAIN toPico' :
             (\E j \in DOMAIN toPico : toPico'[i] = toPico[j]) \/ toPico'[i] = Spoilt
    BY <1>2, <2>1, <2>2, LosesIs
  <2>4. Sorted'
    <3>1. CASE toPico' = Tail(toPico)
      BY <2>1, <3>1, LineTaken
    <3>2. CASE toPico' = [toPico EXCEPT ![1] = Spoilt]
      <4>1. /\ DOMAIN toPico' = DOMAIN toPico /\ toPico'[1] = Spoilt
            /\ \A i \in DOMAIN toPico : i # 1 => toPico'[i] = toPico[i]
        BY <1>2, <2>1, <2>2, <3>2, Replaced
      <4> QED BY <1>1, <2>2, <4>1 DEF Sorted
    <3> QED BY <2>1, <3>1, <3>2
  <2>5. Reached(0)'
    BY <1>2, <1>3, <1>4, <2>3, ReachedNone
  <2>6. 0 \in Nat /\ toGateway' \in Seq(MessageType)
    BY <1>2, <1>5
  <2>7. \A i \in DOMAIN toPico' : toPico'[i].op # "junk" =>
          \E j \in DOMAIN toPico : toPico'[i] = toPico[j]
    BY <2>2, <2>3
  <2>8. /\ \A i \in DOMAIN toGateway' : \E j \in DOMAIN toGateway : toGateway'[i] = toGateway[j]
        /\ \A i \in DOMAIN pico'.cache :
             \E j \in DOMAIN pico.cache : pico'.cache[i] = pico.cache[j]
    BY <1>3, <1>5
  <2> QED BY <1>3, <1>4, <2>3, <2>4, <2>5, <2>6, <2>7, <2>8, FarSide
<1>6. CASE Loses(toGateway, toGateway', Message("junk", 0, 0)) /\ UNCHANGED toPico
  <2> DEFINE m == Message("junk", 0, 0)
  <2>1. toGateway # <<>> /\ toGateway' \in {Tail(toGateway), [toGateway EXCEPT ![1] = m]}
    BY <1>6 DEF Loses
  <2>2. m \in MessageType /\ m.sid = 0
    BY DEF Message, MessageType
  <2> HIDE DEF m
  <2>3. /\ toGateway' \in Seq(MessageType)
        /\ \A i \in DOMAIN toGateway' :
             (\E j \in DOMAIN toGateway : toGateway'[i] = toGateway[j]) \/ toGateway'[i] = m
    BY <1>2, <2>1, <2>2, LosesIs
  <2>4. Sorted' /\ toPico' \in Seq(LineType)
    BY <1>1, <1>2, <1>6 DEF Sorted
  <2>5. Reached(0)'
    BY <1>2, <1>3, <1>4, <2>4, ReachedNone
  <2>6. 0 \in Nat
    OBVIOUS
  <2>7. /\ \A i \in DOMAIN toPico' : \E j \in DOMAIN toPico : toPico'[i] = toPico[j]
        /\ \A i \in DOMAIN pico'.cache :
             \E j \in DOMAIN pico.cache : pico'.cache[i] = pico.cache[j]
    BY <1>3, <1>6
  <2>8. \A i \in DOMAIN toGateway' :
          (\E j \in DOMAIN toGateway : toGateway'[i] = toGateway[j]) \/ toGateway'[i].sid = 0
    BY <2>2, <2>3
  <2> QED BY <1>3, <1>4, <2>3, <2>4, <2>5, <2>6, <2>7, <2>8, FarSide
<1> QED BY <1>5, <1>6 DEF UartFault

---------------------------------------------------------
(* The invariant of the specification. *)

LEMMA StepIInv == IInv /\ [Next]_vars => IInv'
<1> SUFFICES ASSUME IInv, [Next]_vars PROVE IInv'
  OBVIOUS
<1>1. ASSUME NEW c \in Callers, Call(c) PROVE IInv'
  BY <1>1, CallStep
<1>2. ASSUME NEW c \in Callers, CallRelease(c) PROVE IInv'
  BY <1>2, CallReleaseStep
<1>3. ASSUME NEW c \in Callers, Caller(c) PROVE IInv'
  <2>1. CASE WaitReadyFails(c)
    BY <2>1, WaitReadyFailsStep
  <2>2. CASE EnterPublic(c)
    BY <2>2, EnterPublicStep
  <2>3. CASE EnterRelease(c)
    BY <2>3, EnterReleaseStep
  <2>4. CASE SendPieces(c)
    BY <2>4, SendPiecesStep
  <2> QED BY <1>3, <2>1, <2>2, <2>3, <2>4 DEF Caller
<1>4. CASE Heartbeat
  BY <1>4, HeartbeatStep
<1>5. CASE Wire
  <2>1. CASE FirstAttempt
    BY <2>1, FirstAttemptStep
  <2>2. CASE SecondAttempt
    BY <2>2, SecondAttemptStep
  <2>3. CASE AckTimeout
    BY <2>3, AckTimeoutStep
  <2>4. CASE Complete
    BY <2>4, CompleteStep
  <2>5. CASE SessionEnded
    BY <2>5, SessionEndedStep
  <2> QED BY <1>5, <2>1, <2>2, <2>3, <2>4, <2>5 DEF Wire
<1>6. CASE Open
  BY <1>6, OpenStep
<1>7. CASE Teardown
  BY <1>7, TeardownStep
<1>8. CASE ReadLine
  BY <1>8, ReadLineStep
<1>9. CASE PicoReads
  BY <1>9, PicoReadsStep
<1>10. CASE PicoReleases
  BY <1>10, PicoReleasesStep
<1>11. CASE PicoRestarts
  BY <1>11, PicoRestartsStep
<1>12. CASE UartFault
  BY <1>12, UartFaultStep
<1>13. CASE UNCHANGED vars
  BY <1>13 DEF vars, IInv, Typed, Current, OneAtATime, Addressed, Queued, Limited, Portions,
               Fates, Sorted, Told, Reached, DownIsOwn
<1> QED BY <1>1, <1>2, <1>3, <1>4, <1>5, <1>6, <1>7, <1>8, <1>9, <1>10, <1>11, <1>12, <1>13
        DEF Next

LEMMA Invariant == Spec => []IInv
BY InitIInv, StepIInv, PTL DEF Spec

(* The queue of public commands holds callers that wait, each once, and no more
   wait than may. *)
LEMMA PublicIsShort == ASSUME IInv PROVE Len(public) <= MaxPending
<1> DEFINE W == {c \in Inputs : pc[c] \in Waiting}
           D == 1..Len(public)
<1>1. Typed /\ Queued /\ Limited
  BY DEF IInv
<1>2. /\ public \in Seq(Inputs) /\ Len(public) \in Nat /\ DOMAIN public = D
      /\ \A i \in D : public[i] \in Inputs
  BY <1>1, LenProperties, ElementOfSeq DEF Typed
<1>3. \A i \in D : public[i] \in W
  BY <1>1, <1>2 DEF Queued, Waiting
<1>4. \A i, j \in D : public[i] = public[j] => i = j
  BY <1>1, <1>2 DEF Queued
<1>5. IsFiniteSet(W) /\ Cardinality(W) <= MaxPending
  BY <1>1 DEF Limited
<1> DEFINE f == [i \in D |-> public[i]]
<1>6. f \in Injection(D, W)
  <2>1. f \in [D -> W]
    BY <1>3
  <2>2. \A i, j \in D : f[i] = f[j] => i = j
    BY <1>4
  <2> HIDE DEF f, D, W
  <2> QED BY <2>1, <2>2 DEF Injection, IsInjective
<1>7. IsFiniteSet(D) /\ Cardinality(D) = Len(public)
  <2>1. \A n \in Nat : IsFiniteSet(1..n) /\ Cardinality(1..n) = n
    <3> TAKE n \in Nat
    <3>1. IsFiniteSet(1..n) /\ Cardinality(1..n) = IF 1 > n THEN 0 ELSE n - 1 + 1
      BY FS_Interval
    <3> QED BY <3>1
  <2> QED BY <1>2, <2>1
<1> HIDE DEF f, D, W
<1>8. Cardinality(D) <= Cardinality(W)
  BY <1>5, <1>6, <1>7, FS_Injection
<1>9. Cardinality(W) \in Nat /\ MaxPending \in Nat
  BY <1>5, FS_CardinalityType, SerialAssumption
<1> QED BY <1>2, <1>5, <1>7, <1>8, <1>9

---------------------------------------------------------
(* The theorems. *)

(* Every variable of the serial link stays in its type: among others, no more
   commands wait for _public_lock than max_pending_commands, the Pico's cache
   stays within RESPONSE_CACHE_SIZE, and only the exchange at the head of the
   wire has begun, with at most two attempts. *)
THEOREM Typing == Spec => []TypeOK
<1>1. IInv => TypeOK
  <2> SUFFICES ASSUME IInv PROVE TypeOK
    OBVIOUS
  <2>1. Typed /\ Current /\ OneAtATime /\ Limited /\ Portions /\ Fates
    BY DEF IInv
  <2>2. /\ link.phase \in {"down", "handshake", "up", "failed"}
        /\ link.sessions \in 0..MaxSessions /\ link.generation \in Nat /\ link.sid \in Nat
    BY <2>1 DEF Typed, LinkType
  <2>3. link.sid \in 0..MaxSessions
    BY <2>1, <2>2, SerialAssumption DEF Current
  <2>4. fence \in 0..link.generation
    BY <2>1, <2>2 DEF Typed, Fates
  <2>5. /\ sequence \in 0..(Modulus - 1)
        /\ pc \in [Callers -> Waiting \cup {"idle", "ok", "nack", "busy", "unavailable",
                                             "interrupted", "unknown"}]
    <3>1. Places = Waiting \cup {"idle", "ok", "nack", "busy", "unavailable",
                                 "interrupted", "unknown"}
      BY DEF Places, Answers
    <3> QED BY <2>1, <3>1 DEF Typed
  <2>6. \A c \in Inputs : done[c] \in 0..Size[c]
    BY <2>1, SerialAssumption DEF Typed, Portions
  <2>7. Len(public) <= MaxPending /\ Len(pico.cache) <= CacheSize
    BY <2>1, PublicIsShort DEF Limited
  <2>8. \A i \in DOMAIN wire : wire[i].attempt \in (IF i = 1 THEN 0..2 ELSE {0})
    <3>1. \A i \in DOMAIN wire : wire[i].attempt \in 0..2
      BY TypedParts DEF ExchangeType
    <3>2. \A i \in DOMAIN wire : wire[i].attempt > 0 => i = 1
      BY <2>1 DEF OneAtATime
    <3> QED BY <3>1, <3>2
  <2> QED BY <2>2, <2>3, <2>4, <2>5, <2>6, <2>7, <2>8 DEF TypeOK
<1> QED BY <1>1, Invariant, PTL

(* A command whose fate is unknown takes its generation with it: whatever made
   it unknown, a write that failed, an answer that did not come or a session
   that went away, nothing asked for beside it goes by the current one. *)
THEOREM UnknownTakesGeneration == Spec => []FailClosed
<1>1. IInv => FailClosed
  <2> SUFFICES ASSUME IInv, NEW c \in Callers, pc[c] = "unknown"
               PROVE  asked[c] # link.generation
    BY DEF FailClosed
  <2>1. asked[c] \in Nat /\ link.generation \in Nat /\ asked[c] < link.generation
    BY TypedParts DEF IInv, Typed, Fates
  <2> QED BY <2>1
<1> QED BY <1>1, Invariant, PTL

(* A session is not ready before the Pico has let go of what an earlier one
   pressed: the answer to the handshake that makes it ready shows that the Pico
   has come to it, and opening it released everything. *)
THEOREM ReadyIsFresh == Spec => []FreshReady
<1>1. IInv => FreshReady
  <2> SUFFICES ASSUME IInv, link.ready, NEW line \in pico.down
               PROVE  line.sid = link.sid
    BY DEF FreshReady
  <2>1. line.sid = pico.sid /\ pico.sid > 0 /\ pico.sid \in 0..link.sessions
    BY DEF IInv, DownIsOwn, Addressed
  <2>2. link.sid = link.sessions
    BY DEF IInv, Current
  <2>3. pico.sid = 0 \/ link.sid <= pico.sid
    BY DEF IInv, Told, Reached
  <2> QED BY <2>1, <2>2, <2>3, TypedParts
<1> QED BY <1>1, Invariant, PTL
---------------------------------------------------------
(* The pieces of a command: each is executed at most once and in its place.  *)
(* What the proof follows is a piece on its way: numbered when it joins the  *)
(* queue for the wire, written once or twice, executed, remembered.          *)

(* The pieces that were put on the UART: acknowledged, or their command is
   answered, or the exchange that has them has begun. *)
Begun(u) ==
  \E w \in DOMAIN wire :
    wire[w].who = u[1] /\ wire[w].attempt > 0 /\ u[2] <= done[u[1]] + Len(wire[w].lines)

Put == {u \in Inputs \X (Nat \ {0}) : u[2] <= done[u[1]] \/ pc[u[1]] \in Answers \/ Begun(u)}

(* An exchange has the pieces of its command that follow the acknowledged ones,
   and no other piece is out. *)
Numbered ==
  /\ \A w \in DOMAIN wire : \A k \in DOMAIN wire[w].lines :
       /\ wire[w].who \in Inputs =>
            /\ wire[w].lines[k].op = "input"
            /\ wire[w].lines[k].unit = <<wire[w].who, done[wire[w].who] + k>>
       /\ wire[w].lines[k].op = "input" => wire[w].who \in Inputs
       /\ wire[w].lines[k].op = "session" <=> wire[w].who = "handshake"
  /\ \A i \in DOMAIN executed : executed[i].op = "input" /\ executed[i].unit \in Put
  /\ \A i \in DOMAIN toPico : toPico[i].op = "input" => toPico[i].unit \in Put

(* Who has not held _public_lock has nothing acknowledged. *)
Unserved ==
  /\ \A c \in Inputs : pc[c] \in {"idle", "entering"} => done[c] = 0
  /\ \A i \in DOMAIN public : i > 1 => done[public[i]] = 0

(* A session is opened before anything else of it is done. *)
Opened ==
  /\ \A i, j \in DOMAIN toPico :
       /\ i < j /\ toPico[i].op # "junk" /\ toPico[j].op = "session"
       /\ toPico[i].sid = toPico[j].sid
       => toPico[i].op = "session"
  /\ \A i \in DOMAIN executed :
       /\ executed[i].sid \in 1..link.sessions
       /\ \A j \in DOMAIN toPico : toPico[j].op = "session" => toPico[j].sid # executed[i].sid
  /\ \A w \in DOMAIN wire : wire[w].who = "handshake" =>
       /\ \A i \in DOMAIN executed : executed[i].sid # wire[w].sid
       /\ \A i \in DOMAIN toPico :
            toPico[i].op # "junk" /\ toPico[i].sid = wire[w].sid => toPico[i].op = "session"
       /\ \A v \in DOMAIN wire :
            wire[v].attempt > 0 /\ wire[v].sid = wire[w].sid => wire[v].who = "handshake"

(* The numbers of one exchange are no more than the Pico remembers. *)
Groups == {G \in SUBSET Nat : IsFiniteSet(G) /\ Cardinality(G) <= CacheSize}
NumbersOf(x) == {x.lines[k].seq : k \in DOMAIN x.lines}

(* From line i to line j there are lines of session s with numbers of G. *)
Together(channel, G, s, i, j) ==
  \A k \in DOMAIN channel :
    i <= k /\ k <= j /\ channel[k].op # "junk" => channel[k].sid = s /\ channel[k].seq \in G

(* Line l is in the cache and nothing but lines of its group came after it, each
   once, so it stays there until the group is through. *)
Kept(cache, l, G) ==
  \E k \in DOMAIN cache :
    /\ cache[k].sid = l.sid /\ cache[k].seq = l.seq
    /\ \A n \in DOMAIN cache : k <= n => cache[n].sid = l.sid /\ cache[n].seq \in G
    /\ \A m, n \in DOMAIN cache : k <= m /\ m < n => cache[m].seq # cache[n].seq

Finished == {executed[i].unit : i \in DOMAIN executed}

(* A piece that was written twice: nothing but its group is between. *)
Grouped ==
  \A i, j \in DOMAIN toPico :
    /\ i < j /\ toPico[i].op = "input" /\ toPico[j].op = "input"
    /\ toPico[i].unit = toPico[j].unit
    => /\ toPico[i] = toPico[j]
       /\ \E G \in Groups : Together(toPico, G, toPico[i].sid, i, j)

(* A piece that comes again, or may be written again, comes as the same line. *)
Same ==
  \A e \in DOMAIN executed :
    /\ \A i \in DOMAIN toPico :
         toPico[i].op = "input" /\ toPico[i].unit = executed[e].unit => toPico[i] = executed[e]
    /\ \A w \in DOMAIN wire : wire[w].attempt > 0 /\ wire[w].who \in Inputs =>
         \A k \in DOMAIN wire[w].lines :
           wire[w].lines[k].unit = executed[e].unit => wire[w].lines[k] = executed[e]

(* A piece that was executed and is to come again is still remembered. *)
Repeats ==
  \A i \in DOMAIN toPico :
    toPico[i].op = "input" /\ toPico[i].sid = pico.sid /\ toPico[i].unit \in Finished =>
      \E G \in Groups : Together(toPico, G, toPico[i].sid, 1, i) /\ Kept(pico.cache, toPico[i], G)

(* A piece that may be written again: nothing but its exchange was written
   since, and once it was executed it is remembered. *)
Rewritable ==
  \A w \in DOMAIN wire : wire[w].attempt > 0 /\ wire[w].who \in Inputs =>
    \A k \in DOMAIN wire[w].lines :
      /\ \A i, j \in DOMAIN toPico :
           /\ i <= j /\ toPico[i].op = "input" /\ toPico[i].unit = wire[w].lines[k].unit
           /\ toPico[j].op # "junk"
           => \E m \in DOMAIN wire[w].lines : toPico[j] = wire[w].lines[m]
      /\ wire[w].lines[k].unit \in Finished =>
           /\ \A j \in DOMAIN toPico : toPico[j].op # "junk" =>
                \E m \in DOMAIN wire[w].lines : toPico[j] = wire[w].lines[m]
           /\ wire[w].lines[k].sid = pico.sid =>
                Kept(pico.cache, wire[w].lines[k], NumbersOf(wire[w]))

(* In the order of pieces a may come before b. *)
Before(a, b) == a[1] = b[1] /\ a[1] \notin Batches => a[2] <= b[2]

(* The pieces of a command are together and in order, over what was executed
   and what is on its way, and nothing of another command follows while more of
   it may be written. *)
Ordered ==
  /\ \A i, j \in DOMAIN executed :
       i < j /\ executed[i].unit[1] = executed[j].unit[1] =>
         /\ Before(executed[i].unit, executed[j].unit)
         /\ \A k \in DOMAIN executed : i <= k /\ k <= j =>
              executed[k].unit[1] = executed[i].unit[1]
  /\ \A i \in DOMAIN executed, j \in DOMAIN toPico :
       toPico[j].op = "input" /\ executed[i].unit[1] = toPico[j].unit[1] =>
         /\ Before(executed[i].unit, toPico[j].unit)
         /\ \A k \in DOMAIN executed : i <= k => executed[k].unit[1] = executed[i].unit[1]
         /\ \A k \in DOMAIN toPico : k <= j /\ toPico[k].op = "input" =>
              toPico[k].unit[1] = executed[i].unit[1]
  /\ \A i, j \in DOMAIN toPico :
       /\ i < j /\ toPico[i].op = "input" /\ toPico[j].op = "input"
       /\ toPico[i].unit[1] = toPico[j].unit[1]
       => /\ Before(toPico[i].unit, toPico[j].unit)
          /\ \A k \in DOMAIN toPico : i <= k /\ k <= j /\ toPico[k].op = "input" =>
               toPico[k].unit[1] = toPico[i].unit[1]

Unfinished ==
  \A c \in Inputs : pc[c] \in {"public", "wire"} =>
    /\ \A i \in DOMAIN executed : executed[i].unit[1] = c =>
         /\ \A k \in DOMAIN executed : i <= k => executed[k].unit[1] = c
         /\ \A k \in DOMAIN toPico : toPico[k].op = "input" => toPico[k].unit[1] = c
    /\ \A i \in DOMAIN toPico : toPico[i].op = "input" /\ toPico[i].unit[1] = c =>
         \A k \in DOMAIN toPico : i <= k /\ toPico[k].op = "input" => toPico[k].unit[1] = c

JInv ==
  /\ Numbered /\ Unserved /\ Opened /\ Grouped /\ Same /\ Repeats /\ Rewritable
  /\ Ordered /\ Unfinished /\ AtMostOnce

---------------------------------------------------------
(* What the gateway does beside writing. *)

LEMMA ExecutedIs ==
  ASSUME IInv, JInv
  PROVE  /\ \A i \in DOMAIN executed : executed[i] \in LineType /\ executed[i].sid \in Nat
         /\ Len(executed) \in Nat /\ DOMAIN executed = 1..Len(executed)
         /\ Len(toPico) \in Nat /\ DOMAIN toPico = 1..Len(toPico)
         /\ \A i \in DOMAIN executed : executed[i].unit \in Finished
         /\ Finished \subseteq Put
<1>1. executed \in Seq(LineType) /\ toPico \in Seq(LineType)
  BY DEF IInv, Typed
<1>2. \A i \in DOMAIN executed : executed[i] \in LineType
  BY <1>1, ElementOfSeq, LenProperties
<1> QED BY <1>1, <1>2, LenProperties DEF LineType, Finished, JInv, Numbered

(* Nothing of a command is on its way that never was at the head of the queue. *)
LEMMA NothingOf ==
  ASSUME IInv, JInv, NEW c \in Inputs,
         \/ pc[c] \in {"idle", "entering"}
         \/ pc[c] = "public" /\ public[1] # c
  PROVE  /\ \A u \in Put : u[1] # c
         /\ \A i \in DOMAIN executed : executed[i].unit[1] # c
         /\ \A i \in DOMAIN toPico : toPico[i].op = "input" => toPico[i].unit[1] # c
<1>1. /\ Typed /\ Queued /\ Numbered /\ Unserved
  BY DEF IInv, JInv
<1>2. done[c] = 0
  <2>1. CASE pc[c] = "public" /\ public[1] # c
    <3>1. PICK i \in DOMAIN public : public[i] = c
      BY <1>1, <2>1 DEF Queued
    <3>2. i # 1 /\ i \in Nat /\ i > 0
      BY <1>1, <2>1, <3>1, LenProperties DEF Typed
    <3> QED BY <1>1, <3>1, <3>2 DEF Unserved
  <2> QED BY <1>1, <2>1 DEF Unserved
<1>3. pc[c] \notin Answers /\ pc[c] # "wire"
  BY DEF Answers
<1>4. \A w \in DOMAIN wire : wire[w].who # c
  BY <1>1, <1>3 DEF Queued, Callers
<1>5. \A u \in Put : u[1] # c
  BY <1>2, <1>3, <1>4 DEF Put, Begun
<1> QED BY <1>1, <1>5 DEF Numbered

(* A step that writes no line, but may leave junk at the end of the UART. *)
LEMMA QuietKeeps ==
  ASSUME IInv, JInv, UNCHANGED <<executed, pico>>,
         \A i \in DOMAIN toPico : i \in DOMAIN toPico' /\ toPico'[i] = toPico[i],
         \A i \in DOMAIN toPico' : i \notin DOMAIN toPico => toPico'[i].op = "junk",
         link'.sessions \in Nat, link.sessions <= link'.sessions,
         \A w \in DOMAIN wire' :
           \/ \E v \in DOMAIN wire :
                /\ wire'[w].who = wire[v].who /\ wire'[w].sid = wire[v].sid
                /\ wire'[w].lines = wire[v].lines /\ wire'[w].attempt = wire[v].attempt
                /\ wire[v].who \in Inputs => done'[wire[v].who] = done[wire[v].who]
           \/ /\ wire'[w].attempt = 0
              /\ wire'[w].who = "handshake" => wire'[w].sid \in Nat /\ wire'[w].sid > link.sessions
              /\ \A k \in DOMAIN wire'[w].lines :
                   /\ wire'[w].who \in Inputs =>
                        /\ wire'[w].lines[k].op = "input"
                        /\ wire'[w].lines[k].unit = <<wire'[w].who, done'[wire'[w].who] + k>>
                   /\ wire'[w].lines[k].op = "input" => wire'[w].who \in Inputs
                   /\ wire'[w].lines[k].op = "session" <=> wire'[w].who = "handshake",
         Put \subseteq Put', Unserved',
         \A c \in Inputs : pc'[c] \in {"public", "wire"} =>
           pc[c] \in {"idle", "entering", "public", "wire"}
  PROVE  JInv'
<1>1. /\ Numbered /\ Opened /\ Grouped /\ Same /\ Repeats /\ Rewritable /\ Ordered
      /\ Unfinished /\ AtMostOnce
  BY DEF JInv
<1>2. /\ \A i \in DOMAIN toPico' : toPico'[i].op # "junk" => i \in DOMAIN toPico
      /\ Finished' = Finished
  BY DEF Finished
<1>3. Numbered'
  <2>1. \A i \in DOMAIN executed' : executed'[i].op = "input" /\ executed'[i].unit \in Put'
    BY <1>1 DEF Numbered
  <2>2. \A i \in DOMAIN toPico' : toPico'[i].op = "input" => toPico'[i].unit \in Put'
    BY <1>1, <1>2 DEF Numbered
  <2>3. ASSUME NEW w \in DOMAIN wire', NEW k \in DOMAIN wire'[w].lines
        PROVE  /\ wire'[w].who \in Inputs =>
                    /\ wire'[w].lines[k].op = "input"
                    /\ wire'[w].lines[k].unit = <<wire'[w].who, done'[wire'[w].who] + k>>
               /\ wire'[w].lines[k].op = "input" => wire'[w].who \in Inputs
               /\ wire'[w].lines[k].op = "session" <=> wire'[w].who = "handshake"
    BY <1>1, <2>3 DEF Numbered
  <2> QED BY <2>1, <2>2, <2>3 DEF Numbered
<1>4. Opened'
  <2>1. \A i, j \in DOMAIN toPico' :
          /\ i < j /\ toPico'[i].op # "junk" /\ toPico'[j].op = "session"
          /\ toPico'[i].sid = toPico'[j].sid
          => toPico'[i].op = "session"
    BY <1>1, <1>2 DEF Opened
  <2>2. \A i \in DOMAIN executed' :
          /\ executed'[i].sid \in 1..link'.sessions
          /\ \A j \in DOMAIN toPico' :
               toPico'[j].op = "session" => toPico'[j].sid # executed'[i].sid
    <3>1. \A i \in DOMAIN executed : executed[i].sid \in 1..link.sessions
      BY <1>1 DEF Opened
    <3>2. \A i \in DOMAIN executed : executed[i].sid \in 1..link'.sessions
      BY <3>1, TypedParts
    <3> QED BY <1>1, <1>2, <3>2 DEF Opened
  <2>3. ASSUME NEW w \in DOMAIN wire', wire'[w].who = "handshake"
        PROVE  /\ \A i \in DOMAIN executed' : executed'[i].sid # wire'[w].sid
               /\ \A i \in DOMAIN toPico' :
                    toPico'[i].op # "junk" /\ toPico'[i].sid = wire'[w].sid
                    => toPico'[i].op = "session"
               /\ \A v \in DOMAIN wire' :
                    wire'[v].attempt > 0 /\ wire'[v].sid = wire'[w].sid
                    => wire'[v].who = "handshake"
    <3>1. CASE \E v \in DOMAIN wire : wire'[w].who = wire[v].who /\ wire'[w].sid = wire[v].sid
      <4>1. PICK u \in DOMAIN wire : wire[u].who = "handshake" /\ wire'[w].sid = wire[u].sid
        BY <2>3, <3>1
      <4>2. ASSUME NEW v \in DOMAIN wire', wire'[v].attempt > 0, wire'[v].sid = wire'[w].sid
            PROVE  wire'[v].who = "handshake"
        BY <1>1, <4>1, <4>2 DEF Opened
      <4> QED BY <1>1, <1>2, <4>1, <4>2 DEF Opened
    <3>2. CASE wire'[w].sid \in Nat /\ wire'[w].sid > link.sessions
      <4>1. \A i \in DOMAIN executed : executed[i].sid \in 1..link.sessions
        BY <1>1 DEF Opened
      <4>2. \A i \in DOMAIN toPico : toPico[i].op # "junk" => toPico[i].sid \in 1..link.sessions
        BY DEF IInv, Addressed
      <4>3. \A v \in DOMAIN wire : wire[v].sid \in 1..link.sessions
        BY DEF IInv, Addressed
      <4>4. ASSUME NEW v \in DOMAIN wire', wire'[v].attempt > 0, wire'[v].sid = wire'[w].sid
            PROVE  FALSE
        <5>1. PICK u \in DOMAIN wire : wire'[v].sid = wire[u].sid
          BY <4>4
        <5> QED BY <3>2, <4>3, <4>4, <5>1, TypedParts
      <4> QED BY <1>2, <3>2, <4>1, <4>2, <4>4, TypedParts
    <3> QED BY <2>3, <3>1, <3>2
  <2> QED BY <2>1, <2>2, <2>3 DEF Opened
<1>5. \A G, s, i, j : Together(toPico, G, s, i, j) => Together(toPico', G, s, i, j)
  BY <1>2 DEF Together
<1>6. Grouped'
  BY <1>1, <1>2, <1>5 DEF Grouped
<1>7. Repeats'
  BY <1>1, <1>2, <1>5 DEF Repeats
<1>8. Rewritable'
  <2> SUFFICES ASSUME NEW w \in DOMAIN wire', wire'[w].attempt > 0, wire'[w].who \in Inputs,
                      NEW k \in DOMAIN wire'[w].lines
               PROVE  /\ \A i, j \in DOMAIN toPico' :
                           /\ i <= j /\ toPico'[i].op = "input"
                           /\ toPico'[i].unit = wire'[w].lines[k].unit
                           /\ toPico'[j].op # "junk"
                           => \E m \in DOMAIN wire'[w].lines : toPico'[j] = wire'[w].lines[m]
                      /\ wire'[w].lines[k].unit \in Finished' =>
                           /\ \A j \in DOMAIN toPico' : toPico'[j].op # "junk" =>
                                \E m \in DOMAIN wire'[w].lines : toPico'[j] = wire'[w].lines[m]
                           /\ wire'[w].lines[k].sid = pico'.sid =>
                                Kept(pico'.cache, wire'[w].lines[k], NumbersOf(wire'[w]))
    BY DEF Rewritable
  <2>1. PICK v \in DOMAIN wire : /\ wire'[w].who = wire[v].who /\ wire'[w].lines = wire[v].lines
                                 /\ wire'[w].attempt = wire[v].attempt
    BY SMT
  <2>2. NumbersOf(wire'[w]) = NumbersOf(wire[v])
    BY <2>1 DEF NumbersOf
  <2> QED BY <1>1, <1>2, <2>1, <2>2 DEF Rewritable
<1>9. Ordered'
  <2>1. \A i \in DOMAIN toPico' : toPico'[i].op = "input" => i \in DOMAIN toPico
    BY <1>2
  <2> QED BY <1>1, <2>1 DEF Ordered
<1>10. Unfinished'
  <2> SUFFICES ASSUME NEW c \in Inputs, pc'[c] \in {"public", "wire"}
               PROVE  /\ \A i \in DOMAIN executed' : executed'[i].unit[1] = c =>
                           /\ \A k \in DOMAIN executed' : i <= k => executed'[k].unit[1] = c
                           /\ \A k \in DOMAIN toPico' :
                                toPico'[k].op = "input" => toPico'[k].unit[1] = c
                      /\ \A i \in DOMAIN toPico' :
                           toPico'[i].op = "input" /\ toPico'[i].unit[1] = c =>
                             \A k \in DOMAIN toPico' :
                               i <= k /\ toPico'[k].op = "input" => toPico'[k].unit[1] = c
    BY DEF Unfinished
  <2>1. \A i \in DOMAIN toPico' : toPico'[i].op = "input" => i \in DOMAIN toPico
    BY <1>2
  <2>2. CASE pc[c] \in {"public", "wire"}
    BY <1>1, <2>1, <2>2 DEF Unfinished
  <2>3. CASE pc[c] \in {"idle", "entering"}
    BY <2>1, <2>3, NothingOf
  <2> QED BY <2>2, <2>3
<1>11. AtMostOnce'
  BY <1>1 DEF AtMostOnce
<1>12. Same'
  <2>1. ASSUME NEW w \in DOMAIN wire', wire'[w].attempt > 0, wire'[w].who \in Inputs
        PROVE  \E v \in DOMAIN wire : /\ wire[v].who \in Inputs /\ wire'[w].lines = wire[v].lines
                                      /\ wire[v].attempt > 0
    BY <2>1
  <2> QED BY <1>1, <1>2, <2>1 DEF Same
<1> QED BY <1>3, <1>4, <1>12, <1>6, <1>7, <1>8, <1>9, <1>10, <1>11 DEF JInv

(* A caller moves on by itself, or leaves the queue that it heads. *)
LEMMA MoveKeeps ==
  ASSUME IInv, JInv, UNCHANGED <<executed, pico, toPico, wire, done>>,
         link'.sessions = link.sessions, NEW c \in Callers, NEW r,
         pc' = [pc EXCEPT ![c] = r], pc[c] \in {"idle", "entering", "public"},
         r \in {"public", "wire"} => pc[c] \in {"entering", "public"},
         r \notin {"idle", "entering"} \/ pc[c] = "idle",
         \/ public' = public
         \/ c \in Inputs /\ pc[c] = "entering" /\ public' = Append(public, c)
         \/ public # <<>> /\ public' = Tail(public)
  PROVE  JInv'
<1>1. Typed /\ Queued /\ Numbered /\ Unserved
  BY DEF IInv, JInv
<1>2. \A d \in Callers : pc'[d] = IF d = c THEN r ELSE pc[d]
  BY <1>1 DEF Typed
<1>3. \A d \in Inputs : d \in Callers
  BY DEF Callers
<1>4. pc[c] \notin Answers
  BY DEF Answers
<1>5. Put \subseteq Put'
  <2> SUFFICES ASSUME NEW u \in Put PROVE u \in Put'
    OBVIOUS
  <2>1. u \in Inputs \X (Nat \ {0}) /\ u[1] \in Inputs
    BY DEF Put
  <2>2. pc[u[1]] \in Answers => pc'[u[1]] \in Answers
    BY <1>2, <1>3, <1>4, <2>1
  <2> QED BY <2>1, <2>2 DEF Put, Begun
<1>6. Unserved'
  <2>1. \A d \in Inputs : pc'[d] \in {"idle", "entering"} => done[d] = 0
    BY <1>1, <1>2, <1>3 DEF Unserved
  <2>2. \A i \in DOMAIN public' : i > 1 => done[public'[i]] = 0
    <3>1. CASE public' = public
      BY <1>1, <3>1 DEF Unserved
    <3>2. CASE c \in Inputs /\ pc[c] = "entering" /\ public' = Append(public, c)
      <4>1. /\ DOMAIN public' = DOMAIN public \cup {Len(public) + 1}
            /\ \A i \in DOMAIN public : public'[i] = public[i]
            /\ public'[Len(public) + 1] = c
        BY <1>1, <3>2, Appended DEF Typed
      <4>2. done[c] = 0
        BY <1>1, <3>2 DEF Unserved
      <4> QED BY <1>1, <4>1, <4>2 DEF Unserved
    <3>3. CASE public # <<>> /\ public' = Tail(public)
      <4>1. \A i \in DOMAIN public' : i + 1 \in DOMAIN public /\ public'[i] = public[i + 1]
            /\ i \in Nat /\ i > 0
        BY <1>1, <3>3, Shortened DEF Typed
      <4> QED BY <1>1, <4>1 DEF Unserved
    <3> QED BY <3>1, <3>2, <3>3
  <2> QED BY <2>1, <2>2 DEF Unserved
<1>7. \A d \in Inputs : pc'[d] \in {"public", "wire"} =>
        pc[d] \in {"idle", "entering", "public", "wire"}
  BY <1>2, <1>3
<1>8. link'.sessions \in Nat /\ link.sessions <= link'.sessions
  BY TypedParts
<1> QED BY <1>5, <1>6, <1>7, <1>8, QuietKeeps

LEMMA CallKeeps == ASSUME IInv, JInv, NEW c \in Callers, Call(c) PROVE JInv'
<1> DEFINE r == IF Busy THEN "busy" ELSE "entering"
<1>1. /\ pc[c] = "idle" /\ pc' = [pc EXCEPT ![c] = r]
      /\ UNCHANGED <<executed, pico, toPico, wire, done, link, public>>
  BY DEF Call, uart, history
<1>2. r \in {"busy", "entering"}
  OBVIOUS
<1> HIDE DEF r
<1> QED BY <1>1, <1>2, MoveKeeps

LEMMA CallReleaseKeeps == ASSUME IInv, JInv, NEW c \in Callers, CallRelease(c) PROVE JInv'
<1>1. /\ pc[c] = "idle" /\ pc' = [pc EXCEPT ![c] = "entering"]
      /\ UNCHANGED <<executed, pico, toPico, wire, done, public>>
  BY DEF CallRelease, uart, history
<1>2. link'.sessions = link.sessions
  BY DEF CallRelease, IInv, Typed, LinkType
<1> QED BY <1>1, <1>2, MoveKeeps

LEMMA WaitReadyFailsKeeps ==
  ASSUME IInv, JInv, NEW c \in Callers, WaitReadyFails(c) PROVE JInv'
<1>1. /\ pc[c] = "entering" /\ pc' = [pc EXCEPT ![c] = "unavailable"]
      /\ UNCHANGED <<executed, pico, toPico, wire, done, link, public>>
  BY DEF WaitReadyFails, uart, history
<1> QED BY <1>1, MoveKeeps

LEMMA EnterPublicKeeps == ASSUME IInv, JInv, NEW c \in Callers, EnterPublic(c) PROVE JInv'
<1>1. /\ c \in Inputs /\ pc[c] = "entering"
      /\ UNCHANGED <<executed, pico, toPico, wire, done, link>>
  BY DEF EnterPublic, uart, history
<1>2. CASE pc' = [pc EXCEPT ![c] = "interrupted"] /\ UNCHANGED public
  BY <1>1, <1>2, MoveKeeps
<1>3. CASE pc' = [pc EXCEPT ![c] = "public"] /\ public' = Append(public, c)
  BY <1>1, <1>3, MoveKeeps
<1> QED BY <1>2, <1>3 DEF EnterPublic

(* An exchange joins the queue for the wire. *)
LEMMA JoinKeeps ==
  ASSUME IInv, JInv, UNCHANGED <<executed, pico, toPico, done, public>>,
         link'.sessions \in Nat, link.sessions <= link'.sessions,
         NEW x \in ExchangeType, wire' = Append(wire, x), x.attempt = 0,
         x.who = "handshake" => x.sid > link.sessions,
         \A k \in DOMAIN x.lines :
           /\ x.who \in Inputs =>
                x.lines[k].op = "input" /\ x.lines[k].unit = <<x.who, done[x.who] + k>>
           /\ x.lines[k].op = "input" => x.who \in Inputs
           /\ x.lines[k].op = "session" <=> x.who = "handshake",
         \/ pc' = pc
         \/ x.who \in Callers /\ pc[x.who] \in {"entering", "public"}
            /\ (x.who \in Inputs => pc[x.who] = "public")
            /\ pc' = [pc EXCEPT ![x.who] = "wire"]
  PROVE  JInv'
<1>1. Typed /\ Queued /\ Numbered /\ Unserved
  BY DEF IInv, JInv
<1>2. /\ DOMAIN wire' = DOMAIN wire \cup {Len(wire) + 1}
      /\ \A w \in DOMAIN wire : wire'[w] = wire[w]
      /\ wire'[Len(wire) + 1] = x
  BY <1>1, Appended DEF Typed
<1>3. x.sid \in Nat
  BY DEF ExchangeType
<1>4. \A d \in Inputs : /\ pc'[d] = pc[d] \/ (pc[d] = "public" /\ pc'[d] = "wire")
                        /\ pc[d] \in Answers => pc'[d] = pc[d]
  <2>1. \A d \in Inputs : d \in Callers
    BY DEF Callers
  <2>2. "public" \notin Answers
    BY DEF Answers
  <2> QED BY <1>1, <2>1, <2>2 DEF Typed
<1>5. Put \subseteq Put'
  <2> SUFFICES ASSUME NEW u \in Put PROVE u \in Put'
    OBVIOUS
  <2>1. u \in Inputs \X (Nat \ {0}) /\ u[1] \in Inputs
    BY DEF Put
  <2>2. pc[u[1]] \in Answers => pc'[u[1]] \in Answers
    BY <1>4, <2>1
  <2>3. Begun(u) => Begun(u)'
    BY <1>2 DEF Begun
  <2> QED BY <2>1, <2>2, <2>3 DEF Put
<1>6. Unserved'
  BY <1>1, <1>4 DEF Unserved
<1>7. \A d \in Inputs : pc'[d] \in {"public", "wire"} =>
        pc[d] \in {"idle", "entering", "public", "wire"}
  BY <1>4
<1>8. ASSUME NEW w \in DOMAIN wire'
      PROVE
           \/ \E v \in DOMAIN wire :
                /\ wire'[w].who = wire[v].who /\ wire'[w].sid = wire[v].sid
                /\ wire'[w].lines = wire[v].lines /\ wire'[w].attempt = wire[v].attempt
                /\ wire[v].who \in Inputs => done'[wire[v].who] = done[wire[v].who]
           \/ /\ wire'[w].attempt = 0
              /\ wire'[w].who = "handshake" => wire'[w].sid \in Nat /\ wire'[w].sid > link.sessions
              /\ \A k \in DOMAIN wire'[w].lines :
                   /\ wire'[w].who \in Inputs =>
                        /\ wire'[w].lines[k].op = "input"
                        /\ wire'[w].lines[k].unit = <<wire'[w].who, done'[wire'[w].who] + k>>
                   /\ wire'[w].lines[k].op = "input" => wire'[w].who \in Inputs
                   /\ wire'[w].lines[k].op = "session" <=> wire'[w].who = "handshake"
  <2>1. CASE w \in DOMAIN wire
    BY <1>2, <2>1
  <2>2. CASE w = Len(wire) + 1
    BY <1>2, <1>3, <2>2
  <2> QED BY <1>2, <2>1, <2>2
<1> QED BY <1>5, <1>6, <1>7, <1>8, QuietKeeps

LEMMA OperationHas ==
  ASSUME NEW who, NEW op, NEW gen
  PROVE  \A k \in DOMAIN Operation(who, op, gen).lines :
           Operation(who, op, gen).lines[k].op = op
<1> DEFINE n == NextSequence(sequence)
           f == [i \in DOMAIN <<None>> |->
                   Line(link.sid, <<n>>[i], op, <<None>>[i],
                        IF who \in Callers THEN asked[who] ELSE None)]
<1>1. Operation(who, op, gen).lines = f
  BY DEF Operation, Exchange
<1>2. \A k \in DOMAIN f : f[k].op = op
  BY DEF Line
<1> HIDE DEF f
<1> QED BY <1>1, <1>2

LEMMA EnterReleaseKeeps == ASSUME IInv, JInv, NEW c \in Callers, EnterRelease(c) PROVE JInv'
<1> DEFINE g == asked[c]
           x == Operation(c, "release", g)
<1>1. /\ c \in Releases /\ c \notin Inputs /\ pc[c] = "entering" /\ link.ready
      /\ pc' = [pc EXCEPT ![c] = "wire"] /\ wire' = Append(wire, x)
      /\ UNCHANGED <<link, done, public, toPico, pico, executed>>
  BY SerialAssumption DEF EnterRelease, uart, history
<1>2. c \in Whos /\ g \in Nat \cup {None} /\ "release" \in {"heartbeat", "release"}
  BY DEF IInv, Typed, Whos
<1>3. c # "handshake"
  BY SerialAssumption DEF Callers
<1> HIDE DEF g
<1>4. \A k \in DOMAIN x.lines : x.lines[k].op = "release"
  BY OperationHas
<1> HIDE DEF x
<1>5. x \in ExchangeType /\ x.who = c /\ x.attempt = 0
  BY <1>1, <1>2, OperationIs DEF x
<1>6. link'.sessions \in Nat /\ link.sessions <= link'.sessions
  BY <1>1, TypedParts
<1> QED BY <1>1, <1>3, <1>4, <1>5, <1>6, JoinKeeps

LEMMA HeartbeatKeeps == ASSUME IInv, JInv, Heartbeat PROVE JInv'
<1> DEFINE x == Operation("heartbeat", "heartbeat", None)
<1>1. /\ link.ready /\ wire' = Append(wire, x)
      /\ UNCHANGED <<link, pc, done, public, toPico, pico, executed>>
  BY DEF Heartbeat, callers, uart, history
<1>2. /\ "heartbeat" \in Whos /\ None \in Nat \cup {None}
      /\ "heartbeat" \in {"heartbeat", "release"}
  BY DEF Whos
<1>3. "heartbeat" \notin Inputs
  BY SerialAssumption
<1>4. \A k \in DOMAIN x.lines : x.lines[k].op = "heartbeat"
  BY OperationHas
<1> HIDE DEF x
<1>5. x \in ExchangeType /\ x.who = "heartbeat" /\ x.attempt = 0
  BY <1>1, <1>2, OperationIs DEF x
<1>6. link'.sessions \in Nat /\ link.sessions <= link'.sessions
  BY <1>1, TypedParts
<1> QED BY <1>1, <1>3, <1>4, <1>5, <1>6, JoinKeeps

(* The lines of the exchange that a caller sends next. *)
LEMMA PiecesHave ==
  ASSUME IInv, NEW c \in Inputs, pc[c] = "public"
  PROVE  \A k \in DOMAIN NextExchange(c).lines :
           /\ NextExchange(c).lines[k].op = "input"
           /\ NextExchange(c).lines[k].unit = <<c, done[c] + k>>
<1>1. /\ done[c] \in Nat /\ (c \in Batches => done[c] = 0) /\ c \in Callers
      /\ Size[c] \in Nat
  BY SerialAssumption DEF IInv, Typed, Portions, Waiting, Callers
<1> DEFINE pieces == NextPieces(c)
           seqs == Numbers(Len(pieces))
           f == [i \in DOMAIN pieces |-> Line(link.sid, seqs[i], "input", pieces[i], asked[c])]
<1>2. \A k \in DOMAIN pieces : pieces[k] = <<c, done[c] + k>>
  <2>1. CASE c \in Batches
    BY <1>1, <2>1 DEF NextPieces
  <2>2. CASE c \notin Batches
    <3>1. pieces = <<<<c, done[c] + 1>>>>
      BY <2>2 DEF NextPieces
    <3> QED BY <3>1
  <2> QED BY <2>1, <2>2
<1> HIDE DEF pieces, seqs
<1>3. NextExchange(c).lines = f
  BY <1>1 DEF NextExchange, Exchange, pieces, seqs
<1>4. \A k \in DOMAIN f : k \in DOMAIN pieces /\ f[k].op = "input" /\ f[k].unit = pieces[k]
  BY DEF Line
<1> HIDE DEF f
<1> QED BY <1>2, <1>3, <1>4

LEMMA SendPiecesKeeps == ASSUME IInv, JInv, NEW c \in Callers, SendPieces(c) PROVE JInv'
<1>1. Typed /\ Queued
  BY DEF IInv
<1>2. /\ c \in Inputs /\ pc[c] = "public"
      /\ UNCHANGED <<link, done, toPico, pico, executed>>
  BY DEF SendPieces, MayGo, uart, history
<1>3. public # <<>>
  BY <1>1, <1>2 DEF Queued, Typed
<1>4. CASE asked[c] # link.generation \/ ~link.ready
  <2>1. PICK r \in {"interrupted", "unavailable"} : pc' = [pc EXCEPT ![c] = r]
    BY <1>2, <1>4 DEF SendPieces, GivenGeneration
  <2>2. public' = Tail(public) /\ UNCHANGED wire
    BY <1>2, <1>4 DEF SendPieces, GivenGeneration
  <2> QED BY <1>2, <1>3, <2>1, <2>2, MoveKeeps
<1>5. CASE ~(asked[c] # link.generation \/ ~link.ready)
  <2> DEFINE x == NextExchange(c)
  <2>1. /\ wire' = Append(wire, x) /\ pc' = [pc EXCEPT ![c] = "wire"] /\ UNCHANGED public
    BY <1>2, <1>5 DEF SendPieces, GivenGeneration, NextExchange
  <2>2. \A k \in DOMAIN x.lines : x.lines[k].op = "input" /\ x.lines[k].unit = <<c, done[c] + k>>
    BY <1>2, PiecesHave
  <2> HIDE DEF x
  <2>3. x \in ExchangeType /\ x.who = c /\ x.attempt = 0
    BY <1>2, <1>5, PiecesAre DEF x
  <2>4. c # "handshake"
    BY <1>2, SerialAssumption
  <2>5. link'.sessions \in Nat /\ link.sessions <= link'.sessions
    BY <1>2, TypedParts
  <2> QED BY <1>2, <2>1, <2>2, <2>3, <2>4, <2>5, JoinKeeps
<1> QED BY <1>4, <1>5

LEMMA OpenKeeps == ASSUME IInv, JInv, Open PROVE JInv'
<1> DEFINE n == link.sessions + 1
           line == Line(n, 0, "session", None, None)
           x == [who |-> "handshake", gen |-> None, sid |-> n, attempt |-> 0,
                 nacked |-> FALSE, answered |-> {}, lines |-> <<line>>]
<1>1. /\ wire' = Append(wire, x)
      /\ UNCHANGED <<pc, done, public, toPico, pico, executed>>
  BY DEF Open, callers, history
<1>2. link.sessions \in Nat /\ n \in Nat /\ n > link.sessions
  BY TypedParts
<1>3. link'.sessions = n
  BY DEF Open, IInv, Typed, LinkType
<1> HIDE DEF n
<1>4. line \in LineType /\ line.op = "session"
  BY <1>2 DEF Line, LineType
<1> HIDE DEF line
<1>5. /\ x \in ExchangeType /\ x.who = "handshake" /\ x.attempt = 0 /\ x.sid = n
      /\ \A k \in DOMAIN x.lines : x.lines[k].op = "session"
  BY <1>2, <1>4 DEF ExchangeType, Whos
<1> HIDE DEF x
<1>6. "handshake" \notin Inputs
  BY SerialAssumption
<1>7. link'.sessions \in Nat /\ link.sessions <= link'.sessions
  BY <1>2, <1>3
<1> QED BY <1>1, <1>2, <1>5, <1>6, <1>7, JoinKeeps

(* An exchange ends: what of it was written stays put. *)
LEMMA EndKeeps ==
  ASSUME IInv, JInv, wire # <<>>, NEW l \in {link, Unhealthy(link)}, NEW result \in Answers,
         Ends(l, result), UNCHANGED <<executed, pico>>,
         toPico' = toPico \/ toPico' = Append(toPico, Spoilt)
  PROVE  JInv'
<1> DEFINE who == Head(wire).who
           sent == done[who] + Len(Head(wire).lines)
<1>1. Typed /\ OneAtATime /\ Queued /\ Unserved
  BY DEF IInv, JInv
<1>2. Head(wire) = wire[1] /\ 1 \in DOMAIN wire
  BY <1>1, NotEmpty DEF Typed
<1>3. /\ Len(wire) \in Nat /\ DOMAIN wire' = 1..(Len(wire) - 1) /\ DOMAIN wire = 1..Len(wire)
      /\ \A i \in DOMAIN wire' : i + 1 \in DOMAIN wire /\ wire'[i] = wire[i + 1]
  BY <1>1, Shortened DEF Typed, Ends
<1>4. \A i \in DOMAIN wire' : wire[i + 1].who # who
  <2>1. \A i \in DOMAIN wire' : i + 1 # 1
    BY <1>3
  <2> QED BY <1>1, <1>2, <1>3, <2>1 DEF OneAtATime
<1>5. /\ \A i \in DOMAIN toPico : i \in DOMAIN toPico' /\ toPico'[i] = toPico[i]
      /\ \A i \in DOMAIN toPico' : i \notin DOMAIN toPico => toPico'[i].op = "junk"
  <2>1. Spoilt \in LineType /\ Spoilt.op = "junk" /\ toPico \in Seq(LineType)
    BY <1>1 DEF Spoilt, Line, LineType, Typed
  <2>2. CASE toPico' = toPico
    BY <2>2
  <2>3. CASE toPico' = Append(toPico, Spoilt)
    <3> HIDE DEF Spoilt
    <3> QED BY <2>1, <2>3, Appended
  <2> QED BY <2>2, <2>3
<1>6. link'.sessions \in Nat /\ link.sessions <= link'.sessions
  BY LinkLeft, TypedParts
<1>7. \A d \in Inputs : d \in Callers /\ d \notin Releases /\ d \notin {"handshake", "heartbeat"}
  BY SerialAssumption DEF Callers
<1>8. \A u \in Put : u \in Inputs \X (Nat \ {0}) /\ u[1] \in Inputs
  BY DEF Put
<1>9. \A u \in Put : \/ u[2] <= done[u[1]] \/ pc[u[1]] \in Answers
                     \/ u[1] = who /\ u[2] <= sent
  BY <1>1, <1>2 DEF Put, Begun, OneAtATime
<1>10. CASE who \notin Inputs
  <2>1. done' = done /\ public' = public
    BY <1>10 DEF Ends, HandshakeEnds, HeartbeatEnds, ReleaseEnds, callers
  <2>2. pc' = pc \/ (who \in Releases /\ pc' = [pc EXCEPT ![who] = result])
    BY <1>10 DEF Ends, HandshakeEnds, HeartbeatEnds, ReleaseEnds, callers
  <2>3. \A d \in Inputs : pc'[d] = pc[d]
    BY <1>1, <1>7, <2>2 DEF Typed
  <2>4. Put \subseteq Put'
    BY <1>8, <1>9, <1>10, <2>1, <2>3 DEF Put
  <2>5. Unserved'
    BY <1>1, <2>1, <2>3 DEF Unserved
  <2> QED BY <1>3, <1>5, <1>6, <2>1, <2>3, <2>4, <2>5, QuietKeeps
<1>11. CASE who \in Inputs
  <2>1. pc[who] = "wire" /\ public # <<>> /\ public[1] = who
    BY <1>1, <1>2, <1>7, <1>11 DEF Queued
  <2>2. InputEnds(who, l, result)
    BY <1>7, <1>11 DEF Ends
  <2>3. PICK r \in Answers \cup {"public"} :
          /\ pc' = [pc EXCEPT ![who] = r]
          /\ \/ done' = [done EXCEPT ![who] = sent]
             \/ done' = done /\ r \in Answers
          /\ \/ public' = public
             \/ public' = Tail(public) /\ r \in Answers
    BY <2>2 DEF InputEnds, Answers
  <2>4. \A d \in Inputs : pc'[d] = IF d = who THEN r ELSE pc[d]
    BY <1>1, <1>7, <2>3 DEF Typed
  <2>5. /\ \A d \in Inputs : d # who => done'[d] = done[d]
        /\ done'[who] = sent \/ (done'[who] = done[who] /\ r \in Answers)
    BY <1>1, <1>11, <2>3 DEF Typed
  <2>6. done[who] \in Nat /\ Len(Head(wire).lines) \in Nat
    <3>1. Head(wire).lines \in Seq(LineType)
      BY <1>2, TypedParts
    <3> QED BY <1>1, <1>11, <3>1, LenProperties DEF Typed
  <2>7. Put \subseteq Put'
    <3> SUFFICES ASSUME NEW u \in Put PROVE u \in Put'
      OBVIOUS
    <3>1. u \in Inputs \X (Nat \ {0}) /\ u[1] \in Inputs /\ u[2] \in Nat
      BY <1>8
    <3>2. CASE u[1] # who
      BY <1>9, <2>4, <2>5, <3>1, <3>2 DEF Put
    <3>3. CASE u[1] = who
      <4>1. u[2] <= sent
        BY <1>9, <2>1, <2>6, <3>1, <3>3 DEF Answers
      <4> QED BY <2>4, <2>5, <3>1, <3>3, <4>1 DEF Put
    <3> QED BY <3>2, <3>3
  <2>8. Unserved'
    <3>1. "idle" \notin Answers /\ "entering" \notin Answers
      BY DEF Answers
    <3>2. \A d \in Inputs : pc'[d] \in {"idle", "entering"} => done'[d] = 0
      BY <1>1, <2>4, <2>5, <3>1 DEF Unserved
    <3>3. \A i \in DOMAIN public : i > 1 => public[i] \in Inputs /\ public[i] # who
      <4>1. 1 \in DOMAIN public /\ \A i \in DOMAIN public : public[i] \in Inputs
        BY <1>1, <2>1, NotEmpty, ElementOfSeq DEF Typed
      <4> QED BY <1>1, <2>1, <4>1 DEF Queued
    <3>4. \A i \in DOMAIN public : i > 1 => done'[public[i]] = 0
      BY <1>1, <2>5, <3>3 DEF Unserved
    <3>5. \A i \in DOMAIN public' : i > 1 => done'[public'[i]] = 0
      <4>1. CASE public' = public
        BY <3>4, <4>1
      <4>2. CASE public' = Tail(public)
        <5>1. \A i \in DOMAIN public' : i \in Nat /\ i + 1 \in DOMAIN public
                                        /\ public'[i] = public[i + 1]
          BY <1>1, <2>1, <4>2, Shortened DEF Typed
        <5> QED BY <3>4, <5>1
      <4> QED BY <2>3, <4>1, <4>2
    <3> QED BY <3>2, <3>5 DEF Unserved
  <2>9. \A d \in Inputs : pc'[d] \in {"public", "wire"} =>
          pc[d] \in {"idle", "entering", "public", "wire"}
    BY <2>1, <2>4
  <2> QED BY <1>3, <1>4, <1>5, <1>6, <2>5, <2>7, <2>8, <2>9, QuietKeeps
<1> QED BY <1>10, <1>11

LEMMA GivesUpKeeps ==
  ASSUME IInv, JInv, wire # <<>>, NEW l \in {link, Unhealthy(link)}, NEW result \in Answers,
         GivesUp(l, result)
  PROVE  JInv'
BY EndKeeps DEF GivesUp, uart

LEMMA FailedWriteKeeps == ASSUME IInv, JInv, wire # <<>>, WriteFails PROVE JInv'
<1>1. "unknown" \in Answers
  BY DEF Answers
<1> QED BY <1>1, EndKeeps DEF WriteFails

LEMMA TeardownKeeps == ASSUME IInv, JInv, Teardown PROVE JInv'
<1>1. Typed /\ Unserved
  BY DEF IInv, JInv
<1>2. /\ UNCHANGED <<pc, done, public, toPico, executed, pico>>
      /\ \/ UNCHANGED wire
         \/ \E k \in DOMAIN wire : wire[k].who = "heartbeat" /\ wire' = RemoveAt(wire, k)
  BY DEF Teardown, callers, uart, history
<1>3. link'.sessions \in Nat /\ link.sessions <= link'.sessions
  BY <1>1, TypedParts DEF Teardown, Typed, LinkType
<1>4. /\ \A w \in DOMAIN wire' : \E v \in DOMAIN wire : wire'[w] = wire[v]
      /\ \A v \in DOMAIN wire : wire[v].who # "heartbeat" =>
           \E w \in DOMAIN wire' : wire'[w] = wire[v]
  <2>1. CASE UNCHANGED wire
    BY <2>1
  <2>2. ASSUME NEW k \in DOMAIN wire, wire[k].who = "heartbeat", wire' = RemoveAt(wire, k)
        PROVE  /\ \A w \in DOMAIN wire' : \E v \in DOMAIN wire : wire'[w] = wire[v]
               /\ \A v \in DOMAIN wire : wire[v].who # "heartbeat" =>
                    \E w \in DOMAIN wire' : wire'[w] = wire[v]
    <3>1. /\ DOMAIN wire = 1..Len(wire) /\ Len(wire) \in Nat
          /\ DOMAIN wire' = 1..(Len(wire) - 1)
          /\ \A i \in 1..(Len(wire) - 1) :
               wire'[i] = IF i < k THEN wire[i] ELSE wire[i + 1]
      BY <1>1, <2>2, Removed DEF Typed
    <3>2. \A w \in DOMAIN wire' : w \in DOMAIN wire /\ w + 1 \in DOMAIN wire
      BY <3>1
    <3>3. ASSUME NEW v \in DOMAIN wire, wire[v].who # "heartbeat"
          PROVE  \E w \in DOMAIN wire' : wire'[w] = wire[v]
      <4>1. CASE v < k
        <5>1. v \in DOMAIN wire' /\ wire'[v] = wire[v]
          BY <3>1, <4>1
        <5> QED BY <5>1
      <4>2. CASE v > k
        <5>1. v - 1 \in DOMAIN wire' /\ wire'[v - 1] = wire[v]
          BY <3>1, <4>2
        <5> QED BY <5>1
      <4>3. v # k
        BY <2>2, <3>3
      <4> QED BY <3>1, <4>1, <4>2, <4>3
    <3> QED BY <3>1, <3>2, <3>3
  <2> QED BY <1>2, <2>1, <2>2
<1>5. Put \subseteq Put'
  <2>1. \A u \in Put : u \in Inputs \X (Nat \ {0}) /\ u[1] # "heartbeat"
    BY SerialAssumption DEF Put
  <2>2. ASSUME NEW u \in Put, Begun(u) PROVE Begun(u)'
    <3>1. PICK v \in DOMAIN wire :
            wire[v].who = u[1] /\ wire[v].attempt > 0 /\ u[2] <= done[u[1]] + Len(wire[v].lines)
      BY <2>2 DEF Begun
    <3>2. PICK w \in DOMAIN wire' : wire'[w] = wire[v]
      BY <1>4, <2>1, <3>1
    <3> QED BY <1>2, <3>1, <3>2 DEF Begun
  <2> QED BY <1>2, <2>1, <2>2 DEF Put
<1>6. Unserved'
  BY <1>1, <1>2 DEF Unserved
<1> QED BY <1>2, <1>3, <1>4, <1>5, <1>6, QuietKeeps

LEMMA ReadLineKeeps == ASSUME IInv, JInv, ReadLine PROVE JInv'
<1> DEFINE m == Head(toGateway)
<1>1. Typed /\ Unserved /\ Told
  BY DEF IInv, JInv
<1>2. /\ UNCHANGED <<pc, done, public, toPico, executed, pico>> /\ toGateway # <<>>
      /\ wire' = IF IsMine(m) /\ Awaited(m)
                 THEN [wire EXCEPT ![1].answered = @ \cup {m.seq},
                                   ![1].nacked = @ \/ m.kind = "nack"]
                 ELSE wire
  BY DEF ReadLine, callers, history
<1>3. m \in MessageType /\ Reached(m.sid)
  BY <1>1, <1>2, NotEmpty DEF Typed, Told
<1> DEFINE a == link.acknowledged \/ (IsMine(m) /\ m.kind = "ack" /\ m.seq = 0)
<1>4. /\ link' = IF IsFatal(m) THEN [Unhealthy(link) EXCEPT !.reading = FALSE]
                 ELSE [link EXCEPT !.acknowledged = a]
      /\ a \in BOOLEAN
  BY <1>1 DEF ReadLine, Typed, LinkType
<1> HIDE DEF m, a
<1>5. link'.sessions \in Nat /\ link.sessions <= link'.sessions
  BY <1>4, LinkRead, TypedParts
<1>6. /\ DOMAIN wire' = DOMAIN wire
      /\ \A i \in DOMAIN wire :
           /\ wire'[i].who = wire[i].who /\ wire'[i].sid = wire[i].sid
           /\ wire'[i].lines = wire[i].lines /\ wire'[i].attempt = wire[i].attempt
  BY <1>2, <1>3, WireRead
<1>7. Put \subseteq Put' /\ Unserved'
  BY <1>1, <1>2, <1>6 DEF Put, Begun, Unserved
<1> QED BY <1>2, <1>5, <1>6, <1>7, QuietKeeps

---------------------------------------------------------
(* A write. *)

(* The lines of an exchange are no more than the Pico remembers. *)
LEMMA NumbersGroup ==
  ASSUME IInv, NEW w \in DOMAIN wire, wire[w].who \in Inputs
  PROVE  NumbersOf(wire[w]) \in Groups
<1> DEFINE s == wire[w].lines
           n == Len(s)
<1>1. s \in Seq(LineType) /\ n \in Nat /\ DOMAIN s = 1..n
  BY TypedParts, LenProperties
<1>2. n <= CacheSize /\ CacheSize \in Nat
  BY SerialAssumption DEF IInv, Portions
<1>3. \A k \in 1..n : s[k] \in LineType
  BY <1>1, ElementOfSeq
<1> DEFINE f == [k \in 1..n |-> s[k].seq]
           G == {s[k].seq : k \in 1..n}
<1>4. f \in Surjection(1..n, G)
  BY DEF Surjection
<1>5. IsFiniteSet(1..n) /\ Cardinality(1..n) = n
  <2>1. \A m \in Nat : IsFiniteSet(1..m) /\ Cardinality(1..m) = m
    <3> TAKE m \in Nat
    <3>1. IsFiniteSet(1..m) /\ Cardinality(1..m) = IF 1 > m THEN 0 ELSE m - 1 + 1
      BY FS_Interval
    <3> QED BY <3>1
  <2> HIDE DEF n
  <2> QED BY <1>1, <2>1
<1>6. G \in SUBSET Nat
  BY <1>3 DEF LineType
<1>7. NumbersOf(wire[w]) = G
  BY <1>1 DEF NumbersOf
<1> HIDE DEF f, G, n, s
<1>8. IsFiniteSet(G) /\ Cardinality(G) <= n /\ Cardinality(G) \in Nat
  <2>1. IsFiniteSet(G) /\ Cardinality(G) <= Cardinality(1..n)
    BY <1>4, <1>5, FS_Surjection
  <2> QED BY <1>5, <2>1, FS_CardinalityType
<1> QED BY <1>1, <1>2, <1>6, <1>7, <1>8 DEF Groups

LEMMA WriteKeeps ==
  ASSUME IInv, JInv, wire # <<>>, Write, Head(wire).attempt \in {0, 1},
         SameSession(Head(wire)),
         Head(wire).attempt = 0 => Head(wire).who = "handshake" \/ link.ready
  PROVE  JInv'
<1> DEFINE x == wire[1]
           y == [x EXCEPT !.attempt = x.attempt + 1]
           new == Unanswered(y)
<1>1. /\ Typed /\ Current /\ OneAtATime /\ Addressed /\ Queued /\ Portions
      /\ Numbered /\ Unserved /\ Opened /\ Grouped /\ Same /\ Repeats /\ Rewritable
      /\ Ordered /\ Unfinished /\ AtMostOnce
  BY DEF IInv, JInv
<1>2. Head(wire) = x /\ 1 \in DOMAIN wire /\ x \in ExchangeType
  BY <1>1, NotEmpty DEF Typed
<1>3. /\ wire' = [wire EXCEPT ![1] = y] /\ toPico' = toPico \o new
      /\ UNCHANGED <<link, pc, done, public, pico, executed>>
  BY <1>2 DEF Write, Rewritten, callers, history
<1>4. /\ y \in ExchangeType /\ y.attempt = x.attempt + 1 /\ y.attempt > 0
      /\ y.who = x.who /\ y.sid = x.sid /\ y.lines = x.lines
  <2>1. x.attempt + 1 \in 0..2 /\ x.attempt + 1 > 0
    BY <1>2
  <2> QED BY <1>2, <2>1 DEF ExchangeType
<1>5. /\ new \in Seq(LineType)
      /\ \A k \in DOMAIN new : \E m \in DOMAIN x.lines : new[k] = x.lines[m]
  <2> HIDE DEF x, y
  <2>1. /\ new \in Seq(LineType)
        /\ \A k \in DOMAIN new : \E i \in Pending(y) : new[k] = y.lines[i]
    BY <1>4, Written
  <2>2. Pending(y) \subseteq DOMAIN x.lines
    BY <1>4 DEF Pending
  <2> HIDE DEF new
  <2> QED BY <1>4, <2>1, <2>2
<1> HIDE DEF new
<1>6. /\ DOMAIN wire' = DOMAIN wire /\ wire'[1] = y
      /\ \A i \in DOMAIN wire : i # 1 => wire'[i] = wire[i]
  <2> HIDE DEF x, y
  <2> QED BY <1>1, <1>3, <1>4, Replaced DEF Typed
<1> HIDE DEF y
<1>7. /\ \A w \in DOMAIN wire : /\ wire'[w].who = wire[w].who /\ wire'[w].sid = wire[w].sid
                                /\ wire'[w].lines = wire[w].lines
      /\ \A w \in DOMAIN wire' : wire'[w].attempt > 0 => w = 1
      /\ x.sid = link.sid
  BY <1>1, <1>2, <1>4, <1>6 DEF OneAtATime, SameSession
<1>8. /\ toPico \in Seq(LineType) /\ DOMAIN toPico = 1..Len(toPico) /\ Len(toPico) \in Nat
      /\ \A i \in DOMAIN toPico' : i \in Nat /\ i > 0
      /\ \A i \in DOMAIN toPico : i \in DOMAIN toPico' /\ toPico'[i] = toPico[i]
      /\ \A i \in DOMAIN toPico' : i \notin DOMAIN toPico =>
           i > Len(toPico) /\ \E m \in DOMAIN x.lines : toPico'[i] = x.lines[m]
  <2>1. toPico \in Seq(LineType)
    BY <1>1 DEF Typed
  <2>2. Len(toPico) \in Nat /\ Len(new) \in Nat
    BY <1>5, <2>1, LenProperties
  <2> HIDE DEF x
  <2>3. /\ DOMAIN toPico = 1..Len(toPico) /\ DOMAIN new = 1..Len(new)
        /\ DOMAIN toPico' = 1..(Len(toPico) + Len(new))
        /\ \A i \in DOMAIN toPico : toPico'[i] = toPico[i]
        /\ \A i \in DOMAIN toPico' : i \notin DOMAIN toPico =>
             i - Len(toPico) \in DOMAIN new /\ toPico'[i] = new[i - Len(toPico)]
    BY <1>3, <1>5, <2>1, Joined
  <2>4. \A i \in DOMAIN toPico' : i \in Nat /\ i > 0 /\ (i \notin DOMAIN toPico => i > Len(toPico))
    BY <2>2, <2>3
  <2>5. \A i \in DOMAIN toPico : i \in DOMAIN toPico'
    BY <2>2, <2>3
  <2> QED BY <1>5, <2>1, <2>2, <2>3, <2>4, <2>5
<1>9. \A i, j \in DOMAIN toPico' : i <= j /\ j \in DOMAIN toPico => i \in DOMAIN toPico
  BY <1>8
<1>10. /\ \A m \in DOMAIN x.lines : x.lines[m].sid = x.sid /\ x.lines[m].op # "junk"
       /\ \A m \in DOMAIN x.lines :
            /\ x.lines[m].op = "session" <=> x.who = "handshake"
            /\ x.lines[m].op = "input" => x.who \in Inputs
            /\ x.who \in Inputs => x.lines[m].op = "input"
                                   /\ x.lines[m].unit = <<x.who, done[x.who] + m>>
       /\ x.lines \in Seq(LineType) /\ DOMAIN x.lines = 1..Len(x.lines)
  BY <1>1, <1>2, LenProperties DEF Addressed, Numbered, ExchangeType
<1>11. x.who \in Inputs =>
         /\ x.who \in Callers /\ pc[x.who] = "wire" /\ pc[x.who] \notin Answers
         /\ done[x.who] \in Nat /\ Len(x.lines) \in Nat /\ public[1] = x.who
         /\ x.who \notin Batches => Len(x.lines) = 1
  <2>1. x.who \in Inputs => x.who \in Callers
    BY DEF Callers
  <2>2. "wire" \notin Answers
    BY DEF Answers
  <2>3. Len(x.lines) \in Nat
    BY <1>10, LenProperties
  <2>4. x.who \in Inputs => pc[x.who] = "wire" /\ done[x.who] \in Nat
    BY <1>1, <1>2, <2>1 DEF Queued, Typed
  <2>5. x.who \in Inputs => public[1] = x.who
    BY <1>1, <2>4 DEF Queued
  <2>6. x.who \in Inputs /\ x.who \notin Batches => Len(x.lines) = 1
    BY <1>1, <1>2 DEF Portions
  <2> QED BY <2>1, <2>2, <2>3, <2>4, <2>5, <2>6
<1>12. \A m \in DOMAIN x.lines : x.who \in Inputs =>
         x.lines[m].unit \in Inputs \X (Nat \ {0}) /\ x.lines[m].unit[1] = x.who
         /\ x.lines[m].unit[2] = done[x.who] + m /\ m \in Nat /\ m > 0 /\ m <= Len(x.lines)
  <2> HIDE DEF x
  <2> SUFFICES ASSUME NEW m \in DOMAIN x.lines, x.who \in Inputs
               PROVE  /\ x.lines[m].unit \in Inputs \X (Nat \ {0}) /\ x.lines[m].unit[1] = x.who
                      /\ x.lines[m].unit[2] = done[x.who] + m
                      /\ m \in Nat /\ m > 0 /\ m <= Len(x.lines)
    OBVIOUS
  <2>1. x.lines[m].unit = <<x.who, done[x.who] + m>> /\ m \in 1..Len(x.lines)
    BY <1>10
  <2>2. m \in Nat /\ m > 0 /\ m <= Len(x.lines) /\ done[x.who] + m \in Nat \ {0}
    BY <1>11, <2>1
  <2> QED BY <2>1, <2>2
<1>13. \A m, n \in DOMAIN x.lines :
         x.who \in Inputs /\ x.lines[m].unit = x.lines[n].unit => m = n
  <2> HIDE DEF x
  <2> SUFFICES ASSUME NEW m \in DOMAIN x.lines, NEW n \in DOMAIN x.lines, x.who \in Inputs,
                      x.lines[m].unit = x.lines[n].unit
               PROVE  m = n
    OBVIOUS
  <2>1. done[x.who] + m = done[x.who] + n /\ m \in Nat /\ n \in Nat
    BY <1>12
  <2> QED BY <1>11, <2>1
(* The first time nothing of it is on its way. *)
<1>14. ASSUME x.who \in Inputs, x.attempt = 0
       PROVE  \A m \in DOMAIN x.lines : x.lines[m].unit \notin Put
  <2> SUFFICES ASSUME NEW m \in DOMAIN x.lines, x.lines[m].unit \in Put PROVE FALSE
    OBVIOUS
  <2>1. \A w \in DOMAIN wire : wire[w].who = x.who => w = 1
    BY <1>1, <1>2 DEF OneAtATime
  <2>2. ~Begun(x.lines[m].unit)
    BY <1>12, <1>14, <2>1 DEF Begun
  <2> QED BY <1>11, <1>12, <1>14, <2>2 DEF Put
<1>15. /\ \A i \in DOMAIN executed : executed[i].unit \in Finished /\ executed[i].unit \in Put
       /\ \A i \in DOMAIN toPico : toPico[i].op = "input" => toPico[i].unit \in Put
       /\ Finished \subseteq Put /\ Finished' = Finished
  BY <1>1, <1>3, ExecutedIs DEF Numbered, Finished
<1>16. \A u \in Put : u[1] = x.who /\ x.who \in Inputs =>
         u[2] \in Nat /\ u[2] <= done[x.who] + Len(x.lines)
  <2> SUFFICES ASSUME NEW u \in Put, u[1] = x.who, x.who \in Inputs
               PROVE  u[2] \in Nat /\ u[2] <= done[x.who] + Len(x.lines)
    OBVIOUS
  <2>1. u[2] \in Nat
    BY DEF Put
  <2>2. CASE Begun(u)
    BY <1>1, <1>2, <2>1, <2>2 DEF Begun, OneAtATime
  <2>3. CASE u[2] <= done[u[1]]
    BY <1>11, <2>1, <2>3
  <2> QED BY <1>11, <2>1, <2>2, <2>3 DEF Put
(* A line that goes out again. *)
<1>17. \A m \in DOMAIN x.lines : x.who \in Inputs /\ x.lines[m].unit \in Put =>
         /\ \A i, j \in DOMAIN toPico :
              /\ i <= j /\ toPico[i].op = "input" /\ toPico[i].unit = x.lines[m].unit
              /\ toPico[j].op # "junk"
              => \E n \in DOMAIN x.lines : toPico[j] = x.lines[n]
         /\ x.lines[m].unit \in Finished =>
              /\ \A j \in DOMAIN toPico : toPico[j].op # "junk" =>
                   \E n \in DOMAIN x.lines : toPico[j] = x.lines[n]
              /\ x.lines[m].sid = pico.sid => Kept(pico.cache, x.lines[m], NumbersOf(x))
         /\ \A e \in DOMAIN executed :
              x.lines[m].unit = executed[e].unit => x.lines[m] = executed[e]
  <2> SUFFICES ASSUME NEW m \in DOMAIN x.lines, x.who \in Inputs, x.lines[m].unit \in Put,
                      x.attempt > 0
               PROVE
         /\ \A i, j \in DOMAIN toPico :
              /\ i <= j /\ toPico[i].op = "input" /\ toPico[i].unit = x.lines[m].unit
              /\ toPico[j].op # "junk"
              => \E n \in DOMAIN x.lines : toPico[j] = x.lines[n]
         /\ x.lines[m].unit \in Finished =>
              /\ \A j \in DOMAIN toPico : toPico[j].op # "junk" =>
                   \E n \in DOMAIN x.lines : toPico[j] = x.lines[n]
              /\ x.lines[m].sid = pico.sid => Kept(pico.cache, x.lines[m], NumbersOf(x))
         /\ \A e \in DOMAIN executed :
              x.lines[m].unit = executed[e].unit => x.lines[m] = executed[e]
    BY <1>2, <1>14
  <2> QED BY <1>1, <1>2 DEF Rewritable, Same
<1> DEFINE Fresh(i) == i \notin DOMAIN toPico
           OfX(l) == \E n \in DOMAIN x.lines : l = x.lines[n]
<1>18. NumbersOf(y) = NumbersOf(x) /\ (x.who \in Inputs => NumbersOf(x) \in Groups)
  BY <1>2, <1>4, NumbersGroup DEF NumbersOf
<1>19. \A m \in DOMAIN x.lines : x.lines[m].seq \in NumbersOf(x)
  BY DEF NumbersOf
<1>20. Put \subseteq Put' /\ (x.who \in Inputs => \A m \in DOMAIN x.lines : x.lines[m].unit \in Put')
  <2>1. \A u : Begun(u) => Begun(u)'
    <3> SUFFICES ASSUME NEW u, Begun(u) PROVE Begun(u)'
      OBVIOUS
    <3>1. PICK w \in DOMAIN wire :
            wire[w].who = u[1] /\ wire[w].attempt > 0 /\ u[2] <= done[u[1]] + Len(wire[w].lines)
      BY DEF Begun
    <3>2. w \in DOMAIN wire' /\ wire'[w].attempt > 0
      BY <1>4, <1>6, <3>1
    <3> QED BY <1>3, <1>7, <3>1, <3>2 DEF Begun
  <2>2. ASSUME NEW u, x.who \in Inputs, u[1] = x.who, u[2] <= done[x.who] + Len(x.lines)
        PROVE  Begun(u)'
    <3>1. 1 \in DOMAIN wire' /\ wire'[1].attempt > 0 /\ wire'[1].who = x.who
          /\ wire'[1].lines = x.lines
      BY <1>2, <1>4, <1>6
    <3> HIDE DEF x
    <3> QED BY <1>3, <2>2, <3>1 DEF Begun
  <2>3. Put \subseteq Put'
    BY <1>3, <2>1 DEF Put
  <2>4. x.who \in Inputs => \A m \in DOMAIN x.lines : x.lines[m].unit \in Put'
    <3> HIDE DEF x
    <3> SUFFICES ASSUME x.who \in Inputs, NEW m \in DOMAIN x.lines
                 PROVE  x.lines[m].unit \in Put'
      OBVIOUS
    <3> PICK u \in Inputs \X (Nat \ {0}) : u = x.lines[m].unit
      BY <1>12
    <3>1. u[1] = x.who /\ u[2] <= done[x.who] + Len(x.lines)
      <4>1. u[1] = x.who /\ u[2] = done[x.who] + m /\ m \in Nat /\ m <= Len(x.lines)
        BY <1>12
      <4> QED BY <1>11, <4>1
    <3>2. Begun(u)'
      BY <2>2, <3>1
    <3>3. u \in Put'
      BY <3>2 DEF Put
    <3> QED BY <3>3
  <2> QED BY <2>3, <2>4
<1>21. \A i \in DOMAIN toPico' : Fresh(i) =>
         /\ OfX(toPico'[i]) /\ toPico'[i].sid = x.sid
         /\ toPico'[i].op = "input" => x.who \in Inputs /\ toPico'[i].unit[1] = x.who
                                       /\ toPico'[i].unit \in Put'
         /\ toPico'[i].op = "session" => x.who = "handshake"
  BY <1>8, <1>10, <1>12, <1>20
<1> HIDE DEF x
<1>22. Numbered'
  <2>1. \A i \in DOMAIN executed' : executed'[i].op = "input" /\ executed'[i].unit \in Put'
    BY <1>1, <1>3, <1>20 DEF Numbered
  <2>2. \A i \in DOMAIN toPico' : toPico'[i].op = "input" => toPico'[i].unit \in Put'
    BY <1>8, <1>15, <1>20, <1>21
  <2>3. \A w \in DOMAIN wire' : \A k \in DOMAIN wire'[w].lines :
          /\ wire'[w].who \in Inputs =>
               /\ wire'[w].lines[k].op = "input"
               /\ wire'[w].lines[k].unit = <<wire'[w].who, done'[wire'[w].who] + k>>
          /\ wire'[w].lines[k].op = "input" => wire'[w].who \in Inputs
          /\ wire'[w].lines[k].op = "session" <=> wire'[w].who = "handshake"
    <3> SUFFICES ASSUME NEW w \in DOMAIN wire', NEW k \in DOMAIN wire'[w].lines
                 PROVE  /\ wire'[w].who \in Inputs =>
                             /\ wire'[w].lines[k].op = "input"
                             /\ wire'[w].lines[k].unit = <<wire'[w].who, done'[wire'[w].who] + k>>
                        /\ wire'[w].lines[k].op = "input" => wire'[w].who \in Inputs
                        /\ wire'[w].lines[k].op = "session" <=> wire'[w].who = "handshake"
      OBVIOUS
    <3>1. w \in DOMAIN wire /\ k \in DOMAIN wire[w].lines
      BY <1>6, <1>7
    <3> QED BY <1>1, <1>3, <1>7, <3>1 DEF Numbered
  <2> QED BY <2>1, <2>2, <2>3 DEF Numbered
<1>23. Unserved'
  BY <1>1, <1>3 DEF Unserved
(* A handshake that waits has the session to itself. *)
<1>24. \A w \in DOMAIN wire : wire[w].who = "handshake" /\ wire[w].sid = x.sid =>
         x.who = "handshake"
  <2> SUFFICES ASSUME NEW w \in DOMAIN wire, wire[w].who = "handshake", wire[w].sid = x.sid
               PROVE  x.who = "handshake"
    OBVIOUS
  <2>1. CASE x.attempt = 0
    <3>1. link.phase = "handshake" /\ ~link.ready
      BY <1>1 DEF OneAtATime, Current
    <3> QED BY <1>2, <2>1, <3>1
  <2>2. CASE x.attempt = 1
    BY <1>1, <1>2, <2>2 DEF Opened, x
  <2> QED BY <1>2, <2>1, <2>2
<1>25. Opened'
  <2>1. ASSUME NEW i \in DOMAIN toPico', NEW j \in DOMAIN toPico', i < j,
               toPico'[i].op # "junk", toPico'[j].op = "session", toPico'[i].sid = toPico'[j].sid
        PROVE  toPico'[i].op = "session"
    <3>1. CASE j \in DOMAIN toPico
      <4>1. i \in DOMAIN toPico
        BY <1>8, <2>1, <3>1
      <4> QED BY <1>1, <1>8, <2>1, <3>1, <4>1 DEF Opened
    <3>2. CASE j \notin DOMAIN toPico
      <4>1. x.who = "handshake" /\ toPico'[j].sid = x.sid
        BY <1>21, <2>1, <3>2
      <4>2. CASE i \in DOMAIN toPico
        BY <1>1, <1>2, <1>8, <2>1, <4>1, <4>2 DEF Opened, x
      <4>3. CASE i \notin DOMAIN toPico
        BY <1>10, <1>21, <4>1, <4>3
      <4> QED BY <4>2, <4>3
    <3> QED BY <3>1, <3>2
  <2>2. \A i \in DOMAIN executed : executed[i].sid \in 1..link.sessions
    BY <1>1 DEF Opened
  <2>3. ASSUME NEW i \in DOMAIN executed, NEW j \in DOMAIN toPico', toPico'[j].op = "session"
        PROVE  toPico'[j].sid # executed[i].sid
    <3>1. CASE j \in DOMAIN toPico
      BY <1>1, <1>8, <2>3, <3>1 DEF Opened
    <3>2. CASE j \notin DOMAIN toPico
      BY <1>1, <1>2, <1>21, <2>3, <3>2 DEF Opened, x
    <3> QED BY <3>1, <3>2
  <2>4. ASSUME NEW w \in DOMAIN wire, wire[w].who = "handshake"
        PROVE  /\ \A i \in DOMAIN executed : executed[i].sid # wire[w].sid
               /\ \A i \in DOMAIN toPico' :
                    toPico'[i].op # "junk" /\ toPico'[i].sid = wire[w].sid
                    => toPico'[i].op = "session"
               /\ \A v \in DOMAIN wire' :
                    wire'[v].attempt > 0 /\ wire'[v].sid = wire[w].sid
                    => wire'[v].who = "handshake"
    <3>1. \A i \in DOMAIN executed : executed[i].sid # wire[w].sid
      BY <1>1, <2>4 DEF Opened
    <3>2. ASSUME NEW i \in DOMAIN toPico', toPico'[i].op # "junk", toPico'[i].sid = wire[w].sid
          PROVE  toPico'[i].op = "session"
      <4>1. CASE i \in DOMAIN toPico
        BY <1>1, <1>8, <2>4, <3>2, <4>1 DEF Opened
      <4>2. CASE i \notin DOMAIN toPico
        BY <1>10, <1>21, <1>24, <2>4, <3>2, <4>2
      <4> QED BY <4>1, <4>2
    <3>3. ASSUME NEW v \in DOMAIN wire', wire'[v].attempt > 0, wire'[v].sid = wire[w].sid
          PROVE  wire'[v].who = "handshake"
      <4>1. v = 1 /\ wire'[v].sid = x.sid /\ wire'[v].who = x.who
        BY <1>4, <1>6, <1>7, <3>3
      <4> QED BY <1>24, <2>4, <3>3, <4>1
    <3> QED BY <3>1, <3>2, <3>3
  <2> QED BY <1>3, <1>6, <1>7, <2>1, <2>2, <2>3, <2>4 DEF Opened
<1>26. Grouped'
  <2> SUFFICES ASSUME NEW i \in DOMAIN toPico', NEW j \in DOMAIN toPico', i < j,
                      toPico'[i].op = "input", toPico'[j].op = "input",
                      toPico'[i].unit = toPico'[j].unit
               PROVE  /\ toPico'[i] = toPico'[j]
                      /\ \E G \in Groups : Together(toPico', G, toPico'[i].sid, i, j)
    BY DEF Grouped
  <2>1. CASE j \in DOMAIN toPico
    <3>1. i \in DOMAIN toPico
      BY <1>8, <2>1
    <3>2. toPico[i] = toPico[j] /\ \E G \in Groups : Together(toPico, G, toPico[i].sid, i, j)
      BY <1>1, <1>8, <2>1, <3>1 DEF Grouped
    <3>3. \A G : Together(toPico, G, toPico[i].sid, i, j) => Together(toPico', G, toPico[i].sid, i, j)
      BY <1>8, <2>1 DEF Together
    <3> QED BY <1>8, <2>1, <3>1, <3>2, <3>3
  <2>2. CASE j \notin DOMAIN toPico
    <3>1. PICK m \in DOMAIN x.lines : toPico'[j] = x.lines[m]
      BY <1>8, <2>2
    <3>2. x.who \in Inputs
      BY <1>21, <2>2
    <3>3. \A k \in DOMAIN toPico' : i <= k /\ toPico'[k].op # "junk" => OfX(toPico'[k])
      <4> SUFFICES ASSUME NEW k \in DOMAIN toPico', i <= k, toPico'[k].op # "junk",
                          k \in DOMAIN toPico
                   PROVE  OfX(toPico'[k])
        BY <1>21
      <4>1. i \in DOMAIN toPico
        BY <1>8
      <4>2. toPico[i].op = "input" /\ toPico[i].unit = x.lines[m].unit /\ toPico[i].unit \in Put
        BY <1>8, <1>15, <3>1, <4>1
      <4> QED BY <1>8, <1>17, <3>2, <4>1, <4>2
    <3>4. PICK n \in DOMAIN x.lines : toPico'[i] = x.lines[n]
      BY <1>8, <3>3
    <3>5. toPico'[i] = toPico'[j]
      BY <1>13, <3>1, <3>2, <3>4
    <3>6. Together(toPico', NumbersOf(x), toPico'[i].sid, i, j)
      BY <1>10, <1>19, <3>3, <3>4 DEF Together
    <3> QED BY <1>18, <3>2, <3>5, <3>6
  <2> QED BY <2>1, <2>2
<1>27. Same'
  <2>1. ASSUME NEW e \in DOMAIN executed, NEW i \in DOMAIN toPico', toPico'[i].op = "input",
               toPico'[i].unit = executed[e].unit
        PROVE  toPico'[i] = executed[e]
    <3>1. CASE i \in DOMAIN toPico
      BY <1>1, <1>8, <2>1, <3>1 DEF Same
    <3>2. CASE i \notin DOMAIN toPico
      <4>1. PICK m \in DOMAIN x.lines : toPico'[i] = x.lines[m]
        BY <1>8, <3>2
      <4> QED BY <1>15, <1>17, <1>21, <2>1, <3>2, <4>1
    <3> QED BY <3>1, <3>2
  <2>2. ASSUME NEW e \in DOMAIN executed, NEW w \in DOMAIN wire', wire'[w].attempt > 0,
               wire'[w].who \in Inputs, NEW k \in DOMAIN wire'[w].lines,
               wire'[w].lines[k].unit = executed[e].unit
        PROVE  wire'[w].lines[k] = executed[e]
    <3>1. x.who \in Inputs /\ wire'[w].lines = x.lines
      BY <1>4, <1>6, <1>7, <2>2
    <3> QED BY <1>15, <1>17, <2>2, <3>1
  <2> QED BY <1>3, <2>1, <2>2 DEF Same
<1>28. Repeats'
  <2> SUFFICES ASSUME NEW i \in DOMAIN toPico', toPico'[i].op = "input",
                      toPico'[i].sid = pico.sid, toPico'[i].unit \in Finished
               PROVE  \E G \in Groups : /\ Together(toPico', G, toPico'[i].sid, 1, i)
                                        /\ Kept(pico.cache, toPico'[i], G)
    BY <1>3, <1>15 DEF Repeats
  <2>1. CASE i \in DOMAIN toPico
    <3>1. PICK G \in Groups : Together(toPico, G, toPico[i].sid, 1, i)
                              /\ Kept(pico.cache, toPico[i], G)
      BY <1>1, <1>8, <2>1 DEF Repeats
    <3>2. Together(toPico', G, toPico[i].sid, 1, i)
      BY <1>8, <2>1, <3>1 DEF Together
    <3> QED BY <1>8, <2>1, <3>1, <3>2
  <2>2. CASE i \notin DOMAIN toPico
    <3>1. PICK m \in DOMAIN x.lines : toPico'[i] = x.lines[m]
      BY <1>8, <2>2
    <3>2. x.who \in Inputs /\ x.lines[m].unit \in Put /\ x.lines[m].sid = pico.sid
      BY <1>15, <1>21, <2>2, <3>1
    <3>3. /\ \A j \in DOMAIN toPico : toPico[j].op # "junk" => OfX(toPico[j])
          /\ Kept(pico.cache, x.lines[m], NumbersOf(x))
      BY <1>17, <3>1, <3>2
    <3>4. \A j \in DOMAIN toPico' : toPico'[j].op # "junk" => OfX(toPico'[j])
      BY <1>8, <1>21, <3>3
    <3>5. Together(toPico', NumbersOf(x), toPico'[i].sid, 1, i)
      BY <1>10, <1>19, <3>1, <3>4 DEF Together
    <3> QED BY <1>18, <3>1, <3>2, <3>3, <3>5
  <2> QED BY <2>1, <2>2
<1>29. Rewritable'
  <2> SUFFICES ASSUME NEW w \in DOMAIN wire', wire'[w].attempt > 0, wire'[w].who \in Inputs,
                      NEW k \in DOMAIN wire'[w].lines
               PROVE  /\ \A i, j \in DOMAIN toPico' :
                           /\ i <= j /\ toPico'[i].op = "input"
                           /\ toPico'[i].unit = wire'[w].lines[k].unit
                           /\ toPico'[j].op # "junk"
                           => \E m \in DOMAIN wire'[w].lines : toPico'[j] = wire'[w].lines[m]
                      /\ wire'[w].lines[k].unit \in Finished' =>
                           /\ \A j \in DOMAIN toPico' : toPico'[j].op # "junk" =>
                                \E m \in DOMAIN wire'[w].lines : toPico'[j] = wire'[w].lines[m]
                           /\ wire'[w].lines[k].sid = pico'.sid =>
                                Kept(pico'.cache, wire'[w].lines[k], NumbersOf(wire'[w]))
    BY DEF Rewritable
  <2>0. /\ wire'[w].lines = x.lines /\ x.who \in Inputs /\ k \in DOMAIN x.lines
        /\ NumbersOf(wire'[w]) = NumbersOf(x)
    BY <1>4, <1>6, <1>7, <1>18
  <2>1. ASSUME NEW i \in DOMAIN toPico', NEW j \in DOMAIN toPico',
               i <= j, toPico'[i].op = "input", toPico'[i].unit = x.lines[k].unit,
               toPico'[j].op # "junk"
        PROVE  OfX(toPico'[j])
    <3>1. CASE j \notin DOMAIN toPico
      BY <1>21, <3>1
    <3>2. CASE j \in DOMAIN toPico
      <4>1. i \in DOMAIN toPico
        BY <1>9, <2>1, <3>2
      <4>2. x.lines[k].unit \in Put
        BY <1>8, <1>15, <2>0, <2>1, <4>1
      <4> QED BY <1>8, <1>17, <2>0, <2>1, <3>2, <4>1, <4>2
    <3> QED BY <3>1, <3>2
  <2>2. ASSUME x.lines[k].unit \in Finished
        PROVE  /\ \A j \in DOMAIN toPico' : toPico'[j].op # "junk" => OfX(toPico'[j])
               /\ x.lines[k].sid = pico.sid => Kept(pico.cache, x.lines[k], NumbersOf(x))
    <3>1. /\ \A j \in DOMAIN toPico : toPico[j].op # "junk" => OfX(toPico[j])
          /\ x.lines[k].sid = pico.sid => Kept(pico.cache, x.lines[k], NumbersOf(x))
      BY <1>15, <1>17, <2>0, <2>2
    <3> QED BY <1>8, <1>21, <3>1
  <2>3. pico' = pico /\ Finished' = Finished
    BY <1>3, <1>15
  <2>4. \A i, j \in DOMAIN toPico' :
          /\ i <= j /\ toPico'[i].op = "input" /\ toPico'[i].unit = wire'[w].lines[k].unit
          /\ toPico'[j].op # "junk"
          => \E m \in DOMAIN wire'[w].lines : toPico'[j] = wire'[w].lines[m]
    BY <2>0, <2>1
  <2>5. ASSUME wire'[w].lines[k].unit \in Finished'
        PROVE  /\ \A j \in DOMAIN toPico' : toPico'[j].op # "junk" =>
                    \E m \in DOMAIN wire'[w].lines : toPico'[j] = wire'[w].lines[m]
               /\ wire'[w].lines[k].sid = pico'.sid =>
                    Kept(pico'.cache, wire'[w].lines[k], NumbersOf(wire'[w]))
    <3>1. x.lines[k].unit \in Finished
      BY <2>0, <2>3, <2>5
    <3> QED BY <2>0, <2>2, <2>3, <3>1
  <2> QED BY <2>4, <2>5
(* What goes before a line of the exchange. *)
<1>30. \A u \in Put : \A i \in DOMAIN toPico' :
         Fresh(i) /\ toPico'[i].op = "input" => Before(u, toPico'[i].unit)
  <2> SUFFICES ASSUME NEW u \in Put, NEW i \in DOMAIN toPico', i \notin DOMAIN toPico,
                      toPico'[i].op = "input", u[1] = toPico'[i].unit[1], u[1] \notin Batches
               PROVE  u[2] <= toPico'[i].unit[2]
    BY DEF Before
  <2>1. PICK m \in DOMAIN x.lines : toPico'[i] = x.lines[m]
    BY <1>8
  <2>2. x.who \in Inputs /\ u[1] = x.who
    BY <1>21
  <2>3. u[2] \in Nat /\ u[2] <= done[x.who] + 1 /\ toPico'[i].unit[2] = done[x.who] + m
        /\ m \in Nat /\ m > 0 /\ done[x.who] \in Nat
    BY <1>11, <1>12, <1>16, <2>1, <2>2
  <2> QED BY <2>3
<1>31. \A i, j \in DOMAIN toPico' :
         Fresh(i) /\ Fresh(j) /\ toPico'[i].op = "input" /\ toPico'[j].op = "input" =>
           Before(toPico'[i].unit, toPico'[j].unit)
  <2> SUFFICES ASSUME NEW i \in DOMAIN toPico', NEW j \in DOMAIN toPico', Fresh(i), Fresh(j),
                      toPico'[i].op = "input", toPico'[j].op = "input",
                      toPico'[i].unit[1] \notin Batches
               PROVE  toPico'[i].unit[2] <= toPico'[j].unit[2]
    BY DEF Before
  <2>1. PICK m \in DOMAIN x.lines : toPico'[i] = x.lines[m]
    BY <1>8
  <2>2. PICK n \in DOMAIN x.lines : toPico'[j] = x.lines[n]
    BY <1>8
  <2>3. x.who \in Inputs /\ x.who \notin Batches
    BY <1>21
  <2>4. m = 1 /\ n = 1 /\ done[x.who] \in Nat
    BY <1>10, <1>11, <2>3
  <2>5. toPico'[i].unit[2] = toPico'[j].unit[2] /\ toPico'[i].unit[2] \in Nat
    BY <1>12, <2>1, <2>2, <2>3, <2>4
  <2> QED BY <2>5
<1>32. x.who \in Inputs =>
         /\ \A i \in DOMAIN executed : executed[i].unit[1] = x.who =>
              /\ \A k \in DOMAIN executed : i <= k => executed[k].unit[1] = x.who
              /\ \A k \in DOMAIN toPico' : toPico'[k].op = "input" => toPico'[k].unit[1] = x.who
         /\ \A i \in DOMAIN toPico' : toPico'[i].op = "input" /\ toPico'[i].unit[1] = x.who =>
              \A k \in DOMAIN toPico' :
                i <= k /\ toPico'[k].op = "input" => toPico'[k].unit[1] = x.who
  <2> SUFFICES ASSUME x.who \in Inputs
               PROVE
         /\ \A i \in DOMAIN executed : executed[i].unit[1] = x.who =>
              /\ \A k \in DOMAIN executed : i <= k => executed[k].unit[1] = x.who
              /\ \A k \in DOMAIN toPico' : toPico'[k].op = "input" => toPico'[k].unit[1] = x.who
         /\ \A i \in DOMAIN toPico' : toPico'[i].op = "input" /\ toPico'[i].unit[1] = x.who =>
              \A k \in DOMAIN toPico' :
                i <= k /\ toPico'[k].op = "input" => toPico'[k].unit[1] = x.who
    OBVIOUS
  <2>1. /\ \A i \in DOMAIN executed : executed[i].unit[1] = x.who =>
             /\ \A k \in DOMAIN executed : i <= k => executed[k].unit[1] = x.who
             /\ \A k \in DOMAIN toPico : toPico[k].op = "input" => toPico[k].unit[1] = x.who
        /\ \A i \in DOMAIN toPico : toPico[i].op = "input" /\ toPico[i].unit[1] = x.who =>
             \A k \in DOMAIN toPico : i <= k /\ toPico[k].op = "input" => toPico[k].unit[1] = x.who
    BY <1>1, <1>11 DEF Unfinished
  <2>2. \A k \in DOMAIN toPico' : k \notin DOMAIN toPico /\ toPico'[k].op = "input" =>
          toPico'[k].unit[1] = x.who
    BY <1>21
  <2>3. ASSUME NEW i \in DOMAIN toPico', toPico'[i].op = "input", toPico'[i].unit[1] = x.who,
               NEW k \in DOMAIN toPico', i <= k, toPico'[k].op = "input", k \in DOMAIN toPico
        PROVE  toPico'[k].unit[1] = x.who
    <3>1. i \in DOMAIN toPico
      BY <1>9, <2>3
    <3> QED BY <1>8, <2>1, <2>3, <3>1
  <2>4. \A i \in DOMAIN executed : executed[i].unit[1] = x.who =>
          \A k \in DOMAIN toPico' : toPico'[k].op = "input" => toPico'[k].unit[1] = x.who
    BY <1>8, <2>1, <2>2
  <2> QED BY <2>1, <2>2, <2>3, <2>4
<1>33. Ordered'
  <2>1. ASSUME NEW i \in DOMAIN executed, NEW j \in DOMAIN toPico', toPico'[j].op = "input",
               executed[i].unit[1] = toPico'[j].unit[1]
        PROVE  /\ Before(executed[i].unit, toPico'[j].unit)
               /\ \A k \in DOMAIN executed : i <= k => executed[k].unit[1] = executed[i].unit[1]
               /\ \A k \in DOMAIN toPico' : k <= j /\ toPico'[k].op = "input" =>
                    toPico'[k].unit[1] = executed[i].unit[1]
    <3>1. CASE j \in DOMAIN toPico
      <4>1. \A k \in DOMAIN toPico' : k <= j => k \in DOMAIN toPico /\ toPico'[k] = toPico[k]
        BY <1>8, <1>9, <3>1
      <4> QED BY <1>1, <1>8, <2>1, <3>1, <4>1 DEF Ordered
    <3>2. CASE j \notin DOMAIN toPico
      <4>1. x.who \in Inputs /\ executed[i].unit[1] = x.who
        BY <1>21, <2>1, <3>2
      <4>2. Before(executed[i].unit, toPico'[j].unit)
        BY <1>15, <1>30, <2>1, <3>2
      <4> QED BY <1>32, <4>1, <4>2
    <3> QED BY <3>1, <3>2
  <2>2. ASSUME NEW i \in DOMAIN toPico', NEW j \in DOMAIN toPico', i < j,
               toPico'[i].op = "input", toPico'[j].op = "input",
               toPico'[i].unit[1] = toPico'[j].unit[1]
        PROVE  /\ Before(toPico'[i].unit, toPico'[j].unit)
               /\ \A k \in DOMAIN toPico' : i <= k /\ k <= j /\ toPico'[k].op = "input" =>
                    toPico'[k].unit[1] = toPico'[i].unit[1]
    <3>1. CASE j \in DOMAIN toPico
      <4>1. \A k \in DOMAIN toPico' : k <= j => k \in DOMAIN toPico /\ toPico'[k] = toPico[k]
        BY <1>8, <1>9, <3>1
      <4>2. i <= j
        BY <1>8, <2>2
      <4>3. i \in DOMAIN toPico /\ toPico'[i] = toPico[i] /\ toPico'[j] = toPico[j]
        BY <1>8, <3>1, <4>1, <4>2
      <4>4. /\ Before(toPico[i].unit, toPico[j].unit)
            /\ \A k \in DOMAIN toPico : i <= k /\ k <= j /\ toPico[k].op = "input" =>
                 toPico[k].unit[1] = toPico[i].unit[1]
        BY <1>1, <2>2, <3>1, <4>3 DEF Ordered
      <4> QED BY <4>1, <4>3, <4>4
    <3>2. CASE j \notin DOMAIN toPico
      <4>1. x.who \in Inputs /\ toPico'[i].unit[1] = x.who
        BY <1>21, <2>2, <3>2
      <4>2. Before(toPico'[i].unit, toPico'[j].unit)
        <5>1. CASE i \in DOMAIN toPico
          BY <1>8, <1>15, <1>30, <2>2, <3>2, <5>1
        <5>2. CASE i \notin DOMAIN toPico
          BY <1>31, <2>2, <3>2, <5>2
        <5> QED BY <5>1, <5>2
      <4> QED BY <1>32, <2>2, <4>1, <4>2
    <3> QED BY <3>1, <3>2
  <2>3. \A i, j \in DOMAIN executed :
          i < j /\ executed[i].unit[1] = executed[j].unit[1] =>
            /\ Before(executed[i].unit, executed[j].unit)
            /\ \A k \in DOMAIN executed : i <= k /\ k <= j =>
                 executed[k].unit[1] = executed[i].unit[1]
    BY <1>1 DEF Ordered
  <2>4. executed' = executed
    BY <1>3
  <2> QED BY <2>1, <2>2, <2>3, <2>4 DEF Ordered
<1>34. Unfinished'
  <2> SUFFICES ASSUME NEW c \in Inputs, pc[c] \in {"public", "wire"}
               PROVE  /\ \A i \in DOMAIN executed : executed[i].unit[1] = c =>
                           /\ \A k \in DOMAIN executed : i <= k => executed[k].unit[1] = c
                           /\ \A k \in DOMAIN toPico' :
                                toPico'[k].op = "input" => toPico'[k].unit[1] = c
                      /\ \A i \in DOMAIN toPico' :
                           toPico'[i].op = "input" /\ toPico'[i].unit[1] = c =>
                             \A k \in DOMAIN toPico' :
                               i <= k /\ toPico'[k].op = "input" => toPico'[k].unit[1] = c
    BY <1>3 DEF Unfinished
  <2>1. CASE c = x.who
    BY <1>32, <2>1
  <2>2. CASE c # x.who /\ x.who \in Inputs
    <3>1. pc[c] = "public" /\ public[1] # c
      BY <1>1, <1>11, <2>2 DEF Queued
    <3>2. /\ \A i \in DOMAIN executed : executed[i].unit[1] # c
          /\ \A i \in DOMAIN toPico : toPico[i].op = "input" => toPico[i].unit[1] # c
      BY <3>1, NothingOf
    <3>3. \A i \in DOMAIN toPico' : toPico'[i].op = "input" => toPico'[i].unit[1] # c
      BY <1>8, <1>21, <2>2, <3>2
    <3> QED BY <3>2, <3>3
  <2>3. CASE x.who \notin Inputs
    <3>1. \A i \in DOMAIN toPico' : toPico'[i].op = "input" =>
            i \in DOMAIN toPico /\ toPico'[i] = toPico[i]
      BY <1>8, <1>21, <2>3
    <3> QED BY <1>1, <3>1 DEF Unfinished
  <2> QED BY <2>1, <2>2, <2>3
<1>35. AtMostOnce'
  BY <1>1, <1>3 DEF AtMostOnce
<1> QED BY <1>22, <1>23, <1>25, <1>26, <1>27, <1>28, <1>29, <1>33, <1>34, <1>35 DEF JInv

---------------------------------------------------------
(* The Pico's cache. *)

(* The newest answer is remembered. *)
LEMMA KeptNew ==
  ASSUME NEW cache \in Seq(MessageType), Len(cache) <= CacheSize, NEW m \in MessageType,
         NEW l, m.sid = l.sid, m.seq = l.seq, NEW G, m.seq \in G
  PROVE  Kept(Remembered(cache, m), l, G)
<1>1. CacheSize \in Nat /\ CacheSize > 0 /\ Len(cache) \in Nat
  BY SerialAssumption, LenProperties
<1>2. PICK t \in Seq(MessageType) : Remembered(cache, m) = Append(t, m)
  <2>1. CASE Len(cache) = CacheSize
    <3>1. cache # <<>>
      BY <1>1, <2>1
    <3>2. Tail(cache) \in Seq(MessageType)
      BY <3>1, Shortened
    <3> QED BY <2>1, <3>2 DEF Remembered
  <2>2. CASE Len(cache) # CacheSize
    BY <2>2 DEF Remembered
  <2> QED BY <2>1, <2>2
<1> DEFINE r == Append(t, m)
           k == Len(t) + 1
<1>3. /\ DOMAIN r = DOMAIN t \cup {k} /\ DOMAIN t = 1..Len(t) /\ r[k] = m /\ Len(t) \in Nat
  BY Appended, LenProperties
<1> HIDE DEF r
<1>4. k \in DOMAIN r /\ \A n \in DOMAIN r : k <= n => n = k
  BY <1>3
<1>5. \A i, n \in DOMAIN r : ~(k <= i /\ i < n)
  BY <1>3, <1>4
<1> HIDE DEF k
<1>6. Kept(r, l, G)
  BY <1>3, <1>4, <1>5 DEF Kept
<1> QED BY <1>2, <1>6 DEF r

(* One more answer of its group, and not one that is in the cache already, does
   not push an answer out. *)
LEMMA KeptOn ==
  ASSUME NEW cache \in Seq(MessageType), Len(cache) <= CacheSize, NEW m \in MessageType,
         NEW l, NEW G \in Groups, Kept(cache, l, G), m.sid = l.sid, m.seq \in G,
         \A i \in DOMAIN cache : ~(cache[i].sid = m.sid /\ cache[i].seq = m.seq)
  PROVE  Kept(Remembered(cache, m), l, G)
<1>1. CacheSize \in Nat /\ CacheSize > 0 /\ Len(cache) \in Nat /\ DOMAIN cache = 1..Len(cache)
      /\ \A i \in DOMAIN cache : cache[i] \in MessageType
  BY SerialAssumption, LenProperties, ElementOfSeq
<1>2. PICK k \in DOMAIN cache :
        /\ cache[k].sid = l.sid /\ cache[k].seq = l.seq
        /\ \A n \in DOMAIN cache : k <= n => cache[n].sid = l.sid /\ cache[n].seq \in G
        /\ \A i, n \in DOMAIN cache : k <= i /\ i < n => cache[i].seq # cache[n].seq
  BY DEF Kept
<1>3. \A n \in DOMAIN cache : k <= n => cache[n].seq # m.seq
  BY <1>2
<1>4. CASE Len(cache) # CacheSize
  <2> DEFINE r == Append(cache, m)
  <2>1. /\ DOMAIN r = DOMAIN cache \cup {Len(cache) + 1} /\ r[Len(cache) + 1] = m
        /\ \A i \in DOMAIN cache : r[i] = cache[i]
    BY Appended
  <2>2. Remembered(cache, m) = r
    BY <1>4 DEF Remembered
  <2> HIDE DEF r
  <2>3. k \in DOMAIN r /\ r[k].sid = l.sid /\ r[k].seq = l.seq
    BY <1>2, <2>1
  <2>4. \A n \in DOMAIN r : k <= n => r[n].sid = l.sid /\ r[n].seq \in G
    BY <1>2, <2>1
  <2>5. \A i, n \in DOMAIN r : k <= i /\ i < n => r[i].seq # r[n].seq
    <3> SUFFICES ASSUME NEW i \in DOMAIN r, NEW n \in DOMAIN r, k <= i, i < n
                 PROVE  r[i].seq # r[n].seq
      OBVIOUS
    <3>1. i \in DOMAIN cache /\ r[i] = cache[i]
      BY <1>1, <2>1
    <3>2. CASE n \in DOMAIN cache
      BY <1>2, <2>1, <3>1, <3>2
    <3>3. CASE n = Len(cache) + 1
      BY <1>3, <2>1, <3>1, <3>3
    <3> QED BY <2>1, <3>2, <3>3
  <2>6. Kept(r, l, G)
    BY <2>3, <2>4, <2>5 DEF Kept
  <2> QED BY <2>2, <2>6
<1>5. CASE Len(cache) = CacheSize
  <2> DEFINE t == Tail(cache)
             r == Append(t, m)
             n0 == Len(cache)
  <2>0. cache # <<>>
    BY <1>1, <1>5
  <2>1. k # 1
    <3> SUFFICES ASSUME k = 1 PROVE FALSE
      OBVIOUS
    <3> DEFINE f == [i \in 1..n0 |-> cache[i].seq]
               H == G \ {m.seq}
    <3>1. f \in [1..n0 -> H]
      BY <1>1, <1>2, <1>3
    <3>2. \A i, j \in 1..n0 : f[i] = f[j] => i = j
      <4> SUFFICES ASSUME NEW i \in 1..n0, NEW j \in 1..n0, i < j
                   PROVE  f[i] # f[j]
        BY <1>1
      <4> QED BY <1>1, <1>2
    <3>3. IsFiniteSet(G) /\ Cardinality(G) <= CacheSize /\ Cardinality(G) \in Nat
      BY FS_CardinalityType DEF Groups
    <3>4. IsFiniteSet(H) /\ Cardinality(H) = Cardinality(G) - 1
      BY <3>3, FS_RemoveElement
    <3>5. IsFiniteSet(1..n0) /\ Cardinality(1..n0) = n0
      <4>1. \A i \in Nat : IsFiniteSet(1..i) /\ Cardinality(1..i) = i
        <5> TAKE i \in Nat
        <5>1. IsFiniteSet(1..i) /\ Cardinality(1..i) = IF 1 > i THEN 0 ELSE i - 1 + 1
          BY FS_Interval
        <5> QED BY <5>1
      <4> HIDE DEF n0
      <4> QED BY <1>1, <4>1 DEF n0
    <3> HIDE DEF f, H, n0
    <3>6. f \in Injection(1..n0, H)
      BY <3>1, <3>2 DEF Injection, IsInjective
    <3>7. Cardinality(1..n0) <= Cardinality(H)
      BY <3>4, <3>5, <3>6, FS_Injection
    <3> QED BY <1>1, <1>5, <3>3, <3>4, <3>5, <3>7 DEF n0
  <2>2. /\ t \in Seq(MessageType) /\ Len(t) = n0 - 1 /\ DOMAIN t = 1..(n0 - 1)
        /\ \A i \in DOMAIN t : i + 1 \in DOMAIN cache /\ t[i] = cache[i + 1]
    BY <2>0, Shortened
  <2> HIDE DEF t
  <2>3. /\ DOMAIN r = DOMAIN t \cup {n0} /\ r[n0] = m
        /\ \A i \in DOMAIN t : r[i] = t[i]
    <3>1. /\ DOMAIN r = DOMAIN t \cup {Len(t) + 1} /\ r[Len(t) + 1] = m
          /\ \A i \in DOMAIN t : r[i] = t[i]
      BY <2>2, Appended
    <3>2. Len(t) + 1 = n0
      BY <1>1, <2>2
    <3> QED BY <3>1, <3>2
  <2>4. Remembered(cache, m) = r
    BY <1>5 DEF Remembered, t
  <2> HIDE DEF r, n0
  <2>5. n0 \in Nat /\ DOMAIN cache = 1..n0
    BY <1>1 DEF n0
  <2> DEFINE h == k - 1
  <2>6. h \in DOMAIN r /\ r[h] = cache[k] /\ k \in Nat /\ k > 1
    <3>1. k \in Nat /\ k > 1
      BY <2>1, <2>5
    <3>2. h \in DOMAIN t /\ h + 1 = k
      BY <2>2, <2>5, <3>1
    <3> QED BY <2>2, <2>3, <3>1, <3>2
  <2>7. \A n \in DOMAIN r : h <= n =>
          \/ n + 1 \in DOMAIN cache /\ k <= n + 1 /\ r[n] = cache[n + 1] /\ n < n0
          \/ n = n0 /\ r[n] = m
    BY <2>2, <2>3, <2>5, <2>6
  <2>8. \A n \in DOMAIN r : h <= n => r[n].sid = l.sid /\ r[n].seq \in G
    BY <1>2, <2>7
  <2>9. \A i, n \in DOMAIN r : h <= i /\ i < n => r[i].seq # r[n].seq
    <3> SUFFICES ASSUME NEW i \in DOMAIN r, NEW n \in DOMAIN r, h <= i, i < n
                 PROVE  r[i].seq # r[n].seq
      OBVIOUS
    <3>1. i \in Nat /\ n \in Nat /\ n <= n0 /\ h <= n
      BY <2>2, <2>3, <2>5, <2>6
    <3>2. i + 1 \in DOMAIN cache /\ k <= i + 1 /\ r[i] = cache[i + 1]
      BY <2>5, <2>7, <3>1
    <3>3. CASE n + 1 \in DOMAIN cache /\ r[n] = cache[n + 1]
      <4>1. i + 1 < n + 1
        BY <3>1
      <4> QED BY <1>2, <3>2, <3>3, <4>1
    <3>4. CASE r[n] = m
      BY <1>3, <3>2, <3>4
    <3> QED BY <2>7, <3>1, <3>3, <3>4
  <2> HIDE DEF h
  <2>10. Kept(r, l, G)
    BY <1>2, <2>6, <2>8, <2>9 DEF Kept
  <2> QED BY <2>4, <2>10
<1> QED BY <1>4, <1>5

(* A step beyond the UART that executes nothing. *)
LEMMA FarKeeps ==
  ASSUME IInv, JInv, UNCHANGED <<link, pc, done, public, wire, executed>>, NEW d \in {0, 1},
         \A i \in DOMAIN toPico' :
           /\ i \in Nat /\ i > 0
           /\ toPico'[i].op # "junk" => i + d \in DOMAIN toPico /\ toPico'[i] = toPico[i + d],
         d = 1 => 1 \in DOMAIN toPico,
         \A l \in LineType : \A G \in Groups :
           /\ l.sid = pico'.sid /\ \E e \in DOMAIN executed : executed[e] = l
           /\ l.sid = pico.sid => Kept(pico.cache, l, G)
           /\ d = 1 /\ toPico[1].op # "junk" => toPico[1].sid = l.sid /\ toPico[1].seq \in G
           => Kept(pico'.cache, l, G),
         pico'.sid \in {0, pico.sid} \/ \A e \in DOMAIN executed : executed[e].sid # pico'.sid
  PROVE  JInv'
<1>1. /\ Typed /\ Addressed /\ OneAtATime
      /\ Numbered /\ Unserved /\ Opened /\ Grouped /\ Same /\ Repeats /\ Rewritable
      /\ Ordered /\ Unfinished /\ AtMostOnce
  BY DEF IInv, JInv
<1>2. Put' = Put /\ Finished' = Finished
  BY DEF Put, Begun, Finished
<1>3. /\ \A e \in DOMAIN executed : executed[e] \in LineType /\ executed[e].unit \in Finished
                                    /\ executed[e].sid \in 1..link.sessions
      /\ \A e \in DOMAIN executed : executed[e].sid # 0
      /\ \A i \in DOMAIN toPico : i \in Nat /\ i > 0
  <2>1. \A e \in DOMAIN executed : executed[e].sid \in 1..link.sessions
    BY <1>1 DEF Opened
  <2>2. DOMAIN toPico = 1..Len(toPico)
    BY ExecutedIs
  <2> QED BY <2>1, <2>2, ExecutedIs, TypedParts
<1>4. ASSUME NEW G, NEW s, NEW i \in Nat, NEW j \in Nat, Together(toPico, G, s, i + d, j + d)
      PROVE  Together(toPico', G, s, i, j)
  BY <1>4 DEF Together
<1>5. Numbered'
  BY <1>1, <1>2 DEF Numbered
<1>6. Unserved'
  BY <1>1 DEF Unserved
<1>7. Opened'
  BY <1>1 DEF Opened
<1>8. Grouped'
  <2> SUFFICES ASSUME NEW i \in DOMAIN toPico', NEW j \in DOMAIN toPico', i < j,
                      toPico'[i].op = "input", toPico'[j].op = "input",
                      toPico'[i].unit = toPico'[j].unit
               PROVE  /\ toPico'[i] = toPico'[j]
                      /\ \E G \in Groups : Together(toPico', G, toPico'[i].sid, i, j)
    BY DEF Grouped
  <2>1. i + d \in DOMAIN toPico /\ j + d \in DOMAIN toPico /\ i + d < j + d
        /\ toPico'[i] = toPico[i + d] /\ toPico'[j] = toPico[j + d]
    OBVIOUS
  <2>2. PICK G \in Groups : Together(toPico, G, toPico[i + d].sid, i + d, j + d)
    BY <1>1, <2>1 DEF Grouped
  <2>3. toPico'[i] = toPico'[j]
    BY <1>1, <2>1 DEF Grouped
  <2> QED BY <1>4, <2>1, <2>2, <2>3
<1>9. Same'
  BY <1>1 DEF Same
<1>10. Repeats'
  <2> SUFFICES ASSUME NEW i \in DOMAIN toPico', toPico'[i].op = "input",
                      toPico'[i].sid = pico'.sid, toPico'[i].unit \in Finished
               PROVE  \E G \in Groups : /\ Together(toPico', G, toPico'[i].sid, 1, i)
                                        /\ Kept(pico'.cache, toPico'[i], G)
    BY <1>2 DEF Repeats
  <2>1. i + d \in DOMAIN toPico /\ toPico'[i] = toPico[i + d] /\ i \in Nat /\ i > 0
    OBVIOUS
  <2>2. PICK e \in DOMAIN executed : executed[e].unit = toPico[i + d].unit
    BY <2>1 DEF Finished
  <2>3. executed[e] = toPico[i + d]
    BY <1>1, <2>1, <2>2 DEF Same
  <2>4. toPico[i + d].sid = pico.sid
    BY <1>3, <2>1, <2>3
  <2>5. PICK G \in Groups : /\ Together(toPico, G, toPico[i + d].sid, 1, i + d)
                            /\ Kept(pico.cache, toPico[i + d], G)
    BY <1>1, <2>1, <2>4 DEF Repeats
  <2>6. d = 1 /\ toPico[1].op # "junk" =>
          toPico[1].sid = toPico[i + d].sid /\ toPico[1].seq \in G
    BY <2>1, <2>5 DEF Together
  <2>7. Kept(pico'.cache, toPico'[i], G)
    BY <1>3, <2>1, <2>3, <2>5, <2>6
  <2>8. Together(toPico', G, toPico'[i].sid, 1, i)
    <3>1. Together(toPico, G, toPico[i + d].sid, 1 + d, i + d)
      BY <1>3, <2>5 DEF Together
    <3> QED BY <1>4, <2>1, <3>1
  <2> QED BY <2>7, <2>8
<1>11. Rewritable'
  <2> SUFFICES ASSUME NEW w \in DOMAIN wire, wire[w].attempt > 0, wire[w].who \in Inputs,
                      NEW k \in DOMAIN wire[w].lines
               PROVE  /\ \A i, j \in DOMAIN toPico' :
                           /\ i <= j /\ toPico'[i].op = "input"
                           /\ toPico'[i].unit = wire[w].lines[k].unit
                           /\ toPico'[j].op # "junk"
                           => \E m \in DOMAIN wire[w].lines : toPico'[j] = wire[w].lines[m]
                      /\ wire[w].lines[k].unit \in Finished =>
                           /\ \A j \in DOMAIN toPico' : toPico'[j].op # "junk" =>
                                \E m \in DOMAIN wire[w].lines : toPico'[j] = wire[w].lines[m]
                           /\ wire[w].lines[k].sid = pico'.sid =>
                                Kept(pico'.cache, wire[w].lines[k], NumbersOf(wire[w]))
    BY <1>2 DEF Rewritable
  <2>1. ASSUME NEW i \in DOMAIN toPico', NEW j \in DOMAIN toPico', i <= j,
               toPico'[i].op = "input", toPico'[i].unit = wire[w].lines[k].unit,
               toPico'[j].op # "junk"
        PROVE  \E m \in DOMAIN wire[w].lines : toPico'[j] = wire[w].lines[m]
    <3>1. i + d \in DOMAIN toPico /\ j + d \in DOMAIN toPico /\ i + d <= j + d
          /\ toPico'[i] = toPico[i + d] /\ toPico'[j] = toPico[j + d]
      BY <2>1
    <3> QED BY <1>1, <2>1, <3>1 DEF Rewritable
  <2>2. ASSUME wire[w].lines[k].unit \in Finished
        PROVE  /\ \A j \in DOMAIN toPico' : toPico'[j].op # "junk" =>
                    \E m \in DOMAIN wire[w].lines : toPico'[j] = wire[w].lines[m]
               /\ wire[w].lines[k].sid = pico'.sid =>
                    Kept(pico'.cache, wire[w].lines[k], NumbersOf(wire[w]))
    <3>1. /\ \A j \in DOMAIN toPico : toPico[j].op # "junk" =>
               \E m \in DOMAIN wire[w].lines : toPico[j] = wire[w].lines[m]
          /\ wire[w].lines[k].sid = pico.sid =>
               Kept(pico.cache, wire[w].lines[k], NumbersOf(wire[w]))
      BY <1>1, <2>2 DEF Rewritable
    <3>2. PICK e \in DOMAIN executed : executed[e] = wire[w].lines[k]
      BY <1>1, <2>2 DEF Same, Finished
    <3>3. NumbersOf(wire[w]) \in Groups
      BY NumbersGroup
    <3>4. d = 1 /\ toPico[1].op # "junk" =>
            toPico[1].sid = wire[w].lines[k].sid /\ toPico[1].seq \in NumbersOf(wire[w])
      BY <1>1, <3>1 DEF NumbersOf, Addressed
    <3>5. wire[w].lines[k].sid = pico'.sid =>
            Kept(pico'.cache, wire[w].lines[k], NumbersOf(wire[w]))
      BY <1>3, <3>1, <3>2, <3>3, <3>4
    <3> QED BY <3>1, <3>5
  <2> QED BY <2>1, <2>2
<1>12. Ordered'
  <2>1. ASSUME NEW i \in DOMAIN executed, NEW j \in DOMAIN toPico', toPico'[j].op = "input",
               executed[i].unit[1] = toPico'[j].unit[1]
        PROVE  /\ Before(executed[i].unit, toPico'[j].unit)
               /\ \A k \in DOMAIN executed : i <= k => executed[k].unit[1] = executed[i].unit[1]
               /\ \A k \in DOMAIN toPico' : k <= j /\ toPico'[k].op = "input" =>
                    toPico'[k].unit[1] = executed[i].unit[1]
    <3>1. j + d \in DOMAIN toPico /\ toPico'[j] = toPico[j + d]
      BY <2>1
    <3>2. /\ Before(executed[i].unit, toPico[j + d].unit)
          /\ \A k \in DOMAIN executed : i <= k => executed[k].unit[1] = executed[i].unit[1]
          /\ \A k \in DOMAIN toPico : k <= j + d /\ toPico[k].op = "input" =>
               toPico[k].unit[1] = executed[i].unit[1]
      BY <1>1, <2>1, <3>1 DEF Ordered
    <3>3. \A k \in DOMAIN toPico' : k <= j /\ toPico'[k].op = "input" =>
            k + d \in DOMAIN toPico /\ toPico'[k] = toPico[k + d] /\ k + d <= j + d
      OBVIOUS
    <3> QED BY <3>1, <3>2, <3>3
  <2>2. ASSUME NEW i \in DOMAIN toPico', NEW j \in DOMAIN toPico', i < j,
               toPico'[i].op = "input", toPico'[j].op = "input",
               toPico'[i].unit[1] = toPico'[j].unit[1]
        PROVE  /\ Before(toPico'[i].unit, toPico'[j].unit)
               /\ \A k \in DOMAIN toPico' : i <= k /\ k <= j /\ toPico'[k].op = "input" =>
                    toPico'[k].unit[1] = toPico'[i].unit[1]
    <3>1. i + d \in DOMAIN toPico /\ j + d \in DOMAIN toPico /\ i + d < j + d
          /\ toPico'[i] = toPico[i + d] /\ toPico'[j] = toPico[j + d]
      BY <2>2
    <3>2. /\ Before(toPico[i + d].unit, toPico[j + d].unit)
          /\ \A k \in DOMAIN toPico : i + d <= k /\ k <= j + d /\ toPico[k].op = "input" =>
               toPico[k].unit[1] = toPico[i + d].unit[1]
      BY <1>1, <2>2, <3>1 DEF Ordered
    <3>3. \A k \in DOMAIN toPico' : i <= k /\ k <= j /\ toPico'[k].op = "input" =>
            k + d \in DOMAIN toPico /\ toPico'[k] = toPico[k + d] /\ i + d <= k + d /\ k + d <= j + d
      OBVIOUS
    <3> QED BY <3>1, <3>2, <3>3
  <2>3. \A i, j \in DOMAIN executed :
          i < j /\ executed[i].unit[1] = executed[j].unit[1] =>
            /\ Before(executed[i].unit, executed[j].unit)
            /\ \A k \in DOMAIN executed : i <= k /\ k <= j =>
                 executed[k].unit[1] = executed[i].unit[1]
    BY <1>1 DEF Ordered
  <2>4. executed' = executed
    OBVIOUS
  <2> QED BY <2>1, <2>2, <2>3, <2>4 DEF Ordered
<1>13. Unfinished'
  <2>1. ASSUME NEW c \in Inputs, pc[c] \in {"public", "wire"}, NEW i \in DOMAIN toPico',
               toPico'[i].op = "input", toPico'[i].unit[1] = c,
               NEW k \in DOMAIN toPico', i <= k, toPico'[k].op = "input"
        PROVE  toPico'[k].unit[1] = c
    <3>1. i + d \in DOMAIN toPico /\ k + d \in DOMAIN toPico /\ i + d <= k + d
          /\ toPico'[i] = toPico[i + d] /\ toPico'[k] = toPico[k + d]
      BY <2>1
    <3> QED BY <1>1, <2>1, <3>1 DEF Unfinished
  <2>2. \A k \in DOMAIN toPico' : toPico'[k].op = "input" =>
          \E j \in DOMAIN toPico : toPico'[k] = toPico[j]
    OBVIOUS
  <2>3. ASSUME NEW c \in Inputs, pc[c] \in {"public", "wire"}, NEW i \in DOMAIN executed,
               executed[i].unit[1] = c
        PROVE  /\ \A k \in DOMAIN executed : i <= k => executed[k].unit[1] = c
               /\ \A k \in DOMAIN toPico' : toPico'[k].op = "input" => toPico'[k].unit[1] = c
    BY <1>1, <2>2, <2>3 DEF Unfinished
  <2> QED BY <2>1, <2>3 DEF Unfinished
<1>14. AtMostOnce'
  BY <1>1 DEF AtMostOnce
<1> QED BY <1>5, <1>6, <1>7, <1>8, <1>9, <1>10, <1>11, <1>12, <1>13, <1>14 DEF JInv

LEMMA TakeKeeps ==
  ASSUME IInv, JInv, UNCHANGED <<link, pc, done, public, wire, executed>>,
         toPico # <<>>, toPico' = Tail(toPico),
         \A l \in LineType : \A G \in Groups :
           /\ l.sid = pico'.sid /\ \E e \in DOMAIN executed : executed[e] = l
           /\ l.sid = pico.sid => Kept(pico.cache, l, G)
           /\ toPico[1].op # "junk" => toPico[1].sid = l.sid /\ toPico[1].seq \in G
           => Kept(pico'.cache, l, G),
         pico'.sid \in {0, pico.sid} \/ \A e \in DOMAIN executed : executed[e].sid # pico'.sid
  PROVE  JInv'
<1> PICK d \in {0, 1} : d = 1
  OBVIOUS
<1>1. /\ 1 \in DOMAIN toPico
      /\ \A i \in DOMAIN toPico' :
           i \in Nat /\ i > 0 /\ i + d \in DOMAIN toPico /\ toPico'[i] = toPico[i + d]
  BY Shortened DEF IInv, Typed
<1>2. \A l \in LineType : \A G \in Groups :
        /\ l.sid = pico'.sid /\ \E e \in DOMAIN executed : executed[e] = l
        /\ l.sid = pico.sid => Kept(pico.cache, l, G)
        /\ d = 1 /\ toPico[1].op # "junk" => toPico[1].sid = l.sid /\ toPico[1].seq \in G
        => Kept(pico'.cache, l, G)
  OBVIOUS
<1> QED BY <1>1, <1>2, FarKeeps

LEMMA StayKeeps ==
  ASSUME IInv, JInv, UNCHANGED <<link, pc, done, public, wire, executed>>,
         \A i \in DOMAIN toPico' :
           i \in DOMAIN toPico /\ (toPico'[i].op # "junk" => toPico'[i] = toPico[i]),
         pico'.sid = 0 \/ (pico'.sid = pico.sid /\ pico'.cache = pico.cache)
  PROVE  JInv'
<1> PICK d \in {0, 1} : d = 0
  OBVIOUS
<1>1. \A i \in DOMAIN toPico' :
        /\ i \in Nat /\ i > 0
        /\ toPico'[i].op # "junk" => i + d \in DOMAIN toPico /\ toPico'[i] = toPico[i + d]
  BY ExecutedIs
<1>2. \A e \in DOMAIN executed : executed[e].sid # 0
  BY TypedParts DEF JInv, Opened
<1>3. \A l \in LineType : \A G \in Groups :
        /\ l.sid = pico'.sid /\ \E e \in DOMAIN executed : executed[e] = l
        /\ l.sid = pico.sid => Kept(pico.cache, l, G)
        /\ d = 1 /\ toPico[1].op # "junk" => toPico[1].sid = l.sid /\ toPico[1].seq \in G
        => Kept(pico'.cache, l, G)
  BY <1>2
<1> QED BY <1>1, <1>3, FarKeeps

(* An input is executed: it was not before, or it would be remembered. *)
LEMMA ExecuteInputKeeps ==
  ASSUME IInv, JInv, UNCHANGED <<link, pc, done, public, wire>>,
         toPico # <<>>, toPico' = Tail(toPico), toPico[1].op = "input",
         toPico[1].sid = pico.sid, Cached(toPico[1]) = {},
         executed' = Append(executed, toPico[1]), pico'.sid = pico.sid,
         NEW m \in MessageType, m.sid = toPico[1].sid, m.seq = toPico[1].seq,
         pico'.cache = Remembered(pico.cache, m)
  PROVE  JInv'
<1> DEFINE line == toPico[1]
           z == Len(executed) + 1
<1>1. /\ Typed /\ Addressed /\ OneAtATime /\ Limited
      /\ Numbered /\ Unserved /\ Opened /\ Grouped /\ Same /\ Repeats /\ Rewritable
      /\ Ordered /\ Unfinished /\ AtMostOnce
  BY DEF IInv, JInv
<1>2. /\ 1 \in DOMAIN toPico /\ line \in LineType
      /\ \A i \in DOMAIN toPico' :
           i \in Nat /\ i > 0 /\ i + 1 \in DOMAIN toPico /\ toPico'[i] = toPico[i + 1]
  BY <1>1, Shortened DEF Typed
<1>3. /\ DOMAIN executed' = DOMAIN executed \cup {z} /\ executed'[z] = line
      /\ \A e \in DOMAIN executed : executed'[e] = executed[e] /\ e \in Nat /\ e < z
      /\ z \in Nat
  <2>1. executed \in Seq(LineType) /\ Len(executed) \in Nat /\ DOMAIN executed = 1..Len(executed)
    BY <1>1, ExecutedIs DEF Typed
  <2> QED BY <1>2, <2>1, Appended
<1>4. Put' = Put
  BY DEF Put, Begun
<1> HIDE DEF z
<1>5. /\ pico.cache \in Seq(MessageType) /\ Len(pico.cache) <= CacheSize
      /\ \A i \in DOMAIN pico.cache : ~(pico.cache[i].sid = m.sid /\ pico.cache[i].seq = m.seq)
  BY <1>1, TypedParts DEF Limited, Cached, PicoType
<1>6. /\ \A e \in DOMAIN executed : executed[e].unit \in Finished
      /\ Finished' = Finished \cup {line.unit}
  BY <1>3 DEF Finished
<1> HIDE DEF line
<1>7. line = toPico[1] /\ line.op = "input" /\ line.sid = pico.sid
  BY DEF line
(* It was not executed before. *)
<1>8. line.unit \notin Finished
  <2> SUFFICES ASSUME line.unit \in Finished PROVE FALSE
    OBVIOUS
  <2>1. PICK G \in Groups : Kept(pico.cache, line, G)
    BY <1>1, <1>2, <1>7 DEF Repeats
  <2> QED BY <1>5, <1>7, <2>1 DEF Kept
<1>9. AtMostOnce'
  BY <1>1, <1>3, <1>6, <1>8 DEF AtMostOnce
<1>10. Numbered'
  <2>1. \A e \in DOMAIN executed' : executed'[e].op = "input" /\ executed'[e].unit \in Put
    BY <1>1, <1>2, <1>3, <1>7 DEF Numbered
  <2>2. \A i \in DOMAIN toPico' : toPico'[i].op = "input" => toPico'[i].unit \in Put
    BY <1>1, <1>2 DEF Numbered
  <2> QED BY <1>1, <1>4, <2>1, <2>2 DEF Numbered
<1>11. Unserved'
  BY <1>1 DEF Unserved
<1>12. Opened'
  <2>1. \A i, j \in DOMAIN toPico' :
          /\ i < j /\ toPico'[i].op # "junk" /\ toPico'[j].op = "session"
          /\ toPico'[i].sid = toPico'[j].sid
          => toPico'[i].op = "session"
    <3> SUFFICES ASSUME NEW i \in DOMAIN toPico', NEW j \in DOMAIN toPico', i < j,
                        toPico'[i].op # "junk", toPico'[j].op = "session",
                        toPico'[i].sid = toPico'[j].sid
                 PROVE  toPico'[i].op = "session"
      OBVIOUS
    <3>1. i + 1 < j + 1
      BY <1>2
    <3> QED BY <1>1, <1>2, <3>1 DEF Opened
  <2>2. \A e \in DOMAIN executed' :
          /\ executed'[e].sid \in 1..link.sessions
          /\ \A j \in DOMAIN toPico' :
               toPico'[j].op = "session" => toPico'[j].sid # executed'[e].sid
    <3>1. line.sid \in 1..link.sessions
      BY <1>1, <1>2, <1>7 DEF Addressed
    <3>2. ASSUME NEW j \in DOMAIN toPico', toPico'[j].op = "session"
          PROVE  toPico'[j].sid # line.sid
      <4>1. 1 < j + 1 /\ j + 1 \in DOMAIN toPico /\ toPico'[j] = toPico[j + 1]
        BY <1>2
      <4> QED BY <1>1, <1>2, <1>7, <3>2, <4>1 DEF Opened
    <3>3. ASSUME NEW e \in DOMAIN executed
          PROVE  /\ executed[e].sid \in 1..link.sessions
                 /\ \A j \in DOMAIN toPico' :
                      toPico'[j].op = "session" => toPico'[j].sid # executed[e].sid
      BY <1>1, <1>2 DEF Opened
    <3> QED BY <1>3, <3>1, <3>2, <3>3
  <2>3. \A w \in DOMAIN wire : wire[w].who = "handshake" =>
          /\ \A e \in DOMAIN executed' : executed'[e].sid # wire[w].sid
          /\ \A i \in DOMAIN toPico' :
               toPico'[i].op # "junk" /\ toPico'[i].sid = wire[w].sid => toPico'[i].op = "session"
    <3> SUFFICES ASSUME NEW w \in DOMAIN wire, wire[w].who = "handshake"
                 PROVE  /\ \A e \in DOMAIN executed' : executed'[e].sid # wire[w].sid
                        /\ \A i \in DOMAIN toPico' :
                             toPico'[i].op # "junk" /\ toPico'[i].sid = wire[w].sid
                             => toPico'[i].op = "session"
      OBVIOUS
    <3>1. line.sid # wire[w].sid
      BY <1>1, <1>2, <1>7 DEF Opened
    <3> QED BY <1>1, <1>2, <1>3, <3>1 DEF Opened
  <2>4. \A w, v \in DOMAIN wire : wire[w].who = "handshake" /\ wire[v].attempt > 0
          /\ wire[v].sid = wire[w].sid => wire[v].who = "handshake"
    BY <1>1 DEF Opened
  <2> QED BY <2>1, <2>2, <2>3, <2>4 DEF Opened
<1>13. ASSUME NEW G, NEW s, NEW i \in Nat, NEW j \in Nat, Together(toPico, G, s, i + 1, j + 1)
       PROVE  Together(toPico', G, s, i, j)
  BY <1>2, <1>13 DEF Together
<1>14. Grouped'
  <2> SUFFICES ASSUME NEW i \in DOMAIN toPico', NEW j \in DOMAIN toPico', i < j,
                      toPico'[i].op = "input", toPico'[j].op = "input",
                      toPico'[i].unit = toPico'[j].unit
               PROVE  /\ toPico'[i] = toPico'[j]
                      /\ \E G \in Groups : Together(toPico', G, toPico'[i].sid, i, j)
    BY DEF Grouped
  <2>1. i + 1 \in DOMAIN toPico /\ j + 1 \in DOMAIN toPico /\ i + 1 < j + 1
        /\ toPico'[i] = toPico[i + 1] /\ toPico'[j] = toPico[j + 1]
    BY <1>2
  <2>2. PICK G \in Groups : Together(toPico, G, toPico[i + 1].sid, i + 1, j + 1)
    BY <1>1, <2>1 DEF Grouped
  <2>3. toPico'[i] = toPico'[j]
    BY <1>1, <2>1 DEF Grouped
  <2> QED BY <1>2, <1>13, <2>1, <2>2, <2>3
(* What comes as the same piece later is the same line, of one group. *)
<1>15. \A i \in DOMAIN toPico' : toPico'[i].op = "input" /\ toPico'[i].unit = line.unit =>
         /\ toPico'[i] = line
         /\ \E G \in Groups : Together(toPico, G, line.sid, 1, i + 1)
  <2> SUFFICES ASSUME NEW i \in DOMAIN toPico', toPico'[i].op = "input",
                      toPico'[i].unit = line.unit
               PROVE  /\ toPico'[i] = line
                      /\ \E G \in Groups : Together(toPico, G, line.sid, 1, i + 1)
    OBVIOUS
  <2>1. 1 < i + 1 /\ i + 1 \in DOMAIN toPico /\ toPico'[i] = toPico[i + 1]
    BY <1>2
  <2> QED BY <1>1, <1>2, <1>7, <2>1 DEF Grouped
(* So is what may be written again. *)
<1>16. \A w \in DOMAIN wire : wire[w].attempt > 0 /\ wire[w].who \in Inputs =>
         \A k \in DOMAIN wire[w].lines : wire[w].lines[k].unit = line.unit =>
           /\ wire[w].lines[k] = line
           /\ \A j \in DOMAIN toPico : toPico[j].op # "junk" =>
                \E n \in DOMAIN wire[w].lines : toPico[j] = wire[w].lines[n]
  <2> SUFFICES ASSUME NEW w \in DOMAIN wire, wire[w].attempt > 0, wire[w].who \in Inputs,
                      NEW k \in DOMAIN wire[w].lines, wire[w].lines[k].unit = line.unit
               PROVE  /\ wire[w].lines[k] = line
                      /\ \A j \in DOMAIN toPico : toPico[j].op # "junk" =>
                           \E n \in DOMAIN wire[w].lines : toPico[j] = wire[w].lines[n]
    OBVIOUS
  <2>1. \A j \in DOMAIN toPico : 1 <= j
    BY ExecutedIs
  <2>2. \A j \in DOMAIN toPico : toPico[j].op # "junk" =>
          \E n \in DOMAIN wire[w].lines : toPico[j] = wire[w].lines[n]
    BY <1>1, <1>2, <1>7, <2>1 DEF Rewritable
  <2>3. PICK n \in DOMAIN wire[w].lines : line = wire[w].lines[n]
    BY <1>2, <1>7, <2>2
  <2>4. <<wire[w].who, done[wire[w].who] + k>> = <<wire[w].who, done[wire[w].who] + n>>
    BY <1>1, <2>3 DEF Numbered
  <2>5. done[wire[w].who] \in Nat /\ k \in Nat /\ n \in Nat
    <3>1. done[wire[w].who] \in Nat
      BY <1>1 DEF Typed
    <3>2. wire[w].lines \in Seq(LineType)
      BY TypedParts
    <3>3. DOMAIN wire[w].lines = 1..Len(wire[w].lines)
      BY <3>2, LenProperties
    <3> QED BY <3>1, <3>3
  <2>6. k = n
    BY <2>4, <2>5
  <2> QED BY <2>2, <2>3, <2>6
<1>17. \A l \in LineType : \A G \in Groups :
         l.sid = pico.sid /\ line.seq \in G /\ Kept(pico.cache, l, G) => Kept(pico'.cache, l, G)
  BY <1>5, <1>7, KeptOn
<1>18. \A G : line.seq \in G => Kept(pico'.cache, line, G)
  BY <1>5, <1>7, KeptNew
<1>19. Same'
  <2>1. ASSUME NEW e \in DOMAIN executed', NEW i \in DOMAIN toPico', toPico'[i].op = "input",
               toPico'[i].unit = executed'[e].unit
        PROVE  toPico'[i] = executed'[e]
    <3>1. CASE e \in DOMAIN executed
      BY <1>1, <1>2, <1>3, <2>1, <3>1 DEF Same
    <3>2. CASE e = z
      BY <1>3, <1>15, <2>1, <3>2
    <3> QED BY <1>3, <3>1, <3>2
  <2>2. ASSUME NEW e \in DOMAIN executed', NEW w \in DOMAIN wire, wire[w].attempt > 0,
               wire[w].who \in Inputs, NEW k \in DOMAIN wire[w].lines,
               wire[w].lines[k].unit = executed'[e].unit
        PROVE  wire[w].lines[k] = executed'[e]
    <3>1. CASE e \in DOMAIN executed
      BY <1>1, <1>3, <2>2, <3>1 DEF Same
    <3>2. CASE e = z
      BY <1>3, <1>16, <2>2, <3>2
    <3> QED BY <1>3, <3>1, <3>2
  <2> QED BY <2>1, <2>2 DEF Same
<1>20. Repeats'
  <2> SUFFICES ASSUME NEW i \in DOMAIN toPico', toPico'[i].op = "input",
                      toPico'[i].sid = pico'.sid, toPico'[i].unit \in Finished'
               PROVE  \E G \in Groups : /\ Together(toPico', G, toPico'[i].sid, 1, i)
                                        /\ Kept(pico'.cache, toPico'[i], G)
    BY DEF Repeats
  <2>1. i + 1 \in DOMAIN toPico /\ toPico'[i] = toPico[i + 1] /\ i \in Nat /\ i > 0
        /\ toPico'[i] \in LineType
    BY <1>2, TypedParts
  <2>2. PICK G \in Groups : /\ Together(toPico, G, toPico'[i].sid, 1, i + 1)
                            /\ toPico'[i] = line \/ Kept(pico.cache, toPico'[i], G)
    <3>1. CASE toPico'[i].unit = line.unit
      BY <1>15, <3>1
    <3>2. CASE toPico'[i].unit \in Finished
      BY <1>1, <2>1, <3>2 DEF Repeats
    <3> QED BY <1>6, <3>1, <3>2
  <2>3. line.seq \in G
    BY <1>2, <1>7, <2>1, <2>2 DEF Together
  <2>4. Kept(pico'.cache, toPico'[i], G)
    BY <1>17, <1>18, <2>1, <2>2, <2>3
  <2>5. Together(toPico', G, toPico'[i].sid, 1, i)
    <3>1. Together(toPico, G, toPico'[i].sid, 1 + 1, i + 1)
      BY <2>2, ExecutedIs DEF Together
    <3> QED BY <1>13, <2>1, <3>1
  <2> QED BY <2>4, <2>5
<1>21. Rewritable'
  <2> SUFFICES ASSUME NEW w \in DOMAIN wire, wire[w].attempt > 0, wire[w].who \in Inputs,
                      NEW k \in DOMAIN wire[w].lines
               PROVE  /\ \A i, j \in DOMAIN toPico' :
                           /\ i <= j /\ toPico'[i].op = "input"
                           /\ toPico'[i].unit = wire[w].lines[k].unit
                           /\ toPico'[j].op # "junk"
                           => \E n \in DOMAIN wire[w].lines : toPico'[j] = wire[w].lines[n]
                      /\ wire[w].lines[k].unit \in Finished' =>
                           /\ \A j \in DOMAIN toPico' : toPico'[j].op # "junk" =>
                                \E n \in DOMAIN wire[w].lines : toPico'[j] = wire[w].lines[n]
                           /\ wire[w].lines[k].sid = pico'.sid =>
                                Kept(pico'.cache, wire[w].lines[k], NumbersOf(wire[w]))
    BY DEF Rewritable
  <2>1. ASSUME NEW i \in DOMAIN toPico', NEW j \in DOMAIN toPico', i <= j,
               toPico'[i].op = "input", toPico'[i].unit = wire[w].lines[k].unit,
               toPico'[j].op # "junk"
        PROVE  \E n \in DOMAIN wire[w].lines : toPico'[j] = wire[w].lines[n]
    <3>1. i + 1 \in DOMAIN toPico /\ j + 1 \in DOMAIN toPico /\ i + 1 <= j + 1
          /\ toPico'[i] = toPico[i + 1] /\ toPico'[j] = toPico[j + 1]
      BY <1>2, <2>1
    <3>2. \A a, b \in DOMAIN toPico :
            /\ a <= b /\ toPico[a].op = "input" /\ toPico[a].unit = wire[w].lines[k].unit
            /\ toPico[b].op # "junk"
            => \E n \in DOMAIN wire[w].lines : toPico[b] = wire[w].lines[n]
      BY <1>1 DEF Rewritable
    <3> QED BY <2>1, <3>1, <3>2
  <2>2. ASSUME wire[w].lines[k].unit \in Finished'
        PROVE  /\ \A j \in DOMAIN toPico' : toPico'[j].op # "junk" =>
                    \E n \in DOMAIN wire[w].lines : toPico'[j] = wire[w].lines[n]
               /\ wire[w].lines[k].sid = pico'.sid =>
                    Kept(pico'.cache, wire[w].lines[k], NumbersOf(wire[w]))
    <3>1. /\ \A j \in DOMAIN toPico : toPico[j].op # "junk" =>
               \E n \in DOMAIN wire[w].lines : toPico[j] = wire[w].lines[n]
          /\ wire[w].lines[k].sid = pico.sid =>
               wire[w].lines[k] = line \/ Kept(pico.cache, wire[w].lines[k], NumbersOf(wire[w]))
      <4>1. CASE wire[w].lines[k].unit \in Finished
        BY <1>1, <4>1 DEF Rewritable
      <4>2. CASE wire[w].lines[k].unit = line.unit
        BY <1>16, <4>2
      <4> QED BY <1>6, <2>2, <4>1, <4>2
    <3>2. NumbersOf(wire[w]) \in Groups /\ wire[w].lines[k] \in LineType
      <4>1. wire[w].lines \in Seq(LineType)
        BY TypedParts
      <4>2. wire[w].lines[k] \in LineType
        BY <4>1, ElementOfSeq, LenProperties
      <4> QED BY <4>2, NumbersGroup
    <3>3. line.seq \in NumbersOf(wire[w])
      BY <1>2, <1>7, <3>1 DEF NumbersOf
    <3>4. wire[w].lines[k].sid = pico'.sid =>
            Kept(pico'.cache, wire[w].lines[k], NumbersOf(wire[w]))
      BY <1>17, <1>18, <3>1, <3>2, <3>3
    <3> QED BY <1>2, <3>1, <3>4
  <2> QED BY <2>1, <2>2
<1>22. Ordered'
  <2>1. ASSUME NEW i \in DOMAIN executed', NEW j \in DOMAIN toPico', toPico'[j].op = "input",
               executed'[i].unit[1] = toPico'[j].unit[1]
        PROVE  /\ Before(executed'[i].unit, toPico'[j].unit)
               /\ \A k \in DOMAIN executed' : i <= k => executed'[k].unit[1] = executed'[i].unit[1]
               /\ \A k \in DOMAIN toPico' : k <= j /\ toPico'[k].op = "input" =>
                    toPico'[k].unit[1] = executed'[i].unit[1]
    <3>1. j + 1 \in DOMAIN toPico /\ toPico'[j] = toPico[j + 1] /\ 1 < j + 1
      BY <1>2
    <3>2. \A k \in DOMAIN toPico' : k <= j /\ toPico'[k].op = "input" =>
            k + 1 \in DOMAIN toPico /\ toPico'[k] = toPico[k + 1] /\ 1 <= k + 1 /\ k + 1 <= j + 1
      BY <1>2
    <3>3. CASE i \in DOMAIN executed
      <4>1. /\ Before(executed[i].unit, toPico[j + 1].unit)
            /\ \A k \in DOMAIN executed : i <= k => executed[k].unit[1] = executed[i].unit[1]
            /\ \A k \in DOMAIN toPico : k <= j + 1 /\ toPico[k].op = "input" =>
                 toPico[k].unit[1] = executed[i].unit[1]
        BY <1>1, <1>3, <2>1, <3>1, <3>3 DEF Ordered
      <4>2. line.unit[1] = executed[i].unit[1]
        BY <1>2, <1>7, <3>1, <4>1
      <4> QED BY <1>3, <3>1, <3>2, <3>3, <4>1, <4>2
    <3>4. CASE i = z
      <4>1. line.unit[1] = toPico[j + 1].unit[1] /\ executed'[i] = line
        BY <1>3, <2>1, <3>1, <3>4
      <4>2. /\ Before(line.unit, toPico[j + 1].unit)
            /\ \A k \in DOMAIN toPico : 1 <= k /\ k <= j + 1 /\ toPico[k].op = "input" =>
                 toPico[k].unit[1] = line.unit[1]
        BY <1>1, <1>2, <1>7, <2>1, <3>1, <4>1 DEF Ordered
      <4>3. \A k \in DOMAIN executed' : i <= k => k = z
        BY <1>3, <3>4
      <4> QED BY <3>1, <3>2, <3>4, <4>1, <4>2, <4>3
    <3> QED BY <1>3, <3>3, <3>4
  <2>2. ASSUME NEW i \in DOMAIN toPico', NEW j \in DOMAIN toPico', i < j,
               toPico'[i].op = "input", toPico'[j].op = "input",
               toPico'[i].unit[1] = toPico'[j].unit[1]
        PROVE  /\ Before(toPico'[i].unit, toPico'[j].unit)
               /\ \A k \in DOMAIN toPico' : i <= k /\ k <= j /\ toPico'[k].op = "input" =>
                    toPico'[k].unit[1] = toPico'[i].unit[1]
    <3>1. i + 1 \in DOMAIN toPico /\ j + 1 \in DOMAIN toPico /\ i + 1 < j + 1
          /\ toPico'[i] = toPico[i + 1] /\ toPico'[j] = toPico[j + 1]
      BY <1>2, <2>2
    <3>2. /\ Before(toPico[i + 1].unit, toPico[j + 1].unit)
          /\ \A k \in DOMAIN toPico : i + 1 <= k /\ k <= j + 1 /\ toPico[k].op = "input" =>
               toPico[k].unit[1] = toPico[i + 1].unit[1]
      BY <1>1, <2>2, <3>1 DEF Ordered
    <3>3. \A k \in DOMAIN toPico' : i <= k /\ k <= j /\ toPico'[k].op = "input" =>
            k + 1 \in DOMAIN toPico /\ toPico'[k] = toPico[k + 1] /\ i + 1 <= k + 1 /\ k + 1 <= j + 1
      BY <1>2
    <3> QED BY <3>1, <3>2, <3>3
  <2>3. ASSUME NEW i \in DOMAIN executed', NEW j \in DOMAIN executed', i < j,
               executed'[i].unit[1] = executed'[j].unit[1]
        PROVE  /\ Before(executed'[i].unit, executed'[j].unit)
               /\ \A k \in DOMAIN executed' : i <= k /\ k <= j =>
                    executed'[k].unit[1] = executed'[i].unit[1]
    <3>1. i \in DOMAIN executed
      BY <1>3, <2>3
    <3>2. CASE j \in DOMAIN executed
      <4>1. \A k \in DOMAIN executed' : k <= j => k \in DOMAIN executed
        BY <1>3, <3>2
      <4>2. /\ Before(executed[i].unit, executed[j].unit)
            /\ \A k \in DOMAIN executed : i <= k /\ k <= j =>
                 executed[k].unit[1] = executed[i].unit[1]
        BY <1>1, <1>3, <2>3, <3>1, <3>2 DEF Ordered
      <4> QED BY <1>3, <3>1, <3>2, <4>1, <4>2
    <3>3. CASE j = z
      <4>1. executed'[j] = line /\ executed[i].unit[1] = line.unit[1]
        BY <1>3, <2>3, <3>1, <3>3
      <4>2. /\ Before(executed[i].unit, line.unit)
            /\ \A k \in DOMAIN executed : i <= k => executed[k].unit[1] = executed[i].unit[1]
        BY <1>1, <1>2, <1>7, <3>1, <4>1 DEF Ordered
      <4> QED BY <1>3, <3>1, <4>1, <4>2
    <3> QED BY <1>3, <3>2, <3>3
  <2>4. \A i \in DOMAIN executed', j \in DOMAIN toPico' :
          toPico'[j].op = "input" /\ executed'[i].unit[1] = toPico'[j].unit[1] =>
            /\ Before(executed'[i].unit, toPico'[j].unit)
            /\ \A k \in DOMAIN executed' : i <= k =>
                 executed'[k].unit[1] = executed'[i].unit[1]
            /\ \A k \in DOMAIN toPico' : k <= j /\ toPico'[k].op = "input" =>
                 toPico'[k].unit[1] = executed'[i].unit[1]
    BY ONLY <2>1
  <2>5. \A i, j \in DOMAIN toPico' :
          /\ i < j /\ toPico'[i].op = "input" /\ toPico'[j].op = "input"
          /\ toPico'[i].unit[1] = toPico'[j].unit[1]
          => /\ Before(toPico'[i].unit, toPico'[j].unit)
             /\ \A k \in DOMAIN toPico' : i <= k /\ k <= j /\ toPico'[k].op = "input" =>
                  toPico'[k].unit[1] = toPico'[i].unit[1]
    BY ONLY <2>2
  <2>6. \A i, j \in DOMAIN executed' :
          i < j /\ executed'[i].unit[1] = executed'[j].unit[1] =>
            /\ Before(executed'[i].unit, executed'[j].unit)
            /\ \A k \in DOMAIN executed' : i <= k /\ k <= j =>
                 executed'[k].unit[1] = executed'[i].unit[1]
    BY ONLY <2>3
  <2> QED BY ONLY <2>4, <2>5, <2>6 DEF Ordered
<1>23. Unfinished'
  <2>1. ASSUME NEW c \in Inputs, pc[c] \in {"public", "wire"}, NEW i \in DOMAIN toPico',
               toPico'[i].op = "input", toPico'[i].unit[1] = c,
               NEW k \in DOMAIN toPico', i <= k, toPico'[k].op = "input"
        PROVE  toPico'[k].unit[1] = c
    <3>1. i + 1 \in DOMAIN toPico /\ k + 1 \in DOMAIN toPico /\ i + 1 <= k + 1
          /\ toPico'[i] = toPico[i + 1] /\ toPico'[k] = toPico[k + 1]
      BY <1>2, <2>1
    <3> QED BY <1>1, <2>1, <3>1 DEF Unfinished
  <2>2. \A k \in DOMAIN toPico' : k + 1 \in DOMAIN toPico /\ toPico'[k] = toPico[k + 1]
                                  /\ 1 <= k + 1
    BY <1>2
  <2>3. ASSUME NEW c \in Inputs, pc[c] \in {"public", "wire"}, NEW i \in DOMAIN executed',
               executed'[i].unit[1] = c
        PROVE  /\ \A k \in DOMAIN executed' : i <= k => executed'[k].unit[1] = c
               /\ \A k \in DOMAIN toPico' : toPico'[k].op = "input" => toPico'[k].unit[1] = c
    <3>1. CASE i \in DOMAIN executed
      <4>1. /\ \A k \in DOMAIN executed : i <= k => executed[k].unit[1] = c
            /\ \A k \in DOMAIN toPico : toPico[k].op = "input" => toPico[k].unit[1] = c
        BY <1>1, <1>3, <2>3, <3>1 DEF Unfinished
      <4> QED BY <1>2, <1>3, <1>7, <2>2, <4>1
    <3>2. CASE i = z
      <4>1. line.unit[1] = c
        BY <1>3, <2>3, <3>2
      <4>2. \A k \in DOMAIN toPico : 1 <= k /\ toPico[k].op = "input" => toPico[k].unit[1] = c
        BY <1>1, <1>2, <1>7, <2>3, <4>1 DEF Unfinished
      <4>3. \A k \in DOMAIN executed' : i <= k => k = z
        BY <1>3, <3>2
      <4> QED BY <1>3, <2>2, <4>1, <4>2, <4>3
    <3> QED BY <1>3, <3>1, <3>2
  <2> QED BY <2>1, <2>3 DEF Unfinished
<1> QED BY <1>9, <1>10, <1>11, <1>12, <1>14, <1>19, <1>20, <1>21, <1>22, <1>23 DEF JInv

(* A line of the session that is no input is answered. *)
LEMMA AnswerKeeps ==
  ASSUME IInv, JInv, UNCHANGED <<link, pc, done, public, wire, executed>>,
         toPico # <<>>, toPico' = Tail(toPico), toPico[1].op # "junk",
         toPico[1].sid = pico.sid, Cached(toPico[1]) = {}, pico'.sid = pico.sid,
         NEW m \in MessageType, m.sid = toPico[1].sid, m.seq = toPico[1].seq,
         pico'.cache = Remembered(pico.cache, m)
  PROVE  JInv'
<1>1. /\ pico.cache \in Seq(MessageType) /\ Len(pico.cache) <= CacheSize
      /\ \A i \in DOMAIN pico.cache : ~(pico.cache[i].sid = m.sid /\ pico.cache[i].seq = m.seq)
  BY TypedParts DEF IInv, Limited, Cached, PicoType
<1>2. ASSUME NEW l \in LineType, NEW G \in Groups, l.sid = pico'.sid,
             l.sid = pico.sid => Kept(pico.cache, l, G),
             toPico[1].op # "junk" => toPico[1].sid = l.sid /\ toPico[1].seq \in G
      PROVE  Kept(pico'.cache, l, G)
  BY <1>1, <1>2, KeptOn
<1> QED BY <1>2, TakeKeeps

LEMMA PicoReadsKeeps == ASSUME IInv, JInv, PicoReads PROVE JInv'
<1> DEFINE line == toPico[1]
<1>1. /\ toPico # <<>> /\ toPico' = Tail(toPico)
      /\ UNCHANGED <<link, pc, done, public, wire>>
  BY DEF PicoReads, callers
<1>2. Head(toPico) = line /\ 1 \in DOMAIN toPico /\ line \in LineType
  BY <1>1, LineTaken
<1>3. line # Spoilt => line.op # "junk"
  BY <1>2 DEF IInv, Sorted
<1>4. pico \in PicoType
  BY TypedParts DEF IInv, Typed
<1>5. ASSUME NEW kind \in {"ack", "nack"}
      PROVE  /\ Message(kind, line.sid, line.seq) \in MessageType
             /\ Message(kind, line.sid, line.seq).sid = line.sid
             /\ Message(kind, line.sid, line.seq).seq = line.seq
  BY <1>2 DEF Message, MessageType, LineType
<1>6. CASE line = Spoilt /\ Malformed
  <2>1. pico'.sid = pico.sid /\ pico'.cache = pico.cache /\ UNCHANGED executed
    BY <1>4, <1>6 DEF Malformed, PicoType
  <2> QED BY <1>1, <2>1, TakeKeeps
<1>7. CASE line # Spoilt /\ Repeat(line)
  <2>1. pico'.sid = pico.sid /\ pico'.cache = pico.cache /\ UNCHANGED executed
    BY <1>7 DEF Repeat
  <2> QED BY <1>1, <2>1, TakeKeeps
<1>8. CASE line # Spoilt /\ OpenSession(line)
  <2>1. pico'.sid = line.sid /\ UNCHANGED executed /\ line.op = "session"
    BY <1>8 DEF OpenSession, Replies, NewSession
  <2>2. \A e \in DOMAIN executed : executed[e].sid # pico'.sid
    BY <1>2, <2>1 DEF JInv, Opened
  <2> HIDE DEF line
  <2>3. \A l \in LineType : \A G \in Groups :
          /\ l.sid = pico'.sid /\ \E e \in DOMAIN executed : executed[e] = l
          /\ l.sid = pico.sid => Kept(pico.cache, l, G)
          /\ toPico[1].op # "junk" => toPico[1].sid = l.sid /\ toPico[1].seq \in G
          => Kept(pico'.cache, l, G)
    BY <2>2
  <2> QED BY <1>1, <2>1, <2>2, <2>3, TakeKeeps
<1>9. CASE line # Spoilt /\ Refuse(line)
  <2>1. pico'.sid = 0 /\ UNCHANGED executed
    BY <1>4, <1>9 DEF Refuse, Replies, PicoType
  <2>2. \A e \in DOMAIN executed : executed[e].sid # 0
    BY TypedParts DEF JInv, Opened
  <2> QED BY <1>1, <2>1, <2>2, TakeKeeps
<1>10. CASE line # Spoilt /\ Execute(line)
  <2>1. line.sid = pico.sid /\ line.op # "junk" /\ Cached(line) = {}
    BY <1>3, <1>10 DEF Execute
  <2>2. CASE /\ line.op = "input" /\ executed' = Append(executed, line)
             /\ Replies(line, "ack", [pico EXCEPT !.down = @ \cup {line}])
    <3> DEFINE m == Message("ack", line.sid, line.seq)
    <3>1. /\ m \in MessageType /\ m.sid = line.sid /\ m.seq = line.seq
      BY <1>5
    <3>2. pico'.sid = pico.sid /\ pico'.cache = Remembered(pico.cache, m)
      BY <1>4, <2>2 DEF Replies, PicoType
    <3> HIDE DEF m
    <3> QED BY <1>1, <2>1, <2>2, <3>1, <3>2, ExecuteInputKeeps
  <2>3. ASSUME NEW kind \in {"ack", "nack"}, NEW d,
               Replies(line, kind, [pico EXCEPT !.down = d]), UNCHANGED executed
        PROVE  JInv'
    <3> DEFINE m == Message(kind, line.sid, line.seq)
    <3>1. /\ m \in MessageType /\ m.sid = line.sid /\ m.seq = line.seq
      BY <1>5
    <3>2. pico'.sid = pico.sid /\ pico'.cache = Remembered(pico.cache, m)
      BY <1>4, <2>3 DEF Replies, PicoType
    <3> HIDE DEF m
    <3> QED BY <1>1, <2>1, <2>3, <3>1, <3>2, AnswerKeeps
  <2>4. pico = [pico EXCEPT !.down = pico.down]
    BY <1>4 DEF PicoType
  <2>5. CASE \/ Replies(line, "ack", [pico EXCEPT !.down = {}]) /\ UNCHANGED executed
             \/ Replies(line, "nack", [pico EXCEPT !.down = {}]) /\ UNCHANGED executed
    BY <2>3, <2>5
  <2>6. CASE Replies(line, "ack", pico) /\ UNCHANGED executed
    BY <2>3, <2>4, <2>6
  <2> HIDE DEF line
  <2> QED BY <1>10, <2>2, <2>5, <2>6 DEF Execute
<1> QED BY <1>2, <1>6, <1>7, <1>8, <1>9, <1>10 DEF PicoReads

LEMMA PicoReleasesKeeps == ASSUME IInv, JInv, PicoReleases PROVE JInv'
<1>1. UNCHANGED <<link, pc, done, public, wire, executed, toPico>>
  BY DEF PicoReleases, callers, history
<1>2. pico'.sid = 0
  BY DEF PicoReleases, IInv, Typed, PicoType
<1> QED BY <1>1, <1>2, StayKeeps

LEMMA PicoRestartsKeeps == ASSUME IInv, JInv, PicoRestarts PROVE JInv'
<1>1. UNCHANGED <<link, pc, done, public, wire, executed, toPico>>
  BY DEF PicoRestarts, callers, history
<1>2. pico'.sid = 0
  BY DEF PicoRestarts
<1> QED BY <1>1, <1>2, StayKeeps

LEMMA UartFaultKeeps == ASSUME IInv, JInv, UartFault PROVE JInv'
<1>1. UNCHANGED <<link, pc, done, public, wire, pico, executed>>
  BY DEF UartFault, Loses, callers, history
<1>2. CASE UNCHANGED toPico
  BY <1>1, <1>2, StayKeeps
<1>3. CASE toPico # <<>> /\ toPico' = Tail(toPico)
  BY <1>1, <1>3, TakeKeeps
<1>4. CASE toPico # <<>> /\ toPico' = [toPico EXCEPT ![1] = Spoilt]
  <2>1. toPico \in Seq(LineType) /\ Spoilt \in LineType /\ Spoilt.op = "junk"
    BY DEF IInv, Typed, Spoilt, Line, LineType
  <2>2. /\ DOMAIN toPico' = DOMAIN toPico /\ toPico'[1] = Spoilt
        /\ \A i \in DOMAIN toPico : i # 1 => toPico'[i] = toPico[i]
    BY <1>4, <2>1, Replaced
  <2>3. \A i \in DOMAIN toPico' :
          i \in DOMAIN toPico /\ (toPico'[i].op # "junk" => toPico'[i] = toPico[i])
    BY <2>1, <2>2
  <2> QED BY <1>1, <2>3, StayKeeps
<1> QED BY <1>2, <1>3, <1>4 DEF UartFault, Loses

---------------------------------------------------------
(* The exchange that has the wire. *)

LEMMA FirstAttemptKeeps == ASSUME IInv, JInv, FirstAttempt PROVE JInv'
<1>1. wire # <<>> /\ Head(wire).attempt = 0
  BY DEF FirstAttempt
<1>2. {"interrupted", "unavailable"} \subseteq Answers
  BY DEF Answers
<1>3. CASE GivesUp(link, "interrupted") \/ GivesUp(link, "unavailable")
  BY <1>1, <1>2, <1>3, GivesUpKeeps
<1>4. CASE /\ SameSession(Head(wire)) /\ (Head(wire).who = "handshake" \/ link.ready)
           /\ Write
  BY <1>1, <1>4, WriteKeeps
<1>5. CASE WriteFails
  BY <1>1, <1>5, FailedWriteKeeps
<1> QED BY <1>3, <1>4, <1>5 DEF FirstAttempt

LEMMA SecondAttemptKeeps == ASSUME IInv, JInv, SecondAttempt PROVE JInv'
<1>1. wire # <<>> /\ Head(wire).attempt = 1 /\ SameSession(Head(wire))
  BY DEF SecondAttempt
<1>2. {"interrupted", "unknown"} \subseteq Answers
  BY DEF Answers
<1>3. CASE GivesUp(link, "interrupted") \/ GivesUp(link, "unknown")
  BY <1>1, <1>2, <1>3, GivesUpKeeps
<1>4. CASE Write
  BY <1>1, <1>4, WriteKeeps
<1>5. CASE WriteFails
  BY <1>1, <1>5, FailedWriteKeeps
<1> QED BY <1>3, <1>4, <1>5 DEF SecondAttempt

LEMMA AckTimeoutKeeps == ASSUME IInv, JInv, AckTimeout PROVE JInv'
<1>1. wire # <<>> /\ {"interrupted", "unknown"} \subseteq Answers
  BY DEF AckTimeout, Answers
<1>2. GivesUp(link, "interrupted") \/ GivesUp(Unhealthy(link), "unknown")
  BY DEF AckTimeout, AfterTimeout
<1> QED BY <1>1, <1>2, GivesUpKeeps

LEMMA CompleteKeeps == ASSUME IInv, JInv, Complete PROVE JInv'
<1>1. wire # <<>> /\ {"nack", "interrupted", "ok"} \subseteq Answers
  BY DEF Complete, Answers
<1>2. PICK result \in {"nack", "interrupted", "ok"} : GivesUp(link, result)
  BY DEF Complete
<1> QED BY <1>1, <1>2, GivesUpKeeps

LEMMA SessionEndedKeeps == ASSUME IInv, JInv, SessionEnded PROVE JInv'
<1>1. wire # <<>> /\ "unknown" \in Answers
  BY DEF SessionEnded, Answers
<1>2. CASE GivesUp(link, "unknown")
  BY <1>1, <1>2, GivesUpKeeps
<1>3. CASE /\ Ends(Unhealthy(link), "unknown")
           /\ UNCHANGED <<sequence, uart, pico, executed>>
  BY <1>1, <1>3, EndKeeps DEF uart
<1> QED BY <1>2, <1>3 DEF SessionEnded

---------------------------------------------------------
(* The invariant of the specification, with the pieces. *)

LEMMA InitJInv == Init => JInv
<1> SUFFICES ASSUME Init PROVE JInv
  OBVIOUS
<1>1. /\ wire = <<>> /\ toPico = <<>> /\ executed = <<>> /\ public = <<>>
      /\ \A c \in Inputs : pc[c] = "idle" /\ done[c] = 0
  BY SerialAssumption DEF Init, Callers
<1>2. DOMAIN wire = {} /\ DOMAIN toPico = {} /\ DOMAIN executed = {} /\ DOMAIN public = {}
  BY <1>1, EmptySeq
<1>3. Numbered /\ Unserved /\ Opened
  BY <1>1, <1>2 DEF Numbered, Unserved, Opened
<1>4. Grouped /\ Same /\ Repeats /\ Rewritable
  BY <1>2 DEF Grouped, Same, Repeats, Rewritable
<1>5. Ordered /\ Unfinished /\ AtMostOnce
  BY <1>2 DEF Ordered, Unfinished, AtMostOnce
<1> QED BY <1>3, <1>4, <1>5 DEF JInv

LEMMA StepJInv == IInv /\ JInv /\ [Next]_vars => JInv'
<1> SUFFICES ASSUME IInv, JInv, [Next]_vars PROVE JInv'
  OBVIOUS
<1>1. ASSUME NEW c \in Callers, Call(c) PROVE JInv'
  BY <1>1, CallKeeps
<1>2. ASSUME NEW c \in Callers, CallRelease(c) PROVE JInv'
  BY <1>2, CallReleaseKeeps
<1>3. ASSUME NEW c \in Callers, Caller(c) PROVE JInv'
  <2>1. CASE WaitReadyFails(c)
    BY <2>1, WaitReadyFailsKeeps
  <2>2. CASE EnterPublic(c)
    BY <2>2, EnterPublicKeeps
  <2>3. CASE EnterRelease(c)
    BY <2>3, EnterReleaseKeeps
  <2>4. CASE SendPieces(c)
    BY <2>4, SendPiecesKeeps
  <2> QED BY <1>3, <2>1, <2>2, <2>3, <2>4 DEF Caller
<1>4. CASE Heartbeat
  BY <1>4, HeartbeatKeeps
<1>5. CASE Wire
  <2>1. CASE FirstAttempt
    BY <2>1, FirstAttemptKeeps
  <2>2. CASE SecondAttempt
    BY <2>2, SecondAttemptKeeps
  <2>3. CASE AckTimeout
    BY <2>3, AckTimeoutKeeps
  <2>4. CASE Complete
    BY <2>4, CompleteKeeps
  <2>5. CASE SessionEnded
    BY <2>5, SessionEndedKeeps
  <2> QED BY <1>5, <2>1, <2>2, <2>3, <2>4, <2>5 DEF Wire
<1>6. CASE Open
  BY <1>6, OpenKeeps
<1>7. CASE Teardown
  BY <1>7, TeardownKeeps
<1>8. CASE ReadLine
  BY <1>8, ReadLineKeeps
<1>9. CASE PicoReads
  BY <1>9, PicoReadsKeeps
<1>10. CASE PicoReleases
  BY <1>10, PicoReleasesKeeps
<1>11. CASE PicoRestarts
  BY <1>11, PicoRestartsKeeps
<1>12. CASE UartFault
  BY <1>12, UartFaultKeeps
<1>13. CASE UNCHANGED vars
  <2>1. /\ UNCHANGED <<link, pc, done, public, wire, executed, pico, toPico>>
    BY <1>13 DEF vars
  <2> QED BY <2>1, StayKeeps
<1> QED BY <1>1, <1>2, <1>3, <1>4, <1>5, <1>6, <1>7, <1>8, <1>9, <1>10, <1>11, <1>12, <1>13
        DEF Next

LEMMA PiecesInvariant == Spec => []JInv
<1>1. Init => JInv
  BY InitJInv
<1>2. IInv /\ JInv /\ [Next]_vars => JInv'
  BY StepJInv
<1> QED BY <1>1, <1>2, Invariant, PTL DEF Spec

(* "Duplicate sequence IDs are acknowledged without replaying HID": for any number
   of callers, faults and sessions no piece of a command is executed twice, since
   a piece that may come again is still in the Pico's cache. *)
THEOREM ExecutedOnce == Spec => []AtMostOnce
<1>1. JInv => AtMostOnce
  BY DEF JInv
<1> QED BY <1>1, PiecesInvariant, PTL

(* Public commands do not run into each other at the Pico, and the chunks of a text
   stay in order, whatever is lost, written again or given up between them. *)
THEOREM InPublicOrder == Spec => []PublicOrder
<1>1. IInv /\ JInv => PublicOrder
  <2> SUFFICES ASSUME IInv, JInv, NEW i \in DOMAIN executed, NEW j \in DOMAIN executed,
                      i < j, executed[i].unit[1] = executed[j].unit[1]
               PROVE  /\ executed[i].unit[1] \notin Batches =>
                           executed[i].unit[2] < executed[j].unit[2]
                      /\ \A k \in i..j : executed[k].unit[1] = executed[i].unit[1]
    BY DEF PublicOrder
  <2>1. DOMAIN executed = 1..Len(executed) /\ Len(executed) \in Nat
    BY ExecutedIs
  <2>2. /\ Before(executed[i].unit, executed[j].unit)
        /\ \A k \in DOMAIN executed : i <= k /\ k <= j =>
             executed[k].unit[1] = executed[i].unit[1]
    BY DEF JInv, Ordered
  <2>3. executed[i].unit # executed[j].unit
    BY <2>1 DEF JInv, AtMostOnce
  <2>4. /\ executed[i].unit \in Inputs \X (Nat \ {0})
        /\ executed[j].unit \in Inputs \X (Nat \ {0})
    BY DEF JInv, Numbered, Put
  <2>5. \A k \in i..j : k \in DOMAIN executed /\ i <= k /\ k <= j
    BY <2>1
  <2>6. ASSUME executed[i].unit[1] \notin Batches
        PROVE  executed[i].unit[2] < executed[j].unit[2]
    <3>1. executed[i].unit[2] <= executed[j].unit[2]
      BY <2>2, <2>6 DEF Before
    <3>2. executed[i].unit[2] # executed[j].unit[2]
      BY <2>3, <2>4
    <3> QED BY <2>4, <3>1, <3>2
  <2> QED BY <2>2, <2>5, <2>6
<1> QED BY <1>1, Invariant, PiecesInvariant, PTL

---------------------------------------------------------
(* Answers.  What the proof follows is a number: taken when an exchange joins *)
(* the queue for the wire, written, answered, forgotten; by then it may come  *)
(* round again.  x is an exchange, m a line or an answer.                    *)

OfExchange(x, m) == m.sid = x.sid /\ m.seq \in NumbersOf(x)
HasBegun == wire # <<>> /\ wire[1].attempt > 0
Own(m)   == OfExchange(wire[1], m)

(* Something that answers the exchange on the wire has come of it. *)
Shown ==
  \/ wire[1].answered # {}
  \/ \E i \in DOMAIN toGateway : Own(toGateway[i])
  \/ \E i \in DOMAIN pico.cache : Own(pico.cache[i])

(* Number 0 is the handshake's, and no number is on two lines of a session. *)
Distinct ==
  /\ \A w \in DOMAIN wire : \A k \in DOMAIN wire[w].lines :
       /\ wire[w].lines[k].seq \in 0..(Modulus - 1)
       /\ wire[w].lines[k].seq = 0 <=> wire[w].who = "handshake"
  /\ \A v, w \in DOMAIN wire : wire[v].sid = wire[w].sid =>
       \A k \in DOMAIN wire[v].lines, l \in DOMAIN wire[w].lines :
         wire[v].lines[k].seq = wire[w].lines[l].seq => v = w /\ k = l

(* An exchange that has not begun has numbers that nothing else has. *)
Unseen ==
  \A w \in DOMAIN wire : wire[w].attempt = 0 =>
    /\ \A i \in DOMAIN toPico : ~OfExchange(wire[w], toPico[i])
    /\ \A i \in DOMAIN toGateway : ~OfExchange(wire[w], toGateway[i])
    /\ \A i \in DOMAIN pico.cache : ~OfExchange(wire[w], pico.cache[i])

(* What has a number of the exchange on the wire is a line of it. *)
Mine ==
  HasBegun => \A i \in DOMAIN toPico : Own(toPico[i]) =>
    \E k \in DOMAIN wire[1].lines : toPico[i] = wire[1].lines[k]

(* Nothing follows the exchange on the wire, and once something shows of it
   nothing precedes it either. *)
InTurn ==
  HasBegun =>
    /\ \A i, j \in DOMAIN toPico :
         i < j /\ Own(toPico[i]) /\ toPico[j].op # "junk" => Own(toPico[j])
    /\ \A i, j \in DOMAIN toGateway :
         i < j /\ Own(toGateway[i]) /\ toGateway[j].sid = wire[1].sid => Own(toGateway[j])
    /\ Shown =>
         /\ \A i \in DOMAIN toPico : toPico[i].op # "junk" => Own(toPico[i])
         /\ pico.cache # <<>> => Own(pico.cache[Len(pico.cache)])
    /\ wire[1].answered # {} =>
         \A i \in DOMAIN toGateway : toGateway[i].sid = wire[1].sid => Own(toGateway[i])

(* InTurn of an exchange x, which is the one on the wire. *)
TurnOf(x) ==
  /\ \A i, j \in DOMAIN toPico :
       i < j /\ OfExchange(x, toPico[i]) /\ toPico[j].op # "junk" => OfExchange(x, toPico[j])
  /\ \A i, j \in DOMAIN toGateway :
       i < j /\ OfExchange(x, toGateway[i]) /\ toGateway[j].sid = x.sid => OfExchange(x, toGateway[j])
  /\ Shown =>
       /\ \A i \in DOMAIN toPico : toPico[i].op # "junk" => OfExchange(x, toPico[i])
       /\ pico.cache # <<>> => OfExchange(x, pico.cache[Len(pico.cache)])
  /\ x.answered # {} =>
       \A i \in DOMAIN toGateway : toGateway[i].sid = x.sid => OfExchange(x, toGateway[i])

(* An acknowledgement of an input is of one that was executed. *)
Confirmed(l) ==
  \/ \E i \in DOMAIN toGateway :
       toGateway[i].kind = "ack" /\ toGateway[i].sid = l.sid /\ toGateway[i].seq = l.seq
  \/ \E i \in DOMAIN pico.cache :
       pico.cache[i].kind = "ack" /\ pico.cache[i].sid = l.sid /\ pico.cache[i].seq = l.seq
  \/ l.seq \in wire[1].answered /\ ~wire[1].nacked

Genuine ==
  /\ HasBegun /\ wire[1].who \in Inputs =>
       \A k \in DOMAIN wire[1].lines :
         Confirmed(wire[1].lines[k]) => wire[1].lines[k].unit \in Finished
  /\ \A c \in Inputs : \A i \in 1..done[c] : <<c, i>> \in Finished

(* What was written, or may be written again, was asked for after the last
   acknowledged release. *)
Fenced ==
  /\ \A w \in DOMAIN wire : wire[w].who \in Inputs =>
       /\ wire[w].gen \in Nat
       /\ \A k \in DOMAIN wire[w].lines : wire[w].lines[k].gen = wire[w].gen
  /\ \A i \in DOMAIN toPico : toPico[i].op = "input" =>
       toPico[i].gen \in Nat /\ toPico[i].gen >= fence
  /\ HasBegun /\ wire[1].who \in Inputs => wire[1].gen >= fence

(* While the session is ready the wire is of it alone, and until the handshake
   is through nothing else of it is there. *)
Present ==
  /\ link.ready => \A w \in DOMAIN wire : wire[w].sid = link.sid
  /\ \A w \in DOMAIN wire : wire[w].who = "handshake" => w = Len(wire)
  /\ link.phase = "handshake" =>
       /\ sequence = 0
       /\ \A w \in DOMAIN wire : wire[w].sid = link.sid => wire[w].who = "handshake"
       /\ \A i \in DOMAIN toPico : toPico[i].sid = link.sid => toPico[i].seq = 0
       /\ \A i \in DOMAIN toGateway : toGateway[i].sid = link.sid => toGateway[i].seq = 0
       /\ \A i \in DOMAIN pico.cache : pico.cache[i].sid = link.sid => pico.cache[i].seq = 0

(* How far number q is behind s on the circle 1..Modulus-1, and that it is by no
   more than r exchanges. *)
Behind(s, q)    == IF q <= s THEN s - q ELSE s + (Modulus - 1) - q
Within(s, q, r) == q \in 1..(Modulus - 1) /\ Behind(s, q) <= CacheSize * r

One(p) == IF p THEN 1 ELSE 0

(* The releases that were called, and those of them that took a number. *)
Called  == {c \in Releases : pc[c] # "idle"}
Entered == {c \in Releases : pc[c] \notin {"idle", "entering"}}

(* The exchanges that joined after exchange w, at the most. *)
After(w) ==
  One(\E v \in DOMAIN wire : v > w /\ wire[v].who \in Inputs)
  + One(\E v \in DOMAIN wire : v > w /\ wire[v].who = "heartbeat")
  + Cardinality(Entered)

(* An input that a release has overtaken: it took its numbers in vain. *)
Overtaken == \E w \in DOMAIN wire : wire[w].who \in Inputs /\ wire[w].gen # link.generation

(* The exchanges that joined after one of which a trace is in the UART. *)
Reach == 3 + Cardinality(Called) - One(Overtaken) + After(0)

(* The last thing the Pico remembers is of the exchange on the wire. *)
Latest == HasBegun /\ pico.cache # <<>> /\ Own(pico.cache[Len(pico.cache)])

(* A number of this session is as far back as exchanges joined since. *)
Recent ==
  link.ready =>
    /\ \A w \in DOMAIN wire : \A k \in DOMAIN wire[w].lines :
         Within(sequence, wire[w].lines[k].seq, 1 + After(w))
    /\ \A i \in DOMAIN toPico : toPico[i].sid = link.sid /\ toPico[i].seq # 0 =>
         Within(sequence, toPico[i].seq, Reach)
    /\ \A i \in DOMAIN toGateway : toGateway[i].sid = link.sid /\ toGateway[i].seq # 0 =>
         Within(sequence, toGateway[i].seq, Reach)
    /\ \A i \in DOMAIN pico.cache : pico.cache[i].sid = link.sid /\ pico.cache[i].seq # 0 =>
         Within(sequence, pico.cache[i].seq, Reach + Len(pico.cache) - i - One(Latest))

(* The numbers do not come round as long as anything of their last round is
   about.  Each release may overtake an input that took its numbers, so the
   releases of a behaviour count, and nothing else of it: with 2^32 numbers and
   a cache of 16 there is room for 134217717. *)
RoomForReleases ==
  /\ IsFiniteSet(Releases)
  /\ Modulus > CacheSize * (CacheSize + 2 * Cardinality(Releases) + 5) + 1

KInv ==
  /\ Distinct /\ Unseen /\ Mine /\ InTurn /\ Genuine /\ Fenced /\ Present /\ Recent

Traces == Distinct /\ Unseen /\ Mine /\ InTurn /\ Genuine /\ Fenced /\ Present

---------------------------------------------------------
(* What is written, lost, answered or given up leaves of the traces. *)

(* t is what is left of s, in its order, but for what names no session. *)
Among(t, s) ==
  /\ \A i \in DOMAIN t : t[i].sid = 0 \/ \E p \in DOMAIN s : t[i] = s[p]
  /\ \A i, j \in DOMAIN t : i < j =>
       t[i].sid = 0 \/ t[j].sid = 0
       \/ \E p, q \in DOMAIN s : p < q /\ t[i] = s[p] /\ t[j] = s[q]

LEMMA AmongItself == ASSUME NEW s PROVE Among(s, s)
BY DEF Among

LEMMA AmongTail ==
  ASSUME NEW S, NEW s \in Seq(S), s # <<>> PROVE Among(Tail(s), s)
<1>1. /\ DOMAIN Tail(s) = 1..(Len(s) - 1) /\ Len(s) \in Nat
      /\ \A i \in DOMAIN Tail(s) : i + 1 \in DOMAIN s /\ Tail(s)[i] = s[i + 1]
  BY Shortened
<1>2. \A i, j \in DOMAIN Tail(s) : i < j => i + 1 < j + 1
  BY <1>1
<1> QED BY <1>1, <1>2 DEF Among

LEMMA AmongAppended ==
  ASSUME NEW S, NEW s \in Seq(S), NEW e \in S, e.sid = 0 PROVE Among(Append(s, e), s)
BY Appended DEF Among

LEMMA AmongReplaced ==
  ASSUME NEW S, NEW s \in Seq(S), s # <<>>, NEW e \in S, e.sid = 0
  PROVE  Among([s EXCEPT ![1] = e], s)
BY Replaced DEF Among

LEMMA AmongSuffix ==
  ASSUME NEW S, NEW s \in Seq(S), NEW n \in 0..Len(s) PROVE Among(SubSeq(s, n + 1, Len(s)), s)
<1> DEFINE t == SubSeq(s, n + 1, Len(s))
<1>1. Len(s) \in Nat /\ DOMAIN s = 1..Len(s)
  BY LenProperties
<1>2. \A i \in (n + 1)..Len(s) : s[i] \in S
  <2>1. \A i \in (n + 1)..Len(s) : i \in DOMAIN s
    BY <1>1
  <2> QED BY <2>1, ElementOfSeq, <1>1
<1>3. t \in Seq(S) /\ Len(t) = Len(s) - n /\ \A i \in 1..(Len(s) - n) : t[i] = s[n + i]
  <2>1. n + 1 \in Int /\ Len(s) \in Int /\ (n + 1 <= Len(s) + 1)
    BY <1>1
  <2>2. /\ t \in Seq(S)
        /\ Len(t) = IF n + 1 <= Len(s) THEN Len(s) - (n + 1) + 1 ELSE 0
        /\ \A i \in 1..Len(s) - (n + 1) + 1 : t[i] = s[(n + 1) + i - 1]
    BY <1>2, <2>1, SubSeqProperties
  <2> HIDE DEF t
  <2>3. \A i \in 1..(Len(s) - n) : i \in 1..Len(s) - (n + 1) + 1 /\ (n + 1) + i - 1 = n + i
    BY <1>1
  <2>4. Len(t) = IF n + 1 <= Len(s) THEN Len(s) - (n + 1) + 1 ELSE 0
    BY <2>2
  <2>5. Len(t) = Len(s) - n
    <3>1. n \in Int /\ Len(s) \in Int /\ n <= Len(s)
      BY <1>1
    <3> QED BY ONLY <2>4, <3>1
  <2> QED BY <2>2, <2>3, <2>5
<1>4. DOMAIN t = 1..(Len(s) - n)
  BY <1>3, LenProperties
<1> HIDE DEF t
<1>5. \A i \in DOMAIN t : n + i \in DOMAIN s /\ t[i] = s[n + i]
  BY <1>1, <1>3, <1>4
<1>6. \A i, j \in DOMAIN t : i < j => n + i < n + j
  BY <1>1, <1>4
<1>7. Among(t, s)
  BY <1>5, <1>6 DEF Among
<1> QED BY <1>7 DEF t

LEMMA OfSame ==
  ASSUME NEW x, NEW y, x.sid = y.sid, x.lines = y.lines, NEW m
  PROVE  OfExchange(x, m) <=> OfExchange(y, m)
BY DEF OfExchange, NumbersOf

(* What names no session is of no exchange. *)
LEMMA OfNone ==
  ASSUME IInv, NEW w \in DOMAIN wire, NEW m, m.sid = 0
  PROVE  ~OfExchange(wire[w], m)
BY TypedParts DEF IInv, Addressed, OfExchange

LEMMA Positive ==
  ASSUME IInv
  PROVE  /\ \A w \in DOMAIN wire : wire[w].sid # 0
         /\ \A w \in DOMAIN wire : \A k \in DOMAIN wire[w].lines :
              wire[w].lines[k].sid = wire[w].sid /\ wire[w].lines[k].op # "junk"
         /\ \A i \in DOMAIN toPico : toPico[i].op # "junk" => toPico[i].sid # 0
         /\ HasBegun => 1 \in DOMAIN wire
<1>1. \A n \in 1..link.sessions : n # 0
  BY TypedParts
<1>2. HasBegun => 1 \in DOMAIN wire
  BY NotEmpty DEF IInv, Typed, HasBegun
<1> QED BY <1>1, <1>2 DEF IInv, Addressed

(* The exchange on the wire, when nothing is written or answered: what there was is
   lost at most. *)
LEMMA HeadTraces ==
  ASSUME IInv, IInv', Traces,
         Among(toPico', toPico), Among(toGateway', toGateway),
         pico'.cache \in {pico.cache, <<>>}, executed' = executed,
         HasBegun' => HasBegun /\ wire'[1] = wire[1],
         \A c \in Inputs : \A i \in 1..done'[c] : <<c, i>> \in Finished
  PROVE  Mine' /\ InTurn' /\ Genuine'
<1>1. Mine /\ InTurn /\ Genuine
  BY DEF Traces
<1>2. /\ \A i \in DOMAIN toPico' : toPico'[i].op # "junk" => toPico'[i].sid # 0
      /\ HasBegun => 1 \in DOMAIN wire
      /\ HasBegun' => 1 \in DOMAIN wire'
  <2>1. HasBegun' => 1 \in DOMAIN wire'
    BY NotEmpty DEF IInv, Typed, HasBegun
  <2>2. \A i \in DOMAIN toPico' : toPico'[i].op # "junk" => toPico'[i].sid # 0
    <3>1. \A n \in 1..link'.sessions : n # 0
      BY DEF IInv, Typed, LinkType
    <3> QED BY <3>1 DEF IInv, Addressed
  <2> QED BY <2>1, <2>2, Positive
<1>3. HasBegun' => \A m : m.sid = 0 => ~OfExchange(wire'[1], m)
  BY <1>2, OfNone
<1>4. /\ \A i \in DOMAIN toPico' : toPico'[i].sid = 0 \/ \E p \in DOMAIN toPico : toPico'[i] = toPico[p]
      /\ \A i \in DOMAIN toGateway' :
           toGateway'[i].sid = 0 \/ \E p \in DOMAIN toGateway : toGateway'[i] = toGateway[p]
      /\ \A i, j \in DOMAIN toPico' : i < j =>
           toPico'[i].sid = 0 \/ toPico'[j].sid = 0
           \/ \E p, q \in DOMAIN toPico : p < q /\ toPico'[i] = toPico[p] /\ toPico'[j] = toPico[q]
      /\ \A i, j \in DOMAIN toGateway' : i < j =>
           toGateway'[i].sid = 0 \/ toGateway'[j].sid = 0
           \/ \E p, q \in DOMAIN toGateway :
                p < q /\ toGateway'[i] = toGateway[p] /\ toGateway'[j] = toGateway[q]
      /\ \A i \in DOMAIN pico'.cache : pico'.cache = pico.cache
  BY DEF Among
<1>5. Mine'
  <2> SUFFICES ASSUME HasBegun', NEW i \in DOMAIN toPico', OfExchange(wire'[1], toPico'[i])
               PROVE  \E k \in DOMAIN wire'[1].lines : toPico'[i] = wire'[1].lines[k]
    BY DEF Mine, Own
  <2>1. toPico'[i].sid # 0
    BY <1>2, <1>3
  <2> QED BY <1>1, <1>4, <2>1 DEF Mine, Own
<1>6. InTurn'
  <2> SUFFICES ASSUME HasBegun' PROVE InTurn'
    BY DEF InTurn
  <2> DEFINE x == wire[1]
  <2>1. HasBegun /\ wire'[1] = x /\ 1 \in DOMAIN wire'
    BY <1>2
  <2> HIDE DEF x
  <2>2. TurnOf(x)
    BY <1>1, <2>1 DEF InTurn, Own, TurnOf, x
  <2> USE DEF TurnOf
  <2>3. \A m : m.sid = 0 => ~OfExchange(x, m)
    BY <1>3, <2>1
  <2>4. x.sid # 0
    BY <1>2, <2>1, Positive DEF x
  <2>5. Shown' => Shown
    BY <1>4, <2>1, <2>3 DEF Shown, Own, x
  <2>6. \A i, j \in DOMAIN toPico' :
          i < j /\ OfExchange(x, toPico'[i]) /\ toPico'[j].op # "junk" => OfExchange(x, toPico'[j])
    BY <1>2, <1>4, <2>2, <2>3
  <2>7. \A i, j \in DOMAIN toGateway' :
          i < j /\ OfExchange(x, toGateway'[i]) /\ toGateway'[j].sid = x.sid
          => OfExchange(x, toGateway'[j])
    BY <1>4, <2>2, <2>3, <2>4
  <2>8. Shown' =>
          /\ \A i \in DOMAIN toPico' : toPico'[i].op # "junk" => OfExchange(x, toPico'[i])
          /\ pico'.cache # <<>> => OfExchange(x, pico'.cache[Len(pico'.cache)])
    BY <1>2, <1>4, <2>2, <2>5
  <2>9. x.answered # {} =>
          \A i \in DOMAIN toGateway' : toGateway'[i].sid = x.sid => OfExchange(x, toGateway'[i])
    BY <1>4, <2>2, <2>4
  <2> QED BY <2>1, <2>6, <2>7, <2>8, <2>9 DEF InTurn, Own
<1>7. Genuine'
  <2>1. Finished' = Finished
    BY DEF Finished
  <2>2. ASSUME HasBegun', wire'[1].who \in Inputs, NEW k \in DOMAIN wire'[1].lines,
               Confirmed(wire[1].lines[k])'
        PROVE  wire'[1].lines[k].unit \in Finished
    <3> DEFINE l == wire[1].lines[k]
    <3>1. HasBegun /\ wire'[1] = wire[1] /\ 1 \in DOMAIN wire
      BY <1>2, <2>2
    <3>2. l.sid # 0
      BY <2>2, <3>1, Positive
    <3>3. Confirmed(l)
      BY <1>4, <2>2, <3>1, <3>2 DEF Confirmed
    <3> QED BY <1>1, <2>2, <3>1, <3>3 DEF Genuine
  <2> QED BY <2>1, <2>2 DEF Genuine
<1> QED BY <1>5, <1>6, <1>7

(* Nothing is written or answered: what there was is lost at most, and wire'
   has exchanges of wire, f says which. *)
LEMMA QuietTraces ==
  ASSUME IInv, IInv', Traces,
         Among(toPico', toPico), Among(toGateway', toGateway),
         pico'.cache \in {pico.cache, <<>>}, executed' = executed,
         NEW f \in [DOMAIN wire' -> DOMAIN wire],
         \A w \in DOMAIN wire' : wire'[w] = wire[f[w]],
         \A v, w \in DOMAIN wire' : f[v] = f[w] => v = w,
         HasBegun' => HasBegun /\ wire'[1] = wire[1],
         \A c \in Inputs : \A i \in 1..done'[c] : <<c, i>> \in Finished,
         \A i \in DOMAIN toPico' : toPico'[i].op = "input" => toPico'[i].gen >= fence',
         HasBegun' /\ wire'[1].who \in Inputs => wire'[1].gen >= fence',
         link'.ready => \A w \in DOMAIN wire' : wire'[w].sid = link'.sid,
         \A w \in DOMAIN wire' : wire'[w].who = "handshake" => w = Len(wire'),
         link'.phase = "handshake" =>
           link.phase = "handshake" /\ link'.sid = link.sid /\ sequence' = sequence
  PROVE  Traces'
<1>1. /\ Distinct /\ Unseen /\ Mine /\ InTurn /\ Genuine /\ Fenced /\ Present
  BY DEF Traces
<1>2. /\ \A w \in DOMAIN wire' : f[w] \in DOMAIN wire
      /\ \A i \in DOMAIN toPico' : toPico'[i].op # "junk" => toPico'[i].sid # 0
      /\ HasBegun => 1 \in DOMAIN wire
      /\ HasBegun' => 1 \in DOMAIN wire'
  <2>1. HasBegun => 1 \in DOMAIN wire
    BY NotEmpty DEF IInv, Typed, HasBegun
  <2>2. HasBegun' => 1 \in DOMAIN wire'
    BY NotEmpty DEF IInv, Typed, HasBegun
  <2>3. \A i \in DOMAIN toPico' : toPico'[i].op # "junk" => toPico'[i].sid # 0
    <3>1. \A n \in 1..link'.sessions : n # 0
      BY DEF IInv, Typed, LinkType
    <3> QED BY <3>1 DEF IInv, Addressed
  <2> QED BY <2>1, <2>2, <2>3
<1>3. \A w \in DOMAIN wire' : \A m : m.sid = 0 => ~OfExchange(wire'[w], m)
  BY <1>2, OfNone
<1>4. /\ \A i \in DOMAIN toPico' : toPico'[i].sid = 0 \/ \E p \in DOMAIN toPico : toPico'[i] = toPico[p]
      /\ \A i \in DOMAIN toGateway' :
           toGateway'[i].sid = 0 \/ \E p \in DOMAIN toGateway : toGateway'[i] = toGateway[p]
      /\ \A i \in DOMAIN pico'.cache : pico'.cache = pico.cache
  BY DEF Among
<1>5. Distinct'
  BY <1>1, <1>2 DEF Distinct
<1>6. Unseen'
  BY <1>1, <1>2, <1>3, <1>4 DEF Unseen
<1>7. Mine' /\ InTurn' /\ Genuine'
  BY HeadTraces
<1>8. Fenced'
  <2>1. \A w \in DOMAIN wire' : wire'[w].who \in Inputs =>
          /\ wire'[w].gen \in Nat
          /\ \A k \in DOMAIN wire'[w].lines : wire'[w].lines[k].gen = wire'[w].gen
    BY <1>1, <1>2 DEF Fenced
  <2>2. \A i \in DOMAIN toPico' : toPico'[i].op = "input" => toPico'[i].gen \in Nat
    BY <1>1, <1>2, <1>4 DEF Fenced
  <2> QED BY <2>1, <2>2 DEF Fenced
<1>9. Present'
  <2> SUFFICES ASSUME link'.phase = "handshake"
               PROVE  /\ sequence' = 0
                      /\ \A w \in DOMAIN wire' : wire'[w].sid = link'.sid => wire'[w].who = "handshake"
                      /\ \A i \in DOMAIN toPico' : toPico'[i].sid = link'.sid => toPico'[i].seq = 0
                      /\ \A i \in DOMAIN toGateway' : toGateway'[i].sid = link'.sid => toGateway'[i].seq = 0
                      /\ \A i \in DOMAIN pico'.cache : pico'.cache[i].sid = link'.sid => pico'.cache[i].seq = 0
    BY DEF Present
  <2>1. link'.sid # 0
    BY DEF IInv, Current
  <2> QED BY <1>1, <1>2, <1>4, <2>1 DEF Present
<1> QED BY <1>5, <1>6, <1>7, <1>8, <1>9 DEF Traces

(* An exchange joins the queue for the wire with numbers that nothing has. *)
LEMMA JoinTraces ==
  ASSUME IInv, IInv', Traces,
         NEW x \in ExchangeType, wire' = Append(wire, x), x.attempt = 0,
         \A k \in DOMAIN x.lines :
           /\ x.lines[k].seq \in 0..(Modulus - 1)
           /\ x.lines[k].seq = 0 <=> x.who = "handshake",
         \A k, l \in DOMAIN x.lines : x.lines[k].seq = x.lines[l].seq => k = l,
         \A w \in DOMAIN wire : wire[w].sid = x.sid =>
           \A k \in DOMAIN wire[w].lines, l \in DOMAIN x.lines :
             wire[w].lines[k].seq # x.lines[l].seq,
         \A i \in DOMAIN toPico : ~OfExchange(x, toPico[i]),
         \A i \in DOMAIN toGateway : ~OfExchange(x, toGateway[i]),
         \A i \in DOMAIN pico.cache : ~OfExchange(x, pico.cache[i]),
         x.who \in Inputs =>
           x.gen \in Nat /\ \A k \in DOMAIN x.lines : x.lines[k].gen = x.gen,
         UNCHANGED <<toPico, pico, executed, done, fence>>,
         Among(toGateway', toGateway),
         Present'
  PROVE  Traces'
<1>1. /\ Distinct /\ Unseen /\ Mine /\ InTurn /\ Genuine /\ Fenced /\ Present
  BY DEF Traces
<1>2. /\ Len(wire) \in Nat /\ DOMAIN wire = 1..Len(wire)
      /\ DOMAIN wire' = DOMAIN wire \cup {Len(wire) + 1} /\ Len(wire) + 1 \notin DOMAIN wire
      /\ \A i \in DOMAIN wire : wire'[i] = wire[i]
      /\ wire'[Len(wire) + 1] = x
  BY Appended, LenProperties DEF IInv, Typed
<1>3. HasBegun' => HasBegun /\ wire'[1] = wire[1]
  <2>1. CASE wire = <<>>
    <3>1. wire'[1] = x
      BY <1>2, <2>1
    <3> QED BY <3>1 DEF HasBegun
  <2>2. CASE wire # <<>>
    <3>1. 1 \in DOMAIN wire
      BY <2>2, NotEmpty DEF IInv, Typed
    <3> QED BY <1>2, <2>2, <3>1 DEF HasBegun
  <2> QED BY <2>1, <2>2
<1>4. Among(toPico', toPico)
  BY AmongItself
<1>5. Mine' /\ InTurn' /\ Genuine'
  <2>1. \A c \in Inputs : \A i \in 1..done'[c] : <<c, i>> \in Finished
    BY <1>1 DEF Genuine
  <2> QED BY <1>3, <1>4, <2>1, HeadTraces
<1>6. Distinct'
  <2>1. \A w \in DOMAIN wire' : \A k \in DOMAIN wire'[w].lines :
          /\ wire'[w].lines[k].seq \in 0..(Modulus - 1)
          /\ wire'[w].lines[k].seq = 0 <=> wire'[w].who = "handshake"
    BY <1>1, <1>2 DEF Distinct
  <2> SUFFICES ASSUME NEW v \in DOMAIN wire', NEW w \in DOMAIN wire',
                      wire'[v].sid = wire'[w].sid,
                      NEW k \in DOMAIN wire'[v].lines, NEW l \in DOMAIN wire'[w].lines,
                      wire'[v].lines[k].seq = wire'[w].lines[l].seq
               PROVE  v = w /\ k = l
    BY <2>1 DEF Distinct
  <2>2. CASE v \in DOMAIN wire /\ w \in DOMAIN wire
    BY <1>1, <1>2, <2>2 DEF Distinct
  <2>3. CASE v \in DOMAIN wire /\ w \notin DOMAIN wire
    BY <1>2, <2>3
  <2>4. CASE v \notin DOMAIN wire /\ w \in DOMAIN wire
    BY <1>2, <2>4
  <2>5. CASE v \notin DOMAIN wire /\ w \notin DOMAIN wire
    BY <1>2, <2>5
  <2> QED BY <2>2, <2>3, <2>4, <2>5
<1>7. Unseen'
  <2>1. \A w \in DOMAIN wire : \A m : m.sid = 0 => ~OfExchange(wire[w], m)
    BY OfNone
  <2>2. \A m : m.sid = 0 => ~OfExchange(x, m)
    <3>1. Len(wire) + 1 \in DOMAIN wire'
      BY <1>2
    <3>2. x.sid \in 1..link'.sessions
      <4>1. Addressed'
        BY DEF IInv
      <4> QED BY <1>2, <3>1, <4>1 DEF Addressed
    <3>3. x.sid # 0
      BY <3>2
    <3> QED BY <3>3 DEF OfExchange
  <2>3. \A i \in DOMAIN toGateway' :
          toGateway'[i].sid = 0 \/ \E p \in DOMAIN toGateway : toGateway'[i] = toGateway[p]
    BY DEF Among
  <2>4. ASSUME NEW w \in DOMAIN wire', wire'[w].attempt = 0
        PROVE  /\ \A i \in DOMAIN toPico' : ~OfExchange(wire'[w], toPico'[i])
               /\ \A i \in DOMAIN toGateway' : ~OfExchange(wire'[w], toGateway'[i])
               /\ \A i \in DOMAIN pico'.cache : ~OfExchange(wire'[w], pico'.cache[i])
    <3>1. CASE w \in DOMAIN wire
      BY <1>1, <1>2, <2>1, <2>3, <2>4, <3>1 DEF Unseen
    <3>2. CASE w \notin DOMAIN wire
      <4>1. wire'[w] = x
        BY <1>2, <3>2
      <4> QED BY <2>2, <2>3, <4>1
    <3> QED BY <3>1, <3>2
  <2> QED BY <2>4 DEF Unseen
<1>8. Fenced'
  <2>1. \A w \in DOMAIN wire' : wire'[w].who \in Inputs =>
          /\ wire'[w].gen \in Nat
          /\ \A k \in DOMAIN wire'[w].lines : wire'[w].lines[k].gen = wire'[w].gen
    BY <1>1, <1>2 DEF Fenced
  <2> QED BY <1>1, <1>3, <2>1 DEF Fenced
<1> QED BY <1>5, <1>6, <1>7, <1>8 DEF Traces

(* A write puts lines of the exchange on the wire behind all others. *)
LEMMA WriteTraces ==
  ASSUME IInv, JInv, IInv', Traces, wire # <<>>, Head(wire).attempt \in {0, 1},
         Head(wire).attempt = 0 => NotOvertaken(Head(wire)), Write
  PROVE  Traces'
<1> DEFINE x == wire[1]
           y == [x EXCEPT !.attempt = x.attempt + 1]
           u == Unanswered(y)
<1>1. /\ Distinct /\ Unseen /\ Mine /\ InTurn /\ Genuine /\ Fenced /\ Present
      /\ Typed /\ OneAtATime /\ Fates /\ Numbered
  BY DEF Traces, IInv, JInv
<1>2. /\ Head(wire) = x /\ 1 \in DOMAIN wire /\ x \in ExchangeType /\ x.attempt \in {0, 1}
      /\ x.attempt = 0 => NotOvertaken(x)
  BY <1>1, NotEmpty DEF Typed
<1>3. /\ wire' = [wire EXCEPT ![1] = y] /\ toPico' = toPico \o u
      /\ UNCHANGED <<link, sequence, done, toGateway, pico, executed, fence>>
  BY <1>2 DEF Write, Rewritten, callers, history
<1>4. /\ y \in ExchangeType /\ y.who = x.who /\ y.sid = x.sid /\ y.lines = x.lines
      /\ y.answered = x.answered /\ y.nacked = x.nacked /\ y.gen = x.gen
      /\ y.attempt = x.attempt + 1 /\ y.attempt > 0
  BY <1>2 DEF ExchangeType
<1>5. /\ u \in Seq(LineType)
      /\ \A k \in DOMAIN u : \E i \in DOMAIN x.lines : u[k] = x.lines[i]
  <2> HIDE DEF y
  <2> QED BY <1>4, Written DEF Pending
<1> HIDE DEF u, y
<1>6. /\ DOMAIN wire' = DOMAIN wire /\ wire'[1] = y /\ HasBegun' /\ wire' # <<>>
      /\ \A w \in DOMAIN wire : w # 1 => wire'[w] = wire[w]
  <2>1. /\ DOMAIN wire' = DOMAIN wire /\ wire'[1] = y
        /\ \A w \in DOMAIN wire : w # 1 => wire'[w] = wire[w]
    BY <1>1, <1>3, <1>4, Replaced DEF Typed
  <2>2. wire' # <<>>
    BY <1>2, <2>1
  <2> QED BY <1>4, <2>1, <2>2 DEF HasBegun
<1>7. /\ toPico' \in Seq(LineType) /\ DOMAIN toPico = 1..Len(toPico) /\ Len(toPico) \in Nat
      /\ DOMAIN toPico \subseteq DOMAIN toPico'
      /\ \A i \in DOMAIN toPico : toPico'[i] = toPico[i]
      /\ \A i \in DOMAIN toPico' : i \notin DOMAIN toPico =>
           /\ \E k \in DOMAIN x.lines : toPico'[i] = x.lines[k]
           /\ \A j \in DOMAIN toPico : j < i
  <2>1. /\ DOMAIN toPico = 1..Len(toPico) /\ DOMAIN u = 1..Len(u)
        /\ DOMAIN toPico' = 1..(Len(toPico) + Len(u)) /\ toPico' \in Seq(LineType)
        /\ \A i \in DOMAIN toPico : toPico'[i] = toPico[i]
        /\ \A i \in DOMAIN toPico' : i \notin DOMAIN toPico =>
             i - Len(toPico) \in DOMAIN u /\ toPico'[i] = u[i - Len(toPico)]
    BY <1>1, <1>3, <1>5, Joined DEF Typed
  <2>2. Len(toPico) \in Nat /\ Len(u) \in Nat
    BY <1>1, <1>5, LenProperties DEF Typed
  <2> QED BY <1>5, <2>1, <2>2
<1>8. \A w \in DOMAIN wire :
        /\ wire'[w].sid = wire[w].sid /\ wire'[w].lines = wire[w].lines
        /\ wire'[w].who = wire[w].who /\ wire'[w].gen = wire[w].gen
        /\ \A m : OfExchange(wire'[w], m) <=> OfExchange(wire[w], m)
        /\ wire'[w].attempt = 0 => w # 1 /\ wire[w].attempt = 0
  <2>1. \A w \in DOMAIN wire :
          /\ wire'[w].sid = wire[w].sid /\ wire'[w].lines = wire[w].lines
          /\ wire'[w].who = wire[w].who /\ wire'[w].gen = wire[w].gen
          /\ wire'[w].attempt = 0 => w # 1 /\ wire[w].attempt = 0
    BY <1>4, <1>6
  <2> QED BY <2>1, OfSame
<1>9. \A k \in DOMAIN x.lines : OfExchange(x, x.lines[k]) /\ x.lines[k].sid = x.sid
  BY <1>2, Positive DEF OfExchange, NumbersOf
<1>10. /\ x.attempt = 0 => /\ x.answered = {}
                           /\ \A i \in DOMAIN toPico : ~OfExchange(x, toPico[i])
                           /\ \A i \in DOMAIN toGateway : ~OfExchange(x, toGateway[i])
                           /\ \A i \in DOMAIN pico.cache : ~OfExchange(x, pico.cache[i])
       /\ x.attempt # 0 => HasBegun
  <2>1. x.attempt # 0 => HasBegun
    BY <1>2 DEF HasBegun
  <2> QED BY <1>1, <1>2, <2>1 DEF Unseen, OneAtATime
<1>11. Distinct'
  BY <1>1, <1>6, <1>8 DEF Distinct
<1>12. Unseen'
  <2> SUFFICES ASSUME NEW w \in DOMAIN wire', wire'[w].attempt = 0,
                      NEW i \in DOMAIN toPico', OfExchange(wire'[w], toPico'[i])
               PROVE  FALSE
    BY <1>1, <1>3, <1>6, <1>8 DEF Unseen
  <2>1. w \in DOMAIN wire /\ w # 1 /\ OfExchange(wire[w], toPico'[i]) /\ wire[w].attempt = 0
    BY <1>6, <1>8
  <2>2. i \notin DOMAIN toPico
    BY <1>1, <1>7, <2>1 DEF Unseen
  <2>3. PICK k \in DOMAIN x.lines : toPico'[i] = x.lines[k]
    BY <1>7, <2>2
  <2>4. x.lines[k].sid = wire[w].sid /\ \E l \in DOMAIN wire[w].lines : x.lines[k].seq = wire[w].lines[l].seq
    BY <2>1, <2>3 DEF OfExchange, NumbersOf
  <2> QED BY <1>1, <1>2, <1>9, <2>1, <2>4 DEF Distinct
<1>13. Mine'
  <2> SUFFICES ASSUME NEW i \in DOMAIN toPico', OfExchange(y, toPico'[i])
               PROVE  \E k \in DOMAIN y.lines : toPico'[i] = y.lines[k]
    BY <1>6 DEF Mine, Own
  <2>1. CASE i \in DOMAIN toPico
    <3>1. OfExchange(x, toPico[i]) /\ HasBegun
      BY <1>4, <1>7, <1>10, <2>1, OfSame
    <3> QED BY <1>1, <1>4, <1>7, <2>1, <3>1 DEF Mine, Own
  <2>2. CASE i \notin DOMAIN toPico
    BY <1>4, <1>7, <2>2
  <2> QED BY <2>1, <2>2
<1>14. InTurn'
  <2>1. \A m : OfExchange(y, m) <=> OfExchange(x, m)
    BY <1>4, OfSame
  <2>2. HasBegun => TurnOf(x)
    BY <1>1 DEF InTurn, Own, TurnOf
  <2> USE DEF TurnOf
  <2>3. \A i \in DOMAIN toPico' : i \notin DOMAIN toPico => OfExchange(x, toPico'[i])
    BY <1>7, <1>9
  <2>4. ASSUME NEW i \in DOMAIN toPico', NEW j \in DOMAIN toPico', i < j,
               OfExchange(x, toPico'[i]), toPico'[j].op # "junk"
        PROVE  OfExchange(x, toPico'[j])
    <3>1. CASE j \notin DOMAIN toPico
      BY <2>3, <3>1
    <3>2. CASE j \in DOMAIN toPico
      <4>1. i \in DOMAIN toPico
        <5>1. i \in Nat /\ j \in Nat
          BY <1>7, LenProperties
        <5> QED BY <1>7, <2>4, <3>2, <5>1
      <4> QED BY <1>7, <1>10, <2>2, <2>4, <3>2, <4>1
    <3> QED BY <3>1, <3>2
  <2>5. Shown' => HasBegun /\ Shown
    BY <1>3, <1>4, <1>6, <1>10, <2>1 DEF Shown, Own
  <2>6. Shown' =>
          /\ \A i \in DOMAIN toPico' : toPico'[i].op # "junk" => OfExchange(x, toPico'[i])
          /\ pico'.cache # <<>> => OfExchange(x, pico'.cache[Len(pico'.cache)])
    BY <1>3, <1>7, <2>2, <2>3, <2>5
  <2>7. /\ \A i, j \in DOMAIN toGateway :
             i < j /\ OfExchange(x, toGateway[i]) /\ toGateway[j].sid = x.sid
             => OfExchange(x, toGateway[j])
        /\ y.answered # {} =>
             \A i \in DOMAIN toGateway : toGateway[i].sid = x.sid => OfExchange(x, toGateway[i])
    BY <1>4, <1>10, <2>2
  <2>8. toGateway' = toGateway /\ y.sid = x.sid
    BY <1>3, <1>4
  <2> QED BY <1>6, <2>1, <2>4, <2>6, <2>7, <2>8 DEF InTurn, Own
<1>15. Genuine'
  <2>1. Finished' = Finished /\ done' = done
    BY <1>3 DEF Finished
  <2>2. ASSUME y.who \in Inputs, NEW k \in DOMAIN x.lines, Confirmed(x.lines[k])'
        PROVE  x.lines[k].unit \in Finished
    <3>1. \A m : m.sid = x.lines[k].sid /\ m.seq = x.lines[k].seq => OfExchange(x, m)
      BY <1>9 DEF OfExchange
    <3>2. HasBegun
      BY <1>3, <1>4, <1>6, <1>10, <2>2, <3>1 DEF Confirmed
    <3>3. Confirmed(x.lines[k])
      BY <1>3, <1>4, <1>6, <2>2 DEF Confirmed
    <3> QED BY <1>1, <1>4, <2>2, <3>2, <3>3 DEF Genuine
  <2> QED BY <1>1, <1>4, <1>6, <2>1, <2>2 DEF Genuine
<1>16. Fenced'
  <2>1. \A w \in DOMAIN wire' : wire'[w].who \in Inputs =>
          /\ wire'[w].gen \in Nat
          /\ \A k \in DOMAIN wire'[w].lines : wire'[w].lines[k].gen = wire'[w].gen
    BY <1>1, <1>6, <1>8 DEF Fenced
  <2>2. x.who \in Inputs => x.gen \in Nat /\ x.gen >= fence
    <3>1. CASE x.attempt = 0
      BY <1>1, <1>2, <3>1, NoneAssumption DEF NotOvertaken, Fates, Fenced
    <3>2. CASE x.attempt # 0
      BY <1>1, <1>2, <1>10, <3>2 DEF Fenced
    <3> QED BY <3>1, <3>2
  <2>3. \A i \in DOMAIN toPico' : toPico'[i].op = "input" =>
          toPico'[i].gen \in Nat /\ toPico'[i].gen >= fence
    <3>1. ASSUME NEW i \in DOMAIN toPico', i \notin DOMAIN toPico, toPico'[i].op = "input"
          PROVE  toPico'[i].gen \in Nat /\ toPico'[i].gen >= fence
      <4>1. PICK k \in DOMAIN x.lines : toPico'[i] = x.lines[k]
        BY <1>7, <3>1
      <4>2. x.who \in Inputs /\ x.lines[k].gen = x.gen
        BY <1>1, <1>2, <3>1, <4>1 DEF Numbered, Fenced
      <4> QED BY <2>2, <4>1, <4>2
    <3> QED BY <1>1, <1>7, <3>1 DEF Fenced
  <2> QED BY <1>3, <1>4, <1>6, <2>1, <2>2, <2>3 DEF Fenced
<1>17. Present'
  <2>1. \A w \in DOMAIN wire' : wire'[w].who = "handshake" => w = Len(wire')
    <3>1. Len(wire') = Len(wire)
      BY <1>1, <1>3, <1>4, ExceptSeq DEF Typed
    <3> QED BY <1>1, <1>6, <1>8, <3>1 DEF Present
  <2>2. ASSUME link'.phase = "handshake", NEW i \in DOMAIN toPico', toPico'[i].sid = link'.sid
        PROVE  toPico'[i].seq = 0
    <3>1. CASE i \in DOMAIN toPico
      BY <1>1, <1>3, <1>7, <2>2, <3>1 DEF Present
    <3>2. CASE i \notin DOMAIN toPico
      <4>1. PICK k \in DOMAIN x.lines : toPico'[i] = x.lines[k]
        BY <1>7, <3>2
      <4>2. x.who = "handshake"
        BY <1>1, <1>2, <1>3, <1>9, <2>2, <4>1 DEF Present
      <4> QED BY <1>1, <1>2, <4>1, <4>2 DEF Distinct
    <3> QED BY <3>1, <3>2
  <2> QED BY <1>1, <1>3, <1>6, <1>8, <2>1, <2>2 DEF Present
<1> QED BY <1>11, <1>12, <1>13, <1>14, <1>15, <1>16, <1>17 DEF Traces

(* An answer is read. *)
LEMMA ReadTraces == ASSUME IInv, IInv', Traces, ReadLine PROVE Traces'
<1> DEFINE m == toGateway[1]
           x == wire[1]
<1>1. /\ Distinct /\ Unseen /\ Mine /\ InTurn /\ Genuine /\ Fenced /\ Present
      /\ Typed /\ OneAtATime
  BY DEF Traces, IInv
<1>0. toGateway # <<>> /\ Head(toGateway) = m
  <2>1. toGateway # <<>>
    BY DEF ReadLine
  <2> QED BY <1>1, <2>1, NotEmpty DEF Typed
<1>2. /\ toGateway # <<>> /\ toGateway' = Tail(toGateway)
      /\ wire' = IF IsMine(m) /\ Awaited(m)
                 THEN [wire EXCEPT ![1].answered = @ \cup {m.seq},
                                   ![1].nacked = @ \/ m.kind = "nack"]
                 ELSE wire
      /\ UNCHANGED <<sequence, done, toPico, pico, executed, fence>>
  BY <1>0 DEF ReadLine, callers, history
<1>3. m \in MessageType /\ 1 \in DOMAIN toGateway
  BY <1>1, <1>2, NotEmpty DEF Typed
<1>4. /\ link'.ready => link.ready
      /\ link'.sid = link.sid /\ link'.phase = link.phase
  <2> DEFINE a == link.acknowledged \/ (IsMine(m) /\ m.kind = "ack" /\ m.seq = 0)
  <2>1. /\ link' = IF IsFatal(m) THEN [Unhealthy(link) EXCEPT !.reading = FALSE]
                   ELSE [link EXCEPT !.acknowledged = a]
        /\ a \in BOOLEAN
    BY <1>0, <1>1 DEF ReadLine, Typed, LinkType
  <2> HIDE DEF a, m
  <2> QED BY <2>1, LinkRead
<1>5. Among(toPico', toPico) /\ Among(toGateway', toGateway)
  BY <1>1, <1>2, AmongItself, AmongTail DEF Typed
<1>6. CASE ~(IsMine(m) /\ Awaited(m))
  <2>1. wire' = wire
    BY <1>2, <1>6
  <2> DEFINE f == [w \in DOMAIN wire |-> w]
  <2>2. /\ f \in [DOMAIN wire' -> DOMAIN wire]
        /\ \A w \in DOMAIN wire' : f[w] = w
    BY <2>1
  <2> HIDE DEF f, m
  <2>3. /\ \A c \in Inputs : \A i \in 1..done'[c] : <<c, i>> \in Finished
        /\ \A i \in DOMAIN toPico' : toPico'[i].op = "input" => toPico'[i].gen >= fence'
        /\ HasBegun' /\ wire'[1].who \in Inputs => wire'[1].gen >= fence'
        /\ HasBegun' => HasBegun /\ wire'[1] = wire[1]
        /\ link'.ready => \A w \in DOMAIN wire' : wire'[w].sid = link'.sid
        /\ \A w \in DOMAIN wire' : wire'[w].who = "handshake" => w = Len(wire')
    BY <1>1, <1>2, <1>4, <2>1 DEF Genuine, Fenced, HasBegun, Present
  <2> QED BY <1>2, <1>4, <1>5, <2>1, <2>2, <2>3, QuietTraces
<1>7. CASE IsMine(m) /\ Awaited(m)
  <2> DEFINE s == x.answered \cup {m.seq}
             k == x.nacked \/ m.kind = "nack"
             y == [x EXCEPT !.answered = s, !.nacked = k]
  <2>1. /\ wire # <<>> /\ Head(wire).attempt > 0 /\ m.sid = link.sid /\ Head(wire).sid = link.sid
        /\ \E i \in DOMAIN Head(wire).lines : Head(wire).lines[i].seq = m.seq
        /\ m.kind \in {"ack", "nack"}
    BY <1>7 DEF Awaited, SameSession, IsMine
  <2>2. Head(wire) = x /\ 1 \in DOMAIN wire /\ x \in ExchangeType
    BY <1>1, <2>1, NotEmpty DEF Typed
  <2>3. wire' = [wire EXCEPT ![1] = y]
    BY <1>2, <1>7, <2>2 DEF ExchangeType
  <2>4. k \in BOOLEAN /\ s \in SUBSET Nat
    BY <1>3, <2>2 DEF ExchangeType, MessageType
  <2>5. s = x.answered \cup {m.seq} /\ k = (x.nacked \/ m.kind = "nack")
    OBVIOUS
  <2> HIDE DEF k, s
  <2>6. /\ y \in ExchangeType /\ y.who = x.who /\ y.sid = x.sid /\ y.lines = x.lines
        /\ y.attempt = x.attempt /\ y.gen = x.gen /\ y.answered = s /\ y.nacked = k
    BY <2>2, <2>4 DEF ExchangeType
  <2> HIDE DEF y
  <2>7. /\ DOMAIN wire' = DOMAIN wire /\ wire'[1] = y /\ Len(wire') = Len(wire)
        /\ \A i \in DOMAIN wire : i # 1 => wire'[i] = wire[i]
    <3>1. wire \in Seq(ExchangeType)
      BY <1>1 DEF Typed
    <3>2. y \in ExchangeType /\ wire # <<>>
      BY <2>1, <2>6
    <3> QED BY ONLY <2>3, <3>1, <3>2, Replaced, ExceptSeq
  <2>8. \A w \in DOMAIN wire :
          /\ wire'[w].sid = wire[w].sid /\ wire'[w].lines = wire[w].lines
          /\ wire'[w].who = wire[w].who /\ wire'[w].gen = wire[w].gen
          /\ wire'[w].attempt = wire[w].attempt
          /\ \A n : OfExchange(wire'[w], n) <=> OfExchange(wire[w], n)
    <3>1. \A w \in DOMAIN wire :
            /\ wire'[w].sid = wire[w].sid /\ wire'[w].lines = wire[w].lines
            /\ wire'[w].who = wire[w].who /\ wire'[w].gen = wire[w].gen
            /\ wire'[w].attempt = wire[w].attempt
      BY <2>6, <2>7
    <3> QED BY <3>1, OfSame
  <2>9. OfExchange(x, m) /\ HasBegun /\ HasBegun' /\ Shown
    <3>1. OfExchange(x, m)
      BY <2>1, <2>2 DEF OfExchange, NumbersOf
    <3>2. wire' # <<>>
      BY <2>2, <2>7
    <3> QED BY <1>3, <2>1, <2>2, <2>6, <2>7, <3>1, <3>2 DEF HasBegun, Shown, Own
  <2>10. /\ DOMAIN toGateway = 1..Len(toGateway) /\ Len(toGateway) \in Nat
         /\ \A i \in DOMAIN toGateway' : i \in Nat /\ i > 0 /\ i + 1 \in DOMAIN toGateway
                                          /\ toGateway'[i] = toGateway[i + 1]
    BY <1>1, <1>2, Shortened DEF Typed
  <2>11. Distinct' /\ Unseen' /\ Mine'
    <3>1. Distinct'
      BY <1>1, <2>7, <2>8 DEF Distinct
    <3>2. Unseen'
      <4> SUFFICES ASSUME NEW w \in DOMAIN wire', wire'[w].attempt = 0
                   PROVE  /\ \A i \in DOMAIN toPico' : ~OfExchange(wire'[w], toPico'[i])
                          /\ \A i \in DOMAIN toGateway' : ~OfExchange(wire'[w], toGateway'[i])
                          /\ \A i \in DOMAIN pico'.cache : ~OfExchange(wire'[w], pico'.cache[i])
        BY DEF Unseen
      <4>1. /\ w \in DOMAIN wire /\ wire[w].attempt = 0
            /\ \A n : OfExchange(wire'[w], n) <=> OfExchange(wire[w], n)
        BY <2>7, <2>8
      <4>2. /\ \A i \in DOMAIN toPico : ~OfExchange(wire[w], toPico[i])
            /\ \A i \in DOMAIN toGateway : ~OfExchange(wire[w], toGateway[i])
            /\ \A i \in DOMAIN pico.cache : ~OfExchange(wire[w], pico.cache[i])
        BY <1>1, <4>1 DEF Unseen
      <4>3. toPico' = toPico /\ pico' = pico
        BY <1>2
      <4> HIDE DEF m, x
      <4> QED BY <2>10, <4>1, <4>2, <4>3
    <3>3. Mine'
      BY <1>1, <1>2, <2>2, <2>7, <2>8, <2>9 DEF Mine, Own
    <3> QED BY <3>1, <3>2, <3>3
  <2>12. InTurn'
    <3>1. \A n : OfExchange(y, n) <=> OfExchange(x, n)
      BY <2>6, OfSame
    <3>2. /\ \A i, j \in DOMAIN toPico :
               i < j /\ OfExchange(x, toPico[i]) /\ toPico[j].op # "junk" => OfExchange(x, toPico[j])
          /\ \A i, j \in DOMAIN toGateway :
               i < j /\ OfExchange(x, toGateway[i]) /\ toGateway[j].sid = x.sid
               => OfExchange(x, toGateway[j])
          /\ \A i \in DOMAIN toPico : toPico[i].op # "junk" => OfExchange(x, toPico[i])
          /\ pico.cache # <<>> => OfExchange(x, pico.cache[Len(pico.cache)])
      BY <1>1, <2>9 DEF InTurn, Own
    <3>3. \A i, j \in DOMAIN toGateway' :
            i < j /\ OfExchange(x, toGateway'[i]) /\ toGateway'[j].sid = x.sid
            => OfExchange(x, toGateway'[j])
      BY <2>10, <3>2
    <3>4. \A i \in DOMAIN toGateway' : toGateway'[i].sid = x.sid => OfExchange(x, toGateway'[i])
      <4>1. ASSUME NEW i \in DOMAIN toGateway', toGateway'[i].sid = x.sid
            PROVE  OfExchange(x, toGateway'[i])
        <5>1. 1 < i + 1 /\ i + 1 \in DOMAIN toGateway /\ toGateway'[i] = toGateway[i + 1]
          BY <2>10
        <5> QED BY <1>3, <2>9, <3>2, <4>1, <5>1
      <4> QED BY <4>1
    <3>5. /\ toPico' = toPico /\ pico' = pico /\ y.sid = x.sid /\ wire'[1] = y
      BY <1>2, <2>6, <2>7
    <3> HIDE DEF m, x
    <3>6. /\ \A i, j \in DOMAIN toPico' :
               i < j /\ OfExchange(y, toPico'[i]) /\ toPico'[j].op # "junk" => OfExchange(y, toPico'[j])
          /\ \A i \in DOMAIN toPico' : toPico'[i].op # "junk" => OfExchange(y, toPico'[i])
          /\ pico'.cache # <<>> => OfExchange(y, pico'.cache[Len(pico'.cache)])
      BY <3>1, <3>2, <3>5
    <3>7. /\ \A i, j \in DOMAIN toGateway' :
               i < j /\ OfExchange(y, toGateway'[i]) /\ toGateway'[j].sid = y.sid
               => OfExchange(y, toGateway'[j])
          /\ \A i \in DOMAIN toGateway' : toGateway'[i].sid = y.sid => OfExchange(y, toGateway'[i])
      BY <3>1, <3>3, <3>4, <3>5
    <3> QED BY <3>5, <3>6, <3>7 DEF InTurn, Own
  <2>13. Genuine'
    <3>1. Finished' = Finished /\ done' = done
      BY <1>2 DEF Finished
    <3>2. ASSUME y.who \in Inputs, NEW l \in DOMAIN x.lines, Confirmed(x.lines[l])'
          PROVE  x.lines[l].unit \in Finished
      <4>1. x.lines[l].sid = x.sid
        BY <2>2, Positive
      <4>2. Confirmed(x.lines[l])
        <5>1. CASE \E i \in DOMAIN toGateway' :
                     /\ toGateway'[i].kind = "ack" /\ toGateway'[i].sid = x.lines[l].sid
                     /\ toGateway'[i].seq = x.lines[l].seq
          BY <2>10, <5>1 DEF Confirmed
        <5>2. CASE \E i \in DOMAIN pico'.cache :
                     /\ pico'.cache[i].kind = "ack" /\ pico'.cache[i].sid = x.lines[l].sid
                     /\ pico'.cache[i].seq = x.lines[l].seq
          BY <1>2, <5>2 DEF Confirmed
        <5>3. CASE x.lines[l].seq \in s /\ ~k
          <6>1. CASE x.lines[l].seq \in x.answered
            BY <2>5, <5>3, <6>1 DEF Confirmed
          <6>2. CASE x.lines[l].seq = m.seq
            BY <1>3, <2>1, <2>2, <2>5, <4>1, <5>3, <6>2 DEF Confirmed
          <6> QED BY <2>5, <5>3, <6>1, <6>2
        <5> QED BY <2>6, <2>7, <3>2, <5>1, <5>2, <5>3 DEF Confirmed
      <4> QED BY <1>1, <2>6, <2>9, <3>2, <4>2 DEF Genuine
    <3> QED BY <1>1, <2>6, <2>7, <3>1, <3>2 DEF Genuine
  <2>14. Fenced'
    BY <1>1, <1>2, <2>2, <2>7, <2>8, <2>9 DEF Fenced
  <2>15. Present'
    BY <1>1, <1>2, <1>4, <2>7, <2>8, <2>10 DEF Present
  <2> QED BY <2>11, <2>12, <2>13, <2>14, <2>15 DEF Traces
<1> QED BY <1>6, <1>7

(* The Pico answers the first line m is the answer, which is remembered. *)
LEMMA AnswerTraces ==
  ASSUME IInv, JInv, Traces, toPico # <<>>, toPico' = Tail(toPico), toPico[1].op # "junk",
         UNCHANGED <<link, sequence, done, wire, fence>>,
         NEW m \in MessageType, m.sid = toPico[1].sid, m.seq = toPico[1].seq,
         toGateway' = Append(toGateway, m),
         \/ pico'.cache = pico.cache /\ \E j \in DOMAIN pico.cache : m = pico.cache[j]
         \/ /\ pico'.cache = Remembered(pico.cache, m) \/ pico'.cache = Remembered(<<>>, m)
            /\ m.kind = "ack" /\ toPico[1].op = "input" => toPico[1].unit \in Finished',
         Finished \subseteq Finished'
  PROVE  Traces'
<1> DEFINE line == toPico[1]
           x == wire[1]
           fresh == pico'.cache = Remembered(pico.cache, m) \/ pico'.cache = Remembered(<<>>, m)
<1>1. /\ Distinct /\ Unseen /\ Mine /\ InTurn /\ Genuine /\ Fenced /\ Present
      /\ Typed /\ Numbered /\ Limited
  BY DEF Traces, IInv, JInv
<1>2. /\ 1 \in DOMAIN toPico /\ DOMAIN toPico = 1..Len(toPico) /\ Len(toPico) \in Nat
      /\ \A i \in DOMAIN toPico' : i \in Nat /\ i > 0 /\ i + 1 \in DOMAIN toPico
                                    /\ toPico'[i] = toPico[i + 1]
  <2>1. /\ 1 \in DOMAIN toPico /\ DOMAIN toPico = 1..Len(toPico) /\ Len(toPico) \in Nat
        /\ DOMAIN toPico' = 1..(Len(toPico) - 1)
        /\ \A i \in DOMAIN toPico' : i + 1 \in DOMAIN toPico /\ toPico'[i] = toPico[i + 1]
    BY <1>1, NotEmpty, Shortened DEF Typed
  <2> QED BY <2>1
<1>3. /\ DOMAIN toGateway = 1..Len(toGateway) /\ Len(toGateway) \in Nat
      /\ DOMAIN toGateway' = DOMAIN toGateway \cup {Len(toGateway) + 1}
      /\ \A i \in DOMAIN toGateway : toGateway'[i] = toGateway[i]
      /\ toGateway'[Len(toGateway) + 1] = m
  BY <1>1, Appended, LenProperties DEF Typed
<1>4. /\ \A i \in DOMAIN pico'.cache :
           (\E j \in DOMAIN pico.cache : pico'.cache[i] = pico.cache[j]) \/ pico'.cache[i] = m
      /\ fresh => pico'.cache # <<>> /\ pico'.cache[Len(pico'.cache)] = m
  <2>1. /\ pico.cache \in Seq(MessageType) /\ Len(pico.cache) <= CacheSize
        /\ <<>> \in Seq(MessageType) /\ Len(<<>>) <= CacheSize
    BY <1>1, TypedParts, SerialAssumption DEF Limited
  <2>2. ASSUME NEW c \in Seq(MessageType), Len(c) <= CacheSize
        PROVE  /\ Remembered(c, m) # <<>>
               /\ Remembered(c, m)[Len(Remembered(c, m))] = m
               /\ \A i \in DOMAIN Remembered(c, m) :
                    (\E j \in DOMAIN c : Remembered(c, m)[i] = c[j]) \/ Remembered(c, m)[i] = m
    <3>1. PICK t \in Seq(MessageType) : Remembered(c, m) = Append(t, m)
      <4>1. CASE Len(c) = CacheSize
        <5>1. c # <<>>
          BY <4>1, SerialAssumption
        <5>2. Tail(c) \in Seq(MessageType)
          BY <5>1, Shortened
        <5> QED BY <4>1, <5>2 DEF Remembered
      <4>2. CASE Len(c) # CacheSize
        BY <4>2 DEF Remembered
      <4> QED BY <4>1, <4>2
    <3>2. /\ Len(Append(t, m)) = Len(t) + 1 /\ Append(t, m)[Len(t) + 1] = m
          /\ DOMAIN Append(t, m) = DOMAIN t \cup {Len(t) + 1}
      BY Appended
    <3>3. Append(t, m) # <<>>
      <4>1. Len(t) \in Nat
        BY LenProperties
      <4> QED BY <3>2, <4>1
    <3> QED BY <2>2, <3>1, <3>2, <3>3, RememberedIs
  <2>3. \A i \in DOMAIN <<>> : FALSE
    OBVIOUS
  <2>4. CASE pico'.cache = Remembered(pico.cache, m)
    BY <2>1, <2>2, <2>4
  <2>5. CASE pico'.cache = Remembered(<<>>, m)
    BY <2>1, <2>2, <2>3, <2>5
  <2> QED BY <2>4, <2>5
<1>5. \A w \in DOMAIN wire : OfExchange(wire[w], m) <=> OfExchange(wire[w], line)
  BY DEF OfExchange
<1>6. HasBegun' = HasBegun /\ wire'[1] = x /\ (HasBegun => 1 \in DOMAIN wire)
  BY Positive DEF HasBegun
<1>7. fresh \/ (pico'.cache = pico.cache /\ \E j \in DOMAIN pico.cache : m = pico.cache[j])
  OBVIOUS
<1>16. m.seq = line.seq
  OBVIOUS
<1> HIDE DEF line, x, fresh
<1>9. Distinct'
  BY <1>1 DEF Distinct
<1>10. Unseen'
  <2> SUFFICES ASSUME NEW w \in DOMAIN wire, wire[w].attempt = 0
               PROVE  /\ \A i \in DOMAIN toPico' : ~OfExchange(wire[w], toPico'[i])
                      /\ \A i \in DOMAIN toGateway' : ~OfExchange(wire[w], toGateway'[i])
                      /\ \A i \in DOMAIN pico'.cache : ~OfExchange(wire[w], pico'.cache[i])
    BY DEF Unseen
  <2>1. /\ \A i \in DOMAIN toPico : ~OfExchange(wire[w], toPico[i])
        /\ \A i \in DOMAIN toGateway : ~OfExchange(wire[w], toGateway[i])
        /\ \A i \in DOMAIN pico.cache : ~OfExchange(wire[w], pico.cache[i])
    BY <1>1 DEF Unseen
  <2>2. ~OfExchange(wire[w], m)
    BY <1>2, <1>5, <2>1 DEF line
  <2> QED BY <1>2, <1>3, <1>4, <2>1, <2>2
<1>11. Mine'
  BY <1>1, <1>2, <1>6 DEF Mine, Own, x
<1>12. InTurn'
  <2> SUFFICES ASSUME HasBegun PROVE InTurn'
    BY <1>6 DEF InTurn
  <2>1. TurnOf(x)
    BY <1>1 DEF InTurn, Own, TurnOf, x
  <2> USE DEF TurnOf
  <2>2. OfExchange(x, m) <=> OfExchange(x, line)
    BY <1>5, <1>6 DEF x
  <2>3. Shown => OfExchange(x, m)
    BY <1>2, <2>1, <2>2 DEF line
  <2>4. \A i, j \in DOMAIN toPico' :
          i < j /\ OfExchange(x, toPico'[i]) /\ toPico'[j].op # "junk" => OfExchange(x, toPico'[j])
    BY <1>2, <2>1
  <2>5. ASSUME NEW i \in DOMAIN toGateway', NEW j \in DOMAIN toGateway', i < j,
               OfExchange(x, toGateway'[i]), toGateway'[j].sid = x.sid
        PROVE  OfExchange(x, toGateway'[j])
    <3>1. CASE j \in DOMAIN toGateway
      <4>1. i \in DOMAIN toGateway
        BY <1>3, <2>5, <3>1
      <4> QED BY <1>3, <2>1, <2>5, <3>1, <4>1
    <3>2. CASE j \notin DOMAIN toGateway
      <4>1. i \in DOMAIN toGateway /\ toGateway'[j] = m
        BY <1>3, <2>5, <3>2
      <4>2. Shown
        BY <1>3, <2>5, <4>1 DEF Shown, Own, x
      <4> QED BY <2>3, <4>1, <4>2
    <3> QED BY <3>1, <3>2
  <2>6. Shown' => OfExchange(x, m)
    <3>1. Shown' => Shown \/ OfExchange(x, m)
      BY <1>3, <1>4, <1>6 DEF Shown, Own, x
    <3> QED BY <2>3, <3>1
  <2>7. OfExchange(x, m) =>
          /\ \A i \in DOMAIN toPico' : toPico'[i].op # "junk" => OfExchange(x, toPico'[i])
          /\ pico'.cache # <<>> => OfExchange(x, pico'.cache[Len(pico'.cache)])
    <3> SUFFICES ASSUME OfExchange(x, m)
                 PROVE  /\ \A i \in DOMAIN toPico' : toPico'[i].op # "junk" => OfExchange(x, toPico'[i])
                        /\ pico'.cache # <<>> => OfExchange(x, pico'.cache[Len(pico'.cache)])
      OBVIOUS
    <3>1. ASSUME NEW i \in DOMAIN toPico', toPico'[i].op # "junk"
          PROVE  OfExchange(x, toPico'[i])
      <4>1. 1 < i + 1 /\ i + 1 \in DOMAIN toPico /\ toPico'[i] = toPico[i + 1]
        BY <1>2
      <4> QED BY <1>2, <2>1, <2>2, <3>1, <4>1 DEF line
    <3>2. CASE fresh
      BY <1>4, <3>1, <3>2
    <3>3. CASE pico'.cache = pico.cache /\ \E j \in DOMAIN pico.cache : m = pico.cache[j]
      <4>1. Shown
        BY <3>3 DEF Shown, Own, x
      <4> QED BY <2>1, <3>1, <3>3, <4>1
    <3> QED BY <1>7, <3>2, <3>3
  <2>8. x.answered # {} =>
          \A i \in DOMAIN toGateway' : toGateway'[i].sid = x.sid => OfExchange(x, toGateway'[i])
    <3>1. x.answered # {} => Shown
      BY DEF Shown, x
    <3> QED BY <1>3, <2>1, <2>3, <3>1
  <2> QED BY <1>6, <2>4, <2>5, <2>6, <2>7, <2>8 DEF InTurn, Own
<1>13. Genuine'
  <2>1. \A c \in Inputs : \A i \in 1..done'[c] : <<c, i>> \in Finished'
    BY <1>1 DEF Genuine
  <2>2. ASSUME HasBegun, x.who \in Inputs, NEW k \in DOMAIN x.lines, Confirmed(x.lines[k])'
        PROVE  x.lines[k].unit \in Finished'
    <3> DEFINE l == x.lines[k]
    <3>1. CASE Confirmed(l)
      BY <1>1, <2>2, <3>1 DEF Genuine, x
    <3>2. CASE ~Confirmed(l)
      <4>1. m.kind = "ack" /\ m.sid = l.sid /\ m.seq = l.seq
        BY <1>3, <1>4, <1>6, <2>2, <3>2 DEF Confirmed, x
      <4>2. ~(pico'.cache = pico.cache /\ \E j \in DOMAIN pico.cache : m = pico.cache[j])
        BY <3>2, <4>1 DEF Confirmed
      <4>3. OfExchange(x, line)
        <5>1. l.sid = x.sid
          BY <1>6, <2>2, Positive DEF x
        <5> QED BY <2>2, <4>1, <5>1 DEF OfExchange, NumbersOf, line
      <4>4. PICK n \in DOMAIN x.lines : line = x.lines[n]
        BY <1>1, <1>2, <2>2, <4>3 DEF Mine, Own, x, line
      <4>5. n = k
        <5>1. x.lines[n].seq = x.lines[k].seq
          BY <1>16, <4>1, <4>4
        <5>2. x = wire[1] /\ 1 \in DOMAIN wire
          BY <1>6, <2>2 DEF x
        <5> QED BY <1>1, <4>4, <5>1, <5>2 DEF Distinct
      <4>6. l.op = "input"
        BY <1>1, <1>6, <2>2 DEF Numbered, x
      <4> QED BY <4>1, <4>2, <4>4, <4>5, <4>6 DEF line
    <3> QED BY <3>1, <3>2
  <2>3. ASSUME HasBegun', wire'[1].who \in Inputs, NEW k \in DOMAIN wire'[1].lines,
               Confirmed(wire[1].lines[k])'
        PROVE  wire'[1].lines[k].unit \in Finished'
    BY <1>6, <2>2, <2>3 DEF x
  <2> QED BY <2>1, <2>3 DEF Genuine
<1>14. Fenced'
  BY <1>1, <1>2, <1>6 DEF Fenced, x
<1>15. Present'
  <2> SUFFICES ASSUME link.phase = "handshake"
               PROVE  /\ \A i \in DOMAIN toPico' : toPico'[i].sid = link.sid => toPico'[i].seq = 0
                      /\ \A i \in DOMAIN toGateway' : toGateway'[i].sid = link.sid => toGateway'[i].seq = 0
                      /\ \A i \in DOMAIN pico'.cache : pico'.cache[i].sid = link.sid => pico'.cache[i].seq = 0
    BY <1>1 DEF Present
  <2>1. m.sid = link.sid => m.seq = 0
    BY <1>1, <1>2 DEF Present
  <2> QED BY <1>1, <1>2, <1>3, <1>4, <2>1 DEF Present
<1> QED BY <1>9, <1>10, <1>11, <1>12, <1>13, <1>14, <1>15 DEF Traces

(* The wire stays as it is, and nothing is written or answered. *)
LEMMA StillTraces ==
  ASSUME IInv, IInv', Traces,
         Among(toPico', toPico), Among(toGateway', toGateway),
         pico'.cache \in {pico.cache, <<>>},
         UNCHANGED <<sequence, done, wire, executed, fence>>,
         link'.ready => link.ready, link'.sid = link.sid, link'.phase = link.phase
  PROVE  Traces'
<1> DEFINE f == [w \in DOMAIN wire |-> w]
<1>1. /\ f \in [DOMAIN wire' -> DOMAIN wire]
      /\ \A w \in DOMAIN wire' : f[w] = w
  OBVIOUS
<1> HIDE DEF f
<1>2. /\ HasBegun' => HasBegun /\ wire'[1] = wire[1]
      /\ \A c \in Inputs : \A i \in 1..done'[c] : <<c, i>> \in Finished
      /\ HasBegun' /\ wire'[1].who \in Inputs => wire'[1].gen >= fence'
      /\ link'.ready => \A w \in DOMAIN wire' : wire'[w].sid = link'.sid
      /\ \A w \in DOMAIN wire' : wire'[w].who = "handshake" => w = Len(wire')
  BY DEF Traces, HasBegun, Genuine, Fenced, Present
<1>3. ASSUME NEW i \in DOMAIN toPico', toPico'[i].op = "input"
      PROVE  toPico'[i].gen >= fence'
  <2>1. toPico'[i].sid # 0
    <3>1. \A n \in 1..link'.sessions : n # 0
      BY DEF IInv, Typed, LinkType
    <3> QED BY <1>3, <3>1 DEF IInv, Addressed
  <2>2. PICK p \in DOMAIN toPico : toPico'[i] = toPico[p]
    BY <2>1 DEF Among
  <2> QED BY <1>3, <2>2 DEF Traces, Fenced
<1> QED BY <1>1, <1>2, <1>3, QuietTraces

LEMMA CallerTraces ==
  ASSUME IInv, IInv', Traces, NEW c \in Callers,
         \/ Call(c) \/ CallRelease(c) \/ WaitReadyFails(c) \/ EnterPublic(c)
         \/ SendPieces(c) /\ UNCHANGED <<wire, sequence>>
  PROVE  Traces'
<1>1. UNCHANGED <<sequence, done, wire, toPico, toGateway, pico, executed, fence>>
  BY DEF Call, CallRelease, WaitReadyFails, EnterPublic, SendPieces, uart, history
<1>2. link'.ready = link.ready /\ link'.sid = link.sid /\ link'.phase = link.phase
  BY DEF Call, CallRelease, WaitReadyFails, EnterPublic, SendPieces, IInv, Typed, LinkType
<1> QED BY <1>1, <1>2, AmongItself, StillTraces

(* The Pico drops the session by itself, or a line is lost. *)
LEMMA PicoGoneIs ==
  ASSUME IInv, PicoReleases \/ PicoRestarts
  PROVE  /\ UNCHANGED <<link, sequence, pc, done, wire, executed, fence>>
         /\ pico'.cache \in {pico.cache, <<>>}
         /\ Among(toPico', toPico) /\ Among(toGateway', toGateway)
<1>1. UNCHANGED <<link, sequence, pc, done, wire, toPico, executed, fence>>
  BY DEF PicoReleases, PicoRestarts, callers, history
<1>2. pico'.cache \in {pico.cache, <<>>}
  <2>1. CASE PicoReleases
    BY <2>1 DEF PicoReleases, IInv, Typed, PicoType
  <2>2. CASE PicoRestarts
    BY <2>2 DEF PicoRestarts
  <2> QED BY <2>1, <2>2
<1>3. Among(toGateway', toGateway)
  <2>1. toGateway \in Seq(MessageType)
    BY DEF IInv, Typed
  <2>2. ASSUME NEW kind \in {"released", "restarted"}, toGateway' = Append(toGateway, Message(kind, 0, 0))
        PROVE  Among(toGateway', toGateway)
    <3>1. Message(kind, 0, 0) \in MessageType /\ Message(kind, 0, 0).sid = 0
      BY DEF Message, MessageType
    <3> HIDE DEF Message
    <3> QED BY <2>1, <2>2, <3>1, AmongAppended
  <2> QED BY <2>2 DEF PicoReleases, PicoRestarts
<1> QED BY <1>1, <1>2, <1>3, AmongItself

LEMMA UartFaultIs ==
  ASSUME IInv, UartFault
  PROVE  /\ UNCHANGED <<link, sequence, pc, done, wire, executed, fence, pico>>
         /\ Among(toPico', toPico) /\ Among(toGateway', toGateway)
<1>1. UNCHANGED <<link, sequence, pc, done, wire, pico, executed, fence>>
  BY DEF UartFault, Loses, callers, history
<1>2. toPico \in Seq(LineType) /\ toGateway \in Seq(MessageType)
  BY DEF IInv, Typed
<1>3. /\ Spoilt \in LineType /\ Spoilt.sid = 0
      /\ Message("junk", 0, 0) \in MessageType /\ Message("junk", 0, 0).sid = 0
  BY DEF Spoilt, Line, LineType, Message, MessageType
<1> HIDE DEF Spoilt, Message
<1>4. Among(toPico', toPico) /\ Among(toGateway', toGateway)
  <2>1. CASE Loses(toPico, toPico', Spoilt) /\ UNCHANGED toGateway
    <3>1. /\ toPico # <<>> /\ Among(toGateway', toGateway)
          /\ toPico' = Tail(toPico) \/ toPico' = [toPico EXCEPT ![1] = Spoilt]
      BY <2>1, AmongItself DEF Loses
    <3>2. Among(Tail(toPico), toPico)
      BY <1>2, <3>1, AmongTail
    <3>3. Among([toPico EXCEPT ![1] = Spoilt], toPico)
      BY <1>2, <1>3, <3>1, AmongReplaced
    <3> QED BY <3>1, <3>2, <3>3
  <2>2. CASE Loses(toGateway, toGateway', Message("junk", 0, 0)) /\ UNCHANGED toPico
    <3>1. /\ toGateway # <<>> /\ Among(toPico', toPico)
          /\ \/ toGateway' = Tail(toGateway)
             \/ toGateway' = [toGateway EXCEPT ![1] = Message("junk", 0, 0)]
      BY <2>2, AmongItself DEF Loses
    <3>2. Among(Tail(toGateway), toGateway)
      BY <1>2, <3>1, AmongTail
    <3>3. Among([toGateway EXCEPT ![1] = Message("junk", 0, 0)], toGateway)
      BY <1>2, <1>3, <3>1, AmongReplaced
    <3> QED BY <3>1, <3>2, <3>3
  <2> QED BY <2>1, <2>2 DEF UartFault
<1> QED BY <1>1, <1>4

LEMMA PicoGoneTraces ==
  ASSUME IInv, IInv', Traces, PicoReleases \/ PicoRestarts PROVE Traces'
BY PicoGoneIs, StillTraces

LEMMA UartFaultTraces == ASSUME IInv, IInv', Traces, UartFault PROVE Traces'
BY UartFaultIs, StillTraces

(* The Pico answers the next line with m, which it remembers or remembered. *)
PicoAnswers ==
  \E m \in MessageType :
    /\ m.sid = toPico[1].sid /\ m.seq = toPico[1].seq /\ toPico[1].op # "junk"
    /\ toGateway' = Append(toGateway, m) /\ Finished \subseteq Finished'
    /\ \/ pico'.cache = pico.cache /\ \E j \in DOMAIN pico.cache : m = pico.cache[j]
       \/ /\ pico'.cache = Remembered(pico.cache, m) \/ pico'.cache = Remembered(<<>>, m)
          /\ m.kind = "ack" /\ toPico[1].op = "input" => toPico[1].unit \in Finished'

LEMMA PicoReadsIs ==
  ASSUME IInv, PicoReads
  PROVE  /\ toPico # <<>> /\ toPico' = Tail(toPico)
         /\ UNCHANGED <<link, sequence, pc, done, wire, fence>>
         /\ \/ /\ pico'.cache = pico.cache /\ executed' = executed
               /\ Among(toGateway', toGateway) /\ Among(toPico', toPico)
            \/ PicoAnswers
<1> DEFINE line == toPico[1]
<1>1. /\ toPico # <<>> /\ toPico' = Tail(toPico)
      /\ UNCHANGED <<link, sequence, pc, done, wire, fence>>
  BY DEF PicoReads, callers
<1>2. /\ Head(toPico) = line /\ 1 \in DOMAIN toPico /\ line \in LineType
      /\ toPico \in Seq(LineType) /\ toGateway \in Seq(MessageType) /\ pico \in PicoType
  BY <1>1, LineTaken DEF IInv, Typed
<1>3. line # Spoilt => line.op # "junk"
  BY <1>2 DEF IInv, Sorted
<1>4. CASE line = Spoilt /\ Malformed
  <2> DEFINE e == Message("bare", 0, 0)
  <2>1. pico'.cache = pico.cache /\ UNCHANGED executed /\ toGateway' = Append(toGateway, e)
    BY <1>2, <1>4 DEF Malformed, PicoType
  <2>2. e \in MessageType /\ e.sid = 0
    BY DEF Message, MessageType
  <2> HIDE DEF e
  <2>3. Among(toPico', toPico) /\ Among(toGateway', toGateway)
    BY <1>1, <1>2, <2>1, <2>2, AmongTail, AmongAppended
  <2> QED BY <1>1, <2>1, <2>3
<1>5. CASE line # Spoilt /\ Repeat(line)
  <2>1. PICK j \in DOMAIN pico.cache :
          /\ pico.cache[j].sid = line.sid /\ pico.cache[j].seq = line.seq
          /\ toGateway' = Append(toGateway, pico.cache[j])
    BY <1>5 DEF Repeat, Cached
  <2>2. UNCHANGED <<pico, executed>> /\ Finished' = Finished /\ pico.cache[j] \in MessageType
    BY <1>5, TypedParts DEF Repeat, Finished
  <2> QED BY <1>1, <1>3, <1>5, <2>1, <2>2 DEF PicoAnswers
<1>6. ASSUME line # Spoilt, NEW kind \in {"ack", "nack"}, NEW p, Replies(line, kind, p),
             p.cache \in {pico.cache, <<>>}, p \in PicoType,
             \/ executed' = executed /\ (kind = "ack" => line.op # "input")
             \/ executed' = Append(executed, line)
      PROVE  PicoAnswers
  <2> DEFINE m == Message(kind, line.sid, line.seq)
  <2>1. m \in MessageType /\ m.sid = line.sid /\ m.seq = line.seq /\ m.kind = kind
    BY <1>2, <1>6 DEF Message, MessageType, LineType
  <2>2. toGateway' = Append(toGateway, m) /\ pico'.cache = Remembered(p.cache, m)
    BY <1>6 DEF Replies, PicoType
  <2> HIDE DEF m
  <2>3. Finished \subseteq Finished' /\ (kind = "ack" /\ line.op = "input" => line.unit \in Finished')
    <3>1. CASE executed' = executed /\ (kind = "ack" => line.op # "input")
      BY <3>1 DEF Finished
    <3>2. CASE executed' = Append(executed, line)
      <4>1. executed \in Seq(LineType)
        BY DEF IInv, Typed
      <4>2. /\ DOMAIN executed' = DOMAIN executed \cup {Len(executed) + 1}
            /\ \A i \in DOMAIN executed : executed'[i] = executed[i]
            /\ executed'[Len(executed) + 1] = line
        BY <1>2, <3>2, <4>1, Appended
      <4> QED BY <4>2 DEF Finished
    <3> QED BY <1>6, <3>1, <3>2
  <2> QED BY <1>3, <1>6, <2>1, <2>2, <2>3 DEF PicoAnswers
<1>7. CASE line # Spoilt /\ OpenSession(line)
  <2>1. NewSession(line) \in PicoType /\ NewSession(line).cache = <<>>
    BY <1>2 DEF NewSession, PicoType, LineType
  <2>2. Replies(line, "ack", NewSession(line)) /\ executed' = executed /\ line.op # "input"
    BY <1>7 DEF OpenSession
  <2> QED BY <1>1, <1>6, <1>7, <2>1, <2>2
<1>8. CASE line # Spoilt /\ Refuse(line)
  <2>1. /\ [pico EXCEPT !.sid = 0, !.down = {}] \in PicoType
        /\ [pico EXCEPT !.sid = 0, !.down = {}].cache = pico.cache
    BY <1>2 DEF PicoType
  <2>2. Replies(line, "nack", [pico EXCEPT !.sid = 0, !.down = {}]) /\ executed' = executed
    BY <1>8 DEF Refuse
  <2> QED BY <1>1, <1>6, <1>8, <2>1, <2>2
<1>9. CASE line # Spoilt /\ Execute(line)
  <2>1. /\ [pico EXCEPT !.down = {}] \in PicoType
        /\ [pico EXCEPT !.down = {}].cache = pico.cache
        /\ [pico EXCEPT !.down = @ \cup {line}] \in PicoType
        /\ [pico EXCEPT !.down = @ \cup {line}].cache = pico.cache
    BY <1>2 DEF PicoType
  <2>2. CASE /\ line.op = "input" /\ executed' = Append(executed, line)
             /\ Replies(line, "ack", [pico EXCEPT !.down = @ \cup {line}])
    BY <1>1, <1>6, <1>9, <2>1, <2>2
  <2>3. CASE /\ line.op = "release" /\ executed' = executed
             /\ Replies(line, "ack", [pico EXCEPT !.down = {}])
    BY <1>1, <1>6, <1>9, <2>1, <2>3
  <2>4. CASE line.op = "heartbeat" /\ executed' = executed /\ Replies(line, "ack", pico)
    BY <1>1, <1>2, <1>6, <1>9, <2>4
  <2>5. CASE executed' = executed /\ Replies(line, "nack", [pico EXCEPT !.down = {}])
    BY <1>1, <1>6, <1>9, <2>1, <2>5
  <2> QED BY <1>9, <2>2, <2>3, <2>4, <2>5 DEF Execute
<1> QED BY <1>1, <1>2, <1>4, <1>5, <1>7, <1>8, <1>9 DEF PicoReads

LEMMA PicoReadsTraces == ASSUME IInv, IInv', JInv, Traces, PicoReads PROVE Traces'
<1>1. /\ toPico # <<>> /\ toPico' = Tail(toPico)
      /\ UNCHANGED <<link, sequence, pc, done, wire, fence>>
  BY PicoReadsIs
<1>2. CASE /\ pico'.cache = pico.cache /\ executed' = executed
           /\ Among(toGateway', toGateway) /\ Among(toPico', toPico)
  BY <1>1, <1>2, StillTraces
<1>3. CASE PicoAnswers
  BY <1>1, <1>3, AnswerTraces DEF PicoAnswers
<1> QED BY <1>2, <1>3, PicoReadsIs

(* An exchange ends.  It is acknowledged only when all its lines are. *)
LEMMA EndTraces ==
  ASSUME IInv, IInv', JInv, Traces, wire # <<>>,
         NEW l \in {link, Unhealthy(link)}, NEW result \in Answers, Ends(l, result),
         result = "ok" => Answered(Head(wire)) /\ ~Head(wire).nacked,
         UNCHANGED <<sequence, toGateway, pico, executed>>,
         toPico' = toPico \/ toPico' = Append(toPico, Spoilt)
  PROVE  Traces'
<1> DEFINE x == wire[1]
<1>1. /\ Unseen /\ Mine /\ InTurn /\ Genuine /\ Fenced /\ Present
      /\ Typed /\ OneAtATime /\ Numbered
  BY DEF Traces, IInv, JInv
<1>2. Head(wire) = x /\ 1 \in DOMAIN wire /\ x \in ExchangeType
  BY <1>1, NotEmpty DEF Typed
<1>3. /\ wire' = Tail(wire) /\ Len(wire) \in Nat /\ DOMAIN wire = 1..Len(wire)
      /\ DOMAIN wire' = 1..(Len(wire) - 1) /\ Len(wire') = Len(wire) - 1
      /\ \A w \in DOMAIN wire' : w + 1 \in DOMAIN wire /\ wire'[w] = wire[w + 1]
  BY <1>1, Shortened DEF Typed, Ends
<1>4. /\ link' \in LinkType /\ link'.sid = link.sid
      /\ link'.ready => link.ready \/ x.who = "handshake"
      /\ x.who # "handshake" => link'.phase = link.phase
  BY <1>2, LinkLeft
<1>5. Spoilt \in LineType /\ Spoilt.sid = 0 /\ Spoilt.op = "junk"
  BY DEF Spoilt, Line, LineType
<1> HIDE DEF Spoilt
<1>6. Among(toPico', toPico) /\ Among(toGateway', toGateway)
  <2>1. toPico \in Seq(LineType)
    BY <1>1 DEF Typed
  <2>2. Among(Append(toPico, Spoilt), toPico)
    BY <1>5, <2>1, AmongAppended
  <2> QED BY <2>2, AmongItself
<1> DEFINE f == [w \in 1..(Len(wire) - 1) |-> w + 1]
<1>7. /\ f \in [DOMAIN wire' -> DOMAIN wire]
      /\ \A w \in DOMAIN wire' : f[w] = w + 1
      /\ \A w \in DOMAIN wire' : wire'[w] = wire[f[w]]
      /\ \A v, w \in DOMAIN wire' : f[v] = f[w] => v = w
  <2>1. \A w \in 1..(Len(wire) - 1) : w + 1 \in 1..Len(wire)
    BY <1>3
  <2>2. f \in [DOMAIN wire' -> DOMAIN wire] /\ \A w \in DOMAIN wire' : f[w] = w + 1
    BY <1>3, <2>1
  <2> HIDE DEF f
  <2>3. \A v, w \in DOMAIN wire' : v + 1 = w + 1 => v = w
    BY <1>3
  <2> QED BY <1>3, <2>2, <2>3
<1> HIDE DEF f
<1>8. ~HasBegun'
  <2> SUFFICES ASSUME wire' # <<>>, wire'[1].attempt > 0 PROVE FALSE
    BY DEF HasBegun
  <2>1. 1 \in DOMAIN wire'
    BY <1>3
  <2>2. 2 \in DOMAIN wire /\ wire'[1] = wire[2]
    BY <1>3, <2>1
  <2> QED BY <1>1, <2>2 DEF OneAtATime
<1>9. result = "ok" =>
        /\ HasBegun /\ Shown
        /\ \A k \in DOMAIN x.lines : x.lines[k].seq \in x.answered
        /\ ~x.nacked
  <2> SUFFICES ASSUME result = "ok"
               PROVE  /\ HasBegun /\ Shown
                      /\ \A k \in DOMAIN x.lines : x.lines[k].seq \in x.answered
                      /\ ~x.nacked
    OBVIOUS
  <2>1. x.attempt > 0 /\ ~x.nacked /\ \A k \in DOMAIN x.lines : x.lines[k].seq \in x.answered
    BY <1>2 DEF Answered, Pending
  <2>2. x.lines # <<>> /\ x.lines \in Seq(LineType)
    BY <1>2, TypedParts DEF IInv, Addressed
  <2>3. 1 \in DOMAIN x.lines
    BY <2>2, NotEmpty
  <2> QED BY <2>1, <2>3 DEF HasBegun, Shown
<1>10. \/ x.who = "handshake" /\ HandshakeEnds(l, result)
       \/ x.who = "heartbeat" /\ HeartbeatEnds(l, result)
       \/ x.who \in Releases /\ ReleaseEnds(x.who, l, result)
       \/ x.who \in Inputs /\ InputEnds(x.who, l, result)
  BY <1>2 DEF Ends
<1>11. ASSUME NEW c \in Inputs, NEW i \in 1..done'[c] PROVE <<c, i>> \in Finished
  <2>1. CASE i \in 1..done[c]
    BY <1>1, <2>1 DEF Genuine
  <2>2. CASE i \notin 1..done[c]
    <3>1. x.who \in Inputs /\ InputEnds(x.who, l, result)
      BY <1>10, <1>11, <2>2 DEF HandshakeEnds, HeartbeatEnds, ReleaseEnds, callers
    <3>2. result = "ok" /\ c = x.who /\ done'[c] = done[c] + Len(x.lines)
      BY <1>1, <1>2, <1>11, <2>2, <3>1 DEF InputEnds, Typed
    <3> DEFINE k == i - done[c]
    <3>3. k \in DOMAIN x.lines /\ i = done[c] + k
      <4>1. done[c] \in Nat /\ x.lines \in Seq(LineType)
        BY <1>1, <1>2, TypedParts DEF Typed
      <4>2. DOMAIN x.lines = 1..Len(x.lines) /\ Len(x.lines) \in Nat
        BY <4>1, LenProperties
      <4> QED BY <1>11, <2>2, <3>2, <4>1, <4>2
    <3> HIDE DEF k
    <3>4. x.lines[k].unit = <<c, i>>
      BY <1>1, <1>2, <3>2, <3>3 DEF Numbered
    <3>5. Confirmed(x.lines[k])
      BY <1>9, <3>2, <3>3 DEF Confirmed
    <3> QED BY <1>1, <1>9, <3>2, <3>3, <3>4, <3>5 DEF Genuine
  <2> QED BY <2>1, <2>2
<1>12. ASSUME NEW i \in DOMAIN toPico', toPico'[i].op = "input"
       PROVE  toPico'[i].gen >= fence'
  <2>1. i \in DOMAIN toPico /\ toPico'[i] = toPico[i]
    <3>1. CASE toPico' = toPico
      BY <1>12, <3>1
    <3>2. CASE toPico' = Append(toPico, Spoilt)
      BY <1>1, <1>5, <1>12, <3>2, Appended DEF Typed
    <3> QED BY <3>1, <3>2
  <2>2. CASE fence' = fence
    BY <1>1, <1>12, <2>1, <2>2 DEF Fenced
  <2>3. CASE fence' # fence
    <3>1. x.who \in Releases /\ result = "ok"
      BY <1>10, <2>3 DEF HandshakeEnds, HeartbeatEnds, ReleaseEnds, InputEnds
    <3>2. Own(toPico[i])
      BY <1>1, <1>9, <1>12, <2>1, <3>1 DEF InTurn
    <3>3. PICK k \in DOMAIN x.lines : toPico[i] = x.lines[k]
      BY <1>1, <1>9, <2>1, <3>1, <3>2 DEF Mine
    <3>4. x.who \in Inputs
      BY <1>1, <1>2, <1>12, <2>1, <3>3 DEF Numbered
    <3> QED BY <3>1, <3>4, SerialAssumption
  <2> QED BY <2>2, <2>3
<1>13. ASSUME link'.ready, NEW w \in DOMAIN wire' PROVE wire'[w].sid = link'.sid
  <2>1. x.who # "handshake"
    <3>1. w \in 1..(Len(wire) - 1)
      BY <1>3, <1>13
    <3>2. Len(wire) # 1
      BY <1>3, <3>1
    <3> QED BY <1>1, <1>2, <3>2 DEF Present
  <2> QED BY <1>1, <1>3, <1>4, <1>13, <2>1 DEF Present
<1>14. ASSUME NEW w \in DOMAIN wire', wire'[w].who = "handshake" PROVE w = Len(wire')
  <2>1. w + 1 = Len(wire)
    BY <1>1, <1>3, <1>14 DEF Present
  <2> QED BY <1>3, <2>1
<1>15. link'.phase = "handshake" => link.phase = "handshake"
  <2>1. CASE x.who # "handshake"
    BY <1>4, <2>1
  <2>2. CASE x.who = "handshake"
    <3> DEFINE m == Unhealthy(l)
    <3>1. l \in LinkType /\ m \in LinkType
      <4>1. link \in LinkType
        BY <1>1 DEF Typed
      <4>2. l \in LinkType
        BY <4>1, Unhealthier
      <4> QED BY <4>2, Unhealthier
    <3>2. link' = [l EXCEPT !.phase = "up", !.ready = TRUE] \/ link' = [m EXCEPT !.phase = "failed"]
      <4>1. HandshakeEnds(l, result)
        BY <1>10, <2>2, SerialAssumption DEF Callers
      <4> QED BY <4>1 DEF HandshakeEnds
    <3> HIDE DEF m
    <3>3. link'.phase \in {"up", "failed"}
      BY <3>1, <3>2 DEF LinkType
    <3> QED BY <3>3
  <2> QED BY <2>1, <2>2
<1> HIDE DEF x
<1>16. pico'.cache \in {pico.cache, <<>>} /\ sequence' = sequence /\ executed' = executed
  OBVIOUS
<1> QED BY ONLY IInv, IInv', Traces, <1>4, <1>6, <1>7, <1>8, <1>11, <1>12, <1>13, <1>14, <1>15, <1>16,
           QuietTraces

LEMMA GivesUpTraces ==
  ASSUME IInv, IInv', JInv, Traces, wire # <<>>,
         NEW l \in {link, Unhealthy(link)}, NEW result \in Answers, GivesUp(l, result),
         result = "ok" => Answered(Head(wire)) /\ ~Head(wire).nacked
  PROVE  Traces'
BY EndTraces DEF GivesUp, uart

LEMMA FailedWriteTraces ==
  ASSUME IInv, IInv', JInv, Traces, wire # <<>>, WriteFails PROVE Traces'
<1>1. "unknown" \in Answers
  BY DEF Answers
<1> QED BY <1>1, EndTraces DEF WriteFails

LEMMA WireTraces == ASSUME IInv, IInv', JInv, Traces, Wire PROVE Traces'
<1>1. {"interrupted", "unavailable", "unknown", "ok", "nack"} \subseteq Answers
  BY DEF Answers
<1>2. CASE FirstAttempt
  <2>1. wire # <<>> /\ Head(wire).attempt = 0
    BY <1>2 DEF FirstAttempt
  <2>2. CASE GivesUp(link, "interrupted") \/ GivesUp(link, "unavailable")
    BY <1>1, <2>1, <2>2, GivesUpTraces
  <2>3. CASE NotOvertaken(Head(wire)) /\ Write
    BY <2>1, <2>3, WriteTraces
  <2>4. CASE WriteFails
    BY <2>1, <2>4, FailedWriteTraces
  <2> QED BY <1>2, <2>2, <2>3, <2>4 DEF FirstAttempt
<1>3. CASE SecondAttempt
  <2>1. wire # <<>> /\ Head(wire).attempt = 1
    BY <1>3 DEF SecondAttempt
  <2>2. CASE GivesUp(link, "interrupted") \/ GivesUp(link, "unknown")
    BY <1>1, <2>1, <2>2, GivesUpTraces
  <2>3. CASE Write
    BY <2>1, <2>3, WriteTraces
  <2>4. CASE WriteFails
    BY <2>1, <2>4, FailedWriteTraces
  <2> QED BY <1>3, <2>2, <2>3, <2>4 DEF SecondAttempt
<1>4. CASE AckTimeout
  <2>1. wire # <<>> /\ (GivesUp(link, "interrupted") \/ GivesUp(Unhealthy(link), "unknown"))
    BY <1>4 DEF AckTimeout, AfterTimeout
  <2> QED BY <1>1, <2>1, GivesUpTraces
<1>5. CASE Complete
  <2>1. wire # <<>> /\ Answered(Head(wire))
    BY <1>5 DEF Complete
  <2>2. PICK result \in {"nack", "interrupted", "ok"} :
          GivesUp(link, result) /\ (result = "ok" => ~Head(wire).nacked)
    BY <1>5 DEF Complete
  <2> QED BY <1>1, <2>1, <2>2, GivesUpTraces
<1>6. CASE SessionEnded
  <2>1. wire # <<>>
    BY <1>6 DEF SessionEnded
  <2>2. CASE GivesUp(link, "unknown")
    BY <1>1, <2>1, <2>2, GivesUpTraces
  <2>3. CASE Ends(Unhealthy(link), "unknown") /\ UNCHANGED <<sequence, uart, pico, executed>>
    BY <1>1, <2>1, <2>3, EndTraces DEF uart
  <2> QED BY <1>6, <2>2, <2>3 DEF SessionEnded
<1> QED BY <1>2, <1>3, <1>4, <1>5, <1>6 DEF Wire

LEMMA TeardownTraces == ASSUME IInv, IInv', Traces, Teardown PROVE Traces'
<1>1. /\ Genuine /\ Fenced /\ Present /\ Typed /\ OneAtATime
  BY DEF Traces, IInv
<1>2. UNCHANGED <<sequence, done, toPico, toGateway, pico, executed, fence>>
  BY DEF Teardown, callers, uart, history
<1>3. ~link'.ready /\ link'.phase = "down"
  BY <1>1 DEF Teardown, Typed, LinkType
<1>4. link.phase # "handshake" /\ \A w \in DOMAIN wire : wire[w].who # "handshake"
  <2>1. link.phase # "handshake"
    BY DEF Teardown
  <2> QED BY <1>1, <2>1 DEF OneAtATime
<1>5. CASE wire' = wire
  <2> DEFINE f == [w \in DOMAIN wire |-> w]
  <2>1. f \in [DOMAIN wire' -> DOMAIN wire] /\ \A w \in DOMAIN wire' : f[w] = w
    BY <1>5
  <2> HIDE DEF f
  <2>2. /\ \A c \in Inputs : \A i \in 1..done'[c] : <<c, i>> \in Finished
        /\ \A i \in DOMAIN toPico' : toPico'[i].op = "input" => toPico'[i].gen >= fence'
        /\ HasBegun' /\ wire'[1].who \in Inputs => wire'[1].gen >= fence'
        /\ HasBegun' => HasBegun /\ wire'[1] = wire[1]
    BY <1>1, <1>2, <1>5 DEF Genuine, Fenced, HasBegun
  <2> QED BY <1>2, <1>3, <1>4, <1>5, <2>1, <2>2, AmongItself, QuietTraces
<1>6. ASSUME NEW k \in DOMAIN wire, wire' = RemoveAt(wire, k) PROVE Traces'
  <2> DEFINE f == [w \in 1..(Len(wire) - 1) |-> IF w < k THEN w ELSE w + 1]
  <2>1. /\ DOMAIN wire = 1..Len(wire) /\ Len(wire) \in Nat
        /\ DOMAIN wire' = 1..(Len(wire) - 1)
        /\ \A w \in DOMAIN wire' : wire'[w] = IF w < k THEN wire[w] ELSE wire[w + 1]
    BY <1>1, <1>6, Removed DEF Typed
  <2>2. \A w \in DOMAIN wire' : f[w] = IF w < k THEN w ELSE w + 1
    BY <2>1
  <2>3. f \in [DOMAIN wire' -> DOMAIN wire]
    <3>1. \A w \in DOMAIN wire' : (IF w < k THEN w ELSE w + 1) \in DOMAIN wire
      BY <1>6, <2>1
    <3> QED BY <2>1, <3>1
  <2> HIDE DEF f
  <2>4. /\ \A w \in DOMAIN wire' : wire'[w] = wire[f[w]]
        /\ \A v, w \in DOMAIN wire' : f[v] = f[w] => v = w
    BY <1>6, <2>1, <2>2
  <2>5. HasBegun' => HasBegun /\ wire'[1] = wire[1]
    <3> SUFFICES ASSUME wire' # <<>>, wire'[1].attempt > 0 PROVE HasBegun /\ wire'[1] = wire[1]
      BY DEF HasBegun
    <3>1. wire' \in Seq(ExchangeType)
      BY DEF IInv, Typed
    <3>2. 1 \in DOMAIN wire'
      BY <3>1, NotEmpty
    <3>3. f[1] \in DOMAIN wire /\ wire'[1] = wire[f[1]]
      BY <2>3, <2>4, <3>2
    <3>4. f[1] = 1
      BY <1>1, <3>3 DEF OneAtATime
    <3>5. wire # <<>>
      BY <3>3, <3>4
    <3> QED BY <3>3, <3>4, <3>5 DEF HasBegun
  <2>6. /\ \A c \in Inputs : \A i \in 1..done'[c] : <<c, i>> \in Finished
        /\ \A i \in DOMAIN toPico' : toPico'[i].op = "input" => toPico'[i].gen >= fence'
        /\ HasBegun' /\ wire'[1].who \in Inputs => wire'[1].gen >= fence'
        /\ \A w \in DOMAIN wire' : wire'[w].who # "handshake"
    BY <1>1, <1>2, <1>4, <2>3, <2>4, <2>5 DEF Genuine, Fenced
  <2> QED BY <1>2, <1>3, <2>3, <2>4, <2>5, <2>6, AmongItself, QuietTraces
<1> QED BY <1>5, <1>6 DEF Teardown

LEMMA OpenTraces == ASSUME IInv, IInv', Traces, Open PROVE Traces'
<1> DEFINE n == link.sessions + 1
           line == Line(n, 0, "session", None, None)
           x == [who |-> "handshake", gen |-> None, sid |-> n, attempt |-> 0,
                 nacked |-> FALSE, answered |-> {}, lines |-> <<line>>]
<1>1. Typed /\ Current /\ OneAtATime /\ Addressed /\ Told /\ Fenced /\ Present
  BY DEF IInv, Traces
<1>2. /\ wire' = Append(wire, x) /\ link.phase = "down" /\ sequence' = 0
      /\ UNCHANGED <<done, toPico, pico, executed, fence>>
      /\ \E k \in 0..Len(toGateway) : toGateway' = SubSeq(toGateway, k + 1, Len(toGateway))
  BY DEF Open, callers, history
<1>3. link.sessions \in Nat /\ n \in Nat /\ n > link.sessions
  BY TypedParts
<1>4. link'.sid = n /\ link'.phase = "handshake" /\ link'.ready = link.ready
  BY <1>1 DEF Open, Typed, LinkType
<1> HIDE DEF n
<1>5. line \in LineType /\ line.seq = 0
  BY <1>3 DEF Line, LineType
<1> HIDE DEF line
<1>6. /\ x \in ExchangeType /\ x.who = "handshake" /\ x.attempt = 0 /\ x.sid = n
      /\ DOMAIN x.lines = {1} /\ x.lines[1].seq = 0
  BY <1>3, <1>5 DEF ExchangeType, Whos
<1> HIDE DEF x
<1>7. /\ \A w \in DOMAIN wire : wire[w].sid # n /\ wire[w].who # "handshake"
      /\ \A i \in DOMAIN toPico : toPico[i].sid # n
      /\ \A i \in DOMAIN toGateway : toGateway[i].sid # n
      /\ \A i \in DOMAIN pico.cache : pico.cache[i].sid # n
  <2>1. \A w \in DOMAIN wire : wire[w].sid # n /\ wire[w].who # "handshake"
    BY <1>1, <1>2, <1>3 DEF Addressed, OneAtATime
  <2>2. \A i \in DOMAIN toPico : toPico[i].sid # n
    <3>1. Spoilt.sid = 0
      BY DEF Spoilt, Line
    <3> QED BY <1>1, <1>3, <3>1 DEF Addressed, IInv, Sorted
  <2>3. /\ \A i \in DOMAIN toGateway : toGateway[i].sid # n
        /\ \A i \in DOMAIN pico.cache : pico.cache[i].sid # n
    BY <1>1, <1>3, TypedParts DEF Told, Reached
  <2> QED BY <2>1, <2>2, <2>3
<1>8. Among(toGateway', toGateway)
  <2>1. PICK k \in 0..Len(toGateway) : toGateway' = SubSeq(toGateway, k + 1, Len(toGateway))
    BY <1>2
  <2>2. toGateway \in Seq(MessageType)
    BY <1>1 DEF Typed
  <2> QED BY <2>1, <2>2, AmongSuffix
<1>9. /\ Len(wire) \in Nat /\ DOMAIN wire' = DOMAIN wire \cup {Len(wire) + 1}
      /\ Len(wire') = Len(wire) + 1
      /\ \A i \in DOMAIN wire : wire'[i] = wire[i]
      /\ wire'[Len(wire) + 1] = x
  BY <1>1, <1>2, <1>6, Appended, LenProperties DEF Typed
<1>10. Present'
  <2>1. \A i \in DOMAIN toGateway' : toGateway'[i].sid = 0 \/ toGateway'[i].sid # n
    BY <1>7, <1>8 DEF Among
  <2>2. n # 0 /\ ~link.ready
    BY <1>1, <1>2, <1>3 DEF Current
  <2>3. \A w \in DOMAIN wire' : wire'[w].who = "handshake" => w = Len(wire')
    BY <1>6, <1>7, <1>9
  <2> QED BY <1>2, <1>4, <1>6, <1>7, <1>9, <2>1, <2>2, <2>3 DEF Present
<1>11. 0 \in 0..(Modulus - 1) /\ "handshake" \notin Inputs
  BY SerialAssumption
<1>12. /\ \A k \in DOMAIN x.lines :
            /\ x.lines[k].seq \in 0..(Modulus - 1)
            /\ x.lines[k].seq = 0 <=> x.who = "handshake"
       /\ \A k, l \in DOMAIN x.lines : x.lines[k].seq = x.lines[l].seq => k = l
  BY <1>6, <1>11
<1>13. /\ \A w \in DOMAIN wire : wire[w].sid # x.sid
       /\ \A i \in DOMAIN toPico : ~OfExchange(x, toPico[i])
       /\ \A i \in DOMAIN toGateway : ~OfExchange(x, toGateway[i])
       /\ \A i \in DOMAIN pico.cache : ~OfExchange(x, pico.cache[i])
  BY <1>6, <1>7 DEF OfExchange
<1>14. x.who \notin Inputs /\ x \in ExchangeType /\ x.attempt = 0
  BY <1>6, <1>11
<1> QED BY ONLY IInv, IInv', Traces, <1>2, <1>8, <1>10, <1>12, <1>13, <1>14, JoinTraces

---------------------------------------------------------
(* The circle of the sequence numbers. *)

LEMMA NumbersAre ==
  ASSUME sequence \in 0..(Modulus - 1), NEW n \in 1..(Modulus - 1)
  PROVE  \A i \in 1..n : Numbers(n)[i] = IF sequence + i <= Modulus - 1 THEN sequence + i
                                         ELSE sequence + i - (Modulus - 1)
<1> DEFINE K == Modulus - 1
<1>1. K \in Nat /\ K >= 2 /\ sequence \in 0..K /\ n \in 1..K
  BY SerialAssumption
<1>2. Numbers(n) = [i \in 1..n |-> ((sequence + i - 1) % K) + 1]
  BY DEF Numbers
<1> HIDE DEF K
<1>3. \A p \in Nat : \A u \in 0..(K - 1) : (K * p + u) % K = u
  BY <1>1, SMT
<1>4. ASSUME NEW i \in 1..n
      PROVE  Numbers(n)[i] = IF sequence + i <= K THEN sequence + i ELSE sequence + i - K
  <2> DEFINE a == sequence + i - 1
  <2>1. Numbers(n)[i] = (a % K) + 1
    BY <1>2
  <2>2. a \in Int /\ a >= 0 /\ a < 2 * K
    BY <1>1
  <2>3. CASE a < K
    <3>1. K * 0 + a = a /\ a \in 0..(K - 1)
      BY <1>1, <2>2, <2>3
    <3>2. (K * 0 + a) % K = a
      BY <1>3, <3>1
    <3> QED BY <1>1, <2>1, <2>3, <3>1, <3>2
  <2>4. CASE ~(a < K)
    <3>1. K * 1 + (a - K) = a /\ a - K \in 0..(K - 1)
      BY <1>1, <2>2, <2>4
    <3>2. (K * 1 + (a - K)) % K = a - K
      BY <1>3, <3>1
    <3> QED BY <1>1, <2>1, <2>2, <2>4, <3>1, <3>2
  <2> QED BY <2>3, <2>4
<1> QED BY <1>4 DEF K

LEMMA BehindIs ==
  ASSUME NEW s \in 0..(Modulus - 1), NEW q \in 1..(Modulus - 1)
  PROVE  Behind(s, q) \in 0..(Modulus - 2)
BY SerialAssumption DEF Behind

(* n numbers are taken, t of them, and s moves on to the last: they are ahead of
   all that is not too far behind. *)
LEMMA Ahead ==
  ASSUME NEW s \in 0..(Modulus - 1), NEW n \in 1..(Modulus - 1), NEW t,
         \A i \in 1..n : t[i] = IF s + i <= Modulus - 1 THEN s + i ELSE s + i - (Modulus - 1)
  PROVE  /\ \A i \in 1..n : t[i] \in 1..(Modulus - 1) /\ Behind(t[n], t[i]) = n - i
         /\ \A i, j \in 1..n : t[i] = t[j] => i = j
         /\ \A q \in 1..(Modulus - 1) : Behind(s, q) + n < Modulus - 1 =>
              /\ Behind(t[n], q) = Behind(s, q) + n
              /\ \A i \in 1..n : t[i] # q
<1> DEFINE K == Modulus - 1
<1>1. K \in Nat /\ K >= 2 /\ s \in 0..K /\ n \in 1..K
  BY SerialAssumption
<1>2. \A u, q : Behind(u, q) = IF q <= u THEN u - q ELSE u + K - q
  BY DEF Behind
<1> HIDE DEF K
<1>3. \A i \in 1..n : t[i] = IF s + i <= K THEN s + i ELSE s + i - K
  BY DEF K
<1>4. \A i \in 1..n : t[i] \in 1..K
  BY <1>1, <1>3
<1>5. n \in 1..n
  BY <1>1
<1>6. ASSUME NEW i \in 1..n PROVE Behind(t[n], t[i]) = n - i
  BY <1>1, <1>2, <1>3, <1>5
<1>7. ASSUME NEW i \in 1..n, NEW j \in 1..n, t[i] = t[j] PROVE i = j
  BY <1>1, <1>3, <1>7
<1>8. ASSUME NEW q \in 1..K, Behind(s, q) + n < K
      PROVE  /\ Behind(t[n], q) = Behind(s, q) + n
             /\ \A i \in 1..n : t[i] # q
  <2>1. Behind(s, q) = IF q <= s THEN s - q ELSE s + K - q
    BY <1>2
  <2>2. Behind(t[n], q) = Behind(s, q) + n
    BY <1>1, <1>2, <1>3, <1>5, <1>8, <2>1
  <2>3. \A i \in 1..n : t[i] # q
    BY <1>1, <1>3, <1>8, <2>1
  <2> QED BY <2>2, <2>3
<1> QED BY <1>4, <1>6, <1>7, <1>8 DEF K

LEMMA Times ==
  ASSUME NEW a \in Int, NEW b \in Int, a <= b
  PROVE  /\ CacheSize * a \in Int /\ CacheSize * b \in Int
         /\ CacheSize * a <= CacheSize * b /\ CacheSize * (a + 1) = CacheSize * a + CacheSize
<1>1. CacheSize \in Nat
  BY SerialAssumption
<1> QED BY <1>1, SMT

LEMMA WithinMore ==
  ASSUME NEW s \in 0..(Modulus - 1), NEW q, NEW r \in Int, NEW p \in Int, r <= p, Within(s, q, r)
  PROVE  Within(s, q, p)
<1>1. Behind(s, q) \in Int
  BY BehindIs, SerialAssumption DEF Within
<1>2. CacheSize * r \in Int /\ CacheSize * p \in Int /\ CacheSize * r <= CacheSize * p
  BY Times
<1> QED BY <1>1, <1>2 DEF Within

(* There is room: what is taken is ahead of all that may still be about. *)
LEMMA WithinJoin ==
  ASSUME RoomForReleases, NEW s \in 0..(Modulus - 1), NEW n \in 1..CacheSize, NEW t,
         \A i \in 1..n : t[i] = IF s + i <= Modulus - 1 THEN s + i ELSE s + i - (Modulus - 1),
         NEW q, NEW r \in Nat, r <= CacheSize + 2 * Cardinality(Releases) + 4, Within(s, q, r)
  PROVE  Within(t[n], q, r + 1) /\ \A i \in 1..n : t[i] # q
<1> DEFINE R == Cardinality(Releases)
           K == Modulus - 1
           top == CacheSize + 2 * R + 4
<1>1. R \in Nat /\ K \in Nat /\ CacheSize \in Nat /\ CacheSize < K /\ K > CacheSize * (top + 1)
  <2>1. R \in Nat
    BY FS_CardinalityType DEF RoomForReleases
  <2>2. Modulus > CacheSize * (top + 1) + 1
    <3>1. top + 1 = CacheSize + 2 * R + 5
      BY <2>1, SerialAssumption
    <3> QED BY <3>1 DEF RoomForReleases
  <2>3. CacheSize * (top + 1) \in Int
    BY <2>1, SerialAssumption
  <2> HIDE DEF R, top
  <2>4. K > CacheSize * (top + 1)
    BY <2>2, <2>3, SerialAssumption
  <2> QED BY <2>1, <2>4, SerialAssumption
<1>2. top \in Int /\ r <= top /\ r + 1 <= top + 1
  BY <1>1
<1> HIDE DEF top, R
<1>3. /\ CacheSize * (r + 1) = CacheSize * r + CacheSize
      /\ CacheSize * r \in Int /\ CacheSize * (r + 1) \in Int /\ CacheSize * (top + 1) \in Int
      /\ CacheSize * (r + 1) <= CacheSize * (top + 1)
  <2>1. r \in Int /\ r <= r
    OBVIOUS
  <2>2. CacheSize * (r + 1) = CacheSize * r + CacheSize /\ CacheSize * r \in Int
    BY <2>1, Times
  <2>3. r + 1 \in Int /\ top + 1 \in Int
    BY <1>2
  <2>4. /\ CacheSize * (r + 1) \in Int /\ CacheSize * (top + 1) \in Int
        /\ CacheSize * (r + 1) <= CacheSize * (top + 1)
    BY <1>2, <2>3, Times
  <2> QED BY <2>2, <2>4
<1>4. q \in 1..K /\ Behind(s, q) \in Int /\ Behind(s, q) <= CacheSize * r
  BY BehindIs DEF Within
<1>5. Behind(s, q) + n <= CacheSize * (r + 1) /\ Behind(s, q) + n < K
  BY <1>1, <1>3, <1>4
<1>6. n \in 1..K
  BY <1>1
<1>7. Behind(t[n], q) = Behind(s, q) + n /\ \A i \in 1..n : t[i] # q
  BY <1>4, <1>5, <1>6, Ahead
<1> QED BY <1>4, <1>5, <1>7 DEF Within

(* How many exchanges these are. *)
LEMMA CountsAre ==
  ASSUME RoomForReleases
  PROVE  /\ IsFiniteSet(Called) /\ IsFiniteSet(Entered)
         /\ Cardinality(Called) \in Nat /\ Cardinality(Entered) \in Nat
         /\ Cardinality(Releases) \in Nat
         /\ Cardinality(Called) <= Cardinality(Releases)
         /\ Cardinality(Entered) <= Cardinality(Releases)
<1>1. Called \in SUBSET Releases /\ Entered \in SUBSET Releases
  BY DEF Called, Entered
<1>2. IsFiniteSet(Releases)
  BY DEF RoomForReleases
<1> QED BY <1>1, <1>2, FS_Subset, FS_CardinalityType

LEMMA AfterIs ==
  ASSUME Typed, RoomForReleases, NEW w \in Nat
  PROVE  /\ After(w) \in Nat /\ After(w) <= 2 + Cardinality(Releases)
         /\ After(w) <= After(0) /\ After(0) \in Nat
<1>1. /\ Cardinality(Entered) \in Nat /\ Cardinality(Releases) \in Nat
      /\ Cardinality(Entered) <= Cardinality(Releases)
  BY CountsAre
<1>2. \A v \in DOMAIN wire : v > w => v > 0
  BY LenProperties DEF Typed
<1> QED BY <1>1, <1>2 DEF After, One

LEMMA ReachIs ==
  ASSUME Typed, RoomForReleases
  PROVE  /\ Reach \in Nat /\ After(0) \in Nat /\ 2 + After(0) <= Reach
         /\ Reach <= 5 + 2 * Cardinality(Releases)
<1>1. /\ Cardinality(Called) \in Nat /\ Cardinality(Releases) \in Nat
      /\ Cardinality(Called) <= Cardinality(Releases)
  BY CountsAre
<1>2. After(0) \in Nat /\ After(0) <= 2 + Cardinality(Releases)
  BY AfterIs
<1>3. One(Overtaken) \in 0..1
  BY DEF One
<1> QED BY <1>1, <1>2, <1>3 DEF Reach

---------------------------------------------------------
(* An exchange takes its numbers. *)

LEMMA JoinRecent ==
  ASSUME IInv, IInv', Traces, Recent, RoomForReleases, link.ready,
         UNCHANGED <<link, toPico, toGateway, pico, executed, done, fence>>,
         Called' = Called,
         NEW n \in 1..CacheSize, NEW x \in ExchangeType,
         wire' = Append(wire, x), x.attempt = 0, x.sid = link.sid, x.who # "handshake",
         DOMAIN x.lines = 1..n, \A k \in 1..n : x.lines[k].seq = Numbers(n)[k],
         sequence' = Numbers(n)[n],
         x.who \in Inputs =>
           x.gen = link.generation /\ \A k \in DOMAIN x.lines : x.lines[k].gen = x.gen,
         \/ /\ x.who \in Inputs /\ Entered' = Entered
            /\ \A w \in DOMAIN wire : wire[w].who \notin Inputs
         \/ /\ x.who = "heartbeat" /\ Entered' = Entered
            /\ \A w \in DOMAIN wire : wire[w].who # "heartbeat"
         \/ Entered' = Entered \cup {x.who} /\ x.who \notin Entered /\ x.who \notin Inputs
  PROVE  Traces' /\ Recent'
<1> DEFINE t == Numbers(n)
<1>1. /\ Typed /\ Typed' /\ OneAtATime /\ Current /\ Distinct /\ Present
      /\ sequence \in 0..(Modulus - 1)
  BY DEF IInv, Traces, Typed
<1>2. /\ n \in 1..(Modulus - 1) /\ n \in Nat /\ 0 < n /\ n \in 1..n
      /\ CacheSize \in Nat /\ CacheSize > 0 /\ Modulus \in Nat
  BY SerialAssumption
<1>3. /\ \A i \in 1..n : t[i] = IF sequence + i <= Modulus - 1 THEN sequence + i
                                ELSE sequence + i - (Modulus - 1)
      /\ sequence' = t[n]
  <2>1. sequence' = t[n]
    OBVIOUS
  <2> HIDE DEF t
  <2> QED BY <1>1, <1>2, <2>1, NumbersAre DEF t
<1> HIDE DEF t
<1>4. /\ \A i \in 1..n : t[i] \in 1..(Modulus - 1) /\ Behind(t[n], t[i]) = n - i
      /\ \A i, j \in 1..n : t[i] = t[j] => i = j
  <2>1. sequence \in 0..(Modulus - 1) /\ n \in 1..(Modulus - 1)
    BY <1>1, <1>2
  <2>2. \A i \in 1..n : t[i] = IF sequence + i <= Modulus - 1 THEN sequence + i
                              ELSE sequence + i - (Modulus - 1)
    BY <1>3
  <2>3. \A i \in 1..n : t[i] \in 1..(Modulus - 1) /\ Behind(t[n], t[i]) = n - i
    BY ONLY <2>1, <2>2, Ahead
  <2>4. \A i, j \in 1..n : t[i] = t[j] => i = j
    BY ONLY <2>1, <2>2, Ahead
  <2> QED BY <2>3, <2>4
<1>5. /\ Len(wire) \in Nat /\ DOMAIN wire = 1..Len(wire)
      /\ DOMAIN wire' = DOMAIN wire \cup {Len(wire) + 1}
      /\ \A i \in DOMAIN wire : wire'[i] = wire[i]
      /\ wire'[Len(wire) + 1] = x
  BY <1>1, Appended, LenProperties DEF Typed
<1>6. link.sid # 0 /\ link.phase = "up" /\ link.generation \in Nat
  BY <1>1, TypedParts DEF Current
<1>7. /\ \A w \in Nat : After(w) \in Nat /\ After(w) <= 2 + Cardinality(Releases)
                        /\ After(w) <= After(0)
      /\ Reach \in Nat /\ Reach <= 5 + 2 * Cardinality(Releases) /\ 2 + After(0) <= Reach
      /\ Cardinality(Releases) \in Nat
  BY <1>1, AfterIs, ReachIs, CountsAre
<1>8. ASSUME NEW q, NEW r \in Nat, r <= CacheSize + 2 * Cardinality(Releases) + 4,
             Within(sequence, q, r)
      PROVE  Within(sequence', q, r + 1) /\ \A i \in 1..n : t[i] # q
  BY <1>1, <1>3, <1>8, WithinJoin
<1>9. \A w \in DOMAIN wire : \A k \in DOMAIN wire[w].lines :
        /\ Within(sequence', wire[w].lines[k].seq, (1 + After(w)) + 1)
        /\ \A i \in 1..n : t[i] # wire[w].lines[k].seq
  <2>1. ASSUME NEW w \in DOMAIN wire, NEW k \in DOMAIN wire[w].lines
        PROVE  /\ Within(sequence', wire[w].lines[k].seq, (1 + After(w)) + 1)
               /\ \A i \in 1..n : t[i] # wire[w].lines[k].seq
    <3>1. Within(sequence, wire[w].lines[k].seq, 1 + After(w))
      BY <2>1 DEF Recent
    <3>2. w \in Nat
      BY <1>5
    <3>3. 1 + After(w) \in Nat /\ 1 + After(w) <= CacheSize + 2 * Cardinality(Releases) + 4
      BY ONLY <1>2, <1>7, <3>2
    <3> QED BY <1>8, <3>1, <3>3
  <2> QED BY <2>1
<1>10. ASSUME NEW q, Within(sequence, q, Reach)
       PROVE  Within(sequence', q, Reach + 1) /\ \A i \in 1..n : t[i] # q
  <2>1. Reach \in Nat /\ Reach <= CacheSize + 2 * Cardinality(Releases) + 4
    BY ONLY <1>2, <1>7
  <2> QED BY <1>8, <1>10, <2>1
<1>11. /\ Len(pico.cache) \in Nat /\ Len(pico.cache) <= CacheSize
       /\ DOMAIN pico.cache = 1..Len(pico.cache)
  BY TypedParts, LenProperties DEF IInv, Limited
<1>12. \A i \in DOMAIN pico.cache : pico.cache[i].sid = link.sid /\ pico.cache[i].seq # 0 =>
         /\ Within(sequence', pico.cache[i].seq, (Reach + Len(pico.cache) - i - One(Latest)) + 1)
         /\ \A j \in 1..n : t[j] # pico.cache[i].seq
  <2>1. ASSUME NEW i \in DOMAIN pico.cache, pico.cache[i].sid = link.sid, pico.cache[i].seq # 0
        PROVE  /\ Within(sequence', pico.cache[i].seq, (Reach + Len(pico.cache) - i - One(Latest)) + 1)
               /\ \A j \in 1..n : t[j] # pico.cache[i].seq
    <3> DEFINE r == Reach + Len(pico.cache) - i - One(Latest)
    <3>1. Within(sequence, pico.cache[i].seq, r)
      BY <2>1 DEF Recent
    <3>2. r \in Nat /\ r <= CacheSize + 2 * Cardinality(Releases) + 4
      <4> DEFINE g == Len(pico.cache)
                 o == One(Latest)
                 R == Cardinality(Releases)
                 h == Reach
      <4>1. i \in 1..g /\ g \in Nat /\ g <= CacheSize
        BY <1>11
      <4>2. o \in 0..1
        BY DEF One
      <4>3. h \in Nat /\ h <= 5 + 2 * R /\ 2 <= h /\ R \in Nat
        BY <1>7
      <4>4. r = h + g - i - o
        OBVIOUS
      <4> HIDE DEF g, o, R, h, r
      <4>5. r \in Nat /\ r <= CacheSize + 2 * R + 4
        BY <1>2, <4>1, <4>2, <4>3, <4>4
      <4> QED BY <4>5 DEF R
    <3> HIDE DEF r
    <3>3. Within(sequence', pico.cache[i].seq, r + 1) /\ \A j \in 1..n : t[j] # pico.cache[i].seq
      BY <1>8, <3>1, <3>2
    <3> QED BY <3>3 DEF r
  <2> QED BY <2>1
<1>13. Traces'
  <2>1. \A k \in DOMAIN x.lines :
          /\ x.lines[k].seq \in 0..(Modulus - 1)
          /\ x.lines[k].seq = 0 <=> x.who = "handshake"
    BY <1>2, <1>4 DEF t
  <2>2. \A k, l \in DOMAIN x.lines : x.lines[k].seq = x.lines[l].seq => k = l
    BY <1>4 DEF t
  <2>3. \A w \in DOMAIN wire : wire[w].sid = x.sid =>
          \A k \in DOMAIN wire[w].lines, l \in DOMAIN x.lines :
            wire[w].lines[k].seq # x.lines[l].seq
    BY <1>9 DEF t
  <2>4. ASSUME NEW m, OfExchange(x, m)
        PROVE  m.sid = link.sid /\ m.seq # 0 /\ \E i \in 1..n : t[i] = m.seq
    <3>1. PICK i \in 1..n : m.seq = x.lines[i].seq
      BY <2>4 DEF OfExchange, NumbersOf
    <3> QED BY <1>4, <2>4, <3>1 DEF OfExchange, t
  <2>5. \A i \in DOMAIN toPico : ~OfExchange(x, toPico[i])
    <3> SUFFICES ASSUME NEW i \in DOMAIN toPico, OfExchange(x, toPico[i]) PROVE FALSE
      OBVIOUS
    <3>1. toPico[i].sid = link.sid /\ toPico[i].seq # 0 /\ \E j \in 1..n : t[j] = toPico[i].seq
      BY <2>4
    <3>2. Within(sequence, toPico[i].seq, Reach)
      BY <3>1 DEF Recent
    <3> QED BY <1>10, <3>1, <3>2
  <2>6. \A i \in DOMAIN toGateway : ~OfExchange(x, toGateway[i])
    <3> SUFFICES ASSUME NEW i \in DOMAIN toGateway, OfExchange(x, toGateway[i]) PROVE FALSE
      OBVIOUS
    <3>1. /\ toGateway[i].sid = link.sid /\ toGateway[i].seq # 0
          /\ \E j \in 1..n : t[j] = toGateway[i].seq
      BY <2>4
    <3>2. Within(sequence, toGateway[i].seq, Reach)
      BY <3>1 DEF Recent
    <3> QED BY <1>10, <3>1, <3>2
  <2>7. \A i \in DOMAIN pico.cache : ~OfExchange(x, pico.cache[i])
    <3> SUFFICES ASSUME NEW i \in DOMAIN pico.cache, OfExchange(x, pico.cache[i]) PROVE FALSE
      OBVIOUS
    <3>1. /\ pico.cache[i].sid = link.sid /\ pico.cache[i].seq # 0
          /\ \E j \in 1..n : t[j] = pico.cache[i].seq
      BY <2>4
    <3> QED BY <1>12, <3>1
  <2>8. x.who \in Inputs =>
          x.gen \in Nat /\ \A k \in DOMAIN x.lines : x.lines[k].gen = x.gen
    BY <1>6
  <2>9. Present'
    <3>1. \A w \in DOMAIN wire' : wire'[w].who # "handshake"
      BY <1>1, <1>5, <1>6 DEF OneAtATime
    <3>2. \A w \in DOMAIN wire' : wire'[w].sid = link'.sid
      BY <1>1, <1>5 DEF Present
    <3>3. link'.phase # "handshake"
      BY <1>6
    <3> QED BY <3>1, <3>2, <3>3 DEF Present
  <2>10. Among(toGateway', toGateway)
    BY AmongItself
  <2> QED BY <2>1, <2>2, <2>3, <2>5, <2>6, <2>7, <2>8, <2>9, <2>10, JoinTraces
<1>14. ASSUME NEW w \in 0..Len(wire) PROVE After(w)' \in Nat /\ After(w) + 1 <= After(w)'
  <2> DEFINE P == \E v \in DOMAIN wire : v > w /\ wire[v].who \in Inputs
             H == \E v \in DOMAIN wire : v > w /\ wire[v].who = "heartbeat"
             a == Cardinality(Entered)
             b == Cardinality(Entered')
  <2>1. a \in Nat /\ IsFiniteSet(Entered)
    BY CountsAre
  <2>2. /\ \A v \in DOMAIN wire : v \in DOMAIN wire' /\ wire'[v] = wire[v]
        /\ Len(wire) + 1 \in DOMAIN wire' /\ wire'[Len(wire) + 1] = x /\ Len(wire) + 1 > w
    BY <1>5
  <2>3. (P => P') /\ (H => H')
    BY <2>2
  <2>4. /\ x.who \in Inputs => P'
        /\ x.who = "heartbeat" => H'
    BY <2>2
  <2>5. /\ After(w) = One(P) + One(H) + a
        /\ After(w)' = One(P') + One(H') + b
    BY DEF After
  <2>6. \/ b = a /\ ~P /\ P'
        \/ b = a /\ ~H /\ H'
        \/ b = a + 1
    <3>1. CASE Entered' = Entered \cup {x.who} /\ x.who \notin Entered
      BY <2>1, <3>1, FS_AddElement
    <3> QED BY <2>4, <3>1
  <2> HIDE DEF P, H, a, b
  <2> QED BY ONLY <2>1, <2>3, <2>5, <2>6 DEF One
<1>15. Overtaken' => Overtaken
  <2>1. link'.generation = link.generation
    OBVIOUS
  <2> QED BY <1>5, <2>1 DEF Overtaken
<1>16. Reach' \in Nat /\ Reach + 1 <= Reach'
  <2>1. After(0)' \in Nat /\ After(0) + 1 <= After(0)' /\ After(0) \in Nat
    BY <1>5, <1>7, <1>14
  <2>2. Cardinality(Called') = Cardinality(Called) /\ Cardinality(Called) \in Nat
    BY CountsAre
  <2>3. One(Overtaken)' \in 0..1 /\ One(Overtaken) \in 0..1 /\ One(Overtaken)' <= One(Overtaken)
    BY <1>15 DEF One
  <2> QED BY <2>1, <2>2, <2>3 DEF Reach
<1>17. Latest' => Latest
  <2>1. HasBegun' => HasBegun /\ wire'[1] = wire[1]
    <3>1. CASE wire = <<>>
      <4>1. wire'[1] = x
        BY <1>5, <3>1
      <4> QED BY <4>1 DEF HasBegun
    <3>2. CASE wire # <<>>
      <4>1. 1 \in DOMAIN wire
        BY <1>1, <3>2, NotEmpty DEF Typed
      <4> QED BY <1>5, <3>2, <4>1 DEF HasBegun
    <3> QED BY <3>1, <3>2
  <2> QED BY <2>1 DEF Latest, Own
<1>18. sequence' \in 0..(Modulus - 1)
  BY <1>1 DEF Typed
<1>19. ASSUME NEW w \in DOMAIN wire', NEW k \in DOMAIN wire'[w].lines
       PROVE  Within(sequence', wire'[w].lines[k].seq, 1 + After(w)')
  <2>1. CASE w \in DOMAIN wire
    <3>1. (1 + After(w)) + 1 \in Int /\ 1 + After(w)' \in Int /\ (1 + After(w)) + 1 <= 1 + After(w)'
      <4>1. w \in 0..Len(wire) /\ w \in Nat
        BY <1>5, <2>1
      <4>2. After(w) \in Nat
        BY <1>7, <4>1
      <4>3. After(w)' \in Nat /\ After(w) + 1 <= After(w)'
        BY <1>14, <4>1
      <4> QED BY ONLY <4>2, <4>3
    <3>2. Within(sequence', wire'[w].lines[k].seq, (1 + After(w)) + 1)
      BY <1>5, <1>9, <1>19, <2>1
    <3> QED BY <1>18, <3>1, <3>2, WithinMore
  <2>2. CASE w \notin DOMAIN wire
    <3>1. wire'[w] = x /\ k \in 1..n
      BY <1>5, <1>19, <2>2
    <3>2. x.lines[k].seq = t[k] /\ t[k] \in 1..(Modulus - 1) /\ Behind(sequence', t[k]) = n - k
      BY <1>3, <1>4, <3>1 DEF t
    <3>3. Within(sequence', t[k], 1)
      <4>1. n - k <= CacheSize * 1
        BY <1>2, <3>1
      <4> QED BY <3>2, <4>1 DEF Within
    <3>4. After(w)' \in Nat
      <4>2. Cardinality(Entered') \in Nat
        <5>1. IsFiniteSet(Entered') /\ Cardinality(Entered') \in Nat
          <6>1. Entered' \in SUBSET Releases /\ IsFiniteSet(Releases)
            BY DEF Entered, RoomForReleases
          <6> QED BY <6>1, FS_Subset, FS_CardinalityType
        <5> QED BY <5>1
      <4> QED BY <4>2 DEF After, One
    <3>5. 1 \in Int /\ 1 + After(w)' \in Int /\ 1 <= 1 + After(w)'
      BY <3>4
    <3> QED BY <1>18, <3>1, <3>2, <3>3, <3>5, WithinMore
  <2> QED BY <2>1, <2>2
<1>20. ASSUME NEW q, Within(sequence, q, Reach) PROVE Within(sequence', q, Reach')
  <2>1. Within(sequence', q, Reach + 1) /\ Reach + 1 \in Int /\ Reach' \in Int
    BY <1>7, <1>10, <1>16, <1>20
  <2> QED BY <1>16, <1>18, <2>1, WithinMore
<1>21. ASSUME NEW i \in DOMAIN pico.cache, pico.cache[i].sid = link.sid, pico.cache[i].seq # 0
       PROVE  Within(sequence', pico.cache[i].seq,
                     Reach' + Len(pico.cache) - i - One(Latest)')
  <2>1. Within(sequence', pico.cache[i].seq, (Reach + Len(pico.cache) - i - One(Latest)) + 1)
    BY <1>12, <1>21
  <2>2. One(Latest)' \in 0..1 /\ One(Latest) \in 0..1 /\ One(Latest)' <= One(Latest)
    BY <1>17 DEF One
  <2>3. i \in Int /\ Len(pico.cache) \in Int
    BY <1>11, <1>21
  <2>4. /\ (Reach + Len(pico.cache) - i - One(Latest)) + 1 \in Int
        /\ Reach' + Len(pico.cache) - i - One(Latest)' \in Int
        /\ (Reach + Len(pico.cache) - i - One(Latest)) + 1
             <= Reach' + Len(pico.cache) - i - One(Latest)'
    <3> DEFINE g == Len(pico.cache)
               o == One(Latest)
               p == One(Latest)'
               h == Reach
               e == Reach'
    <3>1. g \in Int /\ i \in Int
      BY <2>3
    <3>5. o \in Int /\ p \in Int /\ p <= o
      BY <2>2
    <3>6. h \in Int /\ e \in Int /\ h + 1 <= e
      <4>1. Reach \in Int /\ Reach' \in Int /\ Reach + 1 <= Reach'
        BY <1>7, <1>16
      <4> QED BY <4>1
    <3> HIDE DEF g, o, p, h, e
    <3>2. /\ (h + g - i - o) + 1 \in Int /\ e + g - i - p \in Int
          /\ (h + g - i - o) + 1 <= e + g - i - p
      BY <3>1, <3>5, <3>6
    <3> QED BY <3>2 DEF g, o, p, h, e
  <2> QED BY <1>18, <2>1, <2>4, WithinMore
<1>22. Recent'
  <2>1. \A i \in DOMAIN toPico : toPico[i].sid = link.sid /\ toPico[i].seq # 0 =>
          Within(sequence', toPico[i].seq, Reach')
    BY <1>20 DEF Recent
  <2>2. \A i \in DOMAIN toGateway : toGateway[i].sid = link.sid /\ toGateway[i].seq # 0 =>
          Within(sequence', toGateway[i].seq, Reach')
    BY <1>20 DEF Recent
  <2> QED BY <1>19, <1>21, <2>1, <2>2 DEF Recent
<1> QED BY <1>13, <1>22

LEMMA OperationTakes ==
  ASSUME IInv, NEW who, NEW op, NEW gen
  PROVE  /\ DOMAIN Operation(who, op, gen).lines = 1..1
         /\ \A k \in 1..1 : Operation(who, op, gen).lines[k].seq = Numbers(1)[k]
         /\ NextSequence(sequence) = Numbers(1)[1]
<1>1. NextSequence(sequence) = Numbers(1)[1]
  BY NumbersFollow DEF IInv, Typed
<1> DEFINE n == NextSequence(sequence)
           f == [i \in DOMAIN <<None>> |->
                   Line(link.sid, <<n>>[i], op, <<None>>[i],
                        IF who \in Callers THEN asked[who] ELSE None)]
<1>2. Operation(who, op, gen) =
        [who |-> who, gen |-> gen, sid |-> link.sid, attempt |-> 0, nacked |-> FALSE,
         lines |-> f, answered |-> {}]
  BY DEF Operation, Exchange
<1>3. DOMAIN <<None>> = 1..1 /\ <<n>>[1] = n
  OBVIOUS
<1>4. Operation(who, op, gen).lines = f /\ DOMAIN f = 1..1 /\ f[1].seq = n
  BY <1>2, <1>3 DEF Line
<1> HIDE DEF f, n
<1>5. \A k \in 1..1 : k = 1
  OBVIOUS
<1>6. f[1].seq = Numbers(1)[1]
  BY <1>1, <1>4 DEF n
<1> QED BY <1>1, <1>4, <1>5, <1>6

LEMMA OneFits == 1 \in 1..CacheSize
BY SerialAssumption

LEMMA EnterReleaseRecent ==
  ASSUME IInv, IInv', Traces, Recent, RoomForReleases, NEW c \in Callers, EnterRelease(c)
  PROVE  Traces' /\ Recent'
<1> DEFINE x == Operation(c, "release", asked[c])
<1>1. /\ c \in Releases /\ c \notin Inputs /\ c # "handshake" /\ pc[c] = "entering" /\ link.ready
      /\ pc' = [pc EXCEPT ![c] = "wire"] /\ wire' = Append(wire, x)
      /\ sequence' = NextSequence(sequence)
      /\ UNCHANGED <<link, toPico, toGateway, pico, executed, done, fence>>
  BY SerialAssumption DEF EnterRelease, uart, history, Callers
<1>2. x \in ExchangeType /\ x.who = c /\ x.attempt = 0 /\ x.sid = link.sid
  <2> DEFINE g == asked[c]
  <2>1. c \in Whos /\ g \in Nat \cup {None} /\ "release" \in {"heartbeat", "release"}
    BY DEF IInv, Typed, Whos
  <2>2. x = Operation(c, "release", g)
    OBVIOUS
  <2> HIDE DEF x, g
  <2> QED BY <1>1, <2>1, <2>2, OperationIs
<1>3. /\ DOMAIN x.lines = 1..1 /\ \A k \in 1..1 : x.lines[k].seq = Numbers(1)[k]
      /\ sequence' = Numbers(1)[1]
  BY <1>1, OperationTakes
<1> HIDE DEF x
<1>4. \A d \in Callers : pc'[d] = IF d = c THEN "wire" ELSE pc[d]
  BY <1>1 DEF IInv, Typed
<1>5. Called' = Called
  BY <1>1, <1>4 DEF Called, Callers
<1>6. Entered' = Entered \cup {c} /\ c \notin Entered
  BY <1>1, <1>4 DEF Entered, Callers
<1> QED BY <1>1, <1>2, <1>3, <1>5, <1>6, OneFits, JoinRecent

LEMMA HeartbeatRecent ==
  ASSUME IInv, IInv', Traces, Recent, RoomForReleases, Heartbeat
  PROVE  Traces' /\ Recent'
<1> DEFINE x == Operation("heartbeat", "heartbeat", None)
<1>1. /\ link.ready /\ wire' = Append(wire, x) /\ sequence' = NextSequence(sequence)
      /\ \A w \in DOMAIN wire : wire[w].who # "heartbeat"
      /\ UNCHANGED <<link, toPico, toGateway, pico, executed, done, fence, pc>>
  BY DEF Heartbeat, callers, uart, history
<1>2. x \in ExchangeType /\ x.who = "heartbeat" /\ x.attempt = 0 /\ x.sid = link.sid
  <2>1. "heartbeat" \in Whos /\ None \in Nat \cup {None} /\ "heartbeat" \in {"heartbeat", "release"}
    BY DEF Whos
  <2> QED BY <1>1, <2>1, OperationIs
<1>3. /\ DOMAIN x.lines = 1..1 /\ \A k \in 1..1 : x.lines[k].seq = Numbers(1)[k]
      /\ sequence' = Numbers(1)[1]
  BY <1>1, OperationTakes
<1> HIDE DEF x
<1>4. Called' = Called /\ Entered' = Entered
  BY <1>1 DEF Called, Entered
<1>5. "heartbeat" \notin Inputs /\ "heartbeat" # "handshake"
  BY SerialAssumption
<1> QED BY <1>1, <1>2, <1>3, <1>4, <1>5, OneFits, JoinRecent

(* The numbers and the generation of what a caller sends next. *)
LEMMA PiecesTake ==
  ASSUME IInv, NEW c \in Inputs
  PROVE  \E n \in 1..CacheSize :
           /\ Len(NextPieces(c)) = n /\ DOMAIN NextExchange(c).lines = 1..n
           /\ \A k \in 1..n : /\ NextExchange(c).lines[k].seq = Numbers(n)[k]
                              /\ NextExchange(c).lines[k].gen = asked[c]
           /\ NextExchange(c).gen = asked[c]
           /\ Last(Numbers(n)) = Numbers(n)[n]
<1> DEFINE pieces == NextPieces(c)
           n == IF c \in Batches THEN Size[c] ELSE 1
<1>1. c \in Callers /\ sequence \in 0..(Modulus - 1)
  BY DEF Callers, IInv, Typed
<1>2. n \in 1..CacheSize /\ n \in Nat
  BY SerialAssumption
<1>3. DOMAIN pieces = 1..n /\ Len(pieces) = n
  <2>1. CASE c \in Batches
    BY <1>2, <2>1 DEF NextPieces
  <2>2. CASE c \notin Batches
    <3>1. pieces = <<<<c, done[c] + 1>>>>
      BY <2>2 DEF NextPieces
    <3> QED BY <2>2, <3>1
  <2> QED BY <2>1, <2>2
<1> HIDE DEF pieces, n
<1> DEFINE f == [i \in 1..n |-> Line(link.sid, Numbers(n)[i], "input", pieces[i], asked[c])]
<1>4. NextExchange(c) =
        [who |-> c, gen |-> asked[c], sid |-> link.sid, attempt |-> 0, nacked |-> FALSE,
         lines |-> f, answered |-> {}]
  BY <1>1, <1>3 DEF Exchange, NextExchange, pieces
<1>5. \A i \in 1..n : f[i].seq = Numbers(n)[i] /\ f[i].gen = asked[c]
  BY DEF Line
<1>6. NextExchange(c).lines = f /\ NextExchange(c).gen = asked[c] /\ DOMAIN f = 1..n
  BY <1>4
<1>7. Last(Numbers(n)) = Numbers(n)[n]
  <2>1. Len(Numbers(n)) = n
    BY <1>1, <1>2, NumbersFollow
  <2> QED BY <2>1 DEF Last
<1> HIDE DEF f
<1> QED BY <1>2, <1>3, <1>5, <1>6, <1>7 DEF pieces

LEMMA SendPiecesRecent ==
  ASSUME IInv, IInv', Traces, Recent, RoomForReleases, NEW c \in Callers, SendPieces(c),
         ~UNCHANGED <<wire, sequence>>
  PROVE  Traces' /\ Recent'
<1> DEFINE x == NextExchange(c)
<1>1. /\ c \in Inputs /\ pc[c] = "public" /\ link.ready /\ asked[c] = link.generation
      /\ public # <<>> => public[1] = c
      /\ pc' = [pc EXCEPT ![c] = "wire"] /\ wire' = Append(wire, x)
      /\ sequence' = Last(Numbers(Len(NextPieces(c))))
      /\ UNCHANGED <<link, toPico, toGateway, pico, executed, done, fence>>
  BY DEF SendPieces, MayGo, uart, history, GivenGeneration, NextExchange
<1>2. x \in ExchangeType /\ x.who = c /\ x.attempt = 0 /\ x.sid = link.sid
  <2>1. x = NextExchange(c)
    OBVIOUS
  <2> HIDE DEF x
  <2> QED BY <1>1, <2>1, PiecesAre
<1>3. PICK n \in 1..CacheSize :
        /\ Len(NextPieces(c)) = n /\ DOMAIN x.lines = 1..n
        /\ \A k \in 1..n : x.lines[k].seq = Numbers(n)[k] /\ x.lines[k].gen = asked[c]
        /\ x.gen = asked[c] /\ Last(Numbers(n)) = Numbers(n)[n]
  BY <1>1, PiecesTake
<1> HIDE DEF x
<1>4. sequence' = Numbers(n)[n]
  BY <1>1, <1>3
<1>5. x.who \in Inputs /\ x.who # "handshake" /\ c \notin Releases
  BY <1>1, <1>2, SerialAssumption DEF Callers
<1>6. \A w \in DOMAIN wire : wire[w].who \notin Inputs
  <2> SUFFICES ASSUME NEW w \in DOMAIN wire, wire[w].who \in Inputs PROVE FALSE
    OBVIOUS
  <2>1. pc[wire[w].who] = "wire"
    BY DEF IInv, Queued, Callers
  <2>2. public # <<>> /\ public[1] = wire[w].who
    BY <2>1 DEF IInv, Queued
  <2> QED BY <1>1, <2>1, <2>2
<1>7. \A d \in Callers : pc'[d] = IF d = c THEN "wire" ELSE pc[d]
  BY <1>1 DEF IInv, Typed
<1>8. Called' = Called /\ Entered' = Entered
  BY <1>5, <1>7 DEF Called, Entered, Callers
<1> QED BY <1>1, <1>2, <1>3, <1>4, <1>5, <1>6, <1>8, JoinRecent

---------------------------------------------------------
(* What goes on while no number is taken. *)

(* The wire has the same exchanges, and nothing is written or answered. *)
LEMMA StillRecent ==
  ASSUME IInv, IInv', Recent, RoomForReleases,
         link'.ready => link.ready /\ link'.sid = link.sid,
         sequence' = sequence, DOMAIN wire' = DOMAIN wire,
         \A w \in DOMAIN wire :
           /\ wire'[w].who = wire[w].who /\ wire'[w].sid = wire[w].sid
           /\ wire'[w].gen = wire[w].gen /\ wire'[w].lines = wire[w].lines
           /\ wire'[w].attempt = wire[w].attempt,
         Among(toPico', toPico), Among(toGateway', toGateway),
         pico'.cache \in {pico.cache, <<>>}, Entered' = Entered,
         \/ Called' = Called /\ (link'.ready => link'.generation = link.generation)
         \/ \E c : Called' = Called \cup {c} /\ c \notin Called
  PROVE  Recent'
<1> SUFFICES ASSUME link'.ready PROVE Recent'
  BY DEF Recent
<1>1. /\ link.ready /\ link'.sid = link.sid /\ Typed /\ Typed' /\ Current
      /\ sequence \in 0..(Modulus - 1)
  BY DEF IInv, Typed
<1>2. link.sid # 0
  BY <1>1, TypedParts DEF Current
<1>3. \A w : After(w)' = After(w)
  <2>1. ASSUME NEW u
        PROVE  /\ (\E v \in DOMAIN wire : v > u /\ wire[v].who \in Inputs)
                  = (\E v \in DOMAIN wire' : v > u /\ wire'[v].who \in Inputs)
               /\ (\E v \in DOMAIN wire : v > u /\ wire[v].who = "heartbeat")
                  = (\E v \in DOMAIN wire' : v > u /\ wire'[v].who = "heartbeat")
    OBVIOUS
  <2> QED BY <2>1 DEF After
<1>4. Reach \in Int /\ Reach' \in Int /\ Reach <= Reach'
  <2>1. After(0)' = After(0) /\ After(0) \in Nat
    BY <1>1, <1>3, AfterIs
  <2>2. One(Overtaken) \in 0..1 /\ One(Overtaken)' \in 0..1
    BY DEF One
  <2>3. Cardinality(Called) \in Nat /\ IsFiniteSet(Called)
    BY CountsAre
  <2>4. CASE Called' = Called /\ link'.generation = link.generation
    <3>1. Overtaken' => Overtaken
      BY <2>4 DEF Overtaken
    <3>2. One(Overtaken)' <= One(Overtaken)
      BY <3>1 DEF One
    <3> QED BY <2>1, <2>2, <2>3, <2>4, <3>2 DEF Reach
  <2>5. CASE \E c : Called' = Called \cup {c} /\ c \notin Called
    <3>1. Cardinality(Called') = Cardinality(Called) + 1
      <4>1. PICK c : Called' = Called \cup {c} /\ c \notin Called
        BY <2>5
      <4>2. Cardinality(Called \cup {c}) = Cardinality(Called) + 1
        BY <2>3, <4>1, FS_AddElement
      <4> QED BY <4>1, <4>2
    <3> QED BY <2>1, <2>2, <2>3, <3>1 DEF Reach
  <2> QED BY <2>4, <2>5
<1>5. ASSUME NEW q, Within(sequence, q, Reach) PROVE Within(sequence', q, Reach')
  BY <1>1, <1>4, <1>5, WithinMore
<1>6. \A w \in DOMAIN wire' : \A k \in DOMAIN wire'[w].lines :
        Within(sequence', wire'[w].lines[k].seq, 1 + After(w)')
  BY <1>1, <1>3 DEF Recent
<1>7. \A i \in DOMAIN toPico' : toPico'[i].sid = link'.sid /\ toPico'[i].seq # 0 =>
        Within(sequence', toPico'[i].seq, Reach')
  BY <1>1, <1>2, <1>5 DEF Recent, Among
<1>8. \A i \in DOMAIN toGateway' : toGateway'[i].sid = link'.sid /\ toGateway'[i].seq # 0 =>
        Within(sequence', toGateway'[i].seq, Reach')
  BY <1>1, <1>2, <1>5 DEF Recent, Among
<1>9. ASSUME NEW i \in DOMAIN pico'.cache,
             pico'.cache[i].sid = link'.sid, pico'.cache[i].seq # 0
      PROVE  Within(sequence', pico'.cache[i].seq,
                    Reach' + Len(pico'.cache) - i - One(Latest)')
  <2>1. pico'.cache = pico.cache
    BY <1>9
  <2>2. i \in Int /\ Len(pico.cache) \in Int
    BY <1>9, <2>1, TypedParts, LenProperties
  <2>3. Latest' <=> Latest
    <3>1. wire' # <<>> <=> wire # <<>>
      BY <1>1, NotEmpty DEF Typed
    <3>2. wire # <<>> => 1 \in DOMAIN wire
      BY <1>1, NotEmpty DEF Typed
    <3>3. HasBegun' <=> HasBegun
      BY <3>1, <3>2 DEF HasBegun
    <3>4. wire # <<>> => \A m : OfExchange(wire'[1], m) <=> OfExchange(wire[1], m)
      BY <3>2, OfSame
    <3> DEFINE m == pico.cache[Len(pico.cache)]
    <3>5. wire # <<>> => (OfExchange(wire'[1], pico'.cache[Len(pico'.cache)]) <=> OfExchange(wire[1], m))
      BY <2>1, <3>4
    <3>6. Latest <=> HasBegun /\ pico.cache # <<>> /\ OfExchange(wire[1], m)
      BY DEF Latest, Own
    <3>7. Latest' <=> HasBegun' /\ pico'.cache # <<>>
                     /\ OfExchange(wire'[1], pico'.cache[Len(pico'.cache)])
      BY DEF Latest, Own
    <3>8. HasBegun => wire # <<>>
      BY DEF HasBegun
    <3> HIDE DEF m
    <3> QED BY <2>1, <3>3, <3>5, <3>6, <3>7, <3>8
  <2>4. One(Latest)' = One(Latest) /\ One(Latest) \in Int
    BY <2>3 DEF One
  <2>5. Within(sequence, pico.cache[i].seq, Reach + Len(pico.cache) - i - One(Latest))
    BY <1>1, <1>9, <2>1 DEF Recent
  <2>6. /\ Reach + Len(pico.cache) - i - One(Latest) \in Int
        /\ Reach' + Len(pico.cache) - i - One(Latest) \in Int
        /\ Reach + Len(pico.cache) - i - One(Latest) <= Reach' + Len(pico.cache) - i - One(Latest)
    <3> DEFINE g == Len(pico.cache)
               o == One(Latest)
               h == Reach
               e == Reach'
    <3>1. g \in Int /\ i \in Int
      BY <2>2
    <3>2. o \in Int
      BY <2>4
    <3>3. h \in Int /\ e \in Int /\ h <= e
      BY <1>4
    <3> HIDE DEF g, o, h, e
    <3>4. h + g - i - o \in Int /\ e + g - i - o \in Int /\ h + g - i - o <= e + g - i - o
      BY <3>1, <3>2, <3>3
    <3> QED BY <3>4 DEF g, o, h, e
  <2>7. Within(sequence, pico.cache[i].seq, Reach' + Len(pico.cache) - i - One(Latest))
    BY <1>1, <2>5, <2>6, WithinMore
  <2> QED BY <2>1, <2>4, <2>7
<1> QED BY <1>6, <1>7, <1>8, <1>9 DEF Recent

LEMMA CallerRecent ==
  ASSUME IInv, IInv', Recent, RoomForReleases, NEW c \in Callers,
         \/ Call(c) \/ CallRelease(c) \/ WaitReadyFails(c) \/ EnterPublic(c)
         \/ SendPieces(c) /\ UNCHANGED <<wire, sequence>>
  PROVE  Recent'
<1>1. UNCHANGED <<sequence, wire, toPico, toGateway, pico>>
  BY DEF Call, CallRelease, WaitReadyFails, EnterPublic, SendPieces, uart
<1>2. link'.ready = link.ready /\ link'.sid = link.sid
  BY DEF Call, CallRelease, WaitReadyFails, EnterPublic, SendPieces, IInv, Typed, LinkType
<1>3. pc \in [Callers -> Places] /\ Inputs \cap Releases = {}
  BY SerialAssumption DEF IInv, Typed
<1>4. CASE WaitReadyFails(c)
  BY <1>2, <1>4 DEF WaitReadyFails, Recent
<1>5. CASE CallRelease(c)
  <2>1. c \in Releases /\ pc[c] = "idle" /\ pc' = [pc EXCEPT ![c] = "entering"]
    BY <1>5 DEF CallRelease
  <2>2. \A d \in Callers : pc'[d] = IF d = c THEN "entering" ELSE pc[d]
    BY <1>3, <2>1
  <2>3. Called' = Called \cup {c} /\ c \notin Called
    BY <2>1, <2>2 DEF Called, Callers
  <2>4. Entered' = Entered
    BY <2>1, <2>2 DEF Entered, Callers
  <2> QED BY <1>1, <1>2, <2>3, <2>4, AmongItself, StillRecent
<1>6. CASE Call(c) \/ EnterPublic(c) \/ (SendPieces(c) /\ UNCHANGED <<wire, sequence>>)
  <2>1. c \in Inputs /\ link' = link
    BY <1>6 DEF Call, EnterPublic, SendPieces
  <2>2. PICK r : pc' = [pc EXCEPT ![c] = r]
    BY <1>6 DEF Call, EnterPublic, SendPieces
  <2>3. \A d \in Releases : pc'[d] = pc[d]
    BY <1>3, <2>1, <2>2 DEF Callers
  <2>4. Called' = Called /\ Entered' = Entered
    BY <2>3 DEF Called, Entered
  <2> QED BY <1>1, <1>2, <2>1, <2>4, AmongItself, StillRecent
<1> QED BY <1>4, <1>5, <1>6

LEMMA PicoGoneRecent ==
  ASSUME IInv, IInv', Recent, RoomForReleases, PicoReleases \/ PicoRestarts \/ UartFault
  PROVE  Recent'
<1>1. /\ UNCHANGED <<link, sequence, pc, wire>>
      /\ pico'.cache \in {pico.cache, <<>>}
      /\ Among(toPico', toPico) /\ Among(toGateway', toGateway)
  BY PicoGoneIs, UartFaultIs
<1>2. Called' = Called /\ Entered' = Entered
  BY <1>1 DEF Called, Entered
<1> QED BY <1>1, <1>2, StillRecent

LEMMA ReadRecent == ASSUME IInv, IInv', Recent, RoomForReleases, ReadLine PROVE Recent'
<1> DEFINE m == toGateway[1]
           a == link.acknowledged \/ (IsMine(m) /\ m.kind = "ack" /\ m.seq = 0)
           s == wire[1].answered \cup {m.seq}
           k == wire[1].nacked \/ m.kind = "nack"
<1>1. /\ toGateway # <<>> /\ toGateway' = Tail(toGateway)
      /\ UNCHANGED <<sequence, pc, toPico, pico>>
      /\ toGateway \in Seq(MessageType) /\ wire \in Seq(ExchangeType) /\ link \in LinkType
  BY DEF ReadLine, callers, IInv, Typed
<1>2. Head(toGateway) = m
  BY <1>1, NotEmpty
<1>3. /\ link' = IF IsFatal(m) THEN [Unhealthy(link) EXCEPT !.reading = FALSE]
                 ELSE [link EXCEPT !.acknowledged = a]
      /\ \/ wire' = wire
         \/ wire # <<>> /\ wire' = [wire EXCEPT ![1].answered = s, ![1].nacked = k]
  <2>1. link' = IF IsFatal(m) THEN [Unhealthy(link) EXCEPT !.reading = FALSE]
                ELSE [link EXCEPT !.acknowledged = a]
    BY <1>1, <1>2 DEF ReadLine
  <2>2. wire' = IF IsMine(m) /\ Awaited(m)
                THEN [wire EXCEPT ![1].answered = @ \cup {m.seq},
                                  ![1].nacked = @ \/ m.kind = "nack"]
                ELSE wire
    BY <1>1, <1>2 DEF ReadLine
  <2>3. Awaited(m) => wire # <<>>
    BY DEF Awaited
  <2> QED BY <2>1, <2>2, <2>3
<1> HIDE DEF m, a, s, k
<1>5. link'.ready => link.ready /\ link'.sid = link.sid /\ link'.generation = link.generation
  <2>1. CASE IsFatal(m)
    <3>1. Unhealthy(link) \in LinkType /\ ~Unhealthy(link).ready
      BY <1>1, Unhealthier
    <3> DEFINE u == Unhealthy(link)
    <3>2. link' = [u EXCEPT !.reading = FALSE]
      BY <1>3, <2>1
    <3> HIDE DEF u
    <3>3. ~link'.ready
      BY <3>1, <3>2 DEF LinkType, u
    <3> QED BY <3>3
  <2>2. CASE ~IsFatal(m)
    <3>1. link' = [link EXCEPT !.acknowledged = a]
      BY <1>3, <2>2
    <3> QED BY <1>1, <3>1 DEF LinkType
  <2> QED BY <2>1, <2>2
<1>6. /\ DOMAIN wire' = DOMAIN wire
      /\ \A w \in DOMAIN wire :
           /\ wire'[w].who = wire[w].who /\ wire'[w].sid = wire[w].sid
           /\ wire'[w].gen = wire[w].gen /\ wire'[w].lines = wire[w].lines
           /\ wire'[w].attempt = wire[w].attempt
  <2>1. CASE wire' = wire
    BY <2>1
  <2>2. CASE wire # <<>> /\ wire' = [wire EXCEPT ![1].answered = s, ![1].nacked = k]
    <3>1. 1 \in DOMAIN wire /\ wire[1] \in ExchangeType
      BY <1>1, <2>2, NotEmpty
    <3> DEFINE y == [wire[1] EXCEPT !.answered = s, !.nacked = k]
    <3>2. /\ y.who = wire[1].who /\ y.sid = wire[1].sid /\ y.gen = wire[1].gen
          /\ y.lines = wire[1].lines /\ y.attempt = wire[1].attempt
      BY <3>1 DEF ExchangeType
    <3>3. wire' = [wire EXCEPT ![1] = y]
      BY <2>2, <3>1 DEF ExchangeType
    <3> HIDE DEF y
    <3>4. /\ DOMAIN wire' = DOMAIN wire /\ wire'[1] = y
          /\ \A i \in DOMAIN wire : i # 1 => wire'[i] = wire[i]
      BY <3>1, <3>3
    <3> QED BY <3>2, <3>4
  <2> QED BY <1>3, <2>1, <2>2
<1>7. Called' = Called /\ Entered' = Entered
  BY <1>1 DEF Called, Entered
<1>8. Among(toPico', toPico) /\ Among(toGateway', toGateway)
  BY <1>1, AmongItself, AmongTail
<1> QED BY <1>1, <1>5, <1>6, <1>7, <1>8, StillRecent

LEMMA SupervisorRecent == ASSUME IInv, Open \/ Teardown PROVE Recent'
<1>1. link \in LinkType /\ (link.ready => link.phase = "up")
  BY DEF IInv, Typed, Current
<1>2. CASE Open
  <2>1. ~link.ready /\ link'.ready = link.ready
    BY <1>1, <1>2 DEF Open, LinkType
  <2> QED BY <2>1 DEF Recent
<1>3. CASE Teardown
  <2>1. ~link'.ready
    BY <1>1, <1>3 DEF Teardown, LinkType
  <2> QED BY <2>1 DEF Recent
<1> QED BY <1>2, <1>3

(* The same exchanges wait for the wire, of the same generations. *)
LEMMA SameReach ==
  ASSUME DOMAIN wire' = DOMAIN wire, link'.generation = link.generation,
         \A w \in DOMAIN wire : wire'[w].who = wire[w].who /\ wire'[w].gen = wire[w].gen,
         Called' = Called, Entered' = Entered
  PROVE  (\A w : After(w)' = After(w)) /\ Reach' = Reach
<1>1. \A w : After(w)' = After(w)
  <2>1. ASSUME NEW u
        PROVE  /\ (\E v \in DOMAIN wire : v > u /\ wire[v].who \in Inputs)
                  = (\E v \in DOMAIN wire' : v > u /\ wire'[v].who \in Inputs)
               /\ (\E v \in DOMAIN wire : v > u /\ wire[v].who = "heartbeat")
                  = (\E v \in DOMAIN wire' : v > u /\ wire'[v].who = "heartbeat")
    OBVIOUS
  <2> QED BY <2>1 DEF After
<1>2. Overtaken' <=> Overtaken
  BY DEF Overtaken
<1>3. One(Overtaken)' = One(Overtaken)
  BY <1>2 DEF One
<1> QED BY <1>1, <1>3 DEF Reach

LEMMA WriteRecent ==
  ASSUME IInv, IInv', Traces, Recent, RoomForReleases, wire # <<>>,
         Head(wire).attempt \in {0, 1}, Write
  PROVE  Recent'
<1> DEFINE x == wire[1]
           y == [x EXCEPT !.attempt = x.attempt + 1]
           u == Unanswered(y)
<1>1. Typed /\ Current /\ Unseen /\ Mine /\ sequence \in 0..(Modulus - 1)
  BY DEF Traces, IInv, Typed
<1>2. Head(wire) = x /\ 1 \in DOMAIN wire /\ x \in ExchangeType /\ x.attempt \in {0, 1}
  BY <1>1, NotEmpty DEF Typed
<1>3. /\ wire' = [wire EXCEPT ![1] = y] /\ toPico' = toPico \o u
      /\ UNCHANGED <<link, sequence, pc, toGateway, pico>>
  BY <1>2 DEF Write, Rewritten, callers
<1>4. /\ y \in ExchangeType /\ y.who = x.who /\ y.sid = x.sid /\ y.lines = x.lines
      /\ y.gen = x.gen /\ y.attempt = x.attempt + 1
  BY <1>2 DEF ExchangeType
<1>5. /\ u \in Seq(LineType)
      /\ \A k \in DOMAIN u : \E i \in DOMAIN x.lines : u[k] = x.lines[i]
  <2> HIDE DEF y
  <2> QED BY <1>4, Written DEF Pending
<1> HIDE DEF u, y
<1>6. /\ DOMAIN wire' = DOMAIN wire /\ wire'[1] = y
      /\ \A w \in DOMAIN wire : w # 1 => wire'[w] = wire[w]
  BY <1>1, <1>3, <1>4, Replaced DEF Typed
<1>7. \A i \in DOMAIN toPico' : \/ i \in DOMAIN toPico /\ toPico'[i] = toPico[i]
                                \/ \E k \in DOMAIN x.lines : toPico'[i] = x.lines[k]
  <2>1. /\ \A i \in DOMAIN toPico : toPico'[i] = toPico[i]
        /\ \A i \in DOMAIN toPico' : i \notin DOMAIN toPico =>
             i - Len(toPico) \in DOMAIN u /\ toPico'[i] = u[i - Len(toPico)]
    BY <1>1, <1>3, <1>5, Joined DEF Typed
  <2> QED BY <1>5, <2>1
<1> SUFFICES ASSUME link'.ready PROVE Recent'
  BY DEF Recent
<1>8. link.ready
  BY <1>3
<1>9. \A w \in DOMAIN wire : wire'[w].who = wire[w].who /\ wire'[w].gen = wire[w].gen
                             /\ wire'[w].lines = wire[w].lines
  BY <1>4, <1>6
<1>10. (\A w : After(w)' = After(w)) /\ Reach' = Reach
  <2>1. Called' = Called /\ Entered' = Entered /\ link'.generation = link.generation
    BY <1>3 DEF Called, Entered
  <2> QED BY <1>6, <1>9, <2>1, SameReach
<1>11. ASSUME NEW k \in DOMAIN x.lines PROVE Within(sequence, x.lines[k].seq, Reach)
  <2>1. Within(sequence, x.lines[k].seq, 1 + After(1))
    BY <1>2, <1>8, <1>11 DEF Recent
  <2>2. 1 + After(1) \in Int /\ Reach \in Int /\ 1 + After(1) <= Reach
    <3>1. After(1) \in Nat /\ After(1) <= After(0) /\ After(0) \in Nat
      BY <1>1, AfterIs
    <3>2. Reach \in Nat /\ 2 + After(0) <= Reach
      BY <1>1, ReachIs
    <3> QED BY <3>1, <3>2
  <2> QED BY <1>1, <2>1, <2>2, WithinMore
<1>12. \A w \in DOMAIN wire' : \A k \in DOMAIN wire'[w].lines :
         Within(sequence', wire'[w].lines[k].seq, 1 + After(w)')
  BY <1>3, <1>6, <1>8, <1>9, <1>10 DEF Recent
<1>13. \A i \in DOMAIN toPico' : toPico'[i].sid = link'.sid /\ toPico'[i].seq # 0 =>
         Within(sequence', toPico'[i].seq, Reach')
  BY <1>3, <1>7, <1>8, <1>10, <1>11 DEF Recent
<1>14. \A i \in DOMAIN toGateway' : toGateway'[i].sid = link'.sid /\ toGateway'[i].seq # 0 =>
         Within(sequence', toGateway'[i].seq, Reach')
  BY <1>3, <1>8, <1>10 DEF Recent
<1>15. One(Latest)' = One(Latest)
  <2> DEFINE m == pico.cache[Len(pico.cache)]
  <2>1. Latest <=> HasBegun /\ pico.cache # <<>> /\ OfExchange(x, m)
    BY DEF Latest, Own
  <2>2. Latest' <=> HasBegun' /\ pico.cache # <<>> /\ OfExchange(wire'[1], m)
    <3>1. pico' = pico
      BY <1>3
    <3>2. Latest' <=> HasBegun' /\ pico'.cache # <<>>
                      /\ OfExchange(wire'[1], pico'.cache[Len(pico'.cache)])
      BY DEF Latest, Own
    <3> QED BY <3>1, <3>2
  <2>3. OfExchange(wire'[1], m) <=> OfExchange(x, m)
    BY <1>4, <1>6, OfSame
  <2>4. HasBegun' /\ (HasBegun <=> x.attempt = 1)
    <3>1. wire' # <<>> /\ wire'[1].attempt > 0
      BY <1>2, <1>4, <1>6
    <3> QED BY <1>2, <3>1 DEF HasBegun
  <2>5. x.attempt = 0 /\ pico.cache # <<>> => ~OfExchange(x, m)
    <3>1. pico.cache # <<>> => Len(pico.cache) \in DOMAIN pico.cache
      <4>1. pico.cache \in Seq(MessageType)
        BY TypedParts
      <4> QED BY <4>1, NotEmpty
    <3> QED BY <1>1, <1>2, <3>1 DEF Unseen
  <2> HIDE DEF m
  <2>6. Latest' <=> Latest
    BY <1>2, <2>1, <2>2, <2>3, <2>4, <2>5
  <2> QED BY <2>6 DEF One
<1>16. \A i \in DOMAIN pico'.cache :
         pico'.cache[i].sid = link'.sid /\ pico'.cache[i].seq # 0 =>
           Within(sequence', pico'.cache[i].seq, Reach' + Len(pico'.cache) - i - One(Latest)')
  <2>1. pico' = pico /\ link' = link /\ sequence' = sequence
    BY <1>3
  <2> QED BY <1>8, <1>10, <1>15, <2>1 DEF Recent
<1> QED BY <1>12, <1>13, <1>14, <1>16 DEF Recent

(* What is remembered keeps its order, and the oldest goes when there is no room. *)
LEMMA RememberedShifts ==
  ASSUME NEW cache \in Seq(MessageType), Len(cache) <= CacheSize, NEW m \in MessageType,
         NEW r, r = Remembered(cache, m)
  PROVE  \E d \in {0, 1} :
           /\ Len(r) = Len(cache) + 1 - d /\ DOMAIN r = 1..Len(r) /\ Len(r) \in Nat
           /\ Len(r) > 0 /\ r[Len(r)] = m
           /\ \A i \in DOMAIN r : i # Len(r) => i + d \in DOMAIN cache /\ r[i] = cache[i + d]
<1>1. CASE Len(cache) = CacheSize
  <2>1. cache # <<>>
    BY <1>1, SerialAssumption
  <2>2. /\ Tail(cache) \in Seq(MessageType) /\ Len(cache) \in Nat
        /\ Len(Tail(cache)) = Len(cache) - 1 /\ DOMAIN Tail(cache) = 1..(Len(cache) - 1)
        /\ \A i \in DOMAIN Tail(cache) : i + 1 \in DOMAIN cache /\ Tail(cache)[i] = cache[i + 1]
    BY <2>1, Shortened
  <2>3. /\ r = Append(Tail(cache), m) /\ Len(r) = Len(Tail(cache)) + 1
        /\ DOMAIN r = DOMAIN Tail(cache) \cup {Len(Tail(cache)) + 1}
        /\ \A i \in DOMAIN Tail(cache) : r[i] = Tail(cache)[i]
        /\ r[Len(Tail(cache)) + 1] = m
    BY <1>1, <2>2, Appended DEF Remembered
  <2>4. /\ Len(r) = Len(cache) + 1 - 1 /\ DOMAIN r = 1..Len(r) /\ Len(r) \in Nat /\ Len(r) > 0
        /\ r[Len(r)] = m
    BY <1>1, <2>2, <2>3, SerialAssumption
  <2>5. \A i \in DOMAIN r : i # Len(r) => i + 1 \in DOMAIN cache /\ r[i] = cache[i + 1]
    BY <2>2, <2>3
  <2> QED BY <2>4, <2>5
<1>2. CASE Len(cache) # CacheSize
  <2>1. /\ r = Append(cache, m) /\ Len(r) = Len(cache) + 1 /\ Len(cache) \in Nat
        /\ DOMAIN r = DOMAIN cache \cup {Len(cache) + 1} /\ DOMAIN cache = 1..Len(cache)
        /\ \A i \in DOMAIN cache : r[i] = cache[i]
        /\ r[Len(cache) + 1] = m
    BY <1>2, Appended, LenProperties DEF Remembered
  <2>2. /\ Len(r) = Len(cache) + 1 - 0 /\ DOMAIN r = 1..Len(r) /\ Len(r) \in Nat /\ Len(r) > 0
        /\ r[Len(r)] = m
    BY <2>1
  <2>3. \A i \in DOMAIN r : i # Len(r) => i + 0 \in DOMAIN cache /\ r[i] = cache[i + 0]
    BY <2>1
  <2> QED BY <2>2, <2>3
<1> QED BY <1>1, <1>2

LEMMA AnswerRecent ==
  ASSUME IInv, IInv', Recent, RoomForReleases, toPico # <<>>, toPico' = Tail(toPico),
         UNCHANGED <<link, sequence, pc, wire>>, PicoAnswers
  PROVE  Recent'
<1>1. PICK m \in MessageType :
        /\ m.sid = toPico[1].sid /\ m.seq = toPico[1].seq /\ toGateway' = Append(toGateway, m)
        /\ \/ pico'.cache = pico.cache
           \/ pico'.cache = Remembered(pico.cache, m) \/ pico'.cache = Remembered(<<>>, m)
  BY DEF PicoAnswers
<1>2. /\ Typed /\ sequence \in 0..(Modulus - 1) /\ pico.cache \in Seq(MessageType)
      /\ Len(pico.cache) <= CacheSize /\ 1 \in DOMAIN toPico
      /\ Len(pico.cache) \in Nat /\ DOMAIN pico.cache = 1..Len(pico.cache)
  BY TypedParts, NotEmpty, LenProperties DEF IInv, Typed, Limited
<1>3. (\A w : After(w)' = After(w)) /\ Reach' = Reach
  BY SameReach DEF Called, Entered
<1>4. Reach \in Nat /\ After(0) \in Nat /\ 2 + After(0) <= Reach
  BY <1>2, ReachIs
<1> SUFFICES ASSUME link'.ready PROVE Recent'
  BY DEF Recent
<1>5. link.ready
  OBVIOUS
<1>6. m.sid = link.sid /\ m.seq # 0 => Within(sequence, m.seq, Reach)
  BY <1>1, <1>2, <1>5 DEF Recent
<1>7. ASSUME HasBegun, OfExchange(wire[1], m) PROVE Within(sequence, m.seq, Reach - 1)
  <2>1. 1 \in DOMAIN wire
    BY <1>7, Positive
  <2>2. PICK k \in DOMAIN wire[1].lines : m.seq = wire[1].lines[k].seq
    BY <1>7 DEF OfExchange, NumbersOf
  <2>3. Within(sequence, m.seq, 1 + After(1))
    BY <1>5, <2>1, <2>2 DEF Recent
  <2>4. After(1) \in Nat /\ After(1) <= After(0)
    BY <1>2, AfterIs
  <2>5. 1 + After(1) \in Int /\ Reach - 1 \in Int /\ 1 + After(1) <= Reach - 1
    BY <1>4, <2>4
  <2> QED BY <1>2, <2>3, <2>5, WithinMore
<1>8. \A w \in DOMAIN wire' : \A k \in DOMAIN wire'[w].lines :
        Within(sequence', wire'[w].lines[k].seq, 1 + After(w)')
  BY <1>3, <1>5 DEF Recent
<1>9. \A i \in DOMAIN toPico' : toPico'[i].sid = link'.sid /\ toPico'[i].seq # 0 =>
        Within(sequence', toPico'[i].seq, Reach')
  <2>1. \A i \in DOMAIN toPico' : i + 1 \in DOMAIN toPico /\ toPico'[i] = toPico[i + 1]
    BY <1>2, Shortened DEF Typed
  <2> QED BY <1>3, <1>5, <2>1 DEF Recent
<1>10. \A i \in DOMAIN toGateway' : toGateway'[i].sid = link'.sid /\ toGateway'[i].seq # 0 =>
         Within(sequence', toGateway'[i].seq, Reach')
  <2>1. \A i \in DOMAIN toGateway' :
          \/ i \in DOMAIN toGateway /\ toGateway'[i] = toGateway[i]
          \/ toGateway'[i] = m
    BY <1>1, <1>2, Appended DEF Typed
  <2> QED BY <1>3, <1>5, <1>6, <2>1 DEF Recent
<1>11. One(Latest) \in 0..1 /\ One(Latest)' \in 0..1
  BY DEF One
<1>12. ASSUME NEW i \in DOMAIN pico'.cache,
              pico'.cache[i].sid = link'.sid, pico'.cache[i].seq # 0
       PROVE  Within(sequence', pico'.cache[i].seq,
                     Reach' + Len(pico'.cache) - i - One(Latest)')
  <2>1. CASE pico'.cache = pico.cache
    <3>1. Latest' <=> Latest
      BY <2>1 DEF Latest, HasBegun, Own
    <3>2. One(Latest)' = One(Latest)
      BY <3>1 DEF One
    <3> QED BY <1>3, <1>5, <1>12, <2>1, <3>2 DEF Recent
  <2>2. ASSUME pico'.cache # <<>>, pico'.cache[Len(pico'.cache)] = m, i = Len(pico'.cache),
               Len(pico'.cache) \in Nat
        PROVE  Within(sequence', pico'.cache[i].seq,
                      Reach' + Len(pico'.cache) - i - One(Latest)')
    <3>1. Reach' + Len(pico'.cache) - i - One(Latest)' = Reach - One(Latest)'
      BY ONLY <1>3, <1>4, <1>11, <2>2
    <3>2. CASE Latest'
      <4>1. HasBegun /\ OfExchange(wire[1], m)
        <5>1. HasBegun' /\ OfExchange(wire'[1], pico'.cache[Len(pico'.cache)])
          BY <3>2 DEF Latest, Own
        <5> QED BY <2>2, <5>1 DEF HasBegun
      <4>2. Within(sequence, m.seq, Reach - 1) /\ One(Latest)' = 1
        BY <1>7, <3>2, <4>1 DEF One
      <4> QED BY <2>2, <3>1, <4>2
    <3>3. CASE ~Latest'
      <4>1. One(Latest)' = 0 /\ Reach - 0 = Reach
        BY <1>4, <3>3 DEF One
      <4>2. Within(sequence, m.seq, Reach)
        BY <1>6, <1>12, <2>2
      <4>3. Reach' + Len(pico'.cache) - i - One(Latest)' = Reach
        BY <3>1, <4>1
      <4> QED BY <2>2, <4>2, <4>3
    <3> QED BY <3>2, <3>3
  <2>3. CASE pico'.cache = Remembered(pico.cache, m)
    <3> DEFINE r == pico'.cache
               g == Len(pico.cache)
    <3>1. PICK d \in {0, 1} :
            /\ Len(r) = g + 1 - d /\ DOMAIN r = 1..Len(r) /\ Len(r) \in Nat
            /\ Len(r) > 0 /\ r[Len(r)] = m
            /\ \A n \in DOMAIN r : n # Len(r) => n + d \in DOMAIN pico.cache
                                                /\ r[n] = pico.cache[n + d]
      <4>1. r = Remembered(pico.cache, m)
        BY <2>3
      <4> HIDE DEF r
      <4> QED BY <1>2, <4>1, RememberedShifts
    <3>2. CASE i = Len(r)
      <4>1. r # <<>>
        BY <3>1
      <4> QED BY <2>2, <3>1, <3>2, <4>1
    <3>3. CASE i # Len(r)
      <4>1. i + d \in DOMAIN pico.cache /\ r[i] = pico.cache[i + d] /\ i \in Nat
        BY <1>12, <3>1, <3>3
      <4>2. Within(sequence, r[i].seq, Reach + g - (i + d) - One(Latest))
        BY <1>5, <1>12, <4>1 DEF Recent
      <4>3. /\ Reach + g - (i + d) - One(Latest) \in Int
            /\ Reach + Len(r) - i - One(Latest)' \in Int
            /\ Reach + g - (i + d) - One(Latest) <= Reach + Len(r) - i - One(Latest)'
        <5> DEFINE o == One(Latest)
                   p == One(Latest)'
                   h == Reach
                   e == Len(r)
        <5>1. o \in 0..1 /\ p \in 0..1
          BY <1>11
        <5>2. h \in Nat /\ g \in Nat
          BY <1>2, <1>4
        <5>3. e = g + 1 - d /\ d \in {0, 1} /\ i \in Nat
          BY <3>1, <4>1
        <5> HIDE DEF o, p, h, g, e
        <5>4. /\ h + g - (i + d) - o \in Int /\ h + e - i - p \in Int
              /\ h + g - (i + d) - o <= h + e - i - p
          <6>1. o \in Int /\ p \in Int /\ h \in Int /\ g \in Int /\ i \in Int /\ d \in Int
            BY <5>1, <5>2, <5>3
          <6>2. 0 <= o /\ p <= 1 /\ e = g + 1 - d
            BY <5>1, <5>3
          <6> QED BY ONLY <6>1, <6>2
        <5> QED BY <5>4 DEF o, p, h, e
      <4>4. Within(sequence, r[i].seq, Reach + Len(r) - i - One(Latest)')
        BY <1>2, <4>2, <4>3, WithinMore
      <4> QED BY <1>3, <4>4
    <3> QED BY <3>2, <3>3
  <2>4. CASE pico'.cache = Remembered(<<>>, m)
    <3>1. <<>> \in Seq(MessageType) /\ Len(<<>>) <= CacheSize /\ Len(<<>>) = 0
      BY SerialAssumption
    <3>2. \A n \in DOMAIN <<>> : FALSE
      OBVIOUS
    <3> DEFINE r == pico'.cache
               s == <<>>
    <3>3. PICK d \in {0, 1} :
            /\ DOMAIN r = 1..Len(r) /\ Len(r) \in Nat
            /\ Len(r) > 0 /\ r[Len(r)] = m
            /\ \A n \in DOMAIN r : n # Len(r) => n + d \in DOMAIN s
      <4>1. r = Remembered(s, m) /\ s \in Seq(MessageType) /\ Len(s) <= CacheSize
        BY <2>4, <3>1
      <4> HIDE DEF r, s
      <4> QED BY <4>1, RememberedShifts
    <3>4. i = Len(r) /\ r # <<>>
      BY <1>12, <3>2, <3>3
    <3> QED BY <2>2, <3>3, <3>4
  <2> QED BY <1>1, <2>1, <2>3, <2>4
<1> QED BY <1>8, <1>9, <1>10, <1>12 DEF Recent

LEMMA PicoReadsRecent ==
  ASSUME IInv, IInv', Recent, RoomForReleases, PicoReads PROVE Recent'
<1>1. /\ toPico # <<>> /\ toPico' = Tail(toPico)
      /\ UNCHANGED <<link, sequence, pc, wire>>
  BY PicoReadsIs
<1>2. CASE /\ pico'.cache = pico.cache
           /\ Among(toGateway', toGateway) /\ Among(toPico', toPico)
  <2>1. Called' = Called /\ Entered' = Entered
    BY <1>1 DEF Called, Entered
  <2> QED BY <1>1, <1>2, <2>1, StillRecent
<1>3. CASE PicoAnswers
  BY <1>1, <1>3, AnswerRecent
<1> QED BY <1>2, <1>3, PicoReadsIs

(* The first exchange leaves the wire. *)
LEMMA AfterTail ==
  ASSUME Typed, wire # <<>>, wire' = Tail(wire), Entered' = Entered
  PROVE  \A w \in Nat : After(w)' = After(w + 1)
<1>1. /\ Len(wire) \in Nat /\ DOMAIN wire = 1..Len(wire) /\ DOMAIN wire' = 1..(Len(wire) - 1)
      /\ \A v \in DOMAIN wire' : wire'[v] = wire[v + 1]
  BY Shortened DEF Typed
<1>2. ASSUME NEW w \in Nat PROVE After(w)' = After(w + 1)
  <2>1. \A v \in DOMAIN wire' : v > w => v + 1 \in DOMAIN wire /\ v + 1 > w + 1
    BY <1>1
  <2>2. \A v \in DOMAIN wire : v > w + 1 =>
          v - 1 \in DOMAIN wire' /\ v - 1 > w /\ wire'[v - 1] = wire[v]
    <3> SUFFICES ASSUME NEW v \in DOMAIN wire, v > w + 1
                 PROVE  v - 1 \in DOMAIN wire' /\ v - 1 > w /\ wire'[v - 1] = wire[v]
      OBVIOUS
    <3>1. v - 1 \in DOMAIN wire' /\ v - 1 > w /\ (v - 1) + 1 = v
      BY <1>1
    <3> QED BY <1>1, <3>1
  <2>3. (\E v \in DOMAIN wire' : v > w /\ wire'[v].who \in Inputs)
        = (\E v \in DOMAIN wire : v > w + 1 /\ wire[v].who \in Inputs)
    BY <1>1, <2>1, <2>2
  <2>4. (\E v \in DOMAIN wire' : v > w /\ wire'[v].who = "heartbeat")
        = (\E v \in DOMAIN wire : v > w + 1 /\ wire[v].who = "heartbeat")
    BY <1>1, <2>1, <2>2
  <2> QED BY <2>3, <2>4 DEF After
<1> QED BY <1>2

LEMMA HeadCounts ==
  ASSUME IInv, RoomForReleases, wire # <<>>
  PROVE  /\ After(0) \in Nat /\ After(1) \in Nat /\ After(0) <= After(1) + 1
         /\ wire[1].who \notin Inputs /\ wire[1].who # "heartbeat" => After(0) = After(1)
         /\ wire[1].who \in Inputs => After(0) = After(1) + 1
<1>1. /\ 1 \in DOMAIN wire /\ DOMAIN wire = 1..Len(wire) /\ Len(wire) \in Nat
  BY NotEmpty DEF IInv, Typed
<1> DEFINE P(u) == \E v \in DOMAIN wire : v > u /\ wire[v].who \in Inputs
           H(u) == \E v \in DOMAIN wire : v > u /\ wire[v].who = "heartbeat"
<1>2. \A v \in DOMAIN wire : v > 0 /\ (v > 1 \/ v = 1)
  BY <1>1
<1>3. /\ P(0) <=> P(1) \/ wire[1].who \in Inputs
      /\ H(0) <=> H(1) \/ wire[1].who = "heartbeat"
  BY <1>1, <1>2
<1>4. wire[1].who \in Inputs => wire[1].who # "heartbeat" /\ ~P(1)
  <2>1. ASSUME wire[1].who \in Inputs, NEW v \in DOMAIN wire, v > 1, wire[v].who \in Inputs
        PROVE  FALSE
    <3>1. pc[wire[1].who] = "wire" /\ pc[wire[v].who] = "wire"
      BY <1>1, <2>1 DEF IInv, Queued, Callers
    <3>2. public[1] = wire[1].who /\ public[1] = wire[v].who
      BY <2>1, <3>1 DEF IInv, Queued
    <3>3. v = 1
      BY <1>1, <2>1, <3>2 DEF IInv, OneAtATime
    <3> QED BY <2>1, <3>3
  <2>2. "heartbeat" \notin Inputs
    BY SerialAssumption
  <2> QED BY <2>1, <2>2
<1> DEFINE c == Cardinality(Entered)
<1>5. c \in Nat
  BY CountsAre
<1>6. After(0) = One(P(0)) + One(H(0)) + c /\ After(1) = One(P(1)) + One(H(1)) + c
  BY DEF After
<1>8. wire[1].who \notin Inputs \/ wire[1].who # "heartbeat"
  BY <1>4
<1> DEFINE p0 == P(0)
           p1 == P(1)
           h0 == H(0)
           h1 == H(1)
<1>9. /\ p0 <=> p1 \/ wire[1].who \in Inputs
      /\ h0 <=> h1 \/ wire[1].who = "heartbeat"
      /\ wire[1].who \in Inputs => ~p1
      /\ After(0) = One(p0) + One(h0) + c /\ After(1) = One(p1) + One(h1) + c
  BY <1>3, <1>4, <1>6
<1> HIDE DEF P, H, c, p0, p1, h0, h1
<1> QED BY ONLY <1>5, <1>8, <1>9 DEF One

LEMMA EndRecent ==
  ASSUME IInv, IInv', Traces, Recent, RoomForReleases, wire # <<>>,
         NEW l \in {link, Unhealthy(link)}, NEW result \in Answers, Ends(l, result),
         result = "ok" => Answered(Head(wire)),
         \/ l = Unhealthy(link) \/ ~NotOvertaken(Head(wire)) \/ Answered(Head(wire))
         \/ ~link.ready \/ ~SameSession(Head(wire)),
         UNCHANGED <<sequence, toGateway, pico>>,
         toPico' = toPico \/ toPico' = Append(toPico, Spoilt)
  PROVE  Recent'
<1> DEFINE x == wire[1]
<1> SUFFICES ASSUME link'.ready PROVE Recent'
  BY DEF Recent
<1>1. /\ Distinct /\ InTurn /\ Present /\ Typed /\ OneAtATime /\ Current /\ Queued
      /\ sequence \in 0..(Modulus - 1) /\ pc \in [Callers -> Places]
  BY DEF Traces, IInv, Typed
<1>2. Head(wire) = x /\ 1 \in DOMAIN wire /\ x \in ExchangeType
  BY <1>1, NotEmpty DEF Typed
<1>3. /\ wire' = Tail(wire) /\ Len(wire) \in Nat /\ DOMAIN wire = 1..Len(wire)
      /\ DOMAIN wire' = 1..(Len(wire) - 1)
      /\ \A w \in DOMAIN wire' : w + 1 \in DOMAIN wire /\ wire'[w] = wire[w + 1] /\ w \in Nat
  BY <1>1, Shortened DEF Typed, Ends
<1>4. /\ link'.sid = link.sid /\ link' \in LinkType
      /\ link.ready \/ (x.who = "handshake" /\ result = "ok")
      /\ x.who = "handshake" => link.phase = "handshake"
      /\ link.sid # 0
  <2>1. /\ link'.sid = link.sid /\ link' \in LinkType /\ link'.phase = "up"
        /\ (link'.phase = "down" <=> link.phase = "down")
        /\ link.ready \/ (x.who = "handshake" /\ result = "ok")
    BY <1>2, LinkLeft
  <2>2. link.phase # "down"
    BY <2>1
  <2> QED BY <1>1, <1>2, <2>1, <2>2, TypedParts DEF Current, OneAtATime
<1>5. \A i \in DOMAIN toPico' : toPico'[i].sid = 0 \/ (i \in DOMAIN toPico /\ toPico'[i] = toPico[i])
  <2>1. Spoilt \in LineType /\ Spoilt.sid = 0
    BY DEF Spoilt, Line, LineType
  <2> HIDE DEF Spoilt
  <2>2. CASE toPico' = Append(toPico, Spoilt)
    BY <1>1, <2>1, <2>2, Appended DEF Typed
  <2> QED BY <2>2
<1>6. ~HasBegun'
  <2> SUFFICES ASSUME wire' # <<>>, wire'[1].attempt > 0 PROVE FALSE
    BY DEF HasBegun
  <2>1. wire' \in Seq(ExchangeType)
    BY <1>1, <1>3, Shortened DEF Typed
  <2>2. 1 \in DOMAIN wire'
    BY <2>1, NotEmpty
  <2>3. 2 \in DOMAIN wire /\ wire'[1] = wire[2]
    BY <1>3, <2>2
  <2> QED BY <1>1, <2>3 DEF OneAtATime
<1>7. CASE x.who = "handshake"
  <2>1. wire' = <<>> /\ DOMAIN wire' = {}
    <3>1. 1 = Len(wire)
      BY <1>1, <1>2, <1>7 DEF Present
    <3>2. wire' \in Seq(ExchangeType)
      BY <1>1, <1>3, Shortened DEF Typed
    <3>3. DOMAIN wire' = {}
      <4>1. Len(wire) - 1 = 0
        BY <3>1
      <4>2. 1..0 = {}
        OBVIOUS
      <4> QED BY <1>3, <4>1, <4>2
    <3> QED BY <3>2, <3>3, NotEmpty
  <2>2. /\ \A i \in DOMAIN toPico : toPico[i].sid = link.sid => toPico[i].seq = 0
        /\ \A i \in DOMAIN toGateway : toGateway[i].sid = link.sid => toGateway[i].seq = 0
        /\ \A i \in DOMAIN pico.cache : pico.cache[i].sid = link.sid => pico.cache[i].seq = 0
    BY <1>1, <1>4, <1>7 DEF Present
  <2>3. \A i \in DOMAIN toPico' : toPico'[i].sid = link'.sid => toPico'[i].seq = 0
    BY <1>4, <1>5, <2>2
  <2>4. \A i \in DOMAIN toGateway' : toGateway'[i].sid = link'.sid => toGateway'[i].seq = 0
    BY <1>4, <2>2
  <2>5. \A i \in DOMAIN pico'.cache : pico'.cache[i].sid = link'.sid => pico'.cache[i].seq = 0
    BY <1>4, <2>2
  <2> QED BY <2>1, <2>3, <2>4, <2>5 DEF Recent
<1>8. CASE x.who # "handshake"
  <2>1. link.ready /\ x.sid = link.sid
    BY <1>1, <1>2, <1>4, <1>8 DEF Present
  <2>2. /\ link' = link /\ l # Unhealthy(link)
        /\ x.who = "heartbeat" => result = "ok"
        /\ \A c \in Releases : c = x.who \/ pc'[c] = pc[c]
        /\ x.who \in Releases => pc' = [pc EXCEPT ![x.who] = result]
    <3>1. ~Unhealthy(l).ready /\ ~Unhealthy(link).ready
      <4>1. link \in LinkType
        BY <1>1 DEF Typed
      <4>2. l \in LinkType
        BY <4>1, Unhealthier
      <4> QED BY <4>1, <4>2, Unhealthier
    <3>2. CASE x.who = "heartbeat"
      <4>1. HeartbeatEnds(l, result) /\ x.who \notin Releases
        BY <1>2, <3>2, SerialAssumption DEF Ends, Callers
      <4>2. link' = (IF result = "ok" THEN l ELSE Unhealthy(l)) /\ pc' = pc
        BY <4>1 DEF HeartbeatEnds, HeartbeatLink, callers
      <4> QED BY <3>1, <4>1, <4>2
    <3>3. CASE x.who \in Releases
      <4>1. ReleaseEnds(x.who, l, result) /\ x.who # "heartbeat"
        BY <1>2, <1>8, <3>3, SerialAssumption DEF Ends, Callers
      <4>2. link' = l /\ pc' = [pc EXCEPT ![x.who] = result]
        BY <4>1 DEF ReleaseEnds
      <4> QED BY <1>1, <3>1, <4>1, <4>2 DEF Callers
    <3>4. CASE x.who \in Inputs
      <4>1. InputEnds(x.who, l, result) /\ x.who # "heartbeat" /\ x.who \notin Releases
        BY <1>2, <1>8, <3>4, SerialAssumption DEF Ends, Callers
      <4>2. link' = l /\ \E r : pc' = [pc EXCEPT ![x.who] = r]
        BY <4>1 DEF InputEnds
      <4> QED BY <1>1, <3>1, <4>1, <4>2 DEF Callers
    <3> QED BY <1>2, <1>8, <3>2, <3>3, <3>4 DEF ExchangeType, Whos, Callers
  <2>3. Called' = Called /\ Entered' = Entered
    <3>1. ASSUME NEW c \in Releases
          PROVE  /\ pc'[c] # "idle" <=> pc[c] # "idle"
                 /\ pc'[c] \notin {"idle", "entering"} <=> pc[c] \notin {"idle", "entering"}
      <4>1. CASE c # x.who
        BY <2>2, <4>1
      <4>2. CASE c = x.who
        <5>1. pc[c] = "wire" /\ c \in Callers
          BY <1>1, <1>2, <4>2 DEF Queued, Callers
        <5>2. pc'[c] = result
          BY <1>1, <2>2, <4>2, <5>1
        <5> QED BY <5>1, <5>2 DEF Answers
      <4> QED BY <4>1, <4>2
    <3> QED BY <3>1 DEF Called, Entered
  <2>4. \A w \in Nat : After(w)' = After(w + 1)
    BY <1>1, <1>3, <2>3, AfterTail
  <2>5. /\ After(0) \in Nat /\ After(1) \in Nat /\ After(0) <= After(1) + 1
        /\ x.who \notin Inputs /\ x.who # "heartbeat" => After(0) = After(1)
        /\ x.who \in Inputs => After(0) = After(1) + 1
        /\ After(0)' = After(1)
    <3>1. After(0)' = After(0 + 1) /\ 0 + 1 = 1
      BY <2>4
    <3> QED BY <3>1, HeadCounts
  <2>6. /\ Overtaken' => Overtaken
        /\ x.who \in Inputs /\ x.gen # link.generation => Overtaken /\ ~Overtaken'
    <3>1. Overtaken' => Overtaken
      BY <1>3, <2>2 DEF Overtaken
    <3>2. ASSUME x.who \in Inputs, NEW w \in DOMAIN wire', wire'[w].who \in Inputs PROVE FALSE
      <4>1. w + 1 \in DOMAIN wire /\ wire[w + 1].who \in Inputs
        BY <1>3, <3>2
      <4>2. public[1] = x.who /\ public[1] = wire[w + 1].who
        BY <1>1, <1>2, <3>2, <4>1 DEF Queued, Callers
      <4>3. 1 = w + 1
        BY <1>1, <1>2, <4>1, <4>2 DEF OneAtATime
      <4>4. w \in Nat /\ w > 0
        BY <1>3, <3>2
      <4> QED BY <4>3, <4>4
    <3> QED BY <1>2, <3>1, <3>2 DEF Overtaken
  <2>7. /\ Reach \in Nat /\ Reach' \in Nat /\ Reach - 1 <= Reach'
        /\ ~Answered(x) => Reach <= Reach'
        /\ 1 + After(1) <= Reach'
    <3> DEFINE o == One(Overtaken)
               p == One(Overtaken)'
               n == Cardinality(Called)
    <3>1. /\ o \in 0..1 /\ p \in 0..1 /\ p <= o /\ n \in Nat
          /\ x.who \in Inputs /\ x.gen # link.generation => o = 1 /\ p = 0
      <4>1. n \in Nat
        BY CountsAre
      <4> QED BY <2>6, <4>1 DEF One
    <3>2. Reach = 3 + n - o + After(0) /\ Reach' = 3 + n - p + After(1)
      BY <2>3, <2>5 DEF Reach
    <3> HIDE DEF o, p, n
    <3>3. Reach \in Nat /\ Reach' \in Nat /\ Reach - 1 <= Reach' /\ 1 + After(1) <= Reach'
      BY ONLY <2>5, <3>1, <3>2
    <3>4. ASSUME ~Answered(x) PROVE Reach <= Reach'
      <4>1. x.gen # link.generation /\ x.who # "heartbeat"
        BY <1>2, <2>1, <2>2, <3>4 DEF NotOvertaken, SameSession
      <4>2. x.who \in Inputs => o = 1 /\ p = 0 /\ After(0) = After(1) + 1
        BY <2>5, <3>1, <4>1
      <4>3. x.who \notin Inputs => After(0) = After(1)
        BY <2>5, <4>1
      <4> QED BY ONLY <2>5, <3>1, <3>2, <4>2, <4>3
    <3> QED BY <3>3, <3>4
  <2>8. ASSUME Answered(x)
        PROVE  /\ HasBegun
               /\ \A i \in DOMAIN toPico : toPico[i].op # "junk" => Own(toPico[i])
               /\ \A i \in DOMAIN toGateway : toGateway[i].sid = x.sid => Own(toGateway[i])
               /\ pico.cache # <<>> => Latest
    <3>1. x.attempt > 0 /\ \A k \in DOMAIN x.lines : x.lines[k].seq \in x.answered
      BY <1>2, <2>8 DEF Answered, Pending
    <3>2. x.lines # <<>> /\ x.lines \in Seq(LineType)
      BY <1>2, TypedParts DEF IInv, Addressed
    <3>3. 1 \in DOMAIN x.lines
      BY <3>2, NotEmpty
    <3>4. HasBegun /\ Shown /\ x.answered # {}
      BY <3>1, <3>3 DEF HasBegun, Shown
    <3> QED BY <1>1, <3>4 DEF InTurn, Latest
  <2>9. ASSUME NEW m, OfExchange(x, m) PROVE Within(sequence, m.seq, 1 + After(1))
    <3>1. PICK k \in DOMAIN x.lines : m.seq = x.lines[k].seq
      BY <2>9 DEF OfExchange, NumbersOf
    <3> QED BY <1>2, <2>1, <3>1 DEF Recent
  <2>10. ASSUME NEW q, Within(sequence, q, 1 + After(1)) PROVE Within(sequence', q, Reach')
    <3>1. 1 + After(1) \in Int /\ Reach' \in Int /\ 1 + After(1) <= Reach'
      BY <2>5, <2>7
    <3> QED BY <1>1, <2>10, <3>1, WithinMore
  <2>11. ASSUME ~Answered(x), NEW q, Within(sequence, q, Reach) PROVE Within(sequence', q, Reach')
    <3>1. Reach \in Int /\ Reach' \in Int /\ Reach <= Reach'
      BY <2>7, <2>11
    <3> QED BY <1>1, <2>11, <3>1, WithinMore
  <2>12. \A w \in DOMAIN wire' : \A k \in DOMAIN wire'[w].lines :
           Within(sequence', wire'[w].lines[k].seq, 1 + After(w)')
    BY <1>3, <2>1, <2>4 DEF Recent
  <2>13. ASSUME NEW i \in DOMAIN toPico', toPico'[i].sid = link'.sid, toPico'[i].seq # 0
         PROVE  Within(sequence', toPico'[i].seq, Reach')
    <3>1. i \in DOMAIN toPico /\ toPico'[i] = toPico[i] /\ toPico[i].sid # 0
      BY <1>4, <1>5, <2>13
    <3>2. toPico[i].op # "junk"
      <4>1. Spoilt.sid = 0
        BY DEF Spoilt, Line
      <4> QED BY <3>1, <4>1 DEF IInv, Sorted
    <3>3. CASE Answered(x)
      BY <2>8, <2>9, <2>10, <3>1, <3>2, <3>3 DEF Own
    <3>4. CASE ~Answered(x)
      <4>1. Within(sequence, toPico[i].seq, Reach)
        BY <1>4, <2>1, <2>13, <3>1 DEF Recent
      <4> QED BY <2>11, <3>1, <3>4, <4>1
    <3> QED BY <3>3, <3>4
  <2>14. ASSUME NEW i \in DOMAIN toGateway, toGateway[i].sid = link.sid, toGateway[i].seq # 0
         PROVE  Within(sequence', toGateway[i].seq, Reach')
    <3>1. CASE Answered(x)
      BY <2>1, <2>8, <2>9, <2>10, <2>14, <3>1 DEF Own
    <3>2. CASE ~Answered(x)
      <4>1. Within(sequence, toGateway[i].seq, Reach)
        BY <2>1, <2>14 DEF Recent
      <4> QED BY <2>11, <3>2, <4>1
    <3> QED BY <3>1, <3>2
  <2>15. ASSUME NEW i \in DOMAIN pico.cache, pico.cache[i].sid = link.sid, pico.cache[i].seq # 0
         PROVE  Within(sequence', pico.cache[i].seq, Reach' + Len(pico.cache) - i - One(Latest)')
    <3> DEFINE g == Len(pico.cache)
               o == One(Latest)
               h == Reach
               e == Reach'
    <3>1. One(Latest)' = 0
      BY <1>6 DEF Latest, One
    <3>2. g \in Int /\ i \in Int /\ pico.cache # <<>>
      <4>1. pico.cache \in Seq(MessageType)
        BY TypedParts
      <4> QED BY <2>15, <4>1, LenProperties
    <3>3. Within(sequence, pico.cache[i].seq, h + g - i - o)
      BY <2>1, <2>15 DEF Recent
    <3>4. h \in Int /\ e \in Int /\ o \in Int /\ h - o <= e
      <4>1. o \in 0..1 /\ (Answered(x) => o = 1)
        BY <2>8, <3>2 DEF One
      <4>2. h \in Nat /\ e \in Nat /\ h - 1 <= e /\ (~Answered(x) => h <= e)
        BY <2>7
      <4> HIDE DEF o, h, e
      <4> QED BY <4>1, <4>2
    <3>5. Reach' + Len(pico.cache) - i - One(Latest)' = e + g - i - 0
      BY <3>1
    <3> HIDE DEF g, o, h, e
    <3>6. h + g - i - o \in Int /\ e + g - i - 0 \in Int /\ h + g - i - o <= e + g - i - 0
      BY <3>2, <3>4
    <3> QED BY <1>1, <3>3, <3>5, <3>6, WithinMore
  <2>16. \A i \in DOMAIN toGateway' : toGateway'[i].sid = link'.sid /\ toGateway'[i].seq # 0 =>
           Within(sequence', toGateway'[i].seq, Reach')
    BY <2>2, <2>14
  <2>17. \A i \in DOMAIN pico'.cache : pico'.cache[i].sid = link'.sid /\ pico'.cache[i].seq # 0 =>
           Within(sequence', pico'.cache[i].seq, Reach' + Len(pico'.cache) - i - One(Latest)')
    BY <2>2, <2>15
  <2> QED BY <2>12, <2>13, <2>16, <2>17 DEF Recent
<1> QED BY <1>7, <1>8

LEMMA GivesUpRecent ==
  ASSUME IInv, IInv', Traces, Recent, RoomForReleases, wire # <<>>,
         NEW l \in {link, Unhealthy(link)}, NEW result \in Answers, GivesUp(l, result),
         result = "ok" => Answered(Head(wire)),
         \/ l = Unhealthy(link) \/ ~NotOvertaken(Head(wire)) \/ Answered(Head(wire))
         \/ ~link.ready \/ ~SameSession(Head(wire))
  PROVE  Recent'
BY EndRecent DEF GivesUp, uart

LEMMA FailedWriteRecent ==
  ASSUME IInv, IInv', Traces, Recent, RoomForReleases, wire # <<>>, WriteFails PROVE Recent'
<1>1. "unknown" \in Answers
  BY DEF Answers
<1> QED BY <1>1, EndRecent DEF WriteFails

LEMMA WireRecent ==
  ASSUME IInv, IInv', Traces, Recent, RoomForReleases, Wire PROVE Recent'
<1>1. {"interrupted", "unavailable", "unknown", "ok", "nack"} \subseteq Answers
  BY DEF Answers
<1>2. CASE FirstAttempt
  <2>1. wire # <<>> /\ Head(wire).attempt = 0
    BY <1>2 DEF FirstAttempt
  <2>2. CASE ~NotOvertaken(Head(wire)) /\ GivesUp(link, "interrupted")
    BY <1>1, <2>1, <2>2, GivesUpRecent
  <2>3. CASE /\ (Head(wire).who # "handshake" /\ ~link.ready) \/ ~SameSession(Head(wire))
             /\ GivesUp(link, "unavailable")
    BY <1>1, <2>1, <2>3, GivesUpRecent
  <2>4. CASE Write
    BY <2>1, <2>4, WriteRecent
  <2>5. CASE WriteFails
    BY <2>1, <2>5, FailedWriteRecent
  <2> QED BY <1>2, <2>2, <2>3, <2>4, <2>5 DEF FirstAttempt
<1>3. CASE SecondAttempt
  <2>1. wire # <<>> /\ Head(wire).attempt = 1
    BY <1>3 DEF SecondAttempt
  <2>2. CASE /\ ~(NotOvertaken(Head(wire)) /\ link.ready)
             /\ GivesUp(link, "interrupted") \/ GivesUp(link, "unknown")
    BY <1>1, <2>1, <2>2, GivesUpRecent
  <2>3. CASE Write
    BY <2>1, <2>3, WriteRecent
  <2>4. CASE WriteFails
    BY <2>1, <2>4, FailedWriteRecent
  <2> QED BY <1>3, <2>2, <2>3, <2>4 DEF SecondAttempt
<1>4. CASE AckTimeout
  <2>1. /\ wire # <<>>
        /\ \/ ~NotOvertaken(Head(wire)) /\ GivesUp(link, "interrupted")
           \/ GivesUp(Unhealthy(link), "unknown")
    BY <1>4 DEF AckTimeout, AfterTimeout
  <2> QED BY <1>1, <2>1, GivesUpRecent
<1>5. CASE Complete
  <2>1. wire # <<>> /\ Answered(Head(wire))
    BY <1>5 DEF Complete
  <2>2. PICK result \in {"nack", "interrupted", "ok"} : GivesUp(link, result)
    BY <1>5 DEF Complete
  <2> QED BY <1>1, <2>1, <2>2, GivesUpRecent
<1>6. CASE SessionEnded
  <2>1. wire # <<>> /\ ~SameSession(Head(wire))
    BY <1>6 DEF SessionEnded
  <2>2. CASE GivesUp(link, "unknown")
    BY <1>1, <2>1, <2>2, GivesUpRecent
  <2>3. CASE Ends(Unhealthy(link), "unknown") /\ UNCHANGED <<sequence, uart, pico, executed>>
    BY <1>1, <2>1, <2>3, EndRecent DEF uart
  <2> QED BY <1>6, <2>2, <2>3 DEF SessionEnded
<1> QED BY <1>2, <1>3, <1>4, <1>5, <1>6 DEF Wire

---------------------------------------------------------
(* The invariant of the specification, with the traces. *)

LEMMA InitKInv == Init => KInv
<1> SUFFICES ASSUME Init PROVE KInv
  OBVIOUS
<1>1. /\ wire = <<>> /\ toPico = <<>> /\ toGateway = <<>> /\ pico.cache = <<>>
      /\ executed = <<>> /\ link.phase = "down" /\ ~link.ready
      /\ \A c \in Inputs : done[c] = 0
  BY DEF Init
<1>2. DOMAIN wire = {} /\ DOMAIN toPico = {} /\ 1..0 = {}
  BY <1>1, EmptySeq
<1>3. ~HasBegun
  BY <1>1 DEF HasBegun
<1>4. Distinct /\ Unseen /\ Fenced /\ Present /\ Recent
  BY <1>1, <1>2, <1>3 DEF Distinct, Unseen, Fenced, Present, Recent
<1>5. Mine /\ InTurn /\ Genuine
  BY <1>1, <1>2, <1>3 DEF Mine, InTurn, Genuine
<1> QED BY <1>4, <1>5 DEF KInv

LEMMA StepKInv ==
  ASSUME RoomForReleases PROVE IInv /\ JInv /\ KInv /\ [Next]_vars => KInv'
<1> SUFFICES ASSUME IInv, JInv, KInv, [Next]_vars PROVE Traces' /\ Recent'
  BY DEF KInv, Traces
<1>a. IInv' /\ Traces /\ Recent
  BY StepIInv DEF KInv, Traces
<1>1. ASSUME NEW c \in Callers, Call(c) \/ CallRelease(c) PROVE Traces' /\ Recent'
  BY <1>a, <1>1, CallerTraces, CallerRecent
<1>2. ASSUME NEW c \in Callers, Caller(c) PROVE Traces' /\ Recent'
  <2>1. CASE WaitReadyFails(c) \/ EnterPublic(c)
    BY <1>a, <2>1, CallerTraces, CallerRecent
  <2>2. CASE EnterRelease(c)
    BY <1>a, <2>2, EnterReleaseRecent
  <2>3. CASE SendPieces(c) /\ UNCHANGED <<wire, sequence>>
    BY <1>a, <2>3, CallerTraces, CallerRecent
  <2>4. CASE SendPieces(c) /\ ~UNCHANGED <<wire, sequence>>
    BY <1>a, <2>4, SendPiecesRecent
  <2> QED BY <1>2, <2>1, <2>2, <2>3, <2>4 DEF Caller
<1>3. CASE Heartbeat
  BY <1>a, <1>3, HeartbeatRecent
<1>4. CASE Wire
  BY <1>a, <1>4, WireTraces, WireRecent
<1>5. CASE Open
  BY <1>a, <1>5, OpenTraces, SupervisorRecent
<1>6. CASE Teardown
  BY <1>a, <1>6, TeardownTraces, SupervisorRecent
<1>7. CASE ReadLine
  BY <1>a, <1>7, ReadTraces, ReadRecent
<1>8. CASE PicoReads
  BY <1>a, <1>8, PicoReadsTraces, PicoReadsRecent
<1>9. CASE PicoReleases \/ PicoRestarts
  BY <1>a, <1>9, PicoGoneTraces, PicoGoneRecent
<1>10. CASE UartFault
  BY <1>a, <1>10, UartFaultTraces, PicoGoneRecent
<1>11. CASE UNCHANGED vars
  <2>1. /\ UNCHANGED <<link, sequence, pc, done, wire, toPico, toGateway, pico>>
        /\ UNCHANGED <<executed, fence>>
    BY <1>11 DEF vars
  <2>2. Called' = Called /\ Entered' = Entered
    BY <2>1 DEF Called, Entered
  <2> QED BY <1>a, <2>1, <2>2, AmongItself, StillTraces, StillRecent
<1> QED BY <1>1, <1>2, <1>3, <1>4, <1>5, <1>6, <1>7, <1>8, <1>9, <1>10, <1>11 DEF Next

LEMMA TracesInvariant == ASSUME RoomForReleases PROVE Spec => []KInv
<1>1. Init => KInv
  BY InitKInv
<1>2. IInv /\ JInv /\ KInv /\ [Next]_vars => KInv'
  BY StepKInv
<1> QED BY <1>1, <1>2, Invariant, PiecesInvariant, PTL DEF Spec

(* What a caller is told was acknowledged has been executed, for any number of
   callers, pieces, heartbeats, faults and sessions: an answer of an earlier session
   is not taken for one of this, and none of an earlier round of sequence numbers is
   left, in the UART or in the Pico's cache, when its number is taken again. *)
THEOREM AckedWasExecuted == ASSUME RoomForReleases PROVE Spec => []AckedIsExecuted
<1>1. KInv => AckedIsExecuted
  <2> SUFFICES ASSUME KInv, NEW c \in Inputs, NEW i \in 1..done[c]
               PROVE  \E j \in DOMAIN executed : executed[j].unit = <<c, i>>
    BY DEF AckedIsExecuted
  <2>1. <<c, i>> \in Finished
    BY DEF KInv, Genuine
  <2> QED BY <2>1 DEF Finished
<1> QED BY <1>1, TracesInvariant, PTL

(* Once an emergency release is acknowledged, nothing that was asked for before it
   is executed any more: neither what is queued, nor what is on the wire, nor what
   is in the UART and may be written a second time. *)
THEOREM ReleaseFinal == ASSUME RoomForReleases PROVE Spec => ReleaseIsFinal
<1>1. IInv /\ KInv /\ [Next]_vars => [executed' # executed => Last(executed').gen >= fence]_vars
  <2> SUFFICES ASSUME IInv, KInv, [Next]_vars, executed' # executed
               PROVE  Last(executed').gen >= fence
    OBVIOUS
  <2>1. PicoReads
    BY DEF Next, vars, Call, CallRelease, Caller, WaitReadyFails, EnterPublic, EnterRelease,
           SendPieces, Heartbeat, Wire, FirstAttempt, SecondAttempt, AckTimeout, Complete,
           SessionEnded, GivesUp, Write, WriteFails, Open, Teardown, ReadLine, PicoReleases,
           PicoRestarts, UartFault, Loses, history
  <2>2. /\ Head(toPico) = toPico[1] /\ 1 \in DOMAIN toPico /\ toPico[1] \in LineType
        /\ executed \in Seq(LineType)
    BY <2>1, LineTaken DEF PicoReads, IInv, Typed
  <2>3. Execute(toPico[1])
    BY <2>1, <2>2 DEF PicoReads, Malformed, Repeat, OpenSession, Refuse
  <2>4. toPico[1].op = "input" /\ executed' = Append(executed, toPico[1])
    BY <2>3 DEF Execute
  <2>5. Last(executed') = toPico[1]
    BY <2>2, <2>4, Appended DEF Last
  <2> QED BY <2>2, <2>4, <2>5 DEF KInv, Fenced
<1> QED BY <1>1, Invariant, TracesInvariant, PTL DEF Spec, ReleaseIsFinal
=============================================================================
