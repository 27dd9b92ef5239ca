----------------------------- MODULE RuntimeProofs -----------------------------
(***************************************************************************)
(* The Rust runtime, and acl on it: for any number of workers, any         *)
(* traffic, any queue and any burst, whatever fails and whoever leaves the *)
(* fanout group.                                                           *)
(*                                                                         *)
(* Invariants, each on top of the ones before it.  IInv: a worker          *)
(* sends only after run() has opened every socket (OpenBeforeWork), so     *)
(* nothing it sends has an echo, and what makes a late frame the business  *)
(* of one worker is where its copies are, queues included (OneHolder).     *)
(* BufInv: a burst that appears is one that rx_burst() has just written.   *)
(* Ordered and Ledger: what a worker has sent is older than its burst, and *)
(* that is older than its queue, so that it counts no frame twice.         *)
(* GroupInv: while nobody has left the group, every late frame is with the *)
(* worker it hashes to, and what a full queue refused is a loss.           *)
(* TallyInv: what is left in a buffer is a frame of the same worker.       *)
(* WireInv: what is on the wire are the frames that count as sent.         *)
(***************************************************************************)
EXTENDS AclRuntime, SequenceTheorems, SumProofs

Clean  == [id : Frames, sent : {FALSE}]
Places == {"none", "setup", "loop", "rx", "tx", "report", "close", "gone"}

Types ==
  /\ sock \in [Workers -> {"none", "created", "bound", "quiet", "member", "closed"}]
  /\ worker \in [Workers -> Places]
  /\ queue \in [Workers -> Seq(Clean)]
  /\ burst \in [Workers -> Seq(Clean)]
  /\ arrived \in Nat
  /\ main \in {"open", "spawn", "join", "exited", "failed"}

OpenBeforeWork ==
  /\ main \in {"spawn", "join", "exited"} => \A w \in Workers : sock[w] \in {"member", "closed"}
  /\ \A w \in Workers : worker[w] # "none" => main \in {"spawn", "join", "exited"}

LEMMA FramesAreNumbers == Frames \subseteq Nat \ {0}
BY DEF Frames

\* A copy of frame f is queued at worker w, or w has processed it.
Holds(w, f) == (\E i \in DOMAIN queue[w] : queue[w][i].id = f) \/ <<w, f>> \in handled

OneHolder ==
  /\ main = "open" => early = arrived
  /\ handled \subseteq Workers \X Frames
  /\ \A w \in Workers, f \in Nat : Holds(w, f) =>
       /\ f <= arrived
       /\ Late(f) => /\ Traffic[f].iface = "nf"
                     /\ \A v \in Workers : Holds(v, f) => v = w

IInv == Types /\ OpenBeforeWork /\ OneHolder
-----------------------------------------------------------------------------
\* What Deliver puts into the queues: copies, or some of the first ones.
LEMMA Delivered ==
  ASSUME Types, NEW receivers \in SUBSET Workers, NEW copies \in Seq(Clean),
         Deliver(receivers, copies)
  PROVE  /\ queue' \in [Workers -> Seq(Clean)]
         /\ \A w \in Workers : \A i \in DOMAIN queue'[w] :
              \/ i \in DOMAIN queue[w] /\ queue'[w][i] = queue[w][i]
              \/ w \in receivers /\ \E j \in DOMAIN copies : queue'[w][i] = copies[j]
<1> DEFINE k(v) == IF Room(v, Len(copies)) THEN Len(copies) ELSE QueueCap - Len(queue[v])
           new(v) == SubSeq(copies, 1, k(v))
<1>1. queue' = [v \in Workers |-> IF v \in receivers THEN queue[v] \o new(v) ELSE queue[v]]
  BY DEF Deliver
<1>2. ASSUME NEW v \in Workers
      PROVE  /\ queue[v] \in Seq(Clean)
             /\ new(v) \in Seq(Clean)
             /\ \A j \in DOMAIN new(v) : j \in DOMAIN copies /\ new(v)[j] = copies[j]
  <2>1. queue[v] \in Seq(Clean) /\ Len(queue[v]) \in Nat /\ Len(copies) \in Nat
    BY DEF Types
  <2>2. k(v) \in Int /\ k(v) <= Len(copies)
    BY <2>1, RuntimeAssumption DEF Room
  <2>3. \A j \in 1 .. k(v) : j \in DOMAIN copies /\ copies[j] \in Clean
    BY <2>2
  <2> HIDE DEF k
  <2>4. /\ new(v) \in Seq(Clean)
        /\ Len(new(v)) = IF 1 <= k(v) THEN k(v) - 1 + 1 ELSE 0
        /\ \A j \in 1 .. k(v) - 1 + 1 : new(v)[j] = copies[1 + j - 1]
    BY <2>2, <2>3, SubSeqProperties
  <2> HIDE DEF new
  <2>5. DOMAIN new(v) = 1 .. Len(new(v))
    BY <2>4
  <2> QED  BY <2>1, <2>2, <2>3, <2>4, <2>5
<1> HIDE DEF new
<1>3. queue' \in [Workers -> Seq(Clean)]
  BY <1>1, <1>2, ConcatProperties
<1>4. ASSUME NEW w \in Workers, NEW i \in DOMAIN queue'[w]
      PROVE  \/ i \in DOMAIN queue[w] /\ queue'[w][i] = queue[w][i]
             \/ w \in receivers /\ \E j \in DOMAIN copies : queue'[w][i] = copies[j]
  <2>1. CASE w \in receivers
    <3>1. /\ queue'[w] = queue[w] \o new(w)
          /\ queue[w] \in Seq(Clean) /\ new(w) \in Seq(Clean)
      BY <1>1, <1>2, <2>1
    <3>2. i \in 1 .. Len(queue[w]) + Len(new(w))
      BY <3>1, ConcatProperties
    <3>3. queue'[w][i] = IF i <= Len(queue[w]) THEN queue[w][i] ELSE new(w)[i - Len(queue[w])]
      BY <3>1, <3>2, ConcatProperties
    <3>4. CASE i <= Len(queue[w])
      BY <3>1, <3>2, <3>3, <3>4
    <3>5. CASE ~(i <= Len(queue[w]))
      <4>1. i - Len(queue[w]) \in DOMAIN new(w)
        BY <3>1, <3>2, <3>5
      <4> QED  BY <1>2, <2>1, <3>3, <3>5, <4>1
    <3> QED  BY <3>4, <3>5
  <2>2. CASE w \notin receivers
    BY <1>1, <2>2
  <2> QED  BY <2>1, <2>2
<1> QED  BY <1>3, <1>4

\* A step that gives no worker a frame it did not hold.
LEMMA NothingNew ==
  ASSUME OneHolder, UNCHANGED <<arrived, early>>, main' = "open" => main = "open",
         handled' \subseteq Workers \X Frames,
         \A w \in Workers, f \in Nat : Holds(w, f)' => Holds(w, f)
  PROVE  OneHolder'
BY DEF OneHolder, Late
-----------------------------------------------------------------------------
LEMMA ArriveKeeps ==
  ASSUME IInv, Arrive
  PROVE  IInv'
<1> DEFINE f == arrived + 1
           copies == <<[id |-> f, sent |-> FALSE]>>
           taps == Taps(Traffic[f].flow, Traffic[f].iface)
<1>1. Types /\ OpenBeforeWork /\ OneHolder /\ f \in Nat
  BY DEF IInv, Types
<1>2. /\ Deliver(taps, copies)
      /\ arrived' = f /\ early' = (IF main = "open" THEN f ELSE early)
      /\ main \notin {"exited", "failed"}
      /\ UNCHANGED <<main, sock, worker, burst, handled>>
  BY DEF Arrive, threads
<1>3. taps \in SUBSET Workers
  BY DEF Taps
<1>4. copies \in Seq(Clean) /\ DOMAIN copies = {1} /\ copies[1].id = f
  <2>1. f \in Frames
    <3>1. arrived \in Nat /\ arrived < Len(Traffic) /\ Len(Traffic) \in Nat
      BY <1>1, RuntimeAssumption DEF Types, Arrive
    <3> QED  BY <3>1 DEF Frames
  <2> QED  BY <2>1 DEF Clean
<1> HIDE DEF copies, taps
<1>5. /\ queue' \in [Workers -> Seq(Clean)]
      /\ \A w \in Workers : \A i \in DOMAIN queue'[w] :
           \/ i \in DOMAIN queue[w] /\ queue'[w][i] = queue[w][i]
           \/ w \in taps /\ queue'[w][i].id = f
  <2>1. Deliver(taps, copies) /\ taps \in SUBSET Workers /\ copies \in Seq(Clean) /\ Types
    BY <1>1, <1>2, <1>3, <1>4
  <2>2. /\ queue' \in [Workers -> Seq(Clean)]
        /\ \A w \in Workers : \A i \in DOMAIN queue'[w] :
             \/ i \in DOMAIN queue[w] /\ queue'[w][i] = queue[w][i]
             \/ w \in taps /\ \E j \in DOMAIN copies : queue'[w][i] = copies[j]
    BY <2>1, Delivered, Zenon
  <2>3. \A j \in DOMAIN copies : copies[j].id = f
    BY <1>4
  <2>4. ASSUME NEW w \in Workers, NEW i \in DOMAIN queue'[w]
        PROVE  \/ i \in DOMAIN queue[w] /\ queue'[w][i] = queue[w][i]
               \/ w \in taps /\ queue'[w][i].id = f
    <3>1. CASE i \in DOMAIN queue[w] /\ queue'[w][i] = queue[w][i]
      BY <3>1
    <3>2. CASE w \in taps /\ \E j \in DOMAIN copies : queue'[w][i] = copies[j]
      <4>1. PICK j \in DOMAIN copies : queue'[w][i] = copies[j]
        BY <3>2
      <4> QED  BY <2>3, <3>2, <4>1
    <3> QED  BY <2>2, <3>1, <3>2
  <2> QED  BY <2>2, <2>4
<1>6. ASSUME NEW w \in Workers, NEW g \in Nat, Holds(w, g)'
      PROVE  Holds(w, g) \/ (g = f /\ w \in taps)
  BY <1>2, <1>5, <1>6 DEF Holds
<1>7. ASSUME NEW w \in Workers, NEW g \in Nat, Holds(w, g)
      PROVE  g <= arrived /\ g # f
  BY <1>1, <1>7 DEF OneHolder, Types
<1>8. OneHolder'
  <2>1. CASE main = "open"
    <3>1. \A w \in Workers, g \in Nat : Holds(w, g)' => g <= f
      BY <1>1, <1>6, <1>7 DEF Types
    <3> QED  BY <1>1, <1>2, <2>1, <3>1 DEF OneHolder, Late
  <2>2. CASE main # "open"
    <3>1. early' = early
      BY <1>2, <2>2
    <3>2. ASSUME NEW w \in taps, NEW v \in taps, main \in {"spawn", "join", "exited"}
          PROVE  v = w /\ Traffic[f].iface = "nf"
      BY <1>1, <3>2 DEF taps, Taps, OpenBeforeWork
    <3>3. ASSUME NEW w \in Workers, NEW g \in Nat, Holds(w, g)', Late(g)',
                 NEW v \in Workers, Holds(v, g)',
                 main \in {"spawn", "join", "exited"}
          PROVE  g <= f /\ v = w /\ Traffic[g].iface = "nf"
      <4>1. Late(g)
        BY <3>1, <3>3 DEF Late
      <4>2. CASE g = f
        BY <1>6, <1>7, <3>2, <3>3, <4>2
      <4>3. CASE g # f
        <5>1. Holds(w, g) /\ Holds(v, g)
          BY <1>6, <3>3, <4>3
        <5> QED  BY <1>1, <4>1, <5>1 DEF OneHolder, Types
      <4> QED  BY <4>2, <4>3
    <3>4. \A w \in Workers, g \in Nat : Holds(w, g)' => g <= f
      BY <1>1, <1>6, <1>7 DEF Types
    <3>5. main \in {"spawn", "join", "exited"}
      BY <1>1, <1>2, <2>2 DEF Types
    <3> QED  BY <1>1, <1>2, <2>2, <3>3, <3>4, <3>5 DEF OneHolder
  <2> QED  BY <2>1, <2>2
<1> QED  BY <1>1, <1>2, <1>5, <1>8 DEF IInv, Types, OpenBeforeWork

\* The first k and the others of a queue.
LEMMA Parts ==
  ASSUME NEW s \in Seq(Clean), NEW k \in Nat, k <= Len(s)
  PROVE  /\ SubSeq(s, 1, k) \in Seq(Clean) /\ SubSeq(s, k + 1, Len(s)) \in Seq(Clean)
         /\ \A i \in DOMAIN SubSeq(s, 1, k) : i \in DOMAIN s /\ SubSeq(s, 1, k)[i] = s[i]
         /\ \A i \in DOMAIN SubSeq(s, k + 1, Len(s)) :
              i + k \in DOMAIN s /\ SubSeq(s, k + 1, Len(s))[i] = s[i + k]
<1>1. Len(s) \in Nat /\ DOMAIN s = 1 .. Len(s) /\ \A i \in 1 .. Len(s) : s[i] \in Clean
  OBVIOUS
<1>2. /\ SubSeq(s, 1, k) \in Seq(Clean)
      /\ Len(SubSeq(s, 1, k)) = IF 1 <= k THEN k - 1 + 1 ELSE 0
      /\ \A i \in 1 .. k - 1 + 1 : SubSeq(s, 1, k)[i] = s[1 + i - 1]
  <2>1. \A i \in 1 .. k : s[i] \in Clean
    BY <1>1
  <2> QED  BY <2>1, SubSeqProperties
<1>3. /\ SubSeq(s, k + 1, Len(s)) \in Seq(Clean)
      /\ Len(SubSeq(s, k + 1, Len(s))) = IF k + 1 <= Len(s) THEN Len(s) - (k + 1) + 1 ELSE 0
      /\ \A i \in 1 .. Len(s) - (k + 1) + 1 : SubSeq(s, k + 1, Len(s))[i] = s[k + 1 + i - 1]
  <2>1. (\A i \in k + 1 .. Len(s) : s[i] \in Clean) /\ k + 1 \in Int /\ Len(s) \in Int
    BY <1>1
  <2> QED  BY <2>1, SubSeqProperties
<1>4. ASSUME NEW i \in DOMAIN SubSeq(s, 1, k)
      PROVE  i \in DOMAIN s /\ SubSeq(s, 1, k)[i] = s[i]
  <2>1. i \in 1 .. k
    BY <1>2
  <2> QED  BY <1>1, <1>2, <2>1
<1>5. ASSUME NEW i \in DOMAIN SubSeq(s, k + 1, Len(s))
      PROVE  i + k \in DOMAIN s /\ SubSeq(s, k + 1, Len(s))[i] = s[i + k]
  <2>1. i \in 1 .. Len(s) - k
    BY <1>1, <1>3
  <2>2. /\ i + k \in 1 .. Len(s) /\ k + 1 + i - 1 = i + k
        /\ i \in 1 .. Len(s) - (k + 1) + 1
    BY <1>1, <2>1
  <2> QED  BY <1>1, <1>3, <2>2
<1> QED  BY <1>2, <1>3, <1>4, <1>5

LEMMA ReceiveKeeps ==
  ASSUME IInv, NEW w \in Workers, Receive(w)
  PROVE  IInv'
<1> DEFINE k == NbRx(w)
<1>1. /\ Types /\ OpenBeforeWork /\ OneHolder
      /\ queue[w] \in Seq(Clean) /\ k \in Nat /\ k <= Len(queue[w])
  BY RuntimeAssumption DEF IInv, Types, NbRx
<1>2. /\ burst' = [burst EXCEPT ![w] = SubSeq(queue[w], 1, k)]
      /\ queue' = [queue EXCEPT ![w] = SubSeq(queue[w], k + 1, Len(queue[w]))]
      /\ handled' = handled \cup {<<w, c.id>> : c \in ToSet(burst'[w])}
      /\ worker[w] = "rx" /\ worker' = [worker EXCEPT ![w] = "tx"]
      /\ UNCHANGED <<main, sock, arrived, early>>
  BY DEF Receive, Goto
<1> HIDE DEF k
<1>3. /\ burst' \in [Workers -> Seq(Clean)] /\ queue' \in [Workers -> Seq(Clean)]
      /\ burst'[w] = SubSeq(queue[w], 1, k)
      /\ queue'[w] = SubSeq(queue[w], k + 1, Len(queue[w]))
      /\ \A v \in Workers : v # w => queue'[v] = queue[v]
  BY <1>1, <1>2, Parts DEF Types
<1>4. \A c \in ToSet(burst'[w]) : c \in Clean /\ \E i \in DOMAIN queue[w] : queue[w][i].id = c.id
  <2>1. \A c \in ToSet(burst'[w]) : \E i \in DOMAIN burst'[w] : c = burst'[w][i]
    BY DEF ToSet
  <2>2. \A i \in DOMAIN burst'[w] : i \in DOMAIN queue[w] /\ burst'[w][i] = queue[w][i]
    BY <1>1, <1>3, Parts
  <2>3. \A i \in DOMAIN queue[w] : queue[w][i] \in Clean
    BY <1>1
  <2> QED  BY <2>1, <2>2, <2>3
<1>5. ASSUME NEW v \in Workers, NEW f \in Nat, Holds(v, f)'
      PROVE  Holds(v, f)
  <2>1. CASE \E i \in DOMAIN queue'[v] : queue'[v][i].id = f
    <3>1. CASE v = w
      <4>1. PICK i \in DOMAIN queue'[w] : queue'[w][i].id = f
        BY <2>1, <3>1
      <4>2. i + k \in DOMAIN queue[w] /\ queue'[w][i] = queue[w][i + k]
        BY <1>1, <1>3, Parts
      <4> QED  BY <3>1, <4>1, <4>2 DEF Holds
    <3>2. CASE v # w
      BY <1>3, <2>1, <3>2 DEF Holds
    <3> QED  BY <3>1, <3>2
  <2>2. CASE <<v, f>> \in handled'
    <3>1. CASE <<v, f>> \in handled
      BY <3>1 DEF Holds
    <3>2. CASE \E c \in ToSet(burst'[w]) : <<v, f>> = <<w, c.id>>
      BY <1>4, <3>2 DEF Holds
    <3> QED  BY <1>2, <2>2, <3>1, <3>2
  <2> QED  BY <1>5, <2>1, <2>2 DEF Holds
<1>6. handled' \subseteq Workers \X Frames
  <2>1. \A c \in ToSet(burst'[w]) : c.id \in Frames
    BY <1>4 DEF Clean
  <2> QED  BY <1>1, <1>2, <2>1 DEF OneHolder
<1>7. OneHolder'
  BY <1>1, <1>2, <1>5, <1>6, NothingNew
<1>8. OpenBeforeWork' /\ worker' \in [Workers -> Places]
  BY <1>1, <1>2 DEF OpenBeforeWork, Types, Places
<1> QED  BY <1>1, <1>2, <1>3, <1>7, <1>8 DEF IInv, Types

\* Nobody hears what a worker sends.
LEMMA TransmitKeeps ==
  ASSUME IInv, NEW w \in Workers, Transmit(w)
  PROVE  IInv'
<1>1. Types /\ OpenBeforeWork /\ OneHolder
  BY DEF IInv
<1>2. /\ worker[w] = "tx" /\ worker' = [worker EXCEPT ![w] = "loop"]
      /\ burst' = [burst EXCEPT ![w] = << >>]
      /\ UNCHANGED <<main, sock, arrived, early, handled>>
  BY DEF Transmit, Goto
<1>3. Echoes(w) = {}
  BY <1>1, <1>2 DEF OpenBeforeWork, Echoes
<1>4. \A copies : Deliver({}, copies) => queue' = queue
  <2>1. queue = [v \in Workers |-> queue[v]]
    BY <1>1 DEF Types
  <2> QED  BY <2>1 DEF Deliver
<1>5. queue' = queue
  BY <1>3, <1>4 DEF Transmit
<1>6. burst' \in [Workers -> Seq(Clean)]
  BY <1>1, <1>2 DEF Types
<1>7. OneHolder'
  BY <1>1, <1>2, <1>5, NothingNew DEF Holds, OneHolder
<1>8. OpenBeforeWork' /\ worker' \in [Workers -> Places]
  BY <1>1, <1>2 DEF OpenBeforeWork, Types, Places
<1> QED  BY <1>1, <1>2, <1>5, <1>6, <1>7, <1>8 DEF IInv, Types

\* Steps of main, and of a worker that touches neither queue nor burst.
LEMMA OthersKeep ==
  ASSUME IInv, UNCHANGED <<queue, burst, arrived, early, handled>>,
         main' = "open" => main = "open",
         main' \in {"open", "spawn", "join", "exited", "failed"},
         sock' \in [Workers -> {"none", "created", "bound", "quiet", "member", "closed"}],
         worker' \in [Workers -> Places],
         OpenBeforeWork'
  PROVE  IInv'
<1>1. OneHolder'
  BY NothingNew DEF IInv, Holds, OneHolder
<1> QED  BY <1>1 DEF IInv, Types

LEMMA InductiveInvariant == Spec => []IInv
<1>1. Init => IInv
  <2> SUFFICES ASSUME Init PROVE IInv
    OBVIOUS
  <2>1. Types /\ OpenBeforeWork
    BY DEF Init, Types, OpenBeforeWork, Places
  <2>2. OneHolder
    BY DEF Init, OneHolder, Holds
  <2> QED  BY <2>1, <2>2 DEF IInv
<1>2. ASSUME IInv, [Next]_vars
      PROVE  IInv'
  <2>0. Types /\ OpenBeforeWork
    BY <1>2 DEF IInv
  <2>1. CASE Arrive
    BY <1>2, <2>1, ArriveKeeps
  <2>2. CASE Signal
    BY <1>2, <2>0, <2>2, OthersKeep DEF Signal, kernel, threads, history, Types, OpenBeforeWork
  <2>3. CASE StartWorkers
    BY <1>2, <2>0, <2>3, OthersKeep
       DEF StartWorkers, Opened, kernel, threads, history, Types, OpenBeforeWork
  <2>4. CASE Exit
    BY <1>2, <2>0, <2>4, OthersKeep DEF Exit, kernel, threads, history, Types, OpenBeforeWork
  <2>5. ASSUME NEW w \in Workers, Open(w)
        PROVE  IInv'
    <3>1. PICK to \in {"created", "bound", "quiet", "member"} :
            /\ main = "open" /\ sock' = [sock EXCEPT ![w] = to]
            /\ UNCHANGED <<main, queue, threads, history>>
      BY <2>5, Zenon DEF Open, Create, Bind, IgnoreOutgoing, JoinFanout, SetSock, Opening
    <3> QED  BY <1>2, <2>0, <3>1, OthersKeep DEF threads, history, Types, OpenBeforeWork
  <2>6. ASSUME NEW w \in Workers, Spawn(w)
        PROVE  IInv'
    BY <1>2, <2>0, <2>6, OthersKeep
       DEF Spawn, MaySpawn, kernel, history, Types, OpenBeforeWork, Places
  <2>7. ASSUME NEW w \in Workers, OpenFails(w)
        PROVE  IInv'
    BY <1>2, <2>0, <2>7, OthersKeep
       DEF OpenFails, Opening, threads, history, Types, OpenBeforeWork
  <2>8. ASSUME NEW w \in Workers,
               Setup(w) \/ CheckQuit(w) \/ RxTimeout(w) \/ RxFails(w) \/ Report(w)
        PROVE  IInv'
    <3>1. PICK to \in Places : worker[w] # "none" /\ worker' = [worker EXCEPT ![w] = to]
      BY <2>8 DEF Setup, CheckQuit, RxTimeout, RxFails, Report, Goto, Places
    <3>2. UNCHANGED <<main, sock, queue, burst, arrived, early, handled>>
      BY <2>8 DEF Setup, CheckQuit, RxTimeout, RxFails, Report, kernel, history
    <3> QED  BY <1>2, <2>0, <3>1, <3>2, OthersKeep DEF Types, OpenBeforeWork
  <2>9. ASSUME NEW w \in Workers, Close(w)
        PROVE  IInv'
    BY <1>2, <2>0, <2>9, OthersKeep DEF Close, Goto, history, Types, OpenBeforeWork, Places
  <2>10. ASSUME NEW w \in Workers, Receive(w) \/ Transmit(w)
         PROVE  IInv'
    BY <1>2, <2>10, ReceiveKeeps, TransmitKeeps
  <2>11. CASE UNCHANGED vars
    BY <1>2, <2>0, <2>11, OthersKeep
       DEF vars, kernel, threads, history, Types, OpenBeforeWork
  <2> QED  BY <1>2, <2>1, <2>2, <2>3, <2>4, <2>5, <2>6, <2>7, <2>8, <2>9, <2>10, <2>11
           DEF Next, RunMain, Work
<1> QED  BY <1>1, <1>2, PTL DEF Spec
-----------------------------------------------------------------------------
(***************************************************************************)
(* No worker of lib.rs ever has a frame in its queue or its burst that a   *)
(* worker of the same process sent.                                        *)
(***************************************************************************)
THEOREM NothingReflected == Spec => []NoReflection
<1>1. IInv => NoReflection
  <2> SUFFICES ASSUME Types, NEW w \in Workers, NEW c \in ToSet(queue[w]) \cup ToSet(burst[w])
               PROVE  ~c.sent
    BY DEF IInv, NoReflection
  <2>1. \A s \in Seq(Clean) : ToSet(s) \subseteq Clean
    BY DEF ToSet
  <2>2. c \in Clean
    BY <2>1 DEF Types
  <2> QED  BY <2>2 DEF Clean
<1> QED  BY <1>1, InductiveInvariant, PTL

(***************************************************************************)
(* A frame that arrives after run() opened the last socket is handled by   *)
(* one worker and came in on the interface of the NF, whoever leaves the   *)
(* fanout group meanwhile.                                                 *)
(***************************************************************************)
THEOREM LateFramesHaveOneWorker == Spec => []OneWorkerPerFrame
<1>1. IInv => OneWorkerPerFrame
  <2> SUFFICES ASSUME OneHolder, NEW h \in handled, NEW g \in handled, Late(h[2])
               PROVE  Traffic[h[2]].iface = "nf" /\ (h[2] = g[2] => h = g)
    BY DEF IInv, OneWorkerPerFrame
  <2>1. /\ h[1] \in Workers /\ h[2] \in Nat /\ h = <<h[1], h[2]>>
        /\ g[1] \in Workers /\ g[2] \in Nat /\ g = <<g[1], g[2]>>
    <3>1. h \in Workers \X Frames /\ g \in Workers \X Frames
      BY DEF OneHolder
    <3>2. \A x \in Workers \X Frames : x[1] \in Workers /\ x[2] \in Frames /\ x = <<x[1], x[2]>>
      OBVIOUS
    <3>3. \A f \in Frames : f \in Nat
      BY FramesAreNumbers
    <3> QED  BY <3>1, <3>2, <3>3
  <2>2. Holds(h[1], h[2]) /\ Holds(g[1], g[2])
    BY <2>1 DEF Holds
  <2> QED  BY <2>1, <2>2 DEF OneHolder
<1> QED  BY <1>1, InductiveInvariant, PTL
-----------------------------------------------------------------------------
(***************************************************************************)
(* Buffers are reused, but what a worker sends is what it received.  No    *)
(* worker but one that is about to send has a burst, and bursts fit into   *)
(* the buffers.                                                            *)
(***************************************************************************)
BurstsAreReceived ==
  \A w \in Workers :
    /\ burst[w] # << >> => worker[w] = "tx"
    /\ DOMAIN burst[w] \subseteq Slots

Buffers ==
  /\ macs \in [Workers -> [Slots -> Nat]]
  /\ headers \in [Workers -> [Slots -> Nat]]
  /\ lens \in [Workers -> [Slots -> {"none", "runt", "full"}]]

\* The buffers of a burst hold its frames, each with its own length.
BurstIsInBuffers ==
  \A w \in Workers : worker[w] = "tx" =>
    \A i \in DOMAIN burst[w] :
      LET f == burst[w][i].id
      IN  /\ macs[w][i] = f
          /\ lens[w][i] = (IF Traffic[f].runt THEN "runt" ELSE "full")
          /\ lens[w][i] = "full" => headers[w][i] = f

BufInv == Buffers /\ BurstsAreReceived /\ BurstIsInBuffers

\* A burst is received by one worker, or none is and some may have been sent.
OneReceives ==
  \E w \in Workers :
    /\ Receives(w)
    /\ \A v \in Workers \ {w} : burst'[v] = burst[v] /\ worker'[v] = worker[v]
NoneReceives ==
  \A w \in Workers : burst'[w] = << >> \/ (burst'[w] = burst[w] /\ (burst[w] # << >> => worker'[w] = worker[w]))
-----------------------------------------------------------------------------
\* What a step of the runtime does to the bursts.
LEMMA BurstsChange ==
  ASSUME IInv, BurstsAreReceived, [Next]_vars
  PROVE  BurstsAreReceived' /\ (OneReceives \/ NoneReceives)
<1>1. Types
  BY DEF IInv
<1>2. ASSUME NEW w \in Workers, Receive(w)
      PROVE  BurstsAreReceived' /\ OneReceives
  <2>1. /\ worker[w] = "rx" /\ worker' = [worker EXCEPT ![w] = "tx"]
        /\ burst' = [burst EXCEPT ![w] = SubSeq(queue[w], 1, NbRx(w))]
        /\ queue[w] # << >>
    BY <1>2 DEF Receive, Goto
  <2>2. queue[w] \in Seq(Clean) /\ Len(queue[w]) \in Nat /\ Len(queue[w]) # 0
    BY <1>1, <2>1 DEF Types
  <2>3. NbRx(w) \in Nat /\ NbRx(w) # 0 /\ NbRx(w) <= BurstSize /\ NbRx(w) <= Len(queue[w])
    BY <2>2, RuntimeAssumption DEF NbRx
  <2> DEFINE received == SubSeq(queue[w], 1, NbRx(w))
  <2>4. DOMAIN received = 1 .. NbRx(w)
    <3>1. \A i \in 1 .. NbRx(w) : queue[w][i] \in Clean
      BY <2>2, <2>3
    <3>2. received \in Seq(Clean) /\ Len(received) = NbRx(w)
      BY <2>3, <3>1, SubSeqProperties
    <3> QED  BY <3>2
  <2>5. received # << >> /\ DOMAIN received \subseteq Slots
    BY <2>3, <2>4, RuntimeAssumption DEF Slots
  <2>6. burst'[w] = received /\ \A v \in Workers \ {w} : burst'[v] = burst[v] /\ worker'[v] = worker[v]
    BY <1>1, <2>1 DEF Types
  <2>7. burst[w] = << >> /\ worker'[w] = "tx"
    BY <1>1, <2>1 DEF BurstsAreReceived, Types
  <2> HIDE DEF received
  <2>8. BurstsAreReceived'
    BY <2>5, <2>6, <2>7 DEF BurstsAreReceived, Slots
  <2> QED  BY <2>5, <2>6, <2>7, <2>8 DEF OneReceives, Receives
<1>3. ASSUME NEW w \in Workers, Transmit(w)
      PROVE  BurstsAreReceived' /\ NoneReceives
  <2>1. worker' = [worker EXCEPT ![w] = "loop"] /\ burst' = [burst EXCEPT ![w] = << >>]
    BY <1>3 DEF Transmit, Goto
  <2>2. burst'[w] = << >> /\ \A v \in Workers \ {w} : burst'[v] = burst[v] /\ worker'[v] = worker[v]
    BY <1>1, <2>1 DEF Types
  <2> QED  BY <2>2 DEF BurstsAreReceived, NoneReceives, Slots
<1>4. ASSUME burst' = burst, \A w \in Workers : worker[w] = "tx" => worker'[w] = "tx"
      PROVE  BurstsAreReceived' /\ NoneReceives
  BY <1>4 DEF BurstsAreReceived, NoneReceives, Slots
<1>5. ASSUME NEW w \in Workers, Setup(w) \/ CheckQuit(w) \/ RxTimeout(w) \/ RxFails(w) \/ Report(w) \/ Close(w) \/ Spawn(w)
      PROVE  burst' = burst /\ \A v \in Workers : worker[v] = "tx" => worker'[v] = "tx"
  <2>1. burst' = burst /\ worker[w] # "tx" /\ \A v \in Workers \ {w} : worker'[v] = worker[v]
    BY <1>1, <1>5 DEF Setup, CheckQuit, RxTimeout, RxFails, Report, Close, Spawn, MaySpawn, Goto, Types
  <2> QED  BY <2>1
<1>6. ASSUME Arrive \/ Signal \/ StartWorkers \/ Exit \/ (\E w \in Workers : Open(w) \/ OpenFails(w)) \/ UNCHANGED vars
      PROVE  burst' = burst /\ worker' = worker
  BY <1>6, Zenon DEF Arrive, Signal, StartWorkers, Exit, Open, Create, Bind, IgnoreOutgoing, JoinFanout,
                SetSock, OpenFails, threads, vars
<1> QED  BY <1>2, <1>3, <1>4, <1>5, <1>6 DEF Next, RunMain, Work

\* Where no burst was received, the buffers stay as they are.
LEMMA SentOrKept ==
  ASSUME BufInv, BurstsAreReceived', NoneReceives, UNCHANGED <<macs, headers, lens>>
  PROVE  BufInv'
<1>1. Buffers'
  BY DEF BufInv, Buffers, Slots
<1>2. ASSUME NEW w \in Workers, worker'[w] = "tx", NEW i \in DOMAIN burst'[w]
      PROVE  burst'[w] = burst[w] /\ worker[w] = "tx"
  <2>1. burst'[w] # << >>
    BY <1>2
  <2> QED  BY <2>1 DEF BufInv, BurstsAreReceived, NoneReceives
<1>3. BurstIsInBuffers'
  BY <1>2 DEF BufInv, BurstIsInBuffers
<1> QED  BY <1>1, <1>3 DEF BufInv

\* The buffers of the worker that received hold what it received.
LEMMA FilledByBurst ==
  ASSUME BufInv, IInv', BurstsAreReceived', OneReceives,
         \E w \in Workers : Receives(w) /\ Fill(w)
  PROVE  BufInv'
<1>1. PICK w \in Workers : Receives(w) /\ Fill(w)
  OBVIOUS
<1>2. \A v \in Workers \ {w} : burst'[v] = burst[v] /\ worker'[v] = worker[v]
  BY <1>1 DEF OneReceives, Receives
<1>3. burst'[w] \in Seq(Clean) /\ DOMAIN burst'[w] \subseteq Slots
  BY DEF IInv, Types, BurstsAreReceived, Slots
<1>4. \A i \in DOMAIN burst'[w] : burst'[w][i].id \in Nat
  <2>1. \A i \in DOMAIN burst'[w] : burst'[w][i] \in Clean
    BY <1>3
  <2>2. \A f \in Clean : f.id \in Nat
    BY FramesAreNumbers DEF Clean
  <2> QED  BY <2>1, <2>2
<1>5. /\ macs'[w] = [i \in Slots |-> IF i \in Landed(w) THEN burst'[w][i].id ELSE macs[w][i]]
      /\ headers'[w] = [i \in Slots |-> IF i \in Landed(w) /\ ~Traffic[burst'[w][i].id].runt
                                        THEN burst'[w][i].id ELSE headers[w][i]]
      /\ lens'[w] = [i \in Slots |-> IF i \notin Landed(w) THEN lens[w][i]
                                     ELSE IF Traffic[burst'[w][i].id].runt THEN "runt" ELSE "full"]
      /\ \A v \in Workers \ {w} : macs'[v] = macs[v] /\ headers'[v] = headers[v] /\ lens'[v] = lens[v]
      /\ DOMAIN macs' = Workers /\ DOMAIN headers' = Workers /\ DOMAIN lens' = Workers
  BY <1>1 DEF Fill, BufInv, Buffers
<1>6. Buffers'
  <2>1. /\ macs'[w] \in [Slots -> Nat]
        /\ headers'[w] \in [Slots -> Nat]
    BY <1>4, <1>5 DEF Landed, BufInv, Buffers
  <2>2. lens'[w] \in [Slots -> {"none", "runt", "full"}]
    BY <1>5 DEF BufInv, Buffers
  <2>3. /\ macs' = [macs EXCEPT ![w] = macs'[w]]
        /\ headers' = [headers EXCEPT ![w] = headers'[w]]
        /\ lens' = [lens EXCEPT ![w] = lens'[w]]
    BY <1>1, <1>5 DEF Fill, BufInv, Buffers
  <2>4. Workers' = Workers /\ Slots' = Slots
    BY DEF Slots
  <2> QED  BY <2>1, <2>2, <2>3, <2>4 DEF BufInv, Buffers
<1>7. ASSUME NEW v \in Workers, worker'[v] = "tx", NEW i \in DOMAIN burst'[v]
      PROVE  LET f == burst'[v][i].id
             IN  /\ macs'[v][i] = f
                 /\ lens'[v][i] = (IF Traffic[f].runt THEN "runt" ELSE "full")
                 /\ lens'[v][i] = "full" => headers'[v][i] = f
  <2>1. CASE v = w
    BY <1>3, <1>5, <1>7, <2>1 DEF Landed
  <2>2. CASE v # w
    BY <1>2, <1>5, <1>7, <2>2 DEF BufInv, BurstIsInBuffers
  <2> QED  BY <2>1, <2>2
<1>8. BurstIsInBuffers'
  BY <1>7 DEF BurstIsInBuffers
<1> QED  BY <1>6, <1>8 DEF BufInv
-----------------------------------------------------------------------------
LEMMA AclIsRuntime == AclSpec => Spec
<1>1. AclInit => Init
  BY DEF AclInit
<1>2. [AclNext]_aclvars => [Next]_vars
  BY DEF AclNext, aclvars
<1> QED  BY <1>1, <1>2, PTL DEF AclSpec, Spec

\* A step in which a worker receives is one in which none sends.
LEMMA OneStep ==
  ASSUME [AclNext]_aclvars, OneReceives
  PROVE  \E w \in Workers : Receives(w) /\ Fill(w) /\ App(w)
<1>1. PICK w \in Workers : Receives(w) /\ \A v \in Workers \ {w} : burst'[v] = burst[v]
  BY DEF OneReceives
<1>2. \A v \in Workers : ~Sends(v)
  BY <1>1 DEF Receives, Sends
<1>3. burst' # burst
  BY <1>1 DEF Receives
<1> QED  BY <1>1, <1>2, <1>3 DEF AclNext, aclvars, vars, threads

LEMMA BuffersHold == AclSpec => []BufInv
<1>1. AclInit => BufInv
  BY RuntimeAssumption DEF AclInit, Init, BufInv, Buffers, BurstsAreReceived, BurstIsInBuffers
<1>2. ASSUME BufInv, IInv, IInv', [AclNext]_aclvars
      PROVE  BufInv'
  <2>1. [Next]_vars
    BY <1>2 DEF AclNext, aclvars
  <2>2. BurstsAreReceived' /\ (OneReceives \/ NoneReceives)
    BY <1>2, <2>1, BurstsChange DEF BufInv
  <2>3. CASE OneReceives
    <3>1. \E w \in Workers : Receives(w)
      BY <2>3 DEF OneReceives
    <3>2. \E w \in Workers : Receives(w) /\ Fill(w)
      BY <1>2, <2>3, <3>1, OneStep
    <3> QED  BY <1>2, <2>2, <2>3, <3>2, FilledByBurst
  <2>4. CASE NoneReceives
    <3>1. \A w \in Workers : ~Receives(w)
      BY <2>4 DEF NoneReceives, Receives
    <3>2. UNCHANGED <<macs, headers, lens>>
      BY <1>2, <3>1 DEF AclNext, aclvars, buffers
    <3> QED  BY <1>2, <2>2, <2>4, <3>2, SentOrKept
  <2> QED  BY <2>2, <2>3, <2>4
<1> QED  BY <1>1, <1>2, AclIsRuntime, InductiveInvariant, PTL DEF AclSpec
-----------------------------------------------------------------------------
(***************************************************************************)
(* The order of what a worker holds: what it has sent is older than its    *)
(* burst, and what it has processed older than its queue.                  *)
(***************************************************************************)
Increasing(s) == \A i, j \in DOMAIN s : i < j => s[i].id < s[j].id

QueuesFit == \A w \in Workers : Len(queue[w]) <= QueueCap

QueuesOrdered ==
  /\ \A w \in Workers : Increasing(queue[w])
  /\ \A h \in handled : \A i \in DOMAIN queue[h[1]] : h[2] < queue[h[1]][i].id

BurstsOrdered ==
  /\ \A w \in Workers : Increasing(burst[w])
  /\ \A w \in Workers : \A i \in DOMAIN burst[w] : <<w, burst[w][i].id>> \in handled

SentInOrder ==
  /\ out \in Seq(Workers \X Frames)
  /\ \A p \in DOMAIN out : out[p] \in handled
  /\ \A p \in DOMAIN out : \A i \in DOMAIN burst[out[p][1]] : out[p][2] < burst[out[p][1]][i].id
  /\ \A p, q \in DOMAIN out : p < q /\ out[p][1] = out[q][1] => out[p][2] < out[q][2]

Ordered == QueuesFit /\ QueuesOrdered /\ BurstsOrdered /\ SentInOrder

LEMMA OneElement ==
  ASSUME NEW c \in Clean
  PROVE  SubSeq(<<c>>, 1, 1) = <<c>> /\ SubSeq(<<c>>, 1, 0) = << >>
<1> DEFINE s == <<c>>
           t == SubSeq(s, 1, 1)
<1>1. s \in Seq(Clean) /\ Len(s) = 1 /\ s[1] = c
  OBVIOUS
<1>2. t \in Seq(Clean) /\ Len(t) = 1 /\ t[1] = c
  <2> HIDE DEF s
  <2>1. \A i \in 1 .. 1 : s[i] \in Clean
    BY <1>1
  <2> QED  BY <1>1, <2>1, SubSeqProperties
<1>3. t = s
  <2> HIDE DEF s, t
  <2> QED  BY <1>1, <1>2, SeqEqual
<1> QED  BY <1>3

\* What Deliver does with one copy.
LEMMA OneCopy ==
  ASSUME Types, QueuesFit, missed \in [Workers -> Nat],
         NEW receivers \in SUBSET Workers, NEW c \in Clean, Deliver(receivers, <<c>>),
         NEW v \in Workers
  PROVE  /\ v \notin receivers => queue'[v] = queue[v] /\ missed'[v] = missed[v]
         /\ v \in receivers /\ Len(queue[v]) < QueueCap =>
              queue'[v] = Append(queue[v], c) /\ missed'[v] = missed[v]
         /\ v \in receivers /\ Len(queue[v]) >= QueueCap =>
              queue'[v] = queue[v] /\ missed'[v] = missed[v] + 1
<1>1. /\ queue[v] \in Seq(Clean) /\ Len(queue[v]) \in Nat /\ Len(queue[v]) <= QueueCap
      /\ QueueCap \in Nat /\ missed[v] \in Nat
  BY RuntimeAssumption DEF Types, QueuesFit
<1> DEFINE copies == <<c>>
<1>2. copies \in Seq(Clean) /\ Len(copies) = 1 /\ copies[1] = c
  OBVIOUS
<1> DEFINE k == IF Room(v, Len(copies)) THEN Len(copies) ELSE QueueCap - Len(queue[v])
<1>3. /\ queue'[v] = IF v \in receivers THEN queue[v] \o SubSeq(copies, 1, k) ELSE queue[v]
      /\ missed'[v] = IF v \in receivers /\ ~Room(v, Len(copies))
                      THEN missed[v] + Len(copies) - (QueueCap - Len(queue[v]))
                      ELSE missed[v]
  BY DEF Deliver
<1> HIDE DEF copies
<1> HIDE DEF k
<1>4. CASE Len(queue[v]) < QueueCap
  <2>1. Room(v, Len(copies)) /\ k = 1
    BY <1>1, <1>2, <1>4 DEF Room, k
  <2>2. SubSeq(copies, 1, k) = <<c>>
    BY <2>1, OneElement DEF copies
  <2>3. queue[v] \o <<c>> = Append(queue[v], c)
    BY <1>1
  <2>4. v \in receivers => queue'[v] = Append(queue[v], c) /\ missed'[v] = missed[v]
    BY <1>3, <2>1, <2>2, <2>3
  <2>5. v \notin receivers => queue'[v] = queue[v] /\ missed'[v] = missed[v]
    BY <1>3
  <2>6. ~(Len(queue[v]) >= QueueCap)
    BY <1>1, <1>4
  <2> QED  BY <1>4, <2>4, <2>5, <2>6
<1>5. CASE Len(queue[v]) >= QueueCap
  <2>1. ~Room(v, Len(copies)) /\ k = 0 /\ Len(queue[v]) = QueueCap
    BY <1>1, <1>2, <1>5 DEF Room, k
  <2>2. SubSeq(copies, 1, k) = << >>
    BY <2>1, OneElement DEF copies
  <2>3. queue[v] \o << >> = queue[v]
    BY <1>1, ConcatEmptySeq
  <2>4. v \in receivers => queue'[v] = queue[v]
    BY <1>3, <2>2, <2>3
  <2>5. v \in receivers => missed'[v] = missed[v] + 1
    BY <1>1, <1>2, <1>3, <2>1
  <2> QED  BY <1>1, <1>3, <1>5, <2>4, <2>5
<1> QED  BY <1>1, <1>4, <1>5

\* A newer frame goes to the end of a queue.
LEMMA AppendInOrder ==
  ASSUME NEW s \in Seq(Clean), Increasing(s), NEW c \in Clean,
         \A i \in DOMAIN s : s[i].id < c.id
  PROVE  /\ Increasing(Append(s, c)) /\ Len(Append(s, c)) = Len(s) + 1
         /\ \A i \in DOMAIN Append(s, c) : (i \in DOMAIN s /\ Append(s, c)[i] = s[i]) \/ Append(s, c)[i] = c
<1> DEFINE t == Append(s, c)
<1>1. /\ Len(s) \in Nat /\ DOMAIN s = 1 .. Len(s) /\ DOMAIN t = 1 .. Len(s) + 1
      /\ t[Len(s) + 1] = c /\ \A i \in 1 .. Len(s) : t[i] = s[i]
      /\ Len(t) = Len(s) + 1
  OBVIOUS
<1> HIDE DEF t
<1>2. Increasing(t)
  <2> SUFFICES ASSUME NEW i \in DOMAIN t, NEW j \in DOMAIN t, i < j
               PROVE  t[i].id < t[j].id
    BY DEF Increasing
  <2>1. i \in DOMAIN s /\ t[i] = s[i]
    BY <1>1
  <2>2. CASE j = Len(s) + 1
    BY <1>1, <2>1, <2>2
  <2>3. CASE j # Len(s) + 1
    BY <1>1, <2>1, <2>3 DEF Increasing
  <2> QED  BY <2>2, <2>3
<1>3. \A i \in DOMAIN t : (i \in DOMAIN s /\ t[i] = s[i]) \/ t[i] = c
  BY <1>1
<1> QED  BY <1>1, <1>2, <1>3 DEF t

\* A step that moves no frame and sends none.
LEMMA OrderUntouched ==
  ASSUME Ordered, UNCHANGED <<queue, burst, handled, out>>
  PROVE  Ordered'
BY DEF Ordered, QueuesFit, QueuesOrdered, BurstsOrdered, SentInOrder, Increasing

\* A frame arrives at some of the workers, newer than all that came before.
LEMMA ArriveAdds ==
  ASSUME IInv, QueuesFit, missed \in [Workers -> Nat], Arrive
  PROVE  \E c \in Clean :
           /\ c.id = arrived + 1 /\ arrived' = c.id /\ arrived \in Nat
           /\ \A v \in Workers :
                \/ queue'[v] = queue[v] /\ missed'[v] = missed[v] /\ v \notin Taps(Traffic[c.id].flow, Traffic[c.id].iface)
                \/ /\ v \in Taps(Traffic[c.id].flow, Traffic[c.id].iface)
                   /\ \/ Len(queue[v]) < QueueCap /\ queue'[v] = Append(queue[v], c) /\ missed'[v] = missed[v]
                      \/ queue'[v] = queue[v] /\ missed'[v] = missed[v] + 1
           /\ queue' \in [Workers -> Seq(Clean)] /\ missed' \in [Workers -> Nat]
<1>1. Types /\ arrived \in Nat /\ arrived < Len(Traffic) /\ Len(Traffic) \in Nat
  BY RuntimeAssumption DEF IInv, Types, Arrive
<1>2. PICK c : c = [id |-> arrived + 1, sent |-> FALSE]
  OBVIOUS
<1>3. c \in Clean /\ c.id = arrived + 1
  BY <1>1, <1>2 DEF Clean, Frames
<1>4. PICK taps \in SUBSET Workers : taps = Taps(Traffic[c.id].flow, Traffic[c.id].iface)
  BY DEF Taps
<1>5. Deliver(taps, <<c>>) /\ arrived' = c.id
  BY <1>2, <1>3, <1>4 DEF Arrive
<1>6. ASSUME NEW v \in Workers
      PROVE  \/ queue'[v] = queue[v] /\ missed'[v] = missed[v] /\ v \notin taps
             \/ /\ v \in taps
                /\ \/ Len(queue[v]) < QueueCap /\ queue'[v] = Append(queue[v], c) /\ missed'[v] = missed[v]
                   \/ queue'[v] = queue[v] /\ missed'[v] = missed[v] + 1
  <2>1. Len(queue[v]) < QueueCap \/ Len(queue[v]) >= QueueCap
    BY <1>1, RuntimeAssumption DEF Types
  <2> QED  BY <1>1, <1>3, <1>5, <2>1, OneCopy
<1>7. queue' \in [Workers -> Seq(Clean)] /\ missed' \in [Workers -> Nat]
  <2>1. DOMAIN queue' = Workers /\ DOMAIN missed' = Workers
        /\ queue' = [v \in Workers |-> queue'[v]] /\ missed' = [v \in Workers |-> missed'[v]]
    BY <1>5 DEF Deliver
  <2>2. ASSUME NEW v \in Workers
        PROVE  queue'[v] \in Seq(Clean) /\ missed'[v] \in Nat
    <3>1. queue[v] \in Seq(Clean) /\ missed[v] \in Nat
      BY <1>1 DEF Types
    <3>2. Append(queue[v], c) \in Seq(Clean)
      BY <1>3, <3>1
    <3>3. queue'[v] = queue[v] \/ queue'[v] = Append(queue[v], c)
      BY <1>6
    <3>4. missed'[v] = missed[v] \/ missed'[v] = missed[v] + 1
      BY <1>6
    <3>5. queue'[v] \in Seq(Clean)
      BY <3>1, <3>2, <3>3
    <3>6. missed'[v] \in Nat
      BY <3>1, <3>4
    <3> QED  BY <3>5, <3>6
  <2> QED  BY <2>1, <2>2
<1> QED  BY <1>1, <1>3, <1>4, <1>5, <1>6, <1>7

\* Every frame that is queued or processed has arrived.
LEMMA HeldHasArrived ==
  ASSUME IInv
  PROVE  /\ \A v \in Workers : \A i \in DOMAIN queue[v] : queue[v][i].id \in Nat /\ queue[v][i].id <= arrived
         /\ \A h \in handled : h[1] \in Workers /\ h[2] \in Frames /\ h[2] \in Nat /\ h[2] <= arrived
                               /\ h = <<h[1], h[2]>>
<1>1. Types /\ OneHolder
  BY DEF IInv
<1>2. ASSUME NEW v \in Workers, NEW i \in DOMAIN queue[v]
      PROVE  queue[v][i].id \in Nat /\ queue[v][i].id <= arrived
  <2>1. queue[v][i] \in Clean
    BY <1>1 DEF Types
  <2>2. queue[v][i].id \in Nat
    BY <2>1, FramesAreNumbers DEF Clean
  <2>3. Holds(v, queue[v][i].id)
    BY DEF Holds
  <2> QED  BY <1>1, <2>2, <2>3 DEF OneHolder
<1>3. ASSUME NEW h \in handled
      PROVE  h[1] \in Workers /\ h[2] \in Frames /\ h[2] \in Nat /\ h[2] <= arrived /\ h = <<h[1], h[2]>>
  <2>1. \A x \in Workers \X Frames : x[1] \in Workers /\ x[2] \in Frames /\ x = <<x[1], x[2]>>
    OBVIOUS
  <2>2. h[1] \in Workers /\ h[2] \in Frames /\ h = <<h[1], h[2]>>
    BY <1>1, <2>1 DEF OneHolder
  <2>3. h[2] \in Nat
    BY <2>2, FramesAreNumbers
  <2>4. Holds(h[1], h[2])
    BY <2>2 DEF Holds
  <2> QED  BY <1>1, <2>2, <2>3, <2>4 DEF OneHolder
<1> QED  BY <1>2, <1>3

LEMMA ArriveKeepsOrder ==
  ASSUME IInv, Ordered, missed \in [Workers -> Nat], Arrive
  PROVE  Ordered'
<1>1. /\ QueuesFit /\ QueuesOrdered /\ BurstsOrdered /\ SentInOrder
      /\ queue \in [Workers -> Seq(Clean)] /\ QueueCap \in Nat
      /\ UNCHANGED <<burst, handled, out>>
  BY RuntimeAssumption DEF Ordered, IInv, Types, Arrive, threads
<1>2. PICK c \in Clean :
        /\ c.id = arrived + 1 /\ arrived \in Nat
        /\ \A v \in Workers :
             \/ queue'[v] = queue[v]
             \/ Len(queue[v]) < QueueCap /\ queue'[v] = Append(queue[v], c)
  BY <1>1, ArriveAdds
<1>3. ASSUME NEW v \in Workers
      PROVE  /\ Len(queue'[v]) <= QueueCap /\ Increasing(queue'[v])
             /\ \A i \in DOMAIN queue'[v] :
                  (i \in DOMAIN queue[v] /\ queue'[v][i] = queue[v][i]) \/ queue'[v][i].id = arrived + 1
  <2>1. CASE queue'[v] = queue[v]
    BY <1>1, <2>1 DEF QueuesFit, QueuesOrdered
  <2>2. CASE Len(queue[v]) < QueueCap /\ queue'[v] = Append(queue[v], c)
    <3>1. \A i \in DOMAIN queue[v] : queue[v][i].id < c.id
      BY <1>2, HeldHasArrived
    <3>2. queue[v] \in Seq(Clean) /\ Increasing(queue[v]) /\ Len(queue[v]) \in Nat
      BY <1>1 DEF QueuesOrdered
    <3>3. /\ Increasing(queue'[v]) /\ Len(queue'[v]) = Len(queue[v]) + 1
          /\ \A i \in DOMAIN queue'[v] :
               (i \in DOMAIN queue[v] /\ queue'[v][i] = queue[v][i]) \/ queue'[v][i] = c
      BY <2>2, <3>1, <3>2, AppendInOrder
    <3>4. Len(queue'[v]) <= QueueCap
      BY <1>1, <2>2, <3>2, <3>3
    <3> QED  BY <1>2, <3>3, <3>4
  <2> QED  BY <1>2, <2>1, <2>2
<1>4. ASSUME NEW h \in handled, NEW i \in DOMAIN queue'[h[1]]
      PROVE  h[2] < queue'[h[1]][i].id
  <2>1. h[1] \in Workers /\ h[2] \in Nat /\ h[2] <= arrived
    BY HeldHasArrived
  <2>2. CASE i \in DOMAIN queue[h[1]] /\ queue'[h[1]][i] = queue[h[1]][i]
    BY <1>1, <2>2 DEF QueuesOrdered
  <2>3. CASE queue'[h[1]][i].id = arrived + 1
    BY <1>2, <2>1, <2>3
  <2> QED  BY <1>3, <2>1, <2>2, <2>3
<1>5. QueuesFit' /\ QueuesOrdered'
  BY <1>1, <1>3, <1>4 DEF QueuesFit, QueuesOrdered, Increasing
<1>6. BurstsOrdered' /\ SentInOrder'
  BY <1>1 DEF BurstsOrdered, SentInOrder, Increasing
<1> QED  BY <1>5, <1>6 DEF Ordered

\* rx_burst() takes the oldest frames of the queue.
LEMMA ReceiveMoves ==
  ASSUME IInv, NEW w \in Workers, Receive(w)
  PROVE  \E k \in Nat \ {0} :
           /\ k <= Len(queue[w]) /\ k <= BurstSize /\ k = NbRx(w)
           /\ burst' \in [Workers -> Seq(Clean)] /\ queue' \in [Workers -> Seq(Clean)]
           /\ Len(burst'[w]) = k /\ \A i \in 1 .. k : burst'[w][i] = queue[w][i]
           /\ Len(queue'[w]) = Len(queue[w]) - k
           /\ \A i \in 1 .. Len(queue[w]) - k : queue'[w][i] = queue[w][i + k]
           /\ \A v \in Workers \ {w} : burst'[v] = burst[v] /\ queue'[v] = queue[v]
           /\ handled' = handled \cup {<<w, burst'[w][i].id>> : i \in 1 .. k}
           /\ worker[w] = "rx" /\ worker' = [worker EXCEPT ![w] = "tx"]
<1>1. PICK k : k = NbRx(w)
  OBVIOUS
<1>2. /\ queue \in [Workers -> Seq(Clean)] /\ burst \in [Workers -> Seq(Clean)]
      /\ queue[w] \in Seq(Clean) /\ queue[w] # << >> /\ Len(queue[w]) \in Nat
  BY DEF IInv, Types, Receive
<1>3. Len(queue[w]) # 0
  BY <1>2
<1>4. k \in Nat \ {0} /\ k <= Len(queue[w]) /\ k <= BurstSize
  BY <1>1, <1>2, <1>3, RuntimeAssumption DEF NbRx
<1> DEFINE taken == SubSeq(queue[w], 1, k)
           left  == SubSeq(queue[w], k + 1, Len(queue[w]))
<1>5. /\ burst' = [burst EXCEPT ![w] = taken] /\ queue' = [queue EXCEPT ![w] = left]
      /\ handled' = handled \cup {<<w, c.id>> : c \in ToSet(burst'[w])}
      /\ worker[w] = "rx" /\ worker' = [worker EXCEPT ![w] = "tx"]
  BY <1>1 DEF Receive, Goto
<1>6. \A i \in 1 .. Len(queue[w]) : queue[w][i] \in Clean
  BY <1>2
<1>7. taken \in Seq(Clean) /\ Len(taken) = k /\ \A i \in 1 .. k : taken[i] = queue[w][i]
  <2>1. /\ taken \in Seq(Clean) /\ Len(taken) = (IF 1 <= k THEN k - 1 + 1 ELSE 0)
        /\ \A i \in 1 .. k - 1 + 1 : taken[i] = queue[w][1 + i - 1]
    <3>1. \A i \in 1 .. k : queue[w][i] \in Clean
      BY <1>2, <1>4, <1>6
    <3> QED  BY <1>4, <3>1, SubSeqProperties
  <2> HIDE DEF taken
  <2> QED  BY <1>4, <2>1
<1>8. /\ left \in Seq(Clean) /\ Len(left) = Len(queue[w]) - k
      /\ \A i \in 1 .. Len(queue[w]) - k : left[i] = queue[w][i + k]
  <2>1. /\ left \in Seq(Clean)
        /\ Len(left) = (IF k + 1 <= Len(queue[w]) THEN Len(queue[w]) - (k + 1) + 1 ELSE 0)
        /\ \A i \in 1 .. Len(queue[w]) - (k + 1) + 1 : left[i] = queue[w][k + 1 + i - 1]
    <3>1. (\A i \in k + 1 .. Len(queue[w]) : queue[w][i] \in Clean) /\ k + 1 \in Int /\ Len(queue[w]) \in Int
      BY <1>2, <1>4, <1>6
    <3> QED  BY <3>1, SubSeqProperties
  <2> HIDE DEF left
  <2> QED  BY <1>2, <1>4, <2>1
<1> HIDE DEF taken, left
<1>9. /\ burst'[w] = taken /\ queue'[w] = left
      /\ burst' \in [Workers -> Seq(Clean)] /\ queue' \in [Workers -> Seq(Clean)]
      /\ \A v \in Workers \ {w} : burst'[v] = burst[v] /\ queue'[v] = queue[v]
  BY <1>2, <1>5, <1>7, <1>8
<1>10. {<<w, c.id>> : c \in ToSet(burst'[w])} = {<<w, burst'[w][i].id>> : i \in 1 .. k}
  <2>1. ToSet(taken) = {taken[i] : i \in 1 .. k}
    BY <1>7 DEF ToSet
  <2> QED  BY <1>9, <2>1
<1> QED  BY <1>1, <1>4, <1>5, <1>7, <1>8, <1>9, <1>10

LEMMA ReceiveKeepsOrder ==
  ASSUME IInv, Ordered, NEW w \in Workers, burst[w] = << >>, Receive(w)
  PROVE  Ordered'
<1>1. /\ QueuesFit /\ QueuesOrdered /\ BurstsOrdered /\ SentInOrder
      /\ queue \in [Workers -> Seq(Clean)] /\ QueueCap \in Nat
      /\ UNCHANGED out
  BY RuntimeAssumption DEF Ordered, IInv, Types, Receive
<1>2. PICK k \in Nat \ {0} :
        /\ k <= Len(queue[w])
        /\ burst' \in [Workers -> Seq(Clean)] /\ queue' \in [Workers -> Seq(Clean)]
        /\ Len(burst'[w]) = k /\ \A i \in 1 .. k : burst'[w][i] = queue[w][i]
        /\ Len(queue'[w]) = Len(queue[w]) - k
        /\ \A i \in 1 .. Len(queue[w]) - k : queue'[w][i] = queue[w][i + k]
        /\ \A v \in Workers \ {w} : burst'[v] = burst[v] /\ queue'[v] = queue[v]
        /\ handled' = handled \cup {<<w, burst'[w][i].id>> : i \in 1 .. k}
  BY ReceiveMoves
<1>3. /\ Len(queue[w]) \in Nat /\ DOMAIN queue[w] = 1 .. Len(queue[w])
      /\ DOMAIN queue'[w] = 1 .. Len(queue[w]) - k
      /\ DOMAIN burst'[w] = 1 .. k
  BY <1>1, <1>2
<1>4. \A i, j \in 1 .. Len(queue[w]) : i < j => queue[w][i].id < queue[w][j].id
  BY <1>1, <1>3 DEF QueuesOrdered, Increasing
<1>5. Increasing(queue'[w]) /\ Increasing(burst'[w])
  <2>1. ASSUME NEW i \in 1 .. Len(queue[w]) - k, NEW j \in 1 .. Len(queue[w]) - k, i < j
        PROVE  queue'[w][i].id < queue'[w][j].id
    <3>1. /\ i + k \in 1 .. Len(queue[w]) /\ j + k \in 1 .. Len(queue[w]) /\ i + k < j + k
          /\ queue'[w][i] = queue[w][i + k] /\ queue'[w][j] = queue[w][j + k]
      BY <1>2, <1>3, <2>1
    <3> QED  BY <1>4, <3>1
  <2>2. ASSUME NEW i \in 1 .. k, NEW j \in 1 .. k, i < j
        PROVE  burst'[w][i].id < burst'[w][j].id
    <3>1. /\ i \in 1 .. Len(queue[w]) /\ j \in 1 .. Len(queue[w])
          /\ burst'[w][i] = queue[w][i] /\ burst'[w][j] = queue[w][j]
      BY <1>2, <1>3
    <3> QED  BY <1>4, <2>2, <3>1
  <2> QED  BY <1>3, <2>1, <2>2 DEF Increasing
<1>6. ASSUME NEW i \in DOMAIN queue'[w]
      PROVE  /\ \E j \in DOMAIN queue[w] : queue'[w][i] = queue[w][j]
             /\ \A j \in 1 .. k : burst'[w][j].id < queue'[w][i].id
  <2>1. i + k \in 1 .. Len(queue[w]) /\ queue'[w][i] = queue[w][i + k] /\ \A j \in 1 .. k : j < i + k
    BY <1>2, <1>3
  <2>2. \A j \in 1 .. k : j \in 1 .. Len(queue[w]) /\ burst'[w][j] = queue[w][j]
    BY <1>2, <1>3
  <2> QED  BY <1>3, <1>4, <2>1, <2>2
<1>7. ASSUME NEW h \in handled', h[1] \in Workers, NEW i \in DOMAIN queue'[h[1]]
      PROVE  h[2] < queue'[h[1]][i].id
  <2>1. CASE h \in handled
    <3>1. CASE h[1] = w
      BY <1>1, <1>6, <2>1, <3>1, <1>7 DEF QueuesOrdered
    <3>2. CASE h[1] # w
      BY <1>1, <1>2, <1>7, <2>1, <3>2 DEF QueuesOrdered
    <3> QED  BY <3>1, <3>2
  <2>2. CASE h \in {<<w, burst'[w][j].id>> : j \in 1 .. k}
    <3>1. PICK j \in 1 .. k : h = <<w, burst'[w][j].id>>
      BY <2>2
    <3> QED  BY <1>6, <1>7, <3>1
  <2> QED  BY <1>2, <2>1, <2>2
<1>8. \A h \in handled' : h[1] \in Workers
  BY <1>2, HeldHasArrived
<1>9. QueuesFit' /\ QueuesOrdered'
  <2>1. \A v \in Workers : Len(queue'[v]) <= QueueCap /\ Increasing(queue'[v])
    BY <1>1, <1>2, <1>3, <1>5 DEF QueuesFit, QueuesOrdered
  <2> QED  BY <1>7, <1>8, <2>1 DEF QueuesFit, QueuesOrdered, Increasing
<1>10. BurstsOrdered'
  <2>1. ASSUME NEW v \in Workers
        PROVE  Increasing(burst'[v])
    <3>1. CASE v = w
      BY <1>5, <3>1
    <3>2. CASE v # w
      BY <1>1, <1>2, <3>2 DEF BurstsOrdered
    <3> QED  BY <3>1, <3>2
  <2>2. ASSUME NEW v \in Workers, NEW i \in DOMAIN burst'[v]
        PROVE  <<v, burst'[v][i].id>> \in handled'
    <3>1. CASE v = w
      BY <1>2, <1>3, <2>2, <3>1
    <3>2. CASE v # w
      BY <1>1, <1>2, <2>2, <3>2 DEF BurstsOrdered
    <3> QED  BY <3>1, <3>2
  <2> QED  BY <2>1, <2>2 DEF BurstsOrdered, Increasing
<1>11. SentInOrder'
  <2>1. ASSUME NEW p \in DOMAIN out, NEW i \in DOMAIN burst'[out[p][1]]
        PROVE  out[p][2] < burst'[out[p][1]][i].id
    <3>1. out[p] \in handled /\ out[p][1] \in Workers
      BY <1>1, HeldHasArrived DEF SentInOrder
    <3>2. CASE out[p][1] = w
      <4>1. i \in DOMAIN queue[w] /\ burst'[w][i] = queue[w][i]
        BY <1>2, <1>3, <2>1, <3>2
      <4> QED  BY <1>1, <3>1, <3>2, <4>1 DEF QueuesOrdered
    <3>3. CASE out[p][1] # w
      BY <1>1, <1>2, <2>1, <3>1, <3>3 DEF SentInOrder
    <3> QED  BY <3>2, <3>3
  <2>2. \A p \in DOMAIN out : out[p] \in handled'
    BY <1>1, <1>2 DEF SentInOrder
  <2> QED  BY <1>1, <2>1, <2>2 DEF SentInOrder
<1> QED  BY <1>9, <1>10, <1>11 DEF Ordered

LEMMA SeqOfLength ==
  ASSUME NEW S, NEW n \in Nat, NEW f \in [1 .. n -> S]
  PROVE  f \in Seq(S) /\ Len(f) = n
<1>1. f \in Seq(S)
  BY SeqDef
<1>2. Len(f) \in Nat /\ DOMAIN f = 1 .. Len(f) /\ DOMAIN f = 1 .. n
  BY <1>1, LenProperties
<1> QED  BY <1>1, <1>2

\* A sequence of n elements and one of k behind it.
LEMMA Joined ==
  ASSUME NEW S, NEW s \in Seq(S), NEW t \in Seq(S), NEW n \in Nat, n = Len(s), NEW k \in Nat, k = Len(t),
         NEW u, u = s \o t
  PROVE  /\ u \in Seq(S) /\ Len(u) = n + k /\ DOMAIN u = 1 .. n + k
         /\ \A p \in 1 .. n + k : \/ p \in 1 .. n /\ u[p] = s[p]
                                  \/ p \notin 1 .. n /\ \E i \in 1 .. k : p = n + i /\ u[p] = t[i]
<1>1. /\ u \in Seq(S) /\ Len(u) = n + k
      /\ \A p \in 1 .. n + k : u[p] = IF p <= n THEN s[p] ELSE t[p - n]
  BY ConcatProperties
<1>2. DOMAIN u = 1 .. n + k
  BY <1>1, LenProperties
<1>3. ASSUME NEW p \in 1 .. n + k
      PROVE  \/ p \in 1 .. n /\ u[p] = s[p]
             \/ p \notin 1 .. n /\ \E i \in 1 .. k : p = n + i /\ u[p] = t[i]
  <2>1. CASE p <= n
    BY <1>1, <2>1
  <2>2. CASE ~(p <= n)
    <3>0. p - n \in Int
      OBVIOUS
    <3>1. PICK i \in Int : i = p - n
      BY <3>0
    <3>2. i \in 1 .. k /\ p = n + i /\ p \notin 1 .. n
      BY <2>2, <3>1
    <3>3. u[p] = t[i]
      BY <1>1, <2>2, <3>1
    <3> QED  BY <3>2, <3>3
  <2> QED  BY <2>1, <2>2
<1> QED  BY <1>1, <1>2, <1>3

\* tx_burst() sends the first frames of the burst, and nobody hears them.
LEMMA TransmitSends ==
  ASSUME IInv, out \in Seq(Workers \X Frames), missed \in [Workers -> Nat], NEW w \in Workers, Transmit(w)
  PROVE  \E n \in Nat, m \in Nat, k \in Nat :
           /\ n = Len(out) /\ m = Len(burst[w]) /\ k <= m /\ sent' = [sent EXCEPT ![w] = sent[w] + k]
           /\ out' \in Seq(Workers \X Frames) /\ DOMAIN out' = 1 .. n + k
           /\ \A p \in 1 .. n + k : \/ p \in 1 .. n /\ out'[p] = out[p]
                                    \/ /\ p \notin 1 .. n
                                       /\ \E i \in 1 .. k : p = n + i /\ out'[p] = <<w, burst[w][i].id>>
           /\ burst' \in [Workers -> Seq(Clean)] /\ burst'[w] = << >>
           /\ \A v \in Workers \ {w} : burst'[v] = burst[v]
           /\ UNCHANGED <<queue, missed>>
<1>1. Types /\ OpenBeforeWork /\ burst \in [Workers -> Seq(Clean)] /\ burst[w] \in Seq(Clean)
  BY DEF IInv, Types
<1>2. PICK k \in 0 .. Len(burst[w]) :
        LET done == SubSeq(burst[w], 1, k)
        IN  /\ sent' = [sent EXCEPT ![w] = sent[w] + k]
            /\ out' = out \o [p \in 1 .. k |-> <<w, done[p].id>>]
            /\ Deliver(Echoes(w), [p \in 1 .. k |-> [id |-> done[p].id, sent |-> TRUE]])
  BY DEF Transmit
<1>3. k \in Nat /\ k <= Len(burst[w]) /\ Len(burst[w]) \in Nat
  BY <1>1, <1>2
<1>4. worker[w] = "tx" /\ burst' = [burst EXCEPT ![w] = << >>]
  BY DEF Transmit, Goto
<1>5. \A i \in 1 .. k : burst[w][i] \in Clean /\ SubSeq(burst[w], 1, k)[i] = burst[w][i]
  <2>1. \A i \in 1 .. k : burst[w][i] \in Clean
    BY <1>1, <1>3
  <2>2. \A i \in 1 .. k - 1 + 1 : SubSeq(burst[w], 1, k)[i] = burst[w][1 + i - 1]
    BY <1>3, <2>1, SubSeqProperties
  <2> QED  BY <1>3, <2>1, <2>2
<1> DEFINE new == [p \in 1 .. k |-> <<w, SubSeq(burst[w], 1, k)[p].id>>]
<1>6. /\ new \in Seq(Workers \X Frames) /\ Len(new) = k
      /\ \A i \in 1 .. k : new[i] = <<w, burst[w][i].id>>
  <2>1. \A i \in 1 .. k : new[i] = <<w, burst[w][i].id>> /\ new[i] \in Workers \X Frames
    BY <1>5 DEF Clean
  <2>2. DOMAIN new = 1 .. k
    OBVIOUS
  <2>3. new \in [1 .. k -> Workers \X Frames]
    BY <2>1
  <2> HIDE DEF new
  <2>4. new \in Seq(Workers \X Frames) /\ Len(new) = k
    BY <1>3, <2>3, SeqOfLength
  <2> QED  BY <2>1, <2>4
<1>7. out' = out \o new
  BY <1>2
<1> HIDE DEF new
<1>8. PICK n \in Nat : n = Len(out)
  BY LenProperties
<1>9. /\ out' \in Seq(Workers \X Frames) /\ DOMAIN out' = 1 .. n + k
      /\ \A p \in 1 .. n + k : \/ p \in 1 .. n /\ out'[p] = out[p]
                               \/ p \notin 1 .. n /\ \E i \in 1 .. k : p = n + i /\ out'[p] = new[i]
  <2>1. /\ out \in Seq(Workers \X Frames) /\ new \in Seq(Workers \X Frames)
        /\ n \in Nat /\ n = Len(out) /\ k \in Nat /\ k = Len(new)
    BY <1>3, <1>6, <1>8
  <2>2. PICK u : u = out'
    OBVIOUS
  <2>3. u = out \o new
    BY <1>7, <2>2
  <2>4. PICK pairs : pairs = Workers \X Frames
    OBVIOUS
  <2>5. /\ u \in Seq(pairs) /\ DOMAIN u = 1 .. n + k
        /\ \A p \in 1 .. n + k : \/ p \in 1 .. n /\ u[p] = out[p]
                                 \/ p \notin 1 .. n /\ \E i \in 1 .. k : p = n + i /\ u[p] = new[i]
    <3>1. out \in Seq(pairs) /\ new \in Seq(pairs)
      BY <2>1, <2>4
    <3> HIDE DEF new
    <3> QED  BY <2>1, <2>3, <3>1, Joined
  <2> QED  BY <2>2, <2>4, <2>5
<1>10. UNCHANGED <<queue, missed>>
  <2>1. Echoes(w) = {}
    BY <1>1, <1>4 DEF OpenBeforeWork, Echoes
  <2>2. queue = [v \in Workers |-> queue[v]] /\ missed = [v \in Workers |-> missed[v]]
    BY <1>1 DEF Types
  <2>3. \A copies : Deliver({}, copies) => queue' = queue /\ missed' = missed
    BY <2>2 DEF Deliver
  <2> QED  BY <1>2, <2>1, <2>3
<1>11. /\ burst' \in [Workers -> Seq(Clean)] /\ burst'[w] = << >>
       /\ \A v \in Workers \ {w} : burst'[v] = burst[v]
  BY <1>1, <1>4
<1>12. \A p \in 1 .. n + k : \/ p \in 1 .. n /\ out'[p] = out[p]
                             \/ /\ p \notin 1 .. n
                                /\ \E i \in 1 .. k : p = n + i /\ out'[p] = <<w, burst[w][i].id>>
  BY <1>6, <1>9
<1>13. sent' = [sent EXCEPT ![w] = sent[w] + k]
  BY <1>2
<1>14. out' \in Seq(Workers \X Frames) /\ DOMAIN out' = 1 .. n + k
  BY <1>9
<1> QED  BY <1>3, <1>8, <1>10, <1>11, <1>12, <1>13, <1>14, Zenon

LEMMA TransmitKeepsOrder ==
  ASSUME IInv, Ordered, missed \in [Workers -> Nat], NEW w \in Workers, Transmit(w)
  PROVE  Ordered'
<1>1. /\ QueuesFit /\ QueuesOrdered /\ BurstsOrdered /\ SentInOrder
      /\ burst[w] \in Seq(Clean) /\ out \in Seq(Workers \X Frames)
      /\ UNCHANGED handled
  BY DEF Ordered, IInv, Types, Transmit, SentInOrder
<1>2. PICK n \in Nat, m \in Nat, k \in Nat :
        /\ n = Len(out) /\ m = Len(burst[w]) /\ k <= m
        /\ out' \in Seq(Workers \X Frames) /\ DOMAIN out' = 1 .. n + k
        /\ \A p \in 1 .. n + k : \/ p \in 1 .. n /\ out'[p] = out[p]
                                 \/ /\ p \notin 1 .. n
                                    /\ \E i \in 1 .. k : p = n + i /\ out'[p] = <<w, burst[w][i].id>>
        /\ burst' \in [Workers -> Seq(Clean)] /\ burst'[w] = << >>
        /\ \A v \in Workers \ {w} : burst'[v] = burst[v]
        /\ UNCHANGED queue
  BY <1>1, TransmitSends
<1>3. QueuesFit' /\ QueuesOrdered'
  BY <1>1, <1>2 DEF QueuesFit, QueuesOrdered, Increasing
<1>4. /\ DOMAIN burst[w] = 1 .. m /\ DOMAIN burst'[w] = {} /\ DOMAIN out = 1 .. n
  BY <1>1, <1>2, LenProperties
<1>5. BurstsOrdered'
  BY <1>1, <1>2, <1>4 DEF BurstsOrdered, Increasing
\* What was sent before, and what is sent now.
<1>6. ASSUME NEW p \in 1 .. n
      PROVE  /\ out[p] \in handled /\ out[p][1] \in Workers
             /\ \A i \in DOMAIN burst[out[p][1]] : out[p][2] < burst[out[p][1]][i].id
             /\ \A q \in 1 .. n : p < q /\ out[p][1] = out[q][1] => out[p][2] < out[q][2]
  <2>1. p \in DOMAIN out /\ out[p] \in handled
    BY <1>1, <1>4 DEF SentInOrder
  <2>2. out[p][1] \in Workers
    BY <2>1, HeldHasArrived
  <2> QED  BY <1>1, <1>4, <2>1, <2>2 DEF SentInOrder
<1>7. ASSUME NEW i \in 1 .. k
      PROVE  /\ i \in DOMAIN burst[w] /\ <<w, burst[w][i].id>> \in handled
             /\ \A j \in 1 .. k : i < j => burst[w][i].id < burst[w][j].id
  <2>1. \A j \in 1 .. k : j \in DOMAIN burst[w]
    <3>1. k <= m
      BY <1>2
    <3>2. DOMAIN burst[w] = 1 .. m
      BY <1>4
    <3> QED  BY <3>1, <3>2
  <2> QED  BY <1>1, <2>1 DEF BurstsOrdered, Increasing
<1>8. ASSUME NEW p \in 1 .. n + k
      PROVE  out'[p] \in handled /\ \A i \in DOMAIN burst'[out'[p][1]] : out'[p][2] < burst'[out'[p][1]][i].id
  <2>1. CASE p \in 1 .. n /\ out'[p] = out[p]
    <3>1. CASE out[p][1] = w
      BY <1>4, <1>6, <2>1, <3>1
    <3>2. CASE out[p][1] # w
      <4>1. burst'[out[p][1]] = burst[out[p][1]]
        BY <1>2, <1>6, <2>1, <3>2
      <4> QED  BY <1>6, <2>1, <4>1
    <3> QED  BY <3>1, <3>2
  <2>2. ASSUME NEW i \in 1 .. k, out'[p] = <<w, burst[w][i].id>>
        PROVE  out'[p] \in handled /\ out'[p][1] = w
    BY <1>7, <2>2
  <2> QED  BY <1>2, <1>4, <2>1, <2>2
<1>9. ASSUME NEW p \in 1 .. n + k, NEW q \in 1 .. n + k, p < q, out'[p][1] = out'[q][1]
      PROVE  out'[p][2] < out'[q][2]
  <2>1. CASE p \in 1 .. n /\ q \in 1 .. n /\ out'[p] = out[p] /\ out'[q] = out[q]
    BY <1>6, <1>9, <2>1
  <2>2. ASSUME p \in 1 .. n, out'[p] = out[p], NEW j \in 1 .. k, out'[q] = <<w, burst[w][j].id>>
        PROVE  out'[p][2] < out'[q][2]
    <3>1. out'[q][1] = w /\ out'[q][2] = burst[w][j].id
      BY <2>2
    <3>2. out[p][1] = w
      BY <1>9, <2>2, <3>1
    <3>3. j \in DOMAIN burst[w]
      BY <1>7
    <3> QED  BY <1>6, <2>2, <3>1, <3>2, <3>3
  <2>3. ASSUME NEW i \in 1 .. k, p = n + i, out'[p] = <<w, burst[w][i].id>>,
               NEW j \in 1 .. k, q = n + j, out'[q] = <<w, burst[w][j].id>>
        PROVE  out'[p][2] < out'[q][2]
    <3>1. i < j
      BY <1>9, <2>3
    <3>2. burst[w][i].id < burst[w][j].id
      BY <1>7, <3>1
    <3> QED  BY <2>3, <3>2
  <2>4. ~(p \notin 1 .. n /\ q \in 1 .. n)
    BY <1>9
  <2> QED  BY <1>2, <2>1, <2>2, <2>3, <2>4
<1>10. SentInOrder'
  <2>1. \A p \in DOMAIN out' : p \in 1 .. n + k
    BY <1>2
  <2>2. \A p \in DOMAIN out' : /\ out'[p] \in handled'
                              /\ \A i \in DOMAIN burst'[out'[p][1]] : out'[p][2] < burst'[out'[p][1]][i].id
    BY <1>1, <1>8, <2>1
  <2>3. \A p, q \in DOMAIN out' : p < q /\ out'[p][1] = out'[q][1] => out'[p][2] < out'[q][2]
    BY <1>9, <2>1
  <2> QED  BY <1>2, <2>2, <2>3 DEF SentInOrder
<1> QED  BY <1>3, <1>5, <1>10 DEF Ordered
-----------------------------------------------------------------------------
(***************************************************************************)
(* The counters of a worker, and those of its socket.                      *)
(***************************************************************************)
Counters ==
  /\ processed \in [Workers -> Nat] /\ sent \in [Workers -> Nat]
  /\ missed \in [Workers -> Nat] /\ imissed \in [Workers -> Nat]

Ledger == IInv /\ BurstsAreReceived /\ Ordered /\ Counters /\ CountersAddUp

\* A step that moves no frame and counts none.
Still == UNCHANGED <<queue, burst, processed, sent, missed, imissed, arrived, early, handled, out>>

LEMMA Steps ==
  ASSUME [Next]_vars
  PROVE  \/ Arrive \/ Still
         \/ \E w \in Workers : Receive(w) \/ Transmit(w) \/ Report(w)
<1>1. ASSUME NEW w \in Workers, Setup(w) \/ CheckQuit(w) \/ RxTimeout(w) \/ RxFails(w) \/ Close(w) \/ Spawn(w)
      PROVE  Still
  BY <1>1, Zenon DEF Setup, CheckQuit, RxTimeout, RxFails, Close, Spawn, MaySpawn, Goto, Still, kernel, history
<1>2. ASSUME NEW w \in Workers, Open(w) \/ OpenFails(w)
      PROVE  Still
  BY <1>2, Zenon DEF Open, Create, Bind, IgnoreOutgoing, JoinFanout, SetSock, OpenFails, threads, history, Still
<1>3. ASSUME Signal \/ StartWorkers \/ Exit \/ UNCHANGED vars
      PROVE  Still
  BY <1>3, Zenon DEF Signal, StartWorkers, Exit, vars, kernel, threads, history, Still
<1> QED  BY <1>1, <1>2, <1>3 DEF Next, RunMain, Work

LEMMA HandledIsFinite ==
  ASSUME IInv
  PROVE  IsFiniteSet(handled) /\ \A w \in Workers : IsFiniteSet(ProcessedBy(w))
<1>1. IsFiniteSet(Workers) /\ IsFiniteSet(Frames)
  BY RuntimeAssumption, FS_Interval DEF Workers, Frames
<1>2. IsFiniteSet(Workers \X Frames)
  BY <1>1, FS_Product
<1>3. IsFiniteSet(handled)
  BY <1>2, FS_Subset DEF IInv, OneHolder
<1> QED  BY <1>3, FS_Subset DEF ProcessedBy

LEMMA Enumerated ==
  ASSUME NEW I, IsFiniteSet(I), NEW f, \A i, j \in I : f[i] = f[j] => i = j
  PROVE  IsFiniteSet({f[i] : i \in I}) /\ Cardinality({f[i] : i \in I}) = Cardinality(I)
<1> DEFINE S == {f[i] : i \in I}
           b == [i \in I |-> f[i]]
<1>1. b \in Bijection(I, S)
  BY DEF Bijection, Injection, Surjection, IsInjective
<1>2. ExistsBijection(I, S)
  BY <1>1 DEF ExistsBijection
<1> HIDE DEF S
<1>3. IsFiniteSet(S) /\ Cardinality(S) = Cardinality(I)
  BY <1>2, FS_Bijection
<1> QED  BY <1>3 DEF S

LEMMA FirstNumbers ==
  ASSUME NEW k \in Nat
  PROVE  IsFiniteSet(1 .. k) /\ Cardinality(1 .. k) = k
<1>1. IsFiniteSet(1 .. k) /\ Cardinality(1 .. k) = IF 1 > k THEN 0 ELSE k - 1 + 1
  BY FS_Interval
<1> QED  BY <1>1

LEMMA DisjointUnion ==
  ASSUME NEW S, IsFiniteSet(S), NEW T, IsFiniteSet(T), S \cap T = {}
  PROVE  Cardinality(S \cup T) = Cardinality(S) + Cardinality(T)
<1>1. /\ Cardinality(S \cup T) = Cardinality(S) + Cardinality(T) - Cardinality(S \cap T)
      /\ Cardinality(S) \in Nat /\ Cardinality(T) \in Nat
  BY FS_Union, FS_CardinalityType
<1>2. Cardinality(S \cap T) = 0
  BY FS_EmptySet
<1> QED  BY <1>1, <1>2

\* A burst adds its frames to those the worker has processed.
LEMMA ReceiveCounts ==
  ASSUME Ledger, NEW w \in Workers, Receive(w)
  PROVE  Counters' /\ CountersAddUp'
<1>1. IInv /\ Ordered /\ Counters /\ CountersAddUp /\ burst[w] = << >>
  BY DEF Ledger, BurstsAreReceived, Receive, Goto
<1>2. PICK k \in Nat \ {0} :
        /\ k <= Len(queue[w]) /\ k = NbRx(w)
        /\ burst' \in [Workers -> Seq(Clean)]
        /\ Len(burst'[w]) = k /\ \A i \in 1 .. k : burst'[w][i] = queue[w][i]
        /\ \A v \in Workers \ {w} : burst'[v] = burst[v]
        /\ handled' = handled \cup {<<w, burst'[w][i].id>> : i \in 1 .. k}
  BY <1>1, ReceiveMoves
<1>3. /\ processed' = [processed EXCEPT ![w] = processed[w] + k]
      /\ UNCHANGED <<missed, sent, imissed, out>>
  BY <1>2 DEF Receive, Count
<1>4. Counters'
  BY <1>1, <1>3 DEF Counters
<1>5. queue[w] \in Seq(Clean) /\ Len(queue[w]) \in Nat /\ DOMAIN queue[w] = 1 .. Len(queue[w])
  BY <1>1, LenProperties DEF IInv, Types
<1>6. \A i, j \in 1 .. k : i < j => queue[w][i].id < queue[w][j].id
  BY <1>1, <1>2, <1>5 DEF Ordered, QueuesOrdered, Increasing
<1>7. \A i \in 1 .. k : /\ queue[w][i].id \in Nat
                        /\ \A h \in handled : h[1] = w => h[2] < queue[w][i].id
  <2>1. \A i \in 1 .. k : i \in DOMAIN queue[w]
    BY <1>2, <1>5
  <2> QED  BY <1>1, <2>1, HeldHasArrived DEF Ordered, QueuesOrdered
<1> DEFINE f == [i \in 1 .. k |-> <<w, queue[w][i].id>>]
           new == {f[i] : i \in 1 .. k}
<1>8. IsFiniteSet(new) /\ Cardinality(new) = k
  <2>1. ASSUME NEW i \in 1 .. k, NEW j \in 1 .. k, f[i] = f[j]
        PROVE  i = j
    <3>1. queue[w][i].id = queue[w][j].id
      BY <2>1
    <3>2. ~(i < j) /\ ~(j < i)
      BY <1>6, <1>7, <3>1
    <3> QED  BY <3>2
  <2>2. IsFiniteSet(1 .. k) /\ Cardinality(1 .. k) = k
    BY FirstNumbers
  <2> HIDE DEF f
  <2>3. IsFiniteSet({f[i] : i \in 1 .. k}) /\ Cardinality({f[i] : i \in 1 .. k}) = Cardinality(1 .. k)
    BY <2>1, <2>2, Enumerated
  <2> QED  BY <2>2, <2>3
<1>9. handled' = handled \cup new
  <2>1. {<<w, burst'[w][i].id>> : i \in 1 .. k} = new
    BY <1>2
  <2> QED  BY <1>2, <2>1
<1>10. \A h \in new : h[1] = w
  OBVIOUS
<1>11. new \cap handled = {}
  <2> SUFFICES ASSUME NEW h \in new, h \in handled PROVE FALSE
    OBVIOUS
  <2>1. PICK i \in 1 .. k : h = <<w, queue[w][i].id>>
    OBVIOUS
  <2>2. h[1] = w /\ h[2] = queue[w][i].id
    BY <2>1
  <2> QED  BY <1>7, <2>2
<1> HIDE DEF new
<1>12. ASSUME NEW v \in Workers
       PROVE  /\ processed'[v] = Cardinality(ProcessedBy(v)')
              /\ sent'[v] = Cardinality(SentBy(v)')
              /\ sent'[v] + Len(burst'[v]) <= processed'[v]
  <2>1. /\ processed[v] = Cardinality(ProcessedBy(v)) /\ sent[v] = Cardinality(SentBy(v))
        /\ sent[v] + Len(burst[v]) <= processed[v]
        /\ processed[v] \in Nat /\ sent[v] \in Nat
        /\ SentBy(v)' = SentBy(v)
    BY <1>1, <1>3 DEF CountersAddUp, Counters, SentBy
  <2>2. CASE v = w
    <3>1. ProcessedBy(w)' = ProcessedBy(w) \cup new
      BY <1>9, <1>10 DEF ProcessedBy
    <3>2. ProcessedBy(w) \cap new = {}
      BY <1>11 DEF ProcessedBy
    <3>3. IsFiniteSet(ProcessedBy(w))
      BY <1>1, HandledIsFinite
    <3>4. Cardinality(ProcessedBy(w)') = Cardinality(ProcessedBy(w)) + k
      BY <1>8, <3>1, <3>2, <3>3, DisjointUnion
    <3>5. processed'[w] = processed[w] + k /\ sent'[w] = sent[w] /\ Len(burst'[w]) = k /\ Len(burst[w]) = 0
      BY <1>1, <1>2, <1>3 DEF Counters
    <3> QED  BY <2>1, <2>2, <3>4, <3>5
  <2>3. CASE v # w
    <3>1. ProcessedBy(v)' = ProcessedBy(v)
      BY <1>9, <1>10, <2>3 DEF ProcessedBy
    <3>2. processed'[v] = processed[v] /\ sent'[v] = sent[v] /\ burst'[v] = burst[v]
      BY <1>1, <1>2, <1>3, <2>3 DEF Counters
    <3> QED  BY <2>1, <3>1, <3>2
  <2> QED  BY <2>2, <2>3
<1> QED  BY <1>4, <1>12 DEF CountersAddUp

\* What tx_burst() sends is some of the burst, which had not been sent.
LEMMA TransmitCounts ==
  ASSUME Ledger, NEW w \in Workers, Transmit(w)
  PROVE  Counters' /\ CountersAddUp'
<1>1. IInv /\ Ordered /\ Counters /\ CountersAddUp /\ out \in Seq(Workers \X Frames)
  BY DEF Ledger, Ordered, SentInOrder
<1>2. PICK n \in Nat, m \in Nat, k \in Nat :
        /\ n = Len(out) /\ m = Len(burst[w]) /\ k <= m /\ sent' = [sent EXCEPT ![w] = sent[w] + k]
        /\ DOMAIN out' = 1 .. n + k
        /\ \A p \in 1 .. n + k : \/ p \in 1 .. n /\ out'[p] = out[p]
                                 \/ /\ p \notin 1 .. n
                                    /\ \E i \in 1 .. k : p = n + i /\ out'[p] = <<w, burst[w][i].id>>
        /\ burst'[w] = << >>
        /\ \A v \in Workers \ {w} : burst'[v] = burst[v]
        /\ UNCHANGED missed
  <2>1. IInv /\ out \in Seq(Workers \X Frames) /\ missed \in [Workers -> Nat]
    BY <1>1 DEF Counters
  <2> QED  BY <2>1, TransmitSends
<1>3. UNCHANGED <<processed, imissed, handled>>
  BY DEF Transmit
<1>4. Counters'
  BY <1>1, <1>2, <1>3 DEF Counters
<1>5. DOMAIN out = 1 .. n
  BY <1>1, <1>2, LenProperties
<1> DEFINE new == n + 1 .. n + k
<1>6. IsFiniteSet(new) /\ Cardinality(new) = k
  <2>1. n + 1 \in Int /\ n + k \in Int
    OBVIOUS
  <2>2. IsFiniteSet(new) /\ Cardinality(new) = IF n + 1 > n + k THEN 0 ELSE (n + k) - (n + 1) + 1
    BY <2>1, FS_Interval
  <2> QED  BY <2>2
<1>7. \A p \in new : p \in 1 .. n + k /\ p \notin 1 .. n
  OBVIOUS
<1>8. \A p \in 1 .. n + k : p \in 1 .. n \/ p \in new
  OBVIOUS
<1>9. \A p \in 1 .. n : p \in 1 .. n + k /\ out'[p] = out[p]
  BY <1>2
<1>10. \A p \in new : out'[p][1] = w
  BY <1>2, <1>7
<1> HIDE DEF new
<1>11. ASSUME NEW v \in Workers
       PROVE  /\ processed'[v] = Cardinality(ProcessedBy(v)')
              /\ sent'[v] = Cardinality(SentBy(v)')
              /\ sent'[v] + Len(burst'[v]) <= processed'[v]
  <2>1. /\ processed[v] = Cardinality(ProcessedBy(v)) /\ sent[v] = Cardinality(SentBy(v))
        /\ sent[v] + Len(burst[v]) <= processed[v]
        /\ processed[v] \in Nat /\ sent[v] \in Nat
        /\ ProcessedBy(v)' = ProcessedBy(v) /\ processed' = processed
    BY <1>1, <1>3 DEF CountersAddUp, Counters, ProcessedBy
  <2>2. CASE v = w
    <3>1. SentBy(w)' = SentBy(w) \cup new
      BY <1>2, <1>5, <1>7, <1>8, <1>9, <1>10 DEF SentBy
    <3>2. SentBy(w) \cap new = {}
      BY <1>5, <1>7 DEF SentBy
    <3>3. IsFiniteSet(SentBy(w))
      <4>1. IsFiniteSet(1 .. n)
        BY FS_Interval
      <4> QED  BY <1>5, <4>1, FS_Subset DEF SentBy
    <3>4. Cardinality(SentBy(w)') = Cardinality(SentBy(w)) + k
      BY <1>6, <3>1, <3>2, <3>3, DisjointUnion
    <3>5. sent'[w] = sent[w] + k /\ Len(burst'[w]) = 0 /\ sent[w] + m <= processed[w]
      BY <1>1, <1>2, <2>1, <2>2 DEF Counters
    <3>6. k <= m /\ sent[w] \in Nat /\ processed[w] \in Nat /\ sent[w] = Cardinality(SentBy(w))
      BY <1>2, <2>1, <2>2
    <3>7. sent'[w] = Cardinality(SentBy(w)') /\ sent'[w] + Len(burst'[w]) <= processed[w]
      BY <3>4, <3>5, <3>6
    <3> QED  BY <2>1, <2>2, <3>7
  <2>3. CASE v # w
    <3>1. SentBy(v)' = SentBy(v)
      BY <1>2, <1>5, <1>7, <1>8, <1>9, <1>10, <2>3 DEF SentBy
    <3>2. sent'[v] = sent[v] /\ burst'[v] = burst[v]
      BY <1>1, <1>2, <2>3 DEF Counters
    <3> QED  BY <2>1, <3>1, <3>2
  <2> QED  BY <2>2, <2>3
<1> QED  BY <1>4, <1>11 DEF CountersAddUp

LEMMA LedgerHolds == Spec => []Ledger
<1>1. Init => Ledger
  <2> SUFFICES ASSUME Init PROVE Ledger
    OBVIOUS
  <2>1. BurstsAreReceived /\ Ordered /\ Counters
    BY RuntimeAssumption DEF Init, BurstsAreReceived, Ordered, QueuesFit, QueuesOrdered, BurstsOrdered,
       SentInOrder, Increasing, Counters
  <2>2. CountersAddUp
    <3>1. \A w \in Workers : ProcessedBy(w) = {} /\ SentBy(w) = {}
      BY DEF Init, ProcessedBy, SentBy
    <3>2. Cardinality({}) = 0
      BY FS_EmptySet
    <3>3. \A w \in Workers : processed[w] = 0 /\ sent[w] = 0 /\ Len(burst[w]) = 0
      BY DEF Init
    <3>4. \A w \in Workers : Cardinality(ProcessedBy(w)) = 0 /\ Cardinality(SentBy(w)) = 0
      BY <3>1, <3>2
    <3> HIDE DEF Init
    <3>5. \A w \in Workers : sent[w] + Len(burst[w]) = 0 + 0
      BY <3>3
    <3> QED  BY <3>3, <3>4, <3>5 DEF CountersAddUp
  <2>3. IInv
    <3>1. Types /\ OpenBeforeWork
      BY DEF Init, Types, OpenBeforeWork, Places
    <3>2. OneHolder
      BY DEF Init, OneHolder, Holds
    <3> QED  BY <3>1, <3>2 DEF IInv
  <2> QED  BY <2>1, <2>2, <2>3 DEF Ledger
<1>2. ASSUME Ledger, IInv', [Next]_vars
      PROVE  Ledger'
  <2>1. IInv /\ BurstsAreReceived /\ Ordered /\ Counters /\ CountersAddUp /\ missed \in [Workers -> Nat]
    BY <1>2 DEF Ledger, Counters
  <2>2. BurstsAreReceived'
    BY <1>2, <2>1, BurstsChange
  <2>3. CASE Arrive
    <3>1. Ordered' /\ missed' \in [Workers -> Nat]
      BY <2>1, <2>3, ArriveKeepsOrder, ArriveAdds DEF Ordered
    <3>2. UNCHANGED <<burst, processed, sent, imissed, handled, out>>
      BY <2>3 DEF Arrive, threads
    <3> QED  BY <1>2, <2>1, <2>2, <3>1, <3>2 DEF Ledger, Counters, CountersAddUp, ProcessedBy, SentBy
  <2>4. CASE Still
    <3>1. Ordered'
      BY <2>1, <2>4, OrderUntouched DEF Still
    <3> QED  BY <1>2, <2>1, <2>2, <2>4, <3>1 DEF Still, Ledger, Counters, CountersAddUp, ProcessedBy, SentBy
  <2>5. ASSUME NEW w \in Workers, Receive(w)
        PROVE  Ledger'
    <3>1. burst[w] = << >>
      BY <2>1, <2>5 DEF BurstsAreReceived, Receive, Goto
    <3> QED  BY <1>2, <2>1, <2>2, <2>5, <3>1, ReceiveKeepsOrder, ReceiveCounts DEF Ledger
  <2>6. ASSUME NEW w \in Workers, Transmit(w)
        PROVE  Ledger'
    BY <1>2, <2>1, <2>2, <2>6, TransmitKeepsOrder, TransmitCounts DEF Ledger
  <2>7. ASSUME NEW w \in Workers, Report(w)
        PROVE  Ledger'
    <3>1. UNCHANGED <<queue, burst, processed, sent, handled, out>>
          /\ imissed' = [imissed EXCEPT ![w] = missed[w]] /\ missed' = [missed EXCEPT ![w] = 0]
      BY <2>7 DEF Report, history
    <3>2. Ordered'
      BY <2>1, <3>1, OrderUntouched
    <3>3. Counters'
      BY <2>1, <3>1 DEF Counters
    <3> QED  BY <1>2, <2>1, <2>2, <3>1, <3>2, <3>3 DEF Ledger, CountersAddUp, ProcessedBy, SentBy
  <2> QED  BY <1>2, <2>3, <2>4, <2>5, <2>6, <2>7, Steps
<1> QED  BY <1>1, <1>2, InductiveInvariant, PTL DEF Spec

(***************************************************************************)
(* PORT_STATS: ipackets counts each frame a worker processed and opackets  *)
(* each frame it sent, and the subtraction of lib.rs:164 never wraps, for  *)
(* bursts of any size.                                                     *)
(***************************************************************************)
THEOREM CountersAreRight == Spec => []CountersAddUp
<1>1. Ledger => CountersAddUp
  BY DEF Ledger
<1> QED  BY <1>1, LedgerHolds, PTL
-----------------------------------------------------------------------------
(***************************************************************************)
(* While no socket has left the group: a late frame is where its flow is   *)
(* at home, and a frame that is lost has been counted by a socket, or by   *)
(* the report of a worker about it.                                        *)
(***************************************************************************)
AtHome == \A w \in Workers, f \in Nat : Holds(w, f) /\ Late(f) => home[Traffic[f].flow] = w

LossesFit == IsFiniteSet(Lost) /\ Cardinality(Lost) <= Total(missed) + Total(imissed)

GroupInv ==
  /\ home \in [Flows -> Workers]
  /\ \A w \in Workers : imissed[w] # 0 => worker[w] \in {"close", "gone"}
  /\ NoDeparture => AtHome /\ LossesFit

LEMMA Sums ==
  ASSUME Counters
  PROVE  /\ missed \in [Workers -> Int] /\ imissed \in [Workers -> Int]
         /\ Total(missed) \in Nat /\ Total(imissed) \in Nat /\ IsFiniteSet(Workers)
<1>1. IsFiniteSet(Workers)
  <2>1. NbWorkers \in Int
    BY RuntimeAssumption
  <2> QED  BY <2>1, FS_Interval DEF Workers
<1> QED  BY <1>1, TotalOfNats DEF Counters

\* A closed socket stays closed; the flows move only while run() opens them.
LEMMA GroupChanges ==
  ASSUME Types, home \in [Flows -> Workers], [Next]_vars
  PROVE  /\ home' \in [Flows -> Workers]
         /\ NoDeparture' => NoDeparture /\ (home' = home \/ (main = "open" /\ Still))
<1>1. ASSUME NEW w \in Workers, Open(w)
      PROVE  /\ home' \in [Flows -> Workers]
             /\ NoDeparture' => NoDeparture /\ main = "open" /\ Still
  <2>1. PICK from \in {"none", "created", "bound", "quiet"}, to \in {"created", "bound", "quiet", "member"} :
          SetSock(w, from, to)
    BY <1>1, Zenon DEF Open, Create, Bind, IgnoreOutgoing, JoinFanout
  <2>2. /\ main = "open" /\ sock' = [sock EXCEPT ![w] = to] /\ sock[w] = from /\ Regroup /\ Still
    BY <2>1 DEF SetSock, Opening, threads, history, Still
  <2>3. home' \in [Flows -> Workers]
    BY <2>2 DEF Regroup, Members
  <2>4. NoDeparture' => NoDeparture
    BY <2>2 DEF Types, NoDeparture
  <2> QED  BY <2>2, <2>3, <2>4
<1>2. ASSUME NEW w \in Workers, OpenFails(w)
      PROVE  home' = home /\ (NoDeparture' => NoDeparture)
  BY <1>2 DEF OpenFails, NoDeparture
<1>3. ASSUME NEW w \in Workers, Close(w)
      PROVE  home' \in [Flows -> Workers] /\ ~NoDeparture'
  <2>1. sock' = [sock EXCEPT ![w] = "closed"] /\ Regroup
    BY <1>3 DEF Close
  <2> QED  BY <2>1 DEF Types, NoDeparture, Regroup, Members
<1>4. ASSUME NEW w \in Workers, Setup(w) \/ CheckQuit(w) \/ Receive(w) \/ RxTimeout(w) \/ RxFails(w)
                                \/ Transmit(w) \/ Report(w) \/ Spawn(w)
      PROVE  UNCHANGED <<sock, home>>
  BY <1>4, Zenon DEF Setup, CheckQuit, Receive, RxTimeout, RxFails, Transmit, Report, Spawn, kernel
<1>5. ASSUME Arrive \/ Signal \/ StartWorkers \/ Exit \/ UNCHANGED vars
      PROVE  UNCHANGED <<sock, home>>
  BY <1>5, Zenon DEF Arrive, Signal, StartWorkers, Exit, vars, kernel
<1>6. ASSUME UNCHANGED <<sock, home>>
      PROVE  home' \in [Flows -> Workers] /\ (NoDeparture' => NoDeparture) /\ home' = home
  BY <1>6 DEF NoDeparture
<1>7. \/ \E w \in Workers : Open(w) \/ OpenFails(w) \/ Close(w)
      \/ UNCHANGED <<sock, home>>
  BY <1>4, <1>5 DEF Next, RunMain, Work
<1> QED  BY <1>1, <1>2, <1>3, <1>6, <1>7

\* A worker that has reported leaves.
LEMMA ReportsChange ==
  ASSUME Types, Counters, GroupInv, [Next]_vars
  PROVE  \A v \in Workers : imissed'[v] # 0 => worker'[v] \in {"close", "gone"}
<1>1. ASSUME NEW w \in Workers, Report(w)
      PROVE  \A v \in Workers : imissed'[v] # 0 => worker'[v] \in {"close", "gone"}
  BY <1>1 DEF Report, Goto, GroupInv, Types, Counters
<1>2. ASSUME NEW w \in Workers, Setup(w) \/ CheckQuit(w) \/ Receive(w) \/ RxTimeout(w) \/ RxFails(w)
                                \/ Transmit(w) \/ Spawn(w) \/ Close(w)
      PROVE  \A v \in Workers : imissed'[v] # 0 => worker'[v] \in {"close", "gone"}
  <2>1. /\ imissed' = imissed /\ \A v \in Workers \ {w} : worker'[v] = worker[v]
        /\ worker[w] \in {"close", "gone"} => worker'[w] \in {"close", "gone"}
    BY <1>2 DEF Setup, CheckQuit, Receive, RxTimeout, RxFails, Transmit, Spawn, MaySpawn, Close, Goto, Types
  <2> QED  BY <2>1 DEF GroupInv
<1>3. ASSUME Arrive \/ Signal \/ StartWorkers \/ Exit \/ UNCHANGED vars \/ \E w \in Workers : Open(w) \/ OpenFails(w)
      PROVE  UNCHANGED <<imissed, worker>>
  BY <1>3, Zenon DEF Arrive, Signal, StartWorkers, Exit, vars, threads, Open, OpenFails, Create, Bind,
       IgnoreOutgoing, JoinFanout, SetSock
<1> QED  BY <1>1, <1>2, <1>3 DEF Next, RunMain, Work, GroupInv

\* In a step that leaves early as it is, no frame is lost that was held.
LEMMA NoneLost ==
  ASSUME IsFiniteSet(Lost), Lost' \subseteq Lost
  PROVE  IsFiniteSet(Lost') /\ Cardinality(Lost') <= Cardinality(Lost)
         /\ Cardinality(Lost') \in Nat /\ Cardinality(Lost) \in Nat
BY FS_Subset, FS_CardinalityType

\* A frame that arrives while the group is complete goes to its home.
LEMMA ArriveInGroup ==
  ASSUME Ledger, GroupInv, NoDeparture, Arrive
  PROVE  AtHome' /\ LossesFit'
<1>1. /\ IInv /\ Ordered /\ Counters /\ QueuesFit /\ OneHolder /\ OpenBeforeWork /\ Types
      /\ missed \in [Workers -> Nat] /\ home \in [Flows -> Workers] /\ AtHome /\ LossesFit
  BY DEF Ledger, GroupInv, IInv, Ordered, Counters
<1>2. PICK c \in Clean :
        /\ c.id = arrived + 1 /\ arrived' = c.id /\ arrived \in Nat
        /\ \A v \in Workers :
             \/ queue'[v] = queue[v] /\ missed'[v] = missed[v] /\ v \notin Taps(Traffic[c.id].flow, Traffic[c.id].iface)
             \/ /\ v \in Taps(Traffic[c.id].flow, Traffic[c.id].iface)
                /\ \/ Len(queue[v]) < QueueCap /\ queue'[v] = Append(queue[v], c) /\ missed'[v] = missed[v]
                   \/ queue'[v] = queue[v] /\ missed'[v] = missed[v] + 1
        /\ missed' \in [Workers -> Nat]
  BY <1>1, ArriveAdds
<1>3. /\ UNCHANGED <<main, sock, home, handled, imissed>>
      /\ early' = (IF main = "open" THEN c.id ELSE early)
      /\ main \in {"open", "spawn", "join"}
  BY <1>1, <1>2 DEF Arrive, threads, Types
<1>4. Counters'
  <2>1. UNCHANGED <<processed, sent, imissed>>
    BY DEF Arrive, threads
  <2> QED  BY <1>1, <1>2, <2>1 DEF Counters
<1>5. /\ Total(missed) \in Nat /\ Total(imissed) \in Nat /\ IsFiniteSet(Workers)
      /\ Total(missed') \in Nat /\ Total(imissed') = Total(imissed)
  <2>1. PICK m : m = missed'
    OBVIOUS
  <2>2. m \in [Workers -> Nat]
    BY <1>2, <2>1
  <2>3. IsFiniteSet(Workers) /\ Total(missed) \in Nat /\ Total(imissed) \in Nat
    BY <1>1, Sums
  <2>4. Total(m) \in Nat
    BY <2>2, <2>3, TotalOfNats
  <2> QED  BY <1>3, <2>1, <2>3, <2>4
<1>6. CASE main = "open"
  <2>1. early' = arrived' /\ arrived' \in Nat
    BY <1>2, <1>3, <1>6
  <2>2. Lost' = {}
    <3>1. \A g \in 1 .. arrived' : ~(g > early')
      BY <2>1
    <3> QED  BY <3>1 DEF Lost, Late
  <2>3. AtHome'
    <3>1. OneHolder'
      BY <1>1, ArriveKeeps DEF IInv
    <3>2. \A w \in Workers, g \in Nat : Holds(w, g)' => g <= arrived'
      BY <3>1 DEF OneHolder
    <3>3. \A g \in Nat : g <= arrived' => ~(g > early')
      BY <2>1
    <3> QED  BY <3>2, <3>3 DEF AtHome, Late
  <2>4. Cardinality({}) = 0 /\ IsFiniteSet({})
    BY FS_EmptySet
  <2>5. Cardinality(Lost') = 0 /\ IsFiniteSet(Lost')
    BY <2>2, <2>4
  <2>6. 0 <= Total(missed') + Total(imissed')
    BY <1>5
  <2> QED  BY <2>3, <2>5, <2>6 DEF LossesFit
<1>7. CASE main \in {"spawn", "join"}
  <2>1. PICK f \in Nat : f = c.id
    BY <1>2
  <2>2. /\ f \in Frames /\ f = arrived + 1 /\ arrived' = f /\ early' = early
        /\ \A g \in Nat : Late(g)' <=> Late(g)
    BY <1>2, <1>3, <1>7, <2>1 DEF Clean, Late
  <2>3. \A v \in Workers : sock[v] = "member"
    BY <1>1, <1>7 DEF OpenBeforeWork, NoDeparture
  <2>4. \A v \in Workers : v \in Taps(Traffic[f].flow, Traffic[f].iface) =>
          v = home[Traffic[f].flow] /\ Traffic[f].iface = "nf"
    BY <2>3 DEF Taps
  <2>5. \A v \in Workers : v = home[Traffic[f].flow] /\ Traffic[f].iface = "nf" =>
          v \in Taps(Traffic[f].flow, Traffic[f].iface)
    BY <2>3 DEF Taps
  \* What is held afterwards.
  <2>6. ASSUME NEW v \in Workers
        PROVE  /\ \A i \in DOMAIN queue[v] : i \in DOMAIN queue'[v] /\ queue'[v][i] = queue[v][i]
               /\ \A i \in DOMAIN queue'[v] :
                    \/ i \in DOMAIN queue[v] /\ queue'[v][i] = queue[v][i]
                    \/ queue'[v][i].id = f /\ v \in Taps(Traffic[f].flow, Traffic[f].iface)
    <3>1. CASE queue'[v] = queue[v]
      BY <3>1
    <3>2. CASE v \in Taps(Traffic[f].flow, Traffic[f].iface) /\ queue'[v] = Append(queue[v], c)
      <4>1. queue[v] \in Seq(Clean) /\ c \in Clean
        BY <1>1 DEF Types
      <4>2. PICK s \in Seq(Clean) : s = queue[v]
        BY <4>1
      <4>3. PICK t : t = Append(s, c)
        OBVIOUS
      <4>4. /\ DOMAIN s = 1 .. Len(s) /\ DOMAIN t = 1 .. Len(s) + 1 /\ Len(s) \in Nat
            /\ t[Len(s) + 1] = c /\ \A i \in 1 .. Len(s) : t[i] = s[i]
        BY <4>3
      <4>5. \A i \in 1 .. Len(s) + 1 : i \in 1 .. Len(s) \/ i = Len(s) + 1
        BY <4>4
      <4>6. \A i \in 1 .. Len(s) : i \in 1 .. Len(s) + 1
        BY <4>4
      <4>7. /\ \A i \in DOMAIN s : i \in DOMAIN t /\ t[i] = s[i]
            /\ \A i \in DOMAIN t : (i \in DOMAIN s /\ t[i] = s[i]) \/ t[i] = c
        BY <4>4, <4>5, <4>6
      <4> QED  BY <2>1, <3>2, <4>2, <4>3, <4>7
    <3> QED  BY <1>2, <2>1, <3>1, <3>2
  <2>7. ASSUME NEW v \in Workers, NEW g \in Nat, Holds(v, g)'
        PROVE  Holds(v, g) \/ (g = f /\ v = home[Traffic[f].flow])
    BY <1>3, <2>4, <2>6, <2>7 DEF Holds
  <2>8. AtHome'
    BY <1>1, <1>3, <2>2, <2>7 DEF AtHome
  <2>9. \A g \in Lost' : g \in Lost \/ (g = f /\ Traffic[f].iface = "nf")
    <3> SUFFICES ASSUME NEW g \in Lost', g # f PROVE g \in Lost
      BY DEF Lost
    <3>1. /\ g \in 1 .. f /\ Late(g)' /\ Traffic[g].iface = "nf"
          /\ \A v \in Workers : <<v, g>> \notin handled /\ \A d \in ToSet(queue'[v]) : d.id # g
      BY <1>3, <2>2 DEF Lost
    <3>2. g \in 1 .. arrived /\ Late(g)
      BY <1>2, <2>2, <3>1
    <3>3. \A v \in Workers : \A d \in ToSet(queue[v]) : d \in ToSet(queue'[v])
      BY <2>6 DEF ToSet
    <3> QED  BY <3>1, <3>2, <3>3 DEF Lost
  <2>10. IsFiniteSet(Lost) /\ Cardinality(Lost) <= Total(missed) + Total(imissed) /\ Cardinality(Lost) \in Nat
    BY <1>1, FS_CardinalityType DEF LossesFit
  <2>11. CASE Lost' \subseteq Lost /\ missed' = missed
    <3>1. IsFiniteSet(Lost') /\ Cardinality(Lost') <= Cardinality(Lost) /\ Cardinality(Lost') \in Nat
      BY <2>10, <2>11, NoneLost
    <3>2. Total(missed') = Total(missed)
      BY <2>11
    <3> QED  BY <1>5, <2>8, <2>10, <3>1, <3>2 DEF LossesFit
  <2>12. CASE \E w \in Workers : missed'[w] = missed[w] + 1 /\ \A v \in Workers \ {w} : missed'[v] = missed[v]
    <3>1. PICK w \in Workers : missed'[w] = missed[w] + 1 /\ \A v \in Workers \ {w} : missed'[v] = missed[v]
      BY <2>12
    <3>2. PICK m \in [Workers -> Nat] : m = missed'
      BY <1>2
    <3>3. Total(m) = Total(missed) + 1
      BY <1>1, <1>5, <3>1, <3>2, OneMoreInTotal
    <3>4. IsFiniteSet(Lost \cup {f}) /\ Cardinality(Lost \cup {f}) <= Cardinality(Lost) + 1
          /\ Cardinality(Lost \cup {f}) \in Nat
      <4>1. /\ IsFiniteSet(Lost \cup {f})
            /\ \/ Cardinality(Lost \cup {f}) = Cardinality(Lost)
               \/ Cardinality(Lost \cup {f}) = Cardinality(Lost) + 1
        BY <2>10, FS_AddElement
      <4> QED  BY <2>10, <4>1
    <3>5. Lost' \subseteq Lost \cup {f}
      BY <2>9
    <3>6. IsFiniteSet(Lost') /\ Cardinality(Lost') <= Cardinality(Lost \cup {f}) /\ Cardinality(Lost') \in Nat
      BY <3>4, <3>5, FS_Subset, FS_CardinalityType
    <3>7. Cardinality(Lost') <= Total(missed') + Total(imissed')
      BY <1>5, <2>10, <3>2, <3>3, <3>4, <3>6
    <3> QED  BY <2>8, <3>6, <3>7 DEF LossesFit
  <2>13. CASE Traffic[f].iface # "nf"
    <3>1. \A v \in Workers : v \notin Taps(Traffic[f].flow, Traffic[f].iface)
      BY <2>4, <2>13
    <3>2. missed' = missed
      BY <1>1, <1>2, <2>1, <3>1
    <3> QED  BY <2>9, <2>11, <2>13, <3>2
  <2>14. CASE Traffic[f].iface = "nf"
    <3>1. PICK w \in Workers : w = home[Traffic[f].flow]
      BY <1>1, <2>2 DEF Flows
    <3>2. /\ w \in Taps(Traffic[f].flow, Traffic[f].iface)
          /\ \A v \in Workers \ {w} : v \notin Taps(Traffic[f].flow, Traffic[f].iface)
      BY <2>4, <2>5, <2>14, <3>1
    <3>3. \A v \in Workers \ {w} : missed'[v] = missed[v]
      BY <1>2, <2>1, <3>2
    <3>4. CASE missed'[w] = missed[w] + 1
      BY <2>12, <3>3, <3>4
    <3>5. CASE queue'[w] = Append(queue[w], c) /\ missed'[w] = missed[w]
      <4>1. missed' = missed
        BY <1>1, <1>2, <3>3, <3>5
      <4>2. f \notin Lost'
        <5>1. queue[w] \in Seq(Clean) /\ c \in Clean
          BY <1>1 DEF Types
        <5>2. c \in ToSet(queue'[w])
          BY <3>5, <5>1 DEF ToSet
        <5> QED  BY <2>1, <5>2 DEF Lost
      <4> QED  BY <2>9, <2>11, <4>1, <4>2
    <3> QED  BY <1>2, <2>1, <3>2, <3>4, <3>5
  <2> QED  BY <1>1, <2>2, <2>13, <2>14, RuntimeAssumption
<1> QED  BY <1>3, <1>6, <1>7

LEMMA ReceiveInGroup ==
  ASSUME Ledger, GroupInv, NoDeparture, NEW w \in Workers, Receive(w)
  PROVE  AtHome' /\ LossesFit'
<1>1. /\ IInv /\ Types /\ Counters /\ AtHome /\ LossesFit
  BY DEF Ledger, GroupInv, IInv
<1>2. PICK k \in Nat \ {0} :
        /\ k <= Len(queue[w])
        /\ \A i \in 1 .. k : burst'[w][i] = queue[w][i]
        /\ queue' \in [Workers -> Seq(Clean)]
        /\ Len(queue'[w]) = Len(queue[w]) - k
        /\ \A i \in 1 .. Len(queue[w]) - k : queue'[w][i] = queue[w][i + k]
        /\ \A v \in Workers \ {w} : queue'[v] = queue[v]
        /\ handled' = handled \cup {<<w, burst'[w][i].id>> : i \in 1 .. k}
  BY <1>1, ReceiveMoves
<1>3. UNCHANGED <<home, arrived, early, missed, imissed>>
  BY DEF Receive
<1>4. /\ Len(queue[w]) \in Nat /\ DOMAIN queue[w] = 1 .. Len(queue[w])
      /\ DOMAIN queue'[w] = 1 .. Len(queue[w]) - k
  BY <1>1, <1>2, LenProperties DEF Types
\* A frame of the queue stays in it or is processed, and none comes from elsewhere.
<1>5. ASSUME NEW i \in DOMAIN queue[w]
      PROVE  <<w, queue[w][i].id>> \in handled' \/ \E j \in DOMAIN queue'[w] : queue'[w][j] = queue[w][i]
  <2>1. CASE i <= k
    <3>1. i \in 1 .. k
      BY <1>4, <2>1
    <3> QED  BY <1>2, <3>1
  <2>2. CASE ~(i <= k)
    <3>1. i - k \in 1 .. Len(queue[w]) - k /\ (i - k) + k = i
      BY <1>2, <1>4, <2>2
    <3>2. queue'[w][i - k] = queue[w][i]
      BY <1>2, <3>1
    <3> QED  BY <1>4, <3>1, <3>2
  <2> QED  BY <2>1, <2>2
<1>6. ASSUME NEW i \in DOMAIN queue'[w]
      PROVE  \E j \in DOMAIN queue[w] : queue'[w][i] = queue[w][j]
  <2>1. i + k \in 1 .. Len(queue[w]) /\ queue'[w][i] = queue[w][i + k]
    BY <1>2, <1>4
  <2> QED  BY <1>4, <2>1
<1>7. ASSUME NEW h \in handled'
      PROVE  h \in handled \/ \E i \in DOMAIN queue[w] : h = <<w, queue[w][i].id>>
  <2>1. \A i \in 1 .. k : i \in DOMAIN queue[w] /\ burst'[w][i] = queue[w][i]
    BY <1>2, <1>4
  <2> QED  BY <1>2, <2>1
<1>8. AtHome'
  <2> SUFFICES ASSUME NEW v \in Workers, NEW f \in Nat, Holds(v, f)', Late(f)'
               PROVE  home'[Traffic[f].flow] = v
    BY DEF AtHome
  <2>1. Holds(v, f)
    <3>1. CASE <<v, f>> \in handled'
      <4>1. CASE <<v, f>> \in handled
        BY <4>1 DEF Holds
      <4>2. CASE \E i \in DOMAIN queue[w] : <<v, f>> = <<w, queue[w][i].id>>
        BY <4>2 DEF Holds
      <4> QED  BY <1>7, <3>1, <4>1, <4>2
    <3>2. CASE \E i \in DOMAIN queue'[v] : queue'[v][i].id = f
      <4>1. CASE v = w
        BY <1>6, <3>2, <4>1 DEF Holds
      <4>2. CASE v # w
        BY <1>2, <3>2, <4>2 DEF Holds
      <4> QED  BY <4>1, <4>2
    <3> QED  BY <3>1, <3>2 DEF Holds
  <2>2. Late(f)
    BY <1>3 DEF Late
  <2> QED  BY <1>1, <1>3, <2>1, <2>2 DEF AtHome
<1>9. Lost' \subseteq Lost
  <2> SUFFICES ASSUME NEW g \in Lost' PROVE g \in Lost
    OBVIOUS
  <2>1. /\ g \in 1 .. arrived /\ Late(g) /\ Traffic[g].iface = "nf"
        /\ \A v \in Workers : <<v, g>> \notin handled' /\ \A d \in ToSet(queue'[v]) : d.id # g
    BY <1>3 DEF Lost, Late
  <2>2. ASSUME NEW v \in Workers, NEW i \in DOMAIN queue[v] PROVE queue[v][i].id # g
    <3>1. CASE v = w
      <4>1. CASE <<w, queue[w][i].id>> \in handled'
        BY <2>1, <3>1, <4>1
      <4>2. CASE \E j \in DOMAIN queue'[w] : queue'[w][j] = queue[w][i]
        BY <2>1, <3>1, <4>2 DEF ToSet
      <4> QED  BY <1>5, <2>2, <3>1, <4>1, <4>2
    <3>2. CASE v # w
      <4>1. queue[v][i] \in ToSet(queue'[v])
        BY <1>2, <2>2, <3>2 DEF ToSet
      <4> QED  BY <2>1, <4>1
    <3> QED  BY <3>1, <3>2
  <2>3. \A v \in Workers : <<v, g>> \notin handled
    BY <1>2, <2>1
  <2> QED  BY <2>1, <2>2, <2>3 DEF Lost, ToSet
<1>10. IsFiniteSet(Lost') /\ Cardinality(Lost') <= Cardinality(Lost)
       /\ Cardinality(Lost') \in Nat /\ Cardinality(Lost) \in Nat
  BY <1>1, <1>9, NoneLost DEF LossesFit
<1>11. Total(missed) \in Nat /\ Total(imissed) \in Nat /\ Total(missed') = Total(missed) /\ Total(imissed') = Total(imissed)
  BY <1>1, <1>3, Sums
<1>12. Cardinality(Lost) <= Total(missed) + Total(imissed)
  BY <1>1 DEF LossesFit
<1>13. Cardinality(Lost') <= Total(missed') + Total(imissed')
  BY <1>10, <1>11, <1>12
<1> QED  BY <1>8, <1>10, <1>13 DEF LossesFit

\* The report takes over what the socket has counted.
LEMMA ReportInGroup ==
  ASSUME Ledger, GroupInv, NoDeparture, NEW w \in Workers, Report(w)
  PROVE  AtHome' /\ LossesFit'
<1>1. /\ Counters /\ AtHome /\ LossesFit /\ imissed[w] = 0 /\ missed[w] \in Nat
  BY DEF Ledger, GroupInv, Report, Goto, Counters
<1>2. /\ UNCHANGED <<queue, home, arrived, early, handled>>
      /\ imissed' = [imissed EXCEPT ![w] = missed[w]] /\ missed' = [missed EXCEPT ![w] = 0]
  BY DEF Report, history
<1>3. AtHome' /\ Lost' = Lost
  BY <1>1, <1>2 DEF AtHome, Holds, Late, Lost
<1>4. /\ missed \in [Workers -> Int] /\ imissed \in [Workers -> Int] /\ IsFiniteSet(Workers)
      /\ Total(missed) \in Nat /\ Total(imissed) \in Nat
  BY <1>1, Sums
<1>5. PICK m : m = [missed EXCEPT ![w] = 0]
  OBVIOUS
<1>6. PICK i : i = [imissed EXCEPT ![w] = missed[w]]
  OBVIOUS
<1>7. m \in [Workers -> Int] /\ m[w] = 0 /\ \A v \in Workers \ {w} : m[v] = missed[v]
  BY <1>4, <1>5
<1>8. i \in [Workers -> Int] /\ i[w] = missed[w] /\ \A v \in Workers \ {w} : i[v] = imissed[v]
  BY <1>4, <1>6
<1>9. Total(m) = Total(missed) - missed[w] + m[w]
  BY <1>4, <1>7, TotalExcept
<1>10. Total(i) = Total(imissed) - imissed[w] + i[w]
  BY <1>4, <1>8, TotalExcept
<1>11. Total(m) + Total(i) = Total(missed) + Total(imissed)
  BY <1>1, <1>4, <1>7, <1>8, <1>9, <1>10
<1>12. Total(missed') + Total(imissed') = Total(missed) + Total(imissed)
  BY <1>2, <1>5, <1>6, <1>11
<1> QED  BY <1>1, <1>3, <1>12 DEF LossesFit

LEMMA GroupHolds == Spec => [](Ledger /\ GroupInv)
<1>1. Init => GroupInv
  <2> SUFFICES ASSUME Init PROVE GroupInv
    OBVIOUS
  <2>1. AtHome
    BY DEF Init, AtHome, Holds
  <2>2. Lost = {}
    BY DEF Init, Lost
  <2>3. Counters
    BY DEF Init, Counters
  <2>4. Total(missed) \in Nat /\ Total(imissed) \in Nat
    BY <2>3, Sums
  <2>5. Cardinality({}) = 0 /\ IsFiniteSet({})
    BY FS_EmptySet
  <2>6. LossesFit
    BY <2>2, <2>4, <2>5 DEF LossesFit
  <2> QED  BY <2>1, <2>6 DEF GroupInv, Init
<1>2. ASSUME Ledger, GroupInv, [Next]_vars
      PROVE  GroupInv'
  <2>1. Types /\ OneHolder /\ Counters /\ IInv /\ Ordered /\ home \in [Flows -> Workers]
    BY <1>2 DEF Ledger, IInv, GroupInv
  <2>2. /\ home' \in [Flows -> Workers]
        /\ NoDeparture' => NoDeparture /\ (home' = home \/ (main = "open" /\ Still))
    BY <1>2, <2>1, GroupChanges
  <2>3. \A w \in Workers : imissed'[w] # 0 => worker'[w] \in {"close", "gone"}
    BY <1>2, <2>1, ReportsChange
  <2>4. ASSUME NoDeparture'
        PROVE  AtHome' /\ LossesFit'
    <3>1. NoDeparture /\ AtHome /\ LossesFit /\ (home' = home \/ (main = "open" /\ Still))
      BY <1>2, <2>2, <2>4 DEF GroupInv
    <3>2. CASE Arrive
      BY <1>2, <3>1, <3>2, ArriveInGroup
    <3>3. ASSUME NEW w \in Workers, Receive(w)
          PROVE  AtHome' /\ LossesFit'
      BY <1>2, <3>1, <3>3, ReceiveInGroup
    <3>4. ASSUME NEW w \in Workers, Report(w)
          PROVE  AtHome' /\ LossesFit'
      BY <1>2, <3>1, <3>4, ReportInGroup
    <3>5. ASSUME NEW w \in Workers, Transmit(w)
          PROVE  AtHome' /\ LossesFit'
      <4>1. UNCHANGED <<home, imissed, arrived, early, handled>>
        BY <3>5 DEF Transmit
      <4>2. UNCHANGED <<queue, missed>>
        <5>1. out \in Seq(Workers \X Frames) /\ missed \in [Workers -> Nat]
          BY <2>1 DEF Ordered, SentInOrder, Counters
        <5> QED  BY <2>1, <3>5, <5>1, TransmitSends
      <4> QED  BY <3>1, <4>1, <4>2 DEF AtHome, LossesFit, Lost, Holds, Late
    <3>6. CASE Still
      <4>1. LossesFit'
        BY <3>1, <3>6 DEF Still, LossesFit, Lost, Late
      <4>2. CASE home' = home
        BY <3>1, <3>6, <4>1, <4>2 DEF Still, AtHome, Holds, Late
      <4>3. CASE main = "open"
        <5>1. \A w \in Workers, f \in Nat : Holds(w, f)' => f <= arrived
          BY <2>1, <3>6 DEF Still, OneHolder, Holds
        <5>2. early' = arrived
          BY <2>1, <3>6, <4>3 DEF Still, OneHolder
        <5>3. \A f \in Nat : f <= arrived => ~(f > early')
          BY <2>1, <5>2 DEF Types
        <5>4. AtHome'
          BY <5>1, <5>3 DEF AtHome, Late
        <5> QED  BY <4>1, <5>4
      <4> QED  BY <3>1, <4>2, <4>3
    <3> QED  BY <1>2, <3>2, <3>3, <3>4, <3>5, <3>6, Steps
  <2> QED  BY <2>2, <2>3, <2>4 DEF GroupInv
<1> QED  BY <1>1, <1>2, LedgerHolds, PTL DEF Spec

(***************************************************************************)
(* As long as no worker has closed its socket, the drops that the sockets  *)
(* and the reports show (afpacket.rs, tp_drops) cover every frame that the *)
(* NF did not get to see.                                                  *)
(***************************************************************************)
THEOREM DropsAreCounted == Spec => []LossesAreCounted
<1>1. Ledger /\ GroupInv => LossesAreCounted
  <2>1. FoldFunction(+, 0, missed) = Total(missed) /\ FoldFunction(+, 0, imissed) = Total(imissed)
    BY FoldIsTotal
  <2> QED  BY <2>1 DEF GroupInv, LossesFit, LossesAreCounted
<1> QED  BY <1>1, GroupHolds, PTL

(***************************************************************************)
(* As long as no worker has closed its socket, the frames of a flow leave  *)
(* in the order of their arrival, and none leaves twice.                   *)
(***************************************************************************)
THEOREM FlowsStayInOrder == Spec => []OrderUntilDeparture
<1>1. ASSUME Ledger, GroupInv, NoDeparture,
             NEW p \in DOMAIN out, NEW q \in DOMAIN out, p < q,
             Late(out[p][2]), Late(out[q][2]), Traffic[out[p][2]].flow = Traffic[out[q][2]].flow
      PROVE  out[p][2] < out[q][2]
  <2>1. IInv /\ AtHome /\ out[p] \in handled /\ out[q] \in handled
    BY <1>1 DEF Ledger, GroupInv, Ordered, SentInOrder
  <2>2. /\ out[p][1] \in Workers /\ out[p][2] \in Nat /\ out[p] = <<out[p][1], out[p][2]>>
        /\ out[q][1] \in Workers /\ out[q][2] \in Nat /\ out[q] = <<out[q][1], out[q][2]>>
    BY <2>1, HeldHasArrived
  <2>3. Holds(out[p][1], out[p][2]) /\ Holds(out[q][1], out[q][2])
    BY <2>1, <2>2 DEF Holds
  <2>4. out[p][1] = out[q][1]
    BY <1>1, <2>1, <2>2, <2>3 DEF AtHome
  <2> QED  BY <1>1, <2>4 DEF Ledger, Ordered, SentInOrder
<1>2. Ledger /\ GroupInv => OrderUntilDeparture
  BY <1>1 DEF OrderUntilDeparture, FlowOrder
<1> QED  BY <1>2, GroupHolds, PTL
-----------------------------------------------------------------------------
(***************************************************************************)
(* What acl reads in a buffer: the headers of a frame this worker has      *)
(* processed, or the zeroes of a fresh buffer.                             *)
(***************************************************************************)
HeadersAreProcessed ==
  \A w \in Workers, i \in Slots : headers[w][i] # 0 =>
    <<w, headers[w][i]>> \in handled /\ ~Traffic[headers[w][i]].runt

TallyInv ==
  /\ tally \in [Workers -> [permit : Nat, deny : Nat]]
  /\ HeadersAreProcessed
  /\ TalliesAddUp

\* The frames of a burst are new, each with a number of its own.
LEMMA BurstIsNew ==
  ASSUME Ledger, NEW w \in Workers, Receive(w)
  PROVE  \E k \in Nat \ {0} :
           /\ burst'[w] \in Seq(Clean) /\ Len(burst'[w]) = k /\ DOMAIN burst'[w] = 1 .. k
           /\ \A i \in 1 .. k : burst'[w][i].id \in Frames /\ <<w, burst'[w][i].id>> \notin handled
           /\ \A i, j \in 1 .. k : burst'[w][i].id = burst'[w][j].id => i = j
           /\ handled' = handled \cup {<<w, burst'[w][i].id>> : i \in 1 .. k}
           /\ processed' = [processed EXCEPT ![w] = processed[w] + k]
           /\ \A v \in Workers \ {w} : burst'[v] = burst[v]
<1>1. IInv /\ Ordered
  BY DEF Ledger
<1>2. PICK k \in Nat \ {0} :
        /\ k <= Len(queue[w]) /\ k = NbRx(w)
        /\ burst' \in [Workers -> Seq(Clean)]
        /\ Len(burst'[w]) = k /\ \A i \in 1 .. k : burst'[w][i] = queue[w][i]
        /\ \A v \in Workers \ {w} : burst'[v] = burst[v]
        /\ handled' = handled \cup {<<w, burst'[w][i].id>> : i \in 1 .. k}
  BY <1>1, ReceiveMoves
<1>3. queue[w] \in Seq(Clean) /\ Len(queue[w]) \in Nat /\ DOMAIN queue[w] = 1 .. Len(queue[w])
  BY <1>1, LenProperties DEF IInv, Types
<1>4. burst'[w] \in Seq(Clean) /\ DOMAIN burst'[w] = 1 .. k
  BY <1>2, LenProperties
<1>5. \A i \in 1 .. k : i \in DOMAIN queue[w] /\ burst'[w][i] = queue[w][i]
  BY <1>2, <1>3
<1>6. \A i \in 1 .. k : /\ burst'[w][i].id \in Nat
                        /\ \A h \in handled : h[1] = w => h[2] < burst'[w][i].id
  BY <1>1, <1>5, HeldHasArrived DEF Ordered, QueuesOrdered
<1>7. \A i, j \in 1 .. k : i < j => burst'[w][i].id < burst'[w][j].id
  BY <1>1, <1>5 DEF Ordered, QueuesOrdered, Increasing
<1>8. ASSUME NEW i \in 1 .. k
      PROVE  burst'[w][i].id \in Frames /\ <<w, burst'[w][i].id>> \notin handled
  <2>1. burst'[w][i] \in Clean
    BY <1>4
  <2>2. ~(burst'[w][i].id < burst'[w][i].id)
    BY <1>6
  <2> QED  BY <1>6, <2>1, <2>2 DEF Clean
<1>9. ASSUME NEW i \in 1 .. k, NEW j \in 1 .. k, burst'[w][i].id = burst'[w][j].id
      PROVE  i = j
  <2>1. ~(i < j) /\ ~(j < i)
    BY <1>6, <1>7, <1>9
  <2> QED  BY <2>1
<1>10. processed' = [processed EXCEPT ![w] = processed[w] + k]
  BY <1>2 DEF Receive, Count
<1> QED  BY <1>2, <1>4, <1>8, <1>9, <1>10

\* The verdicts on a burst, of which each is one of two.
LEMMA VerdictsSplit ==
  ASSUME NEW k \in Nat, NEW V \in [1 .. k -> BOOLEAN]
  PROVE  /\ IsFiniteSet({i \in 1 .. k : V[i]}) /\ IsFiniteSet({i \in 1 .. k : ~V[i]})
         /\ Cardinality({i \in 1 .. k : V[i]}) \in Nat /\ Cardinality({i \in 1 .. k : ~V[i]}) \in Nat
         /\ Cardinality({i \in 1 .. k : V[i]}) + Cardinality({i \in 1 .. k : ~V[i]}) = k
<1> DEFINE P == {i \in 1 .. k : V[i]}
           D == {i \in 1 .. k : ~V[i]}
<1>1. IsFiniteSet(1 .. k) /\ Cardinality(1 .. k) = k
  BY FirstNumbers
<1>2. P \cup D = 1 .. k /\ P \cap D = {} /\ P \subseteq 1 .. k /\ D \subseteq 1 .. k
  OBVIOUS
<1> HIDE DEF P, D
<1>3. IsFiniteSet(P) /\ IsFiniteSet(D)
  BY <1>1, <1>2, FS_Subset
<1>4. Cardinality(P) \in Nat /\ Cardinality(D) \in Nat
  BY <1>3, FS_CardinalityType
<1>5. Cardinality(P \cup D) = Cardinality(P) + Cardinality(D)
  BY <1>2, <1>3, DisjointUnion
<1> QED  BY <1>1, <1>2, <1>3, <1>4, <1>5 DEF P, D

LEMMA BurstIsTallied ==
  ASSUME Ledger, BufInv, TallyInv, NEW w \in Workers, Receive(w), Fill(w), App(w), DOMAIN burst'[w] \subseteq Slots
  PROVE  TallyInv'
<1>1. IInv /\ Counters /\ TalliesAddUp /\ HeadersAreProcessed /\ handled \subseteq Workers \X Frames
      /\ processed \in [Workers -> Nat]
  BY DEF Ledger, TallyInv, IInv, OneHolder, Counters
<1>2. PICK k \in Nat \ {0} :
        /\ DOMAIN burst'[w] = 1 .. k
        /\ \A i \in 1 .. k : burst'[w][i].id \in Frames /\ <<w, burst'[w][i].id>> \notin handled
        /\ \A i, j \in 1 .. k : burst'[w][i].id = burst'[w][j].id => i = j
        /\ handled' = handled \cup {<<w, burst'[w][i].id>> : i \in 1 .. k}
        /\ processed' = [processed EXCEPT ![w] = processed[w] + k]
  BY BurstIsNew
<1>3. PICK id : id = [i \in 1 .. k |-> burst'[w][i].id]
  OBVIOUS
<1>4. /\ \A i \in 1 .. k : /\ id[i] \in Frames /\ id[i] \in Nat /\ id[i] # 0 /\ i \in Slots
                           /\ <<w, id[i]>> \notin handled
                           /\ Traffic[id[i]].denied \in BOOLEAN /\ Traffic[id[i]].runt \in BOOLEAN
      /\ \A i, j \in 1 .. k : id[i] = id[j] => i = j
      /\ handled' = handled \cup {<<w, id[i]>> : i \in 1 .. k}
  <2>1. \A i \in 1 .. k : id[i] = burst'[w][i].id /\ i \in Slots
    BY <1>2, <1>3
  <2>2. {<<w, burst'[w][i].id>> : i \in 1 .. k} = {<<w, id[i]>> : i \in 1 .. k}
    BY <2>1
  <2> QED  BY <1>2, <2>1, <2>2, AclAssumption, FramesAreNumbers
\* What acl finds in the buffers of the burst.
<1>5. PICK H : H = headers'[w]
  OBVIOUS
<1>6. /\ \A v \in Workers \ {w} : headers'[v] = headers[v]
      /\ \A i \in Slots : H[i] = IF i \in 1 .. k /\ ~Traffic[id[i]].runt THEN id[i] ELSE headers[w][i]
  BY <1>2, <1>3, <1>5 DEF Fill, Landed, BufInv, Buffers
<1>7. \A i \in Slots : headers[w][i] \in Nat
  BY DEF BufInv, Buffers
<1>8. ASSUME NEW i \in Slots, H[i] # 0
      PROVE  <<w, H[i]>> \in handled' /\ ~Traffic[H[i]].runt /\ H[i] \in Frames
  <2>1. CASE i \in 1 .. k /\ ~Traffic[id[i]].runt
    BY <1>4, <1>6, <2>1
  <2>2. CASE ~(i \in 1 .. k /\ ~Traffic[id[i]].runt)
    <3>1. H[i] = headers[w][i]
      BY <1>6, <2>2
    <3>2. <<w, H[i]>> \in handled /\ ~Traffic[H[i]].runt
      BY <1>1, <1>8, <3>1 DEF HeadersAreProcessed
    <3> QED  BY <1>1, <1>4, <3>2
  <2> QED  BY <2>1, <2>2
<1>9. HeadersAreProcessed'
  <2>1. ASSUME NEW v \in Workers, NEW i \in Slots, headers'[v][i] # 0
        PROVE  <<v, headers'[v][i]>> \in handled' /\ ~Traffic[headers'[v][i]].runt
    <3>1. CASE v = w
      BY <1>5, <1>8, <2>1, <3>1
    <3>2. CASE v # w
      BY <1>1, <1>4, <1>6, <2>1, <3>2 DEF HeadersAreProcessed
    <3> QED  BY <3>1, <3>2
  <2> QED  BY <2>1 DEF HeadersAreProcessed, Slots
<1>10. PICK V : V = [i \in 1 .. k |-> Classify(H[i])]
  OBVIOUS
<1>11. V \in [1 .. k -> BOOLEAN] /\ \A i \in 1 .. k : V[i] <=> (H[i] = 0 \/ ~Traffic[H[i]].denied)
  BY <1>10 DEF Classify
<1>12. PICK P, D : P = {i \in 1 .. k : V[i]} /\ D = {i \in 1 .. k : ~V[i]}
  OBVIOUS
<1>13. /\ IsFiniteSet(P) /\ IsFiniteSet(D) /\ Cardinality(P) \in Nat /\ Cardinality(D) \in Nat
       /\ Cardinality(P) + Cardinality(D) = k
  BY <1>11, <1>12, VerdictsSplit
<1>14. tally' = [tally EXCEPT ![w] = [permit |-> tally[w].permit + Cardinality(P),
                                      deny |-> tally[w].deny + Cardinality(D)]]
  <2>1. V = Verdicts(w)
    BY <1>2, <1>5, <1>10 DEF Verdicts, Landed
  <2>2. P = {i \in DOMAIN Verdicts(w) : Verdicts(w)[i]} /\ D = {i \in DOMAIN Verdicts(w) : ~Verdicts(w)[i]}
    BY <1>11, <1>12, <2>1
  <2> QED  BY <2>2 DEF App
<1>15. /\ tally' \in [Workers -> [permit : Nat, deny : Nat]]
       /\ tally'[w].permit = tally[w].permit + Cardinality(P)
       /\ tally'[w].deny = tally[w].deny + Cardinality(D)
       /\ tally[w].permit \in Nat /\ tally[w].deny \in Nat
       /\ \A v \in Workers \ {w} : tally'[v] = tally[v]
  BY <1>13, <1>14 DEF TallyInv
\* The frames of the burst with headers of their own, and the others' verdicts.
<1>16. ASSUME NEW b \in BOOLEAN
       PROVE  /\ Cardinality(Own(w, b)') <= Cardinality(Own(w, b)) + Cardinality(IF b THEN D ELSE P)
              /\ Own(w, b) \subseteq Own(w, b)'
              /\ Cardinality(Own(w, b)') \in Nat /\ Cardinality(Own(w, b)) \in Nat
  <2>1. PICK I : I = {i \in 1 .. k : ~Traffic[id[i]].runt /\ Traffic[id[i]].denied = b}
    OBVIOUS
  <2>2. PICK new : new = {<<w, id[i]>> : i \in I}
    OBVIOUS
  <2>3. I \subseteq (IF b THEN D ELSE P) /\ I \subseteq 1 .. k
    BY <1>4, <1>6, <1>11, <1>12, <2>1
  <2>4. IsFiniteSet(I) /\ Cardinality(I) <= Cardinality(IF b THEN D ELSE P) /\ Cardinality(I) \in Nat
        /\ Cardinality(IF b THEN D ELSE P) \in Nat
    <3>1. IsFiniteSet(IF b THEN D ELSE P)
      BY <1>13
    <3> QED  BY <2>3, <3>1, FS_Subset, FS_CardinalityType
  <2>5. IsFiniteSet(new) /\ Cardinality(new) = Cardinality(I)
    <3>1. PICK f : f = [i \in I |-> <<w, id[i]>>]
      OBVIOUS
    <3>2. \A i, j \in I : f[i] = f[j] => i = j
      BY <1>4, <2>3, <3>1
    <3>3. new = {f[i] : i \in I}
      BY <2>2, <3>1
    <3> QED  BY <2>4, <3>2, <3>3, Enumerated
  <2>6. Own(w, b)' = Own(w, b) \cup new
    <3>1. \A h \in new : h \in handled' /\ h[1] = w /\ ~Traffic[h[2]].runt /\ Traffic[h[2]].denied = b
      BY <1>4, <2>1, <2>2
    <3>2. \A h \in handled' : h \in handled \/ \E i \in 1 .. k : h = <<w, id[i]>>
      BY <1>4
    <3>3. ASSUME NEW h \in handled', h[1] = w, ~Traffic[h[2]].runt, Traffic[h[2]].denied = b, h \notin handled
          PROVE  h \in new
      BY <2>1, <2>2, <3>2, <3>3
    <3> QED  BY <1>4, <3>1, <3>3 DEF Own, ProcessedBy
  <2>7. IsFiniteSet(Own(w, b)) /\ Cardinality(Own(w, b)) \in Nat
    BY <1>1, HandledIsFinite, FS_Subset, FS_CardinalityType DEF Own
  <2>8. Own(w, b) \cap new = {}
    <3> SUFFICES ASSUME NEW h \in new, h \in handled PROVE FALSE
      BY DEF Own, ProcessedBy
    <3>1. PICK i \in I : h = <<w, id[i]>>
      BY <2>2
    <3> QED  BY <1>4, <2>3, <3>1
  <2>9. Cardinality(Own(w, b) \cup new) = Cardinality(Own(w, b)) + Cardinality(new)
    BY <2>5, <2>7, <2>8, DisjointUnion
  <2> QED  BY <2>4, <2>5, <2>6, <2>7, <2>9
<1>17. ASSUME Own(w, TRUE)' = {}
       PROVE  tally'[w].deny = 0
  <2>1. tally[w].deny = 0
    BY <1>1, <1>16, <1>17 DEF TalliesAddUp
  <2>2. ASSUME NEW i \in D PROVE FALSE
    <3>1. i \in Slots /\ H[i] # 0 /\ Traffic[H[i]].denied
      BY <1>4, <1>11, <1>12
    <3>2. <<w, H[i]>> \in handled' /\ ~Traffic[H[i]].runt /\ Traffic[H[i]].denied = TRUE
      BY <1>8, <3>1, AclAssumption
    <3>3. <<w, H[i]>> \in Own(w, TRUE)'
      BY <3>2 DEF Own, ProcessedBy
    <3> QED  BY <1>17, <3>3
  <2>3. Cardinality(D) = 0
    BY <2>2, FS_EmptySet
  <2> QED  BY <1>15, <2>1, <2>3
<1>18. ASSUME NEW v \in Workers
       PROVE  /\ tally'[v].permit + tally'[v].deny = processed'[v]
              /\ tally'[v].permit >= Cardinality(Own(v, FALSE)')
              /\ tally'[v].deny >= Cardinality(Own(v, TRUE)')
              /\ Own(v, TRUE)' = {} => tally'[v].deny = 0
  <2>1. /\ tally[v].permit + tally[v].deny = processed[v]
        /\ tally[v].permit >= Cardinality(Own(v, FALSE))
        /\ tally[v].deny >= Cardinality(Own(v, TRUE))
        /\ Own(v, TRUE) = {} => tally[v].deny = 0
    BY <1>1 DEF TalliesAddUp
  <2>2. CASE v = w
    <3>1. processed'[w] = processed[w] + k /\ processed[w] \in Nat
      BY <1>1, <1>2
    <3>2. tally'[w].permit + tally'[w].deny = processed'[w]
      BY <1>13, <1>15, <2>1, <2>2, <3>1
    <3>3. /\ Cardinality(Own(w, FALSE)') <= Cardinality(Own(w, FALSE)) + Cardinality(P)
          /\ Cardinality(Own(w, FALSE)') \in Nat /\ Cardinality(Own(w, FALSE)) \in Nat
      BY <1>16
    <3>4. /\ Cardinality(Own(w, TRUE)') <= Cardinality(Own(w, TRUE)) + Cardinality(D)
          /\ Cardinality(Own(w, TRUE)') \in Nat /\ Cardinality(Own(w, TRUE)) \in Nat
      BY <1>16
    <3>5. tally'[w].permit >= Cardinality(Own(w, FALSE)')
      <4>1. tally[w].permit >= Cardinality(Own(w, FALSE))
        BY <2>1, <2>2
      <4>2. PICK a \in Nat, b \in Nat, c \in Nat, d \in Nat :
              /\ a = tally[w].permit /\ b = Cardinality(Own(w, FALSE)) /\ c = Cardinality(P)
              /\ d = Cardinality(Own(w, FALSE)')
        BY <1>13, <1>15, <3>3
      <4>3. d <= b + c /\ a >= b
        BY <3>3, <4>1, <4>2, Zenon
      <4>4. a + c >= d
        BY <4>3
      <4>5. tally'[w].permit = a + c
        BY <1>15, <4>2
      <4> QED  BY <4>2, <4>4, <4>5, Zenon
    <3>6. tally'[w].deny >= Cardinality(Own(w, TRUE)')
      <4>1. tally[w].deny >= Cardinality(Own(w, TRUE))
        BY <2>1, <2>2
      <4>2. PICK a \in Nat, b \in Nat, c \in Nat, d \in Nat :
              /\ a = tally[w].deny /\ b = Cardinality(Own(w, TRUE)) /\ c = Cardinality(D)
              /\ d = Cardinality(Own(w, TRUE)')
        BY <1>13, <1>15, <3>4
      <4>3. d <= b + c /\ a >= b
        BY <3>4, <4>1, <4>2, Zenon
      <4>4. a + c >= d
        BY <4>3
      <4>5. tally'[w].deny = a + c
        BY <1>15, <4>2
      <4> QED  BY <4>2, <4>4, <4>5, Zenon
    <3> QED  BY <1>17, <2>2, <3>2, <3>5, <3>6
  <2>3. CASE v # w
    <3>1. ProcessedBy(v)' = ProcessedBy(v)
      BY <1>4, <2>3 DEF ProcessedBy
    <3>2. Own(v, TRUE)' = Own(v, TRUE) /\ Own(v, FALSE)' = Own(v, FALSE)
      BY <3>1 DEF Own
    <3>3. processed'[v] = processed[v] /\ tally'[v] = tally[v]
      BY <1>1, <1>2, <1>15, <2>3
    <3> QED  BY <2>1, <3>2, <3>3
  <2> QED  BY <2>2, <2>3
<1> QED  BY <1>9, <1>15, <1>18 DEF TallyInv, TalliesAddUp

(***************************************************************************)
(* What teardown() of acl prints is about the frames the worker processed, *)
(* runts in dirty buffers included.                                        *)
(***************************************************************************)
THEOREM TalliesAreRight == AclSpec => []TalliesAddUp
<1>1. AclInit => TallyInv
  <2> SUFFICES ASSUME AclInit PROVE TallyInv
    OBVIOUS
  <2>1. tally \in [Workers -> [permit : Nat, deny : Nat]] /\ HeadersAreProcessed
    BY DEF AclInit, HeadersAreProcessed
  <2>2. \A w \in Workers : Own(w, TRUE) = {} /\ Own(w, FALSE) = {}
    BY DEF AclInit, Init, Own, ProcessedBy
  <2>3. \A w \in Workers : tally[w].permit = 0 /\ tally[w].deny = 0 /\ processed[w] = 0
    BY DEF AclInit, Init
  <2>4. \A w \in Workers : Cardinality(Own(w, TRUE)) = 0 /\ Cardinality(Own(w, FALSE)) = 0
    BY <2>2, FS_EmptySet
  <2> HIDE DEF AclInit
  <2>5. \A w \in Workers : tally[w].permit + tally[w].deny = processed[w]
    BY <2>3
  <2>6. 0 >= 0
    OBVIOUS
  <2>7. \A w \in Workers : /\ tally[w].permit >= Cardinality(Own(w, FALSE))
                           /\ tally[w].deny >= Cardinality(Own(w, TRUE))
    BY <2>3, <2>4, <2>6, Zenon
  <2>8. TalliesAddUp
    BY <2>3, <2>5, <2>7, Zenon DEF TalliesAddUp
  <2> QED  BY <2>1, <2>8 DEF TallyInv
<1>2. ASSUME Ledger, BufInv, TallyInv, BurstsAreReceived', [AclNext]_aclvars
      PROVE  TallyInv'
  <2>1. [Next]_vars /\ IInv /\ BurstsAreReceived
    BY <1>2 DEF AclNext, aclvars, Ledger
  <2>2. OneReceives \/ NoneReceives
    BY <2>1, BurstsChange
  <2>3. ASSUME OneReceives
        PROVE  TallyInv'
    <3>1. \E w \in Workers : Receives(w)
      BY <2>3 DEF OneReceives
    <3>2. PICK w \in Workers : Receives(w) /\ Fill(w) /\ App(w)
      BY <1>2, <2>3, <3>1, OneStep
    <3>3. burst' # burst /\ burst'[w] # << >>
      BY <3>2 DEF Receives
    <3>4. PICK v \in Workers : Receive(v) \/ Transmit(v)
      BY <2>1, <3>3, Steps DEF Arrive, threads, Still, Report
    <3>5. Receive(v) /\ v = w
      <4>1. burst \in [Workers -> Seq(Clean)]
        BY <2>1 DEF IInv, Types
      <4>2. CASE Transmit(v)
        <5>1. burst' = [burst EXCEPT ![v] = << >>]
          BY <4>2 DEF Transmit
        <5> QED  BY <3>2, <4>1, <5>1 DEF Receives
      <4>3. CASE Receive(v)
        <5>1. burst' = [burst EXCEPT ![v] = SubSeq(queue[v], 1, NbRx(v))]
          BY <4>3 DEF Receive
        <5> QED  BY <3>2, <4>1, <4>3, <5>1 DEF Receives
      <4> QED  BY <3>4, <4>2, <4>3
    <3>6. DOMAIN burst'[w] \subseteq Slots
      BY <1>2 DEF BurstsAreReceived, Slots
    <3> QED  BY <1>2, <3>2, <3>5, <3>6, BurstIsTallied
  <2>4. ASSUME NoneReceives
        PROVE  TallyInv'
    <3>1. \A w \in Workers : ~Receives(w)
      BY <2>4 DEF NoneReceives, Receives
    <3>2. UNCHANGED <<headers, tally>>
      BY <1>2, <3>1 DEF AclNext, aclvars, buffers
    <3>3. ASSUME NEW w \in Workers, Receive(w) PROVE FALSE
      <4>1. burst[w] = << >>
        BY <2>1, <3>3 DEF BurstsAreReceived, Receive, Goto
      <4>2. PICK k \in Nat \ {0} : DOMAIN burst'[w] = 1 .. k
        BY <1>2, <3>3, BurstIsNew
      <4>3. 1 \in DOMAIN burst'[w]
        BY <4>2
      <4>4. burst'[w] # << >>
        BY <4>3
      <4> QED  BY <3>1, <4>1, <4>4 DEF Receives
    <3>4. UNCHANGED <<processed, handled>>
      BY <2>1, <3>3, Steps DEF Arrive, threads, Still, Transmit, Report, history
    <3> QED  BY <1>2, <3>2, <3>4 DEF TallyInv, HeadersAreProcessed, TalliesAddUp, Own, ProcessedBy, Slots
  <2> QED  BY <2>2, <2>3, <2>4
<1>3. TallyInv => TalliesAddUp
  BY DEF TallyInv
<1>4. Ledger => BurstsAreReceived
  BY DEF Ledger
<1> QED  BY <1>1, <1>2, <1>3, <1>4, AclIsRuntime, LedgerHolds, BuffersHold, PTL DEF AclSpec
-----------------------------------------------------------------------------
(***************************************************************************)
(* The wire: what tx_burst() puts there is in step with `out`.             *)
(***************************************************************************)
WireInv == wire \in Seq(Seq(Nat)) /\ SentAsReceived

\* A step that sends from no burst adds nothing to `out`.
LEMMA SendsOrKeeps ==
  ASSUME Ledger, [Next]_vars, \A w \in Workers : ~Sends(w)
  PROVE  out' \in Seq(Workers \X Frames) /\ DOMAIN out' = DOMAIN out /\ Len(out') = Len(out)
         /\ (\A p \in DOMAIN out : out'[p] = out[p]) /\ handled \subseteq handled'
<1>1. IInv /\ out \in Seq(Workers \X Frames) /\ missed \in [Workers -> Nat]
  BY DEF Ledger, Ordered, SentInOrder, Counters
<1>2. ASSUME NEW w \in Workers, Transmit(w)
      PROVE  out' \in Seq(Workers \X Frames) /\ DOMAIN out' = DOMAIN out /\ Len(out') = Len(out)
             /\ (\A p \in DOMAIN out : out'[p] = out[p]) /\ handled \subseteq handled'
  <2>1. PICK n \in Nat, m \in Nat, k \in Nat :
           /\ n = Len(out) /\ m = Len(burst[w]) /\ k <= m
           /\ out' \in Seq(Workers \X Frames) /\ DOMAIN out' = 1 .. n + k
           /\ \A p \in 1 .. n + k : \/ p \in 1 .. n /\ out'[p] = out[p]
                                    \/ p \notin 1 .. n
           /\ burst'[w] = << >>
    BY <1>1, <1>2, TransmitSends
  <2>2. burst[w] = << >>
    BY <2>1 DEF Sends
  <2>3. k = 0 /\ DOMAIN out' = 1 .. n /\ DOMAIN out = 1 .. n
    BY <1>1, <2>1, <2>2, LenProperties
  <2>4. Len(out') \in Nat /\ DOMAIN out' = 1 .. Len(out')
    BY <2>1, LenProperties
  <2>5. Len(out') = n
    BY <2>1, <2>3, <2>4
  <2>6. handled' = handled
    BY <1>2 DEF Transmit
  <2> QED  BY <2>1, <2>3, <2>5, <2>6
<1>3. ASSUME NEW w \in Workers, Receive(w) \/ Report(w)
      PROVE  out' = out /\ handled \subseteq handled'
  BY <1>3 DEF Receive, Report, history
<1>4. ASSUME Arrive \/ Still
      PROVE  out' = out /\ handled \subseteq handled'
  BY <1>4 DEF Arrive, Still
<1> QED  BY <1>1, <1>2, <1>3, <1>4, Steps

\* A worker that empties its burst transmits.
LEMMA SendersTransmit ==
  ASSUME Ledger, [Next]_vars, NEW w \in Workers, Sends(w)
  PROVE  Transmit(w)
<1>1. burst \in [Workers -> Seq(Clean)] /\ burst[w] # << >> /\ burst'[w] = << >>
  BY DEF Ledger, IInv, Types, Sends
<1>2. PICK v \in Workers : Receive(v) \/ Transmit(v)
  BY <1>1, Steps DEF Arrive, threads, Still, Report
<1>3. ASSUME Receive(v)
      PROVE  FALSE
  <2>1. burst[v] = << >>
    BY <1>3 DEF Ledger, BurstsAreReceived, Receive, Goto
  <2>2. \A u \in Workers \ {v} : burst'[u] = burst[u]
    BY <1>3, BurstIsNew
  <2> QED  BY <1>1, <2>1, <2>2
<1>4. Transmit(v)
  BY <1>2, <1>3
<1>5. burst' = [burst EXCEPT ![v] = << >>]
  BY <1>4 DEF Transmit
<1> QED  BY <1>1, <1>4, <1>5

\* A message has the bytes of the frame in its slot of the burst.
LEMMA MessagesAreFrames ==
  ASSUME BufInv, NEW w \in Workers, worker[w] = "tx", NEW i \in DOMAIN burst[w]
  PROVE  Message(w, i) = Bytes(burst[w][i].id)
  BY DEF BufInv, BurstIsInBuffers, Message, Bytes

LEMMA TxBurstAdds ==
  ASSUME Ledger, BufInv, WireInv, NEW w \in Workers, Transmit(w), TxBurst(w)
  PROVE  WireInv'
<1>1. IInv /\ out \in Seq(Workers \X Frames) /\ missed \in [Workers -> Nat]
  BY DEF Ledger, Ordered, SentInOrder, Counters
<1>2. PICK n \in Nat, m \in Nat, k \in Nat :
        /\ n = Len(out) /\ m = Len(burst[w]) /\ k <= m /\ sent' = [sent EXCEPT ![w] = sent[w] + k]
        /\ out' \in Seq(Workers \X Frames) /\ DOMAIN out' = 1 .. n + k
        /\ \A p \in 1 .. n + k : \/ p \in 1 .. n /\ out'[p] = out[p]
                                 \/ /\ p \notin 1 .. n
                                    /\ \E i \in 1 .. k : p = n + i /\ out'[p] = <<w, burst[w][i].id>>
        /\ burst' \in [Workers -> Seq(Clean)] /\ burst'[w] = << >>
        /\ \A v \in Workers \ {w} : burst'[v] = burst[v]
        /\ UNCHANGED <<queue, missed>>
  BY <1>1, TransmitSends
<1>3. worker[w] = "tx" /\ handled' = handled /\ burst[w] \in Seq(Clean)
  BY <1>1 DEF Transmit, Goto, IInv, Types
<1>4. DOMAIN burst[w] = 1 .. m
  BY <1>2, <1>3, LenProperties
<1>5. Len(out') = n + k
  <2>1. Len(out') \in Nat /\ DOMAIN out' = 1 .. Len(out')
    BY <1>2, LenProperties
  <2> QED  BY <1>2, <2>1
<1> DEFINE new == [i \in 1 .. k |-> Message(w, i)]
<1>6. \A i \in 1 .. k : /\ i \in DOMAIN burst[w] /\ burst[w][i].id \in Nat
                       /\ Message(w, i) = Bytes(burst[w][i].id)
  <2>1. \A f \in Clean : f.id \in Nat
    BY FramesAreNumbers DEF Clean
  <2>2. \A i \in 1 .. k : i \in DOMAIN burst[w]
    <3>1. k <= m
      BY <1>2
    <3> QED  BY <1>4, <3>1
  <2>3. \A i \in DOMAIN burst[w] : burst[w][i] \in Clean
    BY <1>3, ElementOfSeq, LenProperties
  <2> QED  BY <1>3, <2>1, <2>2, <2>3, MessagesAreFrames
<1>7. \A i \in 1 .. k : Message(w, i) \in Seq(Nat)
  <2>1. \A f \in Nat : Bytes(f) \in Seq(Nat)
    BY DEF Bytes
  <2> QED  BY <1>6, <2>1
<1>8. new \in Seq(Seq(Nat)) /\ Len(new) = k /\ \A i \in 1 .. k : new[i] = Message(w, i)
  <2>1. new \in [1 .. k -> Seq(Nat)] /\ \A i \in 1 .. k : new[i] = Message(w, i)
    BY <1>7
  <2>2. PICK g : g = new
    OBVIOUS
  <2>3. g \in Seq(Seq(Nat)) /\ Len(g) = k
    BY <2>1, <2>2, SeqOfLength
  <2> QED  BY <2>1, <2>2, <2>3
<1>9. wire' = wire \o new
  <2>1. Len(out') - Len(out) = k
    BY <1>2, <1>5
  <2> QED  BY <2>1 DEF TxBurst
<1> HIDE DEF new
<1>10. wire \in Seq(Seq(Nat)) /\ Len(wire) = n
  BY <1>2 DEF WireInv, SentAsReceived
<1>11. /\ wire' \in Seq(Seq(Nat)) /\ Len(wire') = n + k
       /\ \A p \in 1 .. n + k : \/ p \in 1 .. n /\ wire'[p] = wire[p]
                                \/ p \notin 1 .. n /\ \E i \in 1 .. k : p = n + i /\ wire'[p] = new[i]
  <2>1. PICK u, t, S : u = wire' /\ t = new /\ S = Seq(Nat)
    OBVIOUS
  <2>2. wire \in Seq(S) /\ t \in Seq(S) /\ n = Len(wire) /\ k = Len(t) /\ u = wire \o t
    BY <1>8, <1>9, <1>10, <2>1
  <2>3. /\ u \in Seq(S) /\ Len(u) = n + k
        /\ \A p \in 1 .. n + k : \/ p \in 1 .. n /\ u[p] = wire[p]
                                 \/ p \notin 1 .. n /\ \E i \in 1 .. k : p = n + i /\ u[p] = t[i]
    BY <2>2, Joined
  <2> QED  BY <2>1, <2>3
<1>12. \A i \in 1 .. k : <<w, burst[w][i].id>> \in handled
  BY <1>6 DEF Ledger, Ordered, BurstsOrdered
<1>13. ASSUME NEW p \in DOMAIN out'
       PROVE  out'[p] \in handled' /\ wire'[p] = Bytes(out'[p][2])
  <2>1. p \in 1 .. n + k
    BY <1>2, <1>13
  <2>2. CASE p \in 1 .. n
    <3>1. out'[p] = out[p] /\ wire'[p] = wire[p] /\ p \in DOMAIN out
      BY <1>1, <1>2, <1>11, <2>1, <2>2, LenProperties
    <3> QED  BY <1>3, <3>1 DEF WireInv, SentAsReceived
  <2>3. CASE p \notin 1 .. n
    <3>1. PICK i \in 1 .. k : p = n + i /\ out'[p] = <<w, burst[w][i].id>>
      BY <1>2, <2>1, <2>3
    <3>2. PICK j \in 1 .. k : p = n + j /\ wire'[p] = new[j]
      BY <1>11, <2>1, <2>3
    <3>3. i = j
      BY <3>1, <3>2
    <3>4. wire'[p] = Bytes(burst[w][i].id)
      BY <1>6, <1>8, <3>2, <3>3
    <3> QED  BY <1>3, <1>12, <3>1, <3>4
  <2> QED  BY <2>2, <2>3
<1>14. SentAsReceived'
  BY <1>5, <1>11, <1>13 DEF SentAsReceived, Bytes
<1> QED  BY <1>11, <1>14 DEF WireInv

(***************************************************************************)
(* What tx_burst() of afpacket.rs puts on the wire is all the bytes of     *)
(* frames rx_burst() received, and none that was left in a buffer.         *)
(***************************************************************************)
THEOREM OnlyReceivedBytesLeave == AclSpec => []SentAsReceived
<1>1. AclInit => WireInv
  BY DEF AclInit, Init, WireInv, SentAsReceived
<1>2. ASSUME Ledger, BufInv, WireInv, [AclNext]_aclvars
      PROVE  WireInv'
  <2>1. [Next]_vars
    BY <1>2 DEF AclNext, aclvars
  <2>2. CASE \E w \in Workers : Sends(w) /\ TxBurst(w)
    BY <1>2, <2>1, <2>2, SendersTransmit, TxBurstAdds
  <2>3. CASE ~\E w \in Workers : Sends(w) /\ TxBurst(w)
    <3>1. wire' = wire
      BY <1>2, <2>3 DEF AclNext, aclvars
    <3>2. \A w \in Workers : ~Sends(w)
      <4> SUFFICES ASSUME NEW w \in Workers, Sends(w) PROVE FALSE
        OBVIOUS
      <4>1. burst \in [Workers -> Seq(Clean)] /\ Transmit(w)
        BY <1>2, <2>1, SendersTransmit DEF Ledger, IInv, Types
      <4>2. \A v \in Workers \ {w} : burst'[v] = burst[v]
        BY <4>1 DEF Transmit
      <4>3. \A v \in Workers : ~Receives(v)
        BY <4>2 DEF Sends, Receives
      <4>4. burst' # burst
        BY DEF Sends
      <4> QED  BY <1>2, <2>3, <4>3, <4>4 DEF AclNext, aclvars, vars, threads
    <3>3. /\ DOMAIN out' = DOMAIN out /\ Len(out') = Len(out)
          /\ (\A p \in DOMAIN out : out'[p] = out[p]) /\ handled \subseteq handled'
      BY <1>2, <2>1, <3>2, SendsOrKeeps
    <3> QED  BY <1>2, <3>1, <3>3 DEF WireInv, SentAsReceived, Bytes
  <2> QED  BY <2>2, <2>3
<1>3. WireInv => SentAsReceived
  BY DEF WireInv
<1> QED  BY <1>1, <1>2, <1>3, AclIsRuntime, LedgerHolds, BuffersHold, PTL DEF AclSpec
=============================================================================
