------------------------------ MODULE NfRuntime ------------------------------
(***************************************************************************)
(* The runtime of the Rust network functions (rs/nf-runtime): main opens   *)
(* one AF_PACKET socket per worker and puts them into one fanout group,    *)
(* spawns the workers, which receive, process and send back bursts of      *)
(* frames until the quit flag is set, and joins them to add up their       *)
(* counters.                                                               *)
(*                                                                         *)
(* The kernel is modelled from how the code uses it: a packet socket has a *)
(* bounded receive queue; a bound socket that is in no group sees every    *)
(* frame of its interface (before bind, of every interface), the frames    *)
(* the host sends included until PACKET_IGNORE_OUTGOING is set; a group    *)
(* hands a frame to one member, the same one for a flow as long as the     *)
(* group does not change; a socket never sees what it sent itself.         *)
(***************************************************************************)
EXTENDS Integers, Sequences, FiniteSets, SequencesExt

CONSTANTS
  NbWorkers,  \* NB_WORKERS
  Traffic,    \* the frames that arrive, in order: [flow, iface]
  QueueCap,   \* frames a receive queue holds
  BurstSize   \* BURST_SIZE

Workers == 1 .. NbWorkers
Frames  == 1 .. Len(Traffic)
Flows   == {Traffic[f].flow : f \in Frames}

ASSUME RuntimeAssumption ==
  /\ NbWorkers \in Nat \ {0} /\ Len(Traffic) \in Nat
  /\ QueueCap \in Nat \ {0}
  /\ BurstSize \in Nat \ {0}
  /\ \A f \in Frames : Traffic[f].iface \in {"nf", "other"}

VARIABLES
  main,       \* "open", "spawn", "join", "exited" or "failed"
  quit,       \* QUIT
  sock,       \* sock[w]: how far PacketSock::open got, or "closed"
  worker,     \* worker[w]: the place of the thread in worker_main
  queue,      \* queue[w]: the receive queue, copies [id, sent]
  burst,      \* burst[w]: bufs[..nb_rx]
  processed,  \* worker counters
  sent,
  missed,     \* tp_drops of the socket since it was last read
  imissed,    \* rx_stats of the report
  home,       \* home[flow]: the member the group gives the flow to
  arrived,    \* the frames of Traffic that have arrived
  early,      \* those of them that arrived before the last socket was open
  handled,    \* <<w, id>>: worker w has processed frame id
  out         \* the frames sent, in order: <<w, id>>

kernel  == <<sock, queue, missed, home>>
threads == <<worker, burst, processed, sent, imissed>>
history == <<arrived, early, handled, out>>
vars    == <<main, quit, kernel, threads, history>>

Init ==
  /\ main = "open"
  /\ quit = FALSE
  /\ sock = [w \in Workers |-> "none"]
  /\ worker = [w \in Workers |-> "none"]
  /\ queue = [w \in Workers |-> << >>]
  /\ burst = [w \in Workers |-> << >>]
  /\ processed = [w \in Workers |-> 0]
  /\ sent = [w \in Workers |-> 0]
  /\ missed = [w \in Workers |-> 0]
  /\ imissed = [w \in Workers |-> 0]
  /\ home \in [Flows -> Workers]
  /\ arrived = 0
  /\ early = 0
  /\ handled = {}
  /\ out = << >>
-----------------------------------------------------------------------------
(***************************************************************************)
(* The kernel.                                                             *)
(***************************************************************************)
Members(s) == {w \in Workers : s[w] = "member"}

\* The group redistributes its flows whenever a socket joins or leaves it.
Regroup ==
  IF Members(sock') = {} THEN home' = home
  ELSE home' \in [Flows -> Members(sock')]

\* The sockets that see a frame coming in on an interface.
Taps(flow, iface) ==
  {w \in Workers :
     \/ sock[w] = "created"
     \/ iface = "nf" /\ sock[w] \in {"bound", "quiet"}
     \/ iface = "nf" /\ sock[w] = "member" /\ home[flow] = w}

\* The sockets that see a frame worker w sends.
Echoes(w) == {v \in Workers \ {w} : sock[v] \in {"created", "bound"}}

\* A copy for every receiver that has room for it; the others count a drop.
Room(v, n) == QueueCap - Len(queue[v]) >= n
Deliver(receivers, copies) ==
  /\ queue' = [v \in Workers |->
       IF v \in receivers
       THEN queue[v] \o SubSeq(copies, 1,
              IF Room(v, Len(copies)) THEN Len(copies) ELSE QueueCap - Len(queue[v]))
       ELSE queue[v]]
  /\ missed' = [v \in Workers |->
       IF v \in receivers /\ ~Room(v, Len(copies))
       THEN missed[v] + Len(copies) - (QueueCap - Len(queue[v]))
       ELSE missed[v]]

Arrive ==
  /\ arrived < Len(Traffic)
  /\ main \notin {"exited", "failed"}
  /\ LET f == arrived + 1
     IN  /\ Deliver(Taps(Traffic[f].flow, Traffic[f].iface), <<[id |-> f, sent |-> FALSE]>>)
         /\ arrived' = f
         /\ early' = IF main = "open" THEN f ELSE early
  /\ UNCHANGED <<main, quit, sock, home, threads, handled, out>>

\* SIGINT or SIGTERM.
Signal ==
  /\ ~quit
  /\ main \notin {"exited", "failed"}
  /\ quit' = TRUE
  /\ UNCHANGED <<main, kernel, threads, history>>
-----------------------------------------------------------------------------
(***************************************************************************)
(* main: run().                                                            *)
(***************************************************************************)
OpenedWithoutFanout(w) == sock[w] \notin {"none", "created", "bound"}
Opened(w) == sock[w] \notin {"none", "created", "bound", "quiet"}

\* Sockets are opened one after the other.
Opening(w) == main = "open" /\ ~Opened(w) /\ \A v \in Workers : v < w => Opened(v)

SetSock(w, from, to) ==
  /\ Opening(w)
  /\ sock[w] = from
  /\ sock' = [sock EXCEPT ![w] = to]
  /\ Regroup
  /\ UNCHANGED <<main, quit, queue, missed, threads, history>>

Create(w)         == SetSock(w, "none", "created")
Bind(w)           == SetSock(w, "created", "bound")
IgnoreOutgoing(w) == SetSock(w, "bound", "quiet")
JoinFanout(w)     == SetSock(w, "quiet", "member")

\* exit(1): a step of PacketSock::open failed.
OpenFails(w) ==
  /\ Opening(w)
  /\ main' = "failed"
  /\ sock' = [v \in Workers |-> IF sock[v] = "none" THEN "none" ELSE "closed"]
  /\ UNCHANGED <<quit, queue, missed, home, threads, history>>

\* The sockets are collected before the first thread is spawned.
StartWorkers ==
  /\ main = "open"
  /\ \A w \in Workers : Opened(w)
  /\ main' = "spawn"
  /\ UNCHANGED <<quit, kernel, threads, history>>

\* s.spawn in the order of the sockets.
MaySpawnOnceOpened(w) ==
  /\ main \in {"open", "spawn"}
  /\ Opened(w)
  /\ worker[w] = "none"
MaySpawn(w) ==
  /\ main = "spawn"
  /\ worker[w] = "none"
  /\ \A v \in Workers : v < w => worker[v] # "none"
Spawn(w) ==
  /\ MaySpawn(w)
  /\ worker' = [worker EXCEPT ![w] = "setup"]
  /\ main' = IF w = NbWorkers THEN "join" ELSE main
  /\ UNCHANGED <<quit, kernel, burst, processed, sent, imissed, history>>

\* All handles joined: PORT_STATS, exit(0).
Exit ==
  /\ main = "join"
  /\ \A w \in Workers : worker[w] = "gone"
  /\ main' = "exited"
  /\ UNCHANGED <<quit, kernel, threads, history>>
-----------------------------------------------------------------------------
(***************************************************************************)
(* A worker: worker_main().                                                *)
(***************************************************************************)
Goto(w, from, to) == worker[w] = from /\ worker' = [worker EXCEPT ![w] = to]

\* N::setup(), while the socket is already filling its queue.
Setup(w) ==
  /\ Goto(w, "setup", "loop")
  /\ UNCHANGED <<main, quit, kernel, burst, processed, sent, imissed, history>>

CheckQuit(w) ==
  /\ Goto(w, "loop", IF quit THEN "report" ELSE "rx")
  /\ UNCHANGED <<main, quit, kernel, burst, processed, sent, imissed, history>>

\* recvmmsg takes what is queued, up to a burst; every frame is processed.
NbRx(w) == IF Len(queue[w]) < BurstSize THEN Len(queue[w]) ELSE BurstSize
CountWholeBurst(w) == BurstSize
Count(w) == NbRx(w)
Receive(w) ==
  /\ queue[w] # << >>
  /\ Goto(w, "rx", "tx")
  /\ burst' = [burst EXCEPT ![w] = SubSeq(queue[w], 1, NbRx(w))]
  /\ queue' = [queue EXCEPT ![w] = SubSeq(@, NbRx(w) + 1, Len(@))]
  /\ handled' = handled \cup {<<w, c.id>> : c \in ToSet(burst'[w])}
  /\ processed' = [processed EXCEPT ![w] = @ + Count(w)]
  /\ UNCHANGED <<main, quit, sock, missed, home, sent, imissed, arrived, early, out>>

\* 100 ms without a frame, or a signal: Ok(0).
RxTimeoutNever(w) == FALSE /\ UNCHANGED vars
RxTimeout(w) ==
  /\ queue[w] = << >>
  /\ Goto(w, "rx", "loop")
  /\ UNCHANGED <<main, quit, kernel, burst, processed, sent, imissed, history>>

\* Any other error, such as ENETDOWN: this worker leaves its loop.
RxFails(w) ==
  /\ Goto(w, "rx", "report")
  /\ UNCHANGED <<main, quit, kernel, burst, processed, sent, imissed, history>>

\* sendmmsg accepts the first k frames, none on an error; the rest is dropped.
SendAllAgain(w) ==
  /\ Goto(w, "tx", "tx")
  /\ out' = out \o [p \in 1 .. Len(burst[w]) |-> <<w, burst[w][p].id>>]
  /\ Len(out') <= 2 * Len(Traffic)
  /\ sent' = [sent EXCEPT ![w] = @ + Len(burst[w])]
  /\ UNCHANGED <<main, quit, kernel, burst, processed, imissed, arrived, early, handled>>
Transmit(w) ==
  /\ Goto(w, "tx", "loop")
  /\ \E k \in 0 .. Len(burst[w]) :
       LET done == SubSeq(burst[w], 1, k)
       IN  /\ sent' = [sent EXCEPT ![w] = @ + k]
           /\ out' = out \o [p \in 1 .. k |-> <<w, done[p].id>>]
           /\ Deliver(Echoes(w), [p \in 1 .. k |-> [id |-> done[p].id, sent |-> TRUE]])
  /\ burst' = [burst EXCEPT ![w] = << >>]
  /\ UNCHANGED <<main, quit, sock, home, processed, imissed, arrived, early, handled>>

\* teardown(), then sock.stats(): the read resets the kernel's counter.
ReportReadsTwice(w) ==
  /\ Goto(w, "report", "close")
  /\ missed' = [missed EXCEPT ![w] = 0]
  /\ UNCHANGED <<main, quit, sock, queue, home, burst, processed, sent, imissed, history>>
Report(w) ==
  /\ Goto(w, "report", "close")
  /\ imissed' = [imissed EXCEPT ![w] = missed[w]]
  /\ missed' = [missed EXCEPT ![w] = 0]
  /\ UNCHANGED <<main, quit, sock, queue, home, burst, processed, sent, history>>

\* worker_main returns and drops its socket, and with it what was queued.
Close(w) ==
  /\ Goto(w, "close", "gone")
  /\ sock' = [sock EXCEPT ![w] = "closed"]
  /\ Regroup
  /\ UNCHANGED <<main, quit, queue, missed, burst, processed, sent, imissed, history>>

Open(w)   == Create(w) \/ Bind(w) \/ IgnoreOutgoing(w) \/ JoinFanout(w)
Work(w)   == \/ Setup(w) \/ CheckQuit(w) \/ Receive(w) \/ RxTimeout(w)
             \/ Transmit(w) \/ Report(w) \/ Close(w)
RunMain   == StartWorkers \/ Exit \/ \E w \in Workers : Open(w) \/ Spawn(w)

Next ==
  \/ Arrive \/ Signal \/ RunMain
  \/ \E w \in Workers : Work(w) \/ OpenFails(w) \/ RxFails(w)

(***************************************************************************)
(* Threads run, and a blocking receive returns after its timeout.          *)
(***************************************************************************)
Fairness == WF_vars(RunMain) /\ \A w \in Workers : WF_vars(Work(w))

Spec == Init /\ [][Next]_vars /\ Fairness
-----------------------------------------------------------------------------
Late(f)     == f > early
NoDeparture == \A w \in Workers : sock[w] # "closed"

(***************************************************************************)
(* The NF never receives what it sent: no reflection between the sockets   *)
(* of one process (afpacket.rs:101).  PACKET_IGNORE_OUTGOING alone does    *)
(* not give this, because a socket hears the others until it is set; it    *)
(* takes run() to start no worker before the last socket is open.          *)
(***************************************************************************)
NoReflection ==
  \A w \in Workers : \A c \in ToSet(queue[w]) \cup ToSet(burst[w]) : ~c.sent

(***************************************************************************)
(* A frame that arrives once the sockets are open is handled by one        *)
(* worker, also when sockets leave the group while it travels, and only if *)
(* it comes in on the interface the NF was started on: a socket that was   *)
(* open to all interfaces between socket() and bind() is so no more.       *)
(***************************************************************************)
OneWorkerPerFrame ==
  \A h, g \in handled :
    Late(h[2]) => Traffic[h[2]].iface = "nf" /\ (h[2] = g[2] => h = g)

(***************************************************************************)
(* Frames of a flow leave in the order in which they arrived and none      *)
(* leaves twice, whatever the workers' relative speed.                     *)
(***************************************************************************)
FlowOrder ==
  \A p, q \in DOMAIN out :
    LET f == out[p][2]
        g == out[q][2]
    IN  p < q /\ Late(f) /\ Late(g) /\ Traffic[f].flow = Traffic[g].flow => f < g

\* As long as no socket has left the group.
OrderUntilDeparture == NoDeparture => FlowOrder

(***************************************************************************)
(* PORT_STATS: ipackets counts each frame a worker processed, opackets     *)
(* each frame sent, and the unsigned subtraction of lib.rs:164 never       *)
(* wraps.                                                                  *)
(***************************************************************************)
ProcessedBy(w) == {h \in handled : h[1] = w}
SentBy(w)      == {p \in DOMAIN out : out[p][1] = w}
CountersAddUp ==
  \A w \in Workers :
    /\ processed[w] = Cardinality(ProcessedBy(w))
    /\ sent[w] = Cardinality(SentBy(w))
    /\ sent[w] + Len(burst[w]) <= processed[w]

(***************************************************************************)
(* While the group is complete, a frame that is neither processed nor      *)
(* queued shows up in the drop counters, before and after they are read.   *)
(***************************************************************************)
Lost == {f \in 1 .. arrived :
           /\ Late(f) /\ Traffic[f].iface = "nf"
           /\ \A w \in Workers : /\ <<w, f>> \notin handled
                                 /\ \A c \in ToSet(queue[w]) : c.id # f}
LossesAreCounted ==
  NoDeparture =>
    Cardinality(Lost) <= FoldFunction(+, 0, missed) + FoldFunction(+, 0, imissed)

(***************************************************************************)
(* Once the quit flag is set the process ends: no worker stays in a        *)
(* receive call for ever, and main finds all its threads gone.             *)
(***************************************************************************)
QuitEnds == quit ~> (main \in {"exited", "failed"})

(***************************************************************************)
(* Without the proviso on early frames: "each with its own raw packet      *)
(* socket in a shared PACKET_FANOUT_HASH group (the RSS equivalent)"       *)
(* (lib.rs:5) would have every frame handled by one worker.                *)
(***************************************************************************)
FrameOnOneWorker == \A h, g \in handled : h[2] = g[2] => h = g
=============================================================================
