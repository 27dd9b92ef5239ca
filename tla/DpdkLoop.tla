------------------------------- MODULE DpdkLoop -------------------------------
(***************************************************************************)
(* The run-to-completion runtime of the C++ network functions              *)
(* (common/nf_main.h): main creates one pool of packet buffers and one     *)
(* pair of rings per lcore, every lcore receives, handles and sends bursts *)
(* until the quit flag is set, and main prints PORT_STATS once they left.  *)
(*                                                                         *)
(* The buffers are what the lcores share: they are counted by the place    *)
(* they are in.  DPDK is modelled from how the code uses it: a receive     *)
(* ring swaps every buffer it hands out for one of the pool, a transmit    *)
(* ring gives a buffer back when its frame is on the wire, and the pool    *)
(* keeps up to CacheSize free buffers where only one lcore finds them.     *)
(***************************************************************************)
EXTENDS Integers, FiniteSets, Functions

CONSTANTS
  Lcores,
  PerLcore,    \* buffers per lcore (8192)
  RxRing,      \* NF_RX_RING_SIZE (512)
  TxRing,      \* NF_TX_RING_SIZE (512)
  BurstSize,   \* NF_BURST_SIZE (32)
  CacheSize,   \* what a cache of NF_MBUF_CACHE_SIZE = 250 may hold (375)
  MaxFrames    \* bound: frames that arrive in a behaviour

ASSUME LoopAssumption ==
  /\ IsFiniteSet(Lcores) /\ Lcores # {}
  /\ {PerLcore, RxRing, TxRing, BurstSize, CacheSize, MaxFrames} \subseteq Nat
  /\ RxRing + TxRing + BurstSize + CacheSize <= PerLcore

VARIABLES
  stage,      \* of main: "init", "run", "stats", "closed" or "failed"
  place,      \* place[c]: "none", "setup", "poll", "rx", "tx" or "left"
  quit,       \* nf_force_quit
  pool,       \* free buffers every lcore can have
  cache,      \* cache[c]: free buffers only lcore c can have
  posted,     \* posted[c]: buffers of the receive ring that wait for a frame
  ready,      \* ready[c]: and those that hold one
  held,       \* held[c]: pkts[], the burst lcore c is handling
  txq,        \* txq[c]: frames in the transmit ring
  processed,  \* pkts_processed
  stats,      \* the port's counters ipackets, imissed and opackets
  dropped     \* history: frames freed unsent, which nothing reports

buffers == <<pool, cache, posted, ready, held, txq>>
tallies == <<processed, stats, dropped>>
vars    == <<stage, place, quit, buffers, tallies>>

Sum(f) == FoldFunction(+, 0, f)
Least(a, b) == IF a < b THEN a ELSE b
None == [c \in Lcores |-> 0]

\* rte_pktmbuf_pool_create("MBUF_POOL", 8192 * nb_lcores, ...)
PoolForOneLcore == PerLcore
PoolSize == PerLcore * Cardinality(Lcores)

Init ==
  /\ stage = "init" /\ quit = FALSE
  /\ place = [c \in Lcores |-> "none"]
  /\ pool = PoolSize
  /\ cache = None /\ posted = None /\ ready = None /\ held = None /\ txq = None
  /\ processed = None
  /\ stats = [ipackets |-> 0, imissed |-> 0, opackets |-> 0]
  /\ dropped = 0
-----------------------------------------------------------------------------
(***************************************************************************)
(* The port and the pool.                                                  *)
(***************************************************************************)
Free(c) == cache[c] + pool   \* the buffers lcore c can have

\* Lcore c gives back n buffers, takes n buffers.
GiveBack(c, n) ==
  /\ cache' = [cache EXCEPT ![c] = Least(CacheSize, @ + n)]
  /\ pool' = pool + cache[c] + n - cache'[c]
Take(c, n) ==
  /\ cache' = [cache EXCEPT ![c] = @ - Least(@, n)]
  /\ pool' = pool - (n - Least(cache[c], n))

Started == stage \in {"run", "stats"}

\* RSS chose the ring of lcore c for a frame.
Arrive(c) ==
  /\ Started
  /\ stats.ipackets + stats.imissed < MaxFrames
  /\ \/ /\ posted[c] > 0
        /\ posted' = [posted EXCEPT ![c] = @ - 1]
        /\ ready' = [ready EXCEPT ![c] = @ + 1]
        /\ stats' = [stats EXCEPT !.ipackets = @ + 1]
     \/ /\ posted[c] = 0
        /\ stats' = [stats EXCEPT !.imissed = @ + 1]
        /\ UNCHANGED <<posted, ready>>
  /\ UNCHANGED <<stage, place, quit, pool, cache, held, txq, processed, dropped>>

\* A frame leaves through the ring of lcore c.
Sent(c) ==
  /\ Started /\ txq[c] > 0
  /\ txq' = [txq EXCEPT ![c] = @ - 1]
  /\ stats' = [stats EXCEPT !.opackets = @ + 1]
  /\ GiveBack(c, 1)
  /\ UNCHANGED <<stage, place, quit, posted, ready, held, processed, dropped>>
-----------------------------------------------------------------------------
(***************************************************************************)
(* main.                                                                   *)
(***************************************************************************)
\* nf_port_init() fills the receive rings; then all lcores are launched.
PortInit ==
  /\ stage = "init"
  /\ pool' = pool - RxRing * Cardinality(Lcores)
  /\ posted' = [c \in Lcores |-> RxRing]
  /\ stage' = "run"
  /\ place' = [c \in Lcores |-> "setup"]
  /\ UNCHANGED <<quit, cache, ready, held, txq, tallies>>

\* rte_exit(EXIT_FAILURE, ...)
PortInitFails ==
  /\ stage = "init" /\ stage' = "failed"
  /\ UNCHANGED <<place, quit, buffers, tallies>>

Signal ==
  /\ ~quit /\ quit' = TRUE
  /\ UNCHANGED <<stage, place, buffers, tallies>>

\* The main lcore has left its own loop and waited for the workers.
PrintStats ==
  /\ stage = "run" /\ \A c \in Lcores : place[c] = "left"
  /\ stage' = "stats"
  /\ UNCHANGED <<place, quit, buffers, tallies>>

\* rte_eth_dev_stop(), rte_eth_dev_close()
CloseRings == posted' = None /\ ready' = None /\ txq' = None
Close ==
  /\ stage = "stats" /\ stage' = "closed"
  /\ CloseRings
  /\ pool' = pool + Sum(posted) + Sum(ready) + Sum(txq)
  /\ UNCHANGED <<place, quit, cache, held, tallies>>
-----------------------------------------------------------------------------
(***************************************************************************)
(* An lcore: nf_lcore_main().                                              *)
(***************************************************************************)
Goto(c, from, to) == place[c] = from /\ place' = [place EXCEPT ![c] = to]

Setup(c) == Goto(c, "setup", "poll") /\ UNCHANGED <<stage, quit, buffers, tallies>>

\* nf_setup() of maglev and l3fwd may end the process: rte_exit().
SetupFails(c) ==
  /\ place[c] = "setup" /\ stage' = "failed"
  /\ place' = [d \in Lcores |-> "none"]
  /\ UNCHANGED <<quit, buffers, tallies>>

\* while (!nf_force_quit)
PollForEver(c) == Goto(c, "poll", "rx") /\ UNCHANGED <<stage, quit, buffers, tallies>>
CheckQuit(c) ==
  /\ Goto(c, "poll", IF quit THEN "left" ELSE "rx")
  /\ UNCHANGED <<stage, quit, buffers, tallies>>

\* How many frames rte_eth_rx_burst() hands out.
Wanted(c) == Least(ready[c], BurstSize)
NbRx(c)   == Least(Wanted(c), Free(c))

NothingReceived(c) ==
  /\ NbRx(c) = 0
  /\ Goto(c, "rx", "poll")
  /\ UNCHANGED <<stage, quit, buffers, tallies>>

\* pkts_processed += nb_rx
HandledWholeBurst(c) == BurstSize
Handled(c) == NbRx(c)
Receive(c) ==
  /\ NbRx(c) > 0
  /\ Goto(c, "rx", "tx")
  /\ Take(c, NbRx(c))
  /\ held' = [held EXCEPT ![c] = NbRx(c)]
  /\ ready' = [ready EXCEPT ![c] = @ - NbRx(c)]
  /\ posted' = [posted EXCEPT ![c] = @ + NbRx(c)]
  /\ processed' = [processed EXCEPT ![c] = @ + Handled(c)]
  /\ UNCHANGED <<stage, quit, txq, stats, dropped>>

\* The first nb_tx frames go to the transmit ring, the rest is freed.
UnsentAfterNext(c, nb_tx) == IF nb_tx < held[c] THEN held[c] - nb_tx - 1 ELSE 0
Unsent(c, nb_tx) == held[c] - nb_tx
Transmit(c) ==
  /\ Goto(c, "tx", "poll")
  /\ \E nb_tx \in 0 .. Least(held[c], TxRing - txq[c]) :
       /\ txq' = [txq EXCEPT ![c] = @ + nb_tx]
       /\ GiveBack(c, Unsent(c, nb_tx))
       /\ dropped' = dropped + held[c] - nb_tx
  /\ held' = [held EXCEPT ![c] = 0]
  /\ UNCHANGED <<stage, quit, posted, ready, processed, stats>>

Loop(c) == Setup(c) \/ CheckQuit(c) \/ NothingReceived(c) \/ Receive(c) \/ Transmit(c)
RunMain == PortInit \/ PrintStats \/ Close

Next ==
  \/ RunMain \/ PortInitFails \/ Signal
  \/ \E c \in Lcores : Loop(c) \/ SetupFails(c) \/ Arrive(c) \/ Sent(c)

\* Every lcore has a CPU of its own and polls without waiting.
Spec == Init /\ [][Next]_vars /\ WF_vars(RunMain) /\ \A c \in Lcores : WF_vars(Loop(c))
-----------------------------------------------------------------------------
(***************************************************************************)
(* No buffer is lost and none is freed twice: the ones an lcore holds, the *)
(* rings' and the free ones are always the whole pool, also after a burst  *)
(* the transmit ring took only in part.                                    *)
(***************************************************************************)
NoBufferLost ==
  pool + Sum(cache) + Sum(posted) + Sum(ready) + Sum(held) + Sum(txq) = PoolSize

(***************************************************************************)
(* An lcore never finds the pool empty, however full the rings and the     *)
(* caches of the others are: the receive ring can hand out every frame it  *)
(* holds, and frames are missed only while a whole ring waits.             *)
(***************************************************************************)
NeverOutOfBuffers == \A c \in Lcores : place[c] = "rx" => Free(c) >= Wanted(c)

(***************************************************************************)
(* Every frame the port counted in is still in a ring or a burst, went     *)
(* out, or was freed unsent; and the lcores together processed all that    *)
(* are not waiting in a receive ring.                                      *)
(***************************************************************************)
FramesAddUp ==
  stage # "closed" =>
    /\ stats.ipackets = Sum(ready) + Sum(held) + Sum(txq) + stats.opackets + dropped
    /\ stats.ipackets = Sum(processed) + Sum(ready)

(***************************************************************************)
(* Once the quit flag is set, every lcore leaves its loop, and main closes *)
(* the port.                                                               *)
(***************************************************************************)
QuitEnds == quit ~> (stage \in {"closed", "failed"})
=============================================================================
