---------------------------- MODULE DpdkLoopProofs ----------------------------
(***************************************************************************)
(* The packet loop never runs out of packet buffers, loses none and counts *)
(* every frame: for any number of lcores and any sizes of pool, rings,     *)
(* bursts and caches in which the rings, a burst and a cache of an lcore   *)
(* fit into its share of the pool.                                         *)
(*                                                                         *)
(* NoBufferLost gives the size of the pool from what the lcores have.  To  *)
(* bound that, the invariant has what one lcore can have at most (Bounds)  *)
(* and where in its loop it has a burst (Places).                          *)
(***************************************************************************)
EXTENDS DpdkLoop, SumProofs

Counts == [Lcores -> Nat]

Types ==
  /\ stage \in {"init", "run", "stats", "closed", "failed"}
  /\ place \in [Lcores -> {"none", "setup", "poll", "rx", "tx", "left"}]
  /\ pool \in Nat
  /\ cache \in Counts /\ posted \in Counts /\ ready \in Counts
  /\ held \in Counts /\ txq \in Counts /\ processed \in Counts
  /\ stats \in [ipackets : Nat, imissed : Nat, opackets : Nat] /\ dropped \in Nat

\* What an lcore can have of the pool.
Bounds ==
  \A c \in Lcores :
    /\ cache[c] <= CacheSize /\ held[c] <= BurstSize /\ txq[c] <= TxRing
    /\ posted[c] + ready[c] <= RxRing

\* Only between receiving and sending has an lcore a burst, unless the process
\* ended there, and all have left their loops when main closes the port.
Places ==
  /\ stage # "failed" => \A c \in Lcores : place[c] # "tx" => held[c] = 0
  /\ stage = "failed" => \A c \in Lcores : place[c] = "none"
  /\ stage = "init" =>
       /\ pool = PoolSize
       /\ \A c \in Lcores : /\ place[c] = "none" /\ posted[c] = 0 /\ ready[c] = 0
                            /\ cache[c] = 0 /\ txq[c] = 0
  /\ stage \in {"stats", "closed"} => \A c \in Lcores : place[c] = "left"

\* What an lcore has, and the counts that add up, lcore by lcore.
has    == [c \in Lcores |-> cache[c] + posted[c] + ready[c] + held[c] + txq[c]]
inside == [c \in Lcores |-> ready[c] + held[c] + txq[c]]
polled == [c \in Lcores |-> processed[c] + ready[c]]

AddsUp ==
  /\ pool + Sum(has) = PoolSize
  /\ stage # "closed" =>
       /\ stats.ipackets = Sum(inside) + stats.opackets + dropped
       /\ stats.ipackets = Sum(polled)

IInv == Types /\ Bounds /\ Places /\ AddsUp
-----------------------------------------------------------------------------
LEMMA SizesAreNats ==
  /\ {PerLcore, RxRing, TxRing, BurstSize, CacheSize, MaxFrames} \subseteq Nat
  /\ IsFiniteSet(Lcores) /\ Cardinality(Lcores) \in Nat /\ PoolSize \in Nat
<1>1. IsFiniteSet(Lcores) /\ Cardinality(Lcores) \in Nat
  BY LoopAssumption, FS_CardinalityType
<1>2. PerLcore * Cardinality(Lcores) \in Nat
  BY <1>1, LoopAssumption
<1> QED  BY <1>1, <1>2, LoopAssumption DEF PoolSize

LEMMA SumIsTotal == \A f : Sum(f) = Total(f)
BY DEF Sum, Total

LEMMA SumType ==
  ASSUME NEW f \in Counts
  PROVE  Sum(f) \in Nat
<1>1. Total(f) \in Nat
  BY SizesAreNats, TotalOfNats DEF Counts
<1> QED  BY <1>1, SumIsTotal

\* A counter that changes for lcore c alone.
LEMMA SumAtOne ==
  ASSUME NEW f \in Counts, NEW h \in Counts, NEW c \in Lcores,
         \A d \in Lcores \ {c} : h[d] = f[d]
  PROVE  Sum(h) = Sum(f) - f[c] + h[c]
<1>1. f \in [Lcores -> Int] /\ h \in [Lcores -> Int]
  BY SizesAreNats, TotalOfNats DEF Counts
<1>2. Total(h) = Total(f) - f[c] + h[c]
  BY <1>1, SizesAreNats, TotalExcept
<1> QED  BY <1>2, SumIsTotal

LEMMA SumOfSame ==
  ASSUME NEW n \in Nat, NEW f \in Counts, \A c \in Lcores : f[c] = n
  PROVE  Sum(f) = n * Cardinality(Lcores)
<1>1. f \in [Lcores -> Int]
  BY SizesAreNats, TotalOfNats DEF Counts
<1>2. Total(f) = n * Cardinality(Lcores)
  BY <1>1, SizesAreNats, TotalConstant
<1> QED  BY <1>2, SumIsTotal

LEMMA SumsCompare ==
  ASSUME NEW e \in Counts, NEW f \in Counts, NEW h \in Counts
  PROVE  /\ (\A c \in Lcores : h[c] = e[c] + f[c]) => Sum(h) = Sum(e) + Sum(f)
         /\ (\A c \in Lcores : e[c] <= f[c]) => Sum(e) <= Sum(f)
<1>1. e \in [Lcores -> Int] /\ f \in [Lcores -> Int] /\ h \in [Lcores -> Int]
  BY SizesAreNats, TotalOfNats DEF Counts
<1>2. /\ (\A c \in Lcores : h[c] = e[c] + f[c]) => Total(h) = Total(e) + Total(f)
      /\ (\A c \in Lcores : e[c] <= f[c]) => Total(e) <= Total(f)
  BY <1>1, SizesAreNats, TotalsCompare
<1> QED  BY <1>2, SumIsTotal

LEMMA CountsOfLcores ==
  ASSUME Types
  PROVE  /\ has \in Counts /\ inside \in Counts /\ polled \in Counts
         /\ \A c \in Lcores :
              /\ cache[c] \in Nat /\ posted[c] \in Nat /\ ready[c] \in Nat
              /\ held[c] \in Nat /\ txq[c] \in Nat /\ processed[c] \in Nat
              /\ has[c] = cache[c] + posted[c] + ready[c] + held[c] + txq[c]
              /\ inside[c] = ready[c] + held[c] + txq[c]
              /\ polled[c] = processed[c] + ready[c]
BY DEF Types, Counts, has, inside, polled

LEMMA CountsOfLcoresNext ==
  ASSUME Types'
  PROVE  /\ has' \in Counts /\ inside' \in Counts /\ polled' \in Counts
         /\ \A c \in Lcores :
              /\ cache'[c] \in Nat /\ posted'[c] \in Nat /\ ready'[c] \in Nat
              /\ held'[c] \in Nat /\ txq'[c] \in Nat /\ processed'[c] \in Nat
              /\ has'[c] = cache'[c] + posted'[c] + ready'[c] + held'[c] + txq'[c]
              /\ inside'[c] = ready'[c] + held'[c] + txq'[c]
              /\ polled'[c] = processed'[c] + ready'[c]
BY DEF Types, Counts, has, inside, polled

\* The invariant says what the properties say.
LEMMA SumsOfSums ==
  ASSUME Types
  PROVE  /\ Sum(inside) = Sum(ready) + Sum(held) + Sum(txq)
         /\ Sum(has) = Sum(cache) + Sum(posted) + Sum(inside)
         /\ Sum(polled) = Sum(processed) + Sum(ready)
<1> DEFINE onWay == [c \in Lcores |-> ready[c] + held[c]]
           rings == [c \in Lcores |-> cache[c] + posted[c]]
<1>1. /\ onWay \in Counts /\ rings \in Counts
      /\ cache \in Counts /\ posted \in Counts /\ ready \in Counts
      /\ held \in Counts /\ txq \in Counts /\ processed \in Counts
  BY CountsOfLcores DEF Types, Counts
<1>2. \A c \in Lcores : onWay[c] = ready[c] + held[c] /\ rings[c] = cache[c] + posted[c]
  OBVIOUS
<1> HIDE DEF onWay, rings
<1>3. Sum(onWay) = Sum(ready) + Sum(held) /\ Sum(rings) = Sum(cache) + Sum(posted)
  BY <1>1, <1>2, SumsCompare
<1>4. \A c \in Lcores : inside[c] = onWay[c] + txq[c] /\ has[c] = rings[c] + inside[c]
  BY <1>2, CountsOfLcores
<1>5. Sum(inside) = Sum(onWay) + Sum(txq) /\ Sum(has) = Sum(rings) + Sum(inside)
  BY <1>1, <1>4, CountsOfLcores, SumsCompare
<1>6. Sum(polled) = Sum(processed) + Sum(ready)
  BY <1>1, CountsOfLcores, SumsCompare
<1> QED  BY <1>3, <1>5, <1>6

LEMMA AllAddsUp ==
  ASSUME Types, AddsUp
  PROVE  NoBufferLost /\ FramesAddUp
<1>1. /\ Sum(cache) \in Nat /\ Sum(posted) \in Nat /\ Sum(ready) \in Nat
      /\ Sum(held) \in Nat /\ Sum(txq) \in Nat /\ Sum(processed) \in Nat /\ pool \in Nat
  BY SumType DEF Types
<1>2. NoBufferLost
  BY <1>1, SumsOfSums DEF AddsUp, NoBufferLost
<1>3. FramesAddUp
  BY <1>1, SumsOfSums DEF AddsUp, FramesAddUp
<1> QED  BY <1>2, <1>3
-----------------------------------------------------------------------------
\* A step that changes what lcore c has and leaves the others alone.
OnlyAt(c) ==
  \A d \in Lcores \ {c} :
    /\ place'[d] = place[d] /\ cache'[d] = cache[d] /\ posted'[d] = posted[d]
    /\ ready'[d] = ready[d] /\ held'[d] = held[d] /\ txq'[d] = txq[d]
    /\ processed'[d] = processed[d]

\* What it takes for such a step to keep the sums: that it adds up for c.
LEMMA AddsUpAtOne ==
  ASSUME Types, Types', AddsUp, NEW c \in Lcores, OnlyAt(c), stage' = stage,
         pool' + has'[c] = pool + has[c],
         stats'.ipackets - inside'[c] - stats'.opackets - dropped'
           = stats.ipackets - inside[c] - stats.opackets - dropped,
         stats'.ipackets - polled'[c] = stats.ipackets - polled[c]
  PROVE  AddsUp'
<1>1. /\ has \in Counts /\ inside \in Counts /\ polled \in Counts
      /\ has' \in Counts /\ inside' \in Counts /\ polled' \in Counts
  BY CountsOfLcores, CountsOfLcoresNext
<1>2. \A d \in Lcores \ {c} : has'[d] = has[d] /\ inside'[d] = inside[d] /\ polled'[d] = polled[d]
  BY DEF OnlyAt, has, inside, polled
<1>3. /\ Sum(has') = Sum(has) - has[c] + has'[c]
      /\ Sum(inside') = Sum(inside) - inside[c] + inside'[c]
      /\ Sum(polled') = Sum(polled) - polled[c] + polled'[c]
  BY <1>1, <1>2, SumAtOne
<1>4. Sum(has) \in Nat /\ Sum(inside) \in Nat /\ Sum(polled) \in Nat
  BY <1>1, SumType
<1>5. /\ has[c] \in Nat /\ inside[c] \in Nat /\ polled[c] \in Nat
      /\ has'[c] \in Nat /\ inside'[c] \in Nat /\ polled'[c] \in Nat
  BY <1>1 DEF Counts
<1>6. /\ pool \in Nat /\ pool' \in Nat /\ dropped \in Nat /\ dropped' \in Nat
      /\ stats.ipackets \in Nat /\ stats.opackets \in Nat
      /\ stats'.ipackets \in Nat /\ stats'.opackets \in Nat
  BY DEF Types
<1>7. pool' + Sum(has') = PoolSize
  <2>1. pool + Sum(has) = PoolSize /\ PoolSize \in Nat
    BY SizesAreNats DEF AddsUp
  <2>2. /\ Sum(has) \in Int /\ has[c] \in Int /\ has'[c] \in Int /\ pool \in Int /\ pool' \in Int
        /\ Sum(has') = Sum(has) - has[c] + has'[c]
    BY <1>3, <1>4, <1>5, <1>6
  <2> QED  BY <2>1, <2>2
<1>8. stage' # "closed" => stats'.ipackets = Sum(inside') + stats'.opackets + dropped'
  BY <1>3, <1>4, <1>5, <1>6 DEF AddsUp
<1>9. stage' # "closed" => stats'.ipackets = Sum(polled')
  BY <1>3, <1>4, <1>5, <1>6 DEF AddsUp
<1> QED  BY <1>7, <1>8, <1>9 DEF AddsUp, PoolSize

LEMMA StepOfOne ==
  ASSUME IInv, Types', NEW c \in Lcores, OnlyAt(c), stage' = stage, stage \notin {"init", "failed"},
         cache'[c] <= CacheSize, held'[c] <= BurstSize, txq'[c] <= TxRing,
         posted'[c] + ready'[c] <= RxRing,
         place'[c] # "tx" => held'[c] = 0,
         stage \in {"stats", "closed"} => place'[c] = "left",
         pool' + has'[c] = pool + has[c],
         stats'.ipackets - inside'[c] - stats'.opackets - dropped'
           = stats.ipackets - inside[c] - stats.opackets - dropped,
         stats'.ipackets - polled'[c] = stats.ipackets - polled[c]
  PROVE  IInv'
<1>1. Types /\ Bounds /\ Places /\ AddsUp
  BY DEF IInv
<1>2. AddsUp'
  BY <1>1, AddsUpAtOne
<1>3. Bounds'
  BY <1>1 DEF Bounds, OnlyAt
<1>4. Places'
  BY <1>1 DEF Places, OnlyAt
<1> QED  BY <1>2, <1>3, <1>4 DEF IInv

\* What is known of an lcore, and of what it gives back and takes.
LEMMA LcoreFacts ==
  ASSUME IInv, NEW c \in Lcores
  PROVE  /\ cache[c] \in Nat /\ posted[c] \in Nat /\ ready[c] \in Nat
         /\ held[c] \in Nat /\ txq[c] \in Nat /\ processed[c] \in Nat /\ pool \in Nat
         /\ cache[c] <= CacheSize /\ held[c] <= BurstSize /\ txq[c] <= TxRing
         /\ posted[c] + ready[c] <= RxRing
         /\ place[c] = "tx" \/ stage = "failed" \/ held[c] = 0
         /\ place[c] # "none" => stage \notin {"init", "failed"}
         /\ place[c] # "left" => stage \notin {"stats", "closed"}
BY DEF IInv, Types, Counts, Bounds, Places

LEMMA GivesBack ==
  ASSUME IInv, NEW c \in Lcores, NEW n \in Nat, GiveBack(c, n)
  PROVE  /\ cache' \in Counts /\ pool' \in Nat
         /\ \A d \in Lcores \ {c} : cache'[d] = cache[d]
         /\ cache'[c] \in Nat /\ cache'[c] <= CacheSize
         /\ pool' + cache'[c] = pool + cache[c] + n
<1>1. CacheSize \in Nat /\ cache[c] \in Nat /\ pool \in Nat
  BY LoopAssumption, LcoreFacts
<1>2. /\ cache' = [cache EXCEPT ![c] = Least(CacheSize, cache[c] + n)]
      /\ pool' = pool + cache[c] + n - cache'[c]
  BY DEF GiveBack
<1>3. cache \in Counts
  BY DEF IInv, Types
<1>4. /\ Least(CacheSize, cache[c] + n) \in Nat
      /\ Least(CacheSize, cache[c] + n) <= CacheSize
      /\ Least(CacheSize, cache[c] + n) <= cache[c] + n
  BY <1>1 DEF Least
<1>5. /\ cache' \in Counts /\ cache'[c] = Least(CacheSize, cache[c] + n)
      /\ \A d \in Lcores \ {c} : cache'[d] = cache[d]
  BY <1>2, <1>3, <1>4 DEF Counts
<1> QED  BY <1>1, <1>2, <1>4, <1>5

LEMMA Takes ==
  ASSUME IInv, NEW c \in Lcores, NEW n \in Nat, n <= Free(c), Take(c, n)
  PROVE  /\ cache' \in Counts /\ pool' \in Nat
         /\ \A d \in Lcores \ {c} : cache'[d] = cache[d]
         /\ cache'[c] \in Nat /\ cache'[c] <= CacheSize
         /\ pool' + cache'[c] = pool + cache[c] - n
<1>1. CacheSize \in Nat /\ cache[c] \in Nat /\ pool \in Nat /\ cache[c] <= CacheSize
  BY LoopAssumption, LcoreFacts
<1> DEFINE k == Least(cache[c], n)
<1>2. cache' = [cache EXCEPT ![c] = cache[c] - k] /\ pool' = pool - (n - k)
  BY DEF Take
<1>3. cache \in Counts
  BY DEF IInv, Types
<1>4. k \in Nat /\ k <= cache[c] /\ k <= n /\ n - k <= pool
  BY <1>1 DEF Least, Free
<1> HIDE DEF k
<1>5. /\ cache' \in Counts /\ cache'[c] = cache[c] - k
      /\ \A d \in Lcores \ {c} : cache'[d] = cache[d]
  BY <1>1, <1>2, <1>3, <1>4 DEF Counts
<1> QED  BY <1>1, <1>2, <1>4, <1>5
-----------------------------------------------------------------------------
LEMMA ArriveKeeps ==
  ASSUME IInv, NEW c \in Lcores, Arrive(c)
  PROVE  IInv'
<1>1. /\ UNCHANGED <<stage, place, pool, cache, held, txq, processed, dropped>>
      /\ stage \notin {"init", "failed"}
  BY DEF Arrive, Started
<1>2. Types /\ LoopAssumption
  BY LoopAssumption DEF IInv
<1>3. CASE /\ posted[c] > 0
           /\ posted' = [posted EXCEPT ![c] = posted[c] - 1]
           /\ ready' = [ready EXCEPT ![c] = ready[c] + 1]
           /\ stats' = [stats EXCEPT !.ipackets = stats.ipackets + 1]
  <2>1. /\ posted' \in Counts /\ posted'[c] = posted[c] - 1
        /\ ready' \in Counts /\ ready'[c] = ready[c] + 1
        /\ \A d \in Lcores \ {c} : posted'[d] = posted[d] /\ ready'[d] = ready[d]
    BY <1>2, <1>3, LcoreFacts DEF Types, Counts
  <2>2. /\ stats' \in [ipackets : Nat, imissed : Nat, opackets : Nat]
        /\ stats'.ipackets = stats.ipackets + 1 /\ stats'.opackets = stats.opackets
    BY <1>2, <1>3 DEF Types
  <2>3. Types'
    BY <1>1, <1>2, <2>1, <2>2 DEF Types
  <2>4. /\ has'[c] = has[c] /\ inside'[c] = inside[c] + 1 /\ polled'[c] = polled[c] + 1
        /\ inside[c] \in Nat /\ polled[c] \in Nat
    <3>1. /\ cache[c] \in Nat /\ posted[c] \in Nat /\ ready[c] \in Nat
          /\ held[c] \in Nat /\ txq[c] \in Nat /\ processed[c] \in Nat
      BY LcoreFacts
    <3>2. /\ has[c] = cache[c] + posted[c] + ready[c] + held[c] + txq[c]
          /\ has'[c] = cache[c] + (posted[c] - 1) + (ready[c] + 1) + held[c] + txq[c]
      BY <1>1, <1>2, <2>1, <2>3, CountsOfLcores, CountsOfLcoresNext
    <3>3. /\ inside[c] = ready[c] + held[c] + txq[c] /\ polled[c] = processed[c] + ready[c]
          /\ inside'[c] = (ready[c] + 1) + held[c] + txq[c]
          /\ polled'[c] = processed[c] + (ready[c] + 1)
      BY <1>1, <1>2, <2>1, <2>3, CountsOfLcores, CountsOfLcoresNext
    <3> QED  BY <3>1, <3>2, <3>3
  <2>5. OnlyAt(c)
    BY <1>1, <2>1 DEF OnlyAt
  <2>6. /\ stats'.ipackets - inside'[c] - stats'.opackets - dropped'
             = stats.ipackets - inside[c] - stats.opackets - dropped
        /\ stats'.ipackets - polled'[c] = stats.ipackets - polled[c]
        /\ pool' + has'[c] = pool + has[c]
    BY <1>1, <1>2, <2>2, <2>4 DEF Types
  <2>7. posted'[c] + ready'[c] <= RxRing
    <3>1. posted[c] \in Nat /\ ready[c] \in Nat /\ posted[c] + ready[c] <= RxRing
      BY LcoreFacts
    <3> QED  BY <2>1, <3>1
  <2> QED  BY <1>1, <2>3, <2>5, <2>6, <2>7, LcoreFacts, StepOfOne
<1>4. CASE stats' = [stats EXCEPT !.imissed = stats.imissed + 1] /\ UNCHANGED <<posted, ready>>
  <2>1. /\ stats' \in [ipackets : Nat, imissed : Nat, opackets : Nat]
        /\ stats'.ipackets = stats.ipackets /\ stats'.opackets = stats.opackets
    BY <1>2, <1>4 DEF Types
  <2>2. Types'
    BY <1>1, <1>2, <1>4, <2>1 DEF Types
  <2>3. has' = has /\ inside' = inside /\ polled' = polled
    BY <1>1, <1>4 DEF has, inside, polled
  <2>4. OnlyAt(c)
    BY <1>1, <1>4 DEF OnlyAt
  <2> QED  BY <1>1, <1>4, <2>1, <2>2, <2>3, <2>4, LcoreFacts, StepOfOne
<1> QED  BY <1>3, <1>4 DEF Arrive

LEMMA SentKeeps ==
  ASSUME IInv, NEW c \in Lcores, Sent(c)
  PROVE  IInv'
<1>1. /\ UNCHANGED <<stage, place, posted, ready, held, processed, dropped>>
      /\ stage \notin {"init", "failed"} /\ txq[c] > 0 /\ txq' = [txq EXCEPT ![c] = txq[c] - 1]
      /\ stats' = [stats EXCEPT !.opackets = stats.opackets + 1]
      /\ GiveBack(c, 1)
  BY DEF Sent, Started
<1>2. Types
  BY DEF IInv
<1>3. /\ cache' \in Counts /\ pool' \in Nat
      /\ \A d \in Lcores \ {c} : cache'[d] = cache[d]
      /\ cache'[c] \in Nat /\ cache'[c] <= CacheSize
      /\ pool' + cache'[c] = pool + cache[c] + 1
  BY <1>1, GivesBack
<1>4. /\ txq' \in Counts /\ txq'[c] = txq[c] - 1
      /\ \A d \in Lcores \ {c} : txq'[d] = txq[d]
  BY <1>1, <1>2, LcoreFacts DEF Types, Counts
<1>5. /\ stats' \in [ipackets : Nat, imissed : Nat, opackets : Nat]
      /\ stats'.ipackets = stats.ipackets /\ stats'.opackets = stats.opackets + 1
  BY <1>1, <1>2 DEF Types
<1>6. Types'
  BY <1>1, <1>2, <1>3, <1>4, <1>5 DEF Types
<1>7. /\ has'[c] = cache'[c] + posted[c] + ready[c] + held[c] + txq[c] - 1
      /\ has[c] = cache[c] + posted[c] + ready[c] + held[c] + txq[c]
      /\ inside'[c] = inside[c] - 1 /\ polled'[c] = polled[c]
      /\ inside[c] \in Nat /\ polled[c] \in Nat
  BY <1>1, <1>2, <1>4, <1>6, CountsOfLcores, CountsOfLcoresNext
<1>8. OnlyAt(c)
  BY <1>1, <1>3, <1>4 DEF OnlyAt
<1>9. /\ stats'.ipackets - inside'[c] - stats'.opackets - dropped'
           = stats.ipackets - inside[c] - stats.opackets - dropped
      /\ stats'.ipackets - polled'[c] = stats.ipackets - polled[c]
  BY <1>1, <1>2, <1>5, <1>7 DEF Types
<1>10. pool' + has'[c] = pool + has[c]
  <2>1. /\ cache[c] \in Nat /\ posted[c] \in Nat /\ ready[c] \in Nat
        /\ held[c] \in Nat /\ txq[c] \in Nat /\ pool \in Nat
    BY LcoreFacts
  <2> QED  BY <1>3, <1>7, <2>1
<1>11. txq'[c] <= TxRing /\ TxRing \in Nat
  BY <1>4, LcoreFacts, LoopAssumption
<1> QED  BY <1>1, <1>3, <1>6, <1>8, <1>9, <1>10, <1>11, LcoreFacts, StepOfOne

\* A step of its loop in which an lcore moves no buffer.
LEMMA PlaceKeeps ==
  ASSUME IInv, NEW c \in Lcores, NEW to \in {"poll", "rx", "left"},
         place[c] \in {"setup", "poll", "rx"}, place' = [place EXCEPT ![c] = to],
         UNCHANGED <<stage, buffers, tallies>>
  PROVE  IInv'
<1>1. Types /\ UNCHANGED <<stage, pool, cache, posted, ready, held, txq, processed, stats, dropped>>
  BY DEF IInv, buffers, tallies
<1>2. Types'
  BY <1>1 DEF Types
<1>3. has' = has /\ inside' = inside /\ polled' = polled
  BY <1>1 DEF has, inside, polled
<1>4. OnlyAt(c)
  BY <1>1 DEF OnlyAt, Types
<1>5. held[c] = 0 /\ stage \notin {"init", "failed", "stats", "closed"}
  BY LcoreFacts
<1> QED  BY <1>1, <1>2, <1>3, <1>4, <1>5, LcoreFacts, StepOfOne

LEMMA ReceiveKeeps ==
  ASSUME IInv, NEW c \in Lcores, Receive(c)
  PROVE  IInv'
<1> DEFINE n == NbRx(c)
<1>1. /\ UNCHANGED <<stage, txq, stats, dropped>>
      /\ place[c] = "rx" /\ place' = [place EXCEPT ![c] = "tx"]
      /\ held' = [held EXCEPT ![c] = n]
      /\ ready' = [ready EXCEPT ![c] = ready[c] - n]
      /\ posted' = [posted EXCEPT ![c] = posted[c] + n]
      /\ processed' = [processed EXCEPT ![c] = processed[c] + n]
      /\ Take(c, n)
  BY DEF Receive, Goto, Handled
<1>2. Types
  BY DEF IInv
<1>3. n \in Nat /\ n <= ready[c] /\ n <= BurstSize /\ n <= Free(c)
  BY LcoreFacts, LoopAssumption DEF NbRx, Wanted, Least, Free
<1> HIDE DEF n
<1>4. /\ cache' \in Counts /\ pool' \in Nat
      /\ \A d \in Lcores \ {c} : cache'[d] = cache[d]
      /\ cache'[c] \in Nat /\ cache'[c] <= CacheSize
      /\ pool' + cache'[c] = pool + cache[c] - n
  BY <1>1, <1>3, Takes
<1>5. /\ held' \in Counts /\ held'[c] = n
      /\ ready' \in Counts /\ ready'[c] = ready[c] - n
      /\ posted' \in Counts /\ posted'[c] = posted[c] + n
      /\ processed' \in Counts /\ processed'[c] = processed[c] + n
      /\ \A d \in Lcores \ {c} :
           /\ held'[d] = held[d] /\ ready'[d] = ready[d]
           /\ posted'[d] = posted[d] /\ processed'[d] = processed[d]
  BY <1>1, <1>2, <1>3, LcoreFacts DEF Types, Counts
<1>6. Types'
  BY <1>1, <1>2, <1>4, <1>5 DEF Types
<1>7. OnlyAt(c) /\ place'[c] = "tx"
  BY <1>1, <1>2, <1>4, <1>5 DEF OnlyAt, Types
<1>8. /\ cache[c] \in Nat /\ posted[c] \in Nat /\ ready[c] \in Nat
      /\ held[c] = 0 /\ txq[c] \in Nat /\ processed[c] \in Nat /\ pool \in Nat
      /\ posted[c] + ready[c] <= RxRing /\ RxRing \in Nat
      /\ stage \notin {"init", "failed", "stats", "closed"}
      /\ txq[c] <= TxRing
  BY <1>1, LcoreFacts, LoopAssumption
<1>9. /\ has[c] = cache[c] + posted[c] + ready[c] + 0 + txq[c]
      /\ has'[c] = cache'[c] + (posted[c] + n) + (ready[c] - n) + n + txq[c]
  BY <1>1, <1>2, <1>5, <1>6, <1>8, CountsOfLcores, CountsOfLcoresNext
<1>10. /\ inside[c] = ready[c] + 0 + txq[c] /\ inside'[c] = (ready[c] - n) + n + txq[c]
       /\ polled[c] = processed[c] + ready[c] /\ polled'[c] = (processed[c] + n) + (ready[c] - n)
  BY <1>1, <1>2, <1>5, <1>6, <1>8, CountsOfLcores, CountsOfLcoresNext
<1>11. pool' + has'[c] = pool + has[c]
  <2> DEFINE rest == posted[c] + ready[c] + txq[c]
  <2>1. /\ rest \in Nat /\ n \in Nat /\ cache[c] \in Nat /\ cache'[c] \in Nat
        /\ pool \in Nat /\ pool' \in Nat
        /\ has[c] = cache[c] + rest /\ has'[c] = cache'[c] + rest + n
        /\ pool' + cache'[c] = pool + cache[c] - n
    BY <1>3, <1>4, <1>8, <1>9
  <2> HIDE DEF rest
  <2> QED  BY <2>1
<1>12. inside'[c] = inside[c] /\ polled'[c] = polled[c]
  BY <1>3, <1>8, <1>10
<1>13. posted'[c] + ready'[c] <= RxRing
  BY <1>3, <1>5, <1>8
<1> QED  BY <1>1, <1>3, <1>4, <1>5, <1>6, <1>7, <1>8, <1>11, <1>12, <1>13, StepOfOne

LEMMA TransmitKeeps ==
  ASSUME IInv, NEW c \in Lcores, Transmit(c)
  PROVE  IInv'
<1>1. PICK n \in 0 .. Least(held[c], TxRing - txq[c]) :
        /\ txq' = [txq EXCEPT ![c] = txq[c] + n]
        /\ GiveBack(c, held[c] - n)
        /\ dropped' = dropped + held[c] - n
  BY DEF Transmit, Unsent
<1>2. /\ UNCHANGED <<stage, posted, ready, processed, stats>>
      /\ place[c] = "tx" /\ place' = [place EXCEPT ![c] = "poll"]
      /\ held' = [held EXCEPT ![c] = 0]
  BY DEF Transmit, Goto
<1>3. Types
  BY DEF IInv
<1>4. /\ cache[c] \in Nat /\ posted[c] \in Nat /\ ready[c] \in Nat
      /\ held[c] \in Nat /\ txq[c] \in Nat /\ processed[c] \in Nat /\ pool \in Nat
      /\ posted[c] + ready[c] <= RxRing /\ txq[c] <= TxRing /\ TxRing \in Nat /\ BurstSize \in Nat
      /\ stage \notin {"init", "failed", "stats", "closed"}
  BY <1>2, LcoreFacts, LoopAssumption
<1>5. n \in Nat /\ n <= held[c] /\ txq[c] + n <= TxRing /\ held[c] - n \in Nat
  BY <1>4 DEF Least
<1>6. /\ cache' \in Counts /\ pool' \in Nat
      /\ \A d \in Lcores \ {c} : cache'[d] = cache[d]
      /\ cache'[c] \in Nat /\ cache'[c] <= CacheSize
      /\ pool' + cache'[c] = pool + cache[c] + (held[c] - n)
  BY <1>1, <1>5, GivesBack
<1>7. /\ held' \in Counts /\ held'[c] = 0
      /\ txq' \in Counts /\ txq'[c] = txq[c] + n
      /\ \A d \in Lcores \ {c} : held'[d] = held[d] /\ txq'[d] = txq[d]
  BY <1>1, <1>2, <1>3, <1>4, <1>5 DEF Types, Counts
<1>8. dropped' \in Nat /\ dropped' = dropped + (held[c] - n) /\ dropped \in Nat
  BY <1>1, <1>3, <1>4, <1>5 DEF Types
<1>9. Types'
  BY <1>2, <1>3, <1>6, <1>7, <1>8 DEF Types
<1>10. OnlyAt(c) /\ place'[c] = "poll"
  BY <1>2, <1>3, <1>6, <1>7 DEF OnlyAt, Types
<1>11. /\ has[c] = cache[c] + posted[c] + ready[c] + held[c] + txq[c]
       /\ has'[c] = cache'[c] + posted[c] + ready[c] + 0 + (txq[c] + n)
  BY <1>2, <1>3, <1>7, <1>9, CountsOfLcores, CountsOfLcoresNext
<1>12. /\ inside[c] = ready[c] + held[c] + txq[c] /\ inside'[c] = ready[c] + 0 + (txq[c] + n)
       /\ polled'[c] = polled[c]
  BY <1>2, <1>3, <1>7, <1>9, CountsOfLcores, CountsOfLcoresNext
<1>13. pool' + has'[c] = pool + has[c]
  <2> DEFINE rest == posted[c] + ready[c] + txq[c]
             unsent == held[c] - n
  <2>1. /\ rest \in Nat /\ unsent \in Nat /\ n \in Nat /\ cache[c] \in Nat /\ cache'[c] \in Nat
        /\ pool \in Nat /\ pool' \in Nat
        /\ has[c] = cache[c] + rest + unsent + n /\ has'[c] = cache'[c] + rest + n
        /\ pool' + cache'[c] = pool + cache[c] + unsent
    BY <1>4, <1>5, <1>6, <1>11
  <2> HIDE DEF rest, unsent
  <2> QED  BY <2>1
<1>14. stats'.ipackets - inside'[c] - stats'.opackets - dropped'
         = stats.ipackets - inside[c] - stats.opackets - dropped
  <2>1. inside'[c] + dropped' = inside[c] + dropped /\ inside'[c] \in Int /\ inside[c] \in Int
    BY <1>4, <1>5, <1>8, <1>12
  <2>2. stats.ipackets \in Nat /\ stats.opackets \in Nat
    BY <1>3 DEF Types
  <2> QED  BY <1>2, <1>8, <2>1, <2>2
<1> QED  BY <1>2, <1>4, <1>5, <1>6, <1>7, <1>9, <1>10, <1>12, <1>13, <1>14, StepOfOne
-----------------------------------------------------------------------------
LEMMA PortInitKeeps ==
  ASSUME IInv, PortInit
  PROVE  IInv'
<1>1. /\ stage = "init" /\ stage' = "run"
      /\ UNCHANGED <<quit, cache, ready, held, txq, processed, stats, dropped>>
      /\ pool' = pool - RxRing * Cardinality(Lcores)
      /\ posted' = [c \in Lcores |-> RxRing] /\ place' = [c \in Lcores |-> "setup"]
  BY DEF PortInit, tallies
<1>2. /\ Types /\ Bounds /\ AddsUp
      /\ \A c \in Lcores : /\ posted[c] = 0 /\ ready[c] = 0 /\ held[c] = 0
                           /\ cache[c] = 0 /\ txq[c] = 0
      /\ pool = PoolSize
  BY <1>1 DEF IInv, Places
<1>3. pool' \in Nat
  <2> DEFINE N == Cardinality(Lcores)
  <2>1. N \in Nat /\ PerLcore \in Nat /\ RxRing \in Nat /\ RxRing <= PerLcore
    BY SizesAreNats, LoopAssumption
  <2>2. RxRing * N <= PerLcore * N /\ RxRing * N \in Nat /\ PerLcore * N \in Nat
    <3> HIDE DEF N
    <3> QED  BY <2>1
  <2> QED  BY <1>1, <1>2, <2>2 DEF PoolSize
<1>4. posted' \in Counts /\ \A c \in Lcores : posted'[c] = RxRing
  BY <1>1, SizesAreNats DEF Counts
<1>5. Types'
  BY <1>1, <1>2, <1>3, <1>4 DEF Types
<1>6. Bounds' /\ Places'
  BY <1>1, <1>2, <1>4, SizesAreNats DEF Bounds, Places
<1>7. Sum(has') = RxRing * Cardinality(Lcores)
  <2>1. \A c \in Lcores : has'[c] = RxRing
    BY <1>1, <1>2, <1>4, SizesAreNats DEF has
  <2> QED  BY <1>5, <2>1, CountsOfLcoresNext, SizesAreNats, SumOfSame
<1>8. pool' + Sum(has') = PoolSize
  <2>1. RxRing * Cardinality(Lcores) \in Nat /\ PoolSize \in Nat
    BY SizesAreNats
  <2> QED  BY <1>1, <1>2, <1>7, <2>1
<1>9. inside' = inside /\ polled' = polled
  BY <1>1 DEF inside, polled
<1> QED  BY <1>1, <1>2, <1>5, <1>6, <1>8, <1>9 DEF IInv, AddsUp, PoolSize

LEMMA CloseKeeps ==
  ASSUME IInv, Close
  PROVE  IInv'
<1>1. /\ stage = "stats" /\ stage' = "closed"
      /\ UNCHANGED <<place, quit, cache, held, processed, stats, dropped>>
      /\ posted' = None /\ ready' = None /\ txq' = None
      /\ pool' = pool + Sum(posted) + Sum(ready) + Sum(txq)
  BY DEF Close, CloseRings, tallies
<1>2. Types /\ Bounds /\ Places /\ AddsUp
  BY DEF IInv
<1>3. /\ Sum(cache) \in Nat /\ Sum(posted) \in Nat /\ Sum(ready) \in Nat
      /\ Sum(held) \in Nat /\ Sum(txq) \in Nat
      /\ pool \in Nat
  BY <1>2, SumType DEF Types
<1>4. None \in Counts /\ \A c \in Lcores : None[c] = 0
  BY DEF None, Counts
<1>5. Types'
  BY <1>1, <1>2, <1>3, <1>4 DEF Types
<1>6. Bounds' /\ Places'
  BY <1>1, <1>2, <1>4, SizesAreNats DEF Bounds, Places
<1>7. Sum(held) = 0 /\ Sum(has') = Sum(cache)
  <2>1. held \in Counts /\ cache \in Counts /\ \A c \in Lcores : held[c] = 0
    BY <1>1, <1>2 DEF Types, Places
  <2>2. Sum(held) = 0
    <3>1. Sum(held) = 0 * Cardinality(Lcores) /\ Cardinality(Lcores) \in Nat
      BY <2>1, SumOfSame, SizesAreNats
    <3> QED  BY <3>1
  <2>3. \A c \in Lcores : has'[c] = cache[c]
    BY <1>1, <1>4, <2>1 DEF has, Counts
  <2>4. has' = cache
    BY <1>5, <2>1, <2>3, CountsOfLcoresNext DEF Counts
  <2> QED  BY <2>2, <2>4
<1>8. pool' + Sum(has') = PoolSize
  <2>1. pool + (Sum(cache) + Sum(posted) + (Sum(ready) + Sum(held) + Sum(txq))) = PoolSize
    BY <1>2, SumsOfSums DEF AddsUp
  <2> QED  BY <1>1, <1>3, <1>7, <2>1
<1> QED  BY <1>1, <1>5, <1>6, <1>8 DEF IInv, AddsUp, PoolSize

\* A step of main that moves no buffer.
LEMMA StageKeeps ==
  ASSUME IInv, UNCHANGED <<buffers, tallies>>,
         stage' \in {"init", "run", "stats", "closed", "failed"},
         place' \in [Lcores -> {"none", "setup", "poll", "rx", "tx", "left"}],
         \/ stage' = stage /\ place' = place
         \/ stage' = "failed" /\ stage # "closed" /\ \A c \in Lcores : place'[c] = "none"
         \/ /\ stage' = "stats" /\ stage = "run" /\ place' = place
            /\ \A c \in Lcores : place[c] = "left"
  PROVE  IInv'
<1>1. UNCHANGED <<pool, cache, posted, ready, held, txq, processed, stats, dropped>>
  BY DEF buffers, tallies
<1>2. Types' /\ Bounds' /\ Places'
  BY <1>1 DEF IInv, Types, Bounds, Places
<1>3. has' = has /\ inside' = inside /\ polled' = polled
  BY <1>1 DEF has, inside, polled
<1> QED  BY <1>1, <1>2, <1>3 DEF IInv, AddsUp, PoolSize
-----------------------------------------------------------------------------
LEMMA InductiveInvariant == Spec => []IInv
<1>1. Init => IInv
  <2> SUFFICES ASSUME Init PROVE IInv
    OBVIOUS
  <2>1. None \in Counts /\ \A c \in Lcores : None[c] = 0
    BY DEF None, Counts
  <2>2. Types
    BY <2>1, SizesAreNats DEF Init, Types
  <2>3. Bounds /\ Places
    BY <2>1, SizesAreNats DEF Init, Bounds, Places
  <2>4. \A c \in Lcores : has[c] = 0 /\ inside[c] = 0 /\ polled[c] = 0
    BY <2>1, <2>2, CountsOfLcores DEF Init
  <2>5. Sum(has) = 0 /\ Sum(inside) = 0 /\ Sum(polled) = 0
    <3>1. \A f \in Counts : (\A c \in Lcores : f[c] = 0) => Sum(f) = 0 * Cardinality(Lcores)
      BY SumOfSame
    <3>2. 0 * Cardinality(Lcores) = 0
      BY SizesAreNats
    <3> QED  BY <2>2, <2>4, <3>1, <3>2, CountsOfLcores
  <2>6. AddsUp
    BY <2>5, SizesAreNats DEF Init, AddsUp
  <2> QED  BY <2>2, <2>3, <2>6 DEF IInv
<1>2. ASSUME IInv, [Next]_vars
      PROVE  IInv'
  <2>1. ASSUME NEW c \in Lcores, Setup(c) \/ CheckQuit(c) \/ NothingReceived(c)
        PROVE  IInv'
    <3>1. \E to \in {"poll", "rx", "left"} :
            place[c] \in {"setup", "poll", "rx"} /\ place' = [place EXCEPT ![c] = to]
      BY <2>1 DEF Setup, CheckQuit, NothingReceived, Goto
    <3>2. UNCHANGED <<stage, buffers, tallies>>
      BY <2>1 DEF Setup, CheckQuit, NothingReceived
    <3> QED  BY <1>2, <3>1, <3>2, PlaceKeeps
  <2>2. ASSUME NEW c \in Lcores, SetupFails(c)
        PROVE  IInv'
    <3>1. stage' = "failed" /\ stage # "closed" /\ \A d \in Lcores : place'[d] = "none"
      BY <1>2, <2>2, LcoreFacts DEF SetupFails
    <3>2. place' \in [Lcores -> {"none"}] /\ UNCHANGED <<buffers, tallies>>
      BY <2>2 DEF SetupFails
    <3> QED  BY <1>2, <3>1, <3>2, StageKeeps
  <2>3. CASE PortInitFails \/ PrintStats \/ Signal \/ UNCHANGED vars
    <3>1. /\ UNCHANGED <<place, buffers, tallies>>
          /\ \/ stage' = stage
             \/ stage' = "failed" /\ stage = "init"
             \/ stage' = "stats" /\ stage = "run" /\ \A c \in Lcores : place[c] = "left"
      BY <2>3 DEF PortInitFails, PrintStats, Signal, vars
    <3> QED  BY <1>2, <3>1, StageKeeps DEF IInv, Types, Places
  <2> QED  BY <1>2, <2>1, <2>2, <2>3, ReceiveKeeps, TransmitKeeps,
              ArriveKeeps, SentKeeps, PortInitKeeps, CloseKeeps DEF Next, RunMain, Loop
<1> QED  BY <1>1, <1>2, PTL DEF Spec
-----------------------------------------------------------------------------
(***************************************************************************)
(* The buffers of lcores, rings and pool are always those main created,    *)
(* also when a transmit ring took a burst in part, a cache overflowed or   *)
(* main closed the port.                                                   *)
(***************************************************************************)
THEOREM BuffersAreConserved == Spec => []NoBufferLost
<1>1. IInv => NoBufferLost
  BY AllAddsUp DEF IInv
<1> QED  BY <1>1, InductiveInvariant, PTL

(***************************************************************************)
(* PORT_STATS accounts for every frame: what the port counted in is in a   *)
(* ring or a burst, went out, or was freed unsent.                         *)
(***************************************************************************)
THEOREM FramesAreCounted == Spec => []FramesAddUp
<1>1. IInv => FramesAddUp
  BY AllAddsUp DEF IInv
<1> QED  BY <1>1, InductiveInvariant, PTL

(***************************************************************************)
(* The 8192 buffers per lcore of nf_main.h are enough, and so is any       *)
(* number that holds the rings, a burst and a cache of an lcore: however   *)
(* full all of these are, a receive ring can hand out the frames it has.   *)
(***************************************************************************)
THEOREM BuffersSuffice == Spec => []NeverOutOfBuffers
<1>1. IInv => NeverOutOfBuffers
  <2> SUFFICES ASSUME IInv, NEW c \in Lcores, place[c] = "rx"
               PROVE  Free(c) >= Wanted(c)
    BY DEF NeverOutOfBuffers
  <2> DEFINE most == [d \in Lcores |-> IF d = c THEN has[c] ELSE PerLcore]
             even == [d \in Lcores |-> PerLcore]
  <2>1. Types /\ AddsUp
    BY DEF IInv
  <2>2. /\ cache[c] \in Nat /\ posted[c] \in Nat /\ ready[c] \in Nat
        /\ held[c] = 0 /\ txq[c] \in Nat /\ pool \in Nat
        /\ posted[c] + ready[c] <= RxRing /\ txq[c] <= TxRing
        /\ has[c] = cache[c] + posted[c] + ready[c] + held[c] + txq[c]
    BY <2>1, LcoreFacts, CountsOfLcores
  <2>3. /\ RxRing \in Nat /\ TxRing \in Nat /\ BurstSize \in Nat /\ CacheSize \in Nat /\ PerLcore \in Nat
        /\ RxRing + TxRing + BurstSize + CacheSize <= PerLcore
    BY LoopAssumption
  <2>4. /\ most \in Counts /\ even \in Counts
        /\ most[c] = has[c] /\ even[c] = PerLcore
        /\ \A d \in Lcores : even[d] = PerLcore
        /\ \A d \in Lcores \ {c} : most[d] = even[d]
    BY <2>1, <2>3, CountsOfLcores DEF Counts
  <2>5. \A d \in Lcores : has[d] <= most[d]
    <3> SUFFICES ASSUME NEW d \in Lcores PROVE has[d] <= most[d]
      OBVIOUS
    <3>1. /\ cache[d] \in Nat /\ posted[d] \in Nat /\ ready[d] \in Nat /\ held[d] \in Nat /\ txq[d] \in Nat
          /\ cache[d] <= CacheSize /\ held[d] <= BurstSize /\ txq[d] <= TxRing
          /\ posted[d] + ready[d] <= RxRing
          /\ has[d] = cache[d] + posted[d] + ready[d] + held[d] + txq[d]
      BY <2>1, LcoreFacts, CountsOfLcores
    <3>2. has[d] <= PerLcore
      BY <2>3, <3>1
    <3> QED  BY <3>1, <3>2
  <2> HIDE DEF most, even
  <2>6. Sum(has) <= Sum(most) /\ Sum(has) \in Nat /\ Sum(most) \in Nat
    BY <2>1, <2>4, <2>5, CountsOfLcores, SumsCompare, SumType
  <2>7. Sum(most) = PoolSize - PerLcore + has[c]
    <3>1. Sum(most) = Sum(even) - PerLcore + has[c]
      BY <2>4, SumAtOne
    <3>2. Sum(even) = PoolSize
      BY <2>3, <2>4, SumOfSame DEF PoolSize
    <3> QED  BY <3>1, <3>2
  <2>8. pool >= PerLcore - has[c]
    <3>1. pool + Sum(has) = PoolSize /\ PoolSize \in Nat
      BY <2>1, SizesAreNats DEF AddsUp
    <3> QED  BY <2>2, <2>3, <2>6, <2>7, <3>1
  <2>9. pool + cache[c] >= BurstSize
    BY <2>2, <2>3, <2>8
  <2>10. Wanted(c) <= BurstSize /\ Wanted(c) \in Nat
    BY <2>2, <2>3 DEF Wanted, Least
  <2> QED  BY <2>2, <2>3, <2>9, <2>10 DEF Free
<1> QED  BY <1>1, InductiveInvariant, PTL
=============================================================================
