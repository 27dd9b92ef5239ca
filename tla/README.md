# A verification project for the APEC network functions

TLA+ modules, TLC configurations and TLAPS proofs about the network functions
of this repository: two run-to-completion runtimes (C++ on DPDK, Rust on raw
sockets), the functions acl, nat, l3fwd and maglev on top of them, and the
proof of concept that moves flow parsing into an XDP program (`rs/maglev`).

The directories at the top and those under `apec-demo/` hold the same runtime,
acl, nat, l3fwd and C++ maglev sources, byte for byte. A definition stands for
both copies; `PROJECT.json` names the lines of one of them.

## 1. Inventory

| Component | State | Operations | Hard part | Correct when |
|---|---|---|---|---|
| Maglev table: `maglev/maglev.cpp`, `apec-demo/rs/maglev/src/table.rs`, `rs/maglev/src/maglev_table.rs` | rows (permutations), table, cursors, counter | `generate_permutations`, `populate` / `build`, lookup | an inner loop without a bound; 32-bit products that wrap | shares even, table complete, loop ends, no read past a row |
| Connection caches of `pick()`: native (`table.rs`), intrusive in `rte_fbk_hash` (`maglev.cpp`) | slots of a bucket, last slot used | fill, hit, evict | hash 0 is also the key of an empty slot; the last slot hides in `is_entry` | invisible in the answers; round robin; both the same |
| jhash: `rs/nf-runtime/src/jhash.rs` | none | `jhash_3words`, `jhash`, `jhash_2hashes` | the last 1 to 12 bytes of a key; words that wrap | bit-exact with `rte_jhash` |
| Maglev functions: `apec-demo/rs/maglev/src/main.rs`, `maglev/maglev.cpp` | the caches, per worker and per lcore | seeds from backend addresses, hash of a frame, rewrite | two programs with different caches that must agree | both send a frame to one backend |
| Rust runtime: `rs/nf-runtime/src/lib.rs`, `afpacket.rs` | quit flag, sockets, workers, buffers, counters | open, spawn, receive, process, send, report, join, signal | interleaving of setup, traffic, errors, departures and signals; buffers that are reused | a frame on one worker, flow order, no stale bytes sent, counters true, quits |
| DPDK runtime: `common/nf_main.h` | mbuf pool and caches, rings, lcores, quit flag | port init, burst loop, statistics, close | shared pool, partial sends, full rings | no buffer lost, pool never empty, frames add up, quits |
| Setup of acl, nat and l3fwd on DPDK: `acl.cpp`, `nat.cpp`, `l3fwd.cpp` | tables shared by all lcores | `nf_setup` on every lcore, `nf_app` | a slow lcore stores what a fast one reads | bursts are handled with final tables, or tables come right in the end |
| acl, nat per frame, in both languages | rules, pool, tallies | classify, translate, report | first match; index into the pool; frames too short for their headers | same verdicts and pairs as the other program; tallies add up |
| l3fwd route tables: `rs/l3fwd/src/lpm.rs`, `main.rs`, `l3fwd/l3fwd.cpp` | first level, groups; sorted vector; MACs | `add`, `lookup`, MAC rewrite | any insert order, overlapping prefixes | longest prefix wins, on both |
| XDP program and receiver: `rs/maglev/bpf`, `receiver.rs`, `five_tuple.rs`, `flow_meta.rs` | attached program, socket queue, counters | parse, prefix, attach, steer, cross-check | frames of both formats in one queue; two parsers | parsers agree (so that a flow keeps its backend), summary adds up |
| TUI dashboard: `rs/maglev/examples/tui` | last frame, counters, clock, screen | `process`, layout and colours, `render` every 100 ms | a screen of parts that change at different places; headers of any length | a screen is of one moment and one frame, and catches up |
| Checksum rewrite: `rs/maglev/src/checksum.rs` | two checksums of a frame | `rewrite_daddr` | two zeros of ones' complement; UDP zero; short frames | equals a recomputation |
| Header views, command lines, sender, benches, scripts | | | | not modelled, see section 8 |

Interactions: the runtimes call `setup` and `app` of a function. On DPDK the
tables of a function are shared by the lcores (`DpdkSetup` with
`FrameHandlers`); a worker of the Rust runtime owns its function and its
buffers (`AclRuntime` over `NfRuntime`). The Maglev functions hash a frame with
jhash and ask `pick()`, which asks the table (`MaglevNf` over `Jhash`,
`ConnCache` and `FbkCache`; there the table is a fixed function `Owner`). The
receiver reads what the XDP program writes (`Receiver` over `FlowPrefix`), looks
up a Maglev table and calls `rewrite_daddr` (`Checksum`); the dashboard is the
same loop with a screen instead of the rewrite (`Dashboard` over `Receiver`).

## 2. Modules

| Module | Models | State and actions against the code |
|---|---|---|
| `MaglevRows` | both row computations | `WrappedRow`: `(off + j*skip) % K` in words that wrap; `SteppedRow`: add and subtract |
| `MaglevPopulate` | the populate loop of all three sources | `PassTaken` is the inner while, `Claim` the three assignments behind it, `Overrun` the read of an entry that does not exist; the domain of a row says whether it is stored or computed on the fly; `turn` and `filled` are `i` and `n` |
| `MaglevGreedy` | abstract: backends in turn take their most preferred free slot | implemented by `MaglevPopulate` |
| `CacheShape` | hashes, buckets and owners of a cache | constants of the next three |
| `ConnCache` | `MaglevTable::pick` of `table.rs` | `PickFill`, `PickHit`, `PickEvict` are the three returns |
| `FlowFifo` | abstract: one FIFO queue per bucket | implemented by `ConnCache` |
| `FbkCache` | `maglev_table::pick` of `maglev.cpp` | same three returns, with `is_entry` as one number; implements `ConnCache` |
| `Jhash` | `jhash.rs`, and `rte_jhash` as its comments describe it | pure functions over words of four bytes of any width |
| `JhashCalls` | calls of both versions of jhash | `CallJhash` is a call with any key and seeds, compared by `MatchesRteJhash` |
| `MaglevNf` | both Maglev functions side by side, given the same frames | `App` is `app()` of the port, `NfApp` is `nf_app()`; `dst` and `dst_cpp` are the rewritten destinations; `Ipv6` is the build, and `MCMaglevNf` has one instance of each |
| `NfRuntime` | the Rust runtime and the packet sockets under it | one action per system call or branch of `open`, `worker_main` and `run`; a worker's place is the statement it is at |
| `AclRuntime` | the acl function on `NfRuntime` | every receive fills buffers (`Fill`: frame bytes and lengths, nothing cleared) and classifies what lies at the offsets of the header views (`App`); `wire` is what `tx_burst` reads back from the buffers and their lengths |
| `DpdkLoop` | the DPDK runtime and its buffers | buffers are counted by place; `Receive` and `Transmit` are the two bursts with everything the code does between them |
| `SetupPrograms` | `nf_setup` of acl, nat and l3fwd, and `setup()` of the Rust acl and nat, as sequences of stores | one element per assignment |
| `DpdkSetup` | a program of stores run by every lcore under traffic | `Store` is one assignment; `Burst` remembers the tables a burst was handled with |
| `FrameHandlers` | `classify` of acl, `nf_app` of nat, the MAC lookup of l3fwd | operators over the tables a burst saw |
| `LpmPrefix`, `Lpm` | IPv4 table (DIR-24-8) | `AddShallow`, `AddDeep`, `Lookup` |
| `Lpm6` | IPv6 table (vector, deepest first) | `Add` inserts at the partition point, `Lookup` scans |
| `L3fwd` | both tables with `app` around them, and `nf_app` over `rte_lpm` | the build feature chooses one; `App4`, `App6`, `NfApp4`, `NfApp6` |
| `FlowPrefix` | the checks of the XDP program and of `FiveTuple::from_frame` | operators on frame records |
| `Receiver` | `Receiver::run` behind the XDP program | `CountNoMeta`, `Steer`, `SteerLookalike` are the paths through the loop body |
| `Dashboard` | `main_loop`, `process`, `Layout::of`, `color_at`, `render` of `examples/tui` | `Draw` and `Pass` are the head of the loop with and without a render, `Process` is `process()`, `TimesOut` the end of `rx.next()` without a frame |
| `Checksum` | `rewrite_daddr` | one action per return |

`MC*` modules give constants to TLC. The theorems are in eight modules:

| Module | Is about |
|---|---|
| `SumProofs` | the fold that adds up a counter over lcores, workers or backends; induction over numbers and finite sets; powers, quotients and remainders |
| `MaglevProofs` | `MaglevPopulate`, `Checksum` |
| `MaglevNfProofs` | `Jhash`, `ConnCache`, `FbkCache`, `MaglevNf` |
| `RuntimeProofs` | `NfRuntime`, `AclRuntime` |
| `DpdkLoopProofs` | `DpdkLoop` |
| `DpdkSetupProofs` | `DpdkSetup`, `SetupPrograms`, `FrameHandlers` |
| `LpmProofs` | `Lpm`, `Lpm6`, `L3fwd` |
| `ReceiverProofs` | `Receiver`, `Dashboard` |

## 3. Runs

| Run | Bounds | Shows |
|---|---|---|
| `populate` | 5 slots, 3 backends, every choice of seeds, 4-bit words; stepped and wrapping rows of 5 entries, and wrapping rows computed on the fly, whose cursor counts through the whole word and starts again, as in `table.rs` (192 987 states) | `Balanced`, the loop is `MaglevGreedy`; with rows that visit every slot it ends (`OntoRowsFinish`) and never reads past a row (`OntoRowsNeverOverrun`) |
| `populate_never_returns` | 5 slots, 2 backends, 4-bit words | violation: with a wrapped row `populate` of `table.rs` may loop for ever |
| `maglev_nf` | bytes of one bit, so words of four; 2 buckets of 4 slots; over IPv4 flows with 6 hashes in the first bucket, over IPv6 with 5, hash 0 among them; keys of 0 to 4 bytes, all, and of 11, 12, 13, 24 and 25, some (46 217 states) | `MatchesRteJhash`; `Transparent`, `OneSlotPerHash`, FIFO eviction (`ImplementsFifo`); the intrusive cache implements the native one (`ImplementsNative`); `SameBackendAsCpp` of the IPv4 build, `SameBackendOverIpv6` of the IPv6 build, whose seeds are hashes of 16 bytes |
| `nf_runtime` | acl on 2 workers; a denied and a permitted frame of one flow, a runt of another, a frame of another interface; queues and bursts of 2 (485 222 states) | `NoReflection`, `OneWorkerPerFrame`, `OrderUntilDeparture`, `CountersAddUp`, `LossesAreCounted`, `TalliesAddUp`, `SentAsReceived`, `QuitEnds` |
| `nf_runtime_window` | the same runtime, 3 frames of one flow, the first from another interface | violation: a frame is handled by two workers |
| `setup` | 2 lcores, tables of 4 entries; acl, nat (IPv4 and IPv6) and l3fwd (with and without `NF_NEXTHOP_MAC`) (31 866 states) | `SetupStands`, `SetupConverges`, `VerdictsMatchPort`, `PairsComeFromPool`, `MacsBelongToHops` |
| `setup_acl6` | 2 lcores, 2 rules | violation: the ladder permits what it denies while a rule is being cleared |
| `routes` | 4-bit addresses, every prefix, 3 adds in every order; for IPv6 3 networks and all depths (124 822 states) | `LongestPrefixWins`, `GroupsAreDisjoint`; `FramesLeaveForBestHop`, in Rust and over `rte_lpm` |
| `dpdk_loop` | 2 lcores, 7 buffers each, receive rings of 3, transmit rings of 1, bursts of 2, 6 frames | `NoBufferLost`, `NeverOutOfBuffers`, `FramesAddUp`, `QuitEnds` |
| `receiver` | 6 kinds of frame, queue of 2, 3 frames | `CrossCheckAgrees`, `SummaryAddsUp`, `InterruptEnds` |
| `dashboard` | 4 kinds of frame (IP options and padding, TCP options, cut behind the ports, ARP with the magic byte), queue of 1, 3 frames, 70 of the bytes of a frame shown (322 728 states) | `ScreenIsConsistent`, `RowsAsCounted`, `PaintFollowsFrame`, `ScreenCatchesUp` |
| `checksum` | 3-bit words, sums on both sides of a carry, any series of rewrites | `MatchesRecompute`, `UdpChecksumStays` |

Why these bounds are enough to be interesting:

- `K = 5` is prime and `2^k + 1`, as 65537 is; with `Word = 16 = (2^k)^2`
  products wrap for the same reason as in 32 bits, and both onto and
  non-onto rows occur; a row computed on the fly is onto when its 16 entries
  are. Three backends give rounds that end in the middle. A
  cursor that computes its row as it goes sees, behind entry 4, entries 5 to 15
  of the word and then entry 0 again.
- A bucket of four slots is the code's; six hashes fill it and go round. With
  a lookup table of 11 slots the owner of hash 0 is not backend 0, so a slot
  nobody wrote is told from a hit. With words of four bits the rotations of
  jhash go round several times, sums wrap and every length of the tail occurs;
  keys of 25 bytes take two rounds before the tail. An IPv6 address of a
  backend takes one round and a tail of four bytes, an IPv4 address is a tail.
- Two workers are enough for every pair to race; a queue of two overflows and
  a burst of two can be sent in part, and a runt that follows a whole frame
  into a buffer finds its headers there. Three workers would show one thing
  more, see section 4.
- Two lcores are one that polls and one that is slow; that any number behaves
  like them is proved (section 6). Four entries give a table with entries that
  are neither the first nor the last, and a hop 2 as the MACs need.
- In `dpdk_loop` the pool is as small as the assumption of the model permits
  and one frame more would overflow every ring.
- Two-bit levels have slots, groups and every shape of overlap of prefixes;
  the deepest dependency between adds takes three of them.
- Three frames are one on the screen, one handled and one waiting. With 70
  bytes the end of the padded frame is cut off, as frames of more than 128
  bytes are by `HEX_BYTES`.
- Three-bit words have all carries a fold can produce.

Nothing is replaced by a cfg; bounds on behaviours are `MaxAdds`, `MaxRoutes`,
`MaxFrames` and the length of `Traffic`. The cfgs that turn deadlock checking
off are those of systems that stop (a process that exits, traffic that ends, a
table that has had its adds).

## 4. Findings

1. **`populate()` may never return** (`table.rs:87`, run
   `populate_never_returns`). The 32-bit product `k * skip` wraps for large
   `k`; a row whose product wraps need not visit every slot, and the inner loop
   then waits for a slot that will not come. The C++ twin reads past its row
   instead. `table.rs:5` promises "identical results", from the "same
   wrapping-u32" arithmetic (`table.rs:7`). None of the 1024 backends of the
   default setup has a row that misses a slot; the first IPv4 backend with such
   a row is number 7199, the first IPv6 one 61739.
2. **A frame can be handled by two workers** (`afpacket.rs:109`, run
   `nf_runtime_window`). A socket is bound before it joins the fanout group;
   frames that arrive in between are queued by every socket that is bound.
   `lib.rs:6` calls the group "the RSS equivalent", and RSS puts a frame into
   one queue.
3. **The IPv6 acl forgets rules while another lcore sets up** (`acl.cpp:38`,
   run `setup_acl6`): the rules are shared, not per lcore, and are cleared
   before they are filled. `SetupConverges` says that this ends with the last
   setup.

Smaller things met on the way:

- With three workers the order of a flow's frames is lost after one of them
  leaves (two workers cannot show it, so `OrderUntilDeparture` says what is
  promised).
- `PORT_STATS` of the Rust runtime counts neither frames queued at shutdown nor
  drops between the last read and the close.
- A runt is classified, and tallied, by what an earlier frame left in its
  buffer; what is sent is the runt (`TalliesAddUp`, `SentAsReceived`).
- During setup the IPv6 pool of nat holds the base address before the final
  one, and frames of any hop of l3fwd may leave for hop 2, whose bytes the
  setup stores first. Both end with the last setup (`PairsComeFromPool`,
  `MacsBelongToHops`).
- The comment at `l3fwd.cpp:26` gives the MACs as 02:00:00:00:00:NN where the
  code writes 02:02:02:02:02:NN.
- Of two routes with one prefix the IPv4 table and `rte_lpm6` keep the later,
  the IPv6 vector of `rs/l3fwd` the earlier. The setups add no prefix twice.
- A refused `rewrite_daddr` has already changed the IP checksum.
- `Layout::of` paints bytes past the IP total length as the IP header when that
  length is less than the header's own (`layout.rs:27-28`); the XDP program
  does not look at the total length, so such a frame is prefixed.
  `PaintFollowsFrame` excludes it.

## 5. Fairness

- `MaglevPopulate`: weak fairness of the loop. It is one thread that waits for
  nothing.
- `NfRuntime`: weak fairness of main and of every worker. Threads are
  scheduled, and receive and send calls return within their 100 ms timeouts
  (`afpacket.rs:106`). No fairness for traffic, signals or errors.
- `DpdkLoop`: weak fairness of main and of every lcore, which owns its CPU and
  polls. None for the port and the signal.
- `Receiver`: weak fairness of the loop; `rx.next()` returns within 250 ms
  (`receiver.rs:43`). None for frames, attachments or ctrl-C.
- `Dashboard`: weak fairness of the loop, whose `rx.next()` returns within
  `REFRESH` (`dashboard.rs:97`), and of the clock: `REFRESH` passes. None for
  frames, signals and errors. `Interrupted`, an early return of `rx.next()`,
  has none either.

The other specifications state no fairness and no liveness.

## 6. What is proved

TLAPS checks the following for every value of the constants that satisfies the
modules' assumptions. Every safety property of a passing run is the subject of
a theorem.

| Theorem | Of | For |
|---|---|---|
| `MaglevProofs!TypeCorrect`, `SharesAreEven`, `NeverOverruns`, `PopulateImplementsGreedy` | `Balanced`, `OntoRowsNeverOverrun`, `ImplementsGreedy` | any number of slots and backends, any rows, backend numbers below the sentinel (`N <= Sentinel`) |
| `MaglevProofs!StepsAreProducts`, `UnwrappedRowsAreSteps` | | rows of any number of slots, any seeds; the second for rows whose products stay below 2^32 |
| `MaglevProofs!BuildStaysInRows` | no overrun, without a proviso on rows | a prime number of slots (`Prime`), rows of `MaglevTable::build`, or of `maglev.cpp` where no product wraps |
| `MaglevProofs!ChecksumsAreRight`, `UdpChecksumsStay` | `MatchesRecompute`, `UdpChecksumStays` | words of any number of values, any header and segment, any series of rewrites |
| `MaglevNfProofs!PortedHashIsExact` | `MatchesRteJhash` | keys of any length and content, any seeds, bytes of any width |
| `MaglevNfProofs!SeedsAgree` | | the seeds of a row in both programs, any backend, IPv4 and IPv6 |
| `MaglevNfProofs!CacheIsTransparent`, `CacheHasNoDuplicates`, `CacheIsFifo` | `Transparent`, `OneSlotPerHash`, `ImplementsFifo` | any hashes, buckets, owners, any number of ways |
| `MaglevNfProofs!FbkImplementsNative`, `CppCacheIsNative` | `ImplementsNative` | the same |
| `MaglevNfProofs!PortFollowsCpp` | `SameBackendAsCpp`, and so `SameBackendOverIpv6` | any flows, both families, any way to populate a table from seeds, as long as both programs have the same (`Populated`) |
| `RuntimeProofs!NothingReflected`, `LateFramesHaveOneWorker`, `FlowsStayInOrder`, `CountersAreRight`, `DropsAreCounted` | `NoReflection`, `OneWorkerPerFrame`, `OrderUntilDeparture`, `CountersAddUp`, `LossesAreCounted` | any number of workers, any traffic, any queue and burst size, any failures and departures |
| `RuntimeProofs!OnlyReceivedBytesLeave`, `TalliesAreRight` | `SentAsReceived`, `TalliesAddUp` | the same |
| `DpdkLoopProofs!BuffersAreConserved`, `BuffersSuffice`, `FramesAreCounted` | `NoBufferLost`, `NeverOutOfBuffers`, `FramesAddUp` | any finite set of lcores, any rings, bursts and caches that fit in a share of the pool |
| `DpdkSetupProofs!OverlapIsHarmless`, `SetupsConverge` | `SetupStands`, `SetupConverges` | any finite set of lcores and any programs of stores (`ArePrograms`); the first is about the cells a program stores one value in (`Steady`) |
| `DpdkSetupProofs!SetupsArePrograms` | | `nf_setup` of acl, nat and l3fwd, for tables of any size, are such programs |
| `DpdkSetupProofs!VerdictsAreThePorts`, `FlowsGetPoolPairs`, `NoMixedMacs` | `VerdictsMatchPort`, `PairsComeFromPool`, `MacsBelongToHops` | ladders, pools and MAC tables of any size, any finite set of lcores |
| `LpmProofs!DeeperPrefixesWin`, `GroupsNeverShared` | `LongestPrefixWins`, `GroupsAreDisjoint` | any address width, split in two levels, prefixes and order of adds, as long as the groups fit in 16 bits (`Numbered`) |
| `LpmProofs!FramesFollowTheRoutes` | `FramesLeaveForBestHop` | the same, and IPv6 addresses of any number of bytes of any width |
| `ReceiverProofs!ParsersAgree`, `CrossCheckNeverFails`, `TheSummaryAddsUp` | `CrossCheckAgrees`, `SummaryAddsUp` | any finite set of frames and backends, any lookup tables, any attaching and detaching |
| `ReceiverProofs!ScreensAreConsistent`, `RowsAgreeWithCounters`, `PaintIsRight` | `ScreenIsConsistent`, `RowsAsCounted`, `PaintFollowsFrame` | the same, any lengths of headers and frames, any timing of the refresh |

Arguments:

- **Populate.** `Balanced` and `OntoRowsNeverOverrun` are not inductive.
  `IInv` adds that a cursor never leaves a free slot behind (`PrefixTaken`),
  that the counter is the number of claims (`FilledCountsClaims`), and ties
  the program counter to them. A cursor at the end of an onto row would mean
  that all slots are taken, while the counter says that one is free. For a
  wrapping cursor `PrefixTaken` says nothing of the entries behind it, hence
  the proofs about ends of rows are for cursors that do not wrap. The
  refinement follows because the first entry of a row that is free is, by
  `PrefixTaken`, the one the cursor stops at.
- **Rows.** What adds `skip`, and subtracts `K` where it is reached, is a
  remainder of `off + j * skip` (`NextProduct`), by induction over `j`; and a
  number has one remainder (`OneRemainder`). If a row met a slot twice, some
  multiple of `skip` by less than `K` would be a multiple of `K`; the least such
  multiplier divides `K`, and is 1 or `K` if `K` is prime. So the entries of a
  row differ, and as many as there are slots are all slots.
- **Checksum.** A fold is congruent to its sum modulo `Word - 1`, and is 0 only
  for the sum 0; so two sums that are congruent and not 0 fold to the same
  word. The update adds the complement of the old address and the new one,
  which is congruent to what a recomputation adds.
- **jhash.** The two versions make the same rounds, and differ in the last 1
  to 12 bytes of a key. `rte_jhash` masks the bytes behind the key, the port
  copies the tail into a block of zeroes; byte by byte both give the same
  three words. That exclusive or is defined on words, returns words and
  associates is by induction over the number of bits. A flow then has one hash
  in both programs because the bytes of a word give the word back.
- **Cache.** The slots in use come first, hold owners of their keys, and are
  one per hash; with that a scan that stops at a free slot has missed nothing.
  The queue of a bucket is its slots read from the one behind the last slot
  used, or from the first while slots are free, which are then filled in order
  (`FilledInOrder`).
- **Intrusive cache.** The bit and the number of `is_entry` are recovered with
  `% 2` and `\div 2`; only the first entry carries a number. Every action then
  maps to the action of the same name. For `PortFollowsCpp` the steps of the
  two programs are taken together (`InStep`): both caches answer owners, of
  one hash.
- **Sums.** Counters are added up with a fold over lcores, workers or
  backends. `SumProofs` shows by induction over finite sets that a change of
  one summand changes the sum by as much, and that a sum is bounded by bounds
  of its summands.
- **DPDK loop.** `NoBufferLost` gives the pool as what the lcores do not have.
  That an lcore that needs a buffer finds one follows if no lcore has more
  than its share: `Bounds` limits every place of an lcore, `Places` says where
  in the loop it has a burst at all.
- **Runtime.** A worker sends only after `run()` has opened every socket, and
  an open socket ignores what the process sends (`OpenBeforeWork`), so there is
  no echo. That a late frame is handled once is about where its copies are,
  queues included (`OneHolder`): the worker that has handled a frame is the
  only one whose queue ever held it. Order and counters: what a worker has
  sent is older than its burst, and that is older than its queue (`Ordered`),
  and the counters are the sizes of the sets of frames handled and sent
  (`Ledger`). While nobody has left, every late frame is with the worker it
  hashes to, and what a full queue refused is in a drop counter (`GroupInv`).
- **Buffers.** No worker but the one that received has a new burst, and a
  burst fits into the buffers (`BufInv`); so the burst a worker is about to
  send is the one its last `recvmmsg()` wrote, and the messages `sendmmsg()`
  reads back, a prefix of the burst, are those frames. What an earlier frame
  left in a buffer was a frame of the same worker (`TallyInv`), so a runt is
  tallied by one of those.
- **Setup.** What an lcore has stored stays in place, because everybody
  stores the same value there (`StoredIsFinal`); an lcore that polls has
  stored everything. For cells that are stored several values: one that is not
  final has its last store still ahead, on some lcore (`ComesRight`), and where
  all setups have returned nothing is ahead. That a last store exists is by
  induction over the positions of a program. The programs are then read as
  rows of stores, one for each entry, of which the later store to a cell
  decides; from the final ladder, pool and MACs the verdict, the pair and the
  bytes of a frame are computed. Before all setups have returned a cell holds
  one of the values a setup stores there (`StoredByASetup`): for a port of the
  pool that is one, for an IPv6 address also the base (`PoolValues`).
- **Routes.** A lookup does not return the depths that the next add will
  compare, so `LongestPrefixWins` is not inductive. What is: the entry every
  address ends at holds depth and next hop of the deepest route that covers it
  (`Right`), pointers name groups that exist, and no two name the same. The
  IPv6 vector is deeper first, and within a depth in the order of the adds
  (`Ordered6`). That the test it makes of bytes and a mask compares prefixes
  (`MatchesIsCovers`) is by induction over the bytes: a prefix is the quotient
  of an address by a power of two, and the quotient of a byte string is
  that of its last byte after those before it.
- **Receiver.** A prefix in the queue is the five-tuple of the frame behind it
  and was put before a frame the program accepts (`PrefixesFit`), whichever
  program is attached when it is read; then `ParsersAgree` applies. The
  summary holds at every head of the loop (`SumInv`).
- **Dashboard.** The panels always agree with the counters of the receiver,
  and the screen is what they were at one earlier moment (`Consistent`); the
  frame shown is one the XDP program accepted (`Holdings`), whose lengths place
  its headers. Two five-tuples differ exactly if one of their columns does
  (`ColumnsTell`), which is why the rows and the counters agree.

Assumptions on constants are in the modules, and TLC evaluates each in a run.
Some are there for the proofs: that frames and backends are finite sets,
that `Len(Traffic)` is a number, that fields of frames are numbers or words of
their width. `Jhash` and `L3fwd` state that powers of two double, up to the width
used; that is true of `2^i` and stated because the provers do not compute
powers. `ArePrograms`, the hypothesis of the theorems about setups, is proved of
those of acl, nat and l3fwd.

`MaglevNf` has the lookup tables and the hashes of the flows as parameters; what
the hashes are is an assumption (`HashedAssumption`) that TLC evaluates. `PortFollowsCpp` assumes that one
computation makes both from the seeds of the backends; that the seeds agree is
`SeedsAgree`, and that `populate` is such a computation is what
`PopulateImplementsGreedy` says of it: from given rows there is one greedy
allocation. Run `maglev_nf` populates both tables.

Only model-checked is liveness, which these provers cannot do under fairness:
`OntoRowsFinish`, `QuitEnds` of both runtimes, `InterruptEnds`,
`ScreenCatchesUp`. That `populate` ends, and so that there is a table at all,
is therefore shown for five slots only. That 65537 is a prime number is the
hypothesis `Prime` of `BuildStaysInRows`, and not proved. A recursive
definition is proved about by the set of arguments a fact holds for, since the
induction theorems of the library take an operator as a parameter.

## 7. Abstractions

- Hashes, addresses and names are parameters or small numbers. In `MaglevNf`
  jhash is computed, with small bytes; elsewhere hashes are arbitrary, as are
  FNV and xxHash. What depends on their values (how flows spread) is not
  claimed.
- The kernel, DPDK, `rte_fbk_hash` and `rte_lpm` are modelled from how the
  sources use them and are marked external in `PROJECT.json`. `rte_jhash` is
  modelled from what `jhash.rs` says of it.
- A store to a table cell is atomic and stores are seen in program order
  (`DpdkSetup`); C++ leaves a data race undefined, so this is the most
  favourable build. `nat.cpp:38` adds to an address it has just stored: at -O3,
  which `Makefile.common` sets, nothing is read back, and the model stores the
  sum. A build at -O0 reads it back and is not modelled.
- A burst is handled with the tables of one moment (`Burst`), where the code
  reads them frame by frame and cell by cell. Every moment a frame can see is
  that of some burst; a frame that reads two cells with a store in between, and
  two frames of one burst that see different tables, are left out.
- Frames in `NfRuntime` are their numbers; `AclRuntime` adds whose bytes lie in
  a buffer, in two parts: the MAC header, and the headers behind it that a runt
  does not have. `macswap` is left out.
- In `Dashboard` the frames shown are those the small set of frames permits;
  an ARP frame with the magic byte is split as some prefix and some frame.
  Words, bar lengths and terminal codes are left out. The XDP program stays
  attached once it is; `Receiver` has it replaced and detached.
- `Checksum` works on sums of words. The code's 32-bit sums cannot overflow
  for frames of 64 KiB or less.

## 8. Not modelled

- The header views of `hdr.rs` (fixed offsets; what they read of a frame that
  is too short is in `AclRuntime`) and argument parsing, `NF_NEXTHOP_MAC`
  included: pure functions without state.
- Terminal output of the dashboard beyond its numbers, verdicts and colours.
- The sender, benches, tests, build scripts and shell scripts other than
  attaching and detaching.
- Four things the code is exposed to and no property covers, see `hazards` in
  `PROJECT.json`: 65536 backends, whose last one equals the mark of a free
  slot; a build at -O0 of nat; a number of next hops that is no power of two;
  and lcores that share a CPU, whose tables get one name.

## 9. Plan

What is left to prove: that the loop of `MaglevPopulate` ends in the table of a
recursive function of the seeds, so that `Populated` need not be assumed. In
the models: `MaglevNf` under `NfRuntime`, whose cache hit rate depends on
`OneWorkerPerFrame`; and a `DpdkSetup` for compilers that read stored values
back, with bursts that read tables cell by cell.
