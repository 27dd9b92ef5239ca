---------------------------- MODULE ReceiverProofs ----------------------------
(***************************************************************************)
(* The receiver and the dashboard behind the XDP program, for every set of *)
(* frames, of backends and of lookup tables: the cross-check never fails a *)
(* frame the program prefixed, the summary adds up, and what a screen      *)
(* shows is of one moment and one frame.                                   *)
(*                                                                         *)
(* Between the two parsers stands the socket: what makes the counters      *)
(* right is that a prefix in the queue is the five-tuple of the frame      *)
(* behind it, and was only put before a frame the program accepts          *)
(* (PrefixesFit), whatever program is attached by the time it is read.     *)
(* What main_loop() keeps between two frames agrees (Holdings), so that a  *)
(* screen drawn of it does, and still does when the next frame is counted. *)
(***************************************************************************)
EXTENDS Dashboard, SumProofs

Entries == [frame : Frames, meta : SUBSET Tuples]

PrefixesFit ==
  /\ queue \in Seq(Entries)
  /\ \A n \in DOMAIN queue :
       queue[n].meta # {} =>
         Eligible(queue[n].frame) /\ queue[n].meta = {Meta(queue[n].frame)}

CountersAreRight ==
  /\ count \in [DOMAIN Zero -> Nat] /\ lookalike \in Nat
  /\ count.mismatch + count.unparsed <= lookalike

IInv == PrefixesFit /\ CountersAreRight
-----------------------------------------------------------------------------
(***************************************************************************)
(* The strict parser of flow_prefix.bpf.c and the lenient one of           *)
(* five_tuple.rs read the same five-tuple from any frame the former        *)
(* accepts.                                                                *)
(***************************************************************************)
THEOREM ParsersAgree ==
  ASSUME NEW f, Eligible(f)
  PROVE  Parses(f) /\ FromFrame(f) = Meta(f)
BY DEF Eligible, Parses, FromFrame, Meta

LEMMA MetaIsTuple ==
  ASSUME NEW f \in Frames
  PROVE  Meta(f) \in Tuples
BY DEF Meta, Tuples, PortsAt

\* Names of counters, and what Add makes of them.
LEMMA CounterNames ==
  DOMAIN Zero = {"total", "no_meta", "verified", "mismatch", "unparsed", "rewrite_fail"}
BY DEF Zero

LEMMA AddType ==
  ASSUME count \in [DOMAIN Zero -> Nat], NEW S
  PROVE  /\ Add(S) \in [DOMAIN Zero -> Nat]
         /\ Add(S).mismatch = IF "mismatch" \in S THEN count.mismatch + 1 ELSE count.mismatch
         /\ Add(S).unparsed = IF "unparsed" \in S THEN count.unparsed + 1 ELSE count.unparsed
         /\ count.mismatch \in Nat /\ count.unparsed \in Nat
BY CounterNames DEF Add

\* The socket hands out the frame at its head.
LEMMA TookHead ==
  ASSUME PrefixesFit, queue # << >>, Took(Head(queue))
  PROVE  /\ PrefixesFit'
         /\ Head(queue) \in Entries
         /\ Head(queue).meta # {} =>
              /\ Eligible(Head(queue).frame)
              /\ Head(queue).meta = {Meta(Head(queue).frame)}
         /\ UNCHANGED lookup
<1>1. 1 \in DOMAIN queue /\ Head(queue) = queue[1] /\ queue[1] \in Entries
  BY DEF PrefixesFit
<1>2. /\ queue' = Tail(queue) /\ Tail(queue) \in Seq(Entries)
      /\ \A n \in DOMAIN Tail(queue) : n + 1 \in DOMAIN queue /\ Tail(queue)[n] = queue[n + 1]
  BY DEF Took, PrefixesFit
<1>3. PrefixesFit'
  BY <1>2 DEF PrefixesFit
<1> QED  BY <1>1, <1>3 DEF PrefixesFit, Took
-----------------------------------------------------------------------------
LEMMA Untouched ==
  ASSUME IInv, UNCHANGED <<queue, count, lookalike>>
  PROVE  IInv'
BY DEF IInv, PrefixesFit, CountersAreRight

LEMMA ArriveFits ==
  ASSUME PrefixesFit, NEW f \in Frames, Arrive(f)
  PROVE  PrefixesFit'
<1>1. CASE UNCHANGED queue
  BY <1>1 DEF PrefixesFit
<1>2. ASSUME NEW headroom \in BOOLEAN,
             queue' = Append(queue, [frame |-> f, meta |-> Delivered(f, headroom)])
      PROVE  PrefixesFit'
  <2> DEFINE q == [frame |-> f, meta |-> Delivered(f, headroom)]
  <2>1. q \in Entries /\ (q.meta # {} => Eligible(q.frame) /\ q.meta = {Meta(q.frame)})
    BY MetaIsTuple DEF Delivered, Entries
  <2>2. /\ queue' \in Seq(Entries)
        /\ \A n \in DOMAIN queue' : queue'[n] = q \/ (n \in DOMAIN queue /\ queue'[n] = queue[n])
    <3> HIDE DEF q
    <3>1. queue \in Seq(Entries) /\ queue' = Append(queue, q)
      BY <1>2 DEF PrefixesFit, q
    <3> QED  BY <2>1, <3>1
  <2> QED  BY <2>1, <2>2 DEF PrefixesFit
<1> QED  BY <1>1, <1>2 DEF Arrive

LEMMA ArriveKeeps ==
  ASSUME IInv, NEW f \in Frames, Arrive(f)
  PROVE  IInv'
<1>1. CountersAreRight'
  BY DEF Arrive, tally, IInv, CountersAreRight
<1> QED  BY <1>1, ArriveFits DEF IInv

LEMMA HandleKeeps ==
  ASSUME IInv, Handle
  PROVE  IInv'
<1> DEFINE q == Head(queue)
<1>1. /\ PrefixesFit /\ CountersAreRight
      /\ count \in [DOMAIN Zero -> Nat] /\ lookalike \in Nat
  BY DEF IInv, CountersAreRight
<1>2. CASE CountNoMeta(q)
  <2>1. PrefixesFit'
    BY <1>1, <1>2, TookHead DEF Handle, CountNoMeta
  <2>2. count' = Add(NoMeta) /\ UNCHANGED lookalike
    BY <1>2 DEF CountNoMeta
  <2>3. CountersAreRight'
    BY <1>1, <2>2, AddType DEF NoMeta, CountersAreRight
  <2> QED  BY <2>1, <2>3 DEF IInv
<1>3. CASE Steer(q)
  <2>1. PICK hw \in q.meta :
          /\ Took(q)
          /\ count' = Add({"total"} \cup CrossCheck(hw, q.frame) \cup Rewrite(hw, q.frame))
          /\ UNCHANGED lookalike
    BY <1>3 DEF Steer
  <2>2. /\ PrefixesFit'
        /\ q \in Entries /\ Eligible(q.frame) /\ hw = Meta(q.frame)
    BY <1>1, <2>1, TookHead DEF Handle
  <2>3. Parses(q.frame) /\ FromFrame(q.frame) = hw /\ hw \in Tuples
    BY <2>2, ParsersAgree, MetaIsTuple DEF Entries
  <2>4. CountersAreRight'
    <3>1. CrossCheck(hw, q.frame) = {"verified"} /\ Rewrite(hw, q.frame) \subseteq {"rewrite_fail"}
      BY <2>3 DEF CrossCheck, Rewrite
    <3> HIDE DEF q
    <3> QED  BY <1>1, <2>1, <3>1, AddType DEF CountersAreRight
  <2> QED  BY <2>2, <2>4 DEF IInv
<1>4. CASE SteerLookalike(q)
  <2>1. PrefixesFit'
    BY <1>1, <1>4, TookHead DEF Handle, SteerLookalike
  <2>2. PICK check \in {{"unparsed"}, {"verified"}, {"verified", "mismatch"}}, failed \in SUBSET {"rewrite_fail"} :
          count' = Add({"total"} \cup check \cup failed)
    BY <1>4 DEF SteerLookalike
  <2>3. lookalike' = lookalike + 1
    BY <1>4 DEF SteerLookalike
  <2>4. CountersAreRight'
    BY <1>1, <2>2, <2>3, AddType DEF CountersAreRight
  <2> QED  BY <2>1, <2>4 DEF IInv
<1> QED  BY <1>2, <1>3, <1>4 DEF Handle

LEMMA FitAtStart ==
  ASSUME Init
  PROVE  PrefixesFit
BY DEF Init, PrefixesFit

LEMMA InductiveInvariant == Spec => []IInv
<1>1. Init => IInv
  BY CounterNames DEF Init, IInv, PrefixesFit, CountersAreRight, Zero
<1>2. ASSUME IInv, [Next]_vars
      PROVE  IInv'
  <2>1. ASSUME NEW program \in {"none", "pass", "prefix"}, Attach(program)
        PROVE  IInv'
    BY <1>2, <2>1, Untouched DEF Attach, tally
  <2>2. ASSUME NEW f \in Frames, Arrive(f)
        PROVE  IInv'
    BY <1>2, <2>2, ArriveKeeps
  <2>3. CASE Interrupt \/ Check \/ NextTimesOut \/ NextFails \/ UNCHANGED vars
    BY <1>2, <2>3, Untouched DEF Interrupt, Check, NextTimesOut, NextFails, tally, vars
  <2>4. CASE Handle
    BY <1>2, <2>4, HandleKeeps
  <2> QED  BY <1>2, <2>1, <2>2, <2>3, <2>4 DEF Next, Loop
<1> QED  BY <1>1, <1>2, PTL DEF Spec
-----------------------------------------------------------------------------
(***************************************************************************)
(* The loop of receiver.rs counts no frame as a mismatch or unparseable    *)
(* but those whose first byte happens to be the magic byte.                *)
(***************************************************************************)
THEOREM CrossCheckNeverFails == Spec => []CrossCheckAgrees
<1>1. IInv => CrossCheckAgrees
  BY DEF IInv, CountersAreRight, CrossCheckAgrees
<1> QED  BY <1>1, InductiveInvariant, PTL

(***************************************************************************)
(* The summary adds up.                                                    *)
(***************************************************************************)
SteeredAddUp ==
  /\ count \in [DOMAIN Zero -> Nat] /\ steered \in [Backends -> Nat]
  /\ count.total = count.no_meta + count.verified + count.unparsed
  /\ Total(steered) = count.verified + count.unparsed

Prefixes == {n \in DOMAIN queue : queue[n].meta # {}}
PrefixesAddUp ==
  /\ lookalike \in Nat /\ prefixed \in Nat
  /\ count.verified + count.unparsed = prefixed - Cardinality(Prefixes) + lookalike

SumInv == SteeredAddUp /\ PrefixesAddUp /\ lookup \in [Tuples -> Backends]

\* The counters of the cross-check.
Verdicts == {{"unparsed"}, {"verified"}, {"verified", "mismatch"}}

LEMMA OneVerdict == \A hw, f : CrossCheck(hw, f) \in Verdicts
BY DEF CrossCheck, Verdicts

\* A frame with a prefix, and one without, are counted.
LEMMA CountPrefixed ==
  ASSUME count \in [DOMAIN Zero -> Nat], NEW S, "total" \in S, "no_meta" \notin S,
         "verified" \in S <=> "unparsed" \notin S
  PROVE  /\ Add(S) \in [DOMAIN Zero -> Nat]
         /\ Add(S).total = count.total + 1 /\ Add(S).no_meta = count.no_meta
         /\ Add(S).verified + Add(S).unparsed = count.verified + count.unparsed + 1
<1>1. /\ Add(S) \in [DOMAIN Zero -> Nat]
      /\ \A c \in DOMAIN Zero : Add(S)[c] = IF c \in S THEN count[c] + 1 ELSE count[c]
  BY CounterNames DEF Add
<1>2. \A c \in DOMAIN Zero : count[c] \in Nat
  OBVIOUS
<1> QED  BY <1>1, <1>2, CounterNames

LEMMA CountUnprefixed ==
  ASSUME count \in [DOMAIN Zero -> Nat], NEW new, new = Add(NoMeta)
  PROVE  /\ new \in [DOMAIN Zero -> Nat]
         /\ new.total = count.total + 1 /\ new.no_meta = count.no_meta + 1
         /\ new.verified = count.verified /\ new.unparsed = count.unparsed
         /\ new.mismatch = count.mismatch
BY CounterNames DEF Add, NoMeta

LEMMA FiniteUpTo ==
  ASSUME NEW n \in Nat
  PROVE  IsFiniteSet(1 .. n)
BY FS_Interval

\* A frame that joins the queue, and one that leaves it.
LEMMA PrefixesArrive ==
  ASSUME PrefixesFit, NEW q \in Entries, queue' = Append(queue, q),
         q.meta # {} => Cardinality(q.meta) = 1
  PROVE  /\ IsFiniteSet(Prefixes) /\ Cardinality(Prefixes) \in Nat
         /\ Cardinality(Prefixes') = Cardinality(Prefixes) + Cardinality(q.meta)
<1> DEFINE n == Len(queue) + 1
<1>1. /\ queue \in Seq(Entries) /\ Len(queue) \in Nat
      /\ DOMAIN queue = 1 .. Len(queue) /\ DOMAIN queue' = 1 .. n
      /\ queue'[n] = q /\ \A m \in 1 .. Len(queue) : queue'[m] = queue[m]
  BY DEF PrefixesFit
<1>2. IsFiniteSet(Prefixes) /\ n \notin Prefixes
  <2>1. IsFiniteSet(DOMAIN queue)
    BY <1>1, FiniteUpTo
  <2>2. Prefixes \in SUBSET (DOMAIN queue) /\ n \notin DOMAIN queue
    BY <1>1 DEF Prefixes
  <2> QED  BY <2>1, <2>2, FS_Subset
<1>3. Prefixes' = IF q.meta # {} THEN Prefixes \cup {n} ELSE Prefixes
  BY <1>1 DEF Prefixes
<1> HIDE DEF n
<1>4. Cardinality({}) = 0 /\ Cardinality(Prefixes) \in Nat
  BY <1>2, FS_EmptySet, FS_CardinalityType
<1>5. Cardinality(Prefixes \cup {n}) = Cardinality(Prefixes) + 1
  BY <1>2, FS_AddElement
<1>6. CASE q.meta = {}
  BY <1>2, <1>3, <1>4, <1>6
<1>7. CASE q.meta # {}
  BY <1>2, <1>3, <1>4, <1>5, <1>7
<1> QED  BY <1>6, <1>7

LEMMA PrefixesLeave ==
  ASSUME PrefixesFit, queue # << >>, queue' = Tail(queue)
  PROVE  /\ Cardinality(Prefixes) \in Nat /\ Cardinality(Prefixes') \in Nat
         /\ Head(queue).meta = {} => Cardinality(Prefixes') = Cardinality(Prefixes)
         /\ Head(queue).meta # {} => Cardinality(Prefixes') = Cardinality(Prefixes) - 1
<1>1. /\ queue \in Seq(Entries) /\ Len(queue) \in Nat \ {0}
      /\ DOMAIN queue = 1 .. Len(queue) /\ DOMAIN queue' = 1 .. Len(queue) - 1
      /\ Head(queue) = queue[1] /\ \A m \in 1 .. Len(queue) - 1 : queue'[m] = queue[m + 1]
  BY DEF PrefixesFit
<1>2. IsFiniteSet(Prefixes) /\ IsFiniteSet(Prefixes')
  <2>1. Len(queue) \in Nat /\ Len(queue) - 1 \in Nat
    BY <1>1
  <2>2. IsFiniteSet(DOMAIN queue) /\ IsFiniteSet(DOMAIN queue')
    BY <1>1, <2>1, FiniteUpTo
  <2>3. Prefixes \in SUBSET (DOMAIN queue) /\ Prefixes' \in SUBSET (DOMAIN queue')
    BY DEF Prefixes
  <2> QED  BY <2>2, <2>3, FS_Subset
<1> DEFINE shift == [m \in Prefixes' |-> m + 1]
<1>3. shift \in Bijection(Prefixes', Prefixes \ {1})
  <2>1. \A m \in Prefixes' : m \in 1 .. Len(queue) - 1 /\ m + 1 \in Prefixes \ {1}
    BY <1>1 DEF Prefixes
  <2>2. \A m \in Prefixes \ {1} : m - 1 \in Prefixes' /\ shift[m - 1] = m
    BY <1>1 DEF Prefixes
  <2>3. \A l, m \in Prefixes' : shift[l] = shift[m] => l = m
    BY <2>1
  <2>4. shift \in [Prefixes' -> Prefixes \ {1}]
    BY <2>1
  <2> HIDE DEF shift
  <2> QED  BY <2>2, <2>3, <2>4 DEF Bijection, Injection, Surjection, IsInjective
<1> HIDE DEF shift
<1>4. Cardinality(Prefixes') = Cardinality(Prefixes \ {1})
  BY <1>2, <1>3, FS_Bijection DEF ExistsBijection
<1>5. Cardinality(Prefixes \ {1}) = IF 1 \in Prefixes THEN Cardinality(Prefixes) - 1 ELSE Cardinality(Prefixes)
  BY <1>2, FS_RemoveElement
<1>6. 1 \in Prefixes <=> Head(queue).meta # {}
  BY <1>1 DEF Prefixes
<1> QED  BY <1>2, <1>4, <1>5, <1>6, FS_CardinalityType

LEMMA SumUntouched ==
  ASSUME SumInv, UNCHANGED <<queue, lookup, count, steered, lookalike, prefixed>>
  PROVE  SumInv'
BY DEF SumInv, SteeredAddUp, PrefixesAddUp, Prefixes

LEMMA ArriveKeepsSums ==
  ASSUME IInv, SumInv, NEW f \in Frames, Arrive(f)
  PROVE  SumInv'
<1>1. /\ UNCHANGED <<lookup, count, steered, lookalike>>
      /\ PrefixesFit /\ SteeredAddUp /\ PrefixesAddUp
  BY DEF Arrive, tally, IInv, SumInv
<1>2. SteeredAddUp' /\ lookup' \in [Tuples -> Backends]
  BY <1>1 DEF SumInv, SteeredAddUp
<1>3. CASE UNCHANGED <<queue, prefixed>>
  BY <1>1, <1>3, SumUntouched DEF SumInv
<1>4. ASSUME NEW meta, meta = {} \/ meta = {Meta(f)},
             queue' = Append(queue, [frame |-> f, meta |-> meta]),
             prefixed' = prefixed + Cardinality(meta)
      PROVE  PrefixesAddUp'
  <2> DEFINE q == [frame |-> f, meta |-> meta]
  <2>1. q \in Entries /\ q.meta = meta
    BY <1>4, MetaIsTuple DEF Entries
  <2>2. meta # {} => Cardinality(meta) = 1
    BY <1>4, FS_Singleton
  <2>3. Cardinality(meta) \in Nat
    <3>1. IsFiniteSet(meta)
      BY <1>4, FS_Singleton, FS_EmptySet
    <3> QED  BY <3>1, FS_CardinalityType
  <2> HIDE DEF q
  <2>4. /\ Cardinality(Prefixes) \in Nat
        /\ Cardinality(Prefixes') = Cardinality(Prefixes) + Cardinality(meta)
    BY <1>1, <1>4, <2>1, <2>2, PrefixesArrive DEF q
  <2>5. count.verified \in Nat /\ count.unparsed \in Nat
    BY <1>1, CounterNames DEF SteeredAddUp
  <2>6. PICK c \in Nat, d \in Nat : c = Cardinality(Prefixes) /\ d = Cardinality(meta)
    BY <2>3, <2>4
  <2>7. Cardinality(Prefixes') = c + d /\ prefixed' = prefixed + d
    BY <1>4, <2>4, <2>6
  <2>8. /\ prefixed \in Nat /\ lookalike \in Nat
        /\ count.verified + count.unparsed = prefixed - c + lookalike
    BY <1>1, <2>6 DEF PrefixesAddUp
  <2>9. count.verified + count.unparsed = prefixed' - (c + d) + lookalike /\ prefixed' \in Nat
    BY <2>5, <2>6, <2>7, <2>8
  <2> QED  BY <1>1, <2>7, <2>8, <2>9 DEF PrefixesAddUp
<1>5. PICK headroom \in BOOLEAN :
        \/ /\ queue' = Append(queue, [frame |-> f, meta |-> Delivered(f, headroom)])
           /\ prefixed' = prefixed + Cardinality(Delivered(f, headroom))
        \/ UNCHANGED <<queue, prefixed>>
  BY DEF Arrive
<1>6. Delivered(f, headroom) = {} \/ Delivered(f, headroom) = {Meta(f)}
  BY DEF Delivered
<1> QED  BY <1>2, <1>3, <1>4, <1>5, <1>6 DEF SumInv

LEMMA PrefixedIsCounted ==
  ASSUME SteeredAddUp, NEW b \in Backends, NEW check \in Verdicts, NEW failed \in SUBSET {"rewrite_fail"},
         count' = Add({"total"} \cup check \cup failed),
         steered' = [steered EXCEPT ![b] = steered[b] + 1]
  PROVE  /\ SteeredAddUp'
         /\ count'.verified + count'.unparsed = count.verified + count.unparsed + 1
<1>1. /\ count \in [DOMAIN Zero -> Nat] /\ steered \in [Backends -> Nat]
      /\ count.total = count.no_meta + count.verified + count.unparsed
      /\ Total(steered) = count.verified + count.unparsed
  BY DEF SteeredAddUp
<1>2. /\ count' \in [DOMAIN Zero -> Nat]
      /\ count'.total = count.total + 1 /\ count'.no_meta = count.no_meta
      /\ count'.verified + count'.unparsed = count.verified + count.unparsed + 1
  <2> DEFINE S == {"total"} \cup check \cup failed
  <2>1. "total" \in S /\ "no_meta" \notin S /\ ("verified" \in S <=> "unparsed" \notin S)
    BY DEF Verdicts
  <2>2. count' = Add(S)
    OBVIOUS
  <2> HIDE DEF S
  <2> QED  BY <1>1, <2>1, <2>2, CountPrefixed
<1>3. steered' \in [Backends -> Nat] /\ Total(steered') = Total(steered) + 1
  <2>1. /\ steered' \in [Backends -> Nat] /\ steered'[b] = steered[b] + 1
        /\ \A c \in Backends \ {b} : steered'[c] = steered[c]
    BY <1>1
  <2>2. IsFiniteSet(Backends)
    BY ReceiverAssumption
  <2>3. Total(steered') = Total(steered) + 1
    BY <1>1, <2>1, <2>2, OneMoreInTotal
  <2> QED  BY <2>1, <2>3
<1>4. /\ count.verified \in Nat /\ count.unparsed \in Nat /\ count.no_meta \in Nat
      /\ count'.verified \in Nat /\ count'.unparsed \in Nat
  BY <1>1, <1>2, CounterNames
<1>5. SteeredAddUp'
  <2>1. count'.total = count'.no_meta + count'.verified + count'.unparsed
    BY <1>1, <1>2, <1>4
  <2>2. Total(steered') = count'.verified + count'.unparsed
    BY <1>1, <1>2, <1>3
  <2> QED  BY <1>2, <1>3, <2>1, <2>2 DEF SteeredAddUp
<1> QED  BY <1>2, <1>5

LEMMA UnprefixedIsCounted ==
  ASSUME SteeredAddUp, count' = Add(NoMeta), UNCHANGED steered
  PROVE  /\ SteeredAddUp'
         /\ count'.verified + count'.unparsed = count.verified + count.unparsed
<1>1. /\ count \in [DOMAIN Zero -> Nat] /\ steered \in [Backends -> Nat]
      /\ count.total = count.no_meta + count.verified + count.unparsed
      /\ Total(steered) = count.verified + count.unparsed
  BY DEF SteeredAddUp
<1>2. /\ count' \in [DOMAIN Zero -> Nat]
      /\ count'.total = count.total + 1 /\ count'.no_meta = count.no_meta + 1
      /\ count'.verified = count.verified /\ count'.unparsed = count.unparsed
  BY <1>1, CountUnprefixed
<1>3. count.verified \in Nat /\ count.unparsed \in Nat /\ count.no_meta \in Nat
  BY <1>1, CounterNames
<1>4. SteeredAddUp'
  <2>1. count'.total = count'.no_meta + count'.verified + count'.unparsed
    BY <1>1, <1>2, <1>3
  <2> QED  BY <1>1, <1>2, <2>1 DEF SteeredAddUp
<1> QED  BY <1>2, <1>4

LEMMA HandleKeepsSums ==
  ASSUME IInv, SumInv, Handle
  PROVE  SumInv'
<1> DEFINE q == Head(queue)
<1>1. /\ PrefixesFit /\ SteeredAddUp /\ PrefixesAddUp
      /\ count \in [DOMAIN Zero -> Nat] /\ steered \in [Backends -> Nat]
      /\ lookup \in [Tuples -> Backends] /\ queue # << >>
      /\ count.verified \in Nat /\ count.unparsed \in Nat /\ count.total \in Nat /\ count.no_meta \in Nat
      /\ Cardinality(Prefixes) \in Nat /\ prefixed \in Nat /\ lookalike \in Nat
  <2>1. PrefixesFit /\ SteeredAddUp /\ PrefixesAddUp /\ lookup \in [Tuples -> Backends] /\ queue # << >>
    BY DEF IInv, SumInv, Handle
  <2>2. Cardinality(Prefixes) \in Nat
    <3>1. queue' = Tail(queue)
      BY DEF Handle, CountNoMeta, Steer, SteerLookalike, Took
    <3> QED  BY <2>1, <3>1, PrefixesLeave
  <2> QED  BY <2>1, <2>2, CounterNames DEF SteeredAddUp, PrefixesAddUp
<1>2. ASSUME Took(q)
      PROVE  /\ Cardinality(Prefixes') \in Nat
             /\ q.meta = {} => Cardinality(Prefixes') = Cardinality(Prefixes)
             /\ q.meta # {} => Cardinality(Prefixes') = Cardinality(Prefixes) - 1
             /\ UNCHANGED <<lookup, prefixed>>
  BY <1>1, <1>2, PrefixesLeave DEF Took, traffic
<1> HIDE DEF q
<1>3. CASE CountNoMeta(q)
  <2>1. Took(q) /\ q.meta = {} /\ count' = Add(NoMeta) /\ UNCHANGED <<steered, lookalike>>
    BY <1>3 DEF CountNoMeta, LooksPrefixed
  <2>2. SteeredAddUp' /\ count'.verified + count'.unparsed = count.verified + count.unparsed
    BY <1>1, <2>1, UnprefixedIsCounted
  <2>3. PrefixesAddUp' /\ UNCHANGED lookup
    BY <1>1, <1>2, <2>1, <2>2 DEF PrefixesAddUp
  <2> QED  BY <1>1, <2>2, <2>3 DEF SumInv
<1>4. CASE Steer(q)
  <2>1. PICK hw \in q.meta :
          /\ Took(q)
          /\ count' = Add({"total"} \cup CrossCheck(hw, q.frame) \cup Rewrite(hw, q.frame))
          /\ steered' = [steered EXCEPT ![lookup[hw]] = steered[lookup[hw]] + 1]
          /\ UNCHANGED lookalike
    BY <1>4 DEF Steer
  <2>2. /\ lookup[hw] \in Backends
        /\ CrossCheck(hw, q.frame) \in Verdicts
        /\ Rewrite(hw, q.frame) \in SUBSET {"rewrite_fail"}
    <3>1. hw \in Tuples
      BY <1>1, <2>1, TookHead DEF Entries, q
    <3> QED  BY <1>1, <3>1, OneVerdict DEF Rewrite
  <2>3. SteeredAddUp' /\ count'.verified + count'.unparsed = count.verified + count.unparsed + 1
    BY <1>1, <2>1, <2>2, PrefixedIsCounted
  <2>4. PrefixesAddUp' /\ UNCHANGED lookup
    <3>1. /\ Cardinality(Prefixes) \in Nat /\ Cardinality(Prefixes') \in Nat
          /\ Cardinality(Prefixes') = Cardinality(Prefixes) - 1
          /\ prefixed' = prefixed /\ lookalike' = lookalike /\ lookup' = lookup
      BY <1>1, <1>2, <2>1
    <3>2. /\ count.verified + count.unparsed = prefixed - Cardinality(Prefixes) + lookalike
          /\ prefixed \in Nat /\ lookalike \in Nat
      BY <1>1 DEF PrefixesAddUp
    <3> QED  BY <2>3, <3>1, <3>2 DEF PrefixesAddUp
  <2> QED  BY <1>1, <2>3, <2>4 DEF SumInv
<1>5. CASE SteerLookalike(q)
  <2>1. /\ Took(q) /\ q.meta = {} /\ lookalike' = lookalike + 1
        /\ \E check \in Verdicts, failed \in SUBSET {"rewrite_fail"} :
             count' = Add({"total"} \cup check \cup failed)
        /\ \E b \in Backends : steered' = [steered EXCEPT ![b] = steered[b] + 1]
    BY <1>5 DEF SteerLookalike, Verdicts
  <2>2. SteeredAddUp' /\ count'.verified + count'.unparsed = count.verified + count.unparsed + 1
    BY <1>1, <2>1, PrefixedIsCounted
  <2>3. PrefixesAddUp' /\ UNCHANGED lookup
    BY <1>1, <1>2, <2>1, <2>2 DEF PrefixesAddUp
  <2> QED  BY <1>1, <2>2, <2>3 DEF SumInv
<1> QED  BY <1>3, <1>4, <1>5 DEF Handle, q

LEMMA SumsAtStart ==
  ASSUME Init
  PROVE  SumInv
<1>1. /\ steered \in [Backends -> Nat] /\ \A b \in Backends : steered[b] = 0
      /\ Cardinality({}) = 0
  BY FS_EmptySet DEF Init
<1>2. Total(steered) = 0
  BY <1>1, TotalZero, ReceiverAssumption
<1>3. count = Zero /\ Zero \in [DOMAIN Zero -> Nat] /\ Zero.total = 0 /\ Zero.no_meta = 0
      /\ Zero.verified = 0 /\ Zero.unparsed = 0
  BY DEF Init, Zero
<1>4. Prefixes = {} /\ lookalike = 0 /\ prefixed = 0
  BY DEF Init, Prefixes
<1>5. lookup \in [Tuples -> Backends]
  BY ReceiverAssumption DEF Init
<1> QED  BY <1>1, <1>2, <1>3, <1>4, <1>5 DEF SumInv, SteeredAddUp, PrefixesAddUp

LEMMA SumsHold == Spec => []SumInv
<1>1. Init => SumInv
  BY SumsAtStart
<1>2. ASSUME IInv, SumInv, [Next]_vars
      PROVE  SumInv'
  <2>1. ASSUME NEW program \in {"none", "pass", "prefix"}, Attach(program)
        PROVE  SumInv'
    BY <1>2, <2>1, SumUntouched DEF Attach, tally, traffic
  <2>2. ASSUME NEW f \in Frames, Arrive(f)
        PROVE  SumInv'
    BY <1>2, <2>2, ArriveKeepsSums
  <2>3. CASE Interrupt \/ Check \/ NextTimesOut \/ NextFails \/ UNCHANGED vars
    BY <1>2, <2>3, SumUntouched DEF Interrupt, Check, NextTimesOut, NextFails, tally, traffic, vars
  <2>4. CASE Handle
    BY <1>2, <2>4, HandleKeepsSums
  <2> QED  BY <1>2, <2>1, <2>2, <2>3, <2>4 DEF Next, Loop
<1> QED  BY <1>1, <1>2, InductiveInvariant, PTL DEF Spec

(***************************************************************************)
(* The counters receiver.rs prints when it ends account for every frame    *)
(* the socket handed out, with one backend for each frame it steered.      *)
(***************************************************************************)
THEOREM TheSummaryAddsUp == Spec => []SummaryAddsUp
<1>1. SumInv => SummaryAddsUp
  <2> SUFFICES ASSUME SteeredAddUp, PrefixesAddUp PROVE SummaryAddsUp
    BY DEF SumInv
  <2>1. QueuedPrefixes = Cardinality(Prefixes) /\ FoldFunction(+, 0, steered) = Total(steered)
    BY FoldIsTotal DEF QueuedPrefixes, Prefixes
  <2>2. /\ count.total = count.no_meta + count.verified + count.unparsed
        /\ count.no_meta \in Nat /\ count.verified \in Nat /\ count.unparsed \in Nat
        /\ Total(steered) = count.verified + count.unparsed
        /\ count.verified + count.unparsed = prefixed - Cardinality(Prefixes) + lookalike
    BY CounterNames DEF SteeredAddUp, PrefixesAddUp
  <2>3. count.total - count.no_meta = count.verified + count.unparsed
    BY <2>2
  <2> QED  BY <2>1, <2>2, <2>3 DEF SummaryAddsUp
<1> QED  BY <1>1, SumsHold, PTL
-----------------------------------------------------------------------------
(***************************************************************************)
(* The dashboard.  What it holds at any moment is consistent (Holdings),   *)
(* so that a screen drawn of it is, and stays so until the next one.       *)
(***************************************************************************)
Protocols == {f.proto : f \in Frames}

\* What is kept of the last frame.
FrameKept(k) ==
  /\ k.frame \in Frames /\ k.hw \in Tuples /\ k.backend \in Backends
  /\ steered[k.backend] > 0
  /\ k.sw = IF Parses(k.frame) THEN {FromFrame(k.frame)} ELSE {}
  /\ k.layout = {Shifted(l) : l \in LayoutOf(k.frame)}

MixAddsUp ==
  /\ proto \in [Protocols -> Nat]
  /\ Total(proto) = count.verified + count.unparsed

Holdings ==
  /\ PrefixesFit /\ SteeredAddUp /\ MixAddsUp
  /\ lookup \in [Tuples -> Backends]
  /\ \A j, k \in last : j = k
  /\ \A k \in last : FrameKept(k)

\* ScreenIsConsistent, of any screen.
Consistent(s) ==
  LET prefixes == s.count.total - s.count.no_meta
  IN  /\ prefixes = s.count.verified + s.count.unparsed
      /\ Total(s.bars) = prefixes /\ Total(s.mix) = prefixes
      /\ s.warning <=> 2 * s.count.no_meta > s.count.total
      /\ \A b \in s.bold : s.bars[b] > 0
      /\ \A f \in s.frame, hw \in s.prefix, row \in s.rows :
           SayWhatCompares({row[c] : c \in Columns}, f, hw)

\* Two five-tuples that agree in every column are the same.
LEMMA ColumnsTell ==
  ASSUME NEW f, NEW hw \in Tuples, \A c \in Columns : FromFrame(f)[c] = hw[c]
  PROVE  FromFrame(f) = hw
<1>1. PICK g, ports : hw = Tuple(g, ports)
  BY DEF Tuples
<1> QED  BY <1>1 DEF FromFrame, Tuple, Columns

\* What the rows say of a frame and its prefix.
LEMMA RowsOfFrame ==
  ASSUME NEW k, k.hw \in Tuples, k.sw = IF Parses(k.frame) THEN {FromFrame(k.frame)} ELSE {},
         NEW verdicts, verdicts = {Row(k, c) : c \in Columns}
  PROVE  SayWhatCompares(verdicts, k.frame, k.hw)
<1>1. CASE Parses(k.frame)
  <2>1. k.sw = {FromFrame(k.frame)}
    BY <1>1
  <2>2. \A c : Row(k, c) = IF FromFrame(k.frame)[c] = k.hw[c] THEN "match" ELSE "MISMATCH"
    BY <2>1 DEF Row
  <2>3. FromFrame(k.frame) # k.hw => \E c \in Columns : FromFrame(k.frame)[c] # k.hw[c]
    BY ColumnsTell
  <2> QED  BY <1>1, <2>2, <2>3 DEF SayWhatCompares
<1>2. CASE ~Parses(k.frame)
  <2>1. \A c : Row(k, c) = "n/a"
    BY <1>2 DEF Row
  <2>2. "proto" \in Columns
    BY DEF Columns
  <2> QED  BY <1>2, <2>1, <2>2 DEF SayWhatCompares
<1> QED  BY <1>1, <1>2

LEMMA DrawnScreen ==
  ASSUME Holdings
  PROVE  Consistent(Render)
<1>1. /\ Render.count = count /\ Render.bars = steered /\ Render.mix = proto
      /\ Render.warning = (count.total > 0 /\ count.no_meta > count.total \div 2)
      /\ Render.frame = {k.frame : k \in last} /\ Render.prefix = {k.hw : k \in last}
      /\ Render.bold = {k.backend : k \in last}
      /\ Render.rows = {[c \in Columns |-> Row(k, c)] : k \in last}
  BY DEF Render
<1>2. /\ count.total \in Nat /\ count.no_meta \in Nat
      /\ count.verified \in Nat /\ count.unparsed \in Nat
      /\ count.total = count.no_meta + count.verified + count.unparsed
      /\ Total(steered) = count.verified + count.unparsed
      /\ Total(proto) = count.verified + count.unparsed
  BY CounterNames DEF Holdings, SteeredAddUp, MixAddsUp
<1>3. (count.total > 0 /\ count.no_meta > count.total \div 2) <=> 2 * count.no_meta > count.total
  BY <1>2
<1>4. \A b \in {k.backend : k \in last} : steered[b] > 0
  BY DEF Holdings, FrameKept
<1>5. ASSUME NEW f \in {k.frame : k \in last}, NEW hw \in {k.hw : k \in last},
             NEW row \in {[c \in Columns |-> Row(k, c)] : k \in last}
      PROVE  SayWhatCompares({row[c] : c \in Columns}, f, hw)
  <2>1. PICK k \in last : f = k.frame /\ hw = k.hw /\ row = [c \in Columns |-> Row(k, c)]
    BY DEF Holdings
  <2>2. k.hw \in Tuples /\ k.sw = IF Parses(k.frame) THEN {FromFrame(k.frame)} ELSE {}
    BY DEF Holdings, FrameKept
  <2>3. {row[c] : c \in Columns} = {Row(k, c) : c \in Columns}
    BY <2>1
  <2> QED  BY <2>1, <2>2, <2>3, RowsOfFrame
<1>6. count.total - count.no_meta = count.verified + count.unparsed
  BY <1>2
<1> QED  BY <1>1, <1>2, <1>3, <1>4, <1>5, <1>6 DEF Consistent

LEMMA HoldingsUntouched ==
  ASSUME Holdings, UNCHANGED <<lookup, count, steered, proto, last>>, PrefixesFit'
  PROVE  Holdings'
BY DEF Holdings, SteeredAddUp, MixAddsUp, FrameKept, Shifted, LayoutOf, L4Size

\* The prefix and the frame that process() sees.
LEMMA SplitType ==
  ASSUME PrefixesFit, queue # << >>, NEW s \in Split(Head(queue))
  PROVE  s[1] \in Tuples /\ s[2] \in Frames
<1>1. Head(queue) \in Entries
  BY DEF PrefixesFit
<1> QED  BY <1>1 DEF Split, Entries

LEMMA TupleProtocol ==
  ASSUME NEW t \in Tuples
  PROVE  t.proto \in Protocols
BY DEF Tuples, Tuple, Protocols

LEMMA ProtocolsFinite == IsFiniteSet(Protocols)
<1> DEFINE g == [f \in Frames |-> f.proto]
<1>1. g \in Surjection(Frames, Protocols)
  BY DEF Protocols, Surjection
<1> HIDE DEF g
<1> QED  BY <1>1, ReceiverAssumption, FS_Surjection

LEMMA OneMoreInMix ==
  ASSUME MixAddsUp, NEW p \in Protocols, proto' = [proto EXCEPT ![p] = proto[p] + 1],
         SteeredAddUp, count'.verified + count'.unparsed = count.verified + count.unparsed + 1
  PROVE  MixAddsUp'
<1>1. IsFiniteSet(Protocols)
  BY ProtocolsFinite
<1>2. /\ proto \in [Protocols -> Nat] /\ Total(proto) = count.verified + count.unparsed
      /\ proto' \in [Protocols -> Nat] /\ proto'[p] = proto[p] + 1
      /\ \A r \in Protocols \ {p} : proto'[r] = proto[r]
  BY DEF MixAddsUp
<1>3. Total(proto') = Total(proto) + 1
  BY <1>1, <1>2, OneMoreInTotal
<1> QED  BY <1>2, <1>3 DEF MixAddsUp

LEMMA ProcessKeeps ==
  ASSUME Holdings, queue # << >>, Process(Head(queue))
  PROVE  Holdings'
<1> DEFINE q == Head(queue)
<1>1. PICK s \in Split(q) :
        /\ Took(q)
        /\ count' = Add({"total"} \cup CrossCheck(s[1], s[2]))
        /\ steered' = [steered EXCEPT ![lookup[s[1]]] = steered[lookup[s[1]]] + 1]
        /\ proto' = [proto EXCEPT ![s[1].proto] = proto[s[1].proto] + 1]
        /\ last' = {Kept(s[1], s[2])}
  BY DEF Process
<1> DEFINE hw == s[1]
           f  == s[2]
           b  == lookup[s[1]]
<1>2. PrefixesFit' /\ UNCHANGED lookup
  BY <1>1, TookHead DEF Holdings
<1>3. hw \in Tuples /\ f \in Frames /\ hw.proto \in Protocols /\ b \in Backends
  BY <1>1, SplitType, TupleProtocol DEF Holdings
<1> HIDE DEF hw, f, b, q
<1>4. /\ SteeredAddUp /\ MixAddsUp
      /\ count \in [DOMAIN Zero -> Nat] /\ steered \in [Backends -> Nat]
      /\ proto \in [Protocols -> Nat] /\ lookup \in [Tuples -> Backends]
  BY DEF Holdings, SteeredAddUp, MixAddsUp
<1>5. SteeredAddUp' /\ count'.verified + count'.unparsed = count.verified + count.unparsed + 1
  <2>1. CrossCheck(hw, f) \in Verdicts /\ {} \in SUBSET {"rewrite_fail"}
        /\ {"total"} \cup CrossCheck(hw, f) = {"total"} \cup CrossCheck(hw, f) \cup {}
    BY OneVerdict
  <2>2. count' = Add({"total"} \cup CrossCheck(hw, f) \cup {})
    BY <1>1, <2>1 DEF hw, f
  <2>3. steered' = [steered EXCEPT ![b] = steered[b] + 1]
    BY <1>1 DEF b
  <2> QED  BY <1>3, <1>4, <2>1, <2>2, <2>3, PrefixedIsCounted
<1>6. MixAddsUp'
  <2>1. proto' = [proto EXCEPT ![hw.proto] = proto[hw.proto] + 1]
    BY <1>1 DEF hw
  <2> QED  BY <1>3, <1>4, <1>5, <2>1, OneMoreInMix
<1>7. PICK k : k = Kept(hw, f)
  OBVIOUS
<1>8. /\ k.frame = f /\ k.hw = hw /\ k.backend = b
      /\ k.sw = IF Parses(f) THEN {FromFrame(f)} ELSE {}
      /\ k.layout = {Shifted(l) : l \in LayoutOf(f)}
  BY <1>7 DEF Kept, b, hw
<1>9. last' = {k}
  BY <1>1, <1>7 DEF hw, f
<1>10. FrameKept(k)'
  <2>1. steered'[b] > 0
    <3>1. steered'[b] = steered[b] + 1 /\ steered[b] \in Nat
      BY <1>1, <1>3, <1>4 DEF b
    <3> QED  BY <3>1
  <2>3. /\ k.frame \in Frames /\ k.hw \in Tuples /\ k.backend \in Backends
        /\ steered'[k.backend] > 0
        /\ k.sw = IF Parses(k.frame) THEN {FromFrame(k.frame)} ELSE {}
    BY <1>3, <1>8, <2>1
  <2> QED  BY <1>8, <2>3 DEF FrameKept, Shifted, LayoutOf, L4Size
<1>11. lookup' \in [Tuples -> Backends]
  BY <1>2, <1>4
<1> QED  BY <1>2, <1>5, <1>6, <1>9, <1>10, <1>11 DEF Holdings

LEMMA HandleFrameKeeps ==
  ASSUME Holdings, HandleFrame
  PROVE  Holdings'
<1>1. Holdings /\ PrefixesFit /\ SteeredAddUp /\ MixAddsUp /\ queue # << >>
  BY DEF Holdings, HandleFrame
<1>2. CASE CountNoMeta(Head(queue)) /\ UNCHANGED panels
  <2>1. /\ Took(Head(queue)) /\ count' = Add(NoMeta) /\ UNCHANGED <<steered, proto, last>>
    BY <1>2 DEF CountNoMeta, panels
  <2>2. PrefixesFit' /\ UNCHANGED lookup
    BY <1>1, <2>1, TookHead
  <2>3. SteeredAddUp' /\ count'.verified + count'.unparsed = count.verified + count.unparsed
    BY <1>1, <2>1, UnprefixedIsCounted
  <2>4. MixAddsUp'
    BY <1>1, <2>1, <2>3 DEF MixAddsUp
  <2>5. ASSUME NEW k \in last PROVE FrameKept(k)'
    <3>1. FrameKept(k)
      BY DEF Holdings
    <3> QED  BY <2>1, <3>1 DEF FrameKept, Shifted, LayoutOf, L4Size
  <2> QED  BY <2>1, <2>2, <2>3, <2>4, <2>5 DEF Holdings
<1>3. CASE Process(Head(queue))
  BY <1>1, <1>3, ProcessKeeps
<1> QED  BY <1>2, <1>3 DEF HandleFrame

LEMMA DashInductive == DashSpec => [](Holdings /\ Consistent(screen))
<1>1. DashInit => Holdings /\ Consistent(screen)
  <2> SUFFICES ASSUME DashInit PROVE Holdings /\ screen = Render
    BY DrawnScreen
  <2>1. Init /\ screen = Render /\ last = {}
    BY DEF DashInit
  <2>2. SumInv /\ PrefixesFit
    BY <2>1, SumsAtStart, FitAtStart
  <2>3. /\ proto \in [Protocols -> Nat] /\ \A p \in Protocols : proto[p] = 0
        /\ count.verified = 0 /\ count.unparsed = 0
    BY DEF DashInit, Init, Zero, Protocols
  <2>4. Total(proto) = 0
    BY <2>3, TotalZero, ProtocolsFinite
  <2> QED  BY <2>1, <2>2, <2>3, <2>4 DEF Holdings, SumInv, MixAddsUp
<1>2. ASSUME Holdings, Consistent(screen), [DashNext]_dashVars
      PROVE  Holdings' /\ Consistent(screen)'
  <2>1. PrefixesFit
    BY <1>2 DEF Holdings
  <2>2. CASE \/ Tick \/ Draw \/ Pass \/ TimesOut \/ Interrupted \/ DrawFails
             \/ UNCHANGED dashVars
    <3>1. UNCHANGED <<queue, lookup, count, steered, proto, last>>
      BY <2>2 DEF Tick, Draw, Pass, TimesOut, Interrupted, DrawFails, dashVars,
                  Check, NextTimesOut, vars, tally, traffic, panels
    <3>2. PrefixesFit'
      BY <2>1, <3>1 DEF PrefixesFit
    <3>3. screen' = Render \/ screen' = screen
      BY <2>2 DEF Tick, Draw, Pass, TimesOut, Interrupted, DrawFails, dashVars
    <3>4. PICK s : s = screen' /\ Consistent(s)
      BY <1>2, <3>3, DrawnScreen
    <3>5. Consistent(screen)'
      BY <3>4 DEF Consistent
    <3> QED  BY <1>2, <3>1, <3>2, <3>5, HoldingsUntouched
  <2>3. CASE HandleFrame
    BY <1>2, <2>3, HandleFrameKeeps DEF HandleFrame, Consistent
  <2>4. CASE Environment
    <3>1. UNCHANGED <<lookup, count, steered, proto, last, screen>>
      BY <2>4 DEF Environment, Attach, Arrive, Interrupt, NextFails, tally, panels
    <3>2. PrefixesFit'
      <4>1. ASSUME NEW f \in Frames, Arrive(f) PROVE PrefixesFit'
        BY <2>1, <4>1, ArriveFits
      <4>2. CASE Attach("prefix") \/ Interrupt \/ NextFails
        BY <2>1, <4>2 DEF Attach, Interrupt, NextFails, PrefixesFit
      <4> QED  BY <2>4, <4>1, <4>2 DEF Environment
    <3> QED  BY <1>2, <3>1, <3>2, HoldingsUntouched DEF Consistent
  <2> QED  BY <1>2, <2>2, <2>3, <2>4 DEF DashNext, MainLoop
<1> QED  BY <1>1, <1>2, PTL DEF DashSpec, dashVars

(***************************************************************************)
(* Every screen the dashboard draws, and the one it leaves standing while  *)
(* it waits for a frame, is of one moment and of one frame.                *)
(***************************************************************************)
THEOREM ScreensAreConsistent == DashSpec => []ScreenIsConsistent
<1>1. Consistent(screen) => ScreenIsConsistent
  BY FoldIsTotal DEF Consistent, ScreenIsConsistent
<1> QED  BY <1>1, DashInductive, PTL
(***************************************************************************)
(* What the rows will say of a frame is what process() counted it as, for  *)
(* every frame and every prefix, the wrong ones included.                  *)
(***************************************************************************)
THEOREM RowsAgreeWithCounters == DashSpec => RowsAsCounted
<1>1. ASSUME Holdings, [DashNext]_dashVars, steered' # steered, NEW k \in last',
             NEW verdicts, verdicts = {Row(k, c) : c \in Columns}
      PROVE  /\ "MISMATCH" \in verdicts <=> count'.mismatch = count.mismatch + 1
             /\ "n/a" \in verdicts <=> count'.unparsed = count.unparsed + 1
  <2>1. queue # << >> /\ Process(Head(queue))
    BY <1>1 DEF DashNext, MainLoop, Tick, Draw, Pass, TimesOut, Interrupted, DrawFails, dashVars,
                Environment, Attach, Arrive, Interrupt, NextFails, Check, NextTimesOut,
                HandleFrame, CountNoMeta, vars, tally
  <2>2. PICK s \in Split(Head(queue)) :
          /\ count' = Add({"total"} \cup CrossCheck(s[1], s[2]))
          /\ last' = {Kept(s[1], s[2])}
    BY <2>1 DEF Process
  <2>3. s[1] \in Tuples /\ count \in [DOMAIN Zero -> Nat]
    BY <1>1, <2>1, SplitType DEF Holdings, SteeredAddUp
  <2>4. /\ k.frame = s[2] /\ k.hw = s[1]
        /\ k.sw = IF Parses(s[2]) THEN {FromFrame(s[2])} ELSE {}
    BY <1>1, <2>2 DEF Kept
  <2>5. /\ ~Parses(s[2]) => verdicts = {"n/a"}
        /\ Parses(s[2]) => "n/a" \notin verdicts
        /\ Parses(s[2]) => ("MISMATCH" \in verdicts <=> FromFrame(s[2]) # s[1])
    BY <1>1, <2>3, <2>4, RowsOfFrame DEF SayWhatCompares
  <2> DEFINE S == {"total"} \cup CrossCheck(s[1], s[2])
  <2>6. /\ "unparsed" \in S <=> ~Parses(s[2])
        /\ "mismatch" \in S <=> Parses(s[2]) /\ FromFrame(s[2]) # s[1]
    BY DEF CrossCheck
  <2>7. count' = Add(S)
    BY <2>2
  <2> HIDE DEF S
  <2>8. /\ count'.mismatch = IF "mismatch" \in S THEN count.mismatch + 1 ELSE count.mismatch
        /\ count'.unparsed = IF "unparsed" \in S THEN count.unparsed + 1 ELSE count.unparsed
        /\ count.mismatch \in Nat /\ count.unparsed \in Nat
    BY <2>3, <2>7, AddType
  <2> QED  BY <2>5, <2>6, <2>8
<1>2. ASSUME Holdings, [DashNext]_dashVars
      PROVE  [steered' # steered =>
                \A k \in last' :
                  LET verdicts == {Row(k, c) : c \in Columns}
                  IN  /\ "MISMATCH" \in verdicts <=> count'.mismatch = count.mismatch + 1
                      /\ "n/a" \in verdicts <=> count'.unparsed = count.unparsed + 1]_dashVars
  BY <1>1, <1>2
<1> QED  BY <1>2, DashInductive, PTL DEF DashSpec, RowsAsCounted, dashVars
-----------------------------------------------------------------------------
LEMMA MaxMinOfTwo ==
  ASSUME NEW a \in Int, NEW b \in Int
  PROVE  /\ Max({a, b}) = IF a >= b THEN a ELSE b
         /\ Min({a, b}) = IF a <= b THEN a ELSE b
BY DEF Max, Min

\* Where the headers of a frame end, and where its datagram does.
HeadersEnd(f) == EthSize + 4 * f.ihl + (IF f.proto = "tcp" THEN 4 * f.doff ELSE 8)
DataEnd(f) == IF f.tot <= f.len THEN EthSize + f.tot ELSE EthSize + f.len

\* The layout of a frame the XDP program accepts.  A segment cut before its
\* data offset has no payload, whatever Layout::of puts in its place.
LEMMA LayoutOfEligible ==
  ASSUME NEW f \in Frames, Eligible(f), f.proto = "tcp" => f.doff >= 5
  PROVE  /\ f.len \in Nat /\ f.ihl \in Nat /\ f.tot \in Nat /\ f.doff \in Nat
         /\ LayoutOf(f) = {[l3 |-> EthSize, l4 |-> EthSize + 4 * f.ihl,
                            l4_end |-> IF HeadersEnd(f) <= DataEnd(f) THEN HeadersEnd(f) ELSE DataEnd(f),
                            ip_end |-> DataEnd(f)]}
<1> DEFINE whole == EthSize + f.len
           l4    == EthSize + 4 * f.ihl
           size  == L4Size(f, whole)
           stop  == Min({EthSize + f.tot, whole})
<1>1. /\ f.len \in Nat /\ f.ihl \in Nat /\ f.tot \in Nat /\ f.doff \in Nat
      /\ f.ether = "ip" /\ f.len >= 20 /\ (f.proto = "tcp" \/ f.proto = "udp")
  BY DashboardAssumption DEF Eligible, L4
<1>2. stop = DataEnd(f)
  <2>1. PICK tail \in Int : tail = EthSize + f.tot
    BY <1>1 DEF EthSize
  <2>2. PICK all \in Int : all = whole
    BY <1>1 DEF EthSize
  <2>3. stop = IF tail <= all THEN tail ELSE all
    BY <2>1, <2>2, MaxMinOfTwo
  <2> HIDE DEF stop
  <2> QED  BY <1>1, <2>1, <2>2, <2>3 DEF DataEnd, EthSize
<1>3. /\ size \in Nat
      /\ \/ l4 + size = HeadersEnd(f)
         \/ l4 + size >= DataEnd(f) /\ HeadersEnd(f) >= DataEnd(f)
  <2>1. CASE f.proto = "udp"
    BY <1>1, <2>1 DEF L4Size, HeadersEnd, EthSize
  <2>2. CASE f.proto = "tcp" /\ l4 + 12 < whole
    <3>1. size = Max({4 * f.doff, 20})
      BY <2>2 DEF L4Size
    <3>2. size = 4 * f.doff
      BY <1>1, <2>2, <3>1, MaxMinOfTwo
    <3> HIDE DEF size
    <3> QED  BY <1>1, <2>2, <3>2 DEF HeadersEnd, EthSize
  <2>3. CASE f.proto = "tcp" /\ ~(l4 + 12 < whole)
    <3>1. size = 20
      BY <2>3 DEF L4Size
    <3> HIDE DEF size
    <3> QED  BY <1>1, <2>3, <3>1 DEF HeadersEnd, DataEnd, EthSize
  <2> QED  BY <1>1, <2>1, <2>2, <2>3
<1>4. HeadersEnd(f) \in Int /\ DataEnd(f) \in Int /\ l4 \in Int
  BY <1>1 DEF HeadersEnd, DataEnd, EthSize
<1>5. LayoutOf(f) = {[l3 |-> EthSize, l4 |-> l4, l4_end |-> Min({l4 + size, stop}), ip_end |-> stop]}
  BY <1>1 DEF LayoutOf
<1> HIDE DEF size, stop, l4
<1>6. Min({l4 + size, stop}) = IF HeadersEnd(f) <= DataEnd(f) THEN HeadersEnd(f) ELSE DataEnd(f)
  <2>1. PICK claimed \in Int : claimed = l4 + size
    BY <1>3, <1>4
  <2>2. PICK end \in Int : end = stop
    BY <1>2, <1>4
  <2>3. Min({claimed, end}) = IF claimed <= end THEN claimed ELSE end
    BY MaxMinOfTwo
  <2>4. Min({l4 + size, stop}) = Min({claimed, end})
    BY <2>1, <2>2
  <2> QED  BY <1>2, <1>3, <1>4, <2>1, <2>2, <2>3, <2>4
<1> QED  BY <1>1, <1>2, <1>5, <1>6 DEF l4

\* ColorAt, without the CASE.
LEMMA ColorOfLayout ==
  ASSUME NEW k, NEW l, k.layout = {l}, NEW o \in Int,
         l.l3 \in Int, l.l4 \in Int, l.l4_end \in Int, l.ip_end \in Int,
         l.l3 <= l.l4
  PROVE  ColorAt(k, o) = IF o < MetaSize THEN "metadata"
                         ELSE IF o < l.l3 THEN "ethernet"
                         ELSE IF o < l.l4 THEN "ipv4"
                         ELSE IF o < l.l4_end THEN "l4"
                         ELSE IF o < l.ip_end THEN "payload" ELSE "dim"
<1>1. k.layout # {} /\ (CHOOSE m \in k.layout : TRUE) = l
  OBVIOUS
<1>2. Max({l.l4, l.l4_end}) = IF l.l4 >= l.l4_end THEN l.l4 ELSE l.l4_end
  BY MaxMinOfTwo
<1> DEFINE later == Max({l.l4, l.l4_end})
<1>3. ColorAt(k, o) = IF o < MetaSize THEN "metadata"
                      ELSE CASE o < l.l3 -> "ethernet"
                             [] o >= l.l3 /\ o < l.l4 -> "ipv4"
                             [] o >= l.l4 /\ o < l.l4_end -> "l4"
                             [] o >= later /\ o < l.ip_end -> "payload"
                             [] OTHER -> "dim"
  BY <1>1 DEF ColorAt
<1> HIDE DEF later
<1>4. later \in Int /\ (o >= later <=> o >= l.l4 /\ o >= l.l4_end)
  BY <1>2 DEF later
<1>5. o < MetaSize => ColorAt(k, o) = "metadata"
  BY <1>3
<1>6. ~(o < MetaSize) /\ o < l.l3 => ColorAt(k, o) = "ethernet"
  BY <1>3, <1>4
<1>7. ~(o < MetaSize) /\ ~(o < l.l3) /\ o < l.l4 => ColorAt(k, o) = "ipv4"
  BY <1>3, <1>4
<1>8. ~(o < MetaSize) /\ ~(o < l.l3) /\ ~(o < l.l4) /\ o < l.l4_end => ColorAt(k, o) = "l4"
  BY <1>3, <1>4
<1>9. ~(o < MetaSize) /\ ~(o < l.l3) /\ ~(o < l.l4) /\ ~(o < l.l4_end)
        => ColorAt(k, o) = IF o < l.ip_end THEN "payload" ELSE "dim"
  BY <1>3, <1>4
<1> QED  BY <1>5, <1>6, <1>7, <1>8, <1>9

\* The arithmetic: a frame with ip bytes of IP header, size of transport
\* header, tot bytes of datagram and len bytes in all.
LEMMA SpansOfLayout ==
  ASSUME NEW l4 \in Nat, l4 >= 30, NEW size \in Nat, NEW tot \in Nat, NEW len \in Nat,
         NEW o \in Nat, o < 30 + len,
         NEW stop, stop = IF tot <= len THEN 30 + tot ELSE 30 + len,
         NEW l4_end, l4_end = IF l4 + size <= stop THEN l4 + size ELSE stop
  PROVE  /\ o >= l4 /\ o < l4_end => o < l4 + size /\ o < 30 + tot
         /\ o >= l4 /\ o >= l4_end /\ o < stop => l4 + size <= o /\ o < 30 + tot
         /\ o >= l4_end /\ o >= stop => o >= 30 + tot
OBVIOUS

LEMMA PaintedByLayout ==
  ASSUME NEW f \in Frames, Eligible(f), f.proto = "tcp" => f.doff >= 5,
         NEW k, k.frame = f, k.layout = {Shifted(l) : l \in LayoutOf(f)},
         NEW o \in Shown(k)
  PROVE  o \in Spans(f)[ColorAt(k, o)]
<1>1. PICK size \in Nat : size = IF f.proto = "tcp" THEN 4 * f.doff ELSE 8
  BY LayoutOfEligible
<1>2. PICK l4 \in Nat : l4 = 30 + 4 * f.ihl
  BY LayoutOfEligible
<1>3. PICK stop \in Nat : stop = IF f.tot <= f.len THEN 30 + f.tot ELSE 30 + f.len
  BY LayoutOfEligible
<1>4. PICK l4_end \in Nat : l4_end = IF l4 + size <= stop THEN l4 + size ELSE stop
  OBVIOUS
<1>5. /\ f.len \in Nat /\ f.tot \in Nat /\ f.ihl \in Nat /\ l4 >= 30
  BY <1>2, LayoutOfEligible
<1>6. PICK l : l = [l3 |-> 30, l4 |-> l4, l4_end |-> l4_end, ip_end |-> stop]
  OBVIOUS
<1>7. k.layout = {l}
  <2>1. /\ HeadersEnd(f) + MetaSize = l4 + size /\ HeadersEnd(f) \in Int
        /\ DataEnd(f) + MetaSize = stop /\ DataEnd(f) \in Int
    BY <1>1, <1>2, <1>3, LayoutOfEligible DEF HeadersEnd, DataEnd, MetaSize, EthSize
  <2> DEFINE m == [l3 |-> EthSize, l4 |-> EthSize + 4 * f.ihl,
                   l4_end |-> IF HeadersEnd(f) <= DataEnd(f) THEN HeadersEnd(f) ELSE DataEnd(f),
                   ip_end |-> DataEnd(f)]
  <2>2. LayoutOf(f) = {m}
    BY LayoutOfEligible
  <2>3. /\ DOMAIN m = {"l3", "l4", "l4_end", "ip_end"}
        /\ m.l3 + MetaSize = 30 /\ m.l4 + MetaSize = l4
        /\ m.l4_end + MetaSize = l4_end /\ m.ip_end + MetaSize = stop
    BY <1>1, <1>2, <1>3, <1>4, <1>5, <2>1 DEF MetaSize, EthSize
  <2> HIDE DEF m
  <2>4. Shifted(m) = l
    BY <1>6, <2>3 DEF Shifted
  <2> QED  BY <2>2, <2>4
<1>8. o \in Nat /\ o < 30 + f.len
  <2>1. PICK top \in Int : top = MetaSize + EthSize + f.len
    BY <1>5 DEF MetaSize, EthSize
  <2>2. PICK few \in Int : few = Min({top, HexBytes}) /\ few <= top
    <3>1. HexBytes \in Int
      BY DashboardAssumption
    <3>2. Min({top, HexBytes}) = IF top <= HexBytes THEN top ELSE HexBytes
      BY <3>1, MaxMinOfTwo
    <3> QED  BY <3>1, <3>2
  <2>3. o \in 0 .. few - 1
    BY <2>1, <2>2 DEF Shown
  <2> QED  BY <2>1, <2>2, <2>3, <1>5 DEF MetaSize, EthSize
<1>9. PICK color : color = ColorAt(k, o)
  OBVIOUS
<1>10. color = IF o < 16 THEN "metadata"
               ELSE IF o < 30 THEN "ethernet"
               ELSE IF o < l4 THEN "ipv4"
               ELSE IF o < l4_end THEN "l4"
               ELSE IF o < stop THEN "payload" ELSE "dim"
  <2>1. /\ l.l3 = 30 /\ l.l4 = l4 /\ l.l4_end = l4_end /\ l.ip_end = stop
        /\ l.l3 \in Int /\ l.l4 \in Int /\ l.l4_end \in Int /\ l.ip_end \in Int
        /\ l.l3 <= l.l4 /\ o \in Int
    BY <1>5, <1>6, <1>8
  <2> QED  BY <1>7, <1>9, <2>1, ColorOfLayout DEF MetaSize
<1>11. PICK spans : spans = Spans(f)
  OBVIOUS
<1>12. /\ spans["metadata"] = 0 .. 15 /\ spans["ethernet"] = 16 .. 29
       /\ spans["ipv4"] = 30 .. l4 - 1
       /\ spans["l4"] = (l4 .. (l4 + size) - 1) \cap (0 .. (30 + f.tot) - 1)
       /\ spans["payload"] = l4 + size .. (30 + f.tot) - 1
       /\ spans["dim"] = 30 + f.tot .. 30 + f.len
  BY <1>1, <1>2, <1>5, <1>11 DEF Spans, MetaSize, EthSize
<1>13. /\ o >= l4 /\ o < l4_end => o < l4 + size /\ o < 30 + f.tot
       /\ o >= l4 /\ o >= l4_end /\ o < stop => l4 + size <= o /\ o < 30 + f.tot
       /\ o >= l4_end /\ o >= stop => o >= 30 + f.tot
  BY <1>3, <1>4, <1>5, <1>8, SpansOfLayout
<1>14. o \in spans[color]
  <2>1. CASE o < 16
    <3>1. color = "metadata" /\ spans["metadata"] = 0 .. 15
      BY <1>10, <1>12, <2>1
    <3>2. o \in 0 .. 15
      BY <1>8, <2>1
    <3> QED  BY <3>1, <3>2
  <2>2. CASE o >= 16 /\ o < 30
    <3>1. color = "ethernet" /\ spans["ethernet"] = 16 .. 29
      BY <1>8, <1>10, <1>12, <2>2
    <3>2. o \in 16 .. 29
      BY <1>8, <2>2
    <3> QED  BY <3>1, <3>2
  <2>3. CASE o >= 30 /\ o < l4
    <3>1. color = "ipv4" /\ spans["ipv4"] = 30 .. l4 - 1
      BY <1>8, <1>10, <1>12, <2>3
    <3>2. o \in 30 .. l4 - 1
      BY <1>8, <2>3
    <3> QED  BY <3>1, <3>2
  <2>4. CASE o >= l4 /\ o < l4_end
    <3>1. color = "l4" /\ spans["l4"] = (l4 .. (l4 + size) - 1) \cap (0 .. (30 + f.tot) - 1)
      BY <1>5, <1>8, <1>10, <1>12, <2>4
    <3>2. o < l4 + size /\ o < 30 + f.tot
      BY <1>13, <2>4
    <3>3. o \in l4 .. (l4 + size) - 1 /\ o \in 0 .. (30 + f.tot) - 1
      BY <1>5, <1>8, <2>4, <3>2
    <3> QED  BY <3>1, <3>3
  <2>5. CASE o >= l4 /\ o >= l4_end /\ o < stop
    <3>1. color = "payload" /\ spans["payload"] = l4 + size .. (30 + f.tot) - 1
      BY <1>5, <1>8, <1>10, <1>12, <2>5
    <3>2. l4 + size <= o /\ o < 30 + f.tot
      BY <1>13, <2>5
    <3>3. o \in l4 + size .. (30 + f.tot) - 1
      BY <1>5, <1>8, <3>2
    <3> QED  BY <3>1, <3>3
  <2>6. CASE o >= l4 /\ o >= l4_end /\ o >= stop
    <3>1. color = "dim" /\ spans["dim"] = 30 + f.tot .. 30 + f.len
      BY <1>5, <1>8, <1>10, <1>12, <2>6
    <3>2. o >= 30 + f.tot /\ o <= 30 + f.len
      BY <1>5, <1>8, <1>13, <2>6
    <3>3. o \in 30 + f.tot .. 30 + f.len
      BY <1>5, <1>8, <3>2
    <3> QED  BY <3>1, <3>3
  <2> QED  BY <1>5, <1>8, <2>1, <2>2, <2>3, <2>4, <2>5, <2>6
<1> QED  BY <1>9, <1>11, <1>14

(***************************************************************************)
(* The dashboard paints every byte of a frame as the header it belongs to, *)
(* for IP and TCP headers of any length, padded frames and frames cut      *)
(* short.                                                                  *)
(***************************************************************************)
THEOREM PaintIsRight == DashSpec => []PaintFollowsFrame
<1>1. Holdings => PaintFollowsFrame
  <2> SUFFICES ASSUME Holdings, NEW k \in last, Eligible(k.frame), LengthsFit(k.frame),
                      NEW o \in Shown(k)
               PROVE  o \in Spans(k.frame)[ColorAt(k, o)]
    BY DEF PaintFollowsFrame
  <2>1. k.frame \in Frames /\ k.layout = {Shifted(l) : l \in LayoutOf(k.frame)}
    BY DEF Holdings, FrameKept
  <2> QED  BY <2>1, PaintedByLayout DEF LengthsFit
<1> QED  BY <1>1, DashInductive, PTL
=============================================================================
