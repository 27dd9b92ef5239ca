------------------------------ MODULE ConnCache ------------------------------
(***************************************************************************)
(* pick() of apec-demo/rs/maglev/src/table.rs: the owner of a flow hash,   *)
(* memoized in a set-associative cache with round-robin eviction.  Every   *)
(* worker owns its table and its cache, so a call is one step.             *)
(***************************************************************************)
EXTENDS CacheShape

VARIABLES
  slots,    \* slots[b][i]: [key, value, valid]
  last,     \* last[b]: the slot written last
  asked, answer

vars == <<slots, last, asked, answer>>

Entry(h) == [key |-> h, value |-> Owner[h], valid |-> TRUE]
Empty    == [key |-> 0, value |-> 0, valid |-> FALSE]

\* Bucket::default() for every bucket.
Init ==
  /\ slots = [b \in Buckets |-> [i \in Ids |-> Empty]]
  /\ last = [b \in Buckets |-> 0]
  /\ asked = {}
  /\ answer \in {Owner[h] : h \in Hashes}
-----------------------------------------------------------------------------
\* The slot at which the scan of a bucket returns: empty, or holding the key.
Stops(e, h) == ~e.valid \/ e.key = h

StopAnywhere(b, h, i) == Stops(slots[b][i], h)
StopAt(b, h, i) ==
  /\ Stops(slots[b][i], h)
  /\ \A k \in Ids : k < i => ~Stops(slots[b][k], h)

WriteKeepsLast(b, i, h) ==
  /\ slots' = [slots EXCEPT ![b][i] = Entry(h)]
  /\ last' = last
Write(b, i, h) ==
  /\ slots' = [slots EXCEPT ![b][i] = Entry(h)]
  /\ last' = [last EXCEPT ![b] = i]

Return(h, value) == asked' = {h} /\ answer' = value

\* A slot nobody wrote comes first: the hash is new to the bucket.
PickFill(h) ==
  \E i \in Ids :
    /\ StopAt(Bucket[h], h, i)
    /\ ~slots[Bucket[h]][i].valid
    /\ Write(Bucket[h], i, h)
    /\ Return(h, Owner[h])

HitIgnoresValid(h) ==
  \E i \in Ids :
    /\ slots[Bucket[h]][i].key = h
    /\ Return(h, slots[Bucket[h]][i].value)
    /\ UNCHANGED <<slots, last>>
PickHit(h) ==
  \E i \in Ids :
    /\ StopAt(Bucket[h], h, i)
    /\ slots[Bucket[h]][i].valid
    /\ Return(h, slots[Bucket[h]][i].value)
    /\ UNCHANGED <<slots, last>>

\* Bucket full: the slot after the one written last is the oldest.
Victim(b) == (last[b] + 1) % Ways

PickEvict(h) ==
  /\ \A i \in Ids : ~Stops(slots[Bucket[h]][i], h)
  /\ Write(Bucket[h], Victim(Bucket[h]), h)
  /\ Return(h, Owner[h])

Next == \E h \in Hashes : PickFill(h) \/ PickHit(h) \/ PickEvict(h)

Spec == Init /\ [][Next]_vars
-----------------------------------------------------------------------------
\* `last` always names a slot: the eviction indexes a bucket with it.
TypeOK ==
  /\ slots \in [Buckets -> [Ids -> [key : Hashes, value : Nat, valid : BOOLEAN]]]
  /\ last \in [Buckets -> Ids]
  /\ asked \in SUBSET Hashes
  /\ answer \in Nat

(***************************************************************************)
(* The cache cannot be seen from outside: pick() returns the owner of the  *)
(* hash it is asked for, whatever was cached, evicted or never written.    *)
(***************************************************************************)
Transparent == \A h \in asked : answer = Owner[h]

(***************************************************************************)
(* What the scan relies on: the slots in use come first, so that the first *)
(* empty one ends the search for a cached hash.                            *)
(***************************************************************************)
UsedFirst ==
  \A b \in Buckets : \A i, k \in Ids :
    slots[b][i].valid /\ k < i => slots[b][k].valid

(***************************************************************************)
(* A hash occupies at most one slot of its bucket, and none of another.    *)
(***************************************************************************)
OneSlotPerHash ==
  \A b \in Buckets : \A i \in Ids :
    slots[b][i].valid =>
      /\ Bucket[slots[b][i].key] = b
      /\ \A k \in Ids \ {i} :
           slots[b][k].valid => slots[b][k].key # slots[b][i].key

(***************************************************************************)
(* Round robin is first in, first out: the cache behaves like the queues   *)
(* of FlowFifo, in hits, in evictions and in answers.                      *)
(***************************************************************************)
Used(b) == Cardinality({i \in Ids : slots[b][i].valid})

Fifo == INSTANCE FlowFifo WITH
  fifo <- [b \in Buckets |->
            [p \in 1 .. Used(b) |-> slots[b][(last[b] + p) % Used(b)].key]]

ImplementsFifo == Fifo!Spec
=============================================================================
