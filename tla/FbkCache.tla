------------------------------- MODULE FbkCache -------------------------------
(***************************************************************************)
(* pick() of maglev/maglev.cpp: the connection cache built inside a DPDK   *)
(* rte_fbk_hash.  The code writes the table's entries itself and keeps the *)
(* number of the slot written last in the upper bits of is_entry of the    *)
(* bucket's first entry, whose lowest bit still has to say "in use".       *)
(***************************************************************************)
EXTENDS CacheShape

VARIABLES
  t,             \* ht_->t: t[b][i] = [is_entry, value, key]
  used_entries,  \* ht_->used_entries
  asked, answer

vars == <<t, used_entries, asked, answer>>

\* rte_fbk_hash_create() returns a zeroed table.
Init ==
  /\ t = [b \in Buckets |-> [i \in Ids |-> [is_entry |-> 0, value |-> 0, key |-> 0]]]
  /\ used_entries = 0
  /\ asked = {}
  /\ answer \in {Owner[h] : h \in Hashes}
-----------------------------------------------------------------------------
\* ne: hash << 32 | value << 16 | 1
Entry(h) == [is_entry |-> 1, value |-> Owner[h], key |-> h]

InUse(b, i) == t[b][i].is_entry # 0

\* The loop leaves the bucket at its first slot that is unused or matches.
Stops(b, i, h) == ~InUse(b, i) \/ t[b][i].key = h
FirstStop(b, i, h) == Stops(b, i, h) /\ \A k \in Ids : k < i => ~Stops(b, k, h)

\* t[bucket + i].whole_entry = ne; t[bucket].entry.is_entry = (i << 1) | 1
MarkWithoutBit(entries, i) == [entries EXCEPT ![0].is_entry = 2 * i]
Mark(entries, i) == [entries EXCEPT ![0].is_entry = 2 * i + 1]
Put(b, i, h) == t' = [t EXCEPT ![b] = Mark([@ EXCEPT ![i] = Entry(h)], i)]

Return(h, value) == asked' = {h} /\ answer' = value

PickFill(h) ==
  \E i \in Ids :
    /\ FirstStop(Bucket[h], i, h)
    /\ ~InUse(Bucket[h], i)
    /\ Put(Bucket[h], i, h)
    /\ used_entries' = used_entries + 1
    /\ Return(h, Owner[h])

PickHit(h) ==
  \E i \in Ids :
    /\ FirstStop(Bucket[h], i, h)
    /\ InUse(Bucket[h], i)
    /\ Return(h, t[Bucket[h]][i].value)
    /\ UNCHANGED <<t, used_entries>>

LastPut(b) == t[b][0].is_entry \div 2

Evicted(b) == (LastPut(b) + 1) % Ways

PickEvict(h) ==
  /\ \A i \in Ids : ~Stops(Bucket[h], i, h)
  /\ Put(Bucket[h], Evicted(Bucket[h]), h)
  /\ UNCHANGED used_entries
  /\ Return(h, Owner[h])

Next == \E h \in Hashes : PickFill(h) \/ PickHit(h) \/ PickEvict(h)

Spec == Init /\ [][Next]_vars
-----------------------------------------------------------------------------
\* The number in is_entry always names a slot: the eviction indexes with it.
TypeOK ==
  /\ t \in [Buckets -> [Ids -> [is_entry : 0 .. 2 * Ways - 1,
                                value : Nat, key : Hashes]]]
  /\ used_entries \in Nat
  /\ asked \in SUBSET Hashes
  /\ answer \in Nat

(***************************************************************************)
(* "Identical results": the intrusive cache behaves like the native one of *)
(* the Rust port, with slot contents, last slot and answers in step.       *)
(***************************************************************************)
Native == INSTANCE ConnCache WITH
  slots <- [b \in Buckets |-> [i \in Ids |->
             [key |-> t[b][i].key, value |-> t[b][i].value, valid |-> InUse(b, i)]]],
  last <- [b \in Buckets |-> LastPut(b)]

ImplementsNative == Native!Spec
=============================================================================
