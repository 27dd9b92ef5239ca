------------------------------- MODULE FlowFifo -------------------------------
(***************************************************************************)
(* What the connection cache in front of the Maglev table promises: pick() *)
(* answers with the owner of the hash as if there were no cache, and each  *)
(* bucket remembers the hashes that last entered it, oldest first, at most *)
(* Ways of them.  A hit does not make a hash younger.                      *)
(*                                                                         *)
(* Both caches of the repository implement it: ConnCache (the Rust port)   *)
(* and FbkCache (the C++ original), so the two give identical answers and  *)
(* identical hits and evictions.                                           *)
(***************************************************************************)
EXTENDS Naturals, Sequences

CONSTANTS
  Hashes,   \* flow hashes
  Buckets,  \* buckets of the cache
  Bucket,   \* Bucket[h]: the bucket the crc32c of h selects
  Owner,    \* Owner[h]: hash_table[h % K_SIZE], fixed once populate() is done
  Ways      \* slots of a bucket (ENTRIES_PER_BUCKET = kEntriesPerBucket)

VARIABLES
  fifo,     \* fifo[b]: the hashes cached in bucket b, oldest first
  asked,    \* the hashes of the call that returned last, at most one
  answer    \* what that call returned

Init ==
  /\ fifo = [b \in Buckets |-> << >>]
  /\ asked = {}
  /\ answer \in {Owner[h] : h \in Hashes}

Cached(h) == \E p \in DOMAIN fifo[Bucket[h]] : fifo[Bucket[h]][p] = h

Entered(queue, h) ==
  Append(IF Len(queue) = Ways THEN Tail(queue) ELSE queue, h)

Pick(h) ==
  /\ fifo' = IF Cached(h) THEN fifo
             ELSE [fifo EXCEPT ![Bucket[h]] = Entered(@, h)]
  /\ asked' = {h}
  /\ answer' = Owner[h]

Next == \E h \in Hashes : Pick(h)

Spec == Init /\ [][Next]_<<fifo, asked, answer>>
=============================================================================
