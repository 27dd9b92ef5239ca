------------------------------ MODULE CacheShape ------------------------------
(***************************************************************************)
(* The shape of a connection cache in front of a Maglev lookup table: a    *)
(* hash falls into one bucket, a bucket has Ways slots, and the lookup     *)
(* table gives every hash an owner.  Hash 0 is the key of a slot nobody    *)
(* has written, in both implementations (ConnCache, FbkCache).             *)
(***************************************************************************)
EXTENDS Integers, FiniteSets

CONSTANTS Hashes, Buckets, Bucket, Owner, Ways

ASSUME CacheAssumption ==
  /\ 0 \in Hashes
  /\ Bucket \in [Hashes -> Buckets]
  /\ Owner \in [Hashes -> Nat]
  /\ Ways \in Nat \ {0}

Ids == 0 .. Ways - 1
=============================================================================
