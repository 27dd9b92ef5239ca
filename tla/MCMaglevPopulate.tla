-------------------------- MODULE MCMaglevPopulate --------------------------
(***************************************************************************)
(* Small instances of MaglevPopulate: every choice of one seed per backend *)
(* is an initial state.                                                    *)
(***************************************************************************)
EXTENDS MaglevPopulate

CONSTANT Word

INSTANCE MaglevRows

\* h1 % K and h2 % (K - 1) take all their values.
Seeds == Slots \X (0 .. K - 2)

\* maglev_table.rs steps from entry to entry; maglev.cpp multiplies in 32 bits,
\* and so does table.rs, for as many entries as a cursor reaches.
Stepped  == {SteppedRow(seed) : seed \in Seeds}
Wrapped  == {WrappedRow(seed, K) : seed \in Seeds}
OnTheFly == {WrappedRow(seed, Reach) : seed \in Seeds}

MCRowSets      == {Stepped, Wrapped, OnTheFly}
MCOnTheFlyOnly == {OnTheFly}

\* K is prime, so a row that never wraps visits every slot.
ASSUME SteppedRowsAreOnto ==
  \A seed \in Seeds : {SteppedRow(seed)[j] : j \in Slots} = Slots
=============================================================================
