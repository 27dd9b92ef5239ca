------------------------------- MODULE DpdkSetup -------------------------------
(***************************************************************************)
(* nf_setup() under common/nf_main.h: every lcore runs it before its       *)
(* packet loop and none waits for another, so an lcore that is already     *)
(* forwarding reads the NF's tables while a slower one still fills them.   *)
(* The tables of acl, nat and l3fwd (its next-hop MACs) are plain `static' *)
(* arrays that all lcores share.  A setup is a program of stores to their  *)
(* cells (module SetupPrograms), executed one store at a time.             *)
(*                                                                         *)
(* Unordered stores and reads of one object by several threads are         *)
(* undefined in C++.  The outcomes here are those of a build that makes    *)
(* the stores in program order and does not read back what it has just     *)
(* stored (at -O3, which Makefile.common sets, it does not).               *)
(***************************************************************************)
EXTENDS Naturals, Sequences, FiniteSets

CONSTANTS
  Lcores,    \* the EAL's lcores
  Programs   \* the setups of the NFs: sequences of [cell, value]

ASSUME SetupAssumption == IsFiniteSet(Lcores) /\ Lcores # {}

VARIABLES
  program,   \* nf_setup() of the NF that was started
  mem,       \* the shared tables, zeroed by the loader
  at,        \* at[c]: the next store of lcore c's setup
  quit,      \* nf_force_quit
  loop,      \* loop[c]: "setup", "poll" or "left"
  seen       \* seen[c]: the table contents lcore c's last burst was handled with

vars == <<program, mem, at, quit, loop, seen>>

Cells(p) == {p[n].cell : n \in DOMAIN p}
Unseen == << >>

Init ==
  /\ program \in Programs
  /\ mem = [x \in Cells(program) |-> 0]
  /\ at = [c \in Lcores |-> 1]
  /\ quit = FALSE
  /\ loop = [c \in Lcores |-> "setup"]
  /\ seen = [c \in Lcores |-> Unseen]
-----------------------------------------------------------------------------
StoreOnce(c) ==
  /\ loop[c] = "setup"
  /\ at[c] \in DOMAIN program
  /\ mem' = [mem EXCEPT ![program[at[c]].cell] = IF @ = 0 THEN program[at[c]].value ELSE @]
  /\ at' = [at EXCEPT ![c] = @ + 1]
  /\ UNCHANGED <<program, quit, loop, seen>>
Store(c) ==
  /\ loop[c] = "setup"
  /\ at[c] \in DOMAIN program
  /\ mem' = [mem EXCEPT ![program[at[c]].cell] = program[at[c]].value]
  /\ at' = [at EXCEPT ![c] = @ + 1]
  /\ UNCHANGED <<program, quit, loop, seen>>

\* nf_setup() returns.
SetupOneStoreShort(c) == at[c] + 1 \notin DOMAIN program
SetupReturns(c) == at[c] \notin DOMAIN program

EnterLoop(c) ==
  /\ loop[c] = "setup"
  /\ SetupReturns(c)
  /\ loop' = [loop EXCEPT ![c] = "poll"]
  /\ UNCHANGED <<program, mem, at, quit, seen>>

\* rte_eth_rx_burst() returns packets and nf_process() handles them.
Burst(c) ==
  /\ loop[c] = "poll"
  /\ seen' = [seen EXCEPT ![c] = mem]
  /\ UNCHANGED <<program, mem, at, quit, loop>>

\* while (!nf_force_quit)
Leave(c) ==
  /\ loop[c] = "poll"
  /\ quit
  /\ loop' = [loop EXCEPT ![c] = "left"]
  /\ UNCHANGED <<program, mem, at, quit, seen>>

Signal ==
  /\ ~quit
  /\ quit' = TRUE
  /\ UNCHANGED <<program, mem, at, loop, seen>>

Next == Signal \/ \E c \in Lcores : Store(c) \/ EnterLoop(c) \/ Burst(c) \/ Leave(c)

Spec == Init /\ [][Next]_vars
-----------------------------------------------------------------------------
\* What one setup running alone leaves in a cell: its last store to it.
LastStore(p, x) == CHOOSE n \in DOMAIN p :
                     /\ p[n].cell = x
                     /\ \A m \in DOMAIN p : p[m].cell = x => m <= n
Final(p) == [x \in Cells(p) |-> p[LastStore(p, x)].value]

\* The cells that are only ever stored one value.
IsProgram(p) == p \in Seq([cell : Cells(p), value : Nat])
Steady(p) == {x \in Cells(p) :
                \A n \in DOMAIN p : p[n].cell = x => p[n].value = Final(p)[x]}

(***************************************************************************)
(* An lcore that has run nf_setup() finds in every cell that is stored one *)
(* value only, however often and by whomever, what its own setup left      *)
(* there ("Per-lcore NF state (hash tables, rule sets, ...)",              *)
(* nf_main.h:65), whatever the setups of the other lcores are doing.       *)
(***************************************************************************)
SetupStands ==
  \A c \in Lcores :
    seen[c] # Unseen => \A x \in Steady(program) : seen[c][x] = Final(program)[x]

(***************************************************************************)
(* Any setup comes right in the end: once all of them have returned, the   *)
(* tables are those one of them alone builds.  No store of a slow lcore    *)
(* undoes the later one of a fast lcore for good.                          *)
(***************************************************************************)
AllReturned == \A c \in Lcores : loop[c] # "setup"
SetupConverges == AllReturned => mem = Final(program)
=============================================================================
