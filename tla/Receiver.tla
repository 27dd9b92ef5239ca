------------------------------- MODULE Receiver -------------------------------
(***************************************************************************)
(* The receiver of rs/maglev behind the XDP program of FlowPrefix: frames  *)
(* come in with or without a five-tuple in front of them, depending on the *)
(* program that is attached at the moment; the receiver steers the ones    *)
(* that have one to a backend, checks the five-tuple against its own parse *)
(* of the frame, and rewrites the destination of its copy.  The dashboard  *)
(* (examples/tui) runs the same loop and the same cross-check.             *)
(***************************************************************************)
EXTENDS Naturals, Sequences, FiniteSets, Functions, FlowPrefix

CONSTANTS
  Frames,      \* the frames that may arrive, records of FlowPrefix
  Backends,    \* backend addresses
  Lookups,     \* the lookup tables: functions from five-tuples to backends
  QueueCap,    \* frames the packet socket holds
  MaxFrames    \* bound: frames that arrive in a behaviour

Tuples == {Tuple(f, ports) : f \in Frames, ports \in {g.ports : g \in Frames} \cup {<<"other", "other">>}}

ASSUME ReceiverAssumption ==
  /\ Lookups \subseteq [Tuples -> Backends]
  /\ IsFiniteSet(Frames) /\ IsFiniteSet(Backends)
  /\ QueueCap \in Nat \ {0} /\ MaxFrames \in Nat

VARIABLES
  xdp,       \* the program attached: "none", "pass" or "prefix"
  queue,     \* the packet socket: [frame, meta], meta = {} without a prefix
  lookup,    \* table.lookup_index(hw.hash()), one of Lookups
  running,   \* RUNNING
  place,     \* "check" and "next" in the loop, "summary", "failed"
  count,     \* the counters of the loop
  steered,   \* per_backend
  arrived,   \* history: frames that arrived
  prefixed,  \* history: frames the socket took with a prefix of the program
  lookalike  \* history: frames handled as if they had a prefix

tally   == <<count, steered, lookalike>>
traffic == <<arrived, prefixed>>
vars    == <<xdp, queue, lookup, running, place, tally, traffic>>

Zero == [total |-> 0, no_meta |-> 0, verified |-> 0, mismatch |-> 0,
         unparsed |-> 0, rewrite_fail |-> 0]

Init ==
  /\ xdp = "none" /\ queue = << >>
  /\ lookup \in Lookups
  /\ running = TRUE /\ place = "check"
  /\ count = Zero /\ steered = [b \in Backends |-> 0]
  /\ arrived = 0 /\ prefixed = 0 /\ lookalike = 0
-----------------------------------------------------------------------------
\* attach.sh detaches what is there, then attaches a program; detach.sh.
Attach(program) ==
  /\ xdp' = program
  /\ UNCHANGED <<queue, lookup, running, place, tally, traffic>>

\* What the program makes of a frame; without headroom it leaves it alone.
Delivered(f, headroom) ==
  IF xdp = "prefix" /\ Eligible(f) /\ headroom THEN {Meta(f)} ELSE {}

\* The kernel drops a frame its socket has no room for.
Arrive(f) ==
  /\ arrived < MaxFrames /\ arrived' = arrived + 1
  /\ \E headroom \in BOOLEAN :
       LET meta == Delivered(f, headroom)
       IN  \/ /\ Len(queue) < QueueCap
              /\ queue' = Append(queue, [frame |-> f, meta |-> meta])
              /\ prefixed' = prefixed + Cardinality(meta)
           \/ /\ Len(queue) = QueueCap
              /\ UNCHANGED <<queue, prefixed>>
  /\ UNCHANGED <<xdp, lookup, running, place, tally>>

\* The handler of ctrl-C.
Interrupt ==
  /\ running /\ running' = FALSE
  /\ UNCHANGED <<xdp, queue, lookup, place, tally, traffic>>
-----------------------------------------------------------------------------
Check ==
  /\ place = "check"
  /\ place' = IF running THEN "next" ELSE "summary"
  /\ UNCHANGED <<xdp, queue, lookup, running, tally, traffic>>

\* 250 ms without a frame: back to the condition of the loop.
NextBlocks == FALSE /\ UNCHANGED vars
NextTimesOut ==
  /\ place = "next" /\ queue = << >>
  /\ place' = "check"
  /\ UNCHANGED <<xdp, queue, lookup, running, tally, traffic>>

\* Any other error ends the receiver without its summary.
NextFails ==
  /\ place = "next" /\ place' = "failed"
  /\ UNCHANGED <<xdp, queue, lookup, running, tally, traffic>>

\* rx.next() hands out the frame at the head of the queue.
Took(q) ==
  /\ place = "next"
  /\ queue' = Tail(queue)
  /\ place' = "check"
  /\ UNCHANGED <<xdp, lookup, running, traffic>>

Add(counters) == [c \in DOMAIN Zero |-> IF c \in counters THEN count[c] + 1 ELSE count[c]]

\* A whole prefix whose first byte is the magic byte.
LooksPrefixed(q) == q.meta # {} \/ (q.frame.lead /\ q.frame.len >= 2)

NoMetaIsTotal == {"total"}
NoMeta == {"total", "no_meta"}
CountNoMeta(q) ==
  /\ Took(q) /\ ~LooksPrefixed(q)
  /\ count' = Add(NoMeta)
  /\ UNCHANGED <<steered, lookalike>>

\* The cross-check: the counters for prefix hw and frame f.
CrossCheck(hw, f) ==
  IF ~Parses(f) THEN {"unparsed"}
  ELSE IF FromFrame(f) = hw THEN {"verified"} ELSE {"verified", "mismatch"}

Rewrite(hw, f) == IF Rewrites(f, hw.proto, lookup[hw]) THEN {} ELSE {"rewrite_fail"}

Steer(q) ==
  \E hw \in q.meta :
    /\ Took(q)
    /\ count' = Add({"total"} \cup CrossCheck(hw, q.frame) \cup Rewrite(hw, q.frame))
    /\ steered' = [steered EXCEPT ![lookup[hw]] = @ + 1]
    /\ UNCHANGED lookalike

\* The bytes behind a magic byte may be anything, and so may the outcome.
SteerLookalike(q) ==
  /\ Took(q) /\ q.meta = {} /\ LooksPrefixed(q)
  /\ \E check \in {{"unparsed"}, {"verified"}, {"verified", "mismatch"}}, failed \in SUBSET {"rewrite_fail"} :
       count' = Add({"total"} \cup check \cup failed)
  /\ \E b \in Backends : steered' = [steered EXCEPT ![b] = @ + 1]
  /\ lookalike' = lookalike + 1

Handle ==
  /\ queue # << >>
  /\ LET q == Head(queue) IN CountNoMeta(q) \/ Steer(q) \/ SteerLookalike(q)

Loop == Check \/ NextTimesOut \/ Handle

Next ==
  \/ \E program \in {"none", "pass", "prefix"} : Attach(program)
  \/ \E f \in Frames : Arrive(f)
  \/ Interrupt \/ Loop \/ NextFails

\* The thread runs and rx.next() returns within its timeout.
Spec == Init /\ [][Next]_vars /\ WF_vars(Loop)
-----------------------------------------------------------------------------
(***************************************************************************)
(* What the cross-check is for: the five-tuple the XDP program reads is    *)
(* the one the receiver parses, for frames with IP options and frames that *)
(* end behind the ports as well.  Only frames whose first byte happens to  *)
(* be the magic byte can be counted as a mismatch or as unparseable.       *)
(***************************************************************************)
CrossCheckAgrees == count.mismatch + count.unparsed <= lookalike

(***************************************************************************)
(* The summary adds up: a frame is without metadata, verified or           *)
(* unparseable; per_backend sums to the frames with metadata, and these    *)
(* are the ones the program prefixed, except for those still queued.       *)
(***************************************************************************)
QueuedPrefixes == Cardinality({n \in DOMAIN queue : queue[n].meta # {}})
SummaryAddsUp ==
  /\ count.total = count.no_meta + count.verified + count.unparsed
  /\ FoldFunction(+, 0, steered) = count.total - count.no_meta
  /\ count.total - count.no_meta = prefixed - QueuedPrefixes + lookalike

(***************************************************************************)
(* ctrl-C ends the loop, also when no frame arrives any more.              *)
(***************************************************************************)
InterruptEnds == ~running ~> (place \in {"summary", "failed"})
=============================================================================
