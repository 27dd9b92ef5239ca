------------------------------- MODULE Dashboard -------------------------------
(***************************************************************************)
(* The terminal dashboard of rs/maglev (examples/tui): the loop of the     *)
(* receiver without the rewrite, which keeps the last prefixed frame and   *)
(* draws it with the counters, at most once in REFRESH.  rx.next() waits   *)
(* REFRESH for a frame, so the screen also moves when no frame comes.      *)
(*                                                                         *)
(* A frame has two more fields than FlowPrefix names:                      *)
(*   tot    the total length in its IP header                              *)
(*   doff   the data offset in its TCP header, in words of four bytes      *)
(***************************************************************************)
EXTENDS Receiver, FiniteSetsExt

CONSTANT HexBytes   \* HEX_BYTES

ASSUME DashboardAssumption ==
  /\ HexBytes \in Nat
  /\ \A f \in Frames : {f.len, f.ihl, f.tot, f.doff} \subseteq Nat

VARIABLES
  due,      \* last_render.elapsed() >= REFRESH
  proto,    \* packets of every protocol
  last,     \* {}, or what process() keeps of the last prefixed frame
  screen    \* what render() wrote last

panels   == <<proto, last>>
dashVars == <<vars, due, panels, screen>>

EthSize  == 14
MetaSize == 16   \* FlowMeta::SIZE

-----------------------------------------------------------------------------
\* Layout::of: the offsets of the headers in a frame; {} unless it is IPv4.
L4Size(f, whole) ==
  CASE f.proto = "tcp" -> IF EthSize + 4 * f.ihl + 12 < whole
                          THEN Max({4 * f.doff, 20}) ELSE 20
    [] f.proto \in {"udp", "icmp"} -> 8
    [] OTHER -> 0

LayoutOf(f) ==
  LET whole  == EthSize + f.len
      l4     == EthSize + 4 * f.ihl
      ip_end == Min({EthSize + f.tot, whole})
  IN  IF f.ether = "ip" /\ f.len >= 20
      THEN {[l3 |-> EthSize, l4 |-> l4,
             l4_end |-> Min({l4 + L4Size(f, whole), ip_end}), ip_end |-> ip_end]}
      ELSE {}

ShiftedStarts(l) == [l EXCEPT !.l3 = @ + MetaSize, !.l4 = @ + MetaSize]
Shifted(l) == [field \in DOMAIN l |-> l[field] + MetaSize]

\* What process() keeps of a frame behind prefix hw.
KeptWithOldParse(hw, f) ==
  [frame |-> f, hw |-> hw, backend |-> lookup[hw],
   sw |-> IF Parses(f) THEN {FromFrame(f)} ELSE UNION {k.sw : k \in last},
   layout |-> {Shifted(l) : l \in LayoutOf(f)}]
Kept(hw, f) ==
  [frame |-> f, hw |-> hw, backend |-> lookup[hw],
   sw |-> IF Parses(f) THEN {FromFrame(f)} ELSE {},
   layout |-> {Shifted(l) : l \in LayoutOf(f)}]

\* The prefix and the frame behind it.  A magic byte that no program wrote is
\* followed by what looks like some prefix and some frame.
Split(q) ==
  IF q.meta # {} THEN q.meta \X {q.frame}
  ELSE IF LooksPrefixed(q) THEN Tuples \X Frames ELSE {}

Process(q) ==
  \E s \in Split(q) :
    LET hw == s[1]
        f  == s[2]
    IN  /\ Took(q)
        /\ count' = Add({"total"} \cup CrossCheck(hw, f))
        /\ steered' = [steered EXCEPT ![lookup[hw]] = @ + 1]
        /\ proto' = [proto EXCEPT ![hw.proto] = @ + 1]
        /\ last' = {Kept(hw, f)}
        /\ UNCHANGED lookalike
-----------------------------------------------------------------------------
\* color_at: what the byte at offset o of the last frame is painted as.
ColorAt(k, o) ==
  IF o < MetaSize THEN "metadata"
  ELSE IF k.layout = {} THEN "dim"
  ELSE LET l == CHOOSE l \in k.layout : TRUE
       IN  CASE o < l.l3     -> "ethernet"
             [] o >= l.l3 /\ o < l.l4 -> "ipv4"
             [] o >= l.l4 /\ o < l.l4_end -> "l4"
             [] o >= Max({l.l4, l.l4_end}) /\ o < l.ip_end -> "payload"
             [] OTHER -> "dim"

\* Offsets of the bytes shown.
Shown(k) == 0 .. Min({MetaSize + EthSize + k.frame.len, HexBytes}) - 1

RowOfSource(k, field) ==
  IF k.sw = {} THEN "n/a"
  ELSE IF \A t \in k.sw : t.src_ip = k.hw.src_ip THEN "match" ELSE "MISMATCH"
Row(k, field) ==
  IF k.sw = {} THEN "n/a"
  ELSE IF \A t \in k.sw : t[field] = k.hw[field] THEN "match" ELSE "MISMATCH"

Columns == {"src_ip", "dst_ip", "src_port", "dst_port", "proto"}

\* render(): the numbers and verdicts it writes.
Render ==
  [count   |-> count,
   warning |-> count.total > 0 /\ count.no_meta > count.total \div 2,
   frame   |-> {k.frame : k \in last},
   prefix  |-> {k.hw : k \in last},
   rows    |-> {[c \in Columns |-> Row(k, c)] : k \in last},
   bars    |-> steered,
   bold    |-> {k.backend : k \in last},
   mix     |-> proto]

DashInit ==
  /\ Init
  /\ due = FALSE
  /\ proto = [p \in {f.proto : f \in Frames} |-> 0] /\ last = {}
  /\ screen = Render
-----------------------------------------------------------------------------
Tick ==
  /\ ~due /\ due' = TRUE
  /\ UNCHANGED <<vars, panels, screen>>

\* The head of the loop, with and without a render().
Draw ==
  /\ running /\ due
  /\ Check
  /\ screen' = Render /\ due' = FALSE
  /\ UNCHANGED panels
DrawFails ==
  /\ place = "check" /\ running /\ due
  /\ place' = "failed"
  /\ UNCHANGED <<xdp, queue, lookup, running, tally, traffic, due, panels, screen>>
Pass ==
  /\ running => ~due
  /\ Check
  /\ UNCHANGED <<due, panels, screen>>

\* rx.next(): a frame, or none for REFRESH, or a signal, or an error.
WaitsForFrame == FALSE /\ UNCHANGED dashVars
TimesOut ==
  /\ NextTimesOut
  /\ due' = TRUE
  /\ UNCHANGED <<panels, screen>>
HandleFrame ==
  /\ queue # << >>
  /\ LET q == Head(queue)
     IN  \/ CountNoMeta(q) /\ UNCHANGED panels
         \/ Process(q)
  /\ UNCHANGED <<due, screen>>
Interrupted ==
  /\ place = "next" /\ place' = "check"
  /\ UNCHANGED <<xdp, queue, lookup, running, tally, traffic, due, panels, screen>>

MainLoop == Draw \/ Pass \/ TimesOut \/ HandleFrame

\* Receiver has the program replaced and detached as well; here frames without
\* a prefix still come, for want of headroom.
Environment ==
  /\ \/ xdp = "none" /\ Attach("prefix")
     \/ \E f \in Frames : Arrive(f)
     \/ Interrupt
     \/ NextFails
  /\ UNCHANGED <<due, panels, screen>>

DashNext == Tick \/ MainLoop \/ Interrupted \/ DrawFails \/ Environment

\* The thread runs, rx.next() returns within its timeout, and time passes.
DashSpec ==
  /\ DashInit
  /\ [][DashNext]_dashVars
  /\ WF_dashVars(MainLoop)
  /\ WF_dashVars(Tick)
-----------------------------------------------------------------------------
(***************************************************************************)
(* What a screen shows is of one moment and of one frame.  The counts of   *)
(* the cross-check, the bars of the backends and the protocol mix all add  *)
(* up to the frames with metadata; the rows below LAST FRAME compare the   *)
(* prefix and the frame shown above them, not those of an earlier frame:   *)
(* they say n/a exactly when that frame has no five-tuple, and MISMATCH    *)
(* exactly when it has another one than its prefix; the backend in bold    *)
(* has had a frame; and the warning is there when most frames have no      *)
(* prefix.                                                                 *)
(***************************************************************************)
SayWhatCompares(verdicts, f, hw) ==
  /\ ~Parses(f) => verdicts = {"n/a"}
  /\ Parses(f) => "n/a" \notin verdicts
  /\ Parses(f) => ("MISMATCH" \in verdicts <=> FromFrame(f) # hw)

ScreenIsConsistent ==
  LET prefixes == screen.count.total - screen.count.no_meta
  IN  /\ prefixes = screen.count.verified + screen.count.unparsed
      /\ FoldFunction(+, 0, screen.bars) = prefixes
      /\ FoldFunction(+, 0, screen.mix) = prefixes
      /\ screen.warning <=> 2 * screen.count.no_meta > screen.count.total
      /\ \A b \in screen.bold : screen.bars[b] > 0
      /\ \A f \in screen.frame, hw \in screen.prefix, row \in screen.rows :
           SayWhatCompares({row[c] : c \in Columns}, f, hw)

(***************************************************************************)
(* The rows and the counters below them never disagree on a frame: when    *)
(* process() handles one, the mismatch counter rises exactly if a row will *)
(* say MISMATCH of it, and the counter of unparseable frames exactly if    *)
(* the rows will say n/a.  The verdict is reached twice, by sw != hw in    *)
(* process() and field by field in render().                               *)
(***************************************************************************)
RowsAsCounted ==
  [][steered' # steered =>
       \A k \in last' :
         LET verdicts == {Row(k, c) : c \in Columns}
         IN  /\ "MISMATCH" \in verdicts <=> count'.mismatch = count.mismatch + 1
             /\ "n/a" \in verdicts <=> count'.unparsed = count.unparsed + 1]_dashVars

(***************************************************************************)
(* The colours follow the frame: each byte shown is painted as the header  *)
(* it belongs to, with IP and TCP options, and bytes past the IP total     *)
(* length "must not be painted as protocol content" (layout.rs:27-28).     *)
(* About frames the XDP program prefixed whose lengths are those of their  *)
(* headers.                                                                *)
(***************************************************************************)
Spans(f) ==
  LET ip  == MetaSize + EthSize
      l4  == ip + 4 * f.ihl
      pay == l4 + (IF f.proto = "tcp" THEN 4 * f.doff ELSE 8)
      end == ip + f.tot
  IN  [metadata |-> 0 .. MetaSize - 1, ethernet |-> MetaSize .. ip - 1,
       ipv4 |-> ip .. l4 - 1, l4 |-> (l4 .. pay - 1) \cap (0 .. end - 1),
       payload |-> pay .. end - 1, dim |-> end .. ip + f.len]

LengthsFit(f) == f.tot >= 4 * f.ihl /\ (f.proto = "tcp" => f.doff >= 5)

PaintFollowsFrame ==
  \A k \in last :
    Eligible(k.frame) /\ LengthsFit(k.frame)
      => LET spans == Spans(k.frame)
         IN  \A o \in Shown(k) : o \in spans[ColorAt(k, o)]

(***************************************************************************)
(* A frame that was handled comes to the screen, also if it was the last   *)
(* for a long time and came right after a render: unless the dashboard is  *)
(* told to quit or fails, some later screen counts it.                     *)
(***************************************************************************)
ScreenCatchesUp ==
  \A n \in 1 .. MaxFrames :
    count.total >= n ~> screen.count.total >= n \/ ~running \/ place = "failed"
=============================================================================
