------------------------------ MODULE AclRuntime ------------------------------
(***************************************************************************)
(* The acl network function on the Rust runtime (rs/acl over NfRuntime):   *)
(* each worker receives into its own array of buffers, which it never      *)
(* clears, classifies what it finds at the offsets of the header views,    *)
(* tallies the verdicts, and sends from the buffers.  A frame is a MAC     *)
(* header, and behind it, unless it is a runt, the headers acl looks at.   *)
(***************************************************************************)
EXTENDS NfRuntime

\* Traffic[f] also has: denied, the ladder's verdict on f's source; and runt.
ASSUME AclAssumption ==
  \A f \in Frames : Traffic[f].denied \in BOOLEAN /\ Traffic[f].runt \in BOOLEAN

VARIABLES
  macs,     \* macs[w][i]: the frame whose MAC header is in bufs[i], 0 for none
  headers,  \* headers[w][i]: the frame whose other headers are, 0: zeroes
  lens,     \* lens[w][i]: "runt" or "full", "none" before the first frame
  tally,    \* tally[w]: permit and deny
  wire      \* the frames on the wire, in order, each the parts it consists of

buffers == <<macs, headers, lens>>
aclvars == <<vars, buffers, tally, wire>>

Slots == 1 .. BurstSize

AclInit ==
  /\ Init
  /\ macs = [w \in Workers |-> [i \in Slots |-> 0]]
  /\ headers = [w \in Workers |-> [i \in Slots |-> 0]]
  /\ lens = [w \in Workers |-> [i \in Slots |-> "none"]]
  /\ tally = [w \in Workers |-> [permit |-> 0, deny |-> 0]]
  /\ wire = << >>

\* recvmmsg() writes the bytes of the frame and no more, and its length.
Landed(w) == DOMAIN burst'[w]
Fill(w) ==
  /\ macs' = [macs EXCEPT ![w] =
       [i \in Slots |-> IF i \in Landed(w) THEN burst'[w][i].id ELSE @[i]]]
  /\ headers' = [headers EXCEPT ![w] =
       [i \in Slots |-> IF i \in Landed(w) /\ ~Traffic[burst'[w][i].id].runt
                        THEN burst'[w][i].id ELSE @[i]]]
  /\ lens' = [lens EXCEPT ![w] =
       [i \in Slots |-> IF i \notin Landed(w) THEN @[i]
                        ELSE IF Traffic[burst'[w][i].id].runt THEN "runt" ELSE "full"]]

\* No rule of the ladder denies the address 0.0.0.0 of a fresh buffer.
Classify(id) == id = 0 \/ ~Traffic[id].denied

\* nf.app() of bufs[..nb_rx], not of all of bufs.
VerdictsOfAll(w) == [i \in Slots |-> Classify(headers'[w][i])]
Verdicts(w) == [i \in Landed(w) |-> Classify(headers'[w][i])]
App(w) ==
  tally' = [tally EXCEPT ![w] =
    [permit |-> @.permit + Cardinality({i \in DOMAIN Verdicts(w) : Verdicts(w)[i]}),
     deny   |-> @.deny + Cardinality({i \in DOMAIN Verdicts(w) : ~Verdicts(w)[i]})]]

\* sendmmsg() reads lens[i] bytes of bufs[i].
WholeBuffer(w, i) == <<macs[w][i], headers[w][i]>>
Message(w, i) == IF lens[w][i] = "full" THEN <<macs[w][i], headers[w][i]>> ELSE <<macs[w][i]>>
TxBurst(w) ==
  wire' = wire \o [i \in 1 .. Len(out') - Len(out) |-> Message(w, i)]

Receives(w) == burst[w] = << >> /\ burst'[w] # << >>
Sends(w)    == burst[w] # << >> /\ burst'[w] = << >>

AclNext ==
  /\ Next
  /\ \/ \E w \in Workers : Receives(w) /\ Fill(w) /\ App(w) /\ UNCHANGED wire
     \/ \E w \in Workers : Sends(w) /\ TxBurst(w) /\ UNCHANGED <<buffers, tally>>
     \/ /\ \A w \in Workers : ~Receives(w) /\ ~Sends(w)
        /\ UNCHANGED <<buffers, tally, wire>>

AclSpec == AclInit /\ [][AclNext]_aclvars /\ Fairness
-----------------------------------------------------------------------------
(***************************************************************************)
(* The report a worker prints (teardown, main.rs:165) is about the frames  *)
(* it processed: each has one verdict, a frame with all its headers its    *)
(* own, and a runt that of an earlier frame of this worker, whose bytes    *)
(* are still in the buffer.                                                *)
(***************************************************************************)
Own(w, denied) == {h \in ProcessedBy(w) : ~Traffic[h[2]].runt /\ Traffic[h[2]].denied = denied}
TalliesAddUp ==
  \A w \in Workers :
    /\ tally[w].permit + tally[w].deny = processed[w]
    /\ tally[w].permit >= Cardinality(Own(w, FALSE))
    /\ tally[w].deny >= Cardinality(Own(w, TRUE))
    /\ Own(w, TRUE) = {} => tally[w].deny = 0

(***************************************************************************)
(* What stays in a buffer never gets onto the wire.  The buffers are never *)
(* cleared, and what tx_burst() sends is read back from them, a runt from  *)
(* a buffer with the headers of an earlier frame behind it: still, what is *)
(* on the wire is, frame by frame in the order of `out`, all the bytes of  *)
(* a frame the sending worker has received, and none besides.              *)
(***************************************************************************)
Bytes(f) == IF Traffic[f].runt THEN <<f>> ELSE <<f, f>>
SentAsReceived ==
  /\ Len(wire) = Len(out)
  /\ \A p \in DOMAIN out : out[p] \in handled /\ wire[p] = Bytes(out[p][2])
=============================================================================
