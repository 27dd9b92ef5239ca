----------------------------- MODULE MCAclRuntime -----------------------------
(***************************************************************************)
(* Traffic for AclRuntime: a denied frame, a runt and a permitted frame of *)
(* two flows that may share a worker, and a frame of another interface.    *)
(***************************************************************************)
EXTENDS AclRuntime

Frame(flow, iface, denied, runt) ==
  [flow |-> flow, iface |-> iface, denied |-> denied, runt |-> runt]

MCTraffic ==
  <<Frame("a", "nf", TRUE, FALSE), Frame("b", "nf", FALSE, TRUE),
    Frame("b", "other", FALSE, FALSE), Frame("a", "nf", FALSE, FALSE)>>
MCMixed   ==
  <<Frame("a", "other", FALSE, FALSE), Frame("a", "nf", FALSE, FALSE), Frame("a", "nf", FALSE, FALSE)>>
=============================================================================
