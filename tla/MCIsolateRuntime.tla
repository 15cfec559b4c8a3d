-------------------------- MODULE MCIsolateRuntime --------------------------
(* Instances of IsolateRuntime for TLC. MCIsolateCalls.cfg: two isolates   *)
(* that call, cancel, capture and stop, with mailboxes of one message.     *)
(* MCIsolateChildren.cfg: a root, its children and grandchildren, observed *)
(* or not. MCIsolateLive.cfg: a root and its child, each of which may be   *)
(* made a supervisor, one call and one captured reply, under fairness.     *)
(* MCIsolateContexts.cfg: the smallest instance in which the code departs  *)
(* from what it says of itself.                                            *)
EXTENDS IsolateRuntime
=============================================================================
