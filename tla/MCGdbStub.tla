----------------------------- MODULE MCGdbStub -------------------------------
(***************************************************************************)
(* The two tools of the edit loop.  A stub for a cart that loops over two  *)
(* instructions; and, in behaviours of their own before a debugger comes   *)
(* and the cart moves, the sessions of edits and hot reloads.              *)
(***************************************************************************)
EXTENDS GdbStub, MCHotReload

MCAddrs == 1 .. 2
MCAsked == {P(o, 0) : o \in {"c", "s", "reload", "other"}} \cup {P("Z0", 1), P("z0", 1)}

MCInit == StubInit /\ Init

\* The cart of the first build runs and was never saved.
NoEdit == build = "n1" /\ frame = 0 /\ file = NoFile
Quiet == NoEdit /\ UNCHANGED vars

StubStep == StubNext /\ Quiet
EditStep == StubInit /\ Next /\ UNCHANGED stubVars

MCNext == StubStep \/ EditStep

\* The fairness of the stub's own specification, where the stub runs.
MCSpec ==
  /\ MCInit /\ [][MCNext]_<<stubVars, vars>>
  /\ WF_stubVars(Server /\ Quiet) /\ WF_stubVars(Cpu /\ Quiet)
  /\ WF_stubVars(Receive /\ Quiet) /\ WF_stubVars(Retransmit /\ Quiet)
  /\ WF_stubVars((MainShutClient \/ MainShutListen \/ MainJoin) /\ Quiet)
==============================================================================
