----------------------------- MODULE MCDapDebug ------------------------------
(* An instance of DapDebug for TLC: the requests the client may send.      *)
EXTENDS DapDebug

Inspecting == {"configurationDone", "setBreakpoints", "threads", "stackTrace"}
Driving    == {"continue", "next", "stepIn", "stepOut", "pause"}
Everything == Inspecting \cup Driving \cup {"disconnect", "hot_reload"}
==============================================================================
