---------------------------- MODULE MCRetroCore ------------------------------
(***************************************************************************)
(* RetroCore with a tick of two time units and delays up to four and a     *)
(* half ticks, an audio rate that is no multiple of the frame rate, and    *)
(* the voices' end close enough for both one- and two-frame updates to     *)
(* pass it.                                                                *)
(***************************************************************************)
EXTENDS RetroCore

MCSchedule == <<1, 2>>
MCDeltas == {0, 1, 3, 9}
MCMasks == {{}, {"A"}, {"LEFT"}, {"RIGHT"}}
==============================================================================
