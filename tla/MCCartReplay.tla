---------------------------- MODULE MCCartReplay ----------------------------
(***************************************************************************)
(* Five frames, two voices ending at any frame or never, a queue of one;   *)
(* and, beside one of those runs, the allocating cart of spike-p, which    *)
(* shares nothing with them.                                               *)
(***************************************************************************)
EXTENDS CartReplay, AllocCart

BesideRun == env.cart = "shake" /\ saveFrame = NFRAMES - 1

MCInit == Init /\ AllocInit

ReplayStep == Next /\ UNCHANGED allocVars
AllocStep == BesideRun /\ AllocNext /\ UNCHANGED vars

MCNext == ReplayStep \/ AllocStep

(* Each cart's process is one thread of straight-line code. *)
MCSpec ==
    /\ MCInit /\ [][MCNext]_<<vars, allocVars>>
    /\ WF_vars(ReplayStep)
    /\ WF_allocVars(BesideRun /\ ProcessStep /\ UNCHANGED vars)

------------------------------------------------------------------------------
(* Both kinds of process come to their end: the resumed run with exactly   *)
(* the frames after the save, the allocating cart also on a full disk.     *)
RunsComplete == ResumedRunCompletes /\ AllocCartEnds
=============================================================================
