---------------------------- MODULE MCSaveState ----------------------------
(***************************************************************************)
(* Registries in the body order of regions_whetstone.c, with the two kinds *)
(* of load() the code has: voice_end_queue refuses an impossible           *)
(* pending_count, every other region takes any bytes.  Builds: the audio   *)
(* cart; the same with a widened field (other size); a cart whose voice    *)
(* queue is not its last region; two carts with one region more than the   *)
(* description scratch holds, which differ only in that region; one that   *)
(* does not fit the save buffer.                                           *)
(*                                                                         *)
(* Beside them, in behaviours of its own before any cart boots, the        *)
(* voice-end queue with its cart, its mixer and its frame loop: four       *)
(* voices and a queue of two, so that a frame brings more ends than fit.   *)
(***************************************************************************)
EXTENDS SaveState, VoiceEndQueue

Reg(n, s, f) == [name |-> n, size |-> s, fields |-> f]
FrameState   == Reg("frame_state", 2, "i32")
FrameStateW  == Reg("frame_state", 3, "i64")
FrameStateX  == Reg("frame_state", 9, "i32[64]")
VoiceQ       == Reg("voice_end_queue", 1, "queue")
CoBlob       == Reg("coroutine_save_blob", 1, "active@0,len@4")
CoBlobX      == Reg("coroutine_save_blob", 1, "len@0,active@4")

MCRegionDefs == {FrameState, FrameStateW, FrameStateX, VoiceQ, CoBlob, CoBlobX}
MCRegistry == [audio |-> <<FrameState, VoiceQ>>,
               wide  |-> <<FrameStateW, VoiceQ>>,
               blob  |-> <<VoiceQ, CoBlob>>,
               longA |-> <<FrameState, VoiceQ, CoBlob>>,
               longB |-> <<FrameState, VoiceQ, CoBlobX>>,
               fat   |-> <<FrameStateX, VoiceQ>>]
MCBuilds == DOMAIN MCRegistry
MCScratchCap == 2
MCBufCap == HeaderSize + 6

\* "nan": a NaN with the host's own payload; "qnan": the canonical quiet NaN;
\* "over": bytes whose pending_count exceeds VOICE_END_PENDING_MAX.
MCValues == {"zero", "nan", "qnan", "over"}
MCCanon == [v \in MCValues |-> IF v = "nan" THEN "qnan" ELSE v]
MCAccepts == [r \in MCRegionDefs |->
                IF r = VoiceQ THEN MCValues \ {"over"} ELSE MCValues]
MCCartValues == [r \in MCRegionDefs |->
                IF r = VoiceQ THEN {"qnan"} ELSE {"nan", "qnan"}]

\* A hash that tells the descriptions of these builds apart.
MCFnv(d) == [i \in DOMAIN d |-> <<d[i].name, d[i].size, d[i].fields>>]

------------------------------------------------------------------------------
NoCart == build = "audio" /\ status = "exited" /\ damage = {"absent"}

MCInit == Init /\ VoiceInit

SaveStep == phase = "update" /\ queue = EmptyQueue /\ Next /\ UNCHANGED voiceVars
VoiceStep == NoCart /\ VoiceNext /\ UNCHANGED vars

MCNext == SaveStep \/ VoiceStep

\* The frame loop never stalls; nothing obliges a cart, a mixer or a host.
MCSpec ==
  /\ MCInit /\ [][MCNext]_<<vars, voiceVars>>
  /\ WF_voiceVars(NoCart /\ EndUpdate /\ UNCHANGED vars)
  /\ WF_voiceVars(NoCart /\ NextUpdate /\ UNCHANGED vars)
=============================================================================
