---------------------------- MODULE VoiceEndQueue ----------------------------
(***************************************************************************)
(* The voice-end queue between its three users: the cart, which starts     *)
(* voices and asks voice_is_playing; the mixer, which plays them and       *)
(* reports each natural end once, after the frame's update; and the frame  *)
(* loop, which applies the reported ends before the next update            *)
(* (det_audio_branch_save.c:70-86, ADR-0106).  The mixer is external: the  *)
(* code under spike-k has only a schedule in its place.  `audible` is its  *)
(* state.  A cart may start a voice at any moment, also one whose last end *)
(* is still pending.                                                       *)
(***************************************************************************)
EXTENDS VoiceQueue

CONSTANT Handles        \* voice handles the cart uses

ASSUME VoiceAssumption == IsFiniteSet(Handles)

VARIABLES phase,        \* "update": the cart's frame; "mix": the audio frame
          queue,        \* the region
          audible,      \* external: voices the mixer is playing
          unrecorded    \* history: voices whose last end met a full queue

voiceVars == <<phase, queue, audible, unrecorded>>

VoiceInit ==
  phase = "update" /\ queue = EmptyQueue /\ audible = {} /\ unrecorded = {}

VoiceStart(h) ==
  /\ queue' = Started(queue, h)
  /\ audible' = audible \cup {h}
  /\ unrecorded' = unrecorded \ {h}
  /\ UNCHANGED phase

EndUpdate ==
  phase = "update" /\ phase' = "mix" /\ UNCHANGED <<queue, audible, unrecorded>>

\* The mixer reports that voice h came to its end.
MixerReport(h) ==
  /\ phase = "mix"
  /\ h \in audible
  /\ audible' = audible \ {h}
  /\ queue' = Recorded(queue, 0, h)
  /\ unrecorded' = IF Len(queue.pending) < PendingMax THEN unrecorded
                                                    ELSE unrecorded \cup {h}
  /\ UNCHANGED phase

NextUpdate ==
  /\ phase = "mix"
  /\ phase' = "update"
  /\ queue' = Applied(queue)
  /\ UNCHANGED <<audible, unrecorded>>

VoiceNext == \/ EndUpdate \/ NextUpdate
             \/ \E h \in Handles : VoiceStart(h) \/ MixerReport(h)

\* The frame loop never stalls; neither the cart nor the mixer has to act.
VoiceSpec == /\ VoiceInit /\ [][VoiceNext]_voiceVars
             /\ WF_voiceVars(EndUpdate) /\ WF_voiceVars(NextUpdate)

------------------------------------------------------------------------------
(* ADR-0106's logical mixer view: while the cart's update runs,            *)
(* voice_is_playing answers what the mixer plays.  A cart with more voices *)
(* than the queue has places breaks it.                                    *)
ViewFollowsMixer == phase = "update" => queue.view = audible

(* The queue as the cart and the save file see it.  The view is what the   *)
(* mixer plays, the voices with one pending end each, and those whose last *)
(* end came when PendingMax ends of that frame were waiting: voice_start   *)
(* and voice_end_record lose no other end, and no end hits a voice that    *)
(* was restarted after it.  While the cart's update runs nothing is        *)
(* pending, and the region's load() accepts the queue at every moment.     *)
QueueSound ==
  LET ended == {queue.pending[i].handle : i \in DOMAIN queue.pending} IN
  /\ queue.view = audible \cup ended \cup unrecorded
  /\ audible \cap ended = {} /\ (audible \cup ended) \cap unrecorded = {}
  /\ Len(queue.pending) = Cardinality(ended)
  /\ phase = "update" => ended = {}
  /\ QueueLoads(queue)

(* A voice that ended is not reported as playing forever, unless its end   *)
(* met a full queue: the end reaches the view at a later update, or the    *)
(* cart starts the voice again.                                            *)
EndReachesTheCart ==
  \A h \in Handles :
    (h \in queue.view \ (audible \cup unrecorded)) ~> (h \notin queue.view \ audible)
==============================================================================
