----------------------------- MODULE VoiceQueue -----------------------------
(***************************************************************************)
(* The voice-end queue region's own operations                             *)
(* (spikes/spike-k/cart_runtime/region_voice_end_queue.c) as functions of  *)
(* the region's contents: `view` is logical_view_bits, `pending` the live  *)
(* prefix of the pending array.  Events are of the one kind the mixer      *)
(* reports (voice_end); the slots past pending_count are not represented,  *)
(* nothing reads them.                                                     *)
(***************************************************************************)
EXTENDS Naturals, Sequences, FiniteSets

CONSTANT PendingMax     \* VOICE_END_PENDING_MAX

ASSUME PendingAssumption == PendingMax \in Nat

EmptyQueue == [view |-> {}, pending |-> <<>>]

StartedKeepsPending(q, h) == [q EXCEPT !.view = @ \cup {h}]       \* mutant
\* voice_start: the stale end of an earlier voice in the same slot is dropped.
\* The compaction loop moves the entry kept at i to the place its cursor
\* `out` has reached, the number of entries kept up to i.
Kept(q, h) == {i \in DOMAIN q.pending : q.pending[i].handle # h}
OutOf(q, h, i) == Cardinality({k \in Kept(q, h) : k <= i})
Started(q, h) ==
  [view    |-> q.view \cup {h},
   pending |-> [out \in 1 .. Cardinality(Kept(q, h)) |->
                  q.pending[CHOOSE i \in Kept(q, h) : OutOf(q, h, i) = out]]]

\* voice_is_playing
Playing(q, h) == h \in q.view

AppliedLeavesView(q) == [q EXCEPT !.pending = <<>>]               \* mutant
\* voice_end_apply_pending
Applied(q) ==
  [view    |-> q.view \ {q.pending[i].handle : i \in DOMAIN q.pending},
   pending |-> <<>>]

RecordedUnchecked(q, f, h) ==                                     \* mutant
  [q EXCEPT !.pending = Append(@, [frame |-> f, handle |-> h])]
RecordedOffByOne(q, f, h) ==                                      \* mutant
  IF Len(q.pending) >= PendingMax - 1 THEN q
  ELSE [q EXCEPT !.pending = Append(@, [frame |-> f, handle |-> h])]
\* voice_end_record: a full queue drops the event without a word.
Recorded(q, f, h) ==
  IF Len(q.pending) >= PendingMax THEN q
  ELSE [q EXCEPT !.pending = Append(@, [frame |-> f, handle |-> h])]

\* load(): the one content check a region makes.
QueueLoads(q) == Len(q.pending) <= PendingMax
=============================================================================
