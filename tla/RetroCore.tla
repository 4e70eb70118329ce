----------------------------- MODULE RetroCore -------------------------------
(***************************************************************************)
(* The libretro core of spikes/spike-l: the adapter host/retro_core.c      *)
(* (wall-clock accumulator, audio batch sizing, save and rewind) over the  *)
(* synthetic runtime lib/blyt_facade.c.                                    *)
(*                                                                         *)
(* The frontend is any order of the libretro calls it is allowed: init,    *)
(* load, run after any delay, reset, serialize, unserialize of any buffer  *)
(* it holds, unload, deinit.  Left out: pixels, sample values (and the     *)
(* tone phases that only they depend on), the constant screen_shake        *)
(* region, and the vertical axis, which moves and clamps like the          *)
(* horizontal one.                                                         *)
(***************************************************************************)
EXTENDS Integers, Sequences

CONSTANTS TickNs,      \* TICK_NS, in units of the model's clock
          Deltas,      \* time between two runs
          Rate, Fps,   \* AUDIO_RATE and DECLARED_FPS
          MaxBatch,    \* MAX_AUDIO_FRAMES_PER_RUN
          Schedule,    \* synthetic_schedule: the handles of its voices, which
          EndFrame,    \* all end at this frame
          QCap,        \* length of voice_end_queue_t.pending
          XMax,        \* FB_WIDTH - 64, in steps of one pixel
          Masks,       \* what the pad can read: sets of buttons
          Buffers,     \* buffers the frontend keeps
          MaxRuns,     \* bound on retro_run calls after retro_init
          MaxTicks     \* bound on updates since the cart's init

ASSUME ClockAssumption == TickNs \in Nat \ {0} /\ Deltas \subseteq Nat
ASSUME AudioAssumption ==
  /\ Rate \in Nat /\ Fps \in Nat \ {0} /\ MaxBatch \in Nat
  /\ Rate <= MaxBatch * Fps
ASSUME CartAssumption ==
  /\ Schedule \in Seq(Nat) /\ EndFrame \in Nat \ {0} /\ QCap \in Nat
  /\ \A i, j \in DOMAIN Schedule : i # j => Schedule[i] # Schedule[j]
  /\ XMax \in Nat \ {0}
  /\ MaxRuns \in Nat /\ MaxTicks \in Nat

VARIABLES inited,      \* between retro_init and retro_deinit
          force,       \* force_tick_per_run
          rt,          \* the runtime's tracked regions, or NoRt
          acc,         \* accumulator_ns
          pushed,      \* total_audio_pushed
          runs,        \* total_run_calls
          bufs,        \* the frontend's save-state buffers
          path,        \* history: the mask of each update since init
          elapsed,     \* history: time handed to retro_run since the clock
          ticks,       \*   was last restarted, and updates made of it
          late         \* history: some run was more than 3 ticks behind

clock == <<acc, elapsed, ticks, late>>
audio == <<pushed, runs>>
retroVars == <<inited, force, rt, clock, audio, bufs, path>>

NoRt == [frame |-> -1, mask |-> {}, accel |-> 0, x |-> 0, ends |-> <<>>]

FreshCartKeepsQueue(old) ==                                          \* mutant
  [frame |-> 0, mask |-> {}, accel |-> 0, x |-> 1, ends |-> old.ends]
\* cart_init, over whatever the runtime held before.
FreshCart(old) == [frame |-> 0, mask |-> {}, accel |-> 0, x |-> 1, ends |-> <<>>]

Clamp(x) == IF x < 0 THEN 0 ELSE IF x > XMax THEN XMax ELSE x

Events(n) == [i \in 1 .. n |-> [frame |-> EndFrame, handle |-> Schedule[i]]]

\* mixer_report_end_of_frame: one event for each voice of the schedule that
\* ends at exactly this frame, in the schedule's order, while there is room.
ReportEnds(ends, frame) ==
  LET room == QCap - Len(ends)
  IN  IF frame = EndFrame
      THEN ends \o Events(IF Len(Schedule) < room THEN Len(Schedule) ELSE room)
      ELSE ends

\* blyt_runtime_update with the latched mask.
Update(s, mask) ==
  LET frame == s.frame + (IF "A" \in mask THEN 2 ELSE 1)
  IN  [frame |-> frame,
       mask  |-> mask,
       accel |-> s.accel + (IF "A" \in mask THEN 1 ELSE 0),
       x     |-> Clamp(s.x + (IF "RIGHT" \in mask THEN 4 ELSE 1)
                           - (IF "LEFT" \in mask THEN 4 ELSE 0)),
       ends  |-> ReportEnds(s.ends, frame)]

\* The cart after n <= 3 updates.
Updates(s, mask, n) ==
  LET one == Update(s, mask)
      two == Update(one, mask)
  IN  <<s, one, two, Update(two, mask)>>[n + 1]

RetroInit ==
  /\ inited = FALSE /\ force = FALSE /\ rt = NoRt
  /\ acc = 0 /\ pushed = 0 /\ runs = 0
  /\ bufs \in [Buffers -> {[from |-> "none", cart |-> NoRt, path |-> <<>>],
                           [from |-> "alt", cart |-> NoRt, path |-> <<>>]}]
  /\ path = <<>> /\ elapsed = 0 /\ ticks = 0 /\ late = FALSE

------------------------------------------------------------------------------
RestartClock == acc' = 0 /\ elapsed' = 0 /\ ticks' = 0 /\ late' = FALSE

\* BLYT_FORCE_TICK_PER_RUN is read from the environment.
retro_init(f) ==
  /\ ~inited
  /\ inited' = TRUE /\ force' = f
  /\ RestartClock /\ pushed' = 0 /\ runs' = 0
  /\ UNCHANGED <<rt, bufs, path>>

retro_deinit ==
  /\ inited /\ inited' = FALSE /\ rt' = NoRt
  /\ UNCHANGED <<force, clock, audio, bufs, path>>

\* The audio counters are not restarted.
retro_load_game ==
  /\ inited /\ rt = NoRt
  /\ rt' = FreshCart(NoRt) /\ path' = <<>>
  /\ RestartClock
  /\ UNCHANGED <<inited, force, audio, bufs>>

retro_unload_game ==
  /\ rt # NoRt /\ rt' = NoRt
  /\ UNCHANGED <<inited, force, clock, audio, bufs, path>>

retro_reset ==
  /\ inited
  /\ rt' = (IF rt = NoRt THEN NoRt ELSE FreshCart(rt)) /\ path' = <<>>
  /\ RestartClock
  /\ UNCHANGED <<inited, force, audio, bufs>>

\* Updates of one run in the wall-clock mode.
CatchUps(backlog) ==
  IF backlog \div TickNs < 3 THEN backlog \div TickNs ELSE 3

KeepAll(left) == left                                                 \* mutant
KeepNothing(left) == 0                                                \* mutant
\* What the accumulator keeps; the excess of a late run is dropped.
Keep(left) == IF left >= TickNs THEN TickNs - 1 ELSE left

PerRunOnly == Rate \div Fps                                           \* mutant
\* adapter_compute_audio_frames, capped by the mix buffer.
AudioFrames ==
  LET ideal == ((runs + 1) * Rate) \div Fps
      target == IF ideal <= pushed THEN 0 ELSE ideal - pushed
  IN  IF target > MaxBatch THEN MaxBatch ELSE target

\* n updates with the mask polled at the start of the run, then the audio
\* batch; the frame is always drawn.
Frame(mask, n) ==
  /\ runs < MaxRuns /\ Len(path) + n <= MaxTicks
  /\ rt' = Updates(rt, mask, n)
  /\ path' = path \o [i \in 1 .. n |-> mask]
  /\ pushed' = pushed + AudioFrames /\ runs' = runs + 1
  /\ UNCHANGED <<inited, force, bufs>>

\* retro_run, driven by the wall clock.
RunByClock(mask, delta) ==
  /\ rt # NoRt /\ ~force
  /\ Frame(mask, CatchUps(acc + delta))
  /\ acc' = Keep((acc + delta) - CatchUps(acc + delta) * TickNs)
  /\ ticks' = ticks + CatchUps(acc + delta)
  /\ elapsed' = elapsed + delta
  /\ late' = (late \/ acc + delta >= 4 * TickNs)

\* retro_run under BLYT_FORCE_TICK_PER_RUN.
RunForced(mask) ==
  /\ rt # NoRt /\ force
  /\ Frame(mask, 1)
  /\ acc' = 0 /\ ticks' = ticks + 1
  /\ UNCHANGED <<elapsed, late>>

\* blyt_runtime_save: the header and the three tracked regions.
Saved(s, masks) == [from |-> "own", cart |-> s, path |-> masks]

\* retro_serialize into a buffer of the announced size; a smaller one is
\* refused and nothing is written.
retro_serialize(b) ==
  /\ rt # NoRt
  /\ bufs' = [bufs EXCEPT ![b] = Saved(rt, path)]
  /\ UNCHANGED <<inited, force, rt, clock, audio, path>>

LoadKeepsQueue(s, buf) == [buf.cart EXCEPT !.ends = s.ends]           \* mutant
\* The copies blyt_runtime_load makes into the reset runtime.
Restored(s, buf) == buf.cart

\* The header check of blyt_runtime_load: magic, version, layout_hash, size.
Acceptable(buf, truncated) == buf.from = "own" /\ ~truncated

\* retro_unserialize resets the runtime first, whatever the buffer holds.
\* The clock goes on.
retro_unserialize(b, truncated) ==
  /\ rt # NoRt
  /\ LET ok == Acceptable(bufs[b], truncated)
     IN  /\ rt' = IF ok THEN Restored(FreshCart(rt), bufs[b]) ELSE FreshCart(rt)
         /\ path' = IF ok THEN bufs[b].path ELSE <<>>
  /\ UNCHANGED <<inited, force, clock, audio, bufs>>

RetroNext ==
  \/ \E f \in BOOLEAN : retro_init(f)
  \/ retro_deinit \/ retro_load_game \/ retro_unload_game \/ retro_reset
  \/ \E mask \in Masks, delta \in Deltas : RunByClock(mask, delta)
  \/ \E mask \in Masks : RunForced(mask)
  \/ \E b \in Buffers : retro_serialize(b)
  \/ \E b \in Buffers, t \in BOOLEAN : retro_unserialize(b, t)

RetroSpec == RetroInit /\ [][RetroNext]_retroVars

------------------------------------------------------------------------------
CartState == [frame : Nat, mask : Masks \cup {{}}, accel : Nat, x : 0 .. XMax,
         ends : Seq([frame : {EndFrame}, handle : Nat])]

Buffer == [from : {"none", "alt", "own"}, cart : CartState \cup {NoRt}, path : Seq(Masks)]

\* The types of the adapter's and the runtime's state.
RetroTypeOK ==
  /\ inited \in BOOLEAN /\ force \in BOOLEAN /\ late \in BOOLEAN
  /\ rt \in CartState \cup {NoRt}
  /\ acc \in 0 .. TickNs - 1
  /\ pushed \in Nat /\ runs \in Nat /\ elapsed \in Nat /\ ticks \in Nat
  /\ bufs \in [Buffers -> Buffer] /\ path \in Seq(Masks)
  /\ \A b \in Buffers : bufs[b].from = "own" => bufs[b].cart \in CartState

\* The drift correction of adapter_compute_audio_frames: whatever games are
\* loaded, unloaded, reset or rewound in between, the samples pushed since
\* retro_init are less than one sample short of what the runs made so far
\* owe, and never more.
AudioTracksRuns ==
  pushed * Fps <= runs * Rate /\ runs * Rate < (pushed + 1) * Fps

\* The accumulator of retro_run neither invents nor loses time: the updates
\* made and the time kept never exceed the time that passed since the clock
\* was restarted, and are exactly that time as long as no run was more than
\* three ticks behind.
NoTimeInvented ==
  ~force => /\ ticks * TickNs + acc <= elapsed
            /\ ~late => ticks * TickNs + acc = elapsed

\* The adapter's two clocks, over stalls, retries, loads and resets: samples
\* against runs, updates against time.
ClocksAgree == AudioTracksRuns /\ NoTimeInvented

EndsOnce(s) ==
  /\ Len(s.ends) <= QCap
  /\ \A i, j \in DOMAIN s.ends : i # j => s.ends[i].handle # s.ends[j].handle
  /\ s.ends # <<>> => s.frame >= EndFrame

\* A voice's end is queued at most once in the life of a cart, not before
\* its frame and not beyond the queue, whatever resets, rewinds and refused
\* loads happen.
VoiceEndsOnce == rt # NoRt => EndsOnce(rt)

\* The cart that only ever received these masks, with no save, load or
\* reset.
Golden(masks) ==
  LET after[n \in 0 .. Len(masks)] ==
        IF n = 0 THEN FreshCart(NoRt) ELSE Update(after[n - 1], masks[n])
  IN  after[Len(masks)]

\* Rewind is exact: after any runs, saves, loads (accepted or refused) and
\* resets, the tracked state is the one an undisturbed cart reaches with the
\* same masks.
RewindIsExact == rt # NoRt => rt = Golden(path)

\* What the comment on voice_end_queue_t says of the synthetic mixer: once
\* the end frame has passed, the ends are in the queue.
EveryEndIsReported ==
  rt # NoRt /\ rt.frame >= EndFrame => Len(rt.ends) = Len(Schedule)

\* What spike-l/PLAN.md says of the pending FIFO: a run that updates the cart
\* applies the events queued before it.
PendingIsApplied ==
  [][ticks' > ticks => \A i \in DOMAIN rt'.ends : rt'.ends[i].frame > rt.frame]_retroVars
==============================================================================
