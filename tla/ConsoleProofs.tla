--------------------------- MODULE ConsoleProofs ----------------------------
(***************************************************************************)
(* Proofs about the consoles: RetroCore for every tick length, delay,      *)
(* audio rate, voice schedule, set of buffers and bound; ConsoleLua for    *)
(* every set of cart files, argument lists and table sizes; DynLoader for  *)
(* every directory of libraries and graph of needs; LoadedConsole for what *)
(* the two do together.                                                    *)
(***************************************************************************)
EXTENDS RetroCore, LoadedConsole, FiniteSetTheorems, WellFoundedInduction, TLAPS

\* The saved carts of this build are as good as the running one: what
\* retro_unserialize copies back keeps VoiceEndsOnce.
SavedEndOnce == \A b \in Buffers : bufs[b].from = "own" => EndsOnce(bufs[b].cart)

\* The inductive invariant.
IInv == RetroTypeOK /\ AudioTracksRuns /\ NoTimeInvented /\ VoiceEndsOnce /\ SavedEndOnce

------------------------------------------------------------------------------
(* Arithmetic of the accumulator and of the audio batch.                   *)

\* \div rounds down.
LEMMA DivFloor ==
  ASSUME NEW a \in Nat, NEW b \in Nat \ {0}
  PROVE  /\ a \div b \in Nat
         /\ (a \div b) * b <= a
         /\ a < (a \div b + 1) * b
  OBVIOUS

\* Products are monotone in their first factor.
LEMMA TimesMonotone ==
  ASSUME NEW a \in Int, NEW b \in Int, NEW c \in Nat \ {0}
  PROVE  a * c < b * c => a < b
  OBVIOUS

\* The batch adapter_compute_audio_frames asks for keeps the samples pushed
\* within one sample of what the runs owe, and the mix buffer never cuts it.
LEMMA BatchKeepsUp ==
  ASSUME pushed \in Nat, runs \in Nat, AudioTracksRuns
  PROVE  /\ pushed + AudioFrames \in Nat
         /\ (pushed + AudioFrames) * Fps <= (runs + 1) * Rate
         /\ (runs + 1) * Rate < (pushed + AudioFrames + 1) * Fps
<1> DEFINE ideal == ((runs + 1) * Rate) \div Fps
<1> USE AudioAssumption
<1>1. (runs + 1) * Rate \in Nat /\ (runs + 1) * Rate = runs * Rate + Rate
  OBVIOUS
<1>2. /\ ideal \in Nat /\ ideal * Fps <= (runs + 1) * Rate
      /\ (runs + 1) * Rate < (ideal + 1) * Fps
  BY <1>1, DivFloor
<1>3. pushed * Fps < (ideal + 1) * Fps
  BY <1>1, <1>2 DEF AudioTracksRuns
<1>4. pushed <= ideal
  BY <1>2, <1>3, TimesMonotone
<1>5. ideal * Fps < (pushed + 1 + MaxBatch) * Fps
  <2>1. ideal * Fps <= runs * Rate + Rate
    BY <1>1, <1>2
  <2>2. runs * Rate < (pushed + 1) * Fps
    BY DEF AudioTracksRuns
  <2>3. (pushed + 1 + MaxBatch) * Fps = (pushed + 1) * Fps + MaxBatch * Fps
    OBVIOUS
  <2> HIDE DEF ideal
  <2> QED BY <1>2, <2>1, <2>2, <2>3
<1>6. ideal - pushed <= MaxBatch
  <2>1. ideal < pushed + 1 + MaxBatch
    <3> HIDE DEF ideal
    <3> QED BY <1>2, <1>5, TimesMonotone
  <2> HIDE DEF ideal
  <2> QED BY <1>2, <2>1
<1>7. AudioFrames = ideal - pushed
  <2>1. AudioFrames = LET target == IF ideal <= pushed THEN 0 ELSE ideal - pushed
                      IN  IF target > MaxBatch THEN MaxBatch ELSE target
    BY DEF AudioFrames
  <2> HIDE DEF ideal
  <2> QED BY <1>2, <1>4, <1>6, <2>1
<1>8. pushed + AudioFrames = ideal
  <2> HIDE DEF ideal
  <2> QED BY <1>2, <1>7
<1> HIDE DEF ideal
<1> QED BY <1>2, <1>8

\* The catch-up loop: at most three updates, which leave a non-negative
\* remainder, a whole tick of it only when the run was four ticks behind.
LEMMA CatchUpsSound ==
  ASSUME NEW backlog \in Nat
  PROVE  /\ CatchUps(backlog) \in 0 .. 3
         /\ backlog - CatchUps(backlog) * TickNs \in Nat
         /\ backlog - CatchUps(backlog) * TickNs >= TickNs <=> backlog >= 4 * TickNs
<1> DEFINE q == backlog \div TickNs
<1> USE ClockAssumption
<1>1. q \in Nat /\ q * TickNs <= backlog /\ backlog < (q + 1) * TickNs
  BY DivFloor
<1>2. CatchUps(backlog) = IF q < 3 THEN q ELSE 3
  BY DEF CatchUps
<1>3. CASE q < 3
  <2>1. CatchUps(backlog) = q /\ q \in 0 .. 3
    <3> HIDE DEF q
    <3> QED BY <1>1, <1>2, <1>3
  <2>2. (q + 1) * TickNs = q * TickNs + TickNs /\ q * TickNs \in Nat
    <3> HIDE DEF q
    <3> QED BY <1>1
  <2>3. (q + 1) * TickNs <= 4 * TickNs
    <3>1. q = 0 \/ q = 1 \/ q = 2
      <4> HIDE DEF q
      <4> QED BY <1>1, <1>3
    <3> HIDE DEF q
    <3> QED BY <3>1
  <2> HIDE DEF q
  <2> QED BY <1>1, <2>1, <2>2, <2>3
<1>4. CASE q >= 3
  <2>1. CatchUps(backlog) = 3
    <3> HIDE DEF q
    <3> QED BY <1>1, <1>2, <1>4
  <2>2. 3 * TickNs <= q * TickNs
    <3> HIDE DEF q
    <3> QED BY <1>1, <1>4
  <2> HIDE DEF q
  <2> QED BY <1>1, <2>1, <2>2
<1> HIDE DEF q
<1> QED BY <1>1, <1>3, <1>4

------------------------------------------------------------------------------
(* The runtime.                                                            *)

\* cart_init builds a cart whose queue is empty.
LEMMA FreshIsCart ==
  ASSUME NEW s
  PROVE  FreshCart(s) \in CartState /\ EndsOnce(FreshCart(s)) /\ FreshCart(s) # NoRt
<1>1. <<>> \in Seq([frame : {EndFrame}, handle : Nat]) /\ Len(<<>>) = 0
  OBVIOUS
<1> QED BY <1>1, CartAssumption DEF FreshCart, CartState, EndsOnce, NoRt

\* The events of a frame are events, one for each of the first n voices.
LEMMA EventsType ==
  ASSUME NEW n \in 0 .. Len(Schedule)
  PROVE  /\ Events(n) \in Seq([frame : {EndFrame}, handle : Nat])
         /\ Len(Events(n)) = n
         /\ \A i \in 1 .. n : Events(n)[i].handle = Schedule[i]
<1>1. \A i \in 1 .. n : Schedule[i] \in Nat
  BY CartAssumption
<1>2. \A i \in 1 .. n : [frame |-> EndFrame, handle |-> Schedule[i]]
                         \in [frame : {EndFrame}, handle : Nat]
  BY <1>1
<1>3. n \in Nat
  BY CartAssumption
<1> QED BY <1>1, <1>2, <1>3 DEF Events

\* What RetroTypeOK and VoiceEndsOnce say of a queue at frame f.
QueueOK(q, f) ==
  /\ q \in Seq([frame : {EndFrame}, handle : Nat])
  /\ Len(q) <= QCap
  /\ \A i, j \in DOMAIN q : i # j => q[i].handle # q[j].handle
  /\ q # <<>> => f >= EndFrame

\* mixer_report_end_of_frame, given that the frame is past the old one.
LEMMA ReportSound ==
  ASSUME NEW s \in CartState, EndsOnce(s), NEW f \in Nat, f > s.frame
  PROVE  QueueOK(ReportEnds(s.ends, f), f)
<1>1. s.frame \in Nat /\ s.ends \in Seq([frame : {EndFrame}, handle : Nat])
  BY DEF CartState
<1>2. CASE f # EndFrame
  <2>1. ReportEnds(s.ends, f) = s.ends
    BY <1>2 DEF ReportEnds
  <2>2. s.ends # <<>> => f >= EndFrame
    BY <1>1, CartAssumption DEF EndsOnce
  <2> QED BY <1>1, <2>1, <2>2 DEF EndsOnce, QueueOK
<1>3. CASE f = EndFrame
  <2>1. s.ends = <<>>
    BY <1>1, <1>3, CartAssumption DEF EndsOnce
  <2> DEFINE n == IF Len(Schedule) < QCap THEN Len(Schedule) ELSE QCap
  <2>2. n \in 0 .. Len(Schedule) /\ n <= QCap
    BY CartAssumption
  <2>3. ReportEnds(s.ends, f) = <<>> \o Events(n)
    <3>1. Len(<<>>) = 0 /\ QCap - 0 = QCap
      BY CartAssumption
    <3> QED BY <1>3, <2>1, <3>1 DEF ReportEnds
  <2> HIDE DEF n
  <2>4. ReportEnds(s.ends, f) = Events(n)
    BY <2>2, <2>3, EventsType
  <2>5. DOMAIN Events(n) = 1 .. n
    BY <2>2, EventsType
  <2>6. \A i \in 1 .. n : i \in DOMAIN Schedule /\ Events(n)[i].handle = Schedule[i]
    BY <2>2, EventsType, CartAssumption
  <2>7. \A i, j \in 1 .. n : i # j => Events(n)[i].handle # Events(n)[j].handle
    BY <2>6, CartAssumption
  <2>8. Events(n) \in Seq([frame : {EndFrame}, handle : Nat]) /\ Len(Events(n)) <= QCap
    BY <2>2, EventsType
  <2>9. f >= EndFrame
    BY <1>3, CartAssumption
  <2>10. QueueOK(Events(n), f)
    BY <2>5, <2>7, <2>8, <2>9 DEF QueueOK
  <2> QED BY <2>4, <2>10
<1> QED BY <1>2, <1>3

\* One update keeps the cart a cart and its queue free of repeats.
LEMMA UpdateSound ==
  ASSUME NEW s \in CartState, EndsOnce(s), NEW mask \in Masks
  PROVE  Update(s, mask) \in CartState /\ EndsOnce(Update(s, mask))
<1> DEFINE f == s.frame + (IF "A" \in mask THEN 2 ELSE 1)
           u == Update(s, mask)
<1>1. s.frame \in Nat /\ s.accel \in Nat /\ s.x \in Int
  BY CartAssumption DEF CartState
<1>2. f \in Nat /\ f > s.frame
  BY <1>1
<1>3. /\ u.frame = f /\ u.mask = mask /\ u.ends = ReportEnds(s.ends, f)
      /\ u = [frame |-> u.frame, mask |-> u.mask, accel |-> u.accel,
              x |-> u.x, ends |-> u.ends]
  BY DEF Update
<1>4. u.accel \in Nat /\ u.x \in 0 .. XMax
  BY <1>1, CartAssumption DEF Update, Clamp
<1> HIDE DEF f, u
<1>5. QueueOK(u.ends, u.frame)
  BY <1>2, <1>3, ReportSound
<1>6. u \in CartState
  BY <1>2, <1>3, <1>4, <1>5 DEF CartState, QueueOK
<1>7. EndsOnce(u)
  BY <1>5 DEF EndsOnce, QueueOK
<1> QED BY <1>6, <1>7 DEF u

\* So do the updates of one run.
LEMMA UpdatesSound ==
  ASSUME NEW s \in CartState, EndsOnce(s), NEW mask \in Masks, NEW n \in 0 .. 3
  PROVE  Updates(s, mask, n) \in CartState /\ EndsOnce(Updates(s, mask, n))
<1> DEFINE one == Update(s, mask)
           two == Update(one, mask)
           three == Update(two, mask)
<1>1. one \in CartState /\ EndsOnce(one)
  BY UpdateSound
<1>2. two \in CartState /\ EndsOnce(two)
  BY <1>1, UpdateSound
<1>3. three \in CartState /\ EndsOnce(three)
  BY <1>2, UpdateSound
<1>4. Updates(s, mask, n) = <<s, one, two, three>>[n + 1]
  BY DEF Updates
<1> HIDE DEF one, two, three
<1>5. n = 0 \/ n = 1 \/ n = 2 \/ n = 3
  OBVIOUS
<1> QED BY <1>1, <1>2, <1>3, <1>4, <1>5

------------------------------------------------------------------------------
(* The invariant.                                                          *)

\* Before retro_init nothing has been pushed and no time has passed.
LEMMA InitIInv == RetroInit => IInv
<1> SUFFICES ASSUME RetroInit PROVE IInv
  OBVIOUS
<1> USE ClockAssumption, AudioAssumption, CartAssumption DEF RetroInit
<1>1. RetroTypeOK
  <2>1. <<>> \in Seq(Masks)
    OBVIOUS
  <2>2. {[from |-> "none", cart |-> NoRt, path |-> <<>>],
         [from |-> "alt", cart |-> NoRt, path |-> <<>>]} \subseteq Buffer
    BY <2>1 DEF Buffer
  <2>3. bufs \in [Buffers -> Buffer]
    BY <2>2
  <2>4. \A b \in Buffers : bufs[b].from # "own"
    OBVIOUS
  <2>5. acc \in 0 .. TickNs - 1 /\ pushed \in Nat /\ runs \in Nat /\ elapsed \in Nat
        /\ ticks \in Nat
    OBVIOUS
  <2>6. inited \in BOOLEAN /\ force \in BOOLEAN /\ late \in BOOLEAN
    BY Zenon
  <2>7. rt \in CartState \cup {NoRt} /\ path \in Seq(Masks)
    BY <2>1
  <2> QED BY <2>3, <2>4, <2>5, <2>6, <2>7, Zenon DEF RetroTypeOK
<1>2. AudioTracksRuns /\ NoTimeInvented
  BY DEF AudioTracksRuns, NoTimeInvented
<1>3. VoiceEndsOnce /\ SavedEndOnce
  BY DEF VoiceEndsOnce, SavedEndOnce
<1> QED BY <1>1, <1>2, <1>3 DEF IInv

\* Restarting the clock restores what NoTimeInvented says.
LEMMA RestartKeepsTime ==
  ASSUME RestartClock
  PROVE  NoTimeInvented' /\ acc' \in 0 .. TickNs - 1 /\ elapsed' \in Nat
         /\ ticks' \in Nat /\ late' \in BOOLEAN
<1>1. acc' = 0 /\ elapsed' = 0 /\ ticks' = 0
  BY DEF RestartClock
<1>2. ticks' * TickNs + acc' = elapsed'
  BY <1>1, ClockAssumption
<1>3. late' \in BOOLEAN
  BY Zenon DEF RestartClock
<1>4. NoTimeInvented'
  <2>1. ticks' * TickNs + acc' <= elapsed'
    BY <1>1, ClockAssumption
  <2> QED BY <1>2, <2>1, Zenon DEF NoTimeInvented
<1> QED BY <1>1, <1>3, <1>4, ClockAssumption

\* The part of a run the two pacing modes share.
LEMMA FrameKeeps ==
  ASSUME IInv, rt # NoRt, NEW mask \in Masks, NEW n \in 0 .. 3, Frame(mask, n)
  PROVE  /\ rt' \in CartState /\ path' \in Seq(Masks)
         /\ pushed' \in Nat /\ runs' \in Nat
         /\ AudioTracksRuns' /\ VoiceEndsOnce'
<1>1. rt \in CartState /\ EndsOnce(rt)
  BY DEF IInv, RetroTypeOK, VoiceEndsOnce
<1>2. rt' \in CartState /\ EndsOnce(rt')
  BY <1>1, UpdatesSound DEF Frame
<1>3. pushed' \in Nat /\ runs' \in Nat /\ AudioTracksRuns'
  <2>1. pushed' = pushed + AudioFrames /\ runs' = runs + 1
    BY DEF Frame
  <2>2. pushed \in Nat /\ runs \in Nat /\ AudioTracksRuns
    BY DEF IInv, RetroTypeOK
  <2> QED BY <2>1, <2>2, BatchKeepsUp DEF AudioTracksRuns
<1>4. path' \in Seq(Masks)
  <2>1. [i \in 1 .. n |-> mask] \in Seq(Masks)
    OBVIOUS
  <2>2. path \in Seq(Masks) /\ path' = path \o [i \in 1 .. n |-> mask]
    BY DEF IInv, RetroTypeOK, Frame
  <2> QED BY <2>1, <2>2
<1> QED BY <1>2, <1>3, <1>4 DEF VoiceEndsOnce

\* A run in the wall-clock mode.
LEMMA RunByClockKeeps ==
  ASSUME IInv, NEW mask \in Masks, NEW delta \in Deltas, RunByClock(mask, delta)
  PROVE  IInv'
<1> DEFINE backlog == acc + delta
           n == CatchUps(backlog)
           left == backlog - n * TickNs
<1> USE ClockAssumption
<1>1. acc \in Nat /\ delta \in Nat /\ backlog \in Nat /\ ticks \in Nat /\ elapsed \in Nat
  BY DEF IInv, RetroTypeOK
<1>2. /\ n \in 0 .. 3 /\ left \in Nat
      /\ left >= TickNs <=> backlog >= 4 * TickNs
  BY <1>1, CatchUpsSound
<1>3. /\ rt # NoRt /\ ~force /\ Frame(mask, n) /\ acc' = Keep(left)
      /\ ticks' = ticks + n /\ elapsed' = elapsed + delta
      /\ late' = (late \/ backlog >= 4 * TickNs)
  <2>1. rt # NoRt /\ ~force /\ elapsed' = elapsed + delta
    BY DEF RunByClock
  <2>2. Frame(mask, n) /\ acc' = Keep(left) /\ ticks' = ticks + n
    BY DEF RunByClock
  <2>3. late' = (late \/ backlog >= 4 * TickNs)
    BY Zenon DEF RunByClock
  <2> QED BY <2>1, <2>2, <2>3, Zenon
<1>4. backlog = n * TickNs + left /\ backlog = acc + delta
  <2>1. n * TickNs \in Nat
    <3> HIDE DEF n, backlog
    <3> QED BY <1>2
  <2> HIDE DEF n
  <2> QED BY <1>1, <2>1
<1> HIDE DEF backlog, n, left
<1>5. /\ rt' \in CartState /\ path' \in Seq(Masks)
      /\ pushed' \in Nat /\ runs' \in Nat /\ AudioTracksRuns' /\ VoiceEndsOnce'
  BY <1>2, <1>3, FrameKeeps
<1>6. UNCHANGED <<inited, force, bufs>>
  BY <1>3 DEF Frame
<1>7. /\ acc' \in 0 .. TickNs - 1 /\ acc' <= left
      /\ backlog < 4 * TickNs => acc' = left
  BY <1>1, <1>2, <1>3 DEF Keep
<1>8. ticks' \in Nat /\ elapsed' \in Nat
  BY <1>1, <1>2, <1>3
<1>9. late' \in BOOLEAN
  BY <1>3
<1>10. RetroTypeOK'
  BY <1>5, <1>6, <1>7, <1>8, <1>9 DEF IInv, RetroTypeOK
<1>11. NoTimeInvented'
  <2>1. ticks' * TickNs = ticks * TickNs + n * TickNs
    BY <1>1, <1>2, <1>3
  <2>2. ticks * TickNs \in Nat /\ n * TickNs \in Nat
    BY <1>1, <1>2
  <2>3. ticks * TickNs + acc <= elapsed /\ (~late => ticks * TickNs + acc = elapsed)
    BY <1>3 DEF IInv, NoTimeInvented
  <2>4. ticks' * TickNs + acc' <= elapsed'
    BY <1>1, <1>2, <1>3, <1>4, <1>7, <2>1, <2>2, <2>3
  <2>5. ASSUME ~late' PROVE ticks' * TickNs + acc' = elapsed'
    <3>0. ~late /\ ~(backlog >= 4 * TickNs)
      BY <1>3, <2>5, Zenon
    <3>1. ~late /\ backlog < 4 * TickNs
      BY <1>1, <3>0
    <3> QED BY <1>1, <1>2, <1>3, <1>4, <1>7, <2>1, <2>2, <2>3, <3>1
  <2> QED BY <2>4, <2>5 DEF NoTimeInvented
<1>12. SavedEndOnce'
  BY <1>6 DEF IInv, SavedEndOnce
<1> QED BY <1>5, <1>10, <1>11, <1>12 DEF IInv

\* A run that makes one update whatever the time.
LEMMA RunForcedKeeps ==
  ASSUME IInv, NEW mask \in Masks, RunForced(mask)
  PROVE  IInv'
<1>1. rt # NoRt /\ force /\ Frame(mask, 1) /\ acc' = 0 /\ ticks' = ticks + 1
      /\ UNCHANGED <<elapsed, late>>
  BY DEF RunForced
<1>2. /\ rt' \in CartState /\ path' \in Seq(Masks)
      /\ pushed' \in Nat /\ runs' \in Nat /\ AudioTracksRuns' /\ VoiceEndsOnce'
  BY <1>1, FrameKeeps
<1>3. UNCHANGED <<inited, force, bufs>>
  BY <1>1 DEF Frame
<1>4. RetroTypeOK'
  BY <1>1, <1>2, <1>3, ClockAssumption DEF IInv, RetroTypeOK
<1>5. NoTimeInvented' /\ SavedEndOnce'
  BY <1>1, <1>3 DEF IInv, NoTimeInvented, SavedEndOnce
<1> QED BY <1>2, <1>4, <1>5 DEF IInv

\* Every call of the frontend keeps the invariant.
LEMMA NextIInv == IInv /\ [RetroNext]_retroVars => IInv'
<1> SUFFICES ASSUME IInv, [RetroNext]_retroVars PROVE IInv'
  OBVIOUS
<1> USE DEF IInv
<1>1. ASSUME NEW f \in BOOLEAN, retro_init(f) PROVE IInv'
  <2>1. RestartClock /\ UNCHANGED <<rt, bufs, path>> /\ pushed' = 0 /\ runs' = 0
        /\ inited' = TRUE /\ force' = f
    BY <1>1 DEF retro_init
  <2>2. RetroTypeOK' /\ NoTimeInvented'
    BY <2>1, RestartKeepsTime DEF RetroTypeOK
  <2>3. AudioTracksRuns'
    BY <2>1, AudioAssumption DEF AudioTracksRuns
  <2> QED BY <2>1, <2>2, <2>3 DEF VoiceEndsOnce, SavedEndOnce
<1>2. CASE retro_deinit
  BY <1>2 DEF retro_deinit, clock, audio, RetroTypeOK, AudioTracksRuns, NoTimeInvented,
              VoiceEndsOnce, SavedEndOnce
<1>3. CASE retro_load_game
  <2>1. RestartClock /\ rt' = FreshCart(NoRt) /\ path' = <<>>
        /\ UNCHANGED <<inited, force, pushed, runs, bufs>>
    BY <1>3 DEF retro_load_game, audio
  <2>2. RetroTypeOK' /\ NoTimeInvented'
    BY <2>1, RestartKeepsTime, FreshIsCart DEF RetroTypeOK
  <2> QED BY <2>1, <2>2, FreshIsCart DEF VoiceEndsOnce, SavedEndOnce, AudioTracksRuns
<1>4. CASE retro_unload_game
  BY <1>4 DEF retro_unload_game, clock, audio, RetroTypeOK, AudioTracksRuns, NoTimeInvented,
              VoiceEndsOnce, SavedEndOnce
<1>5. CASE retro_reset
  <2>1. RestartClock /\ (rt' = NoRt \/ rt' = FreshCart(rt)) /\ path' = <<>>
        /\ UNCHANGED <<inited, force, pushed, runs, bufs>>
    BY <1>5 DEF retro_reset, audio
  <2>2. RetroTypeOK' /\ NoTimeInvented'
    BY <2>1, RestartKeepsTime, FreshIsCart DEF RetroTypeOK
  <2> QED BY <2>1, <2>2, FreshIsCart DEF VoiceEndsOnce, SavedEndOnce, AudioTracksRuns
<1>6. ASSUME NEW mask \in Masks, NEW delta \in Deltas, RunByClock(mask, delta)
      PROVE  IInv'
  BY <1>6, RunByClockKeeps
<1>7. ASSUME NEW mask \in Masks, RunForced(mask) PROVE IInv'
  BY <1>7, RunForcedKeeps
<1>8. ASSUME NEW b \in Buffers, retro_serialize(b) PROVE IInv'
  <2>1. rt \in CartState /\ EndsOnce(rt) /\ path \in Seq(Masks)
    BY <1>8 DEF retro_serialize, RetroTypeOK, VoiceEndsOnce
  <2>2. /\ bufs' = [bufs EXCEPT ![b] = Saved(rt, path)]
        /\ UNCHANGED <<inited, force, rt, acc, elapsed, ticks, late, pushed, runs, path>>
    BY <1>8 DEF retro_serialize, clock, audio
  <2>3. Saved(rt, path) \in Buffer /\ Saved(rt, path).cart = rt
    BY <2>1 DEF Saved, Buffer
  <2>4. \A c \in Buffers : bufs'[c] = IF c = b THEN Saved(rt, path) ELSE bufs[c]
    BY <2>2 DEF RetroTypeOK
  <2>5. bufs' \in [Buffers -> Buffer]
    BY <2>2, <2>3 DEF RetroTypeOK
  <2>6. RetroTypeOK'
    BY <2>1, <2>2, <2>3, <2>4, <2>5 DEF RetroTypeOK
  <2>7. SavedEndOnce'
    BY <2>1, <2>3, <2>4 DEF SavedEndOnce
  <2> QED BY <2>2, <2>6, <2>7 DEF VoiceEndsOnce, AudioTracksRuns, NoTimeInvented
<1>9. ASSUME NEW b \in Buffers, NEW t \in BOOLEAN, retro_unserialize(b, t) PROVE IInv'
  <2>1. UNCHANGED <<inited, force, acc, elapsed, ticks, late, pushed, runs, bufs>>
    BY <1>9 DEF retro_unserialize, clock, audio
  <2>2. \/ rt' = FreshCart(rt) /\ path' = <<>>
        \/ bufs[b].from = "own" /\ rt' = bufs[b].cart /\ path' = bufs[b].path
    BY <1>9 DEF retro_unserialize, Acceptable, Restored
  <2>3. rt' \in CartState /\ EndsOnce(rt')
    BY <2>2, FreshIsCart DEF RetroTypeOK, SavedEndOnce
  <2>4. path' \in Seq(Masks)
    <3>1. <<>> \in Seq(Masks)
      OBVIOUS
    <3>2. bufs[b] \in Buffer
      BY DEF RetroTypeOK
    <3>3. bufs[b].path \in Seq(Masks)
      BY <3>2 DEF Buffer
    <3> QED BY <2>2, <3>1, <3>3
  <2>5. RetroTypeOK'
    BY <2>1, <2>3, <2>4 DEF RetroTypeOK
  <2> QED BY <2>1, <2>3, <2>5 DEF VoiceEndsOnce, AudioTracksRuns, NoTimeInvented,
                                  SavedEndOnce
<1>10. CASE UNCHANGED retroVars
  BY <1>10 DEF retroVars, clock, audio, RetroTypeOK, AudioTracksRuns, NoTimeInvented,
               VoiceEndsOnce, SavedEndOnce
<1> QED BY <1>1, <1>2, <1>3, <1>4, <1>5, <1>6, <1>7, <1>8, <1>9, <1>10 DEF RetroNext

\* The inductive invariant holds in every reachable state.
THEOREM RetroInvariant == RetroSpec => []IInv
  BY InitIInv, NextIInv, PTL DEF RetroSpec

\* The adapter's and the runtime's state keep their types; the accumulator
\* is below one tick after every call.
THEOREM TypeCorrect == RetroSpec => []RetroTypeOK
<1>1. IInv => RetroTypeOK
  BY DEF IInv
<1> QED BY <1>1, RetroInvariant, PTL

\* The samples pushed stay within one sample of what the runs owe, for every
\* audio rate, frame rate and mix buffer that holds one frame's samples.
THEOREM AudioDrift == RetroSpec => []AudioTracksRuns
<1>1. IInv => AudioTracksRuns
  BY DEF IInv
<1> QED BY <1>1, RetroInvariant, PTL

\* The accumulator accounts for every unit of time that passed.
THEOREM TimeAccounted == RetroSpec => []NoTimeInvented
<1>1. IInv => NoTimeInvented
  BY DEF IInv
<1> QED BY <1>1, RetroInvariant, PTL

\* Both clocks of the adapter, for every rate, tick, delay and frontend.
THEOREM ClocksAlwaysAgree == RetroSpec => []ClocksAgree
  BY AudioDrift, TimeAccounted, PTL DEF ClocksAgree

\* No reset, rewind or refused buffer makes a voice end twice.
THEOREM EndsOnceEver == RetroSpec => []VoiceEndsOnce
<1>1. IInv => VoiceEndsOnce
  BY DEF IInv
<1> QED BY <1>1, RetroInvariant, PTL

------------------------------------------------------------------------------
(* Rewind.  Golden is a recursive function of the masks; what it computes  *)
(* is proved by looking at the least number of masks that would disagree.  *)

\* A non-empty set of numbers has a least one.
LEMMA LeastNat ==
  ASSUME NEW S \in SUBSET Nat, S # {}
  PROVE  \E i \in S : \A j \in S : i <= j
<1>1. PICK i \in S : \A j \in S : ~(<<j, i>> \in OpToRel(<, Nat))
  BY WFMin, NatLessThanWellFounded, Zenon
<1>2. \A j \in S : i <= j
  <2> TAKE j \in S
  <2>1. i \in Nat /\ j \in Nat
    OBVIOUS
  <2>2. <<j, i>> \in Nat \X Nat /\ <<j, i>>[1] = j /\ <<j, i>>[2] = i
    BY <2>1
  <2>3. ~(j < i)
    BY <1>1, <2>2, Zenon DEF OpToRel
  <2> QED BY <2>1, <2>3
<1> QED BY <1>2

\* The states of an undisturbed cart, one after each mask.
IsRun(f, masks) ==
  f = [n \in 0 .. Len(masks) |-> IF n = 0 THEN FreshCart(NoRt) ELSE Update(f[n - 1], masks[n])]

\* Every sequence of masks has a run: the first one without would extend the
\* run of the masks before its last.
LEMMA RunExists ==
  ASSUME NEW masks \in Seq(Masks)
  PROVE  \E f : IsRun(f, masks)
<1> DEFINE N == Len(masks)
           Upto(n, f) == f = [i \in 0 .. n |-> IF i = 0 THEN FreshCart(NoRt)
                                               ELSE Update(f[i - 1], masks[i])]
           Bad == {n \in 0 .. N : ~ \E f : Upto(n, f)}
<1>1. N \in Nat
  OBVIOUS
<1>2. SUFFICES Bad = {}
  <2>1. N \in 0 .. N
    BY <1>1
  <2> QED BY <2>1, <1>2 DEF IsRun
<1>3. SUFFICES ASSUME Bad # {} PROVE FALSE
  OBVIOUS
<1>4. PICK n \in Bad : \A j \in Bad : n <= j
  <2>1. Bad \in SUBSET Nat
    BY <1>1
  <2> HIDE DEF Bad
  <2> QED BY <1>3, <2>1, LeastNat
<1>5. n \in 0 .. N /\ ~ \E f : Upto(n, f)
  OBVIOUS
<1>6. CASE n = 0
  <2> DEFINE g == [i \in 0 .. 0 |-> FreshCart(NoRt)]
  <2>1. Upto(0, g)
    OBVIOUS
  <2> QED BY <1>5, <1>6, <2>1
<1>7. CASE n # 0
  <2>1. n - 1 \in 0 .. N /\ n - 1 \notin Bad /\ n \in Nat
    <3>1. n \in Nat /\ n - 1 \in 0 .. N /\ ~(n <= n - 1)
      BY <1>1, <1>5, <1>7
    <3> HIDE DEF Bad
    <3> QED BY <1>4, <3>1
  <2>2. PICK f : Upto(n - 1, f)
    BY <2>1
  <2> DEFINE g == [i \in 0 .. n |-> IF i = n THEN Update(f[n - 1], masks[n]) ELSE f[i]]
  <2>3. \A i \in 0 .. n - 1 : g[i] = f[i]
    BY <2>1
  <2>4. \A i \in 0 .. n : i # 0 => i - 1 \in 0 .. n - 1
    BY <2>1
  <2>5. \A i \in 0 .. n : g[i] = IF i = 0 THEN FreshCart(NoRt) ELSE Update(g[i - 1], masks[i])
    <3> TAKE i \in 0 .. n
    <3>1. CASE i = n
      BY <1>7, <2>3, <2>4, <3>1
    <3>2. CASE i # n
      <4>1. i \in 0 .. n - 1
        BY <2>1, <3>2
      <4>2. f[i] = IF i = 0 THEN FreshCart(NoRt) ELSE Update(f[i - 1], masks[i])
        BY <2>2, <4>1
      <4> HIDE DEF g
      <4> QED BY <2>3, <2>4, <4>1, <4>2
    <3> QED BY <3>1, <3>2
  <2>6. DOMAIN g = 0 .. n
    OBVIOUS
  <2>7. g = [i \in DOMAIN g |-> g[i]]
    OBVIOUS
  <2> HIDE DEF g
  <2>8. Upto(n, g)
    BY <2>5, <2>6, <2>7
  <2> QED BY <1>5, <2>8
<1> QED BY <1>6, <1>7

\* Golden is the last state of such a run.
LEMMA GoldenIsLast ==
  ASSUME NEW masks \in Seq(Masks)
  PROVE  \E f : IsRun(f, masks) /\ Golden(masks) = f[Len(masks)]
<1> DEFINE f == CHOOSE g : IsRun(g, masks)
<1>1. IsRun(f, masks)
  BY RunExists
<1>2. Golden(masks) = f[Len(masks)]
  BY DEF Golden, IsRun
<1> QED BY <1>1, <1>2

\* Two runs of masks that begin alike begin alike.
LEMMA RunUnique ==
  ASSUME NEW a \in Seq(Masks), NEW b \in Seq(Masks), Len(a) <= Len(b),
         \A i \in 1 .. Len(a) : a[i] = b[i],
         NEW f, NEW g, IsRun(f, a), IsRun(g, b)
  PROVE  f[Len(a)] = g[Len(a)]
<1> DEFINE N == Len(a)
           Bad == {n \in 0 .. N : f[n] # g[n]}
<1>1. N \in Nat /\ Len(b) \in Nat
  OBVIOUS
<1>2. SUFFICES ASSUME Bad # {} PROVE FALSE
  BY <1>1
<1>3. PICK n \in Bad : \A j \in Bad : n <= j
  <2>1. Bad \in SUBSET Nat
    BY <1>1
  <2> HIDE DEF Bad
  <2> QED BY <1>2, <2>1, LeastNat
<1>4. n \in 0 .. N /\ f[n] # g[n]
  OBVIOUS
<1>5. n \in 0 .. Len(b) /\ n \in Nat
  BY <1>1, <1>4
<1>6. /\ f[n] = IF n = 0 THEN FreshCart(NoRt) ELSE Update(f[n - 1], a[n])
      /\ g[n] = IF n = 0 THEN FreshCart(NoRt) ELSE Update(g[n - 1], b[n])
  BY <1>4, <1>5 DEF IsRun
<1>7. n # 0 /\ n - 1 \in 0 .. N /\ ~(n <= n - 1) /\ n \in 1 .. N
  BY <1>1, <1>4, <1>5, <1>6
<1>8. f[n - 1] = g[n - 1]
  <2>1. n - 1 \notin Bad
    <3> HIDE DEF Bad
    <3> QED BY <1>3, <1>7
  <2> QED BY <1>7, <2>1
<1> QED BY <1>4, <1>6, <1>7, <1>8

\* One more mask is one more update.
LEMMA GoldenStep ==
  ASSUME NEW masks \in Seq(Masks), NEW m \in Masks
  PROVE  Golden(Append(masks, m)) = Update(Golden(masks), m)
<1> PICK b : b = Append(masks, m)
  OBVIOUS
<1>1. /\ b \in Seq(Masks) /\ Len(b) = Len(masks) + 1 /\ b[Len(b)] = m
      /\ Len(masks) \in Nat /\ \A i \in 1 .. Len(masks) : masks[i] = b[i]
  OBVIOUS
<1>2. PICK f : IsRun(f, masks) /\ Golden(masks) = f[Len(masks)]
  BY GoldenIsLast
<1>3. PICK g : IsRun(g, b) /\ Golden(b) = g[Len(b)]
  BY <1>1, GoldenIsLast
<1>4. f[Len(masks)] = g[Len(masks)]
  <2>1. Len(masks) <= Len(b)
    BY <1>1
  <2> QED BY ONLY masks \in Seq(Masks), <1>1, <1>2, <1>3, <2>1, RunUnique
<1>5. g[Len(b)] = Update(g[Len(b) - 1], b[Len(b)])
  <2>1. Len(b) \in 0 .. Len(b) /\ Len(b) # 0
    BY <1>1
  <2> QED BY <1>3, <2>1 DEF IsRun
<1>6. Len(b) - 1 = Len(masks)
  BY <1>1
<1> QED BY <1>1, <1>2, <1>3, <1>4, <1>5, <1>6

\* No mask, no update.
LEMMA GoldenEmpty == Golden(<<>>) = FreshCart(NoRt)
<1>1. <<>> \in Seq(Masks) /\ Len(<<>>) = 0
  OBVIOUS
<1>2. PICK f : IsRun(f, <<>>) /\ Golden(<<>>) = f[0]
  BY <1>1, GoldenIsLast
<1>3. f = [n \in 0 .. 0 |-> IF n = 0 THEN FreshCart(NoRt) ELSE Update(f[n - 1], <<>>[n])]
  BY <1>1, <1>2 DEF IsRun
<1> QED BY <1>2, <1>3

\* The masks of a run, one at a time.
LEMMA Masked ==
  ASSUME NEW s \in Seq(Masks), NEW m \in Masks, NEW n \in Nat
  PROVE  /\ s \o [i \in 1 .. 0 |-> m] = s
         /\ s \o [i \in 1 .. (n + 1) |-> m] = Append(s \o [i \in 1 .. n |-> m], m)
<1> DEFINE t == [i \in 1 .. n |-> m]
           u == [i \in 1 .. (n + 1) |-> m]
<1>1. t \in Seq(Masks) /\ u \in Seq(Masks) /\ Len(t) = n /\ Len(u) = n + 1
  OBVIOUS
<1>2. s \o [i \in 1 .. 0 |-> m] = s
  OBVIOUS
<1>3. u = Append(t, m)
  OBVIOUS
<1> HIDE DEF t, u
<1>4. s \o Append(t, m) = Append(s \o t, m)
  BY <1>1
<1> QED BY <1>2, <1>3, <1>4 DEF t, u

\* So are the updates of one run.
LEMMA GoldenUpdates ==
  ASSUME NEW masks \in Seq(Masks), NEW m \in Masks, NEW n \in 0 .. 3
  PROVE  Updates(Golden(masks), m, n) = Golden(masks \o [i \in 1 .. n |-> m])
<1> PICK a : a = Append(masks, m)
  OBVIOUS
<1> PICK b : b = Append(a, m)
  OBVIOUS
<1> PICK c : c = Append(b, m)
  OBVIOUS
<1>1. a \in Seq(Masks) /\ b \in Seq(Masks)
  OBVIOUS
<1>2. /\ Golden(a) = Update(Golden(masks), m) /\ Golden(b) = Update(Golden(a), m)
      /\ Golden(c) = Update(Golden(b), m)
  BY <1>1, GoldenStep
<1>3. Updates(Golden(masks), m, n)
        = <<Golden(masks), Golden(a), Golden(b), Golden(c)>>[n + 1]
  BY <1>2 DEF Updates
<1>4. /\ masks \o [i \in 1 .. 0 |-> m] = masks
      /\ masks \o [i \in 1 .. 1 |-> m] = a
      /\ masks \o [i \in 1 .. 2 |-> m] = b
      /\ masks \o [i \in 1 .. 3 |-> m] = c
  <2>1. 1 = 0 + 1 /\ 2 = 1 + 1 /\ 3 = 2 + 1
    OBVIOUS
  <2>2. \A k \in Nat : masks \o [i \in 1 .. (k + 1) |-> m]
                        = Append(masks \o [i \in 1 .. k |-> m], m)
    BY Masked
  <2>3. masks \o [i \in 1 .. 0 |-> m] = masks
    BY Masked
  <2>4. masks \o [i \in 1 .. 1 |-> m] = a
    BY <2>1, <2>2, <2>3
  <2>5. masks \o [i \in 1 .. 2 |-> m] = b
    BY <2>1, <2>2, <2>4
  <2> QED BY <2>1, <2>2, <2>3, <2>4, <2>5
<1>5. n = 0 \/ n = 1 \/ n = 2 \/ n = 3
  OBVIOUS
<1>6. /\ n = 0 => Updates(Golden(masks), m, n) = Golden(masks)
      /\ n = 1 => Updates(Golden(masks), m, n) = Golden(a)
      /\ n = 2 => Updates(Golden(masks), m, n) = Golden(b)
      /\ n = 3 => Updates(Golden(masks), m, n) = Golden(c)
  BY <1>3
<1>7. CASE n = 0
  BY ONLY <1>4, <1>6, <1>7
<1>8. CASE n = 1
  BY ONLY <1>4, <1>6, <1>8
<1>9. CASE n = 2
  BY ONLY <1>4, <1>6, <1>9
<1>10. CASE n = 3
  BY ONLY <1>4, <1>6, <1>10
<1> QED BY <1>5, <1>7, <1>8, <1>9, <1>10

\* Every cart is the golden one of its masks: the running one and the ones
\* in the frontend's buffers.
SavedGolden == \A b \in Buffers :
  bufs[b].from = "own" => bufs[b].cart = Golden(bufs[b].path)
Rewinds == RewindIsExact /\ SavedGolden

\* Every call of the frontend keeps that.
LEMMA NextRewinds == IInv /\ Rewinds /\ [RetroNext]_retroVars => Rewinds'
<1> SUFFICES ASSUME IInv, Rewinds, [RetroNext]_retroVars PROVE Rewinds'
  OBVIOUS
<1> USE DEF Rewinds, RewindIsExact, SavedGolden
<1>0. path \in Seq(Masks) /\ RetroTypeOK
  BY DEF IInv, RetroTypeOK
<1>f. \A s : FreshCart(s) = Golden(<<>>)
  BY GoldenEmpty DEF FreshCart
<1>1. ASSUME NEW f \in BOOLEAN, retro_init(f) PROVE Rewinds'
  BY <1>1 DEF retro_init
<1>2. CASE retro_deinit \/ retro_unload_game
  BY <1>2 DEF retro_deinit, retro_unload_game
<1>3. CASE retro_load_game
  BY <1>3, <1>f DEF retro_load_game
<1>4. CASE retro_reset
  BY <1>4, <1>f DEF retro_reset
<1>5. ASSUME NEW mask \in Masks, NEW n \in 0 .. 3, rt # NoRt, Frame(mask, n)
      PROVE  Rewinds'
  <2>1. rt' = Golden(path')
    BY <1>0, <1>5, GoldenUpdates DEF Frame
  <2> QED BY <1>5, <2>1 DEF Frame
<1>6. ASSUME NEW mask \in Masks, NEW delta \in Deltas, RunByClock(mask, delta)
      PROVE  Rewinds'
  <2>1. CatchUps(acc + delta) \in 0 .. 3
    <3>1. acc + delta \in Nat
      BY <1>0, ClockAssumption DEF RetroTypeOK
    <3> QED BY <3>1, CatchUpsSound
  <2> QED BY <1>5, <1>6, <2>1 DEF RunByClock
<1>7. ASSUME NEW mask \in Masks, RunForced(mask) PROVE Rewinds'
  BY <1>5, <1>7 DEF RunForced
<1>8. ASSUME NEW b \in Buffers, retro_serialize(b) PROVE Rewinds'
  <2>1. \A c \in Buffers : bufs'[c] = IF c = b THEN Saved(rt, path) ELSE bufs[c]
    BY <1>0, <1>8 DEF retro_serialize, RetroTypeOK
  <2>2. Saved(rt, path).cart = rt /\ Saved(rt, path).path = path
    BY DEF Saved
  <2> QED BY <1>8, <2>1, <2>2 DEF retro_serialize
<1>9. ASSUME NEW b \in Buffers, NEW t \in BOOLEAN, retro_unserialize(b, t)
      PROVE  Rewinds'
  <2>1. \/ rt' = FreshCart(rt) /\ path' = <<>>
        \/ bufs[b].from = "own" /\ rt' = bufs[b].cart /\ path' = bufs[b].path
    BY <1>9 DEF retro_unserialize, Acceptable, Restored
  <2> QED BY <1>9, <1>f, <2>1 DEF retro_unserialize
<1>10. CASE UNCHANGED retroVars
  BY <1>10 DEF retroVars
<1> QED BY <1>1, <1>2, <1>3, <1>4, <1>6, <1>7, <1>8, <1>9, <1>10 DEF RetroNext

\* After any runs, saves, accepted and refused loads and resets, the tracked
\* state is the one an undisturbed cart reaches with the same masks.
THEOREM RewindsExactly == RetroSpec => []RewindIsExact
<1>1. RetroInit => Rewinds
  BY DEF RetroInit, Rewinds, RewindIsExact, SavedGolden
<1>2. Rewinds => RewindIsExact
  BY DEF Rewinds
<1> QED BY <1>1, <1>2, RetroInvariant, NextRewinds, PTL DEF RetroSpec

------------------------------------------------------------------------------
(* The console runtime and the calls into the emulator (ConsoleLua), for   *)
(* every cart file, every argument list, every number of registers' values *)
(* and trampolines.                                                        *)

\* A set of places that is not empty has a last one.
LEMMA LastPlace ==
  ASSUME NEW n \in Nat, NEW S \in SUBSET (1 .. n), S # {}
  PROVE  \E i \in S : \A j \in S : j <= i
<1> DEFINE T == {d \in 0 .. n : \E i \in S : d = n - i}
<1>1. T \in SUBSET Nat /\ T # {}
  <2> PICK i \in S : TRUE
    OBVIOUS
  <2>1. n - i \in T
    OBVIOUS
  <2>2. \A d \in T : d \in Nat
    OBVIOUS
  <2> HIDE DEF T
  <2> QED BY <2>1, <2>2
<1> HIDE DEF T
<1>2. PICK d \in T : \A e \in T : d <= e
  BY <1>1, LeastNat
<1>3. PICK i \in S : d = n - i
  BY <1>2 DEF T
<1>4. \A j \in S : n - j \in T
  BY DEF T
<1>5. \A j \in S : j <= i
  <2> TAKE j \in S
  <2>1. d <= n - j /\ i \in Int /\ j \in Int
    BY <1>2, <1>4
  <2> QED BY <1>3, <2>1
<1> QED BY <1>5

\* Sets of places are finite.
LEMMA PlacesFinite ==
  ASSUME NEW n \in Nat, NEW S \in SUBSET (1 .. n)
  PROVE  IsFiniteSet(S) /\ Cardinality(S) \in Nat /\ Cardinality(S) <= n
<1>1. IsFiniteSet(1 .. n) /\ Cardinality(1 .. n) = n
  BY FS_Interval
<1>2. IsFiniteSet(S) /\ Cardinality(S) <= Cardinality(1 .. n)
  BY <1>1, FS_Subset
<1> QED BY <1>1, <1>2, FS_CardinalityType

\* The places of a set are numbered without a gap.
LEMMA Ranked ==
  ASSUME NEW n \in Nat, NEW S \in SUBSET (1 .. n), NEW k \in 1 .. Cardinality(S)
  PROVE  \E i \in S : Cardinality({j \in S : j <= i}) = k
<1> DEFINE Upto(i) == {j \in S : j <= i}
           T == {i \in 0 .. n : Cardinality(Upto(i)) >= k}
<1>1. \A i \in 0 .. n : /\ IsFiniteSet(Upto(i)) /\ Cardinality(Upto(i)) \in Nat
  <2> TAKE i \in 0 .. n
  <2>1. Upto(i) \in SUBSET (1 .. n)
    OBVIOUS
  <2> QED BY <2>1, PlacesFinite
<1>2. n \in T
  <2>1. Upto(n) = S
    <3>1. \A j \in S : j <= n
      OBVIOUS
    <3> QED BY <3>1, Zenon
  <2>2. Cardinality(S) \in Nat
    BY PlacesFinite
  <2> QED BY <2>1, <2>2
<1>3. T \in SUBSET Nat
  <2>1. \A i \in T : i \in Nat
    OBVIOUS
  <2> HIDE DEF T
  <2> QED BY <2>1
<1>4. 0 \notin T
  <2>1. Upto(0) = {}
    <3>1. \A j \in S : ~(j <= 0)
      OBVIOUS
    <3> QED BY <3>1, Zenon
  <2>2. Cardinality(Upto(0)) = 0
    BY <2>1, FS_EmptySet
  <2> QED BY <2>2
<1>5. PICK i \in T : \A j \in T : i <= j
  BY <1>2, <1>3, LeastNat
<1>6. i \in 1 .. n /\ i - 1 \in 0 .. n /\ i - 1 \notin T
  <2>1. i \in 0 .. n
    OBVIOUS
  <2> HIDE DEF T
  <2>2. i # 0
    BY <1>4, <1>5
  <2> QED BY <1>5, <2>1, <2>2
<1>7. Cardinality(Upto(i)) >= k /\ ~(Cardinality(Upto(i - 1)) >= k)
  <2>1. \A j \in 0 .. n : j \in T <=> Cardinality(Upto(j)) >= k
    BY Zenon
  <2> HIDE DEF T, Upto
  <2> QED BY <1>5, <1>6, <2>1
<1>8. Upto(i) = IF i \in S THEN Upto(i - 1) \cup {i} ELSE Upto(i - 1)
  <2>1. \A j \in S : j <= i <=> (j <= i - 1 \/ j = i)
    BY <1>6
  <2>2. i \in S => i <= i
    BY <1>6
  <2>3. \A j : j \in Upto(i) <=> (j \in S /\ (j \in Upto(i - 1) \/ j = i))
    BY <2>1, Zenon
  <2>4. \A j \in Upto(i - 1) : j \in S
    OBVIOUS
  <2> HIDE DEF Upto
  <2> QED BY <2>3, <2>4, Zenon
<1>9. i \in S
  <2> SUFFICES ASSUME i \notin S PROVE FALSE
    OBVIOUS
  <2>1. Upto(i) = Upto(i - 1)
    BY <1>8
  <2> HIDE DEF Upto
  <2> QED BY <1>7, <2>1
<1>10. Cardinality(Upto(i)) = Cardinality(Upto(i - 1)) + 1
  <2>1. i \notin Upto(i - 1)
    BY <1>6
  <2>2. Upto(i) = Upto(i - 1) \cup {i}
    BY <1>8, <1>9
  <2>3. IsFiniteSet(Upto(i - 1))
    BY <1>1, <1>6
  <2> HIDE DEF Upto
  <2> QED BY <2>1, <2>2, <2>3, FS_AddElement
<1>11. Cardinality(Upto(i)) = k
  <2>1. /\ Cardinality(Upto(i)) \in Nat /\ Cardinality(Upto(i - 1)) \in Nat
    BY <1>1, <1>6
  <2>2. k \in Int
    OBVIOUS
  <2> HIDE DEF Upto
  <2> QED BY <1>7, <1>10, <2>1, <2>2
<1> QED BY <1>9, <1>11

\* What the proofs use of a cart file.
LEMMA CartFacts ==
  ASSUME NEW c \in Carts
  PROVE  /\ c.section \in Seq([module : STRING, name : STRING, sym_addr : Nat,
                               args : Seq(Types), ret : Types])
         /\ \A i \in 1 .. Len(c.section) : Len(c.section[i].args) <= 4
         /\ \A n \in DOMAIN c.symtab : c.symtab[n] \in Nat \ {0}
         /\ \A a \in DOMAIN c.code :
              c.code[a] \in [op : {"add", "mul", "mix"}, args : Seq(Types),
                             ret : Types, exits : BOOLEAN]
         /\ ExportsMatchCode(c)
BY CartFileAssumption

\* The reader's live entries are the cart's exports.
LEMMA LiveAreExports ==
  ASSUME cart \in Carts
  PROVE  LiveEntries = Exports /\ LiveEntries \in SUBSET (1 .. Len(cart.section))
         /\ Len(cart.section) \in Nat
<1>1. Len(cart.section) \in Nat
  BY CartFacts
<1>2. \A i \in 1 .. Len(cart.section) : cart.section[i].sym_addr # 0 =>
         ((\A j \in 1 .. (i - 1) : ~IsTerminator(cart.section[j]))
            <=> \A j \in 1 .. i : ~IsTerminator(cart.section[j]))
  <2> TAKE i \in 1 .. Len(cart.section)
  <2> HAVE cart.section[i].sym_addr # 0
  <2>1. ~IsTerminator(cart.section[i])
    BY DEF IsTerminator
  <2>2. \A j \in 1 .. i : j = i \/ j \in 1 .. (i - 1)
    BY <1>1
  <2>3. \A j \in 1 .. (i - 1) : j \in 1 .. i
    BY <1>1
  <2> QED BY <2>1, <2>2, <2>3, Zenon
<1>3. \A i : i \in LiveEntries <=> i \in Exports
  BY <1>2, Zenon DEF LiveEntries, Exports, ExportsOf
<1>4. \A i \in LiveEntries : i \in 1 .. Len(cart.section)
  BY Zenon DEF LiveEntries
<1> QED BY <1>1, <1>3, <1>4, Zenon

\* Every trampoline stands for an export and goes to its address; the registry
\* holds no more than it has room for, and no more than there are exports.
LEMMA ReadExportsSound ==
  ASSUME cart \in Carts
  PROVE  /\ DOMAIN ReadExports = 1 .. Len(ReadExports) /\ Len(ReadExports) \in Nat
         /\ Len(ReadExports) <= MAX_TRAMPOLINES
         /\ Len(ReadExports) <= Cardinality(Exports)
         /\ \A k \in 1 .. Len(ReadExports) : \E i \in Exports :
              ReadExports[k] = [cart.section[i] EXCEPT !.sym_addr = ExportAddress(cart.section[i])]
<1> DEFINE live == Cardinality(LiveEntries)
           n == IF live > MAX_TRAMPOLINES THEN MAX_TRAMPOLINES ELSE live
<1>1. live \in Nat
  BY LiveAreExports, PlacesFinite
<1>2. n \in Nat /\ n <= MAX_TRAMPOLINES /\ n <= live
  BY <1>1, ConsoleAssumption
<1>3. ReadExports = [k \in 1 .. n |-> Resolved(cart.section[LiveEntry(k)])]
  BY DEF ReadExports
<1> HIDE DEF n
<1>4. DOMAIN ReadExports = 1 .. n /\ Len(ReadExports) = n
  BY <1>2, <1>3
<1>5. ASSUME NEW k \in 1 .. n
      PROVE  \E i \in Exports : ReadExports[k]
               = [cart.section[i] EXCEPT !.sym_addr = ExportAddress(cart.section[i])]
  <2>1. k \in 1 .. live
    BY <1>1, <1>2
  <2>2. \E i \in LiveEntries : Cardinality({j \in LiveEntries : j <= i}) = k
    BY <2>1, LiveAreExports, Ranked
  <2>3. LiveEntry(k) \in LiveEntries
    BY <2>2 DEF LiveEntry
  <2>4. ReadExports[k] = Resolved(cart.section[LiveEntry(k)])
    BY <1>3
  <2>5. LiveEntry(k) \in Exports
    BY <2>3, LiveAreExports
  <2> QED BY <2>4, <2>5 DEF Resolved
<1>6. Cardinality(Exports) = live
  BY LiveAreExports
<1> QED BY <1>2, <1>4, <1>5, <1>6

\* A function of a module's table is a trampoline of that module and name.
LEMMA TablesSound ==
  ASSUME NEW tr, Len(tr) \in Nat,
         NEW m \in DOMAIN ModuleTables(tr), NEW n \in DOMAIN ModuleTables(tr)[m]
  PROVE  /\ ModuleTables(tr)[m][n] \in 1 .. Len(tr)
         /\ tr[ModuleTables(tr)[m][n]].module = m
         /\ tr[ModuleTables(tr)[m][n]].name = n
<1> DEFINE P == 1 .. Len(tr)
           last == CHOOSE i \in 1..Len(tr) :
                     tr[i].module = m /\ \A j \in (i + 1)..Len(tr) : tr[j].module # m
           run == {i \in 1..last : \A j \in i..last : tr[j].module = m}
           pick(x) == CHOOSE i \in run : tr[i].name = x /\
                                   \A j \in run : tr[j].name = x => j <= i
<1>1. m \in {tr[i].module : i \in P}
  BY DEF ModuleTables
<1>2. ModuleTables(tr)[m] = [x \in {tr[i].name : i \in run} |-> pick(x)]
  BY <1>1 DEF ModuleTables
<1>3. last \in P
  <2> DEFINE S == {i \in P : tr[i].module = m}
  <2>1. S \in SUBSET P /\ S # {}
    BY <1>1
  <2>2. PICK i \in S : \A j \in S : j <= i
    <3> HIDE DEF S
    <3> QED BY <2>1, LastPlace
  <2>3. i \in P /\ tr[i].module = m /\ \A j \in (i + 1)..Len(tr) : tr[j].module # m
    BY <2>2
  <2> QED BY <2>3
<1> HIDE DEF last
<1>4. run \in SUBSET P /\ \A i \in run : tr[i].module = m
  BY <1>3
<1>5. n \in {tr[i].name : i \in run}
  BY <1>2
<1>6. pick(n) \in run /\ tr[pick(n)].name = n
  <2> DEFINE S == {i \in run : tr[i].name = n}
  <2>1. S \in SUBSET P /\ S # {}
    BY <1>4, <1>5
  <2>2. PICK i \in S : \A j \in S : j <= i
    <3> HIDE DEF S
    <3> QED BY <2>1, LastPlace
  <2> QED BY <2>2
<1>7. ModuleTables(tr)[m][n] = pick(n)
  BY <1>2, <1>5
<1> HIDE DEF pick, run
<1> QED BY <1>4, <1>6, <1>7

\* A register's value is a word, and reading it signed only adds a multiple of
\* its range.
LEMMA WordType ==
  ASSUME NEW v \in Int
  PROVE  Word(v) \in 0 .. (WORD - 1)
BY ConsoleAssumption DEF Word

\* A register read as a signed number.
LEMMA SignedType ==
  ASSUME NEW w \in 0 .. (WORD - 1)
  PROVE  Signed(w) \in Int
BY ConsoleAssumption DEF Signed

\* A small number is its own register value.
LEMMA SmallWord ==
  ASSUME NEW v \in 0 .. 7
  PROVE  Word(v) = v
BY ConsoleAssumption DEF Word

\* Truncation to an integer is total.
LEMMA TruncateType ==
  ASSUME NEW h \in Int
  PROVE  Truncate(h) \in Int
BY DEF Truncate

\* Division with remainder has one remainder.
LEMMA Remainder ==
  ASSUME NEW x \in Int, NEW d \in Nat \ {0}, NEW q \in Int, NEW r \in 0 .. (d - 1),
         x = q * d + r
  PROVE  x % d = r
<1> DEFINE y == x % d
           p == x \div d
<1>1. x = p * d + y /\ y \in 0 .. (d - 1) /\ p \in Int
  OBVIOUS
<1> HIDE DEF y, p
<1>2. (q - p) * d = y - r
  <2>1. (q - p) * d = q * d - p * d
    BY <1>1
  <2>2. q * d \in Int /\ p * d \in Int
    BY <1>1
  <2> QED BY <1>1, <2>1, <2>2
<1>3. q - p = 0
  <2>1. y - r < d /\ y - r > -d
    BY <1>1
  <2>2. ~(q - p >= 1)
    <3>1. ASSUME q - p >= 1 PROVE (q - p) * d >= d
      BY <1>1, <3>1
    <3> QED BY <1>1, <1>2, <2>1, <3>1
  <2>3. ~(q - p <= -1)
    <3>1. ASSUME q - p <= -1 PROVE (q - p) * d <= -d
      BY <1>1, <3>1
    <3> QED BY <1>1, <1>2, <2>1, <3>1
  <2> QED BY <1>1, <2>2, <2>3
<1>4. y = r
  BY <1>1, <1>2, <1>3
<1> QED BY <1>4 DEF y

\* A multiple of the range does not change a word.
LEMMA WordShift ==
  ASSUME NEW x \in Int, NEW q \in Int
  PROVE  Word(x + q * WORD) = Word(x)
<1> DEFINE p == x \div WORD
           r == x % WORD
<1> USE ConsoleAssumption
<1>1. x = p * WORD + r /\ r \in 0 .. (WORD - 1) /\ p \in Int
  OBVIOUS
<1>2. Word(x) = r
  BY DEF Word
<1> HIDE DEF p, r
<1>3. x + q * WORD = (p + q) * WORD + r
  <2>1. (p + q) * WORD = p * WORD + q * WORD
    BY <1>1
  <2>2. p * WORD \in Int /\ q * WORD \in Int
    BY <1>1
  <2> QED BY <1>1, <2>1, <2>2
<1>4. x + q * WORD \in Int /\ p + q \in Int /\ WORD \in Nat \ {0}
  BY <1>1
<1>5. (x + q * WORD) % WORD = r
  BY <1>1, <1>3, <1>4, Remainder
<1> QED BY <1>2, <1>5 DEF Word

\* Reading a register back as signed differs from the number by whole words.
LEMMA SignedIsShift ==
  ASSUME NEW a \in Int
  PROVE  \E q \in Int : Signed(Word(a)) = a + q * WORD
<1> DEFINE p == a \div WORD
           r == a % WORD
<1> USE ConsoleAssumption
<1>1. a = p * WORD + r /\ r \in 0 .. (WORD - 1) /\ p \in Int
  OBVIOUS
<1>2. Word(a) = r
  BY DEF Word
<1> HIDE DEF p, r
<1>3. p * WORD \in Int /\ (-p) * WORD = -(p * WORD)
      /\ (-p - 1) * WORD = -(p * WORD) - WORD
  BY <1>1
<1>4. CASE 2 * r >= WORD
  <2>1. Signed(Word(a)) = r - WORD
    BY <1>2, <1>4 DEF Signed
  <2>2. Signed(Word(a)) = a + (-p - 1) * WORD
    BY <1>1, <1>3, <2>1
  <2>3. -p - 1 \in Int
    BY <1>1
  <2> QED BY <2>2, <2>3, Zenon
<1>5. CASE ~(2 * r >= WORD)
  <2>1. Signed(Word(a)) = r
    BY <1>2, <1>5 DEF Signed
  <2>2. Signed(Word(a)) = a + (-p) * WORD
    BY <1>1, <1>3, <2>1
  <2>3. -p \in Int
    BY <1>1
  <2> QED BY <2>2, <2>3, Zenon
<1> QED BY <1>4, <1>5

\* A product of signed words wraps to the word of the product.
LEMMA ProductWraps ==
  ASSUME NEW a \in Int, NEW b \in Int
  PROVE  Word(Signed(Word(a)) * Signed(Word(b))) = Word(a * b)
<1> USE ConsoleAssumption
<1>1. PICK p \in Int : Signed(Word(a)) = a + p * WORD
  BY SignedIsShift
<1>2. PICK q \in Int : Signed(Word(b)) = b + q * WORD
  BY SignedIsShift
<1> DEFINE s == a * q + p * b + p * (q * WORD)
<1>3. (a + p * WORD) * (b + q * WORD) = a * b + s * WORD
  OBVIOUS
<1>4. s \in Int /\ a * b \in Int
  OBVIOUS
<1> HIDE DEF s
<1>5. Word(a * b + s * WORD) = Word(a * b)
  BY <1>4, WordShift
<1> QED BY <1>1, <1>2, <1>3, <1>5

\* What a script passes reads as a number.
LEMMA ArgumentType ==
  ASSUME NEW args \in Seq(Int), NEW i \in Nat \ {0}
  PROVE  lua_tonumber(args, i) \in Int /\ lua_tointeger(args, i) \in Int
BY DEF lua_tonumber, lua_tointeger

\* What a function receives is a number.
LEMMA ReceivedType ==
  ASSUME NEW f, f.args \in Seq(Types), NEW args \in Seq(Int)
  PROVE  /\ Received(f, args) \in Seq(Int)
         /\ Len(Received(f, args)) = Len(f.args)
<1>1. \A k \in 1 .. Len(f.args) : (IF f.args[k] = "f32" THEN lua_tonumber(args, k)
                                    ELSE Signed(Word(lua_tointeger(args, k)))) \in Int
  <2> TAKE k \in 1 .. Len(f.args)
  <2>1. lua_tonumber(args, k) \in Int /\ lua_tointeger(args, k) \in Int
    BY ArgumentType
  <2>2. Signed(Word(lua_tointeger(args, k))) \in Int
    BY <2>1, WordType, SignedType
  <2> QED BY <2>1, <2>2
<1>2. Len(f.args) \in Nat
  OBVIOUS
<1> QED BY <1>1, <1>2 DEF Received

\* What a function computes is a number.
LEMMA ComputeType ==
  ASSUME NEW op \in {"add", "mul", "mix"}, NEW v \in Seq(Int)
  PROVE  Compute(op, v) \in Int
<1> DEFINE arg(k) == IF k <= Len(v) THEN v[k] ELSE 0
<1>1. arg(1) \in Int /\ arg(2) \in Int /\ arg(3) \in Int /\ arg(4) \in Int
  OBVIOUS
<1>2. Compute(op, v) = CASE op = "add" -> arg(1) + arg(2)
          [] op = "mul" -> arg(1) * arg(2)
          [] op = "mix" -> arg(1) + 2 * arg(2) + 3 * arg(3) + 4 * arg(4)
  BY DEF Compute
<1> HIDE DEF arg
<1>3. CASE op = "add"
  BY <1>1, <1>2, <1>3
<1>4. CASE op = "mul"
  BY <1>1, <1>2, <1>4
<1>5. CASE op = "mix"
  BY <1>1, <1>2, <1>5
<1> QED BY <1>3, <1>4, <1>5

\* The registers of an emulator.
Cpu == [X : [0 .. 5 -> 0 .. (WORD - 1)], F : [0 .. 5 -> Int],
        halt : BOOLEAN, guard : BOOLEAN]

\* trampoline_call marshals words into integer arguments, numbers into floats.
LEMMA MarshalType ==
  ASSUME NEW types \in Seq(Types), NEW args \in Seq(Int)
  PROVE  /\ Len(Marshal(types, args)) = Len(types)
         /\ \A k \in 1 .. Len(types) :
              /\ Marshal(types, args)[k].is_float = (types[k] = "f32")
              /\ types[k] = "f32" => Marshal(types, args)[k].bits = lua_tonumber(args, k)
              /\ types[k] # "f32" => Marshal(types, args)[k].bits = Word(lua_tointeger(args, k))
              /\ lua_tonumber(args, k) \in Int /\ Word(lua_tointeger(args, k)) \in 0 .. (WORD - 1)
<1>1. Len(types) \in Nat
  OBVIOUS
<1>2. ASSUME NEW k \in 1 .. Len(types)
      PROVE lua_tonumber(args, k) \in Int /\ Word(lua_tointeger(args, k)) \in 0 .. (WORD - 1)
  BY ArgumentType, WordType
<1>3. /\ DOMAIN Marshal(types, args) = 1 .. Len(types)
      /\ \A k \in 1 .. Len(types) : Marshal(types, args)[k] =
            IF types[k] = "f32" THEN [is_float |-> TRUE, bits |-> lua_tonumber(args, k)]
            ELSE [is_float |-> FALSE, bits |-> Word(lua_tointeger(args, k))]
  BY DEF Marshal
<1>4. Len(Marshal(types, args)) = Len(types)
  BY <1>1 DEF Marshal
<1>5. \A k \in 1 .. Len(types) :
              /\ Marshal(types, args)[k].is_float = (types[k] = "f32")
              /\ types[k] = "f32" => Marshal(types, args)[k].bits = lua_tonumber(args, k)
              /\ types[k] # "f32" => Marshal(types, args)[k].bits = Word(lua_tointeger(args, k))
  <2> TAKE k \in 1 .. Len(types)
  <2> DEFINE a == Marshal(types, args)[k]
  <2>1. CASE types[k] = "f32"
    <3>1. a = [is_float |-> TRUE, bits |-> lua_tonumber(args, k)]
      BY <1>3, <2>1, Zenon
    <3>2. a.is_float = TRUE /\ a.bits = lua_tonumber(args, k)
      BY <3>1
    <3>3. (types[k] = "f32") = TRUE
      BY <2>1, Zenon
    <3> QED BY <2>1, <3>2, <3>3, Zenon
  <2>2. CASE types[k] # "f32"
    <3>1. a = [is_float |-> FALSE, bits |-> Word(lua_tointeger(args, k))]
      BY <1>3, <2>2, Zenon
    <3>2. a.is_float = FALSE /\ a.bits = Word(lua_tointeger(args, k))
      BY <3>1
    <3>3. (types[k] = "f32") = FALSE
      BY <2>2, Zenon
    <3> QED BY <2>2, <3>2, <3>3, Zenon
  <2> QED BY <2>1, <2>2
<1> QED BY <1>2, <1>4, <1>5

\* A register an argument is placed in holds a value of its class.
LEMMA PlacedType ==
  ASSUME cpu \in Cpu, NEW types \in Seq(Types), NEW args \in Seq(Int)
  PROVE  /\ PlaceArguments(Marshal(types, args)).X \in [0 .. 5 -> 0 .. (WORD - 1)]
         /\ PlaceArguments(Marshal(types, args)).F \in [0 .. 5 -> Int]
<1> DEFINE ms == Marshal(types, args)
<1>1. ASSUME NEW float \in BOOLEAN, NEW r \in 0 .. 5, Placed(ms, float, r) # {}
      PROVE  \E k \in 1 .. Len(types) :
                (types[k] = "f32" <=> float) /\ \A old : Register(ms, float, r, old) = ms[k].bits
  <2> DEFINE k == CHOOSE k \in Placed(ms, float, r) : TRUE
  <2>1. k \in Placed(ms, float, r)
    BY <1>1
  <2>2. k \in 1 .. Len(types) /\ ms[k].is_float = float
    <3>1. Len(ms) = Len(types) /\ Len(types) \in Nat
      BY MarshalType
    <3> HIDE DEF ms, k
    <3> QED BY <2>1, <3>1 DEF Placed
  <2>3. types[k] = "f32" <=> float
    <3> HIDE DEF k
    <3> QED BY <2>2, MarshalType
  <2>4. \A old : Register(ms, float, r, old) = ms[k].bits
    BY <1>1 DEF Register
  <2> QED BY <2>2, <2>3, <2>4
<1>2. ASSUME NEW r \in 0 .. 5 PROVE Register(ms, FALSE, r, cpu.X[r]) \in 0 .. (WORD - 1)
  <2>1. CASE Placed(ms, FALSE, r) = {}
    BY <2>1 DEF Register, Cpu
  <2>2. CASE Placed(ms, FALSE, r) # {}
    <3>1. PICK k \in 1 .. Len(types) :
                types[k] # "f32" /\ \A old : Register(ms, FALSE, r, old) = ms[k].bits
      <4> HIDE DEF ms
      <4> QED BY <1>1, <2>2
    <3>2. ms[k].bits = Word(lua_tointeger(args, k)) /\ ms[k].bits \in 0 .. (WORD - 1)
      BY <3>1, MarshalType
    <3> QED BY <3>1, <3>2
  <2> QED BY <2>1, <2>2
<1>3. ASSUME NEW r \in 0 .. 5 PROVE Register(ms, TRUE, r, cpu.F[r]) \in Int
  <2>1. CASE Placed(ms, TRUE, r) = {}
    BY <2>1 DEF Register, Cpu
  <2>2. CASE Placed(ms, TRUE, r) # {}
    <3>1. PICK k \in 1 .. Len(types) :
                types[k] = "f32" /\ \A old : Register(ms, TRUE, r, old) = ms[k].bits
      <4> HIDE DEF ms
      <4> QED BY <1>1, <2>2
    <3>2. ms[k].bits = lua_tonumber(args, k) /\ ms[k].bits \in Int
      BY <3>1, MarshalType
    <3> QED BY <3>1, <3>2
  <2> QED BY <2>1, <2>2
<1> HIDE DEF ms
<1>4. /\ PlaceArguments(ms).X = [r \in 0..5 |-> Register(ms, FALSE, r, cpu.X[r])]
      /\ PlaceArguments(ms).F = [r \in 0..5 |-> Register(ms, TRUE, r, cpu.F[r])]
  BY DEF PlaceArguments
<1>5. PlaceArguments(ms).X \in [0 .. 5 -> 0 .. (WORD - 1)] /\ PlaceArguments(ms).F \in [0 .. 5 -> Int]
  BY <1>2, <1>3, <1>4
<1> QED BY <1>5 DEF ms

\* The register the ilp32f convention reads the k-th argument from is the one
\* rv32emu_call_fn wrote it to.
LEMMA ArgumentsInPlace ==
  ASSUME cpu \in Cpu, NEW types \in Seq(Types), Len(types) <= 4, NEW args \in Seq(Int),
         NEW k \in 1 .. Len(types)
  PROVE  LET b == Cardinality({j \in 1 .. (k - 1) : types[j] = types[k]})
         IN  /\ types[k] = "f32" =>
                  PlaceArguments(Marshal(types, args)).F[b] = lua_tonumber(args, k)
             /\ types[k] # "f32" =>
                  PlaceArguments(Marshal(types, args)).X[b] = Word(lua_tointeger(args, k))
<1> DEFINE ms == Marshal(types, args)
           float == types[k] = "f32"
           B(i) == {j \in 1 .. (i - 1) : ms[j].is_float = float}
           b == Cardinality({j \in 1 .. (k - 1) : types[j] = types[k]})
<1>0. Len(types) \in Nat /\ k \in Nat /\ k <= 4 /\ Len(ms) = Len(types) /\ k >= 1
  BY MarshalType
<1>1. \A j \in 1 .. Len(types) : ms[j].is_float = (types[j] = "f32")
  BY MarshalType
<1>2. \A j \in 1 .. Len(types) : types[j] \in Types
  OBVIOUS
<1>3. B(k) = {j \in 1 .. (k - 1) : types[j] = types[k]}
  <2>1. \A j \in 1 .. (k - 1) : j \in 1 .. Len(types)
    BY <1>0
  <2>2. \A j \in 1 .. (k - 1) : (ms[j].is_float = float) <=> types[j] = types[k]
    <3> HIDE DEF ms
    <3> QED BY <1>1, <1>2, <2>1 DEF Types
  <2> HIDE DEF ms, float
  <2> QED BY <2>2
<1>4. \A i \in 1 .. Len(types) : IsFiniteSet(B(i)) /\ Cardinality(B(i)) \in Nat /\ Cardinality(B(i)) <= i - 1
  <2> TAKE i \in 1 .. Len(types)
  <2>1. B(i) \in SUBSET (1 .. (i - 1)) /\ i - 1 \in Nat
    <3> HIDE DEF ms, float
    <3> QED BY <1>0
  <2> HIDE DEF B
  <2> QED BY <2>1, PlacesFinite
<1>5. b \in 0 .. 5
  <2>1. b = Cardinality(B(k))
    BY <1>3
  <2> HIDE DEF B, b, ms
  <2>2. k \in 1 .. Len(types)
    OBVIOUS
  <2>3. Cardinality(B(k)) \in Nat /\ Cardinality(B(k)) <= k - 1
    BY <1>4, <2>2
  <2> QED BY <1>0, <2>1, <2>3
<1>6. ASSUME NEW i \in 1 .. Len(types), NEW j \in 1 .. Len(types), i < j, ms[i].is_float = float
      PROVE  Cardinality(B(i)) < Cardinality(B(j))
  <2>1. B(i) \cup {i} \in SUBSET B(j) /\ i \notin B(i)
    <3> HIDE DEF ms, float
    <3> QED BY <1>0, <1>6
  <2>2. Cardinality(B(i) \cup {i}) = Cardinality(B(i)) + 1
    <3> HIDE DEF B
    <3> QED BY <1>4, <2>1, FS_AddElement
  <2>3. Cardinality(B(i) \cup {i}) <= Cardinality(B(j))
    <3> HIDE DEF B
    <3> QED BY <1>4, <2>1, FS_Subset
  <2> HIDE DEF B
  <2> QED BY <1>4, <2>2, <2>3
<1>7. Placed(ms, float, b) = {k}
  <2>1. Placed(ms, float, b) = {i \in 1 .. Len(types) : ms[i].is_float = float /\ Cardinality(B(i)) = b}
    <3>1. (IF Len(ms) < 6 THEN Len(ms) ELSE 6) = Len(types)
      BY <1>0
    <3> HIDE DEF ms, float, b
    <3> QED BY <3>1 DEF Placed
  <2>2. ms[k].is_float = float /\ Cardinality(B(k)) = b
    BY <1>1, <1>3
  <2>3. ASSUME NEW i \in 1 .. Len(types), ms[i].is_float = float, Cardinality(B(i)) = b PROVE i = k
    <3> HIDE DEF ms, float, B, b
    <3>1. ~(i < k)
      BY <1>4, <1>6, <2>2, <2>3
    <3>2. ~(k < i)
      BY <1>4, <1>6, <2>2, <2>3
    <3> QED BY <1>0, <3>1, <3>2
  <2> HIDE DEF ms, float, B, b
  <2> QED BY <2>1, <2>2, <2>3
<1>8. \A old : Register(ms, float, b, old) = ms[k].bits
  <2> HIDE DEF ms, float, b
  <2> QED BY <1>7 DEF Register
<1>9. /\ float => PlaceArguments(ms).F[b] = ms[k].bits
      /\ ~float => PlaceArguments(ms).X[b] = ms[k].bits
  <2>1. /\ PlaceArguments(ms).X = [r \in 0..5 |-> Register(ms, FALSE, r, cpu.X[r])]
        /\ PlaceArguments(ms).F = [r \in 0..5 |-> Register(ms, TRUE, r, cpu.F[r])]
    BY DEF PlaceArguments
  <2>2. PlaceArguments(ms).X[b] = Register(ms, FALSE, b, cpu.X[b])
    <3> HIDE DEF ms, b
    <3> QED BY <1>5, <2>1
  <2>3. PlaceArguments(ms).F[b] = Register(ms, TRUE, b, cpu.F[b])
    <3> HIDE DEF ms, b
    <3> QED BY <1>5, <2>1
  <2>4. (float => float = TRUE) /\ (~float => float = FALSE)
    BY Zenon
  <2> HIDE DEF ms, float, b
  <2> QED BY <1>8, <2>2, <2>3, <2>4, Zenon
<1>10. /\ float => ms[k].bits = lua_tonumber(args, k)
       /\ ~float => ms[k].bits = Word(lua_tointeger(args, k))
  BY MarshalType
<1> HIDE DEF ms
<1> QED BY <1>9, <1>10 DEF ms

\* Where the runtime can be, and the values of its counters and registers.
ConsoleShape ==
  /\ host \in {"rv32", "wasm", "harness"}
  /\ cart \in Carts /\ (host = "rv32" => cart \in NativeCarts)
  /\ running \in BOOLEAN /\ (running => at \in Scripts)
  /\ frame \in 0 .. FRAMES /\ (at # "ok" => frame < FRAMES)
  /\ calls \in 0 .. MAX_CALLS
  /\ s_rv \in {"none", "live", "deleted"}
  /\ cpu \in Cpu
  /\ defined \subseteq {"init", "update", "draw"}
  /\ host = "harness" => at \in {"boot", "add32", "addf", "passed", "failed"}
  /\ host # "harness" => at \in {"boot", "hybrid", "modules", "load", "ok", "crashed"} \cup Scripts
  /\ at = "hybrid" => host = "wasm"

\* The tables a script reaches functions through are the cart's exports, with
\* an emulator behind them, or the linked library.
ConsoleTables ==
  /\ s_trampolines = << >> \/ s_trampolines = ReadExports
  /\ host = "wasm" => /\ preload = {} /\ loaded = ModuleTables(s_trampolines)
                      /\ s_trampolines # << >> => s_rv = "live"
                      /\ WithinRegistry => at # "crashed"
  /\ host = "rv32" => /\ preload \subseteq {"mylib"}
                      /\ \A m \in DOMAIN loaded : m = "mylib" /\ loaded[m] = luaopen_mylib
  /\ at \in {"add32", "addf"} =>
       s_rv = "live" /\ "add32" \in DOMAIN cart.symtab /\ "addf" \in DOMAIN cart.symtab

\* Whose call is in progress.
CallIsNamed ==
  \/ host = "wasm" /\ running /\ Names(cart, call.mod, call.name, call.addr)
  \/ /\ host = "harness" /\ at \in {"add32", "addf"} /\ call.name = at
     /\ call.addr = cart.symtab[at]
     /\ call.args = IF at = "addf" THEN <<2, 4>> ELSE <<6, 8>>

\* Until the function has run its operands are in their registers, and once it
\* has its result is.
CallRegisters(f) ==
  /\ call.from # "exit" /\ (call.retf <=> f.ret = "f32")
  /\ ~cpu.halt => \A k \in 1 .. Len(f.args) : Operand(f, k) = Received(f, call.args)[k]
  /\ cpu.halt => IF f.ret = "f32"
                 THEN cpu.F[0] = Compute(f.op, Received(f, call.args))
                 ELSE cpu.X[0] = Word(Compute(f.op, Received(f, call.args)))

\* A call under way: its caller, its place and the registers it finds.
CallInProgress ==
  call.on =>
    /\ cpu.guard /\ s_rv = "live" /\ DOMAIN call = DOMAIN NoCall
    /\ call.args \in Seq(Int) /\ call.addr \in DOMAIN cart.code
    /\ CallIsNamed
    /\ cart.code[call.addr].exits /\ cpu.halt => call.from = "exit"
    /\ ~cart.code[call.addr].exits => CallRegisters(cart.code[call.addr])

\* Whatever the registry holds, an answered call was answered by its function.
AnswerMeansTheExport ==
  (answer.name # "" /\ host # "harness" /\ ~answer.exited) =>
      answer.res = Meaning(answer.mod, answer.name, answer.args)

\* The inductive invariant of the console runtime.
ConsoleInv ==
  ConsoleShape /\ ConsoleTables /\ CallInProgress /\ AnswerMeansTheExport /\ HarnessReadsTheSums

\* What only the cart decides stays as it is.
LEMMA CartIsFixed ==
  ASSUME cart' = cart
  PROVE  /\ ReadExports' = ReadExports
         /\ WithinRegistry' <=> WithinRegistry
         /\ \A m, n, args : Meaning(m, n, args)' = Meaning(m, n, args)
<1>1. LiveEntries' = LiveEntries
  BY DEF LiveEntries
<1>2. \A k : LiveEntry(k)' = LiveEntry(k)
  BY <1>1 DEF LiveEntry
<1>3. \A e : Resolved(e)' = Resolved(e)
  BY DEF Resolved, ExportAddress
<1>4. ReadExports' = ReadExports
  BY <1>1, <1>2, <1>3 DEF ReadExports
<1>5. WithinRegistry' <=> WithinRegistry
  BY DEF WithinRegistry, Exports
<1>6. \A m, n, args : Meaning(m, n, args)' = Meaning(m, n, args)
  BY DEF Meaning
<1> QED BY <1>4, <1>5, <1>6

\* An exported name has one address.
LEMMA OneAddress ==
  ASSUME cart \in Carts, NEW m, NEW n, NEW a \in DOMAIN cart.code, Names(cart, m, n, a)
  PROVE  (CHOOSE b \in DOMAIN cart.code : Names(cart, m, n, b)) = a
<1>1. ASSUME NEW b \in DOMAIN cart.code, Names(cart, m, n, b) PROVE b = a
  <2>1. PICK i \in ExportsOf(cart) : /\ cart.section[i].module = m /\ cart.section[i].name = n
                                     /\ EntryAddress(cart, cart.section[i]) = a
    BY Zenon DEF Names
  <2>2. PICK j \in ExportsOf(cart) : /\ cart.section[j].module = m /\ cart.section[j].name = n
                                     /\ EntryAddress(cart, cart.section[j]) = b
    BY <1>1, Zenon DEF Names
  <2>3. ExportsMatchCode(cart)
    BY CartFacts, Zenon
  <2>4. \A p, q \in ExportsOf(cart) :
          (/\ cart.section[p].module = cart.section[q].module
           /\ cart.section[p].name = cart.section[q].name) =>
              EntryAddress(cart, cart.section[p]) = EntryAddress(cart, cart.section[q])
    BY <2>3, Zenon DEF ExportsMatchCode
  <2> QED BY <2>1, <2>2, <2>4, Zenon
<1> QED BY <1>1

\* What a call means is what the function its export names computes.
LEMMA MeaningOf ==
  ASSUME cart \in Carts, NEW m, NEW n, NEW a \in DOMAIN cart.code, Names(cart, m, n, a), NEW args
  PROVE  Meaning(m, n, args) =
           LET v == Compute(cart.code[a].op, Received(cart.code[a], args))
           IN  IF cart.code[a].ret = "f32" THEN Truncate(v) ELSE Signed(Word(v))
<1>1. (CHOOSE b \in DOMAIN cart.code : Names(cart, m, n, b)) = a
  BY OneAddress, Zenon
<1> QED BY <1>1 DEF Meaning

\* Before the console starts nothing was called.
LEMMA InitConsole == ConsoleInit => ConsoleInv
<1> SUFFICES ASSUME ConsoleInit PROVE ConsoleInv
  OBVIOUS
<1> USE DEF ConsoleInit
<1>1. cpu \in Cpu
  <2>1. 0 \in 0 .. (WORD - 1)
    BY ConsoleAssumption
  <2> QED BY <2>1 DEF Cpu
<1>2. cart \in Carts /\ (host = "rv32" => cart \in NativeCarts)
  BY LibraryAssumption
<1>3. ConsoleShape
  <2>1. frame \in 0 .. FRAMES /\ frame < FRAMES /\ calls \in 0 .. MAX_CALLS
    BY ConsoleAssumption
  <2>2. /\ at \in {"boot", "add32", "addf", "passed", "failed"}
        /\ at \in {"boot", "hybrid", "modules", "load", "ok", "crashed"} \cup Scripts
        /\ at # "hybrid" /\ s_rv \in {"none", "live", "deleted"}
        /\ running \in BOOLEAN /\ ~running /\ defined \subseteq {"init", "update", "draw"}
        /\ host \in {"rv32", "wasm", "harness"}
    OBVIOUS
  <2> QED BY ONLY <1>1, <1>2, <2>1, <2>2 DEF ConsoleShape
<1>4. loaded = ModuleTables(s_trampolines)
  <2>1. Len(<< >>) = 0 /\ 1 .. 0 = {}
    OBVIOUS
  <2> QED BY <2>1 DEF ModuleTables, NoTable
<1>5. ConsoleTables
  BY <1>4 DEF ConsoleTables, NoTable
<1> QED BY <1>3, <1>5
     DEF ConsoleInv, CallInProgress, NoCall, AnswerMeansTheExport, NoAnswer, HarnessReadsTheSums

\* No call is in progress outside a script and outside the harness's tests.
LEMMA NoCallElsewhere ==
  ASSUME ConsoleInv, ~running, at \notin {"add32", "addf"}
  PROVE  ~call.on
BY DEF ConsoleInv, CallInProgress, CallIsNamed

\* Leaving a script function.
LEMMA LeaveScript ==
  ASSUME ConsoleShape, at \in Scripts, Leave
  PROVE  /\ running' = FALSE
         /\ frame' \in 0 .. FRAMES /\ (at' # "ok" => frame' < FRAMES)
         /\ at' \in {"init", "update", "draw", "ok"}
<1>1. frame \in 0 .. FRAMES /\ frame < FRAMES /\ FRAMES \in Nat
  BY ConsoleAssumption DEF ConsoleShape, Scripts
<1>2. CASE at = "draw"
  BY <1>1, <1>2 DEF Leave, After
<1>3. CASE at # "draw"
  BY <1>1, <1>3 DEF Leave, After, Scripts
<1> QED BY <1>2, <1>3

\* The answer given last keeps its meaning.
LEMMA AnswerKept ==
  ASSUME ConsoleInv, UNCHANGED <<host, cart, answer>>
  PROVE  AnswerMeansTheExport' /\ HarnessReadsTheSums'
<1>1. AnswerMeansTheExport'
  <2>1. \A m, n, args : Meaning(m, n, args)' = Meaning(m, n, args)
    BY CartIsFixed
  <2>2. Meaning(answer.mod, answer.name, answer.args)' = Meaning(answer.mod, answer.name, answer.args)
    BY DEF Meaning
  <2> QED BY <2>2 DEF ConsoleInv, AnswerMeansTheExport
<1>2. HarnessReadsTheSums'
  BY DEF ConsoleInv, HarnessReadsTheSums
<1> QED BY <1>1, <1>2

\* Steps of the runtime and of a script that make no call.
LEMMA StartSteps ==
  ASSUME ConsoleInv,
         \/ \E made \in BOOLEAN : ensure_state(made)
         \/ \E hook \in BOOLEAN : CallModulesHook(hook)
         \/ LoadChunk
  PROVE  ConsoleInv'
<1> USE DEF ConsoleInv
<1>1. ~running /\ host # "harness" /\ UNCHANGED <<host, cart, emuVars, frame, defined, loaded, s_trampolines>>
      /\ at \in {"boot", "modules", "load"}
      /\ at' \in {"update", "hybrid", "modules", "load", "init", "chunk"}
      /\ (at' = "hybrid" => host = "wasm") /\ running' \in BOOLEAN
      /\ (running' => at' \in Scripts)
  <2>0. (running => at \in Scripts) /\ running \in BOOLEAN
        /\ (at \in {"modules", "load"} => host # "harness")
    BY DEF ConsoleShape
  <2>1. ASSUME NEW made \in BOOLEAN, ensure_state(made) PROVE <1>1!:
    BY <2>0, <2>1 DEF ensure_state, Scripts
  <2>2. ASSUME NEW hook \in BOOLEAN, CallModulesHook(hook) PROVE <1>1!:
    BY <2>0, <2>2 DEF CallModulesHook, Scripts
  <2>3. ASSUME LoadChunk PROVE <1>1!:
    BY <2>0, <2>3 DEF LoadChunk, luaVars, Scripts
  <2> QED BY <2>1, <2>2, <2>3
<1>2. ~call.on
  BY <1>1, NoCallElsewhere
<1>3. ConsoleShape'
  BY <1>1 DEF ConsoleShape, emuVars, Scripts
<1>4. UNCHANGED preload \/ \E hook \in BOOLEAN : CallModulesHook(hook)
  BY DEF ensure_state, LoadChunk, luaVars
<1>5. preload' = preload \/ (host = "rv32" /\ preload' \subseteq {"mylib"}) \/ preload' = {}
  BY <1>4 DEF CallModulesHook
<1>6. ConsoleTables'
  <2>1. ModuleTables(s_trampolines)' = ModuleTables(s_trampolines)
    BY <1>1 DEF ModuleTables
  <2>2. ReadExports' = ReadExports
    BY <1>1, CartIsFixed
  <2>3. UNCHANGED <<host, cart, loaded, s_trampolines, s_rv>>
        /\ at' \notin {"add32", "addf", "crashed"}
    BY <1>1 DEF emuVars
  <2> QED BY <1>5, <2>1, <2>2, <2>3 DEF ConsoleTables
<1>7. CallInProgress'
  BY <1>1, <1>2 DEF CallInProgress, emuVars
<1>8. AnswerMeansTheExport' /\ HarnessReadsTheSums'
  BY <1>1, AnswerKept DEF emuVars
<1> QED BY <1>3, <1>6, <1>7, <1>8

\* Entering, leaving and requiring in a script keep the tables and the answer.
LEMMA ScriptSteps ==
  ASSUME ConsoleInv, EnterScript \/ ScriptEnds \/ \E m \in {"mylib", "other"} : l_require(m)
  PROVE  ConsoleInv'
<1> USE DEF ConsoleInv
<1>1. /\ UNCHANGED <<host, cart, emuVars, preload, s_trampolines>>
      /\ at \in Scripts
      /\ defined' \subseteq {"init", "update", "draw"}
  <2>1. CASE EnterScript
    BY <2>1 DEF EnterScript, luaVars, ConsoleShape, Scripts
  <2>2. CASE ScriptEnds
    BY <2>2 DEF ScriptEnds, ConsoleShape, Scripts
  <2>3. CASE \E m \in {"mylib", "other"} : l_require(m)
    BY <2>3 DEF l_require, ConsoleShape
  <2> QED BY <2>1, <2>2, <2>3
<1>2. ~call.on
  <2>1. CASE EnterScript
    <3>1. ~running /\ at \notin {"add32", "addf"}
      BY <2>1 DEF EnterScript
    <3> QED BY <3>1, NoCallElsewhere
  <2> QED BY <2>1 DEF ScriptEnds, l_require
<1>3. Leave \/ (UNCHANGED <<at, frame>> /\ running' = TRUE)
  <2>1. CASE EnterScript
    BY <2>1 DEF EnterScript
  <2>2. CASE ScriptEnds
    BY <2>2 DEF ScriptEnds
  <2>3. CASE \E m \in {"mylib", "other"} : l_require(m)
    BY <2>3 DEF l_require, ConsoleShape
  <2> QED BY <2>1, <2>2, <2>3
<1>4. /\ running' \in BOOLEAN /\ (running' => at' \in Scripts)
      /\ frame' \in 0 .. FRAMES /\ (at' # "ok" => frame' < FRAMES)
      /\ at' \in {"ok"} \cup Scripts
  <2>1. CASE Leave
    <3>1. ConsoleShape
      OBVIOUS
    <3>2. /\ running' = FALSE
          /\ frame' \in 0 .. FRAMES /\ (at' # "ok" => frame' < FRAMES)
          /\ at' \in {"init", "update", "draw", "ok"}
      BY <1>1, <2>1, <3>1, LeaveScript
    <3> QED BY <3>2 DEF Scripts
  <2>2. CASE UNCHANGED <<at, frame>> /\ running' = TRUE
    BY <1>1, <2>2 DEF ConsoleShape
  <2> QED BY <1>3, <2>1, <2>2
<1>5. host # "harness"
  BY <1>1 DEF ConsoleShape, Scripts
<1>6. ConsoleShape'
  BY <1>1, <1>4, <1>5 DEF ConsoleShape, emuVars, Scripts
<1>7. ConsoleTables'
  <2>1. host = "wasm" => loaded' = loaded
    BY DEF ConsoleTables, EnterScript, ScriptEnds, l_require, luaVars
  <2>2. host = "rv32" => \A m \in DOMAIN loaded' : m = "mylib" /\ loaded'[m] = luaopen_mylib
    <3>1. CASE UNCHANGED loaded
      BY <3>1 DEF ConsoleTables
    <3>2. ASSUME NEW m \in preload, host = "rv32",
                 loaded' = [k \in DOMAIN loaded \union {m} |->
                             IF k = m THEN luaopen_mylib ELSE loaded[k]]
          PROVE \A k \in DOMAIN loaded' : k = "mylib" /\ loaded'[k] = luaopen_mylib
      BY <3>2 DEF ConsoleTables
    <3> QED BY <3>1, <3>2 DEF EnterScript, ScriptEnds, l_require, luaVars
  <2>3. at' \notin {"add32", "addf", "crashed"}
    BY <1>4 DEF Scripts
  <2>4. ModuleTables(s_trampolines)' = ModuleTables(s_trampolines)
    BY <1>1 DEF ModuleTables
  <2>5. ReadExports' = ReadExports
    BY <1>1, CartIsFixed
  <2>6. UNCHANGED <<host, cart, preload, s_trampolines, s_rv>>
    BY <1>1 DEF emuVars
  <2> QED BY <2>1, <2>2, <2>3, <2>4, <2>5, <2>6 DEF ConsoleTables
<1>8. CallInProgress'
  BY <1>1, <1>2 DEF CallInProgress, emuVars
<1>9. AnswerMeansTheExport' /\ HarnessReadsTheSums'
  BY <1>1, AnswerKept DEF emuVars
<1> QED BY <1>6, <1>7, <1>8, <1>9

\* blyt_hybrid_init leaves tables in which every number names a live export.
LEMMA HybridInit ==
  ASSUME ConsoleInv, blyt_hybrid_init
  PROVE  ConsoleInv'
<1> USE DEF ConsoleInv, blyt_hybrid_init
<1>1. host = "wasm" /\ ~running /\ ~call.on
  <2>1. host = "wasm" /\ ~running /\ at \notin {"add32", "addf"}
    BY DEF ConsoleShape, Scripts
  <2> QED BY <2>1, NoCallElsewhere
<1>2. ConsoleShape'
  BY DEF ConsoleShape, Scripts
<1>3. ConsoleTables'
  <2>1. s_trampolines' = << >> \/ (s_trampolines' = ReadExports /\ s_rv' = "live")
    OBVIOUS
  <2>2. ReadExports' = ReadExports /\ cart' = cart /\ host' = host
    BY CartIsFixed
  <2>3. preload' = {} /\ ModuleTables(s_trampolines)' = ModuleTables(s_trampolines')
    BY <1>1 DEF ConsoleTables, ModuleTables
  <2> QED BY <1>1, <2>1, <2>2, <2>3 DEF ConsoleTables
<1>4. CallInProgress'
  BY <1>1 DEF CallInProgress
<1>5. AnswerMeansTheExport' /\ HarnessReadsTheSums'
  BY AnswerKept
<1> QED BY <1>2, <1>3, <1>4, <1>5

\* A call from a guest-only script: the linked library computes what its export
\* means.
LEMMA GuestCall ==
  ASSUME ConsoleInv, NEW m \in DOMAIN loaded, NEW n \in DOMAIN loaded[m],
         NEW args \in CallArgs, GuestLuaCall(m, n, args)
  PROVE  ConsoleInv'
<1> USE DEF ConsoleInv
<1>1. host = "rv32" /\ UNCHANGED <<host, cart, at, running, frame, luaVars, s_rv, cpu, call>>
  BY DEF GuestLuaCall
<1>2. cart \in NativeCarts /\ cart \in Carts /\ args \in Seq(Int)
  BY <1>1, ConsoleAssumption DEF ConsoleShape
<1>3. m = "mylib" /\ n \in {"fast_add", "fast_mul"}
  <2>1. m = "mylib" /\ loaded[m] = luaopen_mylib
    BY <1>1 DEF ConsoleTables
  <2>2. DOMAIN luaopen_mylib = {"fast_add", "fast_mul"}
    BY DEF luaopen_mylib
  <2> QED BY <2>1, <2>2
<1>4. /\ lua_tonumber(args, 1) \in Int /\ lua_tonumber(args, 2) \in Int
      /\ lua_tointeger(args, 1) \in Int /\ lua_tointeger(args, 2) \in Int
  BY <1>2, ArgumentType
<1>5. ASSUME n = "fast_add" PROVE lua_fast(n, args) = Meaning(m, n, args)
  <2>1. PICK a \in DOMAIN cart.code :
          /\ Names(cart, "mylib", "fast_add", a)
          /\ cart.code[a] = Function("add", <<"f32", "f32">>, "f32")
    BY <1>2, LibraryAssumption
  <2>2. /\ cart.code[a].op = "add" /\ cart.code[a].ret = "f32"
        /\ cart.code[a].args = <<"f32", "f32">>
    BY <2>1 DEF Function
  <2>3. /\ Len(Received(cart.code[a], args)) = 2
        /\ Received(cart.code[a], args)[1] = lua_tonumber(args, 1)
        /\ Received(cart.code[a], args)[2] = lua_tonumber(args, 2)
    BY <2>2 DEF Received
  <2>4. Compute("add", Received(cart.code[a], args)) = lua_tonumber(args, 1) + lua_tonumber(args, 2)
    BY <2>3 DEF Compute
  <2>5. Meaning(m, n, args) = Truncate(lua_tonumber(args, 1) + lua_tonumber(args, 2))
    BY <1>2, <1>3, <1>5, <2>1, <2>2, <2>4, MeaningOf
  <2> QED BY <2>5, <1>5 DEF lua_fast
<1>6. ASSUME n = "fast_mul" PROVE lua_fast(n, args) = Meaning(m, n, args)
  <2> DEFINE x == lua_tointeger(args, 1)
             y == lua_tointeger(args, 2)
  <2>1. PICK a \in DOMAIN cart.code :
          /\ Names(cart, "mylib", "fast_mul", a)
          /\ cart.code[a] = Function("mul", <<"i32", "i32">>, "i32")
    BY <1>2, LibraryAssumption
  <2>2. /\ cart.code[a].op = "mul" /\ cart.code[a].ret = "i32"
        /\ cart.code[a].args = <<"i32", "i32">>
    BY <2>1 DEF Function
  <2>3. /\ Len(Received(cart.code[a], args)) = 2
        /\ Received(cart.code[a], args)[1] = Signed(Word(x))
        /\ Received(cart.code[a], args)[2] = Signed(Word(y))
    BY <2>2 DEF Received
  <2>4. Compute("mul", Received(cart.code[a], args)) = Signed(Word(x)) * Signed(Word(y))
    BY <2>3 DEF Compute
  <2>5. Word(Compute("mul", Received(cart.code[a], args))) = Word(x * y)
    BY <1>4, <2>4, ProductWraps
  <2>6. Meaning(m, n, args) = Signed(Word(x * y))
    BY <1>2, <1>3, <1>6, <2>1, <2>2, <2>5, MeaningOf
  <2> QED BY <1>6, <2>6 DEF lua_fast
<1>7. answer' = [mod |-> m, name |-> n, args |-> args, exited |-> FALSE, res |-> lua_fast(n, args)]
      /\ calls' = calls + 1 /\ calls < MAX_CALLS
  BY DEF GuestLuaCall
<1>8. lua_fast(n, args) = Meaning(m, n, args)
  BY <1>3, <1>5, <1>6
<1>9. AnswerMeansTheExport'
  <2>1. Meaning(m, n, args)' = Meaning(m, n, args)
    BY <1>1, CartIsFixed
  <2>2. /\ answer'.res = Meaning(m, n, args)
        /\ answer'.mod = m /\ answer'.name = n /\ answer'.args = args
    BY <1>7, <1>8
  <2> QED BY <2>1, <2>2 DEF AnswerMeansTheExport
<1>10. ConsoleShape'
  BY <1>1, <1>7, ConsoleAssumption DEF ConsoleShape, luaVars
<1>11. ConsoleTables'
  <2>1. ReadExports' = ReadExports
    BY <1>1, CartIsFixed
  <2> QED BY <1>1, <2>1 DEF ConsoleTables, luaVars
<1>12. CallInProgress'
  <2>1. ~call.on
    BY <1>1 DEF CallInProgress, CallIsNamed
  <2> QED BY <1>1, <2>1 DEF CallInProgress
<1>13. HarnessReadsTheSums'
  BY <1>1 DEF HarnessReadsTheSums
<1> QED BY <1>9, <1>10, <1>11, <1>12, <1>13

\* Entering a function puts its operands where it reads them.
LEMMA Entered ==
  ASSUME cpu \in Cpu, NEW f, f.args \in Seq(Types), Len(f.args) <= 4, NEW args \in Seq(Int),
         cpu' = EnterCpu(Marshal(f.args, args))
  PROVE  /\ cpu' \in Cpu /\ cpu'.guard = TRUE /\ cpu'.halt = FALSE
         /\ \A k \in 1 .. Len(f.args) : Operand(f, k)' = Received(f, args)[k]
<1> DEFINE p == PlaceArguments(Marshal(f.args, args))
<1>1. p.X \in [0 .. 5 -> 0 .. (WORD - 1)] /\ p.F \in [0 .. 5 -> Int]
  BY PlacedType
<1>2. cpu' = [X |-> p.X, F |-> p.F, halt |-> FALSE, guard |-> TRUE]
  BY DEF EnterCpu
<1> HIDE DEF p
<1>3. cpu' \in Cpu /\ cpu'.guard = TRUE /\ cpu'.halt = FALSE /\ cpu'.X = p.X /\ cpu'.F = p.F
  BY <1>1, <1>2 DEF Cpu
<1>4. ASSUME NEW k \in 1 .. Len(f.args)
      PROVE  Operand(f, k)' = Received(f, args)[k]
  <2> DEFINE b == Cardinality({j \in 1..(k - 1) : f.args[j] = f.args[k]})
  <2>1. /\ f.args[k] = "f32" => p.F[b] = lua_tonumber(args, k)
        /\ f.args[k] # "f32" => p.X[b] = Word(lua_tointeger(args, k))
    BY ArgumentsInPlace DEF p
  <2>2. Received(f, args)[k] = IF f.args[k] = "f32" THEN lua_tonumber(args, k)
                               ELSE Signed(Word(lua_tointeger(args, k)))
    BY DEF Received
  <2> HIDE DEF b
  <2>3. (IF f.args[k] = "f32" THEN cpu'.F[b] ELSE Signed(cpu'.X[b])) = Received(f, args)[k]
    BY <1>3, <2>1, <2>2
  <2>4. Operand(f, k)' = IF f.args[k] = "f32" THEN cpu'.F[b] ELSE Signed(cpu'.X[b])
    BY DEF Operand, b
  <2> QED BY <2>3, <2>4
<1> QED BY <1>3, <1>4

\* The call is under way, with everything in place.
LEMMA CallEntered ==
  ASSUME ConsoleInv, NEW c, NEW types, NEW args \in Seq(Int), call_fn(c, Marshal(types, args)),
         UNCHANGED <<host, cart, running, at, s_rv>>,
         c.on, c.from \in {"lua", "c"}, c.args = args, s_rv = "live", DOMAIN c = DOMAIN NoCall,
         c.addr \in DOMAIN cart.code,
         Len(types) <= 4, types \in Seq(Types),
         ~cart.code[c.addr].exits =>
            types = cart.code[c.addr].args /\ (c.retf <=> cart.code[c.addr].ret = "f32"),
         CallIsNamed'
  PROVE  cpu' \in Cpu /\ CallInProgress'
<1>1. cpu \in Cpu
  BY DEF ConsoleInv, ConsoleShape
<1>2. cpu' = EnterCpu(Marshal(types, args)) /\ call' = c
  BY DEF call_fn
<1> DEFINE g == [args |-> types]
<1>3. cpu' \in Cpu /\ cpu'.guard = TRUE /\ cpu'.halt = FALSE
  <2>1. g.args = types
    OBVIOUS
  <2> HIDE DEF g
  <2> QED BY <1>1, <1>2, <2>1, Entered
<1>4. ASSUME ~cart.code[c.addr].exits PROVE CallRegisters(cart.code[c.addr])'
  <2> PICK f : f = cart.code[c.addr]
    OBVIOUS
  <2>1. types = f.args
    BY <1>4
  <2>2. \A k \in 1 .. Len(f.args) : Operand(f, k)' = Received(f, args)[k]
    <3>1. /\ f.args \in Seq(Types) /\ Len(f.args) <= 4
          /\ cpu' = EnterCpu(Marshal(f.args, args))
      BY <1>2, <2>1
    <3> QED BY <1>1, <3>1, Entered
  <2>3. f = cart'.code[c.addr]
    OBVIOUS
  <2>4. \A k \in 1 .. Len(f.args) : Operand(f, k)' = Received(f, call.args)'[k]
    BY <1>2, <2>2
  <2>5. call'.from # "exit" /\ (call'.retf <=> f.ret = "f32")
    BY <1>2, <1>4
  <2>6. CallRegisters(f)'
    BY <1>3, <2>4, <2>5 DEF CallRegisters
  <2> QED BY <1>2, <2>3, <2>6
<1>5. /\ call'.addr = c.addr /\ call'.args = args /\ cart' = cart /\ s_rv' = "live"
      /\ DOMAIN call' = DOMAIN NoCall
  BY <1>2
<1>6. ~cart.code[c.addr].exits => CallRegisters(cart.code[call.addr])'
  BY <1>2, <1>4
<1> QED BY <1>3, <1>5, <1>6 DEF CallInProgress

\* The entry behind a trampoline.
LEMMA TrampolineEntry ==
  ASSUME cart \in Carts, NEW k \in 1 .. Len(ReadExports)
  PROVE  LET tr == ReadExports[k]
         IN  /\ tr.sym_addr \in DOMAIN cart.code
             /\ tr.args \in Seq(Types) /\ Len(tr.args) <= 4 /\ tr.ret \in Types
             /\ Names(cart, tr.module, tr.name, tr.sym_addr)
             /\ ~cart.code[tr.sym_addr].exits =>
                  tr.args = cart.code[tr.sym_addr].args /\ tr.ret = cart.code[tr.sym_addr].ret
<1> DEFINE tr == ReadExports[k]
<1>1. PICK i \in Exports :
        tr = [cart.section[i] EXCEPT !.sym_addr = ExportAddress(cart.section[i])]
  BY ReadExportsSound
<1>2. i \in 1 .. Len(cart.section) /\ i \in ExportsOf(cart)
  BY LiveAreExports DEF Exports
<1> DEFINE e == cart.section[i]
<1>3. /\ e \in [module : STRING, name : STRING, sym_addr : Nat, args : Seq(Types), ret : Types]
      /\ Len(e.args) <= 4
  <2>1. /\ cart.section \in Seq([module : STRING, name : STRING, sym_addr : Nat,
                                 args : Seq(Types), ret : Types])
        /\ \A j \in 1 .. Len(cart.section) : Len(cart.section[j].args) <= 4
    BY CartFacts, Zenon
  <2> DEFINE R == [module : STRING, name : STRING, sym_addr : Nat, args : Seq(Types), ret : Types]
  <2>2. cart.section \in Seq(R)
    BY <2>1
  <2>3. e \in R
    <3> HIDE DEF R
    <3> QED BY <1>2, <2>2
  <2> QED BY <1>2, <2>1, <2>3, Zenon
<1>4. /\ EntryAddress(cart, e) \in DOMAIN cart.code
      /\ ~cart.code[EntryAddress(cart, e)].exits =>
           /\ cart.code[EntryAddress(cart, e)].args = e.args
           /\ cart.code[EntryAddress(cart, e)].ret = e.ret
  BY <1>2, CartFacts, Zenon DEF ExportsMatchCode
<1>5. Names(cart, e.module, e.name, EntryAddress(cart, e))
  BY <1>2, Zenon DEF Names
<1> HIDE DEF e, tr
<1>6. /\ tr.module = e.module /\ tr.name = e.name /\ tr.args = e.args /\ tr.ret = e.ret
      /\ tr.sym_addr = EntryAddress(cart, e)
  BY <1>1, <1>3 DEF ExportAddress, e
<1> QED BY <1>3, <1>4, <1>5, <1>6 DEF tr

\* A call through a trampoline, or through a null one.
LEMMA TrampolineCall ==
  ASSUME ConsoleInv, NEW m \in DOMAIN loaded, NEW n \in DOMAIN loaded[m],
         NEW args \in CallArgs, trampoline_call(m, n, args)
  PROVE  ConsoleInv'
<1> USE DEF ConsoleInv
<1>0. /\ host = "wasm" /\ running /\ ~call.on /\ calls < MAX_CALLS /\ calls' = calls + 1
      /\ UNCHANGED <<host, cart, frame, luaVars, s_rv, answer>>
  BY DEF trampoline_call
<1>1. /\ cart \in Carts /\ at \in Scripts /\ args \in Seq(Int)
      /\ frame \in 0 .. FRAMES /\ frame < FRAMES
  BY <1>0, ConsoleAssumption DEF ConsoleShape, Scripts
<1> PICK k : k = loaded[m][n]
  OBVIOUS
<1>2. /\ Len(s_trampolines) \in Nat /\ k \in 1 .. Len(s_trampolines)
      /\ s_trampolines[k].module = m /\ s_trampolines[k].name = n
  <2>1. Len(s_trampolines) \in Nat
    BY <1>1, ReadExportsSound DEF ConsoleTables
  <2>2. loaded = ModuleTables(s_trampolines)
    BY <1>0 DEF ConsoleTables
  <2> QED BY <2>1, <2>2, TablesSound
<1>3. s_trampolines = ReadExports /\ s_rv = "live"
  <2>1. s_trampolines # << >>
    BY <1>2
  <2> QED BY <1>0, <2>1 DEF ConsoleTables
<1>4. AnswerMeansTheExport' /\ HarnessReadsTheSums'
  BY <1>0, AnswerKept
<1>5. /\ ReadExports' = ReadExports /\ (WithinRegistry' <=> WithinRegistry)
      /\ ModuleTables(s_trampolines)' = ModuleTables(s_trampolines)
  BY <1>0, CartIsFixed DEF ModuleTables, luaVars
<1>6. CASE k > TRAMP_FNS
  <2>1. at' = "crashed" /\ running' = FALSE /\ UNCHANGED <<cpu, call>>
    BY <1>6 DEF trampoline_call
  <2>2. ~WithinRegistry
    <3>1. Len(ReadExports) <= Cardinality(Exports) /\ Cardinality(Exports) \in Nat
      BY <1>1, ReadExportsSound, LiveAreExports, PlacesFinite
    <3>2. k \in Nat /\ k <= Cardinality(Exports)
      BY <1>2, <1>3, <3>1
    <3> QED BY <1>6, <3>1, <3>2, ConsoleAssumption DEF WithinRegistry
  <2>3. ConsoleShape'
    <3>1. calls' \in 0 .. MAX_CALLS
      BY <1>0, ConsoleAssumption DEF ConsoleShape
    <3>2. /\ at' \in {"boot", "hybrid", "modules", "load", "ok", "crashed"} \cup Scripts
          /\ at' # "hybrid" /\ running' \in BOOLEAN /\ ~running'
      BY <2>1
    <3> QED BY <1>0, <1>1, <2>1, <3>1, <3>2 DEF ConsoleShape, luaVars
  <2>4. ConsoleTables'
    BY <1>0, <1>5, <2>1, <2>2 DEF ConsoleTables, luaVars
  <2>5. CallInProgress'
    BY <1>0, <2>1 DEF CallInProgress
  <2> QED BY <1>4, <2>3, <2>4, <2>5
<1>7. CASE ~(k > TRAMP_FNS)
  <2> PICK tr : tr = s_trampolines[k]
    OBVIOUS
  <2> PICK c : c = [on |-> TRUE, from |-> "lua", mod |-> m, name |-> n,
                    args |-> args, retf |-> tr.ret = "f32", addr |-> tr.sym_addr]
    OBVIOUS
  <2>1. call_fn(c, Marshal(tr.args, args)) /\ UNCHANGED <<at, running>>
    BY <1>7 DEF trampoline_call
  <2>2. /\ tr.sym_addr \in DOMAIN cart.code
        /\ tr.args \in Seq(Types) /\ Len(tr.args) <= 4 /\ tr.ret \in Types
        /\ Names(cart, m, n, tr.sym_addr)
        /\ ~cart.code[tr.sym_addr].exits =>
             tr.args = cart.code[tr.sym_addr].args /\ tr.ret = cart.code[tr.sym_addr].ret
    BY <1>1, <1>2, <1>3, TrampolineEntry
  <2>3. call' = c
    BY <2>1 DEF call_fn
  <2>4. CallIsNamed'
    BY <1>0, <2>1, <2>2, <2>3 DEF CallIsNamed
  <2>5. /\ c.on /\ c.from \in {"lua", "c"} /\ c.args = args /\ c.addr = tr.sym_addr
        /\ (c.retf <=> tr.ret = "f32") /\ DOMAIN c = DOMAIN NoCall
    BY DEF NoCall
  <2>6. cpu' \in Cpu /\ CallInProgress'
    BY <1>0, <1>1, <1>3, <2>1, <2>2, <2>4, <2>5, CallEntered
  <2>7. ConsoleShape'
    BY <1>0, <2>1, <2>6, ConsoleAssumption DEF ConsoleShape, luaVars
  <2>8. ConsoleTables'
    BY <1>0, <1>5, <2>1 DEF ConsoleTables, luaVars
  <2> QED BY <1>4, <2>6, <2>7, <2>8
<1> QED BY <1>6, <1>7

\* The harness finds its functions, or gives up.
LEMMA HarnessStarts ==
  ASSUME ConsoleInv, HarnessStart
  PROVE  ConsoleInv'
<1> USE DEF ConsoleInv
<1>1. /\ host = "harness" /\ at = "boot"
      /\ UNCHANGED <<host, cart, running, frame, luaVars, cpu, call, answer, calls>>
  BY DEF HarnessStart
<1>2. ~running /\ ~call.on
  <2>1. ~running
    BY <1>1 DEF ConsoleShape, Scripts
  <2> QED BY <1>1, <2>1, NoCallElsewhere
<1>3. \/ /\ at' = "add32" /\ s_rv' = "live"
         /\ "add32" \in DOMAIN cart.symtab /\ "addf" \in DOMAIN cart.symtab
      \/ at' = "failed" /\ s_rv' = s_rv
  BY DEF HarnessStart, elf_sym_addr, SymAddr
<1>4. ConsoleShape'
  BY <1>1, <1>2, <1>3 DEF ConsoleShape, luaVars, Scripts
<1>5. ConsoleTables'
  <2>1. ReadExports' = ReadExports
    BY <1>1, CartIsFixed
  <2> QED BY <1>1, <1>3, <2>1 DEF ConsoleTables, luaVars
<1>6. CallInProgress'
  BY <1>1, <1>2 DEF CallInProgress
<1>7. AnswerMeansTheExport' /\ HarnessReadsTheSums'
  BY <1>1, AnswerKept
<1> QED BY <1>4, <1>5, <1>6, <1>7

\* The two functions the harness calls.
LEMMA HarnessFunctions ==
  ASSUME cart \in Carts, "add32" \in DOMAIN cart.symtab, "addf" \in DOMAIN cart.symtab
  PROVE  /\ cart.symtab["add32"] \in DOMAIN cart.code /\ elf_sym_addr("add32") = cart.symtab["add32"]
         /\ cart.code[cart.symtab["add32"]] = Function("add", <<"i32", "i32">>, "i32")
         /\ cart.symtab["addf"] \in DOMAIN cart.code /\ elf_sym_addr("addf") = cart.symtab["addf"]
         /\ cart.code[cart.symtab["addf"]] = Function("add", <<"f32", "f32">>, "f32")
BY LibraryAssumption DEF elf_sym_addr, SymAddr

\* test_call_on_demand enters the function it looked up.
LEMMA HarnessCalls ==
  ASSUME ConsoleInv, HarnessCall
  PROVE  ConsoleInv'
<1> USE DEF ConsoleInv
<1>1. /\ at \in {"add32", "addf"} /\ ~call.on
      /\ UNCHANGED <<host, cart, at, running, frame, luaVars, s_rv, answer, calls>>
  BY DEF HarnessCall
<1>2. cart \in Carts /\ s_rv = "live" /\ host = "harness"
      /\ "add32" \in DOMAIN cart.symtab /\ "addf" \in DOMAIN cart.symtab
  BY <1>1 DEF ConsoleShape, ConsoleTables, Scripts
<1> PICK hs : hs = IF at = "addf" THEN <<2, 4>> ELSE <<6, 8>>
  OBVIOUS
<1> PICK ty : ty = IF at = "addf" THEN <<"f32", "f32">> ELSE <<"i32", "i32">>
  OBVIOUS
<1> PICK c : c = [on |-> TRUE, from |-> "c", mod |-> "", name |-> at, args |-> hs,
                  retf |-> at = "addf", addr |-> elf_sym_addr(at)]
  OBVIOUS
<1>3. call_fn(c, Marshal(ty, hs))
  BY <1>1 DEF HarnessCall
<1>t. /\ <<"f32", "f32">> \in Seq(Types) /\ <<"i32", "i32">> \in Seq(Types)
      /\ Len(<<"f32", "f32">>) = 2 /\ Len(<<"i32", "i32">>) = 2
      /\ <<2, 4>> \in Seq(Int) /\ <<6, 8>> \in Seq(Int)
  BY ONLY TRUE DEF Types
<1>4. /\ ty \in Seq(Types) /\ Len(ty) <= 4 /\ hs \in Seq(Int)
  <2>1. CASE at = "addf"
    <3>1. ty = <<"f32", "f32">> /\ hs = <<2, 4>>
      BY <2>1
    <3> QED BY ONLY <3>1, <1>t
  <2>2. CASE at # "addf"
    <3>1. ty = <<"i32", "i32">> /\ hs = <<6, 8>>
      BY <2>2
    <3> QED BY ONLY <3>1, <1>t
  <2> QED BY <2>1, <2>2
<1>5. /\ c.on /\ c.from \in {"lua", "c"} /\ c.args = hs /\ c.name = at
      /\ (c.retf <=> at = "addf") /\ c.addr = elf_sym_addr(at) /\ DOMAIN c = DOMAIN NoCall
  BY DEF NoCall
<1>6. /\ c.addr = cart.symtab[at] /\ c.addr \in DOMAIN cart.code
      /\ ty = cart.code[c.addr].args /\ (c.retf <=> cart.code[c.addr].ret = "f32")
  <2>1. CASE at = "addf"
    <3>1. /\ cart.symtab["addf"] \in DOMAIN cart.code
          /\ elf_sym_addr("addf") = cart.symtab["addf"]
          /\ cart.code[cart.symtab["addf"]] = Function("add", <<"f32", "f32">>, "f32")
      BY <1>2, HarnessFunctions
    <3>2. c.addr = cart.symtab["addf"] /\ ty = <<"f32", "f32">>
      BY <1>5, <2>1, <3>1
    <3>3. cart.code[c.addr] = Function("add", <<"f32", "f32">>, "f32")
      BY <3>1, <3>2
    <3>4. cart.code[c.addr].args = <<"f32", "f32">> /\ cart.code[c.addr].ret = "f32"
      BY ONLY <3>3 DEF Function
    <3> QED BY <1>5, <2>1, <3>1, <3>2, <3>4
  <2>2. CASE at = "add32"
    <3>1. /\ cart.symtab["add32"] \in DOMAIN cart.code
          /\ elf_sym_addr("add32") = cart.symtab["add32"]
          /\ cart.code[cart.symtab["add32"]] = Function("add", <<"i32", "i32">>, "i32")
      BY <1>2, HarnessFunctions
    <3>2. c.addr = cart.symtab["add32"] /\ ty = <<"i32", "i32">>
      BY <1>5, <2>2, <3>1
    <3>3. cart.code[c.addr] = Function("add", <<"i32", "i32">>, "i32")
      BY <3>1, <3>2
    <3>4. cart.code[c.addr].args = <<"i32", "i32">> /\ cart.code[c.addr].ret = "i32"
      BY ONLY <3>3 DEF Function
    <3> QED BY <1>5, <2>2, <3>1, <3>2, <3>4
  <2> QED BY <1>1, <2>1, <2>2
<1>7. call' = c
  BY <1>3 DEF call_fn
<1>8. CallIsNamed'
  BY <1>1, <1>2, <1>5, <1>6, <1>7 DEF CallIsNamed
<1>9. cpu' \in Cpu /\ CallInProgress'
  BY <1>1, <1>2, <1>3, <1>4, <1>5, <1>6, <1>8, CallEntered
<1>10. ConsoleShape'
  BY <1>1, <1>9 DEF ConsoleShape, luaVars
<1>11. ConsoleTables'
  <2>1. ReadExports' = ReadExports
    BY <1>1, CartIsFixed
  <2> QED BY <1>1, <1>2, <2>1 DEF ConsoleTables, luaVars
<1>12. AnswerMeansTheExport' /\ HarnessReadsTheSums'
  BY <1>1, AnswerKept
<1> QED BY <1>9, <1>10, <1>11, <1>12

\* The guard keeps the emulator: a halt leaves it live.
LEMMA GuardedHalt ==
  ASSUME ConsoleInv, call.on
  PROVE  Halted = s_rv /\ s_rv = "live"
BY DEF ConsoleInv, CallInProgress, Halted

\* The function has run.
LEMMA FunctionReturns ==
  ASSUME ConsoleInv, GuestReturns
  PROVE  ConsoleInv'
<1> USE DEF ConsoleInv
<1> DEFINE g == cart.code[call.addr]
<1>0. /\ call.on /\ ~cpu.halt /\ call.addr \in DOMAIN cart.code /\ ~g.exits
      /\ UNCHANGED <<host, cart, at, running, frame, luaVars, call, answer, calls>>
      /\ s_rv' = Halted
  BY DEF GuestReturns
<1>1. s_rv' = s_rv /\ s_rv = "live"
  BY <1>0, GuardedHalt
<1>2. /\ cart \in Carts /\ cpu \in Cpu /\ cpu.guard /\ call.args \in Seq(Int)
      /\ CallIsNamed /\ CallRegisters(g)
  BY <1>0 DEF ConsoleShape, CallInProgress
<1>3. /\ g.op \in {"add", "mul", "mix"} /\ g.args \in Seq(Types) /\ g.ret \in Types
  BY <1>0, <1>2, CartFacts
<1> PICK f : f = g
  OBVIOUS
<1> HIDE DEF g
<1> DEFINE v == Compute(f.op, [k \in 1..Len(f.args) |-> Operand(f, k)])
           w == Compute(f.op, Received(f, call.args))
<1>4. [k \in 1..Len(f.args) |-> Operand(f, k)] = Received(f, call.args)
  <2>1. \A k \in 1 .. Len(f.args) : Operand(f, k) = Received(f, call.args)[k]
    BY <1>0, <1>2 DEF CallRegisters
  <2>2. Received(f, call.args) = [k \in 1 .. Len(f.args) |-> Received(f, call.args)[k]]
    BY DEF Received
  <2> QED BY <2>1, <2>2
<1>5. v = w /\ w \in Int
  <2>1. Received(f, call.args) \in Seq(Int)
    BY <1>2, <1>3, ReceivedType
  <2> QED BY <1>3, <1>4, <2>1, ComputeType
<1>6. cpu' = IF f.ret = "f32" THEN [cpu EXCEPT !.F[0] = v, !.halt = TRUE]
             ELSE [cpu EXCEPT !.X[0] = Word(v), !.halt = TRUE]
  BY DEF GuestReturns, g
<1> HIDE DEF v, w
<1>7. Word(w) \in 0 .. (WORD - 1)
  BY <1>5, WordType
<1>8. /\ cpu' \in Cpu /\ cpu'.halt = TRUE /\ cpu'.guard = cpu.guard
      /\ f.ret = "f32" => cpu'.F[0] = w
      /\ f.ret # "f32" => cpu'.X[0] = Word(w)
  <2>1. CASE f.ret = "f32"
    <3>1. cpu' = [X |-> cpu.X, F |-> [cpu.F EXCEPT ![0] = w], halt |-> TRUE, guard |-> cpu.guard]
      BY <1>2, <1>5, <1>6, <2>1 DEF Cpu
    <3>2. /\ cpu.X \in [0 .. 5 -> 0 .. (WORD - 1)] /\ cpu.F \in [0 .. 5 -> Int]
          /\ cpu.guard \in BOOLEAN
      BY <1>2 DEF Cpu
    <3>3. [cpu.F EXCEPT ![0] = w] \in [0 .. 5 -> Int] /\ [cpu.F EXCEPT ![0] = w][0] = w
      BY <1>5, <3>2
    <3> QED BY <2>1, <3>1, <3>2, <3>3 DEF Cpu
  <2>2. CASE f.ret # "f32"
    <3>1. cpu' = [X |-> [cpu.X EXCEPT ![0] = Word(w)], F |-> cpu.F, halt |-> TRUE, guard |-> cpu.guard]
      BY <1>2, <1>5, <1>6, <2>2 DEF Cpu
    <3>2. /\ cpu.X \in [0 .. 5 -> 0 .. (WORD - 1)] /\ cpu.F \in [0 .. 5 -> Int]
          /\ cpu.guard \in BOOLEAN
      BY <1>2 DEF Cpu
    <3>3. /\ [cpu.X EXCEPT ![0] = Word(w)] \in [0 .. 5 -> 0 .. (WORD - 1)]
          /\ [cpu.X EXCEPT ![0] = Word(w)][0] = Word(w)
      BY <1>7, <3>2
    <3> QED BY <2>2, <3>1, <3>2, <3>3 DEF Cpu
  <2> QED BY <2>1, <2>2
<1>9. CallRegisters(f)'
  <2>1. w = Compute(f.op, Received(f, call.args))'
    BY <1>0 DEF w
  <2> QED BY <1>0, <1>2, <1>8, <2>1 DEF CallRegisters
<1>10. CallInProgress'
  <2>1. CallIsNamed'
    BY <1>0, <1>2 DEF CallIsNamed
  <2>2. cart'.code[call'.addr] = f
    BY <1>0 DEF g
  <2> QED BY <1>0, <1>1, <1>2, <1>8, <1>9, <2>1, <2>2 DEF CallInProgress, g
<1>11. ConsoleShape'
  BY <1>0, <1>1, <1>8 DEF ConsoleShape, luaVars
<1>12. ConsoleTables'
  <2>1. ReadExports' = ReadExports /\ (WithinRegistry' <=> WithinRegistry)
        /\ ModuleTables(s_trampolines)' = ModuleTables(s_trampolines)
    BY <1>0, CartIsFixed DEF ModuleTables, luaVars
  <2> QED BY <1>0, <1>1, <2>1 DEF ConsoleTables, luaVars
<1>13. AnswerMeansTheExport' /\ HarnessReadsTheSums'
  BY <1>0, AnswerKept
<1> QED BY <1>10, <1>11, <1>12, <1>13

\* The function has ended the program.
LEMMA FunctionExits ==
  ASSUME ConsoleInv, GuestExits
  PROVE  ConsoleInv'
<1> USE DEF ConsoleInv
<1>0. /\ call.on /\ ~cpu.halt /\ call.addr \in DOMAIN cart.code /\ cart.code[call.addr].exits
      /\ cpu' = [cpu EXCEPT !.X[0] = 0, !.halt = TRUE]
      /\ call' = [call EXCEPT !.from = "exit"]
      /\ UNCHANGED <<host, cart, at, running, frame, luaVars, answer, calls>>
      /\ s_rv' = Halted
  BY DEF GuestExits
<1>1. s_rv' = s_rv /\ s_rv = "live"
  BY <1>0, GuardedHalt
<1>2. /\ cpu \in Cpu /\ cpu.guard /\ call.args \in Seq(Int) /\ CallIsNamed
  BY <1>0 DEF ConsoleShape, CallInProgress
<1>3. cpu' \in Cpu /\ cpu'.guard
  <2>1. 0 \in 0 .. (WORD - 1)
    BY ConsoleAssumption
  <2> QED BY <1>0, <1>2, <2>1 DEF Cpu
<1>4. /\ call'.addr = call.addr /\ call'.args = call.args /\ call'.mod = call.mod
      /\ call'.name = call.name
      /\ "from" \in DOMAIN call => call'.from = "exit"
  BY <1>0
<1>5. "from" \in DOMAIN call /\ DOMAIN call' = DOMAIN NoCall
  <2>1. "from" \in DOMAIN NoCall
    BY DEF NoCall
  <2> QED BY <1>0, <2>1 DEF CallInProgress
<1>10. CallInProgress'
  <2>1. CallIsNamed'
    BY <1>0, <1>2, <1>4 DEF CallIsNamed
  <2> QED BY <1>0, <1>1, <1>2, <1>3, <1>4, <1>5, <2>1 DEF CallInProgress
<1>11. ConsoleShape'
  BY <1>0, <1>1, <1>3 DEF ConsoleShape, luaVars
<1>12. ConsoleTables'
  <2>1. ReadExports' = ReadExports /\ (WithinRegistry' <=> WithinRegistry)
        /\ ModuleTables(s_trampolines)' = ModuleTables(s_trampolines)
    BY <1>0, CartIsFixed DEF ModuleTables, luaVars
  <2> QED BY <1>0, <1>1, <2>1 DEF ConsoleTables, luaVars
<1>13. AnswerMeansTheExport' /\ HarnessReadsTheSums'
  BY <1>0, AnswerKept
<1> QED BY <1>10, <1>11, <1>12, <1>13

\* What the harness's two calls compute.
LEMMA HarnessSums ==
  ASSUME cart \in Carts, "add32" \in DOMAIN cart.symtab, "addf" \in DOMAIN cart.symtab
  PROVE  /\ ~cart.code[cart.symtab["add32"]].exits /\ ~cart.code[cart.symtab["addf"]].exits
         /\ cart.code[cart.symtab["add32"]].ret # "f32" /\ cart.code[cart.symtab["addf"]].ret = "f32"
         /\ LET f == cart.code[cart.symtab["add32"]]
            IN  Word(Compute(f.op, Received(f, <<6, 8>>))) = 7
         /\ LET f == cart.code[cart.symtab["addf"]]
            IN  Compute(f.op, Received(f, <<2, 4>>)) = 6
<1> PICK f : f = cart.code[cart.symtab["add32"]]
  OBVIOUS
<1> PICK g : g = cart.code[cart.symtab["addf"]]
  OBVIOUS
<1>1. /\ f = Function("add", <<"i32", "i32">>, "i32")
      /\ g = Function("add", <<"f32", "f32">>, "f32")
  BY HarnessFunctions
<1>2. /\ f.op = "add" /\ f.args = <<"i32", "i32">> /\ f.ret = "i32" /\ f.exits = FALSE
      /\ g.op = "add" /\ g.args = <<"f32", "f32">> /\ g.ret = "f32" /\ g.exits = FALSE
  BY ONLY <1>1 DEF Function
<1>3. /\ lua_tointeger(<<6, 8>>, 1) = 3 /\ lua_tointeger(<<6, 8>>, 2) = 4
      /\ lua_tonumber(<<2, 4>>, 1) = 2 /\ lua_tonumber(<<2, 4>>, 2) = 4
  BY DEF lua_tointeger, lua_tonumber
<1>4. Signed(Word(3)) = 3 /\ Signed(Word(4)) = 4
  <2>1. Word(3) = 3 /\ Word(4) = 4
    BY SmallWord
  <2> QED BY <2>1, ConsoleAssumption DEF Signed
<1>5. /\ Len(Received(f, <<6, 8>>)) = 2
      /\ Received(f, <<6, 8>>)[1] = 3 /\ Received(f, <<6, 8>>)[2] = 4
  BY <1>2, <1>3, <1>4 DEF Received
<1>6. /\ Len(Received(g, <<2, 4>>)) = 2
      /\ Received(g, <<2, 4>>)[1] = 2 /\ Received(g, <<2, 4>>)[2] = 4
  BY <1>2, <1>3 DEF Received
<1>7. Compute(f.op, Received(f, <<6, 8>>)) = 7 /\ Compute(g.op, Received(g, <<2, 4>>)) = 6
  BY <1>2, <1>5, <1>6 DEF Compute
<1>8. Word(7) = 7
  BY SmallWord
<1> QED BY <1>2, <1>7, <1>8

\* The call is answered.
LEMMA Answered ==
  ASSUME ConsoleInv, CallReturns
  PROVE  ConsoleInv'
<1> USE DEF ConsoleInv
<1>0. /\ call.on /\ cpu.halt /\ cpu' = [cpu EXCEPT !.guard = FALSE] /\ call' = NoCall
      /\ UNCHANGED <<host, cart, running, frame, luaVars, calls>>
      /\ s_rv' = IF at = "addf" THEN "deleted" ELSE s_rv
  BY DEF CallReturns
<1>1. /\ cart \in Carts /\ cpu \in Cpu /\ s_rv = "live" /\ call.args \in Seq(Int)
      /\ call.addr \in DOMAIN cart.code /\ CallIsNamed
      /\ cart.code[call.addr].exits => call.from = "exit"
      /\ ~cart.code[call.addr].exits => CallRegisters(cart.code[call.addr])
  BY <1>0 DEF ConsoleShape, CallInProgress
<1>2. cpu' \in Cpu
  BY <1>0, <1>1 DEF Cpu
<1>3. CallInProgress'
  BY <1>0 DEF CallInProgress, NoCall
<1>4. ReadExports' = ReadExports /\ (WithinRegistry' <=> WithinRegistry)
      /\ ModuleTables(s_trampolines)' = ModuleTables(s_trampolines)
  BY <1>0, CartIsFixed DEF ModuleTables, luaVars
<1>5. CASE host = "wasm"
  <2>1. at \in Scripts /\ running /\ Names(cart, call.mod, call.name, call.addr)
    BY <1>1, <1>5 DEF ConsoleShape, CallIsNamed
  <2>2. at' = at /\ s_rv' = s_rv
    BY <1>0, <1>5, <2>1 DEF CallReturns, Scripts
  <2>3. ConsoleShape'
    BY <1>0, <1>2, <2>2 DEF ConsoleShape, luaVars
  <2>4. ConsoleTables'
    BY <1>0, <1>4, <2>2 DEF ConsoleTables, luaVars
  <2>5. /\ answer'.mod = call.mod /\ answer'.name = call.name /\ answer'.args = call.args
        /\ (answer'.exited <=> call.from = "exit") /\ answer'.res = Pushed
    BY <1>5 DEF CallReturns
  <2>6. ASSUME call.from # "exit"
        PROVE  Pushed = Meaning(call.mod, call.name, call.args)
    <3> DEFINE f == cart.code[call.addr]
               v == Compute(f.op, Received(f, call.args))
    <3>1. CallRegisters(f)
      BY <1>1, <2>6
    <3>2. Meaning(call.mod, call.name, call.args) = IF f.ret = "f32" THEN Truncate(v) ELSE Signed(Word(v))
      BY <1>1, <2>1, MeaningOf
    <3> HIDE DEF f
    <3> QED BY <1>0, <3>1, <3>2 DEF CallRegisters, Pushed
  <2>7. AnswerMeansTheExport'
    <3>1. Meaning(answer.mod, answer.name, answer.args)' = Meaning(answer'.mod, answer'.name, answer'.args)
      BY <1>0 DEF Meaning
    <3> QED BY <2>5, <2>6, <3>1 DEF AnswerMeansTheExport
  <2>8. HarnessReadsTheSums'
    BY <1>0, <1>5 DEF HarnessReadsTheSums
  <2> QED BY <1>3, <2>3, <2>4, <2>7, <2>8
<1>6. CASE host = "harness"
  <2>1. /\ at \in {"add32", "addf"} /\ call.name = at /\ call.addr = cart.symtab[at]
        /\ call.args = IF at = "addf" THEN <<2, 4>> ELSE <<6, 8>>
        /\ "add32" \in DOMAIN cart.symtab /\ "addf" \in DOMAIN cart.symtab
    BY <1>1, <1>6 DEF CallIsNamed, ConsoleTables
  <2>2. /\ at = "add32" => at' = "addf" /\ s_rv' = "live"
        /\ at = "addf" => at' = "passed" /\ s_rv' = "deleted"
    BY <1>0, <1>1, <1>6 DEF CallReturns
  <2>3. ConsoleShape'
    BY <1>0, <1>2, <1>6, <2>1, <2>2 DEF ConsoleShape, luaVars, Scripts
  <2>4. ConsoleTables'
    BY <1>0, <1>4, <1>6, <2>1, <2>2 DEF ConsoleTables, luaVars
  <2>5. /\ answer'.name = at
        /\ answer'.res = IF call.retf THEN cpu.F[0] ELSE cpu.X[0]
    BY <1>6, <2>1 DEF CallReturns
  <2> DEFINE f == cart.code[call.addr]
  <2>6. /\ at = "add32" => ~f.exits /\ f.ret # "f32" /\ Word(Compute(f.op, Received(f, call.args))) = 7
        /\ at = "addf" => ~f.exits /\ f.ret = "f32" /\ Compute(f.op, Received(f, call.args)) = 6
    BY <1>1, <2>1, HarnessSums
  <2>7. CallRegisters(f)
    BY <1>1, <2>1, <2>6
  <2> HIDE DEF f
  <2>8. /\ at = "add32" => answer'.res = 7
        /\ at = "addf" => answer'.res = 6
    BY <1>0, <2>5, <2>6, <2>7 DEF CallRegisters
  <2>9. HarnessReadsTheSums'
    BY <2>5, <2>8 DEF HarnessReadsTheSums
  <2>10. AnswerMeansTheExport'
    BY <1>0, <1>6 DEF AnswerMeansTheExport
  <2> QED BY <1>3, <2>3, <2>4, <2>9, <2>10
<1> QED BY <1>1, <1>5, <1>6 DEF CallIsNamed

\* Every step keeps the invariant.
LEMMA NextConsole ==
  ConsoleInv /\ [\E hook \in BOOLEAN : ConsoleNext(hook)]_consoleVars => ConsoleInv'
<1> SUFFICES ASSUME ConsoleInv, [\E hook \in BOOLEAN : ConsoleNext(hook)]_consoleVars
             PROVE  ConsoleInv'
  OBVIOUS
<1>1. CASE UNCHANGED consoleVars
  <2>1. UNCHANGED <<host, cart, at, running, frame, preload, loaded, s_trampolines, defined,
                    s_rv, cpu, call, answer, calls>>
    BY <1>1 DEF consoleVars
  <2>2. ReadExports' = ReadExports /\ (WithinRegistry' <=> WithinRegistry)
        /\ ModuleTables(s_trampolines)' = ModuleTables(s_trampolines)
    BY <2>1, CartIsFixed DEF ModuleTables
  <2>3. ConsoleShape'
    BY <2>1 DEF ConsoleInv, ConsoleShape
  <2>4. ConsoleTables'
    BY <2>1, <2>2 DEF ConsoleInv, ConsoleTables
  <2>5. CallInProgress'
    <3>1. /\ CallIsNamed' <=> CallIsNamed
          /\ \A f : CallRegisters(f)' <=> CallRegisters(f)
      BY <2>1 DEF CallIsNamed, CallRegisters, Operand
    <3> QED BY <2>1, <3>1 DEF ConsoleInv, CallInProgress
  <2>6. AnswerMeansTheExport' /\ HarnessReadsTheSums'
    BY <2>1, AnswerKept
  <2> QED BY <2>3, <2>4, <2>5, <2>6 DEF ConsoleInv
<1>2. ASSUME NEW hook \in BOOLEAN, ConsoleNext(hook) PROVE ConsoleInv'
  <2>1. CASE \/ \E made \in BOOLEAN : ensure_state(made)
             \/ CallModulesHook(hook) \/ LoadChunk
    BY <2>1, StartSteps
  <2>2. CASE EnterScript \/ ScriptEnds \/ \E m \in {"mylib", "other"} : l_require(m)
    BY <2>2, ScriptSteps
  <2>3. CASE blyt_hybrid_init
    BY <2>3, HybridInit
  <2>4. ASSUME NEW m \in DOMAIN loaded, NEW args \in CallArgs, NEW n \in DOMAIN loaded[m],
               GuestLuaCall(m, n, args) \/ trampoline_call(m, n, args)
        PROVE  ConsoleInv'
    BY <2>4, GuestCall, TrampolineCall
  <2>5. CASE GuestReturns \/ GuestExits \/ CallReturns
    BY <2>5, FunctionReturns, FunctionExits, Answered
  <2>6. CASE HarnessStart \/ HarnessCall
    BY <2>6, HarnessStarts, HarnessCalls
  <2> QED BY <1>2, <2>1, <2>2, <2>3, <2>4, <2>5, <2>6 DEF ConsoleNext
<1> QED BY <1>1, <1>2

\* Whichever console runs the cart and whatever the cart exports, a call from a
\* script or from the harness has a live function behind it and brings back that
\* function's result: arguments reach the registers the function reads them
\* from, its result is not a leftover, and the emulator outlives the call.
THEOREM CallsAreAnswered == ConsoleSpec => []CallsAnswered
<1>1. ConsoleInv => CallsAnswered
  <2> SUFFICES ASSUME ConsoleInv PROVE CallsAnswered
    OBVIOUS
  <2> USE DEF ConsoleInv
  <2>1. Len(s_trampolines) <= MAX_TRAMPOLINES
    BY ReadExportsSound, ConsoleAssumption DEF ConsoleShape, ConsoleTables
  <2>2. ConsoleTypeOK
    <3>1. cpu.X \in [0 .. 5 -> 0 .. (WORD - 1)]
      BY DEF ConsoleShape, Cpu
    <3> QED BY <2>1, <3>1 DEF ConsoleTypeOK, ConsoleShape, Scripts
  <2>3. CallsMeanTheExport
    BY DEF AnswerMeansTheExport, CallsMeanTheExport
  <2>4. TrampolinesAreBacked
    <3>1. s_trampolines = << >> => ModuleTables(s_trampolines) = NoTable
      <4>1. Len(<< >>) = 0 /\ 1 .. 0 = {}
        OBVIOUS
      <4> QED BY <4>1 DEF ModuleTables, NoTable
    <3> QED BY <3>1 DEF ConsoleTables, TrampolinesAreBacked
  <2> QED BY <2>2, <2>3, <2>4 DEF CallsAnswered
<1> QED BY <1>1, InitConsole, NextConsole, PTL DEF ConsoleSpec

------------------------------------------------------------------------------
(* The dynamic loaders (DynLoader), for every directory of libraries and   *)
(* every graph of needs, every table size and every order of the symbols.  *)

\* The names a symbol table knows.
TableNames(t) == {t[i].name : i \in 1 .. Len(t)}

\* The tables the loaders build: no entry stands for address 0.
SymbolTable == Seq([name : STRING, addr : Nat \ {0}])

\* fc32_sym_find returns the address of the first entry of a name, or zero.
LEMMA FindFirst ==
  ASSUME NEW t \in SymbolTable, NEW n
  PROVE  /\ n \notin TableNames(t) => sym_find(t, n) = 0
         /\ n \in TableNames(t) =>
              \E i \in 1 .. Len(t) : /\ t[i].name = n /\ sym_find(t, n) = t[i].addr
                                     /\ \A j \in 1 .. (i - 1) : t[j].name # n
<1>1. n \notin TableNames(t) => sym_find(t, n) = 0
  BY DEF TableNames, sym_find
<1>2. ASSUME n \in TableNames(t)
      PROVE  \E i \in 1 .. Len(t) : /\ t[i].name = n /\ sym_find(t, n) = t[i].addr
                                    /\ \A j \in 1 .. (i - 1) : t[j].name # n
  <2> DEFINE S == {i \in 1 .. Len(t) : t[i].name = n}
             F(i) == t[i].name = n /\ \A j \in 1 .. (i - 1) : t[j].name # n
  <2>1. S \in SUBSET Nat /\ S # {}
    BY <1>2 DEF TableNames
  <2>2. PICK i \in S : \A j \in S : i <= j
    <3> HIDE DEF S
    <3> QED BY <2>1, LeastNat
  <2>3. i \in 1 .. Len(t) /\ F(i)
    <3>0. Len(t) \in Nat /\ i \in 1 .. Len(t) /\ t[i].name = n
      BY DEF SymbolTable
    <3>1. \A j \in 1 .. (i - 1) : j \in 1 .. Len(t) /\ j < i
      BY <3>0
    <3>2. \A j \in 1 .. (i - 1) : t[j].name # n
      BY <2>2, <3>0, <3>1
    <3> QED BY <3>0, <3>2
  <2> DEFINE c == CHOOSE k \in 1 .. Len(t) : F(k)
  <2>4. c \in 1 .. Len(t) /\ F(c)
    <3> HIDE DEF F
    <3> QED BY <2>3
  <2>5. \E k \in 1 .. Len(t) : t[k].name = n
    BY <2>3
  <2>6. sym_find(t, n) = t[c].addr
    BY <2>5 DEF sym_find
  <2> HIDE DEF c
  <2> QED BY <2>4, <2>6
<1> QED BY <1>1, <1>2

\* Objects of which a name can be looked up.
Listed(obj) ==
  /\ IsFiniteSet(DOMAIN obj.syms) /\ DOMAIN obj.syms \subseteq STRING
  /\ \A n \in DOMAIN obj.syms : obj.syms[n] \in Symbol

\* What the table has after fc32_sym_add was called for each of an object's
\* exports: it never outgrows its size, and when all of them fit, the names it
\* had keep their address and the new ones have the object's.
LEMMA AddFinds ==
  ASSUME NEW t \in SymbolTable, NEW obj, Listed(obj), NEW base \in Nat,
         NEW order \in Orders(NewNames(t, obj)), Len(t) <= SYM_MAX
  PROVE  LET u == sym_add(t, obj, base, order)
             new == NewNames(t, obj)
         IN  /\ u \in SymbolTable /\ Len(u) <= SYM_MAX
             /\ IsFiniteSet(new)
             /\ Len(t) + Cardinality(new) <= SYM_MAX =>
                  /\ Len(u) = Len(t) + Cardinality(new)
                  /\ TableNames(u) = TableNames(t) \cup new
                  /\ \A n \in TableNames(t) : sym_find(u, n) = sym_find(t, n)
                  /\ \A n \in new \ TableNames(t) : sym_find(u, n) = base + obj.syms[n].value
<1> DEFINE u == sym_add(t, obj, base, order)
           new == NewNames(t, obj)
           c == Cardinality(new)
           room == SYM_MAX - Len(t)
           count == IF c <= room THEN c ELSE room
           es == Entries(obj, base, order, count)
<1>1. IsFiniteSet(new) /\ c \in Nat
  <2>1. new \subseteq DOMAIN obj.syms /\ IsFiniteSet(DOMAIN obj.syms)
    BY DEF NewNames, Listed
  <2> QED BY <2>1, FS_Subset, FS_CardinalityType
<1>2. /\ order \in [1 .. c -> new] /\ (\A n \in new : \E k \in 1 .. c : order[k] = n)
      /\ Len(order) = c
  <2>1. order \in [1 .. c -> new] /\ \A n \in new : \E k \in 1 .. c : order[k] = n
    BY DEF Orders
  <2>2. Len(order) = c
    BY <1>1, <2>1
  <2> QED BY <2>1, <2>2
<1>3. Len(t) \in Nat /\ SYM_MAX \in Nat /\ count \in 0 .. c /\ count \in Nat
      /\ Len(t) + count <= SYM_MAX
      /\ (Len(t) + c <= SYM_MAX => count = c)
  <2>1. Len(t) \in Nat /\ SYM_MAX \in Nat
    BY LoaderAssumption DEF SymbolTable
  <2> HIDE DEF c
  <2> QED BY <1>1, <2>1
<1>4. \A n \in new : n \in STRING /\ obj.syms[n].value \in Nat \ {0}
  BY DEF NewNames, Listed, Exported, Symbol
<1>5. /\ es \in SymbolTable /\ Len(es) = count
      /\ \A k \in 1 .. count : /\ es[k].name = order[k] /\ order[k] \in new
                               /\ es[k].addr = base + obj.syms[order[k]].value
  <2> HIDE DEF new, c, count
  <2>1. \A k \in 1 .. count : order[k] \in new
    BY <1>1, <1>2, <1>3
  <2>2. \A k \in 1 .. count :
          [name |-> order[k], addr |-> base + obj.syms[order[k]].value]
            \in [name : STRING, addr : Nat \ {0}]
    BY <1>4, <2>1
  <2>3. es \in Seq([name : STRING, addr : Nat \ {0}]) /\ Len(es) = count
    BY <1>3, <2>2 DEF Entries
  <2>4. \A k \in 1 .. count : /\ es[k].name = order[k]
                              /\ es[k].addr = base + obj.syms[order[k]].value
    BY <1>3 DEF Entries
  <2> QED BY <2>1, <2>3, <2>4 DEF SymbolTable
<1>6. u = t \o es
  BY <1>2 DEF sym_add
<1> HIDE DEF u, es, new, count
<1>7. /\ u \in SymbolTable /\ Len(u) = Len(t) + count
      /\ \A i \in 1 .. Len(t) : u[i] = t[i]
      /\ \A k \in 1 .. count : u[Len(t) + k] = es[k]
  <2> DEFINE E == [name : STRING, addr : Nat \ {0}]
  <2>1. t \in Seq(E) /\ es \in Seq(E) /\ Len(es) = count
    BY <1>5 DEF SymbolTable
  <2> HIDE DEF E
  <2>2. /\ t \o es \in Seq(E) /\ Len(t \o es) = Len(t) + count
        /\ \A i \in 1 .. Len(t) : (t \o es)[i] = t[i]
    BY <1>3, <2>1
  <2>3. \A k \in 1 .. count : (t \o es)[Len(t) + k] = es[k]
    BY <1>3, <2>1
  <2> QED BY <1>6, <2>2, <2>3 DEF E, SymbolTable
<1>8. ASSUME Len(t) + c <= SYM_MAX
      PROVE  TableNames(u) = TableNames(t) \cup new
  <2>1. count = c
    BY <1>3, <1>8
  <2>2. ASSUME NEW n \in TableNames(u) PROVE n \in TableNames(t) \cup new
    <3>1. PICK i \in 1 .. Len(u) : u[i].name = n
      BY DEF TableNames
    <3>2. CASE i <= Len(t)
      <4>1. i \in 1 .. Len(t)
        BY <1>3, <1>7, <3>2
      <4> QED BY <1>7, <3>1, <4>1 DEF TableNames
    <3>3. CASE i > Len(t)
      <4>1. i - Len(t) \in 1 .. count /\ Len(t) + (i - Len(t)) = i
        BY <1>3, <1>7, <3>3
      <4>2. u[i] = es[i - Len(t)]
        BY <1>7, <4>1
      <4> QED BY <1>5, <3>1, <4>1, <4>2
    <3> QED BY <1>3, <1>7, <3>2, <3>3
  <2>3. ASSUME NEW n \in TableNames(t) PROVE n \in TableNames(u)
    <3>1. PICK i \in 1 .. Len(t) : t[i].name = n
      BY DEF TableNames
    <3>2. i \in 1 .. Len(u) /\ u[i].name = n
      BY <1>3, <1>7, <3>1
    <3> QED BY <3>2 DEF TableNames
  <2>4. ASSUME NEW n \in new PROVE n \in TableNames(u)
    <3>1. PICK k \in 1 .. c : order[k] = n
      BY <1>2
    <3>2. Len(t) + k \in 1 .. Len(u) /\ u[Len(t) + k].name = n
      BY <1>1, <1>3, <1>5, <1>7, <2>1, <3>1
    <3> QED BY <3>2 DEF TableNames
  <2> QED BY <2>2, <2>3, <2>4
<1>9. ASSUME Len(t) + c <= SYM_MAX, NEW n \in TableNames(t)
      PROVE  sym_find(u, n) = sym_find(t, n)
  <2>1. n \in TableNames(u)
    BY <1>8, <1>9
  <2>2. PICK i \in 1 .. Len(u) : /\ u[i].name = n /\ sym_find(u, n) = u[i].addr
                                 /\ \A j \in 1 .. (i - 1) : u[j].name # n
    BY <1>7, <2>1, FindFirst
  <2>3. PICK k \in 1 .. Len(t) : /\ t[k].name = n /\ sym_find(t, n) = t[k].addr
                                 /\ \A j \in 1 .. (k - 1) : t[j].name # n
    BY <1>9, FindFirst
  <2>4. u[k] = t[k] /\ k \in Nat /\ i \in Nat
    BY <1>7
  <2>5. ~(k < i)
    <3>1. k < i => k \in 1 .. (i - 1)
      BY <2>4
    <3> QED BY <2>2, <2>3, <2>4, <3>1
  <2>6. ~(i < k)
    <3>1. i < k => i \in 1 .. (k - 1) /\ i \in 1 .. Len(t)
      BY <1>3, <2>4
    <3>2. i < k => t[i].name = n
      BY <1>7, <2>2, <3>1
    <3> QED BY <2>3, <3>1, <3>2
  <2>7. i = k
    BY <2>4, <2>5, <2>6
  <2> QED BY <2>2, <2>3, <2>4, <2>7
<1>10. ASSUME Len(t) + c <= SYM_MAX, NEW n \in new, n \notin TableNames(t)
       PROVE  sym_find(u, n) = base + obj.syms[n].value
  <2>1. PICK i \in 1 .. Len(u) : u[i].name = n /\ sym_find(u, n) = u[i].addr
    BY <1>7, <1>8, <1>10, FindFirst
  <2>2. ~(i <= Len(t))
    <3>1. i <= Len(t) => i \in 1 .. Len(t)
      BY <1>3
    <3> QED BY <1>7, <1>10, <2>1, <3>1 DEF TableNames
  <2>3. i - Len(t) \in 1 .. count /\ Len(t) + (i - Len(t)) = i
    BY <1>3, <1>7, <2>2
  <2>4. u[i] = es[i - Len(t)]
    BY <1>7, <2>3
  <2> QED BY <1>5, <2>1, <2>3, <2>4
<1>11. Len(u) <= SYM_MAX
  BY <1>3, <1>7
<1>12. Len(t) + c <= SYM_MAX => Len(u) = Len(t) + c
  BY <1>3, <1>7
<1> QED BY <1>1, <1>7, <1>8, <1>9, <1>10, <1>11, <1>12 DEF u, new

\* As many places as names when no name stands twice.
LEMMA CountDistinct ==
  ASSUME NEW n \in Nat, NEW f, DOMAIN f = 1 .. n,
         \A i, j \in 1 .. n : f[i] = f[j] => i = j
  PROVE  /\ IsFiniteSet({f[i] : i \in 1 .. n})
         /\ Cardinality({f[i] : i \in 1 .. n}) = n
<1> DEFINE T == {f[i] : i \in 1 .. n}
           g == [i \in 1 .. n |-> f[i]]
<1>1. g \in Surjection(1 .. n, T) /\ g \in Injection(1 .. n, T)
  BY DEF Surjection, Injection, IsInjective
<1>2. IsFiniteSet(1 .. n) /\ Cardinality(1 .. n) = n
  BY FS_Interval
<1> HIDE DEF T, g
<1>3. IsFiniteSet(T) /\ Cardinality(T) = n
  BY <1>1, <1>2, FS_Surjection
<1> QED BY <1>3 DEF T

\* What is assumed of the files, in the terms the proofs use.
LEMMA Files ==
  ASSUME world \in Worlds
  PROVE  /\ world.cart.dynamic \in BOOLEAN
         /\ Listed(world.cart) /\ world.cart.size \in Nat /\ world.cart.size <= LIB_LOAD_ADDR
         /\ world.cart.needed \in Seq(Libs)
         /\ \A i, j \in 1 .. Len(world.cart.needed) :
              world.cart.needed[i] = world.cart.needed[j] => i = j
         /\ \A n \in DOMAIN world.cart.syms :
              ~world.cart.syms[n].und => world.cart.syms[n].value # 0
         /\ \A l \in DOMAIN world.files :
              /\ l \in Libs /\ Listed(world.files[l])
              /\ world.files[l].size \in Nat /\ world.files[l].size > 0
              /\ world.files[l].needed \in Seq(Libs)
              /\ \A n \in DOMAIN world.files[l].syms :
                   ~world.files[l].syms[n].und <=> world.files[l].syms[n].value # 0
<1>1. IsObject(world.cart, world.cart.plt \o world.cart.relas)
  BY WorldAssumption
<1>2. /\ world.cart.dynamic \in BOOLEAN /\ world.cart.size <= LIB_LOAD_ADDR
      /\ \A i, j \in 1 .. Len(world.cart.needed) :
              world.cart.needed[i] = world.cart.needed[j] => i = j
  BY WorldAssumption
<1>3. /\ Listed(world.cart) /\ world.cart.size \in Nat /\ world.cart.needed \in Seq(Libs)
      /\ \A n \in DOMAIN world.cart.syms :
              ~world.cart.syms[n].und => world.cart.syms[n].value # 0
  BY <1>1 DEF IsObject, Listed
<1>4. ASSUME NEW l \in DOMAIN world.files
      PROVE  /\ l \in Libs /\ Listed(world.files[l])
             /\ world.files[l].size \in Nat /\ world.files[l].size > 0
             /\ world.files[l].needed \in Seq(Libs)
             /\ \A n \in DOMAIN world.files[l].syms :
                  ~world.files[l].syms[n].und <=> world.files[l].syms[n].value # 0
  <2>1. /\ DOMAIN world.files \subseteq Libs /\ world.files[l].size > 0
        /\ IsObject(world.files[l], world.files[l].relas)
        /\ \A n \in DOMAIN world.files[l].syms :
                    world.files[l].syms[n].und => world.files[l].syms[n].value = 0
    BY <1>4, WorldAssumption
  <2> QED BY <2>1 DEF IsObject, Listed
<1> QED BY <1>2, <1>3, <1>4

\* A library exports what it defines, and so does a cart to loader I.
LEMMA ExportsAreDefinitions ==
  ASSUME world \in Worlds
  PROVE  /\ \A l \in DOMAIN world.files : \A n :
              n \in NewNames(<< >>, world.files[l]) <=> Defines(world.files[l], n)
         /\ loader = "i" =>
              \A n : n \in NewNames(<< >>, world.cart) <=> Defines(world.cart, n)
         /\ \A t, obj : /\ loader = "i" => NewNames(t, obj) = NewNames(<< >>, obj) \ TableNames(t)
                        /\ loader # "i" => NewNames(t, obj) = NewNames(<< >>, obj)
<1>1. ASSUME NEW l \in DOMAIN world.files, NEW n
      PROVE  n \in NewNames(<< >>, world.files[l]) <=> Defines(world.files[l], n)
  <2>1. n \in DOMAIN world.files[l].syms =>
          /\ ~world.files[l].syms[n].und <=> world.files[l].syms[n].value # 0
          /\ world.files[l].syms[n].bind \in {"global", "weak", "local"}
    BY Files DEF Listed, Symbol
  <2> QED BY <2>1 DEF NewNames, Defines, Exported
<1>2. ASSUME loader = "i", NEW n
      PROVE  n \in NewNames(<< >>, world.cart) <=> Defines(world.cart, n)
  <2>1. n \in DOMAIN world.cart.syms =>
          /\ ~world.cart.syms[n].und => world.cart.syms[n].value # 0
          /\ world.cart.syms[n].bind \in {"global", "weak", "local"}
    BY Files DEF Listed, Symbol
  <2> QED BY <1>2, <2>1 DEF NewNames, Defines, Exported
<1>3. ASSUME NEW t, NEW obj
      PROVE  /\ loader = "i" => NewNames(t, obj) = NewNames(<< >>, obj) \ TableNames(t)
             /\ loader # "i" => NewNames(t, obj) = NewNames(<< >>, obj)
  BY DEF NewNames, TableNames
<1> QED BY <1>1, <1>2, <1>3

\* The libraries a cart needs are the least set that has its needs and theirs.
LEMMA ReachableIsLeast ==
  ASSUME world \in Worlds
  PROVE  /\ Reachable \subseteq Libs /\ IsFiniteSet(Reachable) /\ Cardinality(Reachable) \in Nat
         /\ Members(world.cart.needed) \subseteq Reachable
         /\ \A l \in Reachable \cap DOMAIN world.files :
              Members(world.files[l].needed) \subseteq Reachable
         /\ \A S \in SUBSET Libs :
              (Members(world.cart.needed) \subseteq S /\ Closed(S)) => Reachable \subseteq S
<1>1. Reachable \subseteq Libs
  BY DEF Reachable
<1>2. IsFiniteSet(Reachable) /\ Cardinality(Reachable) \in Nat
  BY <1>1, LoaderAssumption, FS_Subset, FS_CardinalityType
<1>3. Members(world.cart.needed) \subseteq Libs
  BY Files DEF Members
<1>4. Members(world.cart.needed) \subseteq Reachable
  BY <1>3 DEF Reachable
<1>5. ASSUME NEW l \in Reachable \cap DOMAIN world.files
      PROVE  Members(world.files[l].needed) \subseteq Reachable
  <2>1. Members(world.files[l].needed) \subseteq Libs
    BY Files DEF Members
  <2>2. ASSUME NEW m \in Members(world.files[l].needed), NEW S \in SUBSET Libs,
               Members(world.cart.needed) \subseteq S, Closed(S)
        PROVE  m \in S
    <3>1. l \in S
      BY <1>5, <2>2 DEF Reachable
    <3> QED BY <1>5, <2>2, <3>1 DEF Closed
  <2> QED BY <2>1, <2>2 DEF Reachable
<1>6. ASSUME NEW S \in SUBSET Libs, Members(world.cart.needed) \subseteq S, Closed(S)
      PROVE  Reachable \subseteq S
  BY <1>6 DEF Reachable
<1> QED BY <1>1, <1>2, <1>4, <1>5, <1>6

\* The names they export are finitely many.
LEMMA ExportsFinite ==
  ASSUME world \in Worlds
  PROVE  /\ IsFiniteSet(ExportedNames) /\ Cardinality(ExportedNames) \in Nat
         /\ loader = "i" => NewNames(<< >>, world.cart) \subseteq ExportedNames
         /\ \A l \in Reachable \cap DOMAIN world.files :
              NewNames(<< >>, world.files[l]) \subseteq ExportedNames
<1> DEFINE R == Reachable \cap DOMAIN world.files
           N(l) == NewNames(<< >>, world.files[l])
           F == {N(l) : l \in R}
           g == [l \in R |-> N(l)]
<1>1. IsFiniteSet(R)
  BY ReachableIsLeast, FS_Intersection
<1>2. g \in Surjection(R, F)
  BY DEF Surjection
<1>3. \A T \in F : IsFiniteSet(T)
  <2> SUFFICES ASSUME NEW l \in R PROVE IsFiniteSet(N(l))
    OBVIOUS
  <2>1. IsFiniteSet(DOMAIN world.files[l].syms) /\ N(l) \subseteq DOMAIN world.files[l].syms
    BY Files DEF Listed, NewNames
  <2> QED BY <2>1, FS_Subset
<1>4. IsFiniteSet(F)
  <2> HIDE DEF R, F, g
  <2> QED BY <1>1, <1>2, FS_Surjection
<1>5. IsFiniteSet(UNION F)
  <2> HIDE DEF F
  <2> QED BY <1>3, <1>4, FS_UNION
<1>6. IsFiniteSet(NewNames(<< >>, world.cart))
  <2>1. IsFiniteSet(DOMAIN world.cart.syms) /\ NewNames(<< >>, world.cart) \subseteq DOMAIN world.cart.syms
    BY Files DEF Listed, NewNames
  <2> QED BY <2>1, FS_Subset
<1> DEFINE C == IF loader = "i" THEN NewNames(<< >>, world.cart) ELSE {}
<1>7. IsFiniteSet(C)
  BY <1>6, FS_EmptySet
<1>8. ExportedNames = C \cup UNION F
  BY DEF ExportedNames
<1>9. IsFiniteSet(ExportedNames) /\ Cardinality(ExportedNames) \in Nat
  <2> HIDE DEF C, F
  <2>1. IsFiniteSet(C \cup UNION F)
    BY <1>5, <1>7, FS_Union
  <2> QED BY <1>8, <2>1, FS_CardinalityType
<1>10. \A l \in R : N(l) \subseteq UNION F
  OBVIOUS
<1>11. loader = "i" => NewNames(<< >>, world.cart) \subseteq ExportedNames
  BY <1>8
<1> HIDE DEF F, N
<1> QED BY <1>8, <1>9, <1>10, <1>11 DEF N

\* A word no entry writes stays as it is; one that one entry writes has its value.
LEMMA WriteFacts ==
  ASSUME NEW m, NEW effects
  PROVE  /\ DOMAIN Write(m, effects) = DOMAIN m
         /\ \A a \in DOMAIN m :
              (\A k \in 1 .. Len(effects) : effects[k].addr # a) => Write(m, effects)[a] = m[a]
         /\ \A k \in 1 .. Len(effects) :
              (/\ effects[k].addr \in DOMAIN m
               /\ \A j \in 1 .. Len(effects) : effects[j].addr = effects[k].addr => j = k) =>
                Write(m, effects)[effects[k].addr] = effects[k].val
<1> DEFINE K(a) == {k \in 1 .. Len(effects) : effects[k].addr = a}
<1>1. \A a \in DOMAIN m : Write(m, effects)[a] =
        IF K(a) = {} THEN m[a] ELSE effects[CHOOSE k \in K(a) : \A j \in K(a) : j <= k].val
  BY DEF Write
<1>2. DOMAIN Write(m, effects) = DOMAIN m
  BY DEF Write
<1>3. ASSUME NEW a \in DOMAIN m, \A k \in 1 .. Len(effects) : effects[k].addr # a
      PROVE  Write(m, effects)[a] = m[a]
  <2>1. K(a) = {}
    BY <1>3
  <2> HIDE DEF K
  <2> QED BY <1>1, <2>1
<1>4. ASSUME NEW k \in 1 .. Len(effects), effects[k].addr \in DOMAIN m,
             \A j \in 1 .. Len(effects) : effects[j].addr = effects[k].addr => j = k
      PROVE  Write(m, effects)[effects[k].addr] = effects[k].val
  <2> DEFINE a == effects[k].addr
  <2>1. K(a) = {k}
    BY <1>4
  <2>2. k <= k
    OBVIOUS
  <2> HIDE DEF K
  <2>3. (CHOOSE x \in K(a) : \A j \in K(a) : j <= x) = k
    BY <2>1, <2>2
  <2> QED BY <1>1, <1>4, <2>1, <2>3
<1> QED BY <1>2, <1>3, <1>4

\* The same of one entry.
LEMMA WriteOne ==
  ASSUME NEW m, NEW effects, NEW k \in 1 .. Len(effects), NEW a \in DOMAIN m, effects[k].addr = a,
         \A j \in 1 .. Len(effects) : effects[j].addr = a => j = k
  PROVE  Write(m, effects)[a] = effects[k].val
BY WriteFacts

\* The libraries in memory.
MappedNames == {mapped[i].name : i \in 1 .. Len(mapped)}

\* Everything that had to be loaded is.
Loaded == phase \in {"relocate", "plt", "rela"} \/ Finished

\* The values of the loader's variables, and what the phases stand for.
LoaderShape ==
  /\ loader \in {"i", "c"} /\ world \in Worlds /\ ok \in BOOLEAN
  /\ phase \in {"start", "load", "relocate", "plt", "rela", "done"}
  /\ todo \in Seq(Libs)
  /\ registry \in Seq([name : DOMAIN world.files, base : Nat]) /\ Len(registry) <= LIB_MAX
  /\ syms \in SymbolTable /\ Len(syms) <= SYM_MAX
  /\ next_base \in Nat /\ next_base % PAGE = 0 /\ LIB_LOAD_ADDR <= next_base
  /\ mapped \in Seq([name : DOMAIN world.files, base : Nat, top : Nat])
  /\ DOMAIN mem = 0 .. (MEM_SIZE - 1)
  /\ next_rela \in Nat \ {0} /\ (loader = "c" => phase # "relocate")
  /\ phase \notin {"start", "done"} => world.cart.dynamic
  /\ (phase = "start" \/ ~world.cart.dynamic) =>
       todo = << >> /\ registry = << >> /\ syms = << >> /\ mapped = << >>

\* Where the libraries lie.
LoaderPlaces ==
  /\ \A i \in 1 .. Len(mapped) :
       /\ LIB_LOAD_ADDR <= mapped[i].base
       /\ mapped[i].top = mapped[i].base + world.files[mapped[i].name].size
  /\ loader = "i" =>
       /\ \A i \in 1 .. Len(mapped) : mapped[i].top <= next_base
       /\ \A i, j \in 1 .. Len(mapped) : i < j => mapped[i].top <= mapped[j].base

\* Loader I: the registry is what was mapped, once each, and what is needed is
\* mapped or still to come.
NeedsMet ==
  /\ Len(registry) = Len(mapped)
  /\ \A i \in 1 .. Len(mapped) : /\ registry[i].name = mapped[i].name
                                 /\ registry[i].base = mapped[i].base
  /\ \A i, j \in 1 .. Len(mapped) : mapped[i].name = mapped[j].name => i = j
  /\ MappedNames \subseteq Reachable /\ Members(todo) \subseteq Reachable
  /\ (phase # "start" /\ world.cart.dynamic) =>
       Members(world.cart.needed) \subseteq MappedNames \cup Members(todo)
  /\ \A l \in MappedNames :
       Members(world.files[l].needed) \subseteq MappedNames \cup Members(todo)
  /\ phase \in {"start", "load"} => next_rela = 1
  /\ next_rela <= Len(mapped) + 1
  /\ phase \in {"plt", "rela"} \/ Finished => next_rela = Len(mapped) + 1
  /\ relocated = [i \in 1 .. (next_rela - 1) |-> mapped[i].base]

\* Loader C: one library, mapped or still to come.
SingleMet ==
  /\ (phase # "start" /\ world.cart.dynamic) => Len(mapped) + Len(todo) = 1
  /\ MappedNames \cup Members(todo) \subseteq Members(world.cart.needed)
  /\ relocated = [i \in 1 .. Len(mapped) |-> mapped[i].base]

\* What the cart and the mapped libraries need, by the loader that runs.
LoaderNeeds ==
  WithinTables => /\ IF loader = "i" THEN NeedsMet ELSE SingleMet
                  /\ Loaded => todo = << >>

\* The table knows every name by its definition among what is mapped.
LoaderSymbols ==
  (WithinTables /\ phase # "start" /\ world.cart.dynamic) =>
      /\ TableNames(syms) \subseteq ExportedNames
      /\ Len(syms) <= Cardinality(TableNames(syms))
      /\ \A n : sym_find(syms, n) = Definition(n)

\* The cart's words wait for their turn; a relocated library's slots are right.
LoaderMemory ==
  WithinTables =>
      /\ phase \in {"start", "load", "relocate", "plt"} =>
           \A a \in 0 .. (world.cart.size - 1) : mem[a] = Raw
      /\ \A i \in 1 .. Len(mapped) :
           ((loader = "i" => i < next_rela) /\ mapped[i].top <= MEM_SIZE) => LibrarySlotsHold(i)
      /\ phase = "rela" \/ Finished => CartSlotsHold

\* The inductive invariant of the loaders.
LoaderInv == LoaderShape /\ LoaderPlaces /\ LoaderNeeds /\ LoaderSymbols /\ LoaderMemory

\* A history of mappings, and one in which each lies above those before it.
Mappings == Seq([name : DOMAIN world.files, base : Nat, top : Nat])

Rising(ms) == \A i, j \in 1 .. Len(ms) : i < j => ms[i].base < ms[j].base

\* Which definition a name has.
LEMMA DefinitionIs ==
  ASSUME world \in Worlds, NEW ms \in Mappings, Rising(ms), NEW n
  PROVE  /\ loader = "i" /\ Defines(world.cart, n) =>
              /\ DefinitionIn(ms, n) = world.cart.syms[n].value
              /\ DefinitionIn(ms, n) \in Nat \ {0}
         /\ ~(loader = "i" /\ Defines(world.cart, n)) =>
              /\ Definers(ms, n) = {} => DefinitionIn(ms, n) = 0
              /\ \A i \in Definers(ms, n) :
                   (\A j \in Definers(ms, n) : i <= j) =>
                     /\ DefinitionIn(ms, n) = ms[i].base + world.files[ms[i].name].syms[n].value
                     /\ DefinitionIn(ms, n) \in Nat \ {0}
              /\ Definers(ms, n) # {} => \E i \in Definers(ms, n) : \A j \in Definers(ms, n) : i <= j
<1> DEFINE own == loader = "i" /\ Defines(world.cart, n)
           D == Definers(ms, n)
           first == CHOOSE i \in D : \A j \in D : ms[i].base <= ms[j].base
<1>1. /\ own => DefinitionIn(ms, n) = world.cart.syms[n].value
      /\ ~own /\ D = {} => DefinitionIn(ms, n) = 0
      /\ ~own /\ D # {} => DefinitionIn(ms, n) = ms[first].base + world.files[ms[first].name].syms[n].value
  BY DEF DefinitionIn
<1>2. own => world.cart.syms[n].value \in Nat \ {0}
  BY Files DEF Defines, Listed, Symbol
<1>3. /\ Len(ms) \in Nat /\ D \in SUBSET (1 .. Len(ms)) /\ D \in SUBSET Nat
      /\ \A i \in 1 .. Len(ms) : ms[i].name \in DOMAIN world.files /\ ms[i].base \in Nat
  <2> DEFINE E == [name : DOMAIN world.files, base : Nat, top : Nat]
  <2>0. ms \in Seq(E)
    BY DEF Mappings
  <2>1. \A i \in 1 .. Len(ms) : ms[i] \in E
    <3> HIDE DEF E
    <3> QED BY <2>0
  <2>2. Len(ms) \in Nat
    BY <2>0
  <2>3. \A i \in D : i \in 1 .. Len(ms)
    BY DEF Definers
  <2> HIDE DEF D
  <2>4. D \in SUBSET (1 .. Len(ms)) /\ D \in SUBSET Nat
    BY <2>2, <2>3
  <2> QED BY <2>1, <2>2, <2>4
<1>4. \A i \in D : world.files[ms[i].name].syms[n].value \in Nat \ {0}
  <2> TAKE i \in D
  <2>1. ms[i].name \in DOMAIN world.files /\ Defines(world.files[ms[i].name], n)
    BY <1>3 DEF Definers
  <2> QED BY <2>1, Files DEF Defines, Listed, Symbol
<1>5. ASSUME NEW i \in D, \A j \in D : i <= j
      PROVE  first = i
  <2>1. \A j \in D : ms[i].base <= ms[j].base
    <3> TAKE j \in D
    <3>1. i \in 1 .. Len(ms) /\ j \in 1 .. Len(ms) /\ i <= j
      BY <1>3, <1>5
    <3>2. CASE i < j
      BY <1>3, <3>1, <3>2 DEF Rising
    <3>3. CASE i = j
      BY <1>3, <3>1, <3>3
    <3> QED BY <3>1, <3>2, <3>3
  <2>2. ASSUME NEW x \in D, \A j \in D : ms[x].base <= ms[j].base
        PROVE  x = i
    <3>1. i \in 1 .. Len(ms) /\ x \in 1 .. Len(ms) /\ i <= x /\ ms[x].base <= ms[i].base
      BY <1>3, <1>5, <2>2
    <3>2. ~(i < x)
      BY <1>3, <3>1 DEF Rising
    <3> QED BY <3>1, <3>2
  <2> HIDE DEF D
  <2> QED BY <2>1, <2>2
<1>6. D # {} => \E i \in D : \A j \in D : i <= j
  <2> HIDE DEF D
  <2> QED BY <1>3, LeastNat
<1> HIDE DEF first, D
<1>7. ASSUME ~own, NEW i \in D, \A j \in D : i <= j
      PROVE  /\ DefinitionIn(ms, n) = ms[i].base + world.files[ms[i].name].syms[n].value
             /\ DefinitionIn(ms, n) \in Nat \ {0}
  <2> DEFINE d == DefinitionIn(ms, n)
             base == ms[i].base
             value == world.files[ms[i].name].syms[n].value
  <2>1. d = base + value
    BY <1>1, <1>5, <1>7
  <2>2. base \in Nat /\ value \in Nat \ {0}
    BY <1>3, <1>4
  <2> HIDE DEF d, base, value
  <2>3. d = base + value /\ d \in Nat \ {0}
    BY <2>1, <2>2
  <2> QED BY <2>3 DEF d, base, value
<1> QED BY <1>1, <1>2, <1>6, <1>7 DEF D

\* A library mapped above the others gives a meaning to the names that had none.
LEMMA DefinitionGrows ==
  ASSUME world \in Worlds, NEW ms \in Mappings, Rising(ms), NEW l \in DOMAIN world.files,
         NEW b \in Nat, NEW top \in Nat, \A i \in 1 .. Len(ms) : ms[i].base < b, NEW n
  PROVE  LET ns == Append(ms, [name |-> l, base |-> b, top |-> top])
         IN  /\ ns \in Mappings /\ Rising(ns)
             /\ DefinitionIn(ns, n) = IF DefinitionIn(ms, n) # 0 THEN DefinitionIn(ms, n)
                                      ELSE IF Defines(world.files[l], n)
                                           THEN b + world.files[l].syms[n].value
                                           ELSE 0
<1> DEFINE e == [name |-> l, base |-> b, top |-> top]
           ns == Append(ms, e)
           own == loader = "i" /\ Defines(world.cart, n)
<1>1. /\ Len(ms) \in Nat /\ ns \in Mappings /\ Len(ns) = Len(ms) + 1
      /\ \A i \in 1 .. Len(ms) : ns[i] = ms[i]
      /\ ns[Len(ms) + 1] = e
  BY DEF Mappings
<1> HIDE DEF ns
<1>2. Rising(ns)
  <2> SUFFICES ASSUME NEW i \in 1 .. Len(ns), NEW j \in 1 .. Len(ns), i < j
               PROVE  ns[i].base < ns[j].base
    BY DEF Rising
  <2>1. i \in 1 .. Len(ms) /\ (j \in 1 .. Len(ms) \/ j = Len(ms) + 1)
    BY <1>1
  <2> QED BY <1>1, <2>1 DEF Rising
<1>3. \A i \in 1 .. Len(ms) : i \in Definers(ns, n) <=> i \in Definers(ms, n)
  BY <1>1 DEF Definers
<1>4. Len(ms) + 1 \in Definers(ns, n) <=> Defines(world.files[l], n)
  BY <1>1 DEF Definers
<1>5. /\ \A i \in Definers(ns, n) : i \in 1 .. Len(ms) \/ i = Len(ms) + 1
      /\ \A i \in Definers(ms, n) : i \in 1 .. Len(ms)
  BY <1>1 DEF Definers
<1>6. CASE own
  <2>1. DefinitionIn(ms, n) = world.cart.syms[n].value /\ DefinitionIn(ms, n) # 0
    BY <1>6, DefinitionIs
  <2>2. DefinitionIn(ns, n) = world.cart.syms[n].value
    BY <1>1, <1>2, <1>6, DefinitionIs
  <2> QED BY <1>1, <1>2, <2>1, <2>2 DEF ns
<1>7. CASE ~own /\ Definers(ms, n) # {}
  <2>1. PICK i \in Definers(ms, n) : \A j \in Definers(ms, n) : i <= j
    BY <1>7, DefinitionIs
  <2>2. /\ DefinitionIn(ms, n) = ms[i].base + world.files[ms[i].name].syms[n].value
        /\ DefinitionIn(ms, n) # 0
    BY <1>7, <2>1, DefinitionIs
  <2>3. i \in 1 .. Len(ms) /\ i \in Definers(ns, n) /\ \A j \in Definers(ns, n) : i <= j
    BY <1>1, <1>3, <1>5, <2>1
  <2>4. DefinitionIn(ns, n) = ns[i].base + world.files[ns[i].name].syms[n].value
    BY <1>1, <1>2, <1>7, <2>3, DefinitionIs
  <2> QED BY <1>1, <1>2, <2>2, <2>3, <2>4 DEF ns
<1>8. CASE ~own /\ Definers(ms, n) = {}
  <2>1. DefinitionIn(ms, n) = 0
    BY <1>8, DefinitionIs
  <2>2. CASE Defines(world.files[l], n)
    <3>1. Len(ms) + 1 \in Definers(ns, n) /\ \A j \in Definers(ns, n) : Len(ms) + 1 <= j
      BY <1>1, <1>3, <1>4, <1>5, <1>8, <2>2
    <3>2. DefinitionIn(ns, n) = ns[Len(ms) + 1].base + world.files[ns[Len(ms) + 1].name].syms[n].value
      BY <1>1, <1>2, <1>8, <3>1, DefinitionIs
    <3>3. DefinitionIn(ns, n) = b + world.files[l].syms[n].value
      BY <1>1, <3>2
    <3> QED BY <1>1, <1>2, <2>1, <2>2, <3>3 DEF ns
  <2>3. CASE ~Defines(world.files[l], n)
    <3>1. Definers(ns, n) = {}
      BY <1>3, <1>4, <1>5, <1>8, <2>3
    <3>2. DefinitionIn(ns, n) = 0
      BY <1>1, <1>2, <1>8, <3>1, DefinitionIs
    <3> QED BY <1>1, <1>2, <2>1, <2>3, <3>2 DEF ns
  <2> QED BY <2>2, <2>3
<1> QED BY <1>6, <1>7, <1>8

\* What the directory and the loader decide.
LEMMA WorldIsFixed ==
  ASSUME UNCHANGED <<loader, world>>
  PROVE  /\ Reachable' = Reachable /\ ExportedNames' = ExportedNames
         /\ WithinTables' <=> WithinTables
         /\ \A ms, n : DefinitionIn(ms, n)' = DefinitionIn(ms, n)
         /\ mapped' = mapped => \A n : Definition(n)' = Definition(n)
<1>1. Reachable' = Reachable
  BY DEF Reachable, Closed
<1>2. \A t, obj : NewNames(t, obj)' = NewNames(t, obj)
  BY DEF NewNames, Exported
<1>3. ExportedNames' = ExportedNames
  BY <1>1, <1>2 DEF ExportedNames
<1>4. WithinTables' <=> WithinTables
  BY <1>1, <1>3 DEF WithinTables
<1>5. \A ms, n : DefinitionIn(ms, n)' = DefinitionIn(ms, n)
  BY DEF DefinitionIn, Definers
<1>6. ASSUME mapped' = mapped PROVE \A n : Definition(n)' = Definition(n)
  BY <1>6 DEF Definition, DefinitionIn, Definers
<1> QED BY <1>1, <1>3, <1>4, <1>5, <1>6

\* The elements of a sequence, its first one taken away.
LEMMA MembersFacts ==
  ASSUME NEW S, NEW s \in Seq(S)
  PROVE  /\ Members(s) \subseteq S
         /\ s # << >> => /\ Head(s) \in S /\ Tail(s) \in Seq(S)
                         /\ Len(Tail(s)) = Len(s) - 1
                         /\ Members(s) = {Head(s)} \cup Members(Tail(s))
<1>1. Members(s) \subseteq S
  BY DEF Members
<1>2. ASSUME s # << >>
      PROVE  /\ Head(s) \in S /\ Tail(s) \in Seq(S) /\ Len(Tail(s)) = Len(s) - 1
             /\ Members(s) = {Head(s)} \cup Members(Tail(s))
  <2>1. /\ Len(s) \in Nat \ {0} /\ Head(s) = s[1] /\ Head(s) \in S
        /\ Tail(s) \in Seq(S) /\ Len(Tail(s)) = Len(s) - 1
        /\ \A i \in 1 .. (Len(s) - 1) : Tail(s)[i] = s[i + 1]
    BY <1>2
  <2>2. ASSUME NEW x \in Members(s) PROVE x \in {Head(s)} \cup Members(Tail(s))
    <3>1. PICK i \in 1 .. Len(s) : s[i] = x
      BY DEF Members
    <3>2. CASE i = 1
      BY <2>1, <3>1, <3>2
    <3>3. CASE i # 1
      <4>1. i - 1 \in 1 .. (Len(s) - 1) /\ (i - 1) + 1 = i
        BY <2>1, <3>3
      <4>2. Tail(s)[i - 1] = x
        BY <2>1, <3>1, <4>1
      <4> QED BY <2>1, <4>1, <4>2 DEF Members
    <3> QED BY <3>2, <3>3
  <2>3. Head(s) \in Members(s)
    <3>1. 1 \in 1 .. Len(s)
      BY <2>1
    <3> QED BY <2>1, <3>1 DEF Members
  <2>4. ASSUME NEW x \in Members(Tail(s)) PROVE x \in Members(s)
    <3>1. PICK i \in 1 .. (Len(s) - 1) : Tail(s)[i] = x
      BY <2>1 DEF Members
    <3>2. i + 1 \in 1 .. Len(s) /\ s[i + 1] = x
      BY <2>1, <3>1
    <3> QED BY <3>2 DEF Members
  <2> QED BY <2>1, <2>2, <2>3, <2>4
<1> QED BY <1>1, <1>2

\* What is right in memory stays right while memory and libraries stay.
LEMMA SlotsKept ==
  ASSUME UNCHANGED <<loader, world, mapped, mem>>
  PROVE  /\ CartSlotsHold' <=> CartSlotsHold
         /\ \A i : LibrarySlotsHold(i)' <=> LibrarySlotsHold(i)
         /\ MappedNames' = MappedNames
<1>1. \A n : Definition(n)' = Definition(n)
  BY WorldIsFixed
<1>2. CartSlotsHold' <=> CartSlotsHold
  BY <1>1 DEF CartSlotsHold
<1>3. \A i : LibrarySlotsHold(i)' <=> LibrarySlotsHold(i)
  BY <1>1, ZenonT(30) DEF LibrarySlotsHold
<1>4. MappedNames' = MappedNames
  BY DEF MappedNames
<1> QED BY <1>2, <1>3, <1>4

\* Before the loader runs.
LEMMA InitLoader == LoaderInit => LoaderInv
<1> SUFFICES ASSUME LoaderInit PROVE LoaderInv
  OBVIOUS
<1> USE DEF LoaderInit
<1>1. world.cart.size \in Nat /\ world.cart.size <= LIB_LOAD_ADDR
  BY Files
<1>2. LoaderShape
  <2>1. << >> \in SymbolTable
    BY DEF SymbolTable
  <2>2. DOMAIN mem = 0 .. (MEM_SIZE - 1)
    BY DEF MapAt
  <2> QED BY <2>1, <2>2, LoaderAssumption DEF LoaderShape
<1>3. LoaderPlaces
  BY DEF LoaderPlaces
<1>4. MappedNames = {} /\ Members(todo) = {}
  BY DEF MappedNames, Members
<1>5. LoaderNeeds
  <2>1. NeedsMet
    BY <1>4 DEF NeedsMet, Finished
  <2>2. SingleMet
    BY <1>4 DEF SingleMet
  <2> QED BY <2>1, <2>2 DEF LoaderNeeds
<1>6. LoaderSymbols
  BY DEF LoaderSymbols
<1>7. LoaderMemory
  <2>1. \A a \in 0 .. (world.cart.size - 1) : a \in 0 .. (MEM_SIZE - 1) /\ a \in 0 .. (0 + world.cart.size - 1)
    BY <1>1, LoaderAssumption
  <2>2. \A a \in 0 .. (world.cart.size - 1) : mem[a] = Raw
    BY <2>1 DEF MapAt
  <2>3. Len(mapped) = 0 /\ phase = "start"
    OBVIOUS
  <2> HIDE DEF LoaderInit
  <2> QED BY <2>2, <2>3 DEF LoaderMemory, Finished
<1> QED BY <1>2, <1>3, <1>5, <1>6, <1>7 DEF LoaderInv

\* A static cart needs nothing.
LEMMA StaticKeeps ==
  ASSUME LoaderInv, Static
  PROVE  LoaderInv'
<1> USE DEF LoaderInv, Static
<1>1. /\ (WithinTables' <=> WithinTables) /\ Reachable' = Reachable
      /\ MappedNames' = MappedNames
      /\ \A i : LibrarySlotsHold(i)' <=> LibrarySlotsHold(i)
  BY WorldIsFixed, SlotsKept
<1>2. LoaderShape' /\ LoaderPlaces'
  BY DEF LoaderShape, LoaderPlaces
<1>3. ~Finished' /\ ~Loaded'
  BY DEF Finished, Loaded
<1>4. LoaderNeeds'
  BY <1>1, <1>3 DEF LoaderNeeds, NeedsMet, SingleMet
<1>5. LoaderSymbols'
  BY DEF LoaderSymbols
<1>6. LoaderMemory'
  BY <1>1, <1>3 DEF LoaderMemory
<1> QED BY <1>2, <1>4, <1>5, <1>6

\* A library that is there already.
LEMMA AlreadyLoadedKeeps ==
  ASSUME LoaderInv, AlreadyLoaded
  PROVE  LoaderInv'
<1> USE DEF LoaderInv, AlreadyLoaded
<1>1. /\ (WithinTables' <=> WithinTables) /\ Reachable' = Reachable /\ ExportedNames' = ExportedNames
      /\ MappedNames' = MappedNames
      /\ \A i : LibrarySlotsHold(i)' <=> LibrarySlotsHold(i)
      /\ CartSlotsHold' <=> CartSlotsHold
      /\ \A n : Definition(n)' = Definition(n)
  BY WorldIsFixed, SlotsKept
<1>2. /\ loader = "i" /\ phase' = "load" /\ Head(todo) \in Libs /\ Tail(todo) \in Seq(Libs)
      /\ Members(todo) = {Head(todo)} \cup Members(todo')
  BY MembersFacts DEF LoaderShape, lib_loaded
<1>3. LoaderShape' /\ LoaderPlaces'
  BY <1>2 DEF LoaderShape, LoaderPlaces
<1>4. LoaderNeeds'
  <2> SUFFICES ASSUME WithinTables PROVE NeedsMet' /\ (Loaded' => todo' = << >>)
    BY <1>1, <1>2 DEF LoaderNeeds
  <2>1. NeedsMet
    BY <1>2 DEF LoaderNeeds
  <2>2. Head(todo) \in MappedNames
    <3>1. PICK i \in 1 .. Len(registry) : registry[i].name = Head(todo)
      BY DEF lib_loaded
    <3>2. i \in 1 .. Len(mapped) /\ mapped[i].name = Head(todo)
      BY <2>1, <3>1 DEF NeedsMet
    <3> QED BY <3>2 DEF MappedNames
  <2>3. MappedNames' \cup Members(todo') = MappedNames \cup Members(todo)
    BY <1>1, <1>2, <2>2
  <2>4. ~Finished' /\ ~Loaded'
    BY DEF Finished, Loaded
  <2>5. /\ phase = "load" /\ UNCHANGED <<phase, world, registry, mapped, next_rela, relocated>>
        /\ world.cart.dynamic
    BY DEF LoaderShape
  <2>6. Members(todo') \subseteq Reachable
    BY <1>2, <2>1 DEF NeedsMet
  <2> HIDE DEF LoaderInv, AlreadyLoaded
  <2>7. NeedsMet'
    <3> DEFINE U == MappedNames \cup Members(todo)
    <3>0. /\ Members(world.cart.needed) \subseteq U
          /\ \A l \in MappedNames : Members(world.files[l].needed) \subseteq U
      BY <2>1, <2>5 DEF NeedsMet
    <3>1. /\ Members(world'.cart.needed) \subseteq MappedNames' \cup Members(todo')
          /\ \A l \in MappedNames' :
               Members(world'.files[l].needed) \subseteq MappedNames' \cup Members(todo')
      <4> HIDE DEF U
      <4>1. MappedNames' \cup Members(todo') = U
        BY <2>3 DEF U
      <4> QED BY <1>1, <2>5, <3>0, <4>1
    <3>2. /\ MappedNames' \subseteq Reachable' /\ Members(todo') \subseteq Reachable'
      <4>1. MappedNames \subseteq Reachable
        BY <2>1 DEF NeedsMet
      <4> QED BY <1>1, <2>6, <4>1
    <3>3. /\ (Len(registry) = Len(mapped))'
          /\ (\A i \in 1 .. Len(mapped) : /\ registry[i].name = mapped[i].name
                                           /\ registry[i].base = mapped[i].base)'
          /\ (\A i, j \in 1 .. Len(mapped) : mapped[i].name = mapped[j].name => i = j)'
      BY <2>1, <2>5 DEF NeedsMet
    <3>4. /\ next_rela' = 1 /\ (next_rela <= Len(mapped) + 1)'
          /\ (relocated = [i \in 1 .. (next_rela - 1) |-> mapped[i].base])'
      BY <2>1, <2>5 DEF NeedsMet
    <3> QED BY <2>4, <2>5, <3>1, <3>2, <3>3, <3>4 DEF NeedsMet
  <2> QED BY <2>4, <2>7
<1>5. LoaderSymbols'
  BY <1>1 DEF LoaderSymbols
<1>6. LoaderMemory'
  <2>1. ~Finished'
    BY DEF Finished
  <2> QED BY <1>1, <2>1 DEF LoaderMemory
<1> QED BY <1>3, <1>4, <1>5, <1>6

\* A library that cannot be read.
LEMMA CannotLoadKeeps ==
  ASSUME LoaderInv, CannotLoad
  PROVE  LoaderInv'
<1> USE DEF LoaderInv, CannotLoad
<1>1. /\ (WithinTables' <=> WithinTables) /\ Reachable' = Reachable /\ ExportedNames' = ExportedNames
      /\ MappedNames' = MappedNames
      /\ \A i : LibrarySlotsHold(i)' <=> LibrarySlotsHold(i)
      /\ \A n : Definition(n)' = Definition(n)
  BY WorldIsFixed, SlotsKept
<1>2. ~Finished' /\ ~Loaded'
  BY DEF Finished, Loaded
<1>3. LoaderShape' /\ LoaderPlaces'
  BY DEF LoaderShape, LoaderPlaces
<1>4. LoaderNeeds'
  BY <1>1, <1>2 DEF LoaderNeeds, NeedsMet, SingleMet
<1>5. LoaderSymbols'
  BY <1>1 DEF LoaderSymbols
<1>6. LoaderMemory'
  BY <1>1, <1>2 DEF LoaderMemory
<1> QED BY <1>3, <1>4, <1>5, <1>6

\* Nothing is left to load.
LEMMA AllLoadedKeeps ==
  ASSUME LoaderInv, AllLoaded
  PROVE  LoaderInv'
<1> USE DEF LoaderInv, AllLoaded
<1>1. /\ (WithinTables' <=> WithinTables) /\ Reachable' = Reachable /\ ExportedNames' = ExportedNames
      /\ MappedNames' = MappedNames
      /\ \A i : LibrarySlotsHold(i)' <=> LibrarySlotsHold(i)
      /\ \A n : Definition(n)' = Definition(n)
  BY WorldIsFixed, SlotsKept
<1>2. ~Finished' /\ phase' # "rela" /\ (loader = "i" => phase' = "relocate")
  BY DEF Finished
<1>3. LoaderShape' /\ LoaderPlaces'
  BY DEF LoaderShape, LoaderPlaces
<1>4. LoaderNeeds'
  BY <1>1, <1>2 DEF LoaderNeeds, NeedsMet, SingleMet
<1>5. LoaderSymbols'
  BY <1>1 DEF LoaderSymbols
<1>6. LoaderMemory'
  BY <1>1, <1>2 DEF LoaderMemory
<1> QED BY <1>3, <1>4, <1>5, <1>6

\* As long as everything that is exported fits, an object's exports give an
\* address to the names that had none.
LEMMA SymbolsGrow ==
  ASSUME world \in Worlds, WithinTables, NEW t \in SymbolTable,
         TableNames(t) \subseteq ExportedNames, Len(t) <= Cardinality(TableNames(t)),
         loader = "i" \/ TableNames(t) = {},
         NEW obj, Listed(obj), NewNames(<< >>, obj) \subseteq ExportedNames,
         NEW base \in Nat, NEW u \in AddExports(t, obj, base)
  PROVE  /\ TableNames(u) \subseteq ExportedNames /\ Len(u) <= Cardinality(TableNames(u))
         /\ \A n : sym_find(u, n) = IF sym_find(t, n) # 0 THEN sym_find(t, n)
                                    ELSE IF n \in NewNames(<< >>, obj)
                                         THEN base + obj.syms[n].value ELSE 0
<1> DEFINE new == NewNames(t, obj)
           old == TableNames(t)
<1>1. PICK order \in Orders(new) : u = sym_add(t, obj, base, order)
  BY DEF AddExports
<1>2. /\ IsFiniteSet(ExportedNames) /\ Cardinality(ExportedNames) \in Nat
      /\ Cardinality(ExportedNames) <= SYM_MAX /\ SYM_MAX \in Nat
  BY ExportsFinite, LoaderAssumption DEF WithinTables
<1>3. new \subseteq ExportedNames /\ new \cap old = {}
  BY ExportsAreDefinitions
<1>4. /\ IsFiniteSet(old) /\ IsFiniteSet(new) /\ Cardinality(old) \in Nat /\ Cardinality(new) \in Nat
      /\ IsFiniteSet(old \cup new) /\ Cardinality(old \cup new) \in Nat
      /\ Cardinality(old \cup new) <= Cardinality(ExportedNames)
  <2> HIDE DEF new, old
  <2>1. old \in SUBSET ExportedNames /\ new \in SUBSET ExportedNames
        /\ old \cup new \in SUBSET ExportedNames
    BY <1>3 DEF old
  <2> QED BY <1>2, <2>1, FS_Subset, FS_CardinalityType
<1>5. Cardinality(old \cup new) = Cardinality(old) + Cardinality(new)
  <2> HIDE DEF new, old
  <2>1. old \cap new = {}
    BY <1>3
  <2>2. Cardinality(old \cap new) = 0
    BY <2>1, FS_EmptySet
  <2>3. Cardinality(old \cup new) = Cardinality(old) + Cardinality(new) - Cardinality(old \cap new)
    BY <1>4, FS_Union
  <2> QED BY <1>4, <2>2, <2>3
<1>6. Len(t) \in Nat /\ Len(t) + Cardinality(new) <= SYM_MAX /\ Len(t) <= SYM_MAX
  <2>1. Len(t) \in Nat
    BY DEF SymbolTable
  <2> HIDE DEF new
  <2> QED BY <1>2, <1>4, <1>5, <2>1
<1>7. /\ Len(u) = Len(t) + Cardinality(new) /\ TableNames(u) = old \cup new
      /\ \A n \in old : sym_find(u, n) = sym_find(t, n)
      /\ \A n \in new \ old : sym_find(u, n) = base + obj.syms[n].value
      /\ u \in SymbolTable
  BY <1>1, <1>6, AddFinds
<1>8. TableNames(u) \subseteq ExportedNames /\ Len(u) <= Cardinality(TableNames(u))
  <2> HIDE DEF new
  <2> QED BY <1>3, <1>4, <1>5, <1>6, <1>7
<1>9. ASSUME NEW n
      PROVE  sym_find(u, n) = IF sym_find(t, n) # 0 THEN sym_find(t, n)
                              ELSE IF n \in NewNames(<< >>, obj)
                                   THEN base + obj.syms[n].value ELSE 0
  <2>1. CASE n \in old
    <3>1. sym_find(t, n) # 0
      <4>1. PICK i \in 1 .. Len(t) : sym_find(t, n) = t[i].addr
        BY <2>1, FindFirst
      <4> DEFINE E == [name : STRING, addr : Nat \ {0}]
      <4>2. t[i] \in E
        <5>1. t \in Seq(E)
          BY DEF SymbolTable
        <5> HIDE DEF E
        <5> QED BY <4>1, <5>1
      <4> QED BY <4>1, <4>2
    <3> QED BY <1>7, <2>1, <3>1
  <2>2. CASE n \notin old
    <3>1. sym_find(t, n) = 0
      BY <2>2, FindFirst
    <3>2. n \in new <=> n \in NewNames(<< >>, obj)
      BY <2>2, ExportsAreDefinitions
    <3>3. CASE n \in new
      BY <1>7, <2>2, <3>1, <3>2, <3>3
    <3>4. CASE n \notin new
      <4>1. n \notin TableNames(u)
        BY <1>7, <2>2, <3>4
      <4>2. sym_find(u, n) = 0
        BY <1>7, <4>1, FindFirst
      <4> QED BY <3>1, <3>2, <3>4, <4>2
    <3> QED BY <3>3, <3>4
  <2> QED BY <2>1, <2>2
<1> QED BY <1>8, <1>9

\* The cart's needs and, for loader I, its exports.
LEMMA BeginKeeps ==
  ASSUME LoaderInv, Begin
  PROVE  LoaderInv'
<1> USE DEF LoaderInv
<1>1. /\ (WithinTables' <=> WithinTables) /\ Reachable' = Reachable /\ ExportedNames' = ExportedNames
      /\ MappedNames' = MappedNames
      /\ \A n : Definition(n)' = Definition(n)
      /\ \A i : LibrarySlotsHold(i)' <=> LibrarySlotsHold(i)
  <2>1. UNCHANGED <<loader, world, mapped, mem>>
    BY DEF Begin
  <2> QED BY <2>1, WorldIsFixed, SlotsKept
<1>2. /\ UNCHANGED <<loader, world, registry, next_base, mem, next_rela, ok, mapped, relocated>>
      /\ phase = "start" /\ phase' = "load" /\ world.cart.dynamic
      /\ syms' \in IF loader = "i" THEN AddExports(<< >>, world.cart, 0) ELSE {<< >>}
      /\ todo' = SubSeq(world.cart.needed, 1,
                        IF loader = "i" /\ Len(world.cart.needed) > LIB_MAX
                        THEN LIB_MAX ELSE Len(world.cart.needed))
  BY DEF Begin
<1>3. /\ world \in Worlds /\ mapped = << >> /\ registry = << >> /\ MappedNames = {}
      /\ loader \in {"i", "c"} /\ << >> \in SymbolTable /\ TableNames(<< >>) = {}
  BY <1>2 DEF LoaderShape, MappedNames, SymbolTable, TableNames
<1>4. /\ world.cart.needed \in Seq(Libs) /\ Len(world.cart.needed) \in Nat /\ LIB_MAX \in Nat
      /\ SYM_MAX \in Nat /\ Listed(world.cart)
  BY <1>3, Files, LoaderAssumption
<1>5. todo' \in Seq(Libs)
  <2> DEFINE k == IF loader = "i" /\ Len(world.cart.needed) > LIB_MAX
                  THEN LIB_MAX ELSE Len(world.cart.needed)
  <2>1. k \in 0 .. Len(world.cart.needed)
    BY <1>4
  <2>2. todo' = SubSeq(world.cart.needed, 1, k)
    BY <1>2
  <2> HIDE DEF k
  <2> QED BY <1>4, <2>1, <2>2
<1>6. WithinTables => todo' = world.cart.needed
  <2> SUFFICES ASSUME WithinTables PROVE ~(loader = "i" /\ Len(world.cart.needed) > LIB_MAX)
    <3>1. SubSeq(world.cart.needed, 1, Len(world.cart.needed)) = world.cart.needed
      BY <1>4
    <3> QED BY <1>2, <3>1
  <2>1. /\ IsFiniteSet(Members(world.cart.needed))
        /\ Cardinality(Members(world.cart.needed)) = Len(world.cart.needed)
    <3>1. DOMAIN world.cart.needed = 1 .. Len(world.cart.needed)
      BY <1>4
    <3>2. \A i, j \in 1 .. Len(world.cart.needed) :
              world.cart.needed[i] = world.cart.needed[j] => i = j
      BY <1>3, Files
    <3> QED BY <1>4, <3>1, <3>2, CountDistinct DEF Members
  <2>2. Cardinality(Members(world.cart.needed)) <= Cardinality(Reachable)
    BY <1>3, ReachableIsLeast, FS_Subset
  <2>3. loader = "i" => Cardinality(Reachable) <= LIB_MAX
    BY DEF WithinTables
  <2>4. Cardinality(Reachable) \in Nat
    BY <1>3, ReachableIsLeast
  <2> QED BY <1>4, <2>1, <2>2, <2>3, <2>4
<1>7. syms' \in SymbolTable /\ Len(syms') <= SYM_MAX
  <2>1. CASE loader # "i"
    BY <1>2, <1>3, <1>4, <2>1
  <2>2. CASE loader = "i"
    <3>1. PICK order \in Orders(NewNames(<< >>, world.cart)) : syms' = sym_add(<< >>, world.cart, 0, order)
      BY <1>2, <2>2 DEF AddExports
    <3>2. Len(<< >>) <= SYM_MAX
      BY <1>4
    <3> QED BY <1>3, <1>4, <3>1, <3>2, AddFinds
  <2> QED BY <2>1, <2>2
<1>8. LoaderShape'
  BY <1>2, <1>5, <1>7 DEF LoaderShape
<1>9. LoaderPlaces'
  BY <1>2 DEF LoaderPlaces
<1>10. LoaderNeeds'
  <2> SUFFICES ASSUME WithinTables
               PROVE  /\ IF loader' = "i" THEN NeedsMet' ELSE SingleMet'
                      /\ Loaded' => todo' = << >>
    BY <1>1 DEF LoaderNeeds
  <2>1. ~Finished' /\ ~Loaded'
    BY <1>2 DEF Finished, Loaded
  <2>2. Members(todo') = Members(world.cart.needed) /\ Members(todo') \subseteq Reachable
    BY <1>3, <1>6, ReachableIsLeast
  <2>3. ASSUME loader = "i" PROVE NeedsMet'
    <3>1. NeedsMet
      BY <2>3 DEF LoaderNeeds
    <3> HIDE DEF LoaderInv
    <3> QED BY <1>1, <1>2, <1>3, <2>1, <2>2, <3>1 DEF NeedsMet
  <2>4. ASSUME loader # "i" PROVE SingleMet'
    <3>1. SingleMet /\ Len(world.cart.needed) = 1
      BY <2>4 DEF LoaderNeeds, WithinTables
    <3>2. Len(mapped') = 0 /\ Len(todo') = 1 /\ MappedNames' = {}
      BY <1>1, <1>2, <1>3, <1>6, <3>1
    <3>3. relocated' = [i \in 1 .. Len(mapped') |-> mapped'[i].base]
      BY <1>2, <3>1 DEF SingleMet
    <3>4. MappedNames' \cup Members(todo') \subseteq Members(world'.cart.needed)
      BY <1>2, <2>2, <3>2
    <3> QED BY <3>2, <3>3, <3>4 DEF SingleMet
  <2> QED BY <1>2, <2>1, <2>3, <2>4
<1>11. LoaderSymbols'
  <2> SUFFICES ASSUME WithinTables
               PROVE  /\ TableNames(syms') \subseteq ExportedNames
                      /\ Len(syms') <= Cardinality(TableNames(syms'))
                      /\ \A n : sym_find(syms', n) = Definition(n)
    BY <1>1 DEF LoaderSymbols
  <2>1. mapped \in Mappings /\ Rising(mapped) /\ \A n : Definers(mapped, n) = {}
    BY <1>3 DEF Mappings, Rising, Definers
  <2>2. \A n : sym_find(<< >>, n) = 0
    BY <1>3, FindFirst
  <2>3. CASE loader # "i"
    <3>1. \A n : Definition(n) = 0
      BY <1>3, <2>1, <2>3, DefinitionIs DEF Definition
    <3>2. syms' = << >> /\ TableNames(syms') = {}
      BY <1>2, <1>3, <2>3
    <3>3. Len(syms') <= Cardinality(TableNames(syms'))
      BY <3>2, FS_EmptySet
    <3> QED BY <2>2, <3>1, <3>2, <3>3
  <2>4. CASE loader = "i"
    <3>1. /\ NewNames(<< >>, world.cart) \subseteq ExportedNames
          /\ \A n : n \in NewNames(<< >>, world.cart) <=> Defines(world.cart, n)
      BY <1>3, <2>4, ExportsFinite, ExportsAreDefinitions
    <3>2. Len(<< >>) <= Cardinality(TableNames(<< >>))
      BY <1>3, FS_EmptySet, SMTT(30)
    <3>3. syms' \in AddExports(<< >>, world.cart, 0)
      BY <1>2, <2>4
    <3>4. /\ TableNames(syms') \subseteq ExportedNames /\ Len(syms') <= Cardinality(TableNames(syms'))
          /\ \A n : sym_find(syms', n) = IF n \in NewNames(<< >>, world.cart)
                                         THEN 0 + world.cart.syms[n].value ELSE 0
      BY <1>3, <1>4, <2>2, <2>4, <3>1, <3>2, <3>3, SymbolsGrow
    <3>5. ASSUME NEW n PROVE sym_find(syms', n) = Definition(n)
      <4>1. CASE Defines(world.cart, n)
        <5>1. Definition(n) = world.cart.syms[n].value /\ Definition(n) \in Nat
          BY <1>3, <2>1, <2>4, <4>1, DefinitionIs DEF Definition
        <5> QED BY <3>1, <3>4, <4>1, <5>1
      <4>2. CASE ~Defines(world.cart, n)
        <5>1. Definition(n) = 0
          BY <1>3, <2>1, <2>4, <4>2, DefinitionIs DEF Definition
        <5> QED BY <3>1, <3>4, <4>2, <5>1
      <4> QED BY <4>1, <4>2
    <3> QED BY <3>4, <3>5
  <2> QED BY <2>3, <2>4
<1>12. LoaderMemory'
  <2>1. ~Finished'
    BY <1>2 DEF Finished
  <2> QED BY <1>1, <1>2, <2>1 DEF LoaderMemory
<1> QED BY <1>8, <1>9, <1>10, <1>11, <1>12

\* The next library begins at a page, above the last one.
LEMMA AlignFacts ==
  ASSUME NEW x \in Nat
  PROVE  Align(x) \in Nat /\ Align(x) % PAGE = 0 /\ x <= Align(x)
<1> DEFINE q == (x + PAGE - 1) \div PAGE
<1>1. PAGE \in Nat \ {0} /\ x + PAGE - 1 \in Nat
  BY LoaderAssumption
<1>2. q \in Nat /\ q * PAGE <= x + PAGE - 1 /\ x + PAGE - 1 < (q + 1) * PAGE
  BY <1>1, DivFloor
<1>3. Align(x) = q * PAGE
  BY DEF Align
<1> HIDE DEF q
<1>4. q * PAGE \in Nat /\ (q + 1) * PAGE = q * PAGE + PAGE
  BY <1>1, <1>2
<1>5. x <= q * PAGE
  BY <1>1, <1>2, <1>4
<1>6. (q * PAGE) % PAGE = 0
  <2>1. q * PAGE = q * PAGE + 0 /\ 0 \in 0 .. (PAGE - 1)
    BY <1>1, <1>4
  <2> QED BY <1>1, <1>2, <1>4, <2>1, Remainder
<1> QED BY <1>3, <1>4, <1>5, <1>6

\* The elements of two sequences one after the other.
LEMMA MembersConcat ==
  ASSUME NEW S, NEW s \in Seq(S), NEW t \in Seq(S)
  PROVE  s \o t \in Seq(S) /\ Members(s \o t) = Members(s) \cup Members(t)
<1>1. /\ s \o t \in Seq(S) /\ Len(s) \in Nat /\ Len(t) \in Nat /\ Len(s \o t) = Len(s) + Len(t)
      /\ \A i \in 1 .. Len(s) : (s \o t)[i] = s[i]
  OBVIOUS
<1>2. \A i \in 1 .. Len(t) : (s \o t)[Len(s) + i] = t[i]
  OBVIOUS
<1> DEFINE u == s \o t
<1>3. u = s \o t
  OBVIOUS
<1> HIDE DEF u
<1>4. ASSUME NEW x \in Members(u) PROVE x \in Members(s) \cup Members(t)
  <2>1. PICK i \in 1 .. Len(u) : u[i] = x
    BY DEF Members
  <2>2. CASE i <= Len(s)
    <3>1. i \in 1 .. Len(s) /\ s[i] = x
      BY <1>1, <1>3, <2>1, <2>2
    <3> QED BY <3>1 DEF Members
  <2>3. CASE i > Len(s)
    <3>1. i - Len(s) \in 1 .. Len(t) /\ Len(s) + (i - Len(s)) = i
      BY <1>1, <1>3, <2>1, <2>3
    <3>2. t[i - Len(s)] = x
      BY <1>2, <1>3, <2>1, <3>1
    <3> QED BY <3>1, <3>2 DEF Members
  <2> QED BY <1>1, <1>3, <2>1, <2>2, <2>3
<1>5. ASSUME NEW x \in Members(s) PROVE x \in Members(u)
  <2>1. PICK i \in 1 .. Len(s) : s[i] = x
    BY DEF Members
  <2>2. i \in 1 .. Len(u) /\ u[i] = x
    BY <1>1, <1>3, <2>1
  <2> QED BY <2>2 DEF Members
<1>6. ASSUME NEW x \in Members(t) PROVE x \in Members(u)
  <2>1. PICK i \in 1 .. Len(t) : t[i] = x
    BY DEF Members
  <2>2. Len(s) + i \in 1 .. Len(u) /\ u[Len(s) + i] = x
    BY <1>1, <1>2, <1>3, <2>1
  <2> QED BY <2>2 DEF Members
<1> QED BY <1>1, <1>3, <1>4, <1>5, <1>6

\* A name's definition after a step.
LEMMA DefinitionNext ==
  ASSUME UNCHANGED <<loader, world>>, NEW n
  PROVE  Definition(n)' = DefinitionIn(mapped', n)
BY DEF Definition, DefinitionIn, Definers

\* One more mapping.
LEMMA MappedGrows ==
  ASSUME LoaderShape, NEW l \in DOMAIN world.files, NEW b \in Nat, NEW top \in Nat, world' = world,
         mapped' = Append(mapped, [name |-> l, base |-> b, top |-> top])
  PROVE  /\ mapped \in Mappings /\ mapped' \in Mappings
         /\ Len(mapped) \in Nat /\ Len(mapped') = Len(mapped) + 1
         /\ \A i \in 1 .. Len(mapped) : mapped'[i] = mapped[i]
         /\ mapped'[Len(mapped) + 1] = [name |-> l, base |-> b, top |-> top]
         /\ MappedNames' = MappedNames \cup {l}
         /\ \A i \in 1 .. Len(mapped) : /\ mapped[i].name \in DOMAIN world.files
                                        /\ mapped[i].base \in Nat /\ mapped[i].top \in Nat
<1> DEFINE E == [name : DOMAIN world.files, base : Nat, top : Nat]
           e == [name |-> l, base |-> b, top |-> top]
<1>1. mapped \in Seq(E) /\ e \in E
  BY DEF LoaderShape
<1>2. mapped \in Mappings
  BY <1>1 DEF Mappings
<1>3. \A i \in 1 .. Len(mapped) : mapped[i] \in E
  <2> HIDE DEF E
  <2> QED BY <1>1
<1>4. /\ mapped' \in Seq(E) /\ Len(mapped) \in Nat /\ Len(mapped') = Len(mapped) + 1
      /\ \A i \in 1 .. Len(mapped) : mapped'[i] = mapped[i]
      /\ mapped'[Len(mapped) + 1] = e
  <2> HIDE DEF E
  <2>1. mapped' = Append(mapped, e)
    OBVIOUS
  <2> HIDE DEF e
  <2> QED BY <1>1, <2>1
<1>5. MappedNames' = MappedNames \cup {l}
  <2>1. MappedNames' = {mapped'[i].name : i \in 1 .. (Len(mapped) + 1)}
    BY <1>4 DEF MappedNames
  <2>2. \A i : i \in 1 .. (Len(mapped) + 1) <=> i \in 1 .. Len(mapped) \/ i = Len(mapped) + 1
    BY <1>4
  <2>3. mapped'[Len(mapped) + 1].name = l
    BY <1>4
  <2> QED BY <1>4, <2>1, <2>2, <2>3 DEF MappedNames
<1>6. mapped' \in Mappings
  BY <1>4 DEF Mappings
<1> QED BY <1>2, <1>3, <1>4, <1>5, <1>6

\* Bases rise where tops do.
LEMMA BasesRise ==
  ASSUME LoaderShape, LoaderPlaces, loader = "i"
  PROVE  /\ Rising(mapped)
         /\ \A i \in 1 .. Len(mapped) : mapped[i].base < mapped[i].top /\ mapped[i].base < next_base
<1> DEFINE E == [name : DOMAIN world.files, base : Nat, top : Nat]
<1>1. mapped \in Seq(E) /\ world \in Worlds /\ next_base \in Nat
  BY DEF LoaderShape
<1>2. \A i \in 1 .. Len(mapped) : mapped[i] \in E
  <2> HIDE DEF E
  <2> QED BY <1>1
<1>3. \A i \in 1 .. Len(mapped) : mapped[i].base < mapped[i].top
  <2> TAKE i \in 1 .. Len(mapped)
  <2>1. /\ mapped[i].name \in DOMAIN world.files /\ mapped[i].base \in Nat
        /\ mapped[i].top = mapped[i].base + world.files[mapped[i].name].size
    BY <1>2 DEF LoaderPlaces
  <2>2. world.files[mapped[i].name].size \in Nat /\ world.files[mapped[i].name].size > 0
    BY <1>1, <2>1, Files
  <2> QED BY <2>1, <2>2
<1>4. \A i, j \in 1 .. Len(mapped) : i < j => mapped[i].base < mapped[j].base
  <2> TAKE i, j \in 1 .. Len(mapped)
  <2> HAVE i < j
  <2>1. mapped[i].top <= mapped[j].base
    BY DEF LoaderPlaces
  <2>2. mapped[i].base \in Nat /\ mapped[i].top \in Nat /\ mapped[j].base \in Nat
    BY <1>2
  <2> QED BY <1>3, <2>1, <2>2
<1>5. \A i \in 1 .. Len(mapped) : mapped[i].base < next_base
  <2> TAKE i \in 1 .. Len(mapped)
  <2>1. mapped[i].top <= next_base
    BY DEF LoaderPlaces
  <2>2. mapped[i].base \in Nat /\ mapped[i].top \in Nat
    BY <1>2
  <2> QED BY <1>1, <1>3, <2>1, <2>2
<1> QED BY <1>3, <1>4, <1>5 DEF Rising

\* A library is registered, mapped above the others and its exports added.
LEMMA LoadLibKeeps ==
  ASSUME LoaderInv, load_lib
  PROVE  LoaderInv'
<1> DEFINE l == Head(todo)
           obj == world.files[l]
           top == next_base + obj.size
<1>1. /\ phase = "load" /\ todo # << >> /\ ~lib_loaded(l) /\ loader = "i" /\ l \in DOMAIN world.files
      /\ registry' = lib_register(l, next_base) /\ mem' = MapAt(mem, next_base, obj.size)
      /\ mapped' = Append(mapped, [name |-> l, base |-> next_base, top |-> top])
      /\ next_base' = Align(top) /\ syms' \in AddExports(syms, obj, next_base)
      /\ todo' = obj.needed \o Tail(todo)
      /\ UNCHANGED <<loader, world, phase, next_rela, ok, relocated>>
  BY DEF load_lib
<1>2. LoaderShape /\ LoaderPlaces /\ LoaderNeeds /\ LoaderSymbols /\ LoaderMemory
  BY DEF LoaderInv
<1>3. /\ world \in Worlds /\ world.cart.dynamic /\ next_base \in Nat /\ LIB_LOAD_ADDR <= next_base
      /\ todo \in Seq(Libs) /\ syms \in SymbolTable /\ Len(syms) <= SYM_MAX
      /\ DOMAIN mem = 0 .. (MEM_SIZE - 1)
  BY <1>1, <1>2 DEF LoaderShape
<1>4. /\ Listed(obj) /\ obj.size \in Nat /\ obj.size > 0 /\ obj.needed \in Seq(Libs)
      /\ world.cart.size \in Nat /\ world.cart.size <= LIB_LOAD_ADDR
  BY <1>1, <1>3, Files
<1>5. top \in Nat /\ next_base <= top /\ Align(top) \in Nat /\ Align(top) % PAGE = 0 /\ top <= Align(top)
  <2>1. top \in Nat /\ next_base <= top
    BY <1>3, <1>4, SMTT(30)
  <2> HIDE DEF top
  <2> QED BY <2>1, AlignFacts
<1> HIDE DEF l, obj, top, load_lib
<1>6. /\ (WithinTables' <=> WithinTables) /\ Reachable' = Reachable /\ ExportedNames' = ExportedNames
      /\ \A n : Definition(n)' = DefinitionIn(mapped', n)
  BY <1>1, WorldIsFixed, DefinitionNext
<1>7. /\ mapped \in Mappings /\ mapped' \in Mappings
      /\ Len(mapped) \in Nat /\ Len(mapped') = Len(mapped) + 1
      /\ \A i \in 1 .. Len(mapped) : mapped'[i] = mapped[i]
      /\ mapped'[Len(mapped) + 1] = [name |-> l, base |-> next_base, top |-> top]
      /\ MappedNames' = MappedNames \cup {l}
      /\ \A i \in 1 .. Len(mapped) : /\ mapped[i].name \in DOMAIN world.files
                                     /\ mapped[i].base \in Nat /\ mapped[i].top \in Nat
  BY <1>1, <1>2, <1>3, <1>5, MappedGrows
<1>8. /\ Head(todo) = l /\ l \in Libs /\ Tail(todo) \in Seq(Libs)
      /\ Members(todo) = {l} \cup Members(Tail(todo))
      /\ todo' \in Seq(Libs) /\ Members(todo') = Members(obj.needed) \cup Members(Tail(todo))
  <2>1. /\ Head(todo) \in Libs /\ Tail(todo) \in Seq(Libs)
        /\ Members(todo) = {Head(todo)} \cup Members(Tail(todo))
    BY <1>1, <1>3, MembersFacts
  <2>2. Head(todo) = l
    BY DEF l
  <2> QED BY <1>1, <1>4, <2>1, <2>2, MembersConcat, ZenonT(30)
<1>9. /\ registry \in Seq([name : DOMAIN world.files, base : Nat]) /\ Len(registry) <= LIB_MAX
      /\ registry' \in Seq([name : DOMAIN world.files, base : Nat]) /\ Len(registry') <= LIB_MAX
      /\ Len(registry) < LIB_MAX =>
           /\ Len(registry') = Len(registry) + 1
           /\ \A i \in 1 .. Len(registry) : registry'[i] = registry[i]
           /\ registry'[Len(registry) + 1] = [name |-> l, base |-> next_base]
  <2> DEFINE E == [name : DOMAIN world.files, base : Nat]
             e == [name |-> l, base |-> next_base]
  <2>1. registry \in Seq(E) /\ Len(registry) <= LIB_MAX /\ e \in E /\ LIB_MAX \in Nat
    BY <1>1, <1>2, <1>3, LoaderAssumption DEF LoaderShape
  <2>2. registry' = IF Len(registry) >= LIB_MAX THEN registry ELSE Append(registry, e)
    BY <1>1 DEF lib_register
  <2> HIDE DEF E, e
  <2>3. /\ registry' \in Seq(E) /\ Len(registry') <= LIB_MAX
        /\ Len(registry) < LIB_MAX =>
             /\ Len(registry') = Len(registry) + 1
             /\ \A i \in 1 .. Len(registry) : registry'[i] = registry[i]
             /\ registry'[Len(registry) + 1] = e
    BY <2>1, <2>2
  <2> QED BY <2>1, <2>3 DEF E, e
<1>10. syms' \in SymbolTable /\ Len(syms') <= SYM_MAX
  <2>1. PICK order \in Orders(NewNames(syms, obj)) : syms' = sym_add(syms, obj, next_base, order)
    BY <1>1 DEF AddExports
  <2> QED BY <1>3, <1>4, <2>1, AddFinds
<1>11. DOMAIN mem' = 0 .. (MEM_SIZE - 1)
  BY <1>1, <1>3 DEF MapAt
<1>12. LoaderShape'
  <2>1. mapped' \in Seq([name : DOMAIN world'.files, base : Nat, top : Nat])
    BY <1>1, <1>7 DEF Mappings
  <2>2. next_base' \in Nat /\ next_base' % PAGE = 0 /\ LIB_LOAD_ADDR <= next_base'
    BY <1>1, <1>3, <1>5, LoaderAssumption
  <2>3. registry' \in Seq([name : DOMAIN world'.files, base : Nat])
    BY <1>1, <1>9
  <2> QED BY <1>1, <1>2, <1>8, <1>9, <1>10, <1>11, <2>1, <2>2, <2>3 DEF LoaderShape
<1>13. LoaderPlaces'
  <2>1. ASSUME NEW i \in 1 .. Len(mapped')
        PROVE  /\ LIB_LOAD_ADDR <= mapped'[i].base
               /\ mapped'[i].top = mapped'[i].base + world'.files[mapped'[i].name].size
               /\ mapped'[i].top <= next_base'
    <3>1. CASE i \in 1 .. Len(mapped)
      <4>1. /\ LIB_LOAD_ADDR <= mapped[i].base /\ mapped[i].top <= next_base
            /\ mapped[i].top = mapped[i].base + world.files[mapped[i].name].size
        BY <1>1, <1>2, <3>1 DEF LoaderPlaces
      <4>2. mapped'[i] = mapped[i] /\ mapped[i].top \in Nat
        BY <1>7, <3>1
      <4>3. mapped[i].top <= next_base'
        BY <1>1, <1>3, <1>5, <4>1, <4>2
      <4> QED BY <1>1, <4>1, <4>2, <4>3
    <3>2. CASE i = Len(mapped) + 1
      <4>1. mapped'[i].name = l /\ mapped'[i].base = next_base /\ mapped'[i].top = top
        BY <1>7, <3>2
      <4>2. top = next_base + world.files[l].size
        BY DEF top, obj
      <4> QED BY <1>1, <1>3, <1>5, <4>1, <4>2
    <3> QED BY <1>7, <3>1, <3>2
  <2>2. ASSUME NEW i \in 1 .. Len(mapped'), NEW j \in 1 .. Len(mapped'), i < j
        PROVE  mapped'[i].top <= mapped'[j].base
    <3>1. i \in 1 .. Len(mapped) /\ mapped'[i] = mapped[i]
      BY <1>7, <2>2
    <3>2. CASE j \in 1 .. Len(mapped)
      BY <1>1, <1>2, <1>7, <2>2, <3>1, <3>2 DEF LoaderPlaces
    <3>3. CASE j = Len(mapped) + 1
      <4>1. mapped[i].top <= next_base
        BY <1>1, <1>2, <3>1 DEF LoaderPlaces
      <4> QED BY <1>7, <3>1, <3>3, <4>1
    <3> QED BY <1>7, <3>2, <3>3
  <2> QED BY <2>1, <2>2 DEF LoaderPlaces
<1>14. ~Finished /\ ~Finished' /\ ~Loaded'
  BY <1>1 DEF Finished, Loaded
<1>15. ASSUME WithinTables PROVE NeedsMet'
  <2>1. NeedsMet
    BY <1>1, <1>2, <1>15 DEF LoaderNeeds
  <2>2. /\ Len(registry) = Len(mapped)
        /\ \A i \in 1 .. Len(mapped) : /\ registry[i].name = mapped[i].name
                                       /\ registry[i].base = mapped[i].base
        /\ \A i, j \in 1 .. Len(mapped) : mapped[i].name = mapped[j].name => i = j
    BY <2>1 DEF NeedsMet
  <2>3. l \notin MappedNames
    <3>1. \A i \in 1 .. Len(registry) : registry[i].name # l
      BY <1>1 DEF lib_loaded
    <3> QED BY <2>2, <3>1 DEF MappedNames
  <2>4. MappedNames \cup {l} \subseteq Reachable
    BY <1>8, <2>1 DEF NeedsMet
  <2>5. IsFiniteSet(MappedNames) /\ Cardinality(MappedNames) = Len(mapped)
    <3> DEFINE f == [i \in 1 .. Len(mapped) |-> mapped[i].name]
    <3>1. f \in Surjection(1 .. Len(mapped), MappedNames)
      BY DEF MappedNames, Surjection
    <3>2. f \in Injection(1 .. Len(mapped), MappedNames)
      BY <2>2 DEF MappedNames, Injection, IsInjective
    <3>3. IsFiniteSet(1 .. Len(mapped)) /\ Cardinality(1 .. Len(mapped)) = Len(mapped)
      <4> DEFINE k == Len(mapped)
      <4>1. k \in Nat
        BY <1>7
      <4> HIDE DEF k
      <4>2. IsFiniteSet(1 .. k) /\ Cardinality(1 .. k) = k
        BY <4>1, FS_Interval
      <4> QED BY <4>2 DEF k
    <3> HIDE DEF f
    <3> QED BY <3>1, <3>2, <3>3, FS_Surjection
  <2>6. Len(registry) < LIB_MAX
    <3>1. /\ IsFiniteSet(Reachable) /\ Cardinality(Reachable) \in Nat
          /\ Cardinality(Reachable) <= LIB_MAX /\ LIB_MAX \in Nat
      BY <1>1, <1>3, <1>15, ReachableIsLeast, LoaderAssumption DEF WithinTables
    <3>2. Cardinality(MappedNames \cup {l}) = Len(mapped) + 1
      BY <2>3, <2>5, FS_AddElement
    <3>3. Cardinality(MappedNames \cup {l}) <= Cardinality(Reachable)
      BY <2>4, <3>1, FS_Subset
    <3> QED BY <1>7, <2>2, <3>1, <3>2, <3>3
  <2>7. /\ Len(registry') = Len(mapped')
        /\ \A i \in 1 .. Len(mapped') : /\ registry'[i].name = mapped'[i].name
                                        /\ registry'[i].base = mapped'[i].base
    <3>1. /\ Len(registry') = Len(registry) + 1
          /\ \A i \in 1 .. Len(registry) : registry'[i] = registry[i]
          /\ registry'[Len(registry) + 1] = [name |-> l, base |-> next_base]
      BY <1>9, <2>6
    <3>2. \A i \in 1 .. Len(mapped') : i \in 1 .. Len(mapped) \/ i = Len(mapped) + 1
      BY <1>7
    <3> QED BY <1>7, <2>2, <3>1, <3>2
  <2>8. \A i, j \in 1 .. Len(mapped') : mapped'[i].name = mapped'[j].name => i = j
    <3> SUFFICES ASSUME NEW i \in 1 .. Len(mapped'), NEW j \in 1 .. Len(mapped'),
                        mapped'[i].name = mapped'[j].name
                 PROVE  i = j
      OBVIOUS
    <3>1. /\ i \in 1 .. Len(mapped) \/ i = Len(mapped) + 1
          /\ j \in 1 .. Len(mapped) \/ j = Len(mapped) + 1
      BY <1>7
    <3>2. \A k \in 1 .. Len(mapped) : mapped'[k].name \in MappedNames
      BY <1>7 DEF MappedNames
    <3>3. mapped'[Len(mapped) + 1].name = l
      BY <1>7
    <3> QED BY <1>7, <2>2, <2>3, <3>1, <3>2, <3>3
  <2>9. MappedNames' \subseteq Reachable' /\ Members(todo') \subseteq Reachable'
    <3>1. Members(obj.needed) \subseteq Reachable
      BY <1>1, <1>3, <2>4, ReachableIsLeast DEF obj
    <3>2. Members(todo) \subseteq Reachable
      BY <2>1 DEF NeedsMet
    <3> QED BY <1>6, <1>7, <1>8, <2>4, <3>1, <3>2
  <2>10. MappedNames \cup Members(todo) \subseteq MappedNames' \cup Members(todo')
    BY <1>7, <1>8
  <2>11. Members(world'.cart.needed) \subseteq MappedNames' \cup Members(todo')
    <3>1. Members(world.cart.needed) \subseteq MappedNames \cup Members(todo)
      BY <1>1, <1>3, <2>1 DEF NeedsMet
    <3> QED BY <1>1, <2>10, <3>1
  <2>12. \A k \in MappedNames' :
            Members(world'.files[k].needed) \subseteq MappedNames' \cup Members(todo')
    <3> TAKE k \in MappedNames'
    <3>1. CASE k \in MappedNames
      <4>1. Members(world.files[k].needed) \subseteq MappedNames \cup Members(todo)
        BY <2>1, <3>1 DEF NeedsMet
      <4> QED BY <1>1, <2>10, <4>1
    <3>2. CASE k = l
      <4>1. Members(world.files[k].needed) \subseteq Members(todo')
        BY <1>8, <3>2 DEF obj
      <4> QED BY <1>1, <4>1
    <3> QED BY <1>7, <3>1, <3>2
  <2>13. /\ next_rela' = 1 /\ next_rela' <= Len(mapped') + 1
         /\ relocated' = [i \in 1 .. (next_rela' - 1) |-> mapped'[i].base]
    <3>1. next_rela = 1 /\ relocated = [i \in 1 .. (next_rela - 1) |-> mapped[i].base]
      BY <1>1, <2>1 DEF NeedsMet
    <3>2. \A i : i \notin 1 .. (1 - 1)
      OBVIOUS
    <3>3. [i \in 1 .. (1 - 1) |-> mapped'[i].base] = [i \in 1 .. (1 - 1) |-> mapped[i].base]
      BY <3>2
    <3> QED BY <1>1, <1>7, <3>1, <3>3
  <2> QED BY <1>1, <1>14, <2>7, <2>8, <2>9, <2>11, <2>12, <2>13 DEF NeedsMet
<1>16. LoaderNeeds'
  BY <1>1, <1>6, <1>14, <1>15 DEF LoaderNeeds
<1>17. LoaderSymbols'
  <2> SUFFICES ASSUME WithinTables
               PROVE  /\ TableNames(syms') \subseteq ExportedNames
                      /\ Len(syms') <= Cardinality(TableNames(syms'))
                      /\ \A n : sym_find(syms', n) = DefinitionIn(mapped', n)
    BY <1>6 DEF LoaderSymbols
  <2>1. /\ TableNames(syms) \subseteq ExportedNames
        /\ Len(syms) <= Cardinality(TableNames(syms))
        /\ \A n : sym_find(syms, n) = DefinitionIn(mapped, n)
    BY <1>1, <1>2, <1>3 DEF LoaderSymbols, Definition
  <2>2. /\ NewNames(<< >>, obj) \subseteq ExportedNames
        /\ \A n : n \in NewNames(<< >>, obj) <=> Defines(obj, n)
    <3>1. NeedsMet
      BY <1>1, <1>2 DEF LoaderNeeds
    <3>2. l \in Reachable
      BY <1>8, <3>1 DEF NeedsMet
    <3> QED BY <1>1, <1>3, <3>2, ExportsFinite, ExportsAreDefinitions DEF obj
  <2>3. /\ TableNames(syms') \subseteq ExportedNames
        /\ Len(syms') <= Cardinality(TableNames(syms'))
        /\ \A n : sym_find(syms', n) = IF sym_find(syms, n) # 0 THEN sym_find(syms, n)
                                       ELSE IF n \in NewNames(<< >>, obj)
                                            THEN next_base + obj.syms[n].value ELSE 0
    <3>1. /\ loader = "i" /\ syms' \in AddExports(syms, obj, next_base) /\ next_base \in Nat
          /\ Listed(obj) /\ NewNames(<< >>, obj) \subseteq ExportedNames
          /\ world \in Worlds /\ syms \in SymbolTable
      BY <1>1, <1>3, <1>4, <2>2
    <3> QED BY <2>1, <3>1, SymbolsGrow
  <2>4. ASSUME NEW n PROVE sym_find(syms', n) = DefinitionIn(mapped', n)
    <3>1. Rising(mapped) /\ \A i \in 1 .. Len(mapped) : mapped[i].base < next_base
      BY <1>1, <1>2, BasesRise
    <3>2. DefinitionIn(mapped', n) =
            IF DefinitionIn(mapped, n) # 0 THEN DefinitionIn(mapped, n)
            ELSE IF Defines(world.files[l], n) THEN next_base + world.files[l].syms[n].value ELSE 0
      <4>1. /\ world \in Worlds /\ mapped \in Mappings /\ l \in DOMAIN world.files /\ next_base \in Nat
            /\ top \in Nat /\ mapped' = Append(mapped, [name |-> l, base |-> next_base, top |-> top])
        BY <1>1, <1>3, <1>5, <1>7
      <4>2. LET ns == Append(mapped, [name |-> l, base |-> next_base, top |-> top])
            IN  DefinitionIn(ns, n) =
                  IF DefinitionIn(mapped, n) # 0 THEN DefinitionIn(mapped, n)
                  ELSE IF Defines(world.files[l], n) THEN next_base + world.files[l].syms[n].value ELSE 0
        BY <3>1, <4>1, DefinitionGrows
      <4> QED BY <4>1, <4>2
    <3> QED BY <2>1, <2>2, <2>3, <3>2 DEF obj
  <2> QED BY <2>3, <2>4
<1>18. LoaderMemory'
  <2> SUFFICES ASSUME WithinTables
               PROVE  /\ \A a \in 0 .. (world.cart.size - 1) : mem'[a] = Raw
                      /\ next_rela' = 1 /\ loader' = "i"
    <3>1. \A i \in 1 .. Len(mapped') : ~(i < 1)
      BY <1>7
    <3>2. phase' # "rela"
      BY <1>1
    <3> QED BY <1>1, <1>6, <1>14, <3>1, <3>2 DEF LoaderMemory
  <2>1. \A a \in 0 .. (world.cart.size - 1) : mem[a] = Raw
    BY <1>1, <1>2 DEF LoaderMemory
  <2>2. \A a \in 0 .. (world.cart.size - 1) : a \in DOMAIN mem
    BY <1>3, <1>4, LoaderAssumption
  <2>3. \A a \in 0 .. (world.cart.size - 1) : mem'[a] = Raw
    BY <1>1, <2>1, <2>2 DEF MapAt
  <2>4. NeedsMet
    BY <1>1, <1>2 DEF LoaderNeeds
  <2> QED BY <1>1, <2>3, <2>4 DEF NeedsMet
<1> QED BY <1>12, <1>13, <1>16, <1>17, <1>18 DEF LoaderInv

\* The relocations of a library name words of its own, each once.
LEMMA LibraryRelocations ==
  ASSUME world \in Worlds, NEW l \in DOMAIN world.files
  PROVE  LET obj == world.files[l]
         IN  /\ Len(obj.relas) \in Nat
             /\ \A k \in 1 .. Len(obj.relas) :
                  /\ obj.relas[k].off \in Nat /\ obj.relas[k].off < obj.size
                  /\ obj.relas[k].sym # "" => obj.relas[k].sym \in DOMAIN obj.syms
                  /\ obj.relas[k].type = "JUMP_SLOT" => obj.relas[k].sym # ""
                  /\ \A j \in 1 .. Len(obj.relas) : obj.relas[j].off = obj.relas[k].off => j = k
<1> DEFINE obj == world.files[l]
<1>1. IsObject(obj, obj.relas)
  BY WorldAssumption
<1> HIDE DEF obj
<1>2. obj.relas \in Seq(Relocation)
  BY <1>1 DEF IsObject
<1>3. Len(obj.relas) \in Nat /\ \A k \in 1 .. Len(obj.relas) : obj.relas[k] \in Relocation
  BY <1>2
<1>4. \A k \in 1 .. Len(obj.relas) : obj.relas[k].off \in Nat
  BY <1>3 DEF Relocation
<1>5. \A k \in 1 .. Len(obj.relas) :
        /\ obj.relas[k].off < obj.size
        /\ obj.relas[k].sym # "" => obj.relas[k].sym \in DOMAIN obj.syms
        /\ obj.relas[k].type = "JUMP_SLOT" => obj.relas[k].sym # ""
        /\ \A j \in 1 .. Len(obj.relas) : obj.relas[j].off = obj.relas[k].off => j = k
  BY <1>1 DEF IsObject
<1> QED BY <1>3, <1>4, <1>5 DEF obj

\* What the entries of a library do.
LibEffects(t, obj, base) == [k \in 1 .. Len(obj.relas) |-> LibRela(t, obj, base, obj.relas[k])]

\* What entry k has to do.
EntryIs(e, t, obj, base, k) ==
  /\ obj.relas[k].type = "RELATIVE" =>
       e = Writes(base + obj.relas[k].off, base + obj.relas[k].add)
  /\ SymbolWord(obj.relas[k]) =>
       e = Writes(base + obj.relas[k].off,
                  StandsFor(obj.relas[k], LibSym(t, obj, base, obj.relas[k].sym)))

\* The words of a library.
Words(obj, base) == base .. (base + obj.size - 1)

\* They write words of the library, each its own.
LEMMA RelaEffects ==
  ASSUME world \in Worlds, NEW l \in DOMAIN world.files, NEW base \in Nat, NEW t
  PROVE  LET obj == world.files[l]
             n == Len(obj.relas)
             es == LibEffects(t, obj, base)
         IN  /\ Len(es) = n /\ obj.size \in Nat
             /\ \A k \in 1 .. n :
                  /\ obj.relas[k].off \in Nat /\ obj.relas[k].off < obj.size
                  /\ es[k].addr \in {-1, base + obj.relas[k].off}
                  /\ \A j \in 1 .. n : obj.relas[j].off = obj.relas[k].off => j = k
                  /\ EntryIs(es[k], t, obj, base, k)
<1> DEFINE obj == world.files[l]
           n == Len(obj.relas)
           es == [k \in 1 .. n |-> LibRela(t, obj, base, obj.relas[k])]
<1>1. /\ n \in Nat /\ obj.size \in Nat
      /\ \A k \in 1 .. n :
           /\ obj.relas[k].off \in Nat /\ obj.relas[k].off < obj.size
           /\ \A j \in 1 .. n : obj.relas[j].off = obj.relas[k].off => j = k
  BY LibraryRelocations, Files
<1> HIDE DEF obj
<1>3. \A k \in 1 .. n :
        /\ es[k].addr \in {-1, base + obj.relas[k].off}
        /\ obj.relas[k].type = "RELATIVE" =>
             es[k] = Writes(base + obj.relas[k].off, base + obj.relas[k].add)
        /\ SymbolWord(obj.relas[k]) =>
             es[k] = Writes(base + obj.relas[k].off,
                            StandsFor(obj.relas[k], LibSym(t, obj, base, obj.relas[k].sym)))
  <2> TAKE k \in 1 .. n
  <2> DEFINE r == obj.relas[k]
  <2>1. es[k] = LibRela(t, obj, base, r)
    OBVIOUS
  <2> HIDE DEF r, es
  <2>2. LibRela(t, obj, base, r).addr \in {-1, base + r.off}
    BY DEF LibRela, Writes, Nothing
  <2>3. r.type = "RELATIVE" => LibRela(t, obj, base, r) = Writes(base + r.off, base + r.add)
    BY DEF LibRela
  <2>4. SymbolWord(r) => LibRela(t, obj, base, r)
                           = Writes(base + r.off, StandsFor(r, LibSym(t, obj, base, r.sym)))
    BY DEF LibRela, SymbolWord, StandsFor
  <2> QED BY <2>1, <2>2, <2>3, <2>4 DEF r
<1>4. Len(es) = n
  <2> DEFINE S == {es[k] : k \in 1 .. n}
  <2>1. es \in [1 .. n -> S]
    OBVIOUS
  <2>2. n \in Nat
    BY <1>1
  <2> HIDE DEF n, es, S
  <2> QED BY <2>1, <2>2
<1> HIDE DEF n, es
<1>5. \A k \in 1 .. n : EntryIs(es[k], t, obj, base, k)
  BY <1>1, <1>3 DEF EntryIs
<1> QED BY <1>1, <1>3, <1>4, <1>5 DEF obj, n, es, LibEffects

\* fc32_apply_lib_rela leaves the words outside the library alone.
LEMMA RelaLeaves ==
  ASSUME world \in Worlds, NEW l \in DOMAIN world.files, NEW base \in Nat, NEW t,
         NEW m, NEW a \in DOMAIN m, a # -1, a \notin Words(world.files[l], base)
  PROVE  apply_lib_rela(t, world.files[l], base, m)[a] = m[a]
<1> DEFINE obj == world.files[l]
           n == Len(obj.relas)
           es == LibEffects(t, obj, base)
           Off(k) == obj.relas[k].off
           size == obj.size
<1>1. /\ Len(es) = n /\ size \in Nat
      /\ \A k \in 1 .. n : Off(k) \in Nat /\ Off(k) < size /\ es[k].addr \in {-1, base + Off(k)}
  BY RelaEffects
<1>2. apply_lib_rela(t, obj, base, m) = Write(m, es)
  BY DEF apply_lib_rela, LibEffects
<1>3. Words(obj, base) = base .. (base + size - 1)
  BY DEF Words
<1> HIDE DEF es, n, Off, size
<1>4. \A k \in 1 .. n : a # base + Off(k) /\ a # -1
  <2>1. \A k \in 1 .. n : base + Off(k) \in base .. (base + size - 1)
    BY <1>1
  <2> QED BY <1>3, <2>1
<1>5. \A k \in 1 .. Len(es) : es[k].addr # a
  BY <1>1, <1>4
<1>6. Write(m, es)[a] = m[a]
  BY <1>5, WriteFacts
<1> QED BY <1>2, <1>6

\* Memory in which the entries of a library have done their work.
Filled(m, t, obj, base) ==
  \A k \in 1 .. Len(obj.relas) :
    /\ obj.relas[k].type = "RELATIVE" => m[base + obj.relas[k].off] = base + obj.relas[k].add
    /\ SymbolWord(obj.relas[k]) =>
         m[base + obj.relas[k].off]
           = StandsFor(obj.relas[k], LibSym(t, obj, base, obj.relas[k].sym))

\* It fills in the words its entries name.
LEMMA RelaFills ==
  ASSUME world \in Worlds, NEW l \in DOMAIN world.files, NEW base \in Nat, NEW t,
         NEW m, DOMAIN m = 0 .. (MEM_SIZE - 1), base + world.files[l].size <= MEM_SIZE
  PROVE  Filled(apply_lib_rela(t, world.files[l], base, m), t, world.files[l], base)
<1> DEFINE obj == world.files[l]
           n == Len(obj.relas)
           es == LibEffects(t, obj, base)
           m2 == Write(m, es)
           Off(k) == obj.relas[k].off
           size == obj.size
<1>0. /\ Len(es) = n /\ size \in Nat /\ base \in Nat /\ MEM_SIZE \in Nat /\ base + size <= MEM_SIZE
      /\ \A k \in 1 .. n : /\ Off(k) \in Nat /\ Off(k) < size /\ es[k].addr \in {-1, base + Off(k)}
                           /\ \A j \in 1 .. n : Off(j) = Off(k) => j = k
  <2>1. MEM_SIZE \in Nat
    BY LoaderAssumption
  <2> QED BY <2>1, RelaEffects
<1>2. apply_lib_rela(t, obj, base, m) = m2
  BY DEF apply_lib_rela, LibEffects
<1>3. \A k \in 1 .. n : EntryIs(es[k], t, obj, base, k)
  BY RelaEffects
<1>4. Len(es) = n
  BY <1>0
<1> HIDE DEF obj, n, es
<1>7. ASSUME NEW k \in 1 .. n, NEW v,
             es[k] = Writes(base + obj.relas[k].off, v)
      PROVE  m2[base + obj.relas[k].off] = v
  <2> DEFINE a == base + Off(k)
  <2>1. Off(k) \in Nat /\ Off(k) < size /\ base + size <= MEM_SIZE
    BY <1>0
  <2>2. es[k].addr = a /\ es[k].val = v
    BY <1>7 DEF Writes
  <2> HIDE DEF Off, size
  <2>3. a \in DOMAIN m /\ a # -1
    BY <1>0, <2>1
  <2>4. \A j \in 1 .. n : base + Off(j) = base + Off(k) => j = k
    BY <1>0
  <2>5. \A j \in 1 .. Len(es) : es[j].addr = es[k].addr => j = k
    BY <1>0, <1>4, <2>2, <2>3, <2>4
  <2>6. k \in 1 .. Len(es)
    BY <1>4
  <2> HIDE DEF a
  <2> HIDE DEF m2
  <2>7. Write(m, es)[es[k].addr] = es[k].val
    <3>1. es[k].addr \in DOMAIN m
      BY <2>2, <2>3
    <3> QED BY <2>5, <2>6, <3>1, WriteOne, ZenonT(30)
  <2> QED BY <2>2, <2>7 DEF a, Off, m2
<1> HIDE DEF m2
<1>8. Filled(m2, t, obj, base)
  BY <1>3, <1>7 DEF EntryIs, Filled, n
<1> QED BY <1>2, <1>8 DEF obj

\* A library that has been relocated has its slots.
LEMMA SlotsFilled ==
  ASSUME world \in Worlds, UNCHANGED <<loader, world>>, loader \in {"i", "c"},
         mapped' \in Mappings, Rising(mapped'), NEW i \in 1 .. Len(mapped'),
         mapped'[i].top <= MEM_SIZE,
         mapped'[i].top = mapped'[i].base + world.files[mapped'[i].name].size,
         NEW t, \A n : sym_find(t, n) = DefinitionIn(mapped', n),
         NEW m, DOMAIN m = 0 .. (MEM_SIZE - 1),
         mem' = apply_lib_rela(t, world.files[mapped'[i].name], mapped'[i].base, m)
  PROVE  LibrarySlotsHold(i)'
<1> DEFINE e == mapped'[i]
           l == e.name
           obj == world.files[l]
           base == e.base
<1>1. l \in DOMAIN world.files /\ base \in Nat
  <2> DEFINE E == [name : DOMAIN world.files, base : Nat, top : Nat]
  <2>1. mapped' \in Seq(E)
    BY DEF Mappings
  <2>2. mapped'[i] \in E
    <3> HIDE DEF E
    <3> QED BY <2>1
  <2> QED BY <2>2
<1>2. base + obj.size <= MEM_SIZE
  OBVIOUS
<1>3. \A k \in 1 .. Len(obj.relas) :
        /\ obj.relas[k].type = "RELATIVE" => mem'[base + obj.relas[k].off] = base + obj.relas[k].add
        /\ SymbolWord(obj.relas[k]) =>
             mem'[base + obj.relas[k].off]
               = StandsFor(obj.relas[k], LibSym(t, obj, base, obj.relas[k].sym))
  <2>1. mem' = apply_lib_rela(t, world.files[l], base, m)
    OBVIOUS
  <2>2. base + world.files[l].size <= MEM_SIZE
    BY <1>2
  <2> HIDE DEF l, base, e, obj
  <2>3. Filled(mem', t, world.files[l], base)
    BY <1>1, <2>1, <2>2, RelaFills
  <2> QED BY <2>3 DEF obj, Filled
<1>4. /\ \A k \in 1 .. Len(obj.relas) :
           SymbolWord(obj.relas[k]) => obj.relas[k].sym \in DOMAIN obj.syms
      /\ \A n \in DOMAIN obj.syms : ~obj.syms[n].und <=> obj.syms[n].value # 0
  BY <1>1, LibraryRelocations, Files DEF SymbolWord
<1>5. \A n : Definition(n)' = DefinitionIn(mapped', n)
  BY DefinitionNext
<1>6. ASSUME NEW n \in DOMAIN obj.syms, obj.syms[n].bind # "local",
             loader = "i" \/ DefinitionIn(mapped', n) # 0
      PROVE  LibSym(t, obj, base, n) = DefinitionIn(mapped', n)
  <2>1. sym_find(t, n) = DefinitionIn(mapped', n)
    OBVIOUS
  <2>2. CASE DefinitionIn(mapped', n) # 0
    BY <2>1, <2>2 DEF LibSym
  <2>3. CASE DefinitionIn(mapped', n) = 0
    <3>1. loader = "i"
      BY <1>6, <2>3
    <3>2. ~Defines(obj, n)
      <4> SUFFICES ASSUME Defines(obj, n) PROVE DefinitionIn(mapped', n) # 0
        BY <2>3
      <4>1. i \in Definers(mapped', n)
        BY DEF Definers
      <4> HIDE DEF obj, l, e, base
      <4>2. Definers(mapped', n) # {}
        BY <4>1
      <4> QED BY <4>2, DefinitionIs
    <3>3. obj.syms[n].value = 0
      BY <1>4, <1>6, <3>2 DEF Defines
    <3> QED BY <2>1, <2>3, <3>1, <3>3 DEF LibSym
  <2> QED BY <2>2, <2>3
<1>7. \A k \in 1 .. Len(obj.relas) :
        /\ obj.relas[k].type = "RELATIVE" => mem'[base + obj.relas[k].off] = base + obj.relas[k].add
        /\ (SymbolWord(obj.relas[k]) /\ obj.syms[obj.relas[k].sym].bind # "local"
            /\ (loader = "i" \/ DefinitionIn(mapped', obj.relas[k].sym) # 0)) =>
               mem'[base + obj.relas[k].off]
                 = StandsFor(obj.relas[k], DefinitionIn(mapped', obj.relas[k].sym))
  <2> HIDE DEF obj, base, l, e
  <2> QED BY <1>3, <1>4, <1>6
<1>8. world'.files[mapped'[i].name] = obj /\ mapped'[i].base = base /\ loader' = loader
  OBVIOUS
<1> HIDE DEF obj, base, l, e
<1> QED BY <1>5, <1>7, <1>8 DEF LibrarySlotsHold

\* The slots of a library depend on its own words only.
LEMMA SlotsUndisturbed ==
  ASSUME LoaderShape, LoaderPlaces, UNCHANGED <<loader, world, mapped>>,
         NEW i \in 1 .. Len(mapped), LibrarySlotsHold(i),
         \A a \in mapped[i].base .. (mapped[i].top - 1) : mem'[a] = mem[a]
  PROVE  LibrarySlotsHold(i)'
<1> DEFINE E == [name : DOMAIN world.files, base : Nat, top : Nat]
           obj == world.files[mapped[i].name]
<1>1. mapped \in Seq(E) /\ world \in Worlds
  BY DEF LoaderShape
<1>2. mapped[i] \in E
  <2> HIDE DEF E
  <2> QED BY <1>1
<1>3. /\ mapped[i].name \in DOMAIN world.files /\ mapped[i].base \in Nat
      /\ mapped[i].top = mapped[i].base + obj.size
  BY <1>2 DEF LoaderPlaces
<1>4. obj.size \in Nat /\ \A k \in 1 .. Len(obj.relas) : obj.relas[k].off \in Nat /\ obj.relas[k].off < obj.size
  BY <1>1, <1>3, Files, LibraryRelocations
<1>5. \A k \in 1 .. Len(obj.relas) :
        mapped[i].base + obj.relas[k].off \in mapped[i].base .. (mapped[i].top - 1)
  <2> HIDE DEF obj
  <2> QED BY <1>3, <1>4, SMTT(30)
<1>6. \A k \in 1 .. Len(obj.relas) :
        mem'[mapped[i].base + obj.relas[k].off] = mem[mapped[i].base + obj.relas[k].off]
  BY <1>5
<1>7. \A n : Definition(n)' = Definition(n)
  BY WorldIsFixed
<1> QED BY <1>6, <1>7, ZenonT(30) DEF LibrarySlotsHold

\* The cart's relocations name words of its own, each once.
LEMMA CartRelocations ==
  ASSUME world \in Worlds
  PROVE  LET plt == world.cart.plt
             relas == world.cart.relas
         IN  /\ Len(plt) \in Nat /\ Len(relas) \in Nat
             /\ \A k \in 1 .. Len(plt) :
                  /\ plt[k].off \in Nat /\ plt[k].off < world.cart.size
                  /\ plt[k].sym # "" /\ plt[k].type = "JUMP_SLOT"
                  /\ \A j \in 1 .. Len(plt) : plt[j].off = plt[k].off => j = k
                  /\ \A j \in 1 .. Len(relas) : relas[j].off # plt[k].off
             /\ \A k \in 1 .. Len(relas) : relas[k].off \in Nat /\ relas[k].off < world.cart.size
<1> DEFINE plt == world.cart.plt
           relas == world.cart.relas
           both == plt \o relas
<1>1. /\ plt \in Seq(Relocation) /\ relas \in Seq(Relocation) /\ IsObject(world.cart, both)
      /\ \A k \in 1 .. Len(plt) : plt[k].type = "JUMP_SLOT"
  BY WorldAssumption
<1> HIDE DEF plt, relas
<1>2. /\ Len(plt) \in Nat /\ Len(relas) \in Nat /\ Len(both) = Len(plt) + Len(relas)
      /\ \A k \in 1 .. Len(plt) : both[k] = plt[k]
      /\ \A k \in 1 .. Len(relas) : both[Len(plt) + k] = relas[k]
      /\ \A k \in 1 .. Len(plt) : plt[k] \in Relocation
      /\ \A k \in 1 .. Len(relas) : relas[k] \in Relocation
  <2>1. \A k \in 1 .. Len(relas) : both[Len(plt) + k] = relas[k]
    BY <1>1
  <2> QED BY <1>1, <2>1
<1> HIDE DEF both
<1>3. \A k \in 1 .. Len(both) :
          /\ both[k].off < world.cart.size
          /\ both[k].type = "JUMP_SLOT" => both[k].sym # ""
          /\ \A j \in 1 .. Len(both) : both[j].off = both[k].off => j = k
  BY <1>1 DEF IsObject
<1>4. /\ \A k \in 1 .. Len(plt) : k \in 1 .. Len(both)
      /\ \A k \in 1 .. Len(relas) : Len(plt) + k \in 1 .. Len(both)
      /\ \A k \in 1 .. Len(plt), j \in 1 .. Len(relas) : Len(plt) + j # k
  BY <1>2
<1>5. \A k \in 1 .. Len(plt) :
                  /\ plt[k].off \in Nat /\ plt[k].off < world.cart.size
                  /\ plt[k].sym # "" /\ plt[k].type = "JUMP_SLOT"
                  /\ \A j \in 1 .. Len(plt) : plt[j].off = plt[k].off => j = k
  BY <1>1, <1>2, <1>3, <1>4 DEF Relocation
<1>6. \A k \in 1 .. Len(plt), j \in 1 .. Len(relas) : relas[j].off # plt[k].off
  BY <1>2, <1>3, <1>4
<1>7. \A k \in 1 .. Len(relas) : relas[k].off \in Nat /\ relas[k].off < world.cart.size
  BY <1>2, <1>3, <1>4 DEF Relocation
<1> QED BY <1>2, <1>5, <1>6, <1>7 DEF plt, relas

\* A list written one element further.
LEMMA AppendNext ==
  ASSUME NEW n \in Nat, NEW g
  PROVE  Append([i \in 1 .. n |-> g[i]], g[n + 1]) = [i \in 1 .. (n + 1) |-> g[i]]
<1> DEFINE S == {g[i] : i \in 1 .. (n + 1)}
           r == [i \in 1 .. n |-> g[i]]
           b == g[n + 1]
           u == Append(r, b)
<1>1. r \in [1 .. n -> S] /\ b \in S
  OBVIOUS
<1>2. \A i \in 1 .. n : r[i] = g[i]
  OBVIOUS
<1> HIDE DEF r, S, b
<1>3. r \in Seq(S) /\ Len(r) = n
  BY <1>1
<1>4. u \in Seq(S) /\ Len(u) = n + 1 /\ u[n + 1] = b
  BY <1>1, <1>3
<1>5. \A i \in 1 .. n : u[i] = r[i]
  BY <1>1, <1>3
<1> HIDE DEF u
<1>6. \A i \in 1 .. (n + 1) : u[i] = g[i]
  <2> TAKE i \in 1 .. (n + 1)
  <2>1. CASE i \in 1 .. n
    BY <1>2, <1>5, <2>1
  <2>2. CASE i = n + 1
    BY <1>4, <2>2 DEF b
  <2> QED BY <2>1, <2>2
<1>7. u \in [1 .. (n + 1) -> S]
  BY <1>4
<1>8. u = [i \in 1 .. (n + 1) |-> u[i]]
  BY <1>7
<1>9. [i \in 1 .. (n + 1) |-> u[i]] = [i \in 1 .. (n + 1) |-> g[i]]
  BY <1>6
<1> QED BY <1>8, <1>9 DEF u, r, b

\* The second pass, one library of the registry after the other.
LEMMA RelocateKeeps ==
  ASSUME LoaderInv, relocate_libs
  PROVE  LoaderInv'
<1>1. /\ phase = "relocate" /\ UNCHANGED <<loader, world, todo, registry, next_base, syms, ok, mapped>>
      /\ next_rela <= Len(registry) =>
           /\ mem' = apply_lib_rela(syms, world.files[registry[next_rela].name], registry[next_rela].base, mem)
           /\ relocated' = Append(relocated, registry[next_rela].base)
           /\ next_rela' = next_rela + 1 /\ phase' = phase
      /\ ~(next_rela <= Len(registry)) => phase' = "plt" /\ UNCHANGED <<mem, relocated, next_rela>>
  BY DEF relocate_libs
<1>2. LoaderShape /\ LoaderPlaces /\ LoaderNeeds /\ LoaderSymbols /\ LoaderMemory
  BY DEF LoaderInv
<1>3. /\ loader = "i" /\ world \in Worlds /\ world.cart.dynamic /\ next_rela \in Nat \ {0}
      /\ DOMAIN mem = 0 .. (MEM_SIZE - 1)
  BY <1>1, <1>2 DEF LoaderShape
<1> HIDE DEF LoaderInv, relocate_libs
<1>4. /\ (WithinTables' <=> WithinTables) /\ Reachable' = Reachable /\ ExportedNames' = ExportedNames
      /\ MappedNames' = MappedNames
      /\ \A n : Definition(n)' = Definition(n)
  BY <1>1, WorldIsFixed DEF MappedNames
<1>5. ~Finished /\ ~Finished' /\ phase' \in {"relocate", "plt"}
  BY <1>1 DEF Finished
<1>6. DOMAIN mem' = 0 .. (MEM_SIZE - 1)
  BY <1>1, <1>3, WriteFacts DEF apply_lib_rela
<1>7. LoaderShape'
  <2>1. next_rela' \in Nat \ {0}
    BY <1>1, <1>3
  <2> QED BY <1>1, <1>2, <1>3, <1>5, <1>6, <2>1 DEF LoaderShape
<1>8. LoaderPlaces'
  BY <1>1, <1>2 DEF LoaderPlaces
<1>9. LoaderSymbols'
  BY <1>1, <1>2, <1>4, <1>5 DEF LoaderSymbols
<1>10. ASSUME WithinTables
       PROVE  /\ NeedsMet /\ todo = << >> /\ Len(mapped) \in Nat /\ Len(registry) = Len(mapped)
              /\ next_rela <= Len(mapped) + 1
              /\ next_rela <= Len(mapped) =>
                   /\ next_rela \in 1 .. Len(mapped)
                   /\ registry[next_rela].name = mapped[next_rela].name
                   /\ registry[next_rela].base = mapped[next_rela].base
  <2>1. NeedsMet /\ todo = << >>
    BY <1>1, <1>2, <1>3, <1>10 DEF LoaderNeeds, Loaded
  <2>2. Len(mapped) \in Nat
    BY <1>2 DEF LoaderShape
  <2>3. next_rela <= Len(mapped) => next_rela \in 1 .. Len(mapped)
    BY <1>3, <2>2
  <2> QED BY <2>1, <2>2, <2>3 DEF NeedsMet
<1>11. LoaderNeeds'
  <2> SUFFICES ASSUME WithinTables PROVE NeedsMet' /\ todo' = << >>
    BY <1>1, <1>3, <1>4 DEF LoaderNeeds
  <2>1. todo' = << >>
    BY <1>1, <1>10
  <2>4. /\ (Len(registry) = Len(mapped))'
        /\ (\A i \in 1 .. Len(mapped) : /\ registry[i].name = mapped[i].name
                                         /\ registry[i].base = mapped[i].base)'
        /\ (\A i, j \in 1 .. Len(mapped) : mapped[i].name = mapped[j].name => i = j)'
        /\ MappedNames' \subseteq Reachable' /\ Members(todo') \subseteq Reachable'
        /\ Members(world'.cart.needed) \subseteq MappedNames' \cup Members(todo')
        /\ \A l \in MappedNames' :
              Members(world'.files[l].needed) \subseteq MappedNames' \cup Members(todo')
    <3>1. UNCHANGED <<world, todo, registry, mapped>> /\ Members(todo') = Members(todo)
      BY <1>1
    <3>2. /\ (Len(registry) = Len(mapped))'
          /\ (\A i \in 1 .. Len(mapped) : /\ registry[i].name = mapped[i].name
                                           /\ registry[i].base = mapped[i].base)'
          /\ (\A i, j \in 1 .. Len(mapped) : mapped[i].name = mapped[j].name => i = j)'
      BY <1>10, <3>1 DEF NeedsMet
    <3>3. MappedNames' \subseteq Reachable' /\ Members(todo') \subseteq Reachable'
      BY <1>4, <1>10, <3>1 DEF NeedsMet
    <3>4. Members(world'.cart.needed) \subseteq MappedNames' \cup Members(todo')
      BY <1>1, <1>3, <1>4, <1>10, <3>1 DEF NeedsMet
    <3>5. \A l \in MappedNames' :
              Members(world'.files[l].needed) \subseteq MappedNames' \cup Members(todo')
      BY <1>4, <1>10, <3>1 DEF NeedsMet
    <3> QED BY <3>2, <3>3, <3>4, <3>5
  <2>2. CASE ~(next_rela <= Len(registry))
    <3>1. next_rela = Len(mapped) + 1
      BY <1>3, <1>10, <2>2
    <3>2. UNCHANGED <<loader, world, todo, registry, mapped, relocated, next_rela>> /\ phase' = "plt"
      BY <1>1, <2>2
    <3>3. relocated = [i \in 1 .. (next_rela - 1) |-> mapped[i].base]
      BY <1>10 DEF NeedsMet
    <3>4. relocated' = [i \in 1 .. (next_rela' - 1) |-> mapped'[i].base]
      BY <3>2, <3>3
    <3>5. next_rela' <= Len(mapped') + 1 /\ next_rela' = Len(mapped') + 1
      BY <1>10, <3>1, <3>2
    <3>6. ~(phase' \in {"start", "load"})
      BY <3>2
    <3> QED BY <2>1, <2>4, <3>4, <3>5, <3>6 DEF NeedsMet
  <2>3. CASE next_rela <= Len(registry)
    <3>1. /\ next_rela' = next_rela + 1 /\ phase' = "relocate" /\ next_rela' <= Len(mapped) + 1
          /\ next_rela \in 1 .. Len(mapped)
      BY <1>1, <1>3, <1>10, <2>3
    <3>2. relocated' = [i \in 1 .. (next_rela' - 1) |-> mapped'[i].base]
      <4> DEFINE k == next_rela - 1
                 g == [i \in 1 .. Len(mapped) |-> mapped[i].base]
      <4>1. k \in Nat /\ k + 1 = next_rela /\ next_rela' - 1 = k + 1 /\ k + 1 <= Len(mapped)
        BY <1>3, <1>10, <3>1
      <4>2. /\ relocated = [i \in 1 .. k |-> mapped[i].base]
            /\ relocated' = Append(relocated, mapped[next_rela].base)
        BY <1>1, <1>10, <2>3 DEF NeedsMet
      <4>3. \A i \in 1 .. (k + 1) : g[i] = mapped[i].base
        BY <1>10, <4>1
      <4>4. [i \in 1 .. k |-> mapped[i].base] = [i \in 1 .. k |-> g[i]]
        BY <4>1, <4>3
      <4>5. mapped[next_rela].base = g[k + 1]
        BY <4>1, <4>3
      <4>6. [i \in 1 .. (k + 1) |-> g[i]] = [i \in 1 .. (k + 1) |-> mapped[i].base]
        BY <4>3
      <4> HIDE DEF g, k
      <4>7. relocated' = [i \in 1 .. (k + 1) |-> g[i]]
        BY <4>1, <4>2, <4>4, <4>5, AppendNext
      <4> QED BY <1>1, <4>1, <4>6, <4>7
    <3>3. UNCHANGED <<loader, world, todo, registry, mapped>> /\ ~(phase' \in {"plt", "rela"})
          /\ ~(phase' \in {"start", "load"})
      BY <1>1, <3>1
    <3>4. next_rela' <= Len(mapped') + 1
      BY <3>1, <3>3
    <3> QED BY <1>5, <2>1, <2>4, <3>2, <3>3, <3>4 DEF NeedsMet
  <2> QED BY <2>1, <2>2, <2>3
<1>12. LoaderMemory'
  <2> SUFFICES ASSUME WithinTables
               PROVE  /\ \A a \in 0 .. (world.cart.size - 1) : mem'[a] = Raw
                      /\ \A i \in 1 .. Len(mapped) :
                           (i < next_rela' /\ mapped[i].top <= MEM_SIZE) => LibrarySlotsHold(i)'
    BY <1>1, <1>3, <1>4, <1>5 DEF LoaderMemory
  <2>1. /\ \A a \in 0 .. (world.cart.size - 1) : mem[a] = Raw
        /\ \A i \in 1 .. Len(mapped) :
             (i < next_rela /\ mapped[i].top <= MEM_SIZE) => LibrarySlotsHold(i)
    BY <1>1, <1>2, <1>3 DEF LoaderMemory
  <2>2. CASE ~(next_rela <= Len(registry))
    <3>1. UNCHANGED <<mem, next_rela, loader, world, mapped>>
      BY <1>1, <2>2
    <3>2. \A i : LibrarySlotsHold(i)' <=> LibrarySlotsHold(i)
      BY <3>1, SlotsKept
    <3> QED BY <2>1, <3>1, <3>2
  <2>3. CASE next_rela <= Len(registry)
    <3> DEFINE k == next_rela
               base == mapped[k].base
               l == mapped[k].name
    <3>1. /\ k \in 1 .. Len(mapped) /\ mem' = apply_lib_rela(syms, world.files[l], base, mem)
          /\ next_rela' = k + 1 /\ mapped' = mapped
      BY <1>1, <1>10, <2>3
    <3>2. /\ mapped \in Mappings
          /\ \A i \in 1 .. Len(mapped) : /\ mapped[i].name \in DOMAIN world.files
                                         /\ mapped[i].base \in Nat /\ mapped[i].top \in Nat
      <4> DEFINE E == [name : DOMAIN world.files, base : Nat, top : Nat]
      <4>1. mapped \in Seq(E)
        BY <1>2 DEF LoaderShape
      <4>2. \A i \in 1 .. Len(mapped) : mapped[i] \in E
        <5> HIDE DEF E
        <5> QED BY <4>1
      <4> QED BY <4>1, <4>2 DEF Mappings
    <3>3. /\ \A i \in 1 .. Len(mapped) :
               /\ LIB_LOAD_ADDR <= mapped[i].base
               /\ mapped[i].top = mapped[i].base + world.files[mapped[i].name].size
          /\ \A i, j \in 1 .. Len(mapped) : i < j => mapped[i].top <= mapped[j].base
      BY <1>2, <1>3 DEF LoaderPlaces
    <3>4. \A a \in DOMAIN mem : (a < base \/ mapped[k].top <= a) => mem'[a] = mem[a]
      <4>1. l \in DOMAIN world.files /\ base \in Nat /\ mapped[k].top = base + world.files[l].size
        BY <3>1, <3>2, <3>3
      <4>2. mem' = apply_lib_rela(syms, world.files[l], base, mem)
        BY <3>1
      <4> HIDE DEF l, base, k
      <4>3. \A a \in DOMAIN mem : a \notin Words(world.files[l], base) => mem'[a] = mem[a]
        <5> SUFFICES ASSUME NEW a \in DOMAIN mem, a \notin Words(world.files[l], base)
                     PROVE  mem'[a] = mem[a]
          OBVIOUS
        <5>1. a # -1
          BY <1>3
        <5>2. world \in Worlds /\ l \in DOMAIN world.files /\ base \in Nat
          BY <1>3, <4>1
        <5>3. apply_lib_rela(syms, world.files[l], base, mem)[a] = mem[a]
          BY <5>1, <5>2, RelaLeaves
        <5> QED BY <4>2, <5>3
      <4>4. \A a \in DOMAIN mem : a \in Words(world.files[l], base) =>
                                     ~(a < base) /\ ~(mapped[k].top <= a)
        <5>1. world.files[l].size \in Nat
          BY <1>3, <4>1, Files
        <5> QED BY <4>1, <5>1 DEF Words
      <4> QED BY <4>3, <4>4
    <3>5. \A a \in 0 .. (world.cart.size - 1) : mem'[a] = Raw
      <4>1. world.cart.size \in Nat /\ world.cart.size <= LIB_LOAD_ADDR
        BY <1>3, Files
      <4>2. base \in Nat /\ LIB_LOAD_ADDR <= base /\ LIB_LOAD_ADDR \in Nat /\ LIB_LOAD_ADDR <= MEM_SIZE
            /\ MEM_SIZE \in Nat
        BY <3>1, <3>2, <3>3, LoaderAssumption
      <4> HIDE DEF base
      <4>3. \A a \in 0 .. (world.cart.size - 1) : a \in DOMAIN mem /\ a < base
        BY <1>3, <4>1, <4>2
      <4> QED BY <2>1, <3>4, <4>3
    <3>6. ASSUME NEW i \in 1 .. Len(mapped), i < next_rela', mapped[i].top <= MEM_SIZE
          PROVE  LibrarySlotsHold(i)'
      <4>1. CASE i = k
        <5>1. Rising(mapped)
          BY <1>2, <1>3, BasesRise
        <5>2. \A n : sym_find(syms, n) = DefinitionIn(mapped, n)
          BY <1>1, <1>2, <1>3 DEF LoaderSymbols, Definition
        <5>3. /\ loader' = loader /\ world' = world /\ loader \in {"i", "c"}
              /\ mapped' = mapped /\ mapped[i].top = mapped[i].base + world.files[mapped[i].name].size
              /\ mem' = apply_lib_rela(syms, world.files[mapped[i].name], mapped[i].base, mem)
          BY <1>1, <1>3, <3>1, <3>3, <4>1
        <5> HIDE DEF l, base, k
        <5> QED BY <1>3, <3>2, <3>6, <5>1, <5>2, <5>3, SlotsFilled
      <4>2. CASE i # k
        <5>1. i < k /\ LibrarySlotsHold(i)
          BY <1>3, <2>1, <3>1, <3>6, <4>2
        <5>2. mapped[i].top <= base /\ mapped[i].base \in Nat /\ mapped[i].top \in Nat /\ base \in Nat
          BY <3>1, <3>2, <3>3, <5>1
        <5> HIDE DEF base, k
        <5>3. \A a \in mapped[i].base .. (mapped[i].top - 1) : a \in DOMAIN mem /\ a < base
          BY <1>3, <3>6, <5>2, LoaderAssumption
        <5>4. \A a \in mapped[i].base .. (mapped[i].top - 1) : mem'[a] = mem[a]
          BY <3>4, <5>3
        <5>5. UNCHANGED <<loader, world, mapped>>
          BY <1>1
        <5> QED BY <1>2, <5>1, <5>4, <5>5, SlotsUndisturbed
      <4> QED BY <4>1, <4>2
    <3> QED BY <3>5, <3>6
  <2> QED BY <2>2, <2>3
<1> QED BY <1>7, <1>8, <1>9, <1>11, <1>12 DEF LoaderInv

\* What the cart's two tables do.
\* What the cart's two relocation tables write, entry by entry.
PltEffects == [k \in 1 .. Len(world.cart.plt) |-> CartPltEntry(world.cart.plt[k])]
RelaTableEffects == [k \in 1 .. Len(world.cart.relas) |-> CartRelaEntry(world.cart.relas[k])]

\* They write words of the cart; the PLT gets what the symbol table says, and
\* DT_RELA leaves the PLT alone.
LEMMA CartEffects ==
  ASSUME world \in Worlds
  PROVE  /\ Len(PltEffects) = Len(world.cart.plt) /\ Len(RelaTableEffects) = Len(world.cart.relas)
         /\ \A k \in 1 .. Len(world.cart.plt) :
              /\ PltEffects[k].addr \in {-1, world.cart.plt[k].off}
              /\ sym_find(syms, world.cart.plt[k].sym) = 0 => PltEffects[k].addr = -1
              /\ sym_find(syms, world.cart.plt[k].sym) # 0 =>
                   /\ PltEffects[k].addr = world.cart.plt[k].off
                   /\ PltEffects[k].val = sym_find(syms, world.cart.plt[k].sym)
         /\ \A k \in 1 .. Len(world.cart.relas) :
              RelaTableEffects[k].addr \in {-1, world.cart.relas[k].off}
<1> DEFINE plt == world.cart.plt
           relas == world.cart.relas
<1>1. /\ Len(plt) \in Nat /\ Len(relas) \in Nat
      /\ \A k \in 1 .. Len(plt) : plt[k].sym # "" /\ plt[k].type = "JUMP_SLOT"
  BY CartRelocations
<1>2. Len(PltEffects) = Len(plt) /\ Len(RelaTableEffects) = Len(relas)
  <2> DEFINE A == {PltEffects[k] : k \in 1 .. Len(plt)}
             B == {RelaTableEffects[k] : k \in 1 .. Len(relas)}
             p == Len(plt)
             q == Len(relas)
  <2>1. PltEffects \in [1 .. p -> A] /\ RelaTableEffects \in [1 .. q -> B] /\ p \in Nat /\ q \in Nat
    BY <1>1 DEF PltEffects, RelaTableEffects
  <2> HIDE DEF A, B, p, q
  <2>2. Len(PltEffects) = p /\ Len(RelaTableEffects) = q
    BY <2>1
  <2> QED BY <2>2 DEF p, q
<1>3. ASSUME NEW k \in 1 .. Len(plt)
      PROVE  /\ PltEffects[k].addr \in {-1, plt[k].off}
             /\ sym_find(syms, plt[k].sym) = 0 => PltEffects[k].addr = -1
             /\ sym_find(syms, plt[k].sym) # 0 =>
                  PltEffects[k].addr = plt[k].off /\ PltEffects[k].val = sym_find(syms, plt[k].sym)
  <2> DEFINE r == plt[k]
  <2>1. PltEffects[k] = CartPltEntry(r) /\ r.sym # "" /\ r.type = "JUMP_SLOT"
    BY <1>1 DEF PltEffects
  <2> HIDE DEF r
  <2>2. /\ CartPltEntry(r).addr \in {-1, r.off}
        /\ sym_find(syms, r.sym) = 0 => CartPltEntry(r).addr = -1
        /\ sym_find(syms, r.sym) # 0 =>
             CartPltEntry(r).addr = r.off /\ CartPltEntry(r).val = sym_find(syms, r.sym)
    BY <2>1 DEF CartPltEntry, Writes, Nothing
  <2> QED BY <2>1, <2>2 DEF r
<1>4. ASSUME NEW k \in 1 .. Len(relas)
      PROVE  RelaTableEffects[k].addr \in {-1, relas[k].off}
  <2> DEFINE r == relas[k]
  <2>1. RelaTableEffects[k] = CartRelaEntry(r)
    BY DEF RelaTableEffects
  <2> HIDE DEF r
  <2>2. CartRelaEntry(r).addr \in {-1, r.off}
    BY DEF CartRelaEntry, Writes, Nothing
  <2> QED BY <2>1, <2>2 DEF r
<1> QED BY <1>2, <1>3, <1>4

\* Writes into the cart leave the libraries alone.
LEMMA LibrariesUndisturbed ==
  ASSUME LoaderShape, LoaderPlaces, UNCHANGED <<loader, world, mapped>>,
         NEW es, mem' = Write(mem, es),
         \A k \in 1 .. Len(es) : es[k].addr \in -1 .. (world.cart.size - 1),
         NEW i \in 1 .. Len(mapped), mapped[i].top <= MEM_SIZE, LibrarySlotsHold(i)
  PROVE  LibrarySlotsHold(i)'
<1>1. DOMAIN mem = 0 .. (MEM_SIZE - 1) /\ world \in Worlds /\ MEM_SIZE \in Nat /\ LIB_LOAD_ADDR \in Nat
  BY LoaderAssumption DEF LoaderShape
<1>2. mapped[i].base \in Nat /\ mapped[i].top \in Nat /\ LIB_LOAD_ADDR <= mapped[i].base
  <2> DEFINE E == [name : DOMAIN world.files, base : Nat, top : Nat]
  <2>1. mapped \in Seq(E)
    BY DEF LoaderShape
  <2>2. mapped[i] \in E
    <3> HIDE DEF E
    <3> QED BY <2>1
  <2> QED BY <2>2 DEF LoaderPlaces
<1>3. world.cart.size \in Nat /\ world.cart.size <= LIB_LOAD_ADDR
  BY <1>1, Files
<1>4. ASSUME NEW a \in mapped[i].base .. (mapped[i].top - 1)
      PROVE  mem'[a] = mem[a]
  <2>1. a \in DOMAIN mem
    BY <1>1, <1>2
  <2>2. a \notin -1 .. (world.cart.size - 1)
    BY <1>1, <1>2, <1>3
  <2>3. \A k \in 1 .. Len(es) : es[k].addr # a
    BY <2>2
  <2> QED BY <2>1, <2>3, WriteFacts
<1> QED BY <1>4, SlotsUndisturbed

\* Step 3 fills in the cart's PLT.
LEMMA CartPltKeeps ==
  ASSUME LoaderInv, CartPlt
  PROVE  LoaderInv'
<1>1. /\ phase = "plt" /\ phase' = "rela" /\ mem' = Write(mem, PltEffects)
      /\ UNCHANGED <<loader, world, todo, registry, next_base, syms, next_rela, ok, mapped, relocated>>
  BY DEF CartPlt, PltEffects
<1>2. LoaderShape /\ LoaderPlaces /\ LoaderNeeds /\ LoaderSymbols /\ LoaderMemory
  BY DEF LoaderInv
<1> HIDE DEF CartPlt
<1>3. world \in Worlds /\ world.cart.dynamic /\ DOMAIN mem = 0 .. (MEM_SIZE - 1)
  BY <1>1, <1>2 DEF LoaderShape
<1>4. /\ (WithinTables' <=> WithinTables) /\ Reachable' = Reachable /\ ExportedNames' = ExportedNames
      /\ MappedNames' = MappedNames /\ \A n : Definition(n)' = Definition(n)
  BY <1>1, WorldIsFixed DEF MappedNames
<1>5. DOMAIN mem' = 0 .. (MEM_SIZE - 1)
  BY <1>1, <1>3, WriteFacts
<1>6. LoaderShape' /\ LoaderPlaces'
  BY <1>1, <1>2, <1>3, <1>5 DEF LoaderShape, LoaderPlaces
<1>7. ~Finished /\ ~Finished' /\ Loaded /\ Loaded'
  BY <1>1 DEF Finished, Loaded
<1>8. LoaderNeeds'
  BY <1>1, <1>2, <1>4, <1>7 DEF LoaderNeeds, NeedsMet, SingleMet
<1>9. LoaderSymbols'
  BY <1>1, <1>2, <1>4 DEF LoaderSymbols
<1>10. LoaderMemory'
  <2> SUFFICES ASSUME WithinTables
               PROVE  /\ \A i \in 1 .. Len(mapped) :
                           ((loader = "i" => i < next_rela) /\ mapped[i].top <= MEM_SIZE) =>
                              LibrarySlotsHold(i)'
                      /\ CartSlotsHold'
    BY <1>1, <1>4 DEF LoaderMemory
  <2> DEFINE plt == world.cart.plt
             n == Len(plt)
             es == PltEffects
             Off(k) == plt[k].off
  <2>1. /\ \A a \in 0 .. (world.cart.size - 1) : mem[a] = Raw
        /\ \A i \in 1 .. Len(mapped) :
             ((loader = "i" => i < next_rela) /\ mapped[i].top <= MEM_SIZE) => LibrarySlotsHold(i)
    BY <1>1, <1>2 DEF LoaderMemory
  <2>2. \A s : sym_find(syms, s) = Definition(s)
    BY <1>1, <1>2, <1>3 DEF LoaderSymbols
  <2>3. /\ Len(es) = n
        /\ \A k \in 1 .. n : /\ es[k].addr \in {-1, Off(k)}
                             /\ Definition(plt[k].sym) = 0 => es[k].addr = -1
                             /\ Definition(plt[k].sym) # 0 =>
                                  es[k].addr = Off(k) /\ es[k].val = Definition(plt[k].sym)
    BY <1>3, <2>2, CartEffects
  <2>4. \A k \in 1 .. n : /\ Off(k) \in Nat /\ Off(k) < world.cart.size
                          /\ \A j \in 1 .. n : Off(j) = Off(k) => j = k
    BY <1>3, CartRelocations
  <2>5. world.cart.size \in Nat /\ world.cart.size <= MEM_SIZE /\ MEM_SIZE \in Nat
    BY <1>3, Files, LoaderAssumption
  <2>6. \A k \in 1 .. Len(es) : es[k].addr \in -1 .. (world.cart.size - 1)
    <3> DEFINE size == world.cart.size
    <3> HIDE DEF es, n, Off, plt
    <3>1. size \in Nat /\ \A k \in 1 .. n : Off(k) \in Nat /\ Off(k) < size
      BY <2>4, <2>5
    <3>2. Len(es) = n /\ \A k \in 1 .. n : es[k].addr = -1 \/ es[k].addr = Off(k)
      BY <2>3
    <3> HIDE DEF size
    <3>3. \A k \in 1 .. Len(es) : es[k].addr \in -1 .. (size - 1)
      BY <3>1, <3>2
    <3> QED BY <3>3 DEF size
  <2>7. UNCHANGED <<loader, world, mapped>>
    BY <1>1
  <2>8. ASSUME NEW i \in 1 .. Len(mapped), loader = "i" => i < next_rela, mapped[i].top <= MEM_SIZE
        PROVE  LibrarySlotsHold(i)'
    <3> HIDE DEF es
    <3>1. LibrarySlotsHold(i)
      BY <2>1, <2>8
    <3>2. mem' = Write(mem, es)
      BY <1>1 DEF es
    <3> QED BY <1>2, <2>6, <2>7, <2>8, <3>1, <3>2, LibrariesUndisturbed
  <2>9. ASSUME NEW k \in 1 .. n
        PROVE  mem'[Off(k)] = IF Definition(plt[k].sym) # 0 THEN Definition(plt[k].sym) ELSE Raw
    <3> DEFINE a == Off(k)
    <3>1. a \in 0 .. (world.cart.size - 1) /\ a \in DOMAIN mem /\ a # -1
      <4> HIDE DEF Off
      <4> QED BY <1>3, <2>4, <2>5
    <3>2. \A j \in 1 .. n : es[j].addr = a => j = k
      <4> HIDE DEF es, n, plt, Off
      <4> QED BY <2>3, <2>4, <3>1
    <3>3. mem' = Write(mem, es)
      BY <1>1
    <3>4. CASE Definition(plt[k].sym) # 0
      <4> HIDE DEF es, n, plt, Off, a
      <4>1. es[k].addr = a /\ es[k].val = Definition(plt[k].sym)
        BY <2>3, <3>4 DEF a
      <4>2. Write(mem, es)[a] = es[k].val
        <5>1. k \in 1 .. Len(es) /\ \A j \in 1 .. Len(es) : es[j].addr = a => j = k
          BY <2>3, <3>2
        <5>2. a \in DOMAIN mem /\ es[k].addr = a
          BY <3>1, <4>1
        <5> QED BY <5>1, <5>2, WriteOne
      <4> QED BY <3>3, <3>4, <4>1, <4>2 DEF a
    <3>5. CASE Definition(plt[k].sym) = 0
      <4> HIDE DEF es, n, plt, Off, a
      <4>1. \A j \in 1 .. Len(es) : es[j].addr # a
        BY <2>3, <3>1, <3>2, <3>5
      <4>2. Write(mem, es)[a] = mem[a]
        <5>1. a \in DOMAIN mem
          BY <3>1
        <5> QED BY <4>1, <5>1, WriteFacts
      <4>3. mem[a] = Raw
        BY <2>1, <3>1
      <4> QED BY <3>3, <3>5, <4>2, <4>3 DEF a
    <3> QED BY <3>4, <3>5
  <2>10. CartSlotsHold'
    BY <1>1, <1>4, <2>9 DEF CartSlotsHold
  <2> QED BY <2>8, <2>10
<1> QED BY <1>6, <1>8, <1>9, <1>10 DEF LoaderInv

\* Step 4 relocates the cart's data and ends.
LEMMA CartRelaKeeps ==
  ASSUME LoaderInv, CartRela
  PROVE  LoaderInv'
<1>1. /\ phase = "rela" /\ phase' = "done" /\ mem' = Write(mem, RelaTableEffects)
      /\ UNCHANGED <<loader, world, todo, registry, next_base, syms, next_rela, ok, mapped, relocated>>
  BY DEF CartRela, RelaTableEffects
<1>2. LoaderShape /\ LoaderPlaces /\ LoaderNeeds /\ LoaderSymbols /\ LoaderMemory
  BY DEF LoaderInv
<1> HIDE DEF CartRela
<1>3. world \in Worlds /\ world.cart.dynamic /\ DOMAIN mem = 0 .. (MEM_SIZE - 1)
  BY <1>1, <1>2 DEF LoaderShape
<1>4. /\ (WithinTables' <=> WithinTables) /\ Reachable' = Reachable /\ ExportedNames' = ExportedNames
      /\ MappedNames' = MappedNames /\ \A n : Definition(n)' = Definition(n)
  BY <1>1, WorldIsFixed DEF MappedNames
<1>5. DOMAIN mem' = 0 .. (MEM_SIZE - 1)
  BY <1>1, <1>3, WriteFacts
<1>6. LoaderShape' /\ LoaderPlaces'
  BY <1>1, <1>2, <1>3, <1>5 DEF LoaderShape, LoaderPlaces
<1>7. Loaded
  BY <1>1 DEF Loaded
<1>8. LoaderNeeds'
  BY <1>1, <1>2, <1>4, <1>7 DEF LoaderNeeds, NeedsMet, SingleMet
<1>9. LoaderSymbols'
  BY <1>1, <1>2, <1>4 DEF LoaderSymbols
<1>10. LoaderMemory'
  <2> SUFFICES ASSUME WithinTables
               PROVE  /\ \A i \in 1 .. Len(mapped) :
                           ((loader = "i" => i < next_rela) /\ mapped[i].top <= MEM_SIZE) =>
                              LibrarySlotsHold(i)'
                      /\ CartSlotsHold'
    BY <1>1, <1>4 DEF LoaderMemory
  <2> DEFINE plt == world.cart.plt
             relas == world.cart.relas
             n == Len(relas)
             es == RelaTableEffects
  <2>1. /\ CartSlotsHold
        /\ \A i \in 1 .. Len(mapped) :
             ((loader = "i" => i < next_rela) /\ mapped[i].top <= MEM_SIZE) => LibrarySlotsHold(i)
    BY <1>1, <1>2 DEF LoaderMemory
  <2>2. Len(es) = n /\ \A k \in 1 .. n : es[k].addr \in {-1, relas[k].off}
    BY <1>3, CartEffects
  <2>3. /\ \A k \in 1 .. n : relas[k].off \in Nat /\ relas[k].off < world.cart.size
        /\ \A k \in 1 .. Len(plt) : /\ plt[k].off \in Nat /\ plt[k].off < world.cart.size
                                    /\ \A j \in 1 .. n : relas[j].off # plt[k].off
    BY <1>3, CartRelocations
  <2>4. world.cart.size \in Nat /\ world.cart.size <= MEM_SIZE /\ MEM_SIZE \in Nat
    BY <1>3, Files, LoaderAssumption
  <2>5. \A k \in 1 .. Len(es) : es[k].addr \in -1 .. (world.cart.size - 1)
    <3> HIDE DEF es, n, plt, relas
    <3> QED BY <2>2, <2>3, <2>4
  <2>6. UNCHANGED <<loader, world, mapped>>
    BY <1>1
  <2>7. ASSUME NEW i \in 1 .. Len(mapped), loader = "i" => i < next_rela, mapped[i].top <= MEM_SIZE
        PROVE  LibrarySlotsHold(i)'
    <3> HIDE DEF es
    <3>1. LibrarySlotsHold(i)
      BY <2>1, <2>7
    <3>2. mem' = Write(mem, es)
      BY <1>1 DEF es
    <3> QED BY <1>2, <2>5, <2>6, <2>7, <3>1, <3>2, LibrariesUndisturbed
  <2>8. ASSUME NEW k \in 1 .. Len(plt)
        PROVE  mem'[plt[k].off] = mem[plt[k].off]
    <3> DEFINE a == plt[k].off
    <3>1. a \in DOMAIN mem /\ a # -1
      <4> HIDE DEF plt, relas, n
      <4>1. plt[k].off \in Nat /\ plt[k].off < world.cart.size
        BY <2>3
      <4> QED BY <1>3, <2>4, <4>1
    <3>2. \A j \in 1 .. Len(es) : es[j].addr # a
      <4> HIDE DEF es, n, plt, relas
      <4> QED BY <2>2, <2>3, <3>1
    <3>3. mem' = Write(mem, es)
      BY <1>1
    <3> HIDE DEF a, es
    <3>4. Write(mem, es)[a] = mem[a]
      <4>1. a \in DOMAIN mem
        BY <3>1
      <4> QED BY <3>2, <4>1, WriteFacts
    <3> QED BY <3>3, <3>4 DEF a
  <2>9. CartSlotsHold'
    BY <1>1, <1>4, <2>1, <2>8 DEF CartSlotsHold
  <2> QED BY <2>7, <2>9
<1> QED BY <1>6, <1>8, <1>9, <1>10 DEF LoaderInv

\* Spike C maps its library and relocates it at once.
LEMMA LoadSingleKeeps ==
  ASSUME LoaderInv, load_single
  PROVE  LoaderInv'
<1> DEFINE l == Head(todo)
           obj == world.files[l]
           base == LIB_LOAD_ADDR
           top == base + obj.size
           m == MapAt(mem, base, obj.size)
<1>1. /\ phase = "load" /\ todo # << >> /\ loader = "c" /\ l \in DOMAIN world.files
      /\ syms' \in AddExports(syms, obj, base) /\ mem' = apply_lib_rela(syms', obj, base, m)
      /\ mapped' = Append(mapped, [name |-> l, base |-> base, top |-> top])
      /\ relocated' = Append(relocated, base) /\ todo' = Tail(todo)
      /\ UNCHANGED <<loader, world, phase, registry, next_base, next_rela, ok>>
  BY DEF load_single
<1>2. LoaderShape /\ LoaderPlaces /\ LoaderNeeds /\ LoaderSymbols /\ LoaderMemory
  BY DEF LoaderInv
<1>3. /\ world \in Worlds /\ world.cart.dynamic /\ todo \in Seq(Libs)
      /\ syms \in SymbolTable /\ Len(syms) <= SYM_MAX /\ DOMAIN mem = 0 .. (MEM_SIZE - 1)
  BY <1>1, <1>2 DEF LoaderShape
<1>4. /\ Listed(obj) /\ obj.size \in Nat /\ obj.size > 0
      /\ world.cart.size \in Nat /\ world.cart.size <= base
  BY <1>1, <1>3, Files
<1>5. base \in Nat /\ top \in Nat /\ MEM_SIZE \in Nat /\ base <= MEM_SIZE
  BY <1>4, LoaderAssumption
<1>6. DOMAIN m = 0 .. (MEM_SIZE - 1) /\ \A a \in 0 .. (world.cart.size - 1) : a \in DOMAIN mem /\ m[a] = mem[a]
  <2>1. DOMAIN m = 0 .. (MEM_SIZE - 1)
    BY <1>3 DEF MapAt
  <2>2. \A a \in 0 .. (world.cart.size - 1) : a \in DOMAIN mem /\ a \notin base .. (base + obj.size - 1)
    <3> HIDE DEF obj
    <3> QED BY <1>3, <1>4, <1>5
  <2>3. \A a \in 0 .. (world.cart.size - 1) : m[a] = mem[a]
    BY <2>2 DEF MapAt
  <2> QED BY <2>1, <2>2, <2>3
<1> HIDE DEF load_single, l, obj, top, m, base
<1>7. /\ (WithinTables' <=> WithinTables) /\ Reachable' = Reachable /\ ExportedNames' = ExportedNames
      /\ \A n : Definition(n)' = DefinitionIn(mapped', n)
  BY <1>1, WorldIsFixed, DefinitionNext
<1>8. /\ mapped \in Mappings /\ mapped' \in Mappings
      /\ Len(mapped) \in Nat /\ Len(mapped') = Len(mapped) + 1
      /\ \A i \in 1 .. Len(mapped) : mapped'[i] = mapped[i]
      /\ mapped'[Len(mapped) + 1] = [name |-> l, base |-> base, top |-> top]
      /\ MappedNames' = MappedNames \cup {l}
  BY <1>1, <1>2, <1>5, MappedGrows
<1>9. /\ l \in Libs /\ todo' \in Seq(Libs) /\ Len(todo') = Len(todo) - 1
      /\ Members(todo) = {l} \cup Members(todo')
  BY <1>1, <1>3, MembersFacts DEF l
<1>10. syms' \in SymbolTable /\ Len(syms') <= SYM_MAX
  <2>1. PICK order \in Orders(NewNames(syms, obj)) : syms' = sym_add(syms, obj, base, order)
    BY <1>1 DEF AddExports
  <2> QED BY <1>3, <1>4, <1>5, <2>1, AddFinds
<1>20. \A x \in DOMAIN m : x # -1 /\ x \notin Words(world.files[l], base) =>
          apply_lib_rela(syms', world.files[l], base, m)[x] = m[x]
  <2> DEFINE t == syms'
  <2> SUFFICES ASSUME NEW x \in DOMAIN m, x # -1, x \notin Words(world.files[l], base)
               PROVE  apply_lib_rela(t, world.files[l], base, m)[x] = m[x]
    OBVIOUS
  <2> HIDE DEF t
  <2>1. world \in Worlds /\ l \in DOMAIN world.files /\ base \in Nat
    BY <1>1, <1>3, <1>5
  <2> QED BY <2>1, RelaLeaves, SMTT(30)
<1>11. DOMAIN mem' = 0 .. (MEM_SIZE - 1)
  BY <1>1, <1>6, WriteFacts DEF apply_lib_rela
<1>12. LoaderShape'
  <2>1. mapped' \in Seq([name : DOMAIN world'.files, base : Nat, top : Nat])
    BY <1>1, <1>8 DEF Mappings
  <2> QED BY <1>1, <1>2, <1>9, <1>10, <1>11, <2>1 DEF LoaderShape
<1>13. LoaderPlaces'
  <2>1. ASSUME NEW i \in 1 .. Len(mapped')
        PROVE  /\ LIB_LOAD_ADDR <= mapped'[i].base
               /\ mapped'[i].top = mapped'[i].base + world'.files[mapped'[i].name].size
    <3>1. CASE i \in 1 .. Len(mapped)
      BY <1>1, <1>2, <1>8, <3>1 DEF LoaderPlaces
    <3>2. CASE i = Len(mapped) + 1
      <4>1. mapped'[i].name = l /\ mapped'[i].base = base /\ mapped'[i].top = top
        BY <1>8, <3>2
      <4>2. top = base + world.files[l].size /\ base = LIB_LOAD_ADDR
        BY DEF top, obj, base
      <4> QED BY <1>1, <1>5, <4>1, <4>2
    <3> QED BY <1>8, <3>1, <3>2
  <2> QED BY <1>1, <2>1 DEF LoaderPlaces
<1>14. ~Finished /\ ~Finished' /\ ~Loaded' /\ phase' = "load"
  BY <1>1 DEF Finished, Loaded
<1>15. ASSUME WithinTables
       PROVE  /\ Len(mapped) = 0 /\ MappedNames = {} /\ l \in Reachable /\ relocated = << >>
              /\ Len(todo) = 1 /\ Members(todo) \subseteq Members(world.cart.needed)
  <2>1. SingleMet
    BY <1>1, <1>2, <1>15 DEF LoaderNeeds
  <2>2. Len(todo) \in Nat \ {0} /\ Len(mapped) + Len(todo) = 1
    BY <1>1, <1>3, <2>1 DEF SingleMet
  <2>3. Len(mapped) = 0 /\ Len(todo) = 1
    <3> DEFINE p == Len(mapped)
               q == Len(todo)
    <3>1. p \in Nat /\ q \in Nat \ {0} /\ p + q = 1
      BY <1>8, <2>2
    <3> HIDE DEF p, q
    <3>2. p = 0 /\ q = 1
      BY <3>1
    <3> QED BY <3>2 DEF p, q
  <2>4. MappedNames = {} /\ relocated = << >>
    BY <2>1, <2>3 DEF MappedNames, SingleMet
  <2>5. Members(todo) \subseteq Members(world.cart.needed)
    BY <2>1 DEF SingleMet
  <2>6. l \in Reachable
    BY <1>3, <1>9, <2>5, ReachableIsLeast
  <2> QED BY <2>3, <2>4, <2>5, <2>6
<1>16. LoaderNeeds'
  <2> SUFFICES ASSUME WithinTables PROVE SingleMet'
    BY <1>1, <1>7, <1>14 DEF LoaderNeeds
  <2>1. Len(mapped') = 1 /\ Len(todo') = 0 /\ mapped'[1].base = base
    <3>1. Len(mapped) = 0 /\ Len(todo) = 1 /\ Len(mapped) + 1 = 1
      BY <1>15
    <3>2. mapped'[Len(mapped) + 1].base = base /\ Len(mapped') = Len(mapped) + 1
      BY <1>8
    <3>3. Len(todo') = Len(todo) - 1
      BY <1>9
    <3> QED BY <3>1, <3>2, <3>3
  <2>2. MappedNames' \cup Members(todo') \subseteq Members(world'.cart.needed)
    BY <1>1, <1>8, <1>9, <1>15
  <2>3. relocated' = [i \in 1 .. Len(mapped') |-> mapped'[i].base]
    <3>1. relocated' = << base >>
      BY <1>1, <1>15
    <3>2. << base >> = [i \in 1 .. 1 |-> base]
      OBVIOUS
    <3>3. \A i \in 1 .. Len(mapped') : mapped'[i].base = base
      BY <2>1
    <3> QED BY <2>1, <3>1, <3>2, <3>3
  <2> QED BY <2>1, <2>2, <2>3 DEF SingleMet
<1>17. ASSUME WithinTables
       PROVE  /\ TableNames(syms') \subseteq ExportedNames
              /\ Len(syms') <= Cardinality(TableNames(syms'))
              /\ \A n : sym_find(syms', n) = DefinitionIn(mapped', n)
              /\ Rising(mapped')
  <2>1. /\ TableNames(syms) \subseteq ExportedNames
        /\ Len(syms) <= Cardinality(TableNames(syms))
        /\ \A n : sym_find(syms, n) = DefinitionIn(mapped, n)
    BY <1>1, <1>2, <1>3, <1>17 DEF LoaderSymbols, Definition
  <2>2. Rising(mapped) /\ \A n : Definers(mapped, n) = {}
    BY <1>15, <1>17 DEF Rising, Definers
  <2>3. \A n : DefinitionIn(mapped, n) = 0
    BY <1>1, <1>3, <1>8, <2>2, DefinitionIs
  <2>4. TableNames(syms) = {}
    <3> SUFFICES ASSUME NEW n \in TableNames(syms) PROVE FALSE
      OBVIOUS
    <3>1. PICK i \in 1 .. Len(syms) : sym_find(syms, n) = syms[i].addr
      BY <1>3, FindFirst
    <3> DEFINE E == [name : STRING, addr : Nat \ {0}]
    <3>2. syms[i] \in E
      <4>1. syms \in Seq(E)
        BY <1>3 DEF SymbolTable
      <4> HIDE DEF E
      <4> QED BY <3>1, <4>1
    <3> QED BY <2>1, <2>3, <3>1, <3>2
  <2>5. /\ NewNames(<< >>, obj) \subseteq ExportedNames
        /\ \A n : n \in NewNames(<< >>, obj) <=> Defines(obj, n)
    BY <1>1, <1>3, <1>15, <1>17, ExportsFinite, ExportsAreDefinitions DEF obj
  <2>6. /\ TableNames(syms') \subseteq ExportedNames
        /\ Len(syms') <= Cardinality(TableNames(syms'))
        /\ \A n : sym_find(syms', n) = IF sym_find(syms, n) # 0 THEN sym_find(syms, n)
                                       ELSE IF n \in NewNames(<< >>, obj)
                                            THEN base + obj.syms[n].value ELSE 0
    <3>1. /\ syms' \in AddExports(syms, obj, base) /\ base \in Nat
          /\ Listed(obj) /\ NewNames(<< >>, obj) \subseteq ExportedNames
          /\ world \in Worlds /\ syms \in SymbolTable
      BY <1>1, <1>3, <1>4, <1>5, <2>5
    <3>2. loader = "i" \/ TableNames(syms) = {}
      BY <2>4
    <3> QED BY <1>17, <2>1, <3>1, <3>2, SymbolsGrow
  <2>7. ASSUME NEW n PROVE sym_find(syms', n) = DefinitionIn(mapped', n) /\ Rising(mapped')
    <3>1. \A i \in 1 .. Len(mapped) : mapped[i].base < base
      BY <1>15, <1>17
    <3>2. /\ world \in Worlds /\ mapped \in Mappings /\ l \in DOMAIN world.files /\ base \in Nat
          /\ top \in Nat /\ mapped' = Append(mapped, [name |-> l, base |-> base, top |-> top])
      BY <1>1, <1>3, <1>5, <1>8
    <3>3. LET ns == Append(mapped, [name |-> l, base |-> base, top |-> top])
          IN  /\ Rising(ns)
              /\ DefinitionIn(ns, n) =
                   IF DefinitionIn(mapped, n) # 0 THEN DefinitionIn(mapped, n)
                   ELSE IF Defines(world.files[l], n) THEN base + world.files[l].syms[n].value ELSE 0
      BY <2>2, <3>1, <3>2, DefinitionGrows
    <3> QED BY <2>1, <2>5, <2>6, <3>2, <3>3 DEF obj
  <2> QED BY <2>6, <2>7
<1>18. LoaderSymbols'
  BY <1>7, <1>17 DEF LoaderSymbols
<1>19. LoaderMemory'
  <2> SUFFICES ASSUME WithinTables
               PROVE  /\ \A a \in 0 .. (world.cart.size - 1) : mem'[a] = Raw
                      /\ \A i \in 1 .. Len(mapped') :
                           mapped'[i].top <= MEM_SIZE => LibrarySlotsHold(i)'
    BY <1>1, <1>7, <1>14 DEF LoaderMemory
  <2>1. \A a \in 0 .. (world.cart.size - 1) : mem[a] = Raw
    BY <1>1, <1>2 DEF LoaderMemory
  <2>2. ASSUME NEW a \in 0 .. (world.cart.size - 1) PROVE mem'[a] = Raw
    <3>1. a \in DOMAIN m /\ m[a] = Raw /\ a # -1
      BY <1>3, <1>6, <2>1
    <3>2. a \notin Words(world.files[l], base)
      <4>1. world.files[l].size \in Nat
        BY <1>4 DEF obj
      <4> QED BY <1>4, <1>5, <4>1 DEF Words
    <3>3. apply_lib_rela(syms', world.files[l], base, m)[a] = m[a]
      BY <1>20, <3>1, <3>2
    <3> QED BY <1>1, <3>1, <3>3 DEF obj
  <2>3. ASSUME NEW i \in 1 .. Len(mapped'), mapped'[i].top <= MEM_SIZE PROVE LibrarySlotsHold(i)'
    <3>1. i = Len(mapped) + 1
      BY <1>8, <1>15
    <3>2. mapped'[i].name = l /\ mapped'[i].base = base /\ mapped'[i].top = top
      BY <1>8, <3>1
    <3>3. /\ mapped'[i].top = mapped'[i].base + world.files[mapped'[i].name].size
          /\ mem' = apply_lib_rela(syms', world.files[mapped'[i].name], mapped'[i].base, m)
      BY <1>1, <3>2 DEF top, obj
    <3>4. UNCHANGED <<loader, world>> /\ loader \in {"i", "c"} /\ world \in Worlds
      BY <1>1, <1>3
    <3>5. mapped' \in Mappings /\ Rising(mapped') /\ \A n : sym_find(syms', n) = DefinitionIn(mapped', n)
      BY <1>8, <1>17
    <3> QED BY <1>6, <2>3, <3>3, <3>4, <3>5, SlotsFilled
  <2> QED BY <2>2, <2>3
<1> QED BY <1>12, <1>13, <1>16, <1>18, <1>19 DEF LoaderInv

\* Every step keeps the invariant.
LEMMA NextLoader == LoaderInv /\ [LoaderNext]_loaderVars => LoaderInv'
<1> SUFFICES ASSUME LoaderInv, [LoaderNext]_loaderVars PROVE LoaderInv'
  OBVIOUS
<1>1. CASE Static
  BY <1>1, StaticKeeps
<1>2. CASE Begin
  BY <1>2, BeginKeeps
<1>3. CASE AlreadyLoaded
  BY <1>3, AlreadyLoadedKeeps
<1>4. CASE CannotLoad
  BY <1>4, CannotLoadKeeps
<1>5. CASE load_lib
  BY <1>5, LoadLibKeeps
<1>6. CASE load_single
  BY <1>6, LoadSingleKeeps
<1>7. CASE AllLoaded
  BY <1>7, AllLoadedKeeps
<1>8. CASE relocate_libs
  BY <1>8, RelocateKeeps
<1>9. CASE CartPlt
  BY <1>9, CartPltKeeps
<1>10. CASE CartRela
  BY <1>10, CartRelaKeeps
<1>11. CASE UNCHANGED loaderVars
  <2>1. /\ UNCHANGED <<loader, world, phase, todo, registry, next_base>>
        /\ UNCHANGED <<syms, mem, next_rela, ok, mapped, relocated>>
    BY <1>11 DEF loaderVars
  <2>2. /\ (WithinTables' <=> WithinTables) /\ Reachable' = Reachable /\ ExportedNames' = ExportedNames
        /\ MappedNames' = MappedNames /\ (CartSlotsHold' <=> CartSlotsHold)
        /\ \A i : LibrarySlotsHold(i)' <=> LibrarySlotsHold(i)
        /\ \A n : Definition(n)' = Definition(n)
    BY <2>1, WorldIsFixed, SlotsKept
  <2>3. (Finished' <=> Finished) /\ (Loaded' <=> Loaded)
    BY <2>1 DEF Finished, Loaded
  <2>4. LoaderShape' /\ LoaderPlaces'
    BY <2>1 DEF LoaderInv, LoaderShape, LoaderPlaces
  <2>5. LoaderNeeds'
    BY <2>1, <2>2, <2>3 DEF LoaderInv, LoaderNeeds, NeedsMet, SingleMet
  <2>6. LoaderSymbols'
    BY <2>1, <2>2 DEF LoaderInv, LoaderSymbols
  <2>7. LoaderMemory'
    BY <2>1, <2>2, <2>3 DEF LoaderInv, LoaderMemory
  <2> QED BY <2>4, <2>5, <2>6, <2>7 DEF LoaderInv
<1> QED BY <1>1, <1>2, <1>3, <1>4, <1>5, <1>6, <1>7, <1>8, <1>9, <1>10, <1>11 DEF LoaderNext

\* When loading is over, what is mapped is what the cart needs.
LEMMA AllMapped ==
  ASSUME LoaderInv, Finished, WithinTables
  PROVE  /\ MappedNames = Reachable /\ Len(mapped) = Cardinality(Reachable)
         /\ relocated = [i \in 1 .. Len(mapped) |-> mapped[i].base]
<1>1. LoaderShape /\ LoaderNeeds
  BY DEF LoaderInv
<1>2. /\ loader \in {"i", "c"} /\ world \in Worlds /\ world.cart.dynamic /\ phase = "done" /\ todo = << >>
      /\ Len(mapped) \in Nat /\ Members(todo) = {}
  <2>1. loader \in {"i", "c"} /\ world \in Worlds /\ Len(mapped) \in Nat
    BY <1>1 DEF LoaderShape
  <2>2. world.cart.dynamic /\ phase = "done"
    BY DEF Finished
  <2>3. todo = << >>
    BY <1>1 DEF LoaderNeeds, Loaded
  <2>4. Members(todo) = {}
    BY <2>3 DEF Members
  <2> QED BY <2>1, <2>2, <2>3, <2>4
<1>3. /\ Reachable \subseteq Libs /\ IsFiniteSet(Reachable) /\ Cardinality(Reachable) \in Nat
      /\ Members(world.cart.needed) \subseteq Reachable
      /\ \A S \in SUBSET Libs :
              (Members(world.cart.needed) \subseteq S /\ Closed(S)) => Reachable \subseteq S
  BY <1>2, ReachableIsLeast
<1>4. CASE loader = "i"
  <2>1. NeedsMet
    BY <1>1, <1>4 DEF LoaderNeeds
  <2>2. /\ MappedNames \subseteq Reachable /\ Members(world.cart.needed) \subseteq MappedNames
        /\ \A l \in MappedNames : Members(world.files[l].needed) \subseteq MappedNames
        /\ \A i, j \in 1 .. Len(mapped) : mapped[i].name = mapped[j].name => i = j
        /\ next_rela = Len(mapped) + 1
        /\ relocated = [i \in 1 .. (next_rela - 1) |-> mapped[i].base]
    BY <1>2, <2>1 DEF NeedsMet
  <2>3. Reachable \subseteq MappedNames
    <3>1. Closed(MappedNames)
      BY <2>2 DEF Closed
    <3> QED BY <1>3, <2>2, <3>1
  <2>4. Cardinality(MappedNames) = Len(mapped)
    <3> DEFINE f == [i \in 1 .. Len(mapped) |-> mapped[i].name]
               p == Len(mapped)
    <3>1. f \in Surjection(1 .. Len(mapped), MappedNames)
      BY DEF MappedNames, Surjection
    <3>2. f \in Injection(1 .. Len(mapped), MappedNames)
      BY <2>2 DEF MappedNames, Injection, IsInjective
    <3>3. p \in Nat
      BY <1>2
    <3> HIDE DEF f, p
    <3>4. IsFiniteSet(1 .. p) /\ Cardinality(1 .. p) = p
      BY <3>3, FS_Interval
    <3>5. IsFiniteSet(1 .. Len(mapped)) /\ Cardinality(1 .. Len(mapped)) = Len(mapped)
      BY <3>4 DEF p
    <3> QED BY <3>1, <3>2, <3>5, FS_Surjection
  <2>5. next_rela - 1 = Len(mapped)
    BY <1>2, <2>2
  <2> QED BY <2>2, <2>3, <2>4, <2>5
<1>5. CASE loader = "c"
  <2>1. SingleMet /\ Cardinality(Reachable) = 1
    BY <1>1, <1>5 DEF LoaderNeeds, WithinTables
  <2>2. Len(mapped) = 1
    <3> DEFINE p == Len(mapped)
    <3>1. p \in Nat /\ p + Len(todo) = 1
      BY <1>2, <2>1 DEF SingleMet
    <3>2. Len(todo) = 0
      BY <1>2
    <3> HIDE DEF p
    <3>3. p = 1
      BY <3>1, <3>2
    <3> QED BY <3>3 DEF p
  <2>3. MappedNames = {mapped[1].name}
    BY <2>2 DEF MappedNames
  <2>4. MappedNames \subseteq Reachable
    BY <1>2, <1>3, <2>1 DEF SingleMet
  <2>5. Cardinality(MappedNames) = 1
    BY <2>3, FS_Singleton
  <2>6. MappedNames = Reachable
    BY <1>3, <2>1, <2>4, <2>5, FS_Subset
  <2>7. relocated = [i \in 1 .. Len(mapped) |-> mapped[i].base]
    BY <2>1 DEF SingleMet
  <2> QED BY <2>1, <2>2, <2>6, <2>7
<1> QED BY <1>2, <1>4, <1>5

\* What the invariant says when the loader returns.
LEMMA LoaderInvIsSound ==
  ASSUME LoaderInv PROVE LoaderSound
<1>1. LoaderShape /\ LoaderPlaces /\ LoaderNeeds /\ LoaderMemory
  BY DEF LoaderInv
<1>2. loader \in {"i", "c"} /\ world \in Worlds /\ Len(mapped) \in Nat
  BY <1>1 DEF LoaderShape
<1>3. LoaderTypeOK
  BY <1>1 DEF LoaderShape, LoaderTypeOK
<1>4. SlotsHoldTheDefinition
  <2> SUFFICES ASSUME Finished, WithinTables, \A i \in 1 .. Len(mapped) : mapped[i].top <= MEM_SIZE
               PROVE  CartSlotsHold /\ \A i \in 1 .. Len(mapped) : LibrarySlotsHold(i)
    BY DEF SlotsHoldTheDefinition, WithinDesign
  <2>1. CartSlotsHold
    BY <1>1 DEF LoaderMemory
  <2>2. ASSUME NEW i \in 1 .. Len(mapped) PROVE LibrarySlotsHold(i)
    <3>1. loader = "i" => next_rela = Len(mapped) + 1
      BY <1>1 DEF LoaderNeeds, NeedsMet
    <3>2. loader = "i" => i < next_rela
      BY <1>2, <3>1
    <3> QED BY <1>1, <3>2 DEF LoaderMemory
  <2> QED BY <2>1, <2>2
<1>5. LibrariesDoNotOverlap
  <2> SUFFICES ASSUME WithinTables
               PROVE  /\ \A i, j \in 1 .. Len(mapped) :
                           i # j => \/ mapped[i].top <= mapped[j].base
                                    \/ mapped[j].top <= mapped[i].base
                      /\ \A i \in 1 .. Len(mapped) : mapped[i].base >= world.cart.size
    BY DEF LibrariesDoNotOverlap, WithinDesign
  <2>1. ASSUME NEW i \in 1 .. Len(mapped) PROVE mapped[i].base >= world.cart.size
    <3> DEFINE E == [name : DOMAIN world.files, base : Nat, top : Nat]
    <3>1. mapped \in Seq(E)
      BY <1>1 DEF LoaderShape
    <3>2. mapped[i] \in E
      <4> HIDE DEF E
      <4> QED BY <3>1
    <3>3. mapped[i].base \in Nat /\ LIB_LOAD_ADDR <= mapped[i].base /\ LIB_LOAD_ADDR \in Nat
      BY <1>1, <3>2, LoaderAssumption DEF LoaderPlaces
    <3>4. world.cart.size \in Nat /\ world.cart.size <= LIB_LOAD_ADDR
      BY <1>2, Files
    <3> QED BY <3>3, <3>4
  <2>2. ASSUME NEW i \in 1 .. Len(mapped), NEW j \in 1 .. Len(mapped), i # j
        PROVE  mapped[i].top <= mapped[j].base \/ mapped[j].top <= mapped[i].base
    <3>1. CASE loader = "i"
      <4>1. i < j \/ j < i
        BY <2>2
      <4> QED BY <1>1, <3>1, <4>1 DEF LoaderPlaces
    <3>2. CASE loader = "c"
      <4>1. mapped # << >>
        BY <2>2
      <4>2. phase # "start" /\ world.cart.dynamic
        BY <1>1, <4>1 DEF LoaderShape
      <4>3. Len(mapped) + Len(todo) = 1 /\ Len(todo) \in Nat
        BY <1>1, <3>2, <4>2 DEF LoaderNeeds, SingleMet, LoaderShape
      <4> DEFINE p == Len(mapped)
      <4>4. p \in Nat /\ p + Len(todo) = 1 /\ i \in 1 .. p /\ j \in 1 .. p
        BY <1>2, <4>3
      <4> HIDE DEF p
      <4>5. i = j
        BY <4>3, <4>4
      <4> QED BY <2>2, <4>5
    <3> QED BY <1>2, <3>1, <3>2
  <2> QED BY <2>1, <2>2
<1>6. EachLibraryOnce
  <2> SUFFICES ASSUME Finished, WithinTables
               PROVE  /\ MappedNames = Reachable /\ Len(mapped) = Cardinality(Reachable)
                      /\ relocated = [i \in 1 .. Len(mapped) |-> mapped[i].base]
    BY DEF EachLibraryOnce, WithinDesign, MappedNames
  <2> QED BY AllMapped
<1> QED BY <1>3, <1>4, <1>5, <1>6 DEF LoaderSound

\* Every slot holds the one definition of its name, the libraries share no
\* memory, and each is mapped and relocated once, however they need each other.
THEOREM LoaderIsSound == LoaderSpec => []LoaderSound
BY LoaderInvIsSound, InitLoader, NextLoader, PTL DEF LoaderSpec

------------------------------------------------------------------------------
(* The console on what the loader leaves (LoadedConsole).                   *)

\* The console runs where the loader has come to its end; once the hook had its
\* turn, the script's modules are what the hook's word says.
HookInv ==
  host = "rv32" =>
    /\ at # "boot" => CanRun
    /\ (at \notin {"boot", "hybrid", "modules"} /\ s_L) => (("mylib" \in preload) <=> Hook)

\* The invariant of loader and console together.
BindingInv == LoaderInv /\ ConsoleInv /\ HookInv

\* The host never changes.
LEMMA HostIsFixed ==
  ASSUME NEW hook \in BOOLEAN, ConsoleNext(hook)
  PROVE  host' = host
<1>1. /\ \A made : ensure_state(made) => host' = host
      /\ blyt_hybrid_init \/ CallModulesHook(hook) \/ LoadChunk \/ EnterScript \/ ScriptEnds => host' = host
      /\ \A m : l_require(m) => host' = host
  BY DEF ensure_state, blyt_hybrid_init, CallModulesHook, LoadChunk, EnterScript, ScriptEnds, l_require
<1>2. \A m, n, args : GuestLuaCall(m, n, args) \/ trampoline_call(m, n, args) => host' = host
  BY DEF GuestLuaCall, trampoline_call
<1>3. /\ GuestReturns \/ GuestExits \/ CallReturns => host' = host
      /\ HarnessStart \/ HarnessCall => host' = host
  BY DEF GuestReturns, GuestExits, CallReturns, HarnessStart, HarnessCall
<1> QED BY <1>1, <1>2, <1>3 DEF ConsoleNext

\* What the word libconsolelua tests says: whether the cart defines the hook.
LEMMA HookMeans ==
  ASSUME LoaderInv, CanRun, WithinDesign, host = "rv32"
  PROVE  Hook <=> Defines(world.cart, HookName)
<1> DEFINE obj == world.files[ConsoleLib]
           i == ConsoleAt
           k == CHOOSE j \in HookEntries(obj) : TRUE
           r == obj.relas[k]
<1>1. loader = "i" /\ world \in Worlds /\ mapped \in Mappings /\ Len(mapped) \in Nat
  BY DEF LoaderInv, LoaderShape, CanRun, Mappings
<1>2. i \in 1 .. Len(mapped) /\ mapped[i].name = ConsoleLib
  BY DEF CanRun, ConsoleAt
<1>3. /\ ConsoleLib \in DOMAIN world.files /\ HookEntries(obj) # {} /\ HookName # ""
      /\ \A l \in DOMAIN world.files :
           HookName \in DOMAIN world.files[l].syms =>
             world.files[l].syms[HookName].und /\ world.files[l].syms[HookName].bind # "local"
  BY <1>1, ConsoleWorldAssumption DEF CanRun
<1>4. /\ k \in 1 .. Len(obj.relas) /\ r.type \in {"GLOB_DAT", "32"}
      /\ r.sym = HookName /\ r.add = 0
  <2>1. k \in HookEntries(obj)
    BY <1>3
  <2> QED BY <2>1 DEF HookEntries
<1>5. HookName \in DOMAIN obj.syms /\ obj.syms[HookName].bind # "local"
  <2>1. HookName \in DOMAIN obj.syms
    BY <1>1, <1>3, <1>4, LibraryRelocations
  <2> QED BY <1>3, <2>1
<1>6. mem[mapped[i].base + r.off] = Definition(HookName) + 0
  <2>1. LoaderSound
    BY LoaderInvIsSound
  <2>2. LibrarySlotsHold(i)
    BY <1>2, <2>1 DEF LoaderSound, SlotsHoldTheDefinition, CanRun
  <2>3. world.files[mapped[i].name] = obj
    BY <1>2
  <2>4. SymbolWord(r) /\ StandsFor(r, Definition(HookName)) = Definition(HookName) + 0
    BY <1>3, <1>4 DEF SymbolWord, StandsFor
  <2> HIDE DEF obj, i, k, r
  <2>5. /\ (SymbolWord(obj.relas[k]) /\ obj.syms[obj.relas[k].sym].bind # "local"
            /\ (loader = "i" \/ Definition(obj.relas[k].sym) # 0)) =>
               mem[mapped[i].base + obj.relas[k].off] = StandsFor(obj.relas[k], Definition(obj.relas[k].sym))
    BY <1>4, <2>2, <2>3 DEF LibrarySlotsHold
  <2> QED BY <1>1, <1>4, <1>5, <2>4, <2>5 DEF r
<1>7. Rising(mapped)
  BY <1>1, BasesRise DEF LoaderInv
<1>8. Definition(HookName) \in Nat /\ (Definition(HookName) # 0 <=> Defines(world.cart, HookName))
  <2>1. CASE Defines(world.cart, HookName)
    <3>1. DefinitionIn(mapped, HookName) \in Nat \ {0}
      BY <1>1, <1>7, <2>1, DefinitionIs
    <3> QED BY <2>1, <3>1 DEF Definition
  <2>2. CASE ~Defines(world.cart, HookName)
    <3>1. Definers(mapped, HookName) = {}
      <4> SUFFICES ASSUME NEW j \in 1 .. Len(mapped), Defines(world.files[mapped[j].name], HookName)
                   PROVE  FALSE
        BY DEF Definers
      <4> DEFINE E == [name : DOMAIN world.files, base : Nat, top : Nat]
      <4>1. mapped[j] \in E
        <5>1. mapped \in Seq(E)
          BY <1>1 DEF Mappings
        <5> HIDE DEF E
        <5> QED BY <5>1
      <4>2. mapped[j].name \in DOMAIN world.files
        BY <4>1
      <4> QED BY <1>3, <4>2 DEF Defines
    <3>2. DefinitionIn(mapped, HookName) = 0
      BY <1>1, <1>7, <2>2, <3>1, DefinitionIs
    <3> QED BY <2>2, <3>2 DEF Definition
  <2> QED BY <2>1, <2>2
<1>9. HookWord = mapped[i].base + r.off
  BY DEF HookWord
<1> HIDE DEF i, r
<1> QED BY <1>6, <1>8, <1>9 DEF Hook

\* What a step of the console in the emulator does to the script's modules.
LEMMA ModulesSteps ==
  ASSUME ConsoleInv, host = "rv32", NEW hook \in BOOLEAN, ConsoleNext(hook)
  PROVE  /\ host' = host
         /\ \/ at = "boot" /\ (s_L' = FALSE \/ at' = "modules")
            \/ at = "modules" /\ preload' = IF hook THEN {"mylib"} ELSE {}
            \/ at \notin {"boot", "hybrid", "modules"} /\ UNCHANGED <<preload, s_L>>
<1>1. /\ at = "hybrid" => host = "wasm"
      /\ running => at \notin {"boot", "hybrid", "modules"}
      /\ ~call.on /\ at \notin {"add32", "addf"}
  <2>1. ~call.on
    BY DEF ConsoleInv, CallInProgress, CallIsNamed
  <2> QED BY <2>1 DEF ConsoleInv, ConsoleShape, Scripts
<1>2. CASE \E made \in BOOLEAN : ensure_state(made)
  BY <1>2 DEF ensure_state
<1>3. CASE CallModulesHook(hook)
  BY <1>3 DEF CallModulesHook
<1>4. CASE LoadChunk \/ EnterScript \/ ScriptEnds \/ \E m \in {"mylib", "other"} : l_require(m)
  BY <1>1, <1>4 DEF LoadChunk, EnterScript, ScriptEnds, l_require, luaVars
<1>5. ASSUME NEW m \in DOMAIN loaded, NEW args \in CallArgs, NEW n \in DOMAIN loaded[m],
             GuestLuaCall(m, n, args)
      PROVE  host' = host /\ at \notin {"boot", "hybrid", "modules"} /\ UNCHANGED <<preload, s_L>>
  BY <1>1, <1>5 DEF GuestLuaCall, luaVars
<1>6. ~blyt_hybrid_init
  BY <1>1 DEF blyt_hybrid_init
<1>7. ~GuestReturns /\ ~GuestExits /\ ~CallReturns
  BY <1>1 DEF GuestReturns, GuestExits, CallReturns
<1>8. ~HarnessStart /\ ~HarnessCall /\ \A m, n, args : ~trampoline_call(m, n, args)
  BY <1>1 DEF HarnessStart, HarnessCall, trampoline_call
<1> QED BY <1>2, <1>3, <1>4, <1>5, <1>6, <1>7, <1>8 DEF ConsoleNext

\* One step of the whole keeps its invariant.
LEMMA NextBinding ==
  BindingInv /\ [BindingNext]_<<loaderVars, consoleVars>> => BindingInv'
<1> SUFFICES ASSUME BindingInv, [BindingNext]_<<loaderVars, consoleVars>> PROVE BindingInv'
  OBVIOUS
<1> USE DEF BindingInv
<1>1. ASSUME UNCHANGED loaderVars PROVE (CanRun' <=> CanRun) /\ (host' = host => (Hook' <=> Hook))
  <2>1. UNCHANGED <<loader, world, phase, ok, mapped, mem>>
    BY <1>1 DEF loaderVars
  <2> QED BY <2>1 DEF CanRun, Finished, Hook, HookWord, ConsoleAt
<1>2. CASE LoaderStep
  <2>1. LoaderInv' /\ ConsoleInv'
    BY <1>2, NextLoader, NextConsole DEF LoaderStep
  <2>2. at = "boot"
    <3>1. CASE phase = "done"
      BY <1>2, <3>1 DEF LoaderStep, LoaderNext, Static, Begin, AlreadyLoaded, CannotLoad,
                        load_lib, load_single, AllLoaded, relocate_libs, CartPlt, CartRela
    <3>2. CASE phase # "done"
      BY <1>2, <3>2 DEF LoaderStep, HookInv, CanRun, Finished
    <3> QED BY <3>1, <3>2
  <2>3. HookInv'
    BY <1>2, <2>2 DEF LoaderStep, HookInv, consoleVars
  <2> QED BY <2>1, <2>3
<1>3. CASE ConsoleStep
  <2>1. Hook \in BOOLEAN
    BY DEF Hook
  <2>2. LoaderInv' /\ ConsoleInv'
    BY <1>3, <2>1, NextLoader, NextConsole DEF ConsoleStep
  <2>3. HookInv'
    <3>1. CASE host = "rv32"
      <4>1. CanRun' /\ UNCHANGED host /\ (Hook' <=> Hook)
        BY <1>1, <1>3, <2>1, <3>1, ModulesSteps DEF ConsoleStep
      <4>2. \/ at = "boot" /\ (s_L' = FALSE \/ at' = "modules")
            \/ at = "modules" /\ preload' = IF Hook THEN {"mylib"} ELSE {}
            \/ at \notin {"boot", "hybrid", "modules"} /\ UNCHANGED <<preload, s_L>>
        BY <1>3, <2>1, <3>1, ModulesSteps DEF ConsoleStep
      <4> QED BY <3>1, <4>1, <4>2 DEF HookInv
    <3>2. CASE host # "rv32"
      <4>1. host' = host
        BY <1>3, <2>1, HostIsFixed DEF ConsoleStep
      <4> QED BY <3>2, <4>1 DEF HookInv
    <3> QED BY <3>1, <3>2
  <2> QED BY <2>2, <2>3
<1>4. CASE UNCHANGED <<loaderVars, consoleVars>>
  <2>1. LoaderInv' /\ ConsoleInv'
    BY <1>4, NextLoader, NextConsole
  <2>2. UNCHANGED <<host, at, s_L, preload>>
    BY <1>4 DEF consoleVars
  <2>3. HookInv'
    BY <1>1, <1>4, <2>2 DEF HookInv
  <2> QED BY <2>1, <2>3
<1> QED BY <1>2, <1>3, <1>4 DEF BindingNext

\* The module a script asks for is there exactly when its cart brings it: the
\* loader's work and the console's, put together.
THEOREM ModulesFollowTheCart == BindingSpec => []HookFollowsTheCart
<1>1. BindingInit => BindingInv
  <2> SUFFICES ASSUME BindingInit PROVE BindingInv
    OBVIOUS
  <2>1. LoaderInv /\ ConsoleInv
    BY InitLoader, InitConsole DEF BindingInit
  <2>2. HookInv
    BY DEF BindingInit, ConsoleInit, HookInv
  <2> QED BY <2>1, <2>2 DEF BindingInv
<1>2. BindingInv => HookFollowsTheCart
  <2> SUFFICES ASSUME BindingInv, host = "rv32", at \notin {"boot", "hybrid", "modules"}, s_L,
                      WithinDesign
               PROVE  ("mylib" \in preload) <=> Defines(world.cart, HookName)
    BY DEF HookFollowsTheCart
  <2>1. LoaderInv /\ CanRun /\ (("mylib" \in preload) <=> Hook)
    BY DEF BindingInv, HookInv
  <2> QED BY <2>1, HookMeans
<1> QED BY <1>1, <1>2, NextBinding, PTL DEF BindingSpec

=============================================================================
