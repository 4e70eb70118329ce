------------------------------ MODULE DetCarts ------------------------------
(***************************************************************************)
(* The deterministic carts of spikes/spike-k as functions of a process of  *)
(* theirs: what main() does before its frame loop, one iteration of the    *)
(* loop of every program (ports/rv32emu: full, save and load of each       *)
(* cart), and the tracked regions the state is kept in.  The cart "direct" *)
(* is one of spike-d's Lua workloads, which is never saved: spike-d runs   *)
(* it on rv32emu, spike-f on WASM, and the digests must agree.             *)
(*                                                                         *)
(* Floats are symbolic.  An f32 is [nan, terms]: a NaN with the payload    *)
(* that host's FPU minted (or "canon", the one pattern nan_canon.h writes) *)
(* or, when nan is "no", the sequence of terms it was accumulated from.    *)
(* Two sums are equal only when the same terms were added in the same      *)
(* order, so nothing that differs in the code is equal here.               *)
(***************************************************************************)
EXTENDS VoiceQueue

CONSTANTS ShakeTrigger,   \* SHAKE_TRIGGER_FRAME
          ShakeFrames     \* SHAKE_FRAMES

ASSUME ShakeAssumption == ShakeTrigger \in Nat /\ ShakeFrames \in Nat

Carts == {"audio", "shake", "cutscene", "lua", "whetstone", "direct"}

F32(x) == [nan |-> "no", terms |-> <<x>>]
Zero32 == [nan |-> "no", terms |-> <<>>]
NaN32(host) == [nan |-> host, terms |-> <<>>]

\* f32 addition on a host: a NaN operand gives that host's NaN.
Add32(host, a, b) == IF a.nan = "no" /\ b.nan = "no"
                     THEN [nan |-> "no", terms |-> a.terms \o b.terms]
                     ELSE NaN32(host)

\* canonicalize_nanf
Canon32(a) == IF a.nan = "no" THEN a ELSE NaN32("canon")

------------------------------------------------------------------------------
(* The regions.                                                            *)

\* frame_state_t: the four accumulators are one, `acc`; mobs stand for what
\* module_5 writes there.
FreshFrameState == [frame |-> 0, rng |-> 0, acc |-> Zero32, mobs |-> Zero32]
CanonFS(fs) == [fs EXCEPT !.acc = Canon32(@), !.mobs = Canon32(@)]

FreshShake == [remaining |-> 0, decays |-> 0, seed |-> "none"]

\* blyt_screen_shake: the intensity is the trigger's, decayed `decays` times.
Shaken == [remaining |-> ShakeFrames, decays |-> 0, seed |-> "trigger"]

\* screen_shake_tick: the offsets (dx, dy) and the region afterwards.
ShakeOffset(s, f) == IF s.remaining <= 0 THEN F32(<<"still">>)
                     ELSE F32(<<"offset", f, s.seed, s.decays>>)
ShakeTicked(s) == IF s.remaining <= 0 THEN s
                  ELSE [s EXCEPT !.remaining = @ - 1, !.decays = @ + 1]

FreshBlob == [active |-> FALSE, step |-> 0]

\* coroutine_blob_activate, then coroutine_blob_write of the initial struct.
ActiveBlob == [active |-> TRUE, step |-> 0]

\* coroutine_blob_read: an inactive slot leaves the caller's struct as the
\* stack of that process happens to hold it.
BlobRead(b, stack) == IF b.active THEN b.step ELSE stack

\* The statics a process of the cart starts with (BSS and initialisers).
FreshMem ==
  [fs |-> FreshFrameState, q |-> EmptyQueue, shake |-> FreshShake,
   blob |-> FreshBlob, cs |-> Zero32]

\* The cart's runtime_tracked_regions; for the direct cart, which registers
\* none, what its script keeps in Lua tables.
Regions(cart) ==
  {"fs"} \cup CASE cart = "audio"     -> {"q"}
                [] cart = "shake"     -> {"shake"}
                [] cart = "cutscene"  -> {"blob"}
                [] cart = "lua"       -> {"cs"}
                [] cart = "whetstone" -> {"cs"}
                [] cart = "direct"    -> {"cs"}

\* The save() callbacks: canonicalise in place.
CanonMem(mem) == [mem EXCEPT !.fs = CanonFS(@), !.cs = Canon32(@)]

\* The bytes of the tracked regions.
Tracked(cart, mem) == [r \in Regions(cart) |-> mem[r]]

SaveOutRaw(cart, mem) == Tracked(cart, mem)    \* mutant: NaNs as they are
\* What save_state_save puts after the header.
SaveOut(cart, mem) == Tracked(cart, CanonMem(mem))

LoadInFrameOnly(p, file) == [p EXCEPT !.mem.fs = file["fs"]]      \* mutant
\* save_state_load: every tracked region from its block.
LoadIn(p, file) ==
  [p EXCEPT !.mem = [r \in DOMAIN @ |->
                       IF r \in DOMAIN file THEN file[r] ELSE @[r]]]

\* frame_state_emit_digest canonicalises the live frame_state, then hashes
\* and prints it: `out` is what the process has just printed.
Digested(p) == [p EXCEPT !.mem.fs = CanonFS(@), !.out = <<CanonFS(p.mem.fs)>>]

------------------------------------------------------------------------------
(* The programs.  A process `p` has its host, its memory, the static rng,  *)
(* the loop variable `f` and what the iteration printed.  `env` is what    *)
(* the run is given: the cart, the frame each voice ends in, the frame at  *)
(* which the cart's arithmetic first yields a NaN, and each host's stack   *)
(* garbage.  XStart: main up to the loop, in the full and the save program *)
(* of cart X; XResume: in its load program; XFull, XSave and XLoad: one    *)
(* iteration of each program's loop.                                       *)

Process(d) == [host |-> d, mem |-> FreshMem, rng |-> 0, f |-> 0, out |-> <<>>]

ResumedAtSaved(p) == [p EXCEPT !.f = p.mem.fs.frame]    \* mutant
\* resume_frame = fs->frame + 1
Resumed(p) == [p EXCEPT !.f = p.mem.fs.frame + 1]

\* synthetic_mixer_report_end_of_frame over the drivers' two-event schedule.
MixerReports(q, ends, f) ==
  LET first == IF ends[1] = f THEN Recorded(q, f, 1) ELSE q
  IN  IF ends[2] = f THEN Recorded(first, f, 2) ELSE first

AudioStart(p) == [p EXCEPT !.mem.q = Started(Started(@, 1), 2)]
AudioResume(p, file) == Resumed(LoadIn(p, file))

\* apply_pending, accumulate, report, fs->frame = f
AudioUpdate(p, env) ==
  LET q1 == Applied(p.mem.q)
      term(h) == F32(<<h, Playing(q1, h)>>)
  IN  [p EXCEPT !.mem.fs.acc = Add32(p.host, Add32(p.host, @, term(1)), term(2)),
                !.mem.q = MixerReports(q1, env.ends, p.f),
                !.mem.fs.frame = p.f]

AudioFull(p, env) == Digested(AudioUpdate(p, env))
AudioSave(p, env) == AudioUpdate(p, env)
AudioLoad(p, env) == Digested(AudioUpdate(p, env))

ShakeResume(p, file) == Resumed(LoadIn(p, file))

Triggered(p) == IF p.f = ShakeTrigger THEN [p EXCEPT !.mem.shake = Shaken] ELSE p

\* screen_shake_tick, fold_offset_into_digest, fs->frame = f
ShakeStep(p) ==
  [p EXCEPT !.mem.shake = ShakeTicked(@),
            !.mem.fs.acc = Add32(p.host, @, ShakeOffset(p.mem.shake, p.f)),
            !.mem.fs.frame = p.f]

ShakeFull(p) == Digested(ShakeStep(Triggered(p)))
ShakeSave(p) == ShakeStep(Triggered(p))
ShakeLoad(p) == Digested(ShakeStep(p))      \* no trigger: it is in the buffer

CutsceneStart(p) == [p EXCEPT !.mem.blob = ActiveBlob]
CutsceneResume(p, file) == Resumed(LoadIn(p, file))

\* cutscene_step, fs->frame = f
CutsceneStep(p, env) ==
  LET n == BlobRead(p.mem.blob, env.stack[p.host]) + 1
  IN  [p EXCEPT !.mem.blob.step = n,
                !.mem.fs.acc = Add32(p.host, @, F32(<<n>>)),
                !.mem.fs.frame = p.f]

CutsceneFull(p, env) == Digested(CutsceneStep(p, env))
CutsceneSave(p, env) == CutsceneStep(p, env)
CutsceneLoad(p, env) == Digested(CutsceneStep(p, env))

\* A cart-state field after one more update.
StateUpdate(p, env) ==
  IF p.f = env.nanAt THEN NaN32(p.host) ELSE Add32(p.host, p.mem.cs, F32(<<p.f>>))

\* cart_det_init, then the script's init_entities.
LuaStart(p) == [p EXCEPT !.rng = 1, !.mem.cs = F32(<<"init">>)]

\* cart_det_resync_rng_from_fs; the script skips init_entities and starts
\* its loop at console.frame(), which the last commit_frame advanced.
LuaResume(p, file) ==
  LET p1 == LoadIn(p, file)
  IN  [p1 EXCEPT !.rng = p1.mem.fs.rng, !.f = p1.mem.fs.frame]

\* l_commit_frame: prints in every program, then frame++.
CommitFrame(p) ==
  LET p1 == Digested([p EXCEPT !.mem.fs.rng = p.rng])
  IN  [p1 EXCEPT !.mem.fs.frame = @ + 1]

\* The script's loop body: update_entities through set_entity and add_misc,
\* then commit_frame; the same script in the three programs.
LuaFrame(p, env) ==
  LET cs == StateUpdate(p, env)
  IN  CommitFrame([p EXCEPT !.mem.cs = cs,
                            !.mem.fs.acc = Add32(p.host, @, cs)])

WhetstoneResume(p, file) ==
  LET p1 == Resumed(LoadIn(p, file)) IN [p1 EXCEPT !.rng = p1.mem.fs.rng]

\* module_1 to module_4 on the cart state, module_5 on mobs and the rng,
\* then frame and rng into frame_state.
WhetstoneModules(p, env) ==
  LET cs == StateUpdate(p, env)
      rng == p.rng + 1
  IN  [p EXCEPT !.mem.cs = cs,
                !.mem.fs = [frame |-> p.f, rng |-> rng,
                            acc |-> Add32(p.host, @.acc, cs),
                            mobs |-> F32(<<p.f, p.rng>>)],
                !.rng = rng]

WhetstoneFull(p, env) == Digested(WhetstoneModules(p, env))
WhetstoneSave(p, env) == WhetstoneModules(p, env)
WhetstoneLoad(p, env) == Digested(WhetstoneModules(p, env))

ParsedByTheLibrary(host) == IF host = "wasm" THEN "nearest" ELSE "naive"  \* mutant
\* How a host's strtof rounds the script's decimal literals: the guest
\* library's digit by digit, which the WASM host wraps around its own.
Parsed(host) == "naive"

\* cart_det_init, then the script's tables from rng draws and literals.
DirectStart(p) == [p EXCEPT !.rng = 1, !.mem.cs = F32(<<"init", Parsed(p.host)>>)]

\* The script's loop body: draws, add_sin, add_cos, add_sqrt, set_mob,
\* commit_frame.
DirectFrame(p, env) ==
  LET cs == StateUpdate(p, env)
  IN  CommitFrame([p EXCEPT !.mem.cs = cs,
                            !.mem.fs.acc = Add32(p.host, @, cs),
                            !.mem.fs.mobs = cs,
                            !.rng = @ + 1])

DirectFull(p, env) == DirectFrame(p, env)
DirectWasm(p, env) == DirectFrame(p, env)

------------------------------------------------------------------------------
(* Which program of the cart a driver is.                                  *)
StartCart(cart, p) ==
  CASE cart = "audio"    -> AudioStart(p)
    [] cart = "cutscene" -> CutsceneStart(p)
    [] cart = "lua"      -> LuaStart(p)
    [] cart = "direct"   -> DirectStart(p)
    [] OTHER             -> p

ResumeCart(cart, p, file) ==
  CASE cart = "audio"     -> AudioResume(p, file)
    [] cart = "shake"     -> ShakeResume(p, file)
    [] cart = "cutscene"  -> CutsceneResume(p, file)
    [] cart = "lua"       -> LuaResume(p, file)
    [] cart = "whetstone" -> WhetstoneResume(p, file)

FullFrame(p, env) ==
  CASE env.cart = "audio"     -> AudioFull(p, env)
    [] env.cart = "shake"     -> ShakeFull(p)
    [] env.cart = "cutscene"  -> CutsceneFull(p, env)
    [] env.cart = "lua"       -> LuaFrame(p, env)
    [] env.cart = "whetstone" -> WhetstoneFull(p, env)
    [] env.cart = "direct"    -> DirectFull(p, env)

SaveFrame(p, env) ==
  CASE env.cart = "audio"     -> AudioSave(p, env)
    [] env.cart = "shake"     -> ShakeSave(p)
    [] env.cart = "cutscene"  -> CutsceneSave(p, env)
    [] env.cart = "lua"       -> LuaFrame(p, env)
    [] env.cart = "whetstone" -> WhetstoneSave(p, env)

LoadFrame(p, env) ==
  CASE env.cart = "audio"     -> AudioLoad(p, env)
    [] env.cart = "shake"     -> ShakeLoad(p)
    [] env.cart = "cutscene"  -> CutsceneLoad(p, env)
    [] env.cart = "lua"       -> LuaFrame(p, env)
    [] env.cart = "whetstone" -> WhetstoneLoad(p, env)

Frame(d, p, env) == CASE d = "full" -> FullFrame(p, env)
                      [] d = "save" -> SaveFrame(p, env)
                      [] d = "load" -> LoadFrame(p, env)
                      [] d = "wasm" -> DirectWasm(p, env)
=============================================================================
