---------------------------- MODULE ReplayProofs ----------------------------
(***************************************************************************)
(* Proofs about the deterministic carts: for every length of run, every    *)
(* save frame, every schedule of voice ends and every first NaN, the       *)
(* resumed run prints the digests of the uninterrupted one and the buffer  *)
(* is the same bytes on every host; then about the voice-end queue and the *)
(* allocating cart, which stand beside them.                               *)
(*                                                                         *)
(* The argument for the replay.  Two processes are alike when they are     *)
(* equal once their NaNs are canonicalised.  Every program's frame takes   *)
(* alike processes to alike processes (FrameAlike), so the canonical state *)
(* of a frame is a function of the canonical state of the frame before,    *)
(* whichever host and program ran it.  The histories are therefore chains  *)
(* of one and the same step; they start from one and the same seed, the    *)
(* load program's from the last state of the save program, and so they     *)
(* agree wherever they overlap.                                            *)
(***************************************************************************)
EXTENDS CartReplay, AllocCart, VoiceEndQueue, FiniteSetTheorems, TLAPS

(***************************************************************************)
(* The shape of a process: the records it is made of have their fields.    *)
(***************************************************************************)
IsFS(x) ==
  x \in [frame : {x.frame}, rng : {x.rng}, acc : {x.acc}, mobs : {x.mobs}]
IsMem(m) ==
  m \in [fs : {m.fs}, q : {m.q}, shake : {m.shake}, blob : {m.blob}, cs : {m.cs}]
IsProc(p) ==
  p \in [host : {p.host}, mem : {p.mem}, rng : {p.rng}, f : {p.f}, out : {p.out}]
Shape(p) == IsProc(p) /\ IsMem(p.mem) /\ IsFS(p.mem.fs)

(* Two floats, two processes that are equal once canonicalised.            *)
Same(a, b) == Canon32(a) = Canon32(b)
Alike(p, r) ==
  /\ p.f = r.f /\ p.rng = r.rng
  /\ p.mem.fs.frame = r.mem.fs.frame /\ p.mem.fs.rng = r.mem.fs.rng
  /\ Same(p.mem.fs.acc, r.mem.fs.acc) /\ Same(p.mem.fs.mobs, r.mem.fs.mobs)
  /\ p.mem.q = r.mem.q /\ p.mem.shake = r.mem.shake
  /\ p.mem.blob = r.mem.blob /\ Same(p.mem.cs, r.mem.cs)

(***************************************************************************)
(* The inductive invariant.                                                *)
(***************************************************************************)
\* Carts whose script commits the frame: frame_state holds the next one.
Commits == env.cart \in {"lua", "direct"}

\* Carts that never draw from the generator.
Quiet == env.cart \in {"audio", "shake", "cutscene"}

\* The save programs of the other carts print no digest.
Prints(d) == d # "save" \/ Commits

EnvOK ==
  /\ env.cart \in Carts
  /\ saveFrame \in 0 .. (NFRAMES - 1)
  /\ env.cart = "shake" => saveFrame >= ShakeTrigger

StageOK ==
  /\ stage \in [Drivers -> {"off", "running", "done"}]
  /\ \A d \in Drivers : d \notin Programs(env.cart) => stage[d] = "off"
  /\ \A d \in Drivers \ {"load"} : d \in Programs(env.cart) => stage[d] # "off"
  /\ stage["load"] # "off" => stage["save"] = "done"

\* A region the cart does not track is never written.
Untracked(mem) ==
  \A r \in {"q", "shake", "blob", "cs"} \ Regions(env.cart) : mem[r] = FreshMem[r]

QueueOK(q) ==
  /\ q \in [view : SUBSET (1 .. 2), pending : Seq([frame : Nat, handle : 1 .. 2])]
  /\ QueueLoads(q)

\* A process p of d at the head of its loop.
Good(d, p) ==
  /\ Shape(p) /\ p.host = d /\ p.f \in Nat /\ p.rng \in Nat
  /\ p.mem.fs.rng \in Nat /\ p.mem.fs.frame \in Nat
  /\ p.mem.fs.acc.nan \in {"no", "canon", d}
  /\ QueueOK(p.mem.q) /\ Untracked(p.mem)
  /\ Prints(d) \/ p.out = <<>>
  /\ IF Commits THEN p.mem.fs.frame = p.f ELSE p.rng = p.mem.fs.rng
  /\ Quiet => p.rng = 0

\* What frame_state says of the last frame of a process.
Ran(p) == IF Commits THEN p.rng = p.mem.fs.rng ELSE p.mem.fs.frame + 1 = p.f

\* The frames run so far.
Counted(d) ==
  /\ proc[d].f = FirstFrame(d) + Len(states[d])
  /\ proc[d].f <= LastFrame(d) + 1
  /\ stage[d] = "done" => proc[d].f = LastFrame(d) + 1
  /\ env.cart = "cutscene" => proc[d].mem.blob.active
  /\ Len(states[d]) > 0 => Ran(proc[d])

NotStarted(d) ==
  /\ proc[d].f = 0 /\ states[d] = <<>> /\ digests[d] = <<>>
  /\ d = "load" => proc[d] = Process(d)

\* The canonical state before d's i-th frame, and the step from one to the
\* next as the uninterrupted run's program takes it.
Seed(d) == IF d = "load" THEN states["save"][saveFrame + 1]
                         ELSE Canonical(StartCart(env.cart, Process("full")))
Before(d, i) == IF i = 1 THEN Seed(d) ELSE states[d][i - 1]
Advanced(p) == [p EXCEPT !.f = @ + 1]
StepOf(c) == Canonical(Advanced(Frame("full", [c EXCEPT !.host = "full"], env)))

IsSeq(s) == s \in Seq({s[i] : i \in 1 .. Len(s)})

Chained(d) ==
  /\ IsSeq(states[d])
  /\ \A i \in 1 .. Len(states[d]) : states[d][i] = StepOf(Before(d, i))
  /\ stage[d] # "off" => Canonical(proc[d]) = Before(d, Len(states[d]) + 1)

Agrees(d) ==
  \A i \in 1 .. Len(states[d]) :
    FirstFrame(d) + i <= Len(states["full"])
      => states[d][i] = states["full"][FirstFrame(d) + i]

\* The line printed for a frame, from the state after it.
Line(c) == IF Commits THEN [c.mem.fs EXCEPT !.frame = @ - 1] ELSE c.mem.fs

Printed(d) ==
  IF Prints(d)
  THEN /\ IsSeq(digests[d]) /\ Len(digests[d]) = Len(states[d])
       /\ \A i \in 1 .. Len(states[d]) : digests[d][i] = Line(states[d][i])
  ELSE digests[d] = <<>>

FileOK ==
  stage["save"] = "done"
    => /\ Len(states["save"]) = saveFrame + 1
       /\ file = Tracked(env.cart, states["save"][saveFrame + 1].mem)

PerDriver ==
  DOMAIN proc = Drivers /\ DOMAIN digests = Drivers /\ DOMAIN states = Drivers

ReplayInv ==
  /\ PerDriver /\ EnvOK /\ StageOK /\ FileOK
  /\ \A d \in Drivers :
       /\ Good(d, proc[d]) /\ Chained(d) /\ Agrees(d) /\ Printed(d)
       /\ IF stage[d] = "off" THEN NotStarted(d) ELSE Counted(d)

------------------------------------------------------------------------------
(***************************************************************************)
(* Floats and sequences.                                                   *)
(***************************************************************************)
LEMMA SameSplit == ASSUME NEW a, NEW b, Same(a, b)
                   PROVE  (a.nan = "no" /\ a = b) \/ (a.nan # "no" /\ b.nan # "no")
  BY DEF Same, Canon32, NaN32

LEMMA SameAdd == ASSUME NEW h, NEW k, h # "no", k # "no",
                        NEW a, NEW b, NEW x, NEW y, Same(a, b), Same(x, y)
                 PROVE  Same(Add32(h, a, x), Add32(k, b, y))
  <1>1. CASE a.nan = "no" /\ x.nan = "no"
    BY <1>1, SameSplit DEF Same, Add32
  <1>2. CASE ~(a.nan = "no" /\ x.nan = "no")
    <2>1. ~(b.nan = "no" /\ y.nan = "no")
      BY <1>2, SameSplit
    <2>. QED  BY <1>2, <2>1 DEF Same, Add32, Canon32, NaN32
  <1>. QED  BY <1>1, <1>2

LEMMA SameCanon == ASSUME NEW a PROVE Same(Canon32(a), a)
  BY DEF Same, Canon32, NaN32

LEMMA CanonTwice == ASSUME NEW a PROVE Canon32(Canon32(a)) = Canon32(a)
  BY DEF Canon32, NaN32

LEMMA SameNaN == ASSUME NEW h, NEW k, h # "no", k # "no"
                 PROVE  Same(NaN32(h), NaN32(k))
  BY DEF Same, Canon32, NaN32

(* The sum is a number or the host's own NaN; canonicalising keeps that.   *)
LEMMA NaNOfHost ==
  ASSUME NEW h, NEW a, NEW b
  PROVE  /\ Add32(h, a, b).nan \in {"no", h}
         /\ a.nan \in {"no", "canon", h} => Canon32(a).nan \in {"no", "canon", h}
  BY DEF Add32, NaN32, Canon32

LEMMA AppendIsSeq ==
  ASSUME NEW s, NEW e, IsSeq(s)
  PROVE  /\ IsSeq(Append(s, e))
         /\ Len(s) \in Nat /\ Len(Append(s, e)) = Len(s) + 1
         /\ \A i \in 1 .. Len(s) : Append(s, e)[i] = s[i]
         /\ Append(s, e)[Len(s) + 1] = e
  <1> DEFINE S == {s[i] : i \in 1 .. Len(s)}
             T == S \cup {e}
             t == Append(s, e)
  <1>1. s \in Seq(T)  BY DEF IsSeq
  <1>2. /\ Len(s) \in Nat /\ Len(t) = Len(s) + 1
        /\ \A i \in 1 .. Len(s) : t[i] = s[i]
        /\ t[Len(s) + 1] = e
    BY <1>1
  <1>3. t \in Seq(T)  BY <1>1
  <1>4. \A x \in T : \E i \in 1 .. Len(t) : x = t[i]
    BY <1>2
  <1>5. T \subseteq {t[i] : i \in 1 .. Len(t)}
    BY <1>4
  <1>6. \A i \in 1 .. Len(t) : t[i] \in {t[j] : j \in 1 .. Len(t)}
    OBVIOUS
  <1>7. t \in Seq({t[i] : i \in 1 .. Len(t)})
    BY <1>3, <1>5
  <1>. QED  BY <1>2, <1>7 DEF IsSeq

LEMMA SeqDomain == ASSUME NEW s, IsSeq(s) PROVE DOMAIN s = 1 .. Len(s)
  <1>. DEFINE S == {s[i] : i \in 1 .. Len(s)}
  <1>1. s \in Seq(S)  BY DEF IsSeq
  <1>. HIDE DEF S
  <1>. QED  BY <1>1

LEMMA EmptyIsSeq == IsSeq(<<>>) /\ Len(<<>>) = 0
  BY DEF IsSeq

------------------------------------------------------------------------------
(***************************************************************************)
(* What each piece of the programs does to the fields of a process.        *)
(***************************************************************************)
LEMMA ShapeEqual ==
  ASSUME NEW p, NEW r, Shape(p), Shape(r),
         p.host = r.host, p.rng = r.rng, p.f = r.f, p.out = r.out,
         p.mem.q = r.mem.q, p.mem.shake = r.mem.shake,
         p.mem.blob = r.mem.blob, p.mem.cs = r.mem.cs,
         p.mem.fs.frame = r.mem.fs.frame, p.mem.fs.rng = r.mem.fs.rng,
         p.mem.fs.acc = r.mem.fs.acc, p.mem.fs.mobs = r.mem.fs.mobs
  PROVE  p = r
  <1>1. p.mem.fs = r.mem.fs  BY DEF Shape, IsFS
  <1>2. p.mem = r.mem  BY <1>1 DEF Shape, IsMem
  <1>. QED  BY <1>2 DEF Shape, IsProc

LEMMA CanonMemFields ==
  ASSUME NEW m, IsMem(m), IsFS(m.fs)
  PROVE  /\ IsMem(CanonMem(m)) /\ IsFS(CanonMem(m).fs)
         /\ CanonMem(m).fs = CanonFS(m.fs)
         /\ CanonMem(m).fs.frame = m.fs.frame /\ CanonMem(m).fs.rng = m.fs.rng
         /\ CanonMem(m).fs.acc = Canon32(m.fs.acc)
         /\ CanonMem(m).fs.mobs = Canon32(m.fs.mobs)
         /\ CanonMem(m).q = m.q /\ CanonMem(m).shake = m.shake
         /\ CanonMem(m).blob = m.blob /\ CanonMem(m).cs = Canon32(m.cs)
  <1>1. IsMem(CanonMem(m)) /\ CanonMem(m).fs = CanonFS(m.fs)
    BY DEF CanonMem, IsMem
  <1>2. IsFS(CanonFS(m.fs))
    BY DEF CanonFS, IsFS
  <1>. QED  BY <1>1, <1>2 DEF CanonMem, CanonFS, IsMem, IsFS

LEMMA CanonicalFields ==
  ASSUME NEW p, Shape(p)
  PROVE  LET c == Canonical(p) IN
         /\ Shape(c) /\ c.host = "any" /\ c.out = <<>>
         /\ c.f = p.f /\ c.rng = p.rng
         /\ c.mem = CanonMem(p.mem)
         /\ Alike(c, p)
  <1>1. IsProc(Canonical(p)) /\ Canonical(p).mem = CanonMem(p.mem)
    BY DEF Canonical, Shape, IsProc
  <1>2. /\ Canonical(p).host = "any" /\ Canonical(p).out = <<>>
        /\ Canonical(p).f = p.f /\ Canonical(p).rng = p.rng
    BY DEF Canonical, Shape, IsProc
  <1>3. Alike(Canonical(p), p)
    BY <1>1, <1>2, CanonMemFields, SameCanon DEF Alike, Shape
  <1>. QED  BY <1>1, <1>2, <1>3, CanonMemFields DEF Shape

(* Alike processes have one canonical form, and only they have.            *)
LEMMA AlikeCanonical ==
  ASSUME NEW p, NEW r, Shape(p), Shape(r)
  PROVE  Alike(p, r) <=> Canonical(p) = Canonical(r)
  <1>1. ASSUME Alike(p, r) PROVE Canonical(p) = Canonical(r)
    <2>. DEFINE c == Canonical(p)
                e == Canonical(r)
    <2>1. /\ c.host = e.host /\ c.out = e.out /\ c.f = e.f /\ c.rng = e.rng
          /\ c.mem = CanonMem(p.mem) /\ e.mem = CanonMem(r.mem)
          /\ Shape(c) /\ Shape(e)
      BY <1>1, CanonicalFields DEF Alike
    <2>2. /\ c.mem.q = e.mem.q /\ c.mem.shake = e.mem.shake
          /\ c.mem.blob = e.mem.blob /\ c.mem.cs = e.mem.cs
          /\ c.mem.fs.frame = e.mem.fs.frame /\ c.mem.fs.rng = e.mem.fs.rng
          /\ c.mem.fs.acc = e.mem.fs.acc /\ c.mem.fs.mobs = e.mem.fs.mobs
      BY <1>1, <2>1, CanonMemFields DEF Alike, Same, Shape
    <2>. HIDE DEF c, e
    <2>. QED  BY <2>1, <2>2, ShapeEqual DEF c, e
  <1>2. ASSUME Canonical(p) = Canonical(r) PROVE Alike(p, r)
    <2>1. Alike(Canonical(p), p) /\ Alike(Canonical(p), r)
      BY <1>2, CanonicalFields
    <2>. QED  BY <2>1 DEF Alike, Same
  <1>. QED  BY <1>1, <1>2

(* A process by its fields, but for what it printed.                       *)
Fields(r, h, g, f, fr, fg, a, m, q, s, b, c) ==
  /\ Shape(r) /\ r.host = h /\ r.rng = g /\ r.f = f
  /\ r.mem.fs.frame = fr /\ r.mem.fs.rng = fg
  /\ r.mem.fs.acc = a /\ r.mem.fs.mobs = m
  /\ r.mem.q = q /\ r.mem.shake = s /\ r.mem.blob = b /\ r.mem.cs = c

LEMMA AlikeByFields ==
  ASSUME NEW x, NEW y, NEW h, NEW k, NEW g, NEW f, NEW fr, NEW fg, NEW a, NEW m,
         NEW q, NEW s, NEW b, NEW c, NEW aa, NEW mm, NEW cc,
         Fields(x, h, g, f, fr, fg, a, m, q, s, b, c),
         Fields(y, k, g, f, fr, fg, aa, mm, q, s, b, cc),
         Same(a, aa), Same(m, mm), Same(c, cc)
  PROVE  Alike(x, y)
  BY DEF Fields, Alike

LEMMA DigestedFields ==
  ASSUME NEW p, Shape(p)
  PROVE  /\ Fields(Digested(p), p.host, p.rng, p.f, p.mem.fs.frame, p.mem.fs.rng,
                   Canon32(p.mem.fs.acc), Canon32(p.mem.fs.mobs),
                   p.mem.q, p.mem.shake, p.mem.blob, p.mem.cs)
         /\ Digested(p).mem.fs = CanonFS(p.mem.fs)
         /\ Digested(p).out = <<Digested(p).mem.fs>>
  <1>1. IsFS(CanonFS(p.mem.fs))
    BY DEF CanonFS, Shape, IsFS
  <1>2. IsProc(Digested(p)) /\ IsMem(Digested(p).mem)
        /\ Digested(p).mem.fs = CanonFS(p.mem.fs)
    BY DEF Digested, Shape, IsProc, IsMem
  <1>3. Shape(Digested(p))
    BY <1>1, <1>2 DEF Shape
  <1>. QED  BY <1>2, <1>3 DEF Fields, Digested, CanonFS, Shape, IsProc, IsMem, IsFS

LEMMA AudioUpdateFields ==
  ASSUME NEW p, Shape(p), NEW E
  PROVE  LET t(h) == F32(<<h, Playing(Applied(p.mem.q), h)>>) IN
         /\ Fields(AudioUpdate(p, E), p.host, p.rng, p.f, p.f, p.mem.fs.rng,
                   Add32(p.host, Add32(p.host, p.mem.fs.acc, t(1)), t(2)),
                   p.mem.fs.mobs, MixerReports(Applied(p.mem.q), E.ends, p.f),
                   p.mem.shake, p.mem.blob, p.mem.cs)
         /\ AudioUpdate(p, E).out = p.out
  <1>1. IsProc(AudioUpdate(p, E)) /\ IsMem(AudioUpdate(p, E).mem)
        /\ IsFS(AudioUpdate(p, E).mem.fs)
    BY ZenonT(60) DEF AudioUpdate, Shape, IsProc, IsMem, IsFS
  <1>. QED  BY <1>1, ZenonT(60) DEF Fields, AudioUpdate, Shape, IsProc, IsMem, IsFS

LEMMA TriggeredFields ==
  ASSUME NEW p, Shape(p)
  PROVE  /\ Fields(Triggered(p), p.host, p.rng, p.f, p.mem.fs.frame, p.mem.fs.rng,
                   p.mem.fs.acc, p.mem.fs.mobs, p.mem.q,
                   IF p.f = ShakeTrigger THEN Shaken ELSE p.mem.shake,
                   p.mem.blob, p.mem.cs)
         /\ Triggered(p).out = p.out
  <1>1. IsProc(Triggered(p)) /\ IsMem(Triggered(p).mem)
        /\ Triggered(p).mem.fs = p.mem.fs
    BY DEF Triggered, Shape, IsProc, IsMem
  <1>. QED  BY <1>1 DEF Fields, Triggered, Shape, IsProc, IsMem

LEMMA ShakeStepFields ==
  ASSUME NEW p, Shape(p)
  PROVE  /\ Fields(ShakeStep(p), p.host, p.rng, p.f, p.f, p.mem.fs.rng,
                   Add32(p.host, p.mem.fs.acc, ShakeOffset(p.mem.shake, p.f)),
                   p.mem.fs.mobs, p.mem.q, ShakeTicked(p.mem.shake),
                   p.mem.blob, p.mem.cs)
         /\ ShakeStep(p).out = p.out
  <1>1. IsProc(ShakeStep(p)) /\ IsMem(ShakeStep(p).mem) /\ IsFS(ShakeStep(p).mem.fs)
    BY DEF ShakeStep, Shape, IsProc, IsMem, IsFS
  <1>. QED  BY <1>1 DEF Fields, ShakeStep, Shape, IsProc, IsMem, IsFS

LEMMA CutsceneStepFields ==
  ASSUME NEW p, Shape(p), NEW E
  PROVE  LET n == BlobRead(p.mem.blob, E.stack[p.host]) + 1 IN
         /\ Fields(CutsceneStep(p, E), p.host, p.rng, p.f, p.f, p.mem.fs.rng,
                   Add32(p.host, p.mem.fs.acc, F32(<<n>>)),
                   p.mem.fs.mobs, p.mem.q, p.mem.shake,
                   [p.mem.blob EXCEPT !.step = n], p.mem.cs)
         /\ CutsceneStep(p, E).out = p.out
  <1>1. IsProc(CutsceneStep(p, E)) /\ IsMem(CutsceneStep(p, E).mem)
        /\ IsFS(CutsceneStep(p, E).mem.fs)
    BY ZenonT(60) DEF CutsceneStep, Shape, IsProc, IsMem, IsFS
  <1>. QED  BY <1>1, ZenonT(60) DEF Fields, CutsceneStep, Shape, IsProc, IsMem, IsFS

LEMMA WhetstoneFields ==
  ASSUME NEW p, Shape(p), NEW E
  PROVE  LET u == StateUpdate(p, E) IN
         /\ Fields(WhetstoneModules(p, E), p.host, p.rng + 1, p.f, p.f, p.rng + 1,
                   Add32(p.host, p.mem.fs.acc, u), F32(<<p.f, p.rng>>),
                   p.mem.q, p.mem.shake, p.mem.blob, u)
         /\ WhetstoneModules(p, E).out = p.out
  <1>1. IsProc(WhetstoneModules(p, E)) /\ IsMem(WhetstoneModules(p, E).mem)
        /\ IsFS(WhetstoneModules(p, E).mem.fs)
    BY DEF WhetstoneModules, Shape, IsProc, IsMem, IsFS
  <1>. QED  BY <1>1 DEF Fields, WhetstoneModules, Shape, IsProc, IsMem, IsFS

LEMMA FSEqual ==
  ASSUME NEW x, NEW y, IsFS(x), IsFS(y), x.frame = y.frame, x.rng = y.rng,
         x.acc = y.acc, x.mobs = y.mobs
  PROVE  x = y
  BY DEF IsFS

(* commit_frame's line is the frame_state it leaves, one frame back.       *)
LEMMA CommitFrameFields ==
  ASSUME NEW p, Shape(p), p.mem.fs.frame \in Nat
  PROVE  LET r == CommitFrame(p) IN
         /\ Fields(r, p.host, p.rng, p.f, p.mem.fs.frame + 1, p.rng,
                   Canon32(p.mem.fs.acc), Canon32(p.mem.fs.mobs),
                   p.mem.q, p.mem.shake, p.mem.blob, p.mem.cs)
         /\ r.out = <<[r.mem.fs EXCEPT !.frame = @ - 1]>>
  <1>. DEFINE s == [p EXCEPT !.mem.fs.rng = p.rng]
              g == Digested(s)
              r == [g EXCEPT !.mem.fs.frame = @ + 1]
  <1>1. Fields(s, p.host, p.rng, p.f, p.mem.fs.frame, p.rng, p.mem.fs.acc,
               p.mem.fs.mobs, p.mem.q, p.mem.shake, p.mem.blob, p.mem.cs)
    BY DEF Fields, Shape, IsProc, IsMem, IsFS
  <1>. HIDE DEF s
  <1>2. /\ Fields(g, s.host, s.rng, s.f, s.mem.fs.frame, s.mem.fs.rng,
                  Canon32(s.mem.fs.acc), Canon32(s.mem.fs.mobs),
                  s.mem.q, s.mem.shake, s.mem.blob, s.mem.cs)
        /\ g.out = <<g.mem.fs>>
    BY <1>1, DigestedFields DEF Fields
  <1>. HIDE DEF g
  <1>3. /\ Fields(r, g.host, g.rng, g.f, g.mem.fs.frame + 1, g.mem.fs.rng,
                  g.mem.fs.acc, g.mem.fs.mobs, g.mem.q, g.mem.shake, g.mem.blob,
                  g.mem.cs)
        /\ r.out = <<g.mem.fs>>
    BY <1>2 DEF Fields, Shape, IsProc, IsMem, IsFS
  <1>. HIDE DEF r
  <1>4. Fields(r, p.host, p.rng, p.f, p.mem.fs.frame + 1, p.rng,
               Canon32(p.mem.fs.acc), Canon32(p.mem.fs.mobs),
               p.mem.q, p.mem.shake, p.mem.blob, p.mem.cs)
    BY <1>1, <1>2, <1>3 DEF Fields
  <1>5. g.mem.fs = [r.mem.fs EXCEPT !.frame = @ - 1]
    <2>. DEFINE e == [r.mem.fs EXCEPT !.frame = @ - 1]
    <2>1. IsFS(e) /\ e.frame = r.mem.fs.frame - 1 /\ e.rng = r.mem.fs.rng
          /\ e.acc = r.mem.fs.acc /\ e.mobs = r.mem.fs.mobs
      BY <1>3 DEF Fields, Shape, IsFS
    <2>2. r.mem.fs.frame - 1 = g.mem.fs.frame
      BY <1>1, <1>2, <1>3 DEF Fields
    <2>. HIDE DEF e
    <2>3. g.mem.fs = e
      BY <1>2, <1>3, <2>1, <2>2, FSEqual DEF Fields, Shape
    <2>. QED  BY <2>3 DEF e
  <1>6. CommitFrame(p) = r
    BY DEF CommitFrame, g, s, r
  <1>. QED  BY <1>3, <1>4, <1>5, <1>6

LEMMA LuaFrameFields ==
  ASSUME NEW p, Shape(p), p.mem.fs.frame \in Nat, NEW E
  PROVE  LET r == LuaFrame(p, E)
             u == StateUpdate(p, E) IN
         /\ Fields(r, p.host, p.rng, p.f, p.mem.fs.frame + 1, p.rng,
                   Canon32(Add32(p.host, p.mem.fs.acc, u)), Canon32(p.mem.fs.mobs),
                   p.mem.q, p.mem.shake, p.mem.blob, u)
         /\ r.out = <<[r.mem.fs EXCEPT !.frame = @ - 1]>>
  <1>. DEFINE u == StateUpdate(p, E)
              s == [p EXCEPT !.mem.cs = u, !.mem.fs.acc = Add32(p.host, @, u)]
  <1>. HIDE DEF u
  <1>1. Fields(s, p.host, p.rng, p.f, p.mem.fs.frame, p.mem.fs.rng,
               Add32(p.host, p.mem.fs.acc, u), p.mem.fs.mobs,
               p.mem.q, p.mem.shake, p.mem.blob, u)
    BY DEF Fields, Shape, IsProc, IsMem, IsFS
  <1>2. LuaFrame(p, E) = CommitFrame(s)  BY DEF LuaFrame, s, u
  <1>. HIDE DEF s
  <1>3. /\ Fields(CommitFrame(s), s.host, s.rng, s.f, s.mem.fs.frame + 1, s.rng,
                  Canon32(s.mem.fs.acc), Canon32(s.mem.fs.mobs),
                  s.mem.q, s.mem.shake, s.mem.blob, s.mem.cs)
        /\ CommitFrame(s).out = <<[CommitFrame(s).mem.fs EXCEPT !.frame = @ - 1]>>
    BY <1>1, CommitFrameFields DEF Fields
  <1>4. Fields(CommitFrame(s), p.host, p.rng, p.f, p.mem.fs.frame + 1, p.rng,
               Canon32(Add32(p.host, p.mem.fs.acc, u)), Canon32(p.mem.fs.mobs),
               p.mem.q, p.mem.shake, p.mem.blob, u)
    BY <1>1, <1>3 DEF Fields
  <1>. QED  BY <1>2, <1>3, <1>4 DEF u

LEMMA DirectFrameFields ==
  ASSUME NEW p, Shape(p), p.mem.fs.frame \in Nat, NEW E
  PROVE  LET r == DirectFrame(p, E)
             u == StateUpdate(p, E) IN
         /\ Fields(r, p.host, p.rng + 1, p.f, p.mem.fs.frame + 1, p.rng + 1,
                   Canon32(Add32(p.host, p.mem.fs.acc, u)), Canon32(u),
                   p.mem.q, p.mem.shake, p.mem.blob, u)
         /\ r.out = <<[r.mem.fs EXCEPT !.frame = @ - 1]>>
  <1>. DEFINE u == StateUpdate(p, E)
              s == [p EXCEPT !.mem.cs = u, !.mem.fs.acc = Add32(p.host, @, u),
                             !.mem.fs.mobs = u, !.rng = @ + 1]
  <1>. HIDE DEF u
  <1>1. Fields(s, p.host, p.rng + 1, p.f, p.mem.fs.frame, p.mem.fs.rng,
               Add32(p.host, p.mem.fs.acc, u), u,
               p.mem.q, p.mem.shake, p.mem.blob, u)
    BY ZenonT(60) DEF Fields, Shape, IsProc, IsMem, IsFS
  <1>2. DirectFrame(p, E) = CommitFrame(s)  BY DEF DirectFrame, s, u
  <1>. HIDE DEF s
  <1>3. /\ Fields(CommitFrame(s), s.host, s.rng, s.f, s.mem.fs.frame + 1, s.rng,
                  Canon32(s.mem.fs.acc), Canon32(s.mem.fs.mobs),
                  s.mem.q, s.mem.shake, s.mem.blob, s.mem.cs)
        /\ CommitFrame(s).out = <<[CommitFrame(s).mem.fs EXCEPT !.frame = @ - 1]>>
    BY <1>1, CommitFrameFields DEF Fields
  <1>4. Fields(CommitFrame(s), p.host, p.rng + 1, p.f, p.mem.fs.frame + 1, p.rng + 1,
               Canon32(Add32(p.host, p.mem.fs.acc, u)), Canon32(u),
               p.mem.q, p.mem.shake, p.mem.blob, u)
    BY <1>1, <1>3 DEF Fields
  <1>. QED  BY <1>2, <1>3, <1>4 DEF u

------------------------------------------------------------------------------
(***************************************************************************)
(* Alike processes stay alike.                                             *)
(***************************************************************************)
LEMMA SameRefl == ASSUME NEW a PROVE Same(a, a)
  BY DEF Same

LEMMA DigestedAlike ==
  ASSUME NEW p, NEW r, Shape(p), Shape(r), Alike(p, r)
  PROVE  Alike(Digested(p), r) /\ Alike(p, Digested(r))
         /\ Alike(Digested(p), Digested(r))
  BY DigestedFields, CanonTwice DEF Fields, Alike, Same

LEMMA AudioAlike ==
  ASSUME NEW p, NEW r, Shape(p), Shape(r), Alike(p, r),
         p.host # "no", r.host # "no", NEW E
  PROVE  Alike(AudioUpdate(p, E), AudioUpdate(r, E))
  <1>. DEFINE t(h) == F32(<<h, Playing(Applied(p.mem.q), h)>>)
              a == Add32(p.host, Add32(p.host, p.mem.fs.acc, t(1)), t(2))
              b == Add32(r.host, Add32(r.host, r.mem.fs.acc, t(1)), t(2))
  <1>1. p.mem.q = r.mem.q /\ p.f = r.f /\ Same(p.mem.fs.acc, r.mem.fs.acc)
    BY DEF Alike
  <1>2. Same(t(1), t(1)) /\ Same(t(2), t(2))  BY SameRefl
  <1>3. Same(Add32(p.host, p.mem.fs.acc, t(1)), Add32(r.host, r.mem.fs.acc, t(1)))
    <2>. HIDE DEF t
    <2>. QED  BY <1>1, <1>2, SameAdd
  <1>4. Same(a, b)
    <2>. HIDE DEF t
    <2>. QED  BY <1>2, <1>3, SameAdd
  <1>5. AudioUpdate(p, E).mem.fs.acc = a /\ AudioUpdate(r, E).mem.fs.acc = b
    <2>1. AudioUpdate(p, E).mem.fs.acc = a
      BY AudioUpdateFields DEF Fields
    <2>2. AudioUpdate(r, E).mem.fs.acc
            = LET u(h) == F32(<<h, Playing(Applied(r.mem.q), h)>>)
              IN  Add32(r.host, Add32(r.host, r.mem.fs.acc, u(1)), u(2))
      BY AudioUpdateFields DEF Fields
    <2>. QED  BY <1>1, <2>1, <2>2
  <1>6. Fields(AudioUpdate(p, E), p.host, p.rng, p.f, p.f, p.mem.fs.rng,
               AudioUpdate(p, E).mem.fs.acc, p.mem.fs.mobs,
               MixerReports(Applied(p.mem.q), E.ends, p.f),
               p.mem.shake, p.mem.blob, p.mem.cs)
    BY AudioUpdateFields, ZenonT(60) DEF Fields
  <1>7. Fields(AudioUpdate(r, E), r.host, r.rng, r.f, r.f, r.mem.fs.rng,
               AudioUpdate(r, E).mem.fs.acc, r.mem.fs.mobs,
               MixerReports(Applied(r.mem.q), E.ends, r.f),
               r.mem.shake, r.mem.blob, r.mem.cs)
    BY AudioUpdateFields, ZenonT(60) DEF Fields
  <1>. HIDE DEF a, b
  <1>8. Fields(AudioUpdate(r, E), r.host, p.rng, p.f, p.f, p.mem.fs.rng,
               b, r.mem.fs.mobs,
               MixerReports(Applied(p.mem.q), E.ends, p.f),
               p.mem.shake, p.mem.blob, r.mem.cs)
    BY <1>5, <1>7 DEF Alike
  <1>9. Same(p.mem.fs.mobs, r.mem.fs.mobs) /\ Same(p.mem.cs, r.mem.cs)
    BY DEF Alike
  <1>. QED  BY ONLY <1>4, <1>5, <1>6, <1>8, <1>9, AlikeByFields

LEMMA TriggeredAlike ==
  ASSUME NEW p, NEW r, Shape(p), Shape(r), Alike(p, r)
  PROVE  Alike(Triggered(p), Triggered(r))
  BY TriggeredFields DEF Fields, Alike

LEMMA ShakeAlike ==
  ASSUME NEW p, NEW r, Shape(p), Shape(r), Alike(p, r),
         p.host # "no", r.host # "no"
  PROVE  Alike(ShakeStep(p), ShakeStep(r))
  <1>1. p.mem.shake = r.mem.shake /\ p.f = r.f /\ Same(p.mem.fs.acc, r.mem.fs.acc)
    BY DEF Alike
  <1>2. Same(Add32(p.host, p.mem.fs.acc, ShakeOffset(p.mem.shake, p.f)),
             Add32(r.host, r.mem.fs.acc, ShakeOffset(r.mem.shake, r.f)))
    BY <1>1, SameRefl, SameAdd
  <1>. QED  BY <1>2, ShakeStepFields DEF Fields, Alike

LEMMA CutsceneAlike ==
  ASSUME NEW p, NEW r, Shape(p), Shape(r), Alike(p, r),
         p.host # "no", r.host # "no", p.mem.blob.active, NEW E
  PROVE  Alike(CutsceneStep(p, E), CutsceneStep(r, E))
  <1>. DEFINE n == BlobRead(p.mem.blob, E.stack[p.host]) + 1
  <1>1. p.mem.blob = r.mem.blob /\ p.f = r.f /\ Same(p.mem.fs.acc, r.mem.fs.acc)
    BY DEF Alike
  <1>2. n = BlobRead(r.mem.blob, E.stack[r.host]) + 1
    BY <1>1 DEF BlobRead
  <1>. HIDE DEF n
  <1>3. Same(Add32(p.host, p.mem.fs.acc, F32(<<n>>)),
             Add32(r.host, r.mem.fs.acc, F32(<<n>>)))
    BY <1>1, SameRefl, SameAdd
  <1>4. Fields(CutsceneStep(p, E), p.host, p.rng, p.f, p.f, p.mem.fs.rng,
               Add32(p.host, p.mem.fs.acc, F32(<<n>>)),
               p.mem.fs.mobs, p.mem.q, p.mem.shake,
               [p.mem.blob EXCEPT !.step = n], p.mem.cs)
    BY CutsceneStepFields DEF n
  <1>5. Fields(CutsceneStep(r, E), r.host, r.rng, r.f, r.f, r.mem.fs.rng,
               Add32(r.host, r.mem.fs.acc, F32(<<n>>)),
               r.mem.fs.mobs, r.mem.q, r.mem.shake,
               [r.mem.blob EXCEPT !.step = n], r.mem.cs)
    BY <1>2, CutsceneStepFields
  <1>. QED  BY <1>3, <1>4, <1>5, AlikeByFields DEF Alike

LEMMA StateUpdateSame ==
  ASSUME NEW p, NEW r, Alike(p, r), p.host # "no", r.host # "no", NEW E
  PROVE  Same(StateUpdate(p, E), StateUpdate(r, E))
  BY SameNaN, SameAdd, SameRefl DEF StateUpdate, Alike

LEMMA StateSumSame ==
  ASSUME NEW p, NEW r, Alike(p, r), p.host # "no", r.host # "no", NEW E
  PROVE  LET a == Add32(p.host, p.mem.fs.acc, StateUpdate(p, E))
             b == Add32(r.host, r.mem.fs.acc, StateUpdate(r, E))
         IN  Same(a, b) /\ Same(Canon32(a), Canon32(b))
  <1>1. Same(p.mem.fs.acc, r.mem.fs.acc) /\ Same(StateUpdate(p, E), StateUpdate(r, E))
    BY StateUpdateSame DEF Alike
  <1>. QED  BY <1>1, SameAdd DEF Same

LEMMA WhetstoneAlike ==
  ASSUME NEW p, NEW r, Shape(p), Shape(r), Alike(p, r),
         p.host # "no", r.host # "no", NEW E
  PROVE  Alike(WhetstoneModules(p, E), WhetstoneModules(r, E))
  <1>1. Fields(WhetstoneModules(p, E), p.host, p.rng + 1, p.f, p.f, p.rng + 1,
               Add32(p.host, p.mem.fs.acc, StateUpdate(p, E)), F32(<<p.f, p.rng>>),
               p.mem.q, p.mem.shake, p.mem.blob, StateUpdate(p, E))
    BY WhetstoneFields
  <1>2. Fields(WhetstoneModules(r, E), r.host, r.rng + 1, r.f, r.f, r.rng + 1,
               Add32(r.host, r.mem.fs.acc, StateUpdate(r, E)), F32(<<r.f, r.rng>>),
               r.mem.q, r.mem.shake, r.mem.blob, StateUpdate(r, E))
    BY WhetstoneFields
  <1>3. /\ p.rng = r.rng /\ p.f = r.f /\ p.mem.q = r.mem.q
        /\ p.mem.shake = r.mem.shake /\ p.mem.blob = r.mem.blob
    BY DEF Alike
  <1>4. /\ Same(F32(<<p.f, p.rng>>), F32(<<r.f, r.rng>>))
        /\ Same(StateUpdate(p, E), StateUpdate(r, E))
        /\ Same(Add32(p.host, p.mem.fs.acc, StateUpdate(p, E)),
                Add32(r.host, r.mem.fs.acc, StateUpdate(r, E)))
    BY <1>3, SameRefl, StateUpdateSame, StateSumSame
  <1>. QED  BY <1>1, <1>2, <1>3, <1>4, AlikeByFields

LEMMA LuaAlike ==
  ASSUME NEW p, NEW r, Shape(p), Shape(r), Alike(p, r), p.mem.fs.frame \in Nat,
         p.host # "no", r.host # "no", NEW E
  PROVE  Alike(LuaFrame(p, E), LuaFrame(r, E))
  <1>1. Fields(LuaFrame(p, E), p.host, p.rng, p.f, p.mem.fs.frame + 1, p.rng,
               Canon32(Add32(p.host, p.mem.fs.acc, StateUpdate(p, E))),
               Canon32(p.mem.fs.mobs),
               p.mem.q, p.mem.shake, p.mem.blob, StateUpdate(p, E))
    BY LuaFrameFields
  <1>2. /\ p.rng = r.rng /\ p.f = r.f /\ p.mem.q = r.mem.q
        /\ p.mem.shake = r.mem.shake /\ p.mem.blob = r.mem.blob
        /\ p.mem.fs.frame = r.mem.fs.frame
    BY DEF Alike
  <1>3. Fields(LuaFrame(r, E), r.host, r.rng, r.f, r.mem.fs.frame + 1, r.rng,
               Canon32(Add32(r.host, r.mem.fs.acc, StateUpdate(r, E))),
               Canon32(r.mem.fs.mobs),
               r.mem.q, r.mem.shake, r.mem.blob, StateUpdate(r, E))
    BY <1>2, LuaFrameFields
  <1>4. /\ Same(Canon32(p.mem.fs.mobs), Canon32(r.mem.fs.mobs))
        /\ Same(StateUpdate(p, E), StateUpdate(r, E))
        /\ Same(Canon32(Add32(p.host, p.mem.fs.acc, StateUpdate(p, E))),
                Canon32(Add32(r.host, r.mem.fs.acc, StateUpdate(r, E))))
    BY StateUpdateSame, StateSumSame DEF Alike, Same
  <1>. QED  BY <1>1, <1>2, <1>3, <1>4, AlikeByFields

LEMMA DirectAlike ==
  ASSUME NEW p, NEW r, Shape(p), Shape(r), Alike(p, r), p.mem.fs.frame \in Nat,
         p.host # "no", r.host # "no", NEW E
  PROVE  Alike(DirectFrame(p, E), DirectFrame(r, E))
  <1>1. Fields(DirectFrame(p, E), p.host, p.rng + 1, p.f, p.mem.fs.frame + 1,
               p.rng + 1, Canon32(Add32(p.host, p.mem.fs.acc, StateUpdate(p, E))),
               Canon32(StateUpdate(p, E)),
               p.mem.q, p.mem.shake, p.mem.blob, StateUpdate(p, E))
    BY DirectFrameFields
  <1>2. /\ p.rng = r.rng /\ p.f = r.f /\ p.mem.q = r.mem.q
        /\ p.mem.shake = r.mem.shake /\ p.mem.blob = r.mem.blob
        /\ p.mem.fs.frame = r.mem.fs.frame
    BY DEF Alike
  <1>3. Fields(DirectFrame(r, E), r.host, r.rng + 1, r.f, r.mem.fs.frame + 1,
               r.rng + 1, Canon32(Add32(r.host, r.mem.fs.acc, StateUpdate(r, E))),
               Canon32(StateUpdate(r, E)),
               r.mem.q, r.mem.shake, r.mem.blob, StateUpdate(r, E))
    BY <1>2, DirectFrameFields
  <1>4. /\ Same(StateUpdate(p, E), StateUpdate(r, E))
        /\ Same(Canon32(StateUpdate(p, E)), Canon32(StateUpdate(r, E)))
        /\ Same(Canon32(Add32(p.host, p.mem.fs.acc, StateUpdate(p, E))),
                Canon32(Add32(r.host, r.mem.fs.acc, StateUpdate(r, E))))
    BY StateUpdateSame, StateSumSame DEF Same
  <1>. QED  BY <1>1, <1>2, <1>3, <1>4, AlikeByFields

(* One frame, on any host and in any program of the cart, against the same *)
(* frame of the uninterrupted run.                                         *)
LEMMA FrameAlike ==
  ASSUME EnvOK, NEW d \in Programs(env.cart), NEW p, NEW r, Shape(p), Shape(r),
         Alike(p, r), p.host = d, r.host = "full", p.mem.fs.frame \in Nat,
         env.cart = "cutscene" => p.mem.blob.active,
         env.cart = "shake" /\ d = "load" => p.f # ShakeTrigger
  PROVE  /\ Shape(Frame(d, p, env)) /\ Shape(Frame("full", r, env))
         /\ Alike(Frame(d, p, env), Frame("full", r, env))
  <1>1. p.host # "no" /\ r.host # "no" /\ r.mem.fs.frame \in Nat
    BY DEF Programs, Alike
  <1>2. CASE env.cart = "audio"
    <2>1. /\ Frame("full", r, env) = Digested(AudioUpdate(r, env))
          /\ Frame(d, p, env) \in {AudioUpdate(p, env), Digested(AudioUpdate(p, env))}
      BY <1>2 DEF Programs, Frame, FullFrame, SaveFrame, LoadFrame,
                  AudioFull, AudioSave, AudioLoad
    <2>2. /\ Shape(AudioUpdate(p, env)) /\ Shape(AudioUpdate(r, env))
          /\ Alike(AudioUpdate(p, env), AudioUpdate(r, env))
      BY <1>1, AudioAlike, AudioUpdateFields DEF Fields
    <2>3. Shape(Digested(AudioUpdate(p, env))) /\ Shape(Digested(AudioUpdate(r, env)))
      BY <2>2, DigestedFields DEF Fields
    <2>. QED  BY <2>1, <2>2, <2>3, DigestedAlike
  <1>3. CASE env.cart = "shake"
    <2>. DEFINE x == IF d = "load" THEN p ELSE Triggered(p)
                y == Triggered(r)
    <2>1. /\ Frame("full", r, env) = Digested(ShakeStep(y))
          /\ Frame(d, p, env) \in {ShakeStep(x), Digested(ShakeStep(x))}
      BY <1>3 DEF Programs, Frame, FullFrame, SaveFrame, LoadFrame,
                  ShakeFull, ShakeSave, ShakeLoad
    <2>2. Triggered(p) = p \/ d # "load"
      BY <1>3 DEF Triggered
    <2>3. /\ Shape(x) /\ Shape(y) /\ x.host = d /\ y.host = "full" /\ Alike(x, y)
      BY <2>2, TriggeredAlike, TriggeredFields DEF Fields
    <2>. HIDE DEF x, y
    <2>4. /\ Shape(ShakeStep(x)) /\ Shape(ShakeStep(y))
          /\ Alike(ShakeStep(x), ShakeStep(y))
      BY <1>1, <2>3, ShakeAlike, ShakeStepFields DEF Fields
    <2>5. Shape(Digested(ShakeStep(x))) /\ Shape(Digested(ShakeStep(y)))
      BY <2>4, DigestedFields DEF Fields
    <2>. QED  BY <2>1, <2>4, <2>5, DigestedAlike
  <1>4. CASE env.cart = "cutscene"
    <2>1. /\ Frame("full", r, env) = Digested(CutsceneStep(r, env))
          /\ Frame(d, p, env) \in {CutsceneStep(p, env), Digested(CutsceneStep(p, env))}
      BY <1>4 DEF Programs, Frame, FullFrame, SaveFrame, LoadFrame,
                  CutsceneFull, CutsceneSave, CutsceneLoad
    <2>2. /\ Shape(CutsceneStep(p, env)) /\ Shape(CutsceneStep(r, env))
          /\ Alike(CutsceneStep(p, env), CutsceneStep(r, env))
      BY <1>1, <1>4, CutsceneAlike, CutsceneStepFields DEF Fields
    <2>3. Shape(Digested(CutsceneStep(p, env))) /\ Shape(Digested(CutsceneStep(r, env)))
      BY <2>2, DigestedFields DEF Fields
    <2>. QED  BY <2>1, <2>2, <2>3, DigestedAlike
  <1>5. CASE env.cart = "lua"
    <2>1. Frame("full", r, env) = LuaFrame(r, env) /\ Frame(d, p, env) = LuaFrame(p, env)
      BY <1>5 DEF Programs, Frame, FullFrame, SaveFrame, LoadFrame
    <2>2. Shape(LuaFrame(p, env)) /\ Shape(LuaFrame(r, env))
      BY <1>1, LuaFrameFields DEF Fields
    <2>3. Alike(LuaFrame(p, env), LuaFrame(r, env))
      BY <1>1, LuaAlike
    <2>. QED  BY <2>1, <2>2, <2>3
  <1>6. CASE env.cart = "whetstone"
    <2>1. /\ Frame("full", r, env) = Digested(WhetstoneModules(r, env))
          /\ Frame(d, p, env) \in {WhetstoneModules(p, env),
                                   Digested(WhetstoneModules(p, env))}
      BY <1>6 DEF Programs, Frame, FullFrame, SaveFrame, LoadFrame,
                  WhetstoneFull, WhetstoneSave, WhetstoneLoad
    <2>2. /\ Shape(WhetstoneModules(p, env)) /\ Shape(WhetstoneModules(r, env))
          /\ Alike(WhetstoneModules(p, env), WhetstoneModules(r, env))
      BY <1>1, WhetstoneAlike, WhetstoneFields DEF Fields
    <2>3. /\ Shape(Digested(WhetstoneModules(p, env)))
          /\ Shape(Digested(WhetstoneModules(r, env)))
      BY <2>2, DigestedFields DEF Fields
    <2>. QED  BY <2>1, <2>2, <2>3, DigestedAlike
  <1>7. CASE env.cart = "direct"
    <2>1. /\ Frame("full", r, env) = DirectFrame(r, env)
          /\ Frame(d, p, env) = DirectFrame(p, env)
      BY <1>7 DEF Programs, Frame, FullFrame, DirectFull, DirectWasm
    <2>2. Shape(DirectFrame(p, env)) /\ Shape(DirectFrame(r, env))
      BY <1>1, DirectFrameFields DEF Fields
    <2>3. Alike(DirectFrame(p, env), DirectFrame(r, env))
      BY <1>1, DirectAlike
    <2>. QED  BY <2>1, <2>2, <2>3
  <1>. QED  BY <1>2, <1>3, <1>4, <1>5, <1>6, <1>7 DEF EnvOK, Carts

------------------------------------------------------------------------------
(***************************************************************************)
(* A frame keeps a process good.                                           *)
(***************************************************************************)
LEMMA RecordedOK ==
  ASSUME NEW q, QueueOK(q), NEW f \in Nat, NEW h \in 1 .. 2
  PROVE  QueueOK(Recorded(q, f, h))
  <1>1. CASE Len(q.pending) >= PendingMax
    BY <1>1 DEF Recorded
  <1>2. CASE ~(Len(q.pending) >= PendingMax)
    <2>. DEFINE e == [frame |-> f, handle |-> h]
                t == Append(q.pending, e)
    <2>1. Recorded(q, f, h) = [q EXCEPT !.pending = t]
      BY <1>2 DEF Recorded
    <2>2. q.pending \in Seq([frame : Nat, handle : 1 .. 2]) /\ Len(q.pending) \in Nat
      BY DEF QueueOK
    <2>3. t \in Seq([frame : Nat, handle : 1 .. 2]) /\ Len(t) = Len(q.pending) + 1
      BY <2>2
    <2>. HIDE DEF t
    <2>. QED  BY <1>2, <2>1, <2>2, <2>3, PendingAssumption DEF QueueOK, QueueLoads
  <1>. QED  BY <1>1, <1>2

LEMMA AppliedOK ==
  ASSUME NEW q, QueueOK(q)
  PROVE  QueueOK(Applied(q))
  BY PendingAssumption DEF QueueOK, Applied, QueueLoads

LEMMA MixerReportsOK ==
  ASSUME NEW q, QueueOK(q), NEW f \in Nat, NEW ends
  PROVE  QueueOK(MixerReports(q, ends, f))
  BY RecordedOK DEF MixerReports

LEMMA CanonFSFixed ==
  ASSUME NEW x, IsFS(x), NEW a, NEW b, x.acc = Canon32(a), x.mobs = Canon32(b)
  PROVE  CanonFS(x) = x
  <1>1. /\ IsFS(CanonFS(x)) /\ CanonFS(x).frame = x.frame /\ CanonFS(x).rng = x.rng
        /\ CanonFS(x).acc = Canon32(x.acc) /\ CanonFS(x).mobs = Canon32(x.mobs)
    BY DEF CanonFS, IsFS
  <1>. QED  BY <1>1, CanonTwice, FSEqual

LEMMA AdvancedFields ==
  ASSUME NEW p, Shape(p)
  PROVE  /\ Fields(Advanced(p), p.host, p.rng, p.f + 1, p.mem.fs.frame, p.mem.fs.rng,
                   p.mem.fs.acc, p.mem.fs.mobs, p.mem.q, p.mem.shake, p.mem.blob,
                   p.mem.cs)
         /\ Advanced(p).out = p.out /\ Advanced(p).mem = p.mem
  BY DEF Advanced, Fields, Shape, IsProc

\* What a frame of d, from p, leaves in r.
FrameDone(d, p, r) ==
  /\ Shape(r) /\ r.host = d /\ r.f = p.f
  /\ r.rng \in Nat /\ r.rng = r.mem.fs.rng /\ (Quiet => r.rng = p.rng)
  /\ r.mem.fs.frame = IF Commits THEN p.f + 1 ELSE p.f
  /\ r.mem.fs.acc.nan \in {"no", "canon", d}
  /\ QueueOK(r.mem.q) /\ Untracked(r.mem)
  /\ env.cart = "cutscene" /\ p.mem.blob.active => r.mem.blob.active
  /\ IF Prints(d) THEN r.out = <<Line(Canonical(Advanced(r)))>> ELSE r.out = <<>>

\* The iteration of a program that runs u: it prints u's digest or nothing.
Emitted(d, u, r) == IF Prints(d) THEN r = Digested(u) ELSE r = u /\ u.out = <<>>

LEMMA PlainFrame ==
  ASSUME NEW d, NEW p, NEW u, NEW r, ~Commits, Shape(u), u.host = d, u.f = p.f,
         u.rng \in Nat, u.rng = u.mem.fs.rng, Quiet => u.rng = p.rng,
         u.mem.fs.frame = p.f,
         u.mem.fs.acc.nan \in {"no", d}, QueueOK(u.mem.q), Untracked(u.mem),
         env.cart = "cutscene" /\ p.mem.blob.active => u.mem.blob.active,
         Emitted(d, u, r)
  PROVE  FrameDone(d, p, r)
  <1>1. CASE Prints(d)
    <2>1. /\ Fields(r, u.host, u.rng, u.f, u.mem.fs.frame, u.mem.fs.rng,
                    Canon32(u.mem.fs.acc), Canon32(u.mem.fs.mobs),
                    u.mem.q, u.mem.shake, u.mem.blob, u.mem.cs)
          /\ r.out = <<r.mem.fs>>
      BY <1>1, DigestedFields DEF Emitted
    <2>2. Canonical(Advanced(r)).mem.fs = r.mem.fs
      <3>1. Shape(r) /\ IsFS(r.mem.fs)  BY <2>1 DEF Fields, Shape
      <3>2. Shape(Advanced(r)) /\ Advanced(r).mem = r.mem
        BY <3>1, AdvancedFields DEF Fields
      <3>3. Canonical(Advanced(r)).mem = CanonMem(r.mem)
        BY <3>2, CanonicalFields
      <3>4. CanonMem(r.mem).fs = CanonFS(r.mem.fs)
        BY <3>1, CanonMemFields DEF Shape
      <3>5. CanonFS(r.mem.fs) = r.mem.fs
        BY <2>1, <3>1, CanonFSFixed DEF Fields
      <3>. QED  BY <3>3, <3>4, <3>5
    <2>3. r.mem.fs.acc.nan \in {"no", "canon", d}
      BY <2>1, NaNOfHost, ZenonT(60) DEF Fields
    <2>4. Untracked(r.mem)
      BY <2>1 DEF Fields, Untracked
    <2>. QED  BY <1>1, <2>1, <2>2, <2>3, <2>4 DEF Fields, Line, FrameDone
  <1>2. CASE ~Prints(d)
    BY <1>2 DEF Emitted, FrameDone
  <1>. QED  BY <1>1, <1>2

LEMMA CommittedFrame ==
  ASSUME NEW d, NEW p, NEW r, NEW a, NEW m, Commits, Shape(r), r.host = d, r.f = p.f,
         r.rng \in Nat, r.rng = r.mem.fs.rng, r.mem.fs.frame = p.f + 1,
         r.mem.fs.acc = Canon32(a), r.mem.fs.mobs = Canon32(m), a.nan \in {"no", d},
         QueueOK(r.mem.q), Untracked(r.mem),
         r.out = <<[r.mem.fs EXCEPT !.frame = @ - 1]>>
  PROVE  FrameDone(d, p, r)
  <1>1. Shape(Advanced(r)) /\ Advanced(r).mem = r.mem
    BY AdvancedFields DEF Fields
  <1>2. Canonical(Advanced(r)).mem = CanonMem(r.mem)
    BY <1>1, CanonicalFields
  <1>3. CanonMem(r.mem).fs = CanonFS(r.mem.fs) /\ CanonFS(r.mem.fs) = r.mem.fs
    BY CanonMemFields, CanonFSFixed DEF Shape
  <1>4. r.out = <<Line(Canonical(Advanced(r)))>>
    BY <1>2, <1>3 DEF Line
  <1>5. r.mem.fs.acc.nan \in {"no", "canon", d}
    BY NaNOfHost
  <1>6. Prints(d) /\ env.cart # "cutscene" /\ ~Quiet
    BY DEF Prints, Commits, Quiet
  <1>. QED  BY <1>4, <1>5, <1>6 DEF FrameDone

LEMMA FrameKeeps ==
  ASSUME EnvOK, NEW d \in Programs(env.cart), NEW p, Good(d, p)
  PROVE  FrameDone(d, p, Frame(d, p, env))
  <1>1. /\ Shape(p) /\ p.host = d /\ p.f \in Nat /\ p.rng \in Nat
        /\ p.mem.fs.rng \in Nat /\ p.mem.fs.frame \in Nat
        /\ QueueOK(p.mem.q) /\ Untracked(p.mem)
        /\ Prints(d) \/ p.out = <<>>
        /\ Commits => p.mem.fs.frame = p.f
        /\ ~Commits => p.rng = p.mem.fs.rng
    BY DEF Good
  <1>2. CASE env.cart = "audio"
    <2>. DEFINE u == AudioUpdate(p, env)
    <2>1. ~Commits /\ Regions(env.cart) = {"fs", "q"}
      BY <1>2 DEF Commits, Regions
    <2>2. /\ Shape(u) /\ u.host = d /\ u.f = p.f /\ u.rng = p.rng
          /\ u.mem.fs.rng = p.mem.fs.rng /\ u.mem.fs.frame = p.f
          /\ u.mem.q = MixerReports(Applied(p.mem.q), env.ends, p.f)
          /\ u.mem.shake = p.mem.shake /\ u.mem.blob = p.mem.blob
          /\ u.mem.cs = p.mem.cs /\ u.out = p.out
      BY <1>1, AudioUpdateFields, ZenonT(60) DEF Fields
    <2>3. \E x, y : u.mem.fs.acc = Add32(d, x, y)
      BY <1>1 DEF AudioUpdate, Shape, IsProc, IsMem, IsFS
    <2>4. u.mem.fs.acc.nan \in {"no", d}
      BY <2>3, NaNOfHost
    <2>5. QueueOK(u.mem.q)
      BY <1>1, <2>2, AppliedOK, MixerReportsOK
    <2>6. Emitted(d, u, Frame(d, p, env))
      BY <1>1, <1>2, <2>1, <2>2 DEF Programs, Prints, Emitted, Frame, FullFrame,
                    SaveFrame, LoadFrame, AudioFull, AudioSave, AudioLoad
    <2>7. Untracked(u.mem)
      BY <1>1, <2>1, <2>2 DEF Untracked
    <2>. HIDE DEF u
    <2>. QED  BY <1>1, <1>2, <2>1, <2>2, <2>4, <2>5, <2>6, <2>7, PlainFrame
  <1>3. CASE env.cart = "shake"
    <2>. DEFINE x == IF d = "load" THEN p ELSE Triggered(p)
                u == ShakeStep(x)
    <2>1. ~Commits /\ Regions(env.cart) = {"fs", "shake"}
      BY <1>3 DEF Commits, Regions
    <2>2. /\ Shape(x) /\ x.host = d /\ x.f = p.f /\ x.rng = p.rng
          /\ x.mem.fs.rng = p.mem.fs.rng /\ x.out = p.out
          /\ x.mem.q = p.mem.q /\ x.mem.blob = p.mem.blob /\ x.mem.cs = p.mem.cs
      BY <1>1, TriggeredFields DEF Fields
    <2>. HIDE DEF x
    <2>4. /\ Shape(u) /\ u.host = d /\ u.f = p.f /\ u.rng = p.rng
          /\ u.mem.fs.rng = p.mem.fs.rng /\ u.mem.fs.frame = p.f
          /\ u.mem.q = p.mem.q /\ u.mem.blob = p.mem.blob
          /\ u.mem.cs = p.mem.cs /\ u.out = p.out
      BY <2>2, ShakeStepFields DEF Fields
    <2>5. u.mem.fs.acc.nan \in {"no", d}
      BY <2>2, ShakeStepFields, NaNOfHost DEF Fields
    <2>6. Untracked(u.mem)
      BY <1>1, <2>1, <2>4 DEF Untracked
    <2>7. Emitted(d, u, Frame(d, p, env))
      BY <1>1, <1>3, <2>1, <2>4 DEF Emitted, Programs, Prints, Frame, FullFrame,
                    SaveFrame, LoadFrame, ShakeFull, ShakeSave, ShakeLoad, x
    <2>. HIDE DEF u
    <2>. QED  BY <1>1, <1>3, <2>1, <2>4, <2>5, <2>6, <2>7, PlainFrame
  <1>4. CASE env.cart = "cutscene"
    <2>. DEFINE u == CutsceneStep(p, env)
                n == BlobRead(p.mem.blob, env.stack[p.host]) + 1
    <2>1. ~Commits /\ Regions(env.cart) = {"fs", "blob"}
      BY <1>4 DEF Commits, Regions
    <2>2. /\ Shape(u) /\ u.host = d /\ u.f = p.f /\ u.rng = p.rng
          /\ u.mem.fs.rng = p.mem.fs.rng /\ u.mem.fs.frame = p.f
          /\ u.mem.q = p.mem.q /\ u.mem.shake = p.mem.shake
          /\ u.mem.blob = [p.mem.blob EXCEPT !.step = n]
          /\ u.mem.cs = p.mem.cs /\ u.out = p.out
          /\ u.mem.fs.acc = Add32(d, p.mem.fs.acc, F32(<<n>>))
      BY <1>1, CutsceneStepFields DEF Fields
    <2>3. u.mem.fs.acc.nan \in {"no", d}
      BY <2>2, NaNOfHost
    <2>4. Untracked(u.mem)
      BY <1>1, <2>1, <2>2 DEF Untracked
    <2>5. Emitted(d, u, Frame(d, p, env))
      BY <1>1, <1>4, <2>1, <2>2 DEF Programs, Prints, Emitted, Frame, FullFrame,
                    SaveFrame, LoadFrame, CutsceneFull, CutsceneSave, CutsceneLoad
    <2>. HIDE DEF u, n
    <2>6. p.mem.blob.active => u.mem.blob.active
      BY <2>2
    <2>. QED  BY <1>1, <2>1, <2>2, <2>3, <2>4, <2>5, <2>6, PlainFrame
  <1>5. CASE env.cart = "whetstone"
    <2>. DEFINE u == WhetstoneModules(p, env)
    <2>1. ~Commits /\ Regions(env.cart) = {"fs", "cs"}
      BY <1>5 DEF Commits, Regions
    <2>2. /\ Shape(u) /\ u.host = d /\ u.f = p.f /\ u.rng = p.rng + 1
          /\ u.mem.fs.rng = p.rng + 1 /\ u.mem.fs.frame = p.f
          /\ u.mem.q = p.mem.q /\ u.mem.shake = p.mem.shake
          /\ u.mem.blob = p.mem.blob /\ u.out = p.out
          /\ u.mem.fs.acc = Add32(d, p.mem.fs.acc, StateUpdate(p, env))
      BY <1>1, WhetstoneFields DEF Fields
    <2>3. u.mem.fs.acc.nan \in {"no", d}
      BY <2>2, NaNOfHost
    <2>4. Untracked(u.mem)
      BY <1>1, <2>1, <2>2 DEF Untracked
    <2>5. Emitted(d, u, Frame(d, p, env))
      BY <1>1, <1>5, <2>1, <2>2 DEF Programs, Prints, Emitted, Frame, FullFrame,
                    SaveFrame, LoadFrame, WhetstoneFull, WhetstoneSave, WhetstoneLoad
    <2>. HIDE DEF u
    <2>6. u.rng \in Nat /\ u.rng = u.mem.fs.rng /\ ~Quiet
      BY <1>1, <1>5, <2>2 DEF Quiet
    <2>. QED  BY <1>1, <1>5, <2>1, <2>2, <2>3, <2>4, <2>5, <2>6, PlainFrame
  <1>6. CASE env.cart = "lua"
    <2>. DEFINE r == LuaFrame(p, env)
                a == Add32(d, p.mem.fs.acc, StateUpdate(p, env))
    <2>1. Commits /\ Regions(env.cart) = {"fs", "cs"}
      BY <1>6 DEF Commits, Regions
    <2>2. /\ Shape(r) /\ r.host = d /\ r.f = p.f /\ r.rng = p.rng
          /\ r.mem.fs.rng = p.rng /\ r.mem.fs.frame = p.mem.fs.frame + 1
          /\ r.mem.fs.acc = Canon32(a) /\ r.mem.fs.mobs = Canon32(p.mem.fs.mobs)
          /\ r.mem.q = p.mem.q /\ r.mem.shake = p.mem.shake /\ r.mem.blob = p.mem.blob
          /\ r.out = <<[r.mem.fs EXCEPT !.frame = @ - 1]>>
      BY <1>1, LuaFrameFields DEF Fields
    <2>3. a.nan \in {"no", d}
      BY NaNOfHost
    <2>4. Untracked(r.mem)
      BY <1>1, <2>1, <2>2 DEF Untracked
    <2>5. Frame(d, p, env) = r
      BY <1>6 DEF Programs, Frame, FullFrame, SaveFrame, LoadFrame
    <2>. HIDE DEF r, a
    <2>. QED  BY <1>1, <2>1, <2>2, <2>3, <2>4, <2>5, CommittedFrame
  <1>7. CASE env.cart = "direct"
    <2>. DEFINE r == DirectFrame(p, env)
                u == StateUpdate(p, env)
                a == Add32(d, p.mem.fs.acc, u)
    <2>1. Commits /\ Regions(env.cart) = {"fs", "cs"}
      BY <1>7 DEF Commits, Regions
    <2>2. /\ Shape(r) /\ r.host = d /\ r.f = p.f /\ r.rng = p.rng + 1
          /\ r.mem.fs.rng = p.rng + 1 /\ r.mem.fs.frame = p.mem.fs.frame + 1
          /\ r.mem.fs.acc = Canon32(a) /\ r.mem.fs.mobs = Canon32(u)
          /\ r.mem.q = p.mem.q /\ r.mem.shake = p.mem.shake /\ r.mem.blob = p.mem.blob
          /\ r.out = <<[r.mem.fs EXCEPT !.frame = @ - 1]>>
      BY <1>1, DirectFrameFields DEF Fields
    <2>3. a.nan \in {"no", d}
      BY NaNOfHost
    <2>4. Untracked(r.mem)
      BY <1>1, <2>1, <2>2 DEF Untracked
    <2>5. Frame(d, p, env) = r
      BY <1>7 DEF Programs, Frame, FullFrame, DirectFull, DirectWasm
    <2>. HIDE DEF r, a, u
    <2>6. r.rng \in Nat /\ r.rng = r.mem.fs.rng
      BY <1>1, <2>2
    <2>. QED  BY <1>1, <2>1, <2>2, <2>3, <2>4, <2>5, <2>6, CommittedFrame
  <1>. QED  BY <1>2, <1>3, <1>4, <1>5, <1>6, <1>7 DEF EnvOK, Carts

------------------------------------------------------------------------------
(***************************************************************************)
(* The processes before their first frame.                                 *)
(***************************************************************************)
LEMMA StartedEmpty ==
  ASSUME NEW q, NEW h \in 1 .. 2, q.view \subseteq 1 .. 2, q.pending = <<>>
  PROVE  /\ Started(q, h).view \subseteq 1 .. 2 /\ Started(q, h).pending = <<>>
         /\ QueueOK(Started(q, h))
  <1>1. Kept(q, h) = {}  BY DEF Kept
  <1>2. Cardinality(Kept(q, h)) = 0  BY <1>1, FS_EmptySet
  <1>3. Started(q, h).pending = <<>>  BY <1>2 DEF Started
  <1>4. Started(q, h) = [view |-> q.view \cup {h}, pending |-> <<>>]
    BY <1>3 DEF Started
  <1>. QED  BY <1>4, PendingAssumption DEF QueueOK, QueueLoads

StartQueue == Started(Started(EmptyQueue, 1), 2)

LEMMA StartQueueOK == QueueOK(StartQueue) /\ QueueOK(EmptyQueue)
  <1>1. QueueOK(EmptyQueue)
    BY PendingAssumption DEF EmptyQueue, QueueOK, QueueLoads
  <1>2. EmptyQueue.view \subseteq 1 .. 2 /\ EmptyQueue.pending = <<>>
    BY DEF EmptyQueue
  <1>. QED  BY <1>1, <1>2, StartedEmpty DEF StartQueue

LEMMA ProcessFields ==
  ASSUME NEW d
  PROVE  Fields(Process(d), d, 0, 0, 0, 0, Zero32, Zero32, EmptyQueue, FreshShake,
                FreshBlob, Zero32) /\ Process(d).out = <<>>
         /\ Process(d).mem = FreshMem
  BY DEF Fields, Process, FreshMem, FreshFrameState, Shape, IsProc, IsMem, IsFS

LEMMA StartFields ==
  ASSUME NEW d, NEW cart \in Carts
  PROVE  LET r == StartCart(cart, Process(d)) IN
         /\ Fields(r, d, IF cart \in {"lua", "direct"} THEN 1 ELSE 0, 0, 0, 0,
                   Zero32, Zero32, IF cart = "audio" THEN StartQueue ELSE EmptyQueue,
                   FreshShake, IF cart = "cutscene" THEN ActiveBlob ELSE FreshBlob,
                   IF cart = "lua" THEN F32(<<"init">>)
                   ELSE IF cart = "direct" THEN F32(<<"init", "naive">>) ELSE Zero32)
         /\ r.out = <<>>
  <1>. DEFINE p == Process(d)
  <1>1. Fields(p, d, 0, 0, 0, 0, Zero32, Zero32, EmptyQueue, FreshShake,
               FreshBlob, Zero32) /\ p.out = <<>>
    BY ProcessFields
  <1>. HIDE DEF p
  <1>2. CASE cart = "audio"
    BY <1>1, <1>2 DEF p, StartCart, AudioStart, StartQueue, Fields, Shape, IsProc, IsMem, IsFS
  <1>3. CASE cart = "cutscene"
    BY <1>1, <1>3 DEF p, StartCart, CutsceneStart, Fields, Shape, IsProc, IsMem, IsFS
  <1>4. CASE cart = "lua"
    BY <1>1, <1>4 DEF p, StartCart, LuaStart, Fields, Shape, IsProc, IsMem, IsFS
  <1>5. CASE cart = "direct"
    BY <1>1, <1>5 DEF p, StartCart, DirectStart, Parsed, Fields, Shape, IsProc, IsMem, IsFS
  <1>6. CASE cart \in {"shake", "whetstone"}
    BY <1>1, <1>6 DEF p, StartCart
  <1>. QED  BY <1>2, <1>3, <1>4, <1>5, <1>6 DEF Carts

LEMMA StartGood ==
  ASSUME EnvOK, NEW d \in Drivers
  PROVE  LET r == StartCart(env.cart, Process(d)) IN
         /\ Good(d, r) /\ r.f = 0
         /\ env.cart = "cutscene" => r.mem.blob.active
         /\ Canonical(r) = Canonical(StartCart(env.cart, Process("full")))
  <1>. DEFINE r == StartCart(env.cart, Process(d))
              e == StartCart(env.cart, Process("full"))
  <1>1. env.cart \in Carts  BY DEF EnvOK
  <1>2. /\ Fields(r, d, IF Commits THEN 1 ELSE 0, 0, 0, 0,
                   Zero32, Zero32, IF env.cart = "audio" THEN StartQueue ELSE EmptyQueue,
                   FreshShake, IF env.cart = "cutscene" THEN ActiveBlob ELSE FreshBlob,
                   r.mem.cs)
        /\ r.out = <<>>
        /\ env.cart \notin {"lua", "direct"} => r.mem.cs = Zero32
    BY <1>1, StartFields DEF Commits, Fields
  <1>3. Alike(r, e) /\ Shape(r) /\ Shape(e)
    BY <1>1, StartFields, SameRefl DEF Alike, Fields
  <1>. HIDE DEF r, e
  <1>4. Canonical(r) = Canonical(e)
    BY <1>3, AlikeCanonical
  <1>5. Untracked(r.mem)
    <2>1. Regions(env.cart) = {"fs"} \cup
            CASE env.cart = "audio" -> {"q"} [] env.cart = "shake" -> {"shake"}
              [] env.cart = "cutscene" -> {"blob"} [] OTHER -> {"cs"}
      BY <1>1 DEF Regions, Carts
    <2>2. FreshMem.q = EmptyQueue /\ FreshMem.shake = FreshShake
          /\ FreshMem.blob = FreshBlob /\ FreshMem.cs = Zero32
      BY DEF FreshMem
    <2>3. /\ env.cart # "audio" => r.mem.q = EmptyQueue
          /\ r.mem.shake = FreshShake
          /\ env.cart # "cutscene" => r.mem.blob = FreshBlob
      BY <1>2 DEF Fields
    <2>. QED  BY <1>1, <1>2, <2>1, <2>2, <2>3 DEF Untracked, Carts
  <1>6. QueueOK(r.mem.q)
    BY <1>2, StartQueueOK DEF Fields
  <1>7. r.mem.fs.acc.nan = "no"
    BY <1>2 DEF Fields, Zero32
  <1>8. Good(d, r)
    BY <1>2, <1>5, <1>6, <1>7 DEF Good, Fields, Quiet, Commits
  <1>9. env.cart = "cutscene" => r.mem.blob.active
    BY <1>2 DEF Fields, ActiveBlob
  <1>. QED  BY <1>2, <1>4, <1>8, <1>9 DEF Fields, r, e

LEMMA ProcessGood ==
  ASSUME EnvOK, NEW d \in Drivers
  PROVE  Good(d, Process(d)) /\ Process(d).f = 0
  <1>1. /\ Fields(Process(d), d, 0, 0, 0, 0, Zero32, Zero32, EmptyQueue, FreshShake,
                  FreshBlob, Zero32)
        /\ Process(d).out = <<>> /\ Process(d).mem = FreshMem
    BY ProcessFields
  <1>2. Untracked(Process(d).mem)  BY <1>1 DEF Untracked
  <1>3. Zero32.nan = "no"  BY DEF Zero32
  <1>. QED  BY <1>1, <1>2, <1>3, StartQueueOK DEF Good, Fields

(* The load program's process is alike the save program's: every tracked   *)
(* region comes from the buffer, the others were never written, and the    *)
(* loop variable and the rng are taken from frame_state.                   *)
LEMMA ResumedGood ==
  ASSUME EnvOK, env.cart # "direct", NEW s, Good("save", s), Ran(s),
         env.cart = "cutscene" => s.mem.blob.active
  PROVE  LET r == ResumeCart(env.cart, Process("load"),
                             Tracked(env.cart, CanonMem(s.mem))) IN
         /\ Good("load", r) /\ Ran(r) /\ r.f = s.f
         /\ env.cart = "cutscene" => r.mem.blob.active
         /\ Canonical(r) = Canonical(s)
  <1>. DEFINE m == CanonMem(s.mem)
              t == Tracked(env.cart, m)
              l == LoadIn(Process("load"), t)
              r == ResumeCart(env.cart, Process("load"), t)
  <1>1. /\ Shape(s) /\ s.f \in Nat /\ s.rng \in Nat /\ s.mem.fs.rng \in Nat
        /\ s.mem.fs.frame \in Nat /\ s.rng = s.mem.fs.rng
        /\ s.f = IF Commits THEN s.mem.fs.frame ELSE s.mem.fs.frame + 1
        /\ QueueOK(s.mem.q) /\ Untracked(s.mem)
        /\ s.mem.fs.acc.nan \in {"no", "canon", "save"}
    BY DEF Good, Ran
  <1>2. /\ IsMem(m) /\ IsFS(m.fs)
        /\ m.fs.frame = s.mem.fs.frame /\ m.fs.rng = s.mem.fs.rng
        /\ m.fs.acc = Canon32(s.mem.fs.acc) /\ m.fs.mobs = Canon32(s.mem.fs.mobs)
        /\ m.q = s.mem.q /\ m.shake = s.mem.shake /\ m.blob = s.mem.blob
        /\ m.cs = Canon32(s.mem.cs)
    BY <1>1, CanonMemFields DEF Shape
  <1>3. Untracked(m)
    <2>1. FreshMem.cs = Zero32 /\ Canon32(Zero32) = Zero32
      BY DEF FreshMem, Zero32, Canon32
    <2>. HIDE DEF m
    <2>. QED  BY <1>1, <1>2, <2>1 DEF Untracked
  <1>4. /\ DOMAIN t = Regions(env.cart) /\ \A x \in Regions(env.cart) : t[x] = m[x]
        /\ Regions(env.cart) \subseteq {"fs", "q", "shake", "blob", "cs"}
        /\ "fs" \in Regions(env.cart)
    BY DEF EnvOK, Carts, Tracked, Regions
  <1>. HIDE DEF m, t
  <1>5. /\ IsProc(Process("load")) /\ Process("load").mem = FreshMem
        /\ DOMAIN FreshMem = {"fs", "q", "shake", "blob", "cs"}
        /\ Process("load").host = "load" /\ Process("load").out = <<>>
        /\ Process("load").rng = 0
    BY DEF Process, FreshMem, IsProc
  <1>6. l.mem = [x \in {"fs", "q", "shake", "blob", "cs"} |-> m[x]]
    <2>1. l.mem = [x \in {"fs", "q", "shake", "blob", "cs"} |->
                     IF x \in DOMAIN t THEN t[x] ELSE FreshMem[x]]
      BY <1>5 DEF LoadIn, IsProc
    <2>2. ASSUME NEW x \in {"fs", "q", "shake", "blob", "cs"}
          PROVE  (IF x \in DOMAIN t THEN t[x] ELSE FreshMem[x]) = m[x]
      BY <1>3, <1>4 DEF Untracked
    <2>. QED  BY <2>1, <2>2
  <1>7. /\ IsProc(l) /\ l.host = "load" /\ l.out = <<>> /\ l.rng = 0
    BY <1>5 DEF LoadIn, IsProc
  <1>8. /\ l.mem.fs = m.fs /\ l.mem.q = m.q /\ l.mem.shake = m.shake
        /\ l.mem.blob = m.blob /\ l.mem.cs = m.cs /\ IsMem(l.mem)
    BY <1>6 DEF IsMem
  <1>9. Shape(l)  BY <1>2, <1>7, <1>8 DEF Shape
  <1>10. /\ Fields(r, "load", s.rng, s.f, m.fs.frame, m.fs.rng, m.fs.acc, m.fs.mobs,
                   m.q, m.shake, m.blob, m.cs)
         /\ r.out = <<>>
    <2>. HIDE DEF l
    <2>1. CASE env.cart \in {"audio", "shake", "cutscene"}
      <3>1. r = [l EXCEPT !.f = l.mem.fs.frame + 1]
        BY <2>1 DEF ResumeCart, AudioResume, ShakeResume, CutsceneResume, Resumed, l
      <3>2. s.f = m.fs.frame + 1 /\ ~Commits
        BY <1>1, <1>2, <2>1 DEF Commits
      <3>3. s.rng = 0
        BY <2>1 DEF Good, Quiet
      <3>. QED  BY <1>2, <1>7, <1>8, <1>9, <3>1, <3>2, <3>3 DEF Fields, Shape, IsProc
    <2>2. CASE env.cart = "whetstone"
      <3>. DEFINE k == [l EXCEPT !.f = l.mem.fs.frame + 1]
      <3>1. r = [k EXCEPT !.rng = k.mem.fs.rng]
        BY <2>2 DEF ResumeCart, WhetstoneResume, Resumed, l
      <3>2. s.f = m.fs.frame + 1
        BY <1>1, <1>2, <2>2 DEF Commits
      <3>3. IsProc(k) /\ k.host = "load" /\ k.out = <<>> /\ k.f = s.f /\ k.mem = l.mem
        BY <1>7, <1>8, <3>2 DEF IsProc
      <3>. HIDE DEF k
      <3>4. /\ IsProc(r) /\ r.host = "load" /\ r.out = <<>> /\ r.f = s.f
            /\ r.mem = l.mem /\ r.rng = m.fs.rng
        BY <1>8, <3>1, <3>3 DEF IsProc
      <3>. QED  BY <1>1, <1>2, <1>8, <1>9, <3>4 DEF Fields, Shape
    <2>3. CASE env.cart = "lua"
      <3>1. r = [l EXCEPT !.rng = l.mem.fs.rng, !.f = l.mem.fs.frame]
        BY <2>3 DEF ResumeCart, LuaResume, l
      <3>2. s.f = m.fs.frame
        BY <1>1, <1>2, <2>3 DEF Commits
      <3>3. /\ IsProc(r) /\ r.host = "load" /\ r.out = <<>> /\ r.f = s.f
            /\ r.mem = l.mem /\ r.rng = m.fs.rng
        BY <1>7, <1>8, <3>1, <3>2, ZenonT(60) DEF IsProc
      <3>. QED  BY <1>1, <1>2, <1>8, <1>9, <3>3 DEF Fields, Shape
    <2>. QED  BY <2>1, <2>2, <2>3 DEF EnvOK, Carts
  <1>. HIDE DEF r
  <1>11. Alike(r, s)
    BY <1>2, <1>10, SameCanon DEF Alike, Fields
  <1>12. Canonical(r) = Canonical(s)
    BY <1>1, <1>10, <1>11, AlikeCanonical DEF Fields
  <1>13. Untracked(r.mem)
    BY <1>3, <1>10 DEF Untracked, Fields
  <1>14. r.mem.fs.acc.nan \in {"no", "canon"}
    BY <1>2, <1>10 DEF Fields, Canon32, NaN32
  <1>15. Good("load", r) /\ Ran(r)
    BY <1>1, <1>2, <1>10, <1>13, <1>14 DEF Good, Ran, Fields, Prints
  <1>16. env.cart = "cutscene" => r.mem.blob.active
    BY <1>2, <1>10 DEF Fields
  <1>. QED  BY <1>10, <1>12, <1>15, <1>16 DEF r, t, m, Fields

------------------------------------------------------------------------------
(***************************************************************************)
(* The invariant is inductive.                                             *)
(***************************************************************************)
LEMMA InitReplay == Init => ReplayInv
  <1>. SUFFICES ASSUME Init PROVE ReplayInv
    OBVIOUS
  <1>1. EnvOK
    BY FramesAssumption, ShakeAssumption DEF Init, EnvOK, SaveFrames
  <1>2. StageOK
    BY DEF Init, StageOK, Drivers, Programs
  <1>3. FileOK
    BY DEF Init, FileOK, Drivers, Programs
  <1>4. ASSUME NEW d \in Drivers
        PROVE  /\ Good(d, proc[d]) /\ Chained(d) /\ Agrees(d) /\ Printed(d)
               /\ IF stage[d] = "off" THEN NotStarted(d) ELSE Counted(d)
    <2>1. /\ states[d] = <<>> /\ digests[d] = <<>>
          /\ proc[d] = IF d = "load" THEN Process(d) ELSE StartCart(env.cart, Process(d))
          /\ stage[d] \in {"off", "running"}
          /\ stage[d] # "off" => d # "load"
      BY DEF Init
    <2>2. Good(d, proc[d]) /\ proc[d].f = 0
      BY <1>1, <2>1, ProcessGood, StartGood
    <2>3. Agrees(d) /\ Printed(d)
      <3>1. Len(states[d]) = 0 /\ Len(digests[d]) = 0 /\ IsSeq(digests[d])
        BY <2>1, EmptyIsSeq
      <3>. QED  BY <2>1, <3>1 DEF Agrees, Printed
    <2>4. Chained(d)
      <3>1. stage[d] # "off" => Canonical(proc[d]) = Seed(d)
        BY <1>1, <2>1, StartGood DEF Seed
      <3>2. Len(states[d]) = 0 /\ IsSeq(states[d])
        BY <2>1, EmptyIsSeq
      <3>. QED  BY <3>1, <3>2 DEF Chained, Before
    <2>5. CASE stage[d] = "off"
      BY <2>1, <2>2, <2>3, <2>4, <2>5 DEF NotStarted
    <2>6. CASE stage[d] # "off"
      <3>1. env.cart = "cutscene" => proc[d].mem.blob.active
        BY <1>1, <2>1, <2>6, StartGood
      <3>2. LastFrame(d) \in Nat
        BY <1>1, FramesAssumption DEF EnvOK, LastFrame
      <3>3. Len(states[d]) = 0
        BY <2>1, EmptyIsSeq
      <3>4. Counted(d)
        BY <2>1, <2>2, <2>6, <3>1, <3>2, <3>3 DEF Counted, FirstFrame
      <3>. QED  BY <2>2, <2>3, <2>4, <2>6, <3>4
    <2>. QED  BY <2>2, <2>3, <2>4, <2>5, <2>6
  <1>5. PerDriver
    BY DEF Init, PerDriver
  <1>. QED  BY <1>1, <1>2, <1>3, <1>4, <1>5 DEF ReplayInv

(* The states before frames of the same number are the same.               *)
LEMMA BeforeAgrees ==
  ASSUME ReplayInv, NEW e \in Drivers, stage[e] # "off",
         NEW i \in 1 .. (Len(states[e]) + 1),
         FirstFrame(e) + i <= Len(states["full"]) + 1
  PROVE  Before(e, i) = Before("full", FirstFrame(e) + i)
  <1>1. saveFrame \in Nat /\ Len(states[e]) \in Nat /\ Len(states["full"]) \in Nat
    BY AppendIsSeq DEF ReplayInv, EnvOK, Chained, Drivers
  <1>2. CASE i # 1
    <2>1. states[e][i - 1] = states["full"][FirstFrame(e) + (i - 1)]
      <3>1. Agrees(e) /\ FirstFrame(e) \in Nat
        BY <1>1 DEF ReplayInv, FirstFrame
      <3>2. /\ i - 1 \in 1 .. Len(states[e])
            /\ FirstFrame(e) + (i - 1) <= Len(states["full"])
        BY ONLY <1>1, <1>2, <3>1, i \in 1 .. (Len(states[e]) + 1),
                FirstFrame(e) + i <= Len(states["full"]) + 1
      <3>. QED  BY ONLY <3>1, <3>2, Zenon DEF Agrees
    <2>. QED  BY <1>1, <1>2, <2>1 DEF Before, FirstFrame
  <1>3. CASE i = 1 /\ e # "load"
    BY <1>3 DEF Before, Seed, FirstFrame
  <1>4. CASE i = 1 /\ e = "load"
    <2>1. stage["save"] = "done"
      BY <1>4 DEF ReplayInv, StageOK
    <2>2. Len(states["save"]) = saveFrame + 1
      BY <2>1 DEF ReplayInv, FileOK
    <2>3. states["save"][saveFrame + 1] = states["full"][saveFrame + 1]
      BY <1>1, <1>4, <2>2 DEF ReplayInv, Agrees, FirstFrame, Drivers
    <2>. QED  BY <1>1, <1>4, <2>3 DEF Before, Seed, FirstFrame
  <1>. QED  BY <1>2, <1>3, <1>4

(* A frame of d extends its history by the step all histories take.        *)
LEMMA RunFrameStep ==
  ASSUME ReplayInv, NEW d \in Drivers, stage[d] = "running"
  PROVE  LET r == Advanced(Frame(d, proc[d], env)) IN
         /\ Good(d, r) /\ Ran(r) /\ r.f = proc[d].f + 1
         /\ env.cart = "cutscene" => r.mem.blob.active
         /\ Canonical(r) = StepOf(Before(d, Len(states[d]) + 1))
         /\ r.out = Frame(d, proc[d], env).out
         /\ IF Prints(d) THEN r.out = <<Line(Canonical(r))>> ELSE r.out = <<>>
  <1>. DEFINE p == proc[d]
              g == Frame(d, p, env)
              r == Advanced(g)
              c == Canonical(p)
              x == [c EXCEPT !.host = "full"]
              h == Frame("full", x, env)
  <1>1. /\ EnvOK /\ d \in Programs(env.cart) /\ Good(d, p) /\ Counted(d)
        /\ Len(states[d]) \in Nat /\ c = Before(d, Len(states[d]) + 1)
    BY AppendIsSeq DEF ReplayInv, StageOK, Chained
  <1>2. Shape(p) /\ p.host = d /\ p.f \in Nat /\ p.mem.fs.frame \in Nat
    BY <1>1 DEF Good
  <1>3. FrameDone(d, p, g)
    BY <1>1, FrameKeeps
  <1>4. Shape(c) /\ Alike(c, p)
    BY <1>2, CanonicalFields
  <1>. HIDE DEF c
  <1>5. Shape(x) /\ x.host = "full" /\ Alike(p, x)
    BY <1>4 DEF Shape, IsProc, Alike, Same
  <1>6. env.cart = "shake" /\ d = "load" => p.f # ShakeTrigger
    <2>1. saveFrame \in Nat /\ (env.cart = "shake" => saveFrame >= ShakeTrigger)
      BY <1>1, FramesAssumption DEF EnvOK
    <2>2. d = "load" => p.f = saveFrame + 1 + Len(states[d])
      BY <1>1 DEF Counted, FirstFrame
    <2>3. Len(states[d]) \in Nat /\ ShakeTrigger \in Nat
      BY <1>1, ShakeAssumption
    <2>4. ASSUME env.cart = "shake", d = "load" PROVE p.f > ShakeTrigger
      <3>. DEFINE n == Len(states[d])
                  f == p.f
      <3>1. n \in Nat /\ f = saveFrame + 1 + n /\ saveFrame >= ShakeTrigger
        BY <2>1, <2>2, <2>3, <2>4
      <3>. HIDE DEF n, f
      <3>2. f > ShakeTrigger
        BY <2>1, <2>3, <3>1
      <3>. QED  BY <3>2 DEF f
    <2>. QED  BY <2>3, <2>4
  <1>7. env.cart = "cutscene" => p.mem.blob.active
    BY <1>1 DEF Counted
  <1>. HIDE DEF x, p
  <1>8. Shape(g) /\ Shape(h) /\ Alike(g, h)
    BY <1>1, <1>2, <1>5, <1>6, <1>7, FrameAlike
  <1>. HIDE DEF g, h
  <1>9. /\ Fields(r, g.host, g.rng, g.f + 1, g.mem.fs.frame, g.mem.fs.rng,
                  g.mem.fs.acc, g.mem.fs.mobs, g.mem.q, g.mem.shake, g.mem.blob,
                  g.mem.cs)
        /\ r.out = g.out /\ r.mem = g.mem
    BY <1>8, AdvancedFields
  <1>10. Shape(r) /\ Shape(Advanced(h)) /\ Alike(r, Advanced(h))
    <2>1. Fields(Advanced(h), h.host, h.rng, h.f + 1, h.mem.fs.frame, h.mem.fs.rng,
                  h.mem.fs.acc, h.mem.fs.mobs, h.mem.q, h.mem.shake, h.mem.blob,
                  h.mem.cs)
      BY <1>8, AdvancedFields
    <2>. QED  BY <1>8, <1>9, <2>1 DEF Fields, Alike
  <1>11. Canonical(r) = StepOf(c)
    BY <1>10, AlikeCanonical DEF StepOf, h, x
  <1>12. Good(d, r)
    BY <1>1, <1>2, <1>3, <1>9 DEF FrameDone, Good, Fields
  <1>13. Ran(r)
    BY <1>2, <1>3, <1>9 DEF FrameDone, Ran, Fields
  <1>14. env.cart = "cutscene" => r.mem.blob.active
    BY <1>3, <1>7, <1>9 DEF FrameDone
  <1>15. IF Prints(d) THEN r.out = <<Line(Canonical(r))>> ELSE r.out = <<>>
    BY <1>3, <1>9 DEF FrameDone
  <1>16. r.f = p.f + 1
    BY <1>3, <1>9 DEF FrameDone, Fields
  <1>. QED  BY <1>1, <1>9, <1>11, <1>12, <1>13, <1>14, <1>15, <1>16 DEF p, g

LEMMA RunFrameKeeps ==
  ASSUME ReplayInv, NEW d \in Drivers, RunFrame(d)
  PROVE  ReplayInv'
  <1>. DEFINE g == Frame(d, proc[d], env)
              r == Advanced(g)
              b == Canonical(r)
  <1>0. PICK n \in Nat : n = Len(states[d])
    BY AppendIsSeq DEF ReplayInv, Chained
  <1>1. /\ stage[d] = "running" /\ proc[d].f <= LastFrame(d)
        /\ env' = env /\ saveFrame' = saveFrame /\ stage' = stage /\ file' = file
        /\ proc' = [proc EXCEPT ![d] = r]
        /\ digests' = [digests EXCEPT ![d] =
                         IF g.out = <<>> THEN @ ELSE Append(@, g.out[1])]
        /\ states' = [states EXCEPT ![d] = Append(@, Canonical(proc'[d]))]
    BY DEF RunFrame, Advanced
  <1>2. /\ Good(d, r) /\ Ran(r) /\ r.f = proc[d].f + 1
        /\ env.cart = "cutscene" => r.mem.blob.active
        /\ b = StepOf(Before(d, n + 1)) /\ r.out = g.out
        /\ IF Prints(d) THEN r.out = <<Line(b)>> ELSE r.out = <<>>
    BY <1>0, <1>1, RunFrameStep
  <1>. HIDE DEF g, r, b
  <1>3. /\ proc'[d] = r /\ states'[d] = Append(states[d], b)
        /\ digests'[d] = IF r.out = <<>> THEN digests[d] ELSE Append(digests[d], r.out[1])
        /\ \A e \in Drivers \ {d} : /\ proc'[e] = proc[e] /\ states'[e] = states[e]
                                    /\ digests'[e] = digests[e]
        /\ PerDriver'
    BY <1>1, <1>2 DEF ReplayInv, PerDriver, b
  <1>4. /\ IsSeq(states[d]) /\ n \in Nat /\ IsSeq(states'[d]) /\ Len(states'[d]) = n + 1
        /\ \A i \in 1 .. n : states'[d][i] = states[d][i]
        /\ states'[d][n + 1] = b
    BY <1>0, <1>3, AppendIsSeq DEF ReplayInv, Chained
  <1>5. EnvOK' /\ StageOK'
    BY <1>1 DEF ReplayInv, EnvOK, StageOK
  <1>6. stage["save"] = "done" => d # "save" /\ states'["save"] = states["save"]
    BY <1>1, <1>3 DEF Drivers
  <1>7. FileOK'
    BY <1>1, <1>6 DEF ReplayInv, FileOK
  <1>8. ASSUME NEW e \in Drivers PROVE Good(e, proc[e])'
    BY <1>1, <1>2, <1>3, SMTT(30) DEF ReplayInv, Good, Prints, Commits, Quiet, Untracked
  <1>9. ASSUME NEW e \in Drivers PROVE Printed(e)'
    <2>1. CASE e # d
      <3>1. Printed(e) /\ states'[e] = states[e] /\ digests'[e] = digests[e]
        BY <1>3, <2>1 DEF ReplayInv
      <3>. QED  BY <1>1, <3>1 DEF Printed, Prints, Line, Commits
    <2>2. CASE e = d
      <3>1. Printed(d) /\ (Prints(d)' <=> Prints(d))
        BY <1>1 DEF ReplayInv, Prints, Commits
      <3>2. CASE ~Prints(d)
        BY <1>2, <1>3, <2>2, <3>1, <3>2 DEF Printed
      <3>3. CASE Prints(d)
        <4>1. digests'[d] = Append(digests[d], Line(b))
          <5>1. r.out = <<Line(b)>>  BY <1>2, <3>3
          <5>2. r.out # <<>> /\ r.out[1] = Line(b)  BY <5>1
          <5>. QED  BY <1>3, <5>2
        <4>2. /\ IsSeq(digests[d]) /\ Len(digests[d]) = n
              /\ \A i \in 1 .. n : digests[d][i] = Line(states[d][i])
          BY <1>0, <3>1, <3>3 DEF Printed
        <4>3. /\ IsSeq(digests'[d]) /\ Len(digests'[d]) = n + 1
              /\ \A i \in 1 .. n : digests'[d][i] = digests[d][i]
              /\ digests'[d][n + 1] = Line(b)
          BY <4>1, <4>2, AppendIsSeq
        <4>4. \A i \in 1 .. n + 1 : digests'[d][i] = Line(states'[d][i])
          BY <1>4, <4>2, <4>3
        <4>5. ASSUME NEW i \in 1 .. n + 1 PROVE digests'[d][i] = Line(states[d][i])'
          <5>1. Line(states[d][i])' = Line(states'[d][i])
            BY <1>1 DEF Line, Commits
          <5>. QED  BY <4>4, <5>1
        <4>. QED  BY <1>4, <2>2, <3>1, <3>3, <4>3, <4>5 DEF Printed
      <3>. QED  BY <3>2, <3>3
    <2>. QED  BY <2>1, <2>2
  <1>10. ASSUME NEW c PROVE StepOf(c)' = StepOf(c)
    BY <1>1 DEF StepOf
  <1>11. ASSUME NEW e \in Drivers, stage[e] # "off" PROVE Seed(e)' = Seed(e)
    <2>1. CASE e # "load"
      BY <1>1, <2>1 DEF Seed
    <2>2. CASE e = "load"
      <3>1. stage["save"] = "done"  BY <1>11, <2>2 DEF ReplayInv, StageOK
      <3>. QED  BY <1>1, <1>6, <2>2, <3>1 DEF Seed
    <2>. QED  BY <2>1, <2>2
  <1>12. ASSUME NEW e \in Drivers, stage[e] # "off", NEW i \in 1 .. (Len(states[e]) + 1)
         PROVE  Before(e, i)' = Before(e, i)
    <2>1. CASE i = 1
      BY <1>11, <1>12, <2>1 DEF Before
    <2>2. CASE i # 1 /\ e # d
      BY <1>3, <2>2 DEF Before
    <2>3. CASE i # 1 /\ e = d
      BY <1>0, <1>4, <2>3 DEF Before
    <2>. QED  BY <2>1, <2>2, <2>3
  <1>13. ASSUME NEW e \in Drivers PROVE Chained(e)'
    <2>1. CASE stage[e] = "off"
      <3>1. states[e] = <<>> /\ states'[e] = <<>> /\ stage'[e] = "off"
        BY <1>1, <1>3, <2>1 DEF ReplayInv, NotStarted
      <3>2. IsSeq(states'[e]) /\ Len(states'[e]) = 0
        BY <3>1, EmptyIsSeq
      <3>. QED  BY <3>1, <3>2 DEF Chained
    <2>2. CASE stage[e] # "off" /\ e # d
      <3>1. Chained(e) /\ states'[e] = states[e] /\ proc'[e] = proc[e] /\ stage'[e] = stage[e]
        BY <1>1, <1>3, <2>2 DEF ReplayInv
      <3>2. Len(states[e]) \in Nat
        BY <3>1, AppendIsSeq DEF Chained
      <3>3. ASSUME NEW i \in 1 .. Len(states'[e])
            PROVE  states'[e][i] = StepOf(Before(e, i))'
        <4>1. Before(e, i)' = Before(e, i)
          BY <1>12, <2>2, <3>1, <3>2
        <4>2. StepOf(Before(e, i))' = StepOf(Before(e, i)')
          BY <1>1 DEF StepOf
        <4>. QED  BY <1>10, <3>1, <4>1, <4>2 DEF Chained
      <3>4. Before(e, Len(states[e]) + 1)' = Before(e, Len(states[e]) + 1)
        BY <1>12, <2>2, <3>1, <3>2 DEF Before
      <3>. QED  BY <3>1, <3>3, <3>4 DEF Chained, Canonical, CanonMem
    <2>3. CASE e = d
      <3>1. Chained(d)
        BY DEF ReplayInv
      <3>2. ASSUME NEW i \in 1 .. n + 1
            PROVE  states'[d][i] = StepOf(Before(d, i))'
        <4>1. Before(d, i)' = Before(d, i)
          BY <1>0, <1>1, <1>12
        <4>2. StepOf(Before(d, i))' = StepOf(Before(d, i))
          BY <1>1, <4>1 DEF StepOf
        <4>3. states'[d][i] = StepOf(Before(d, i))
          BY <1>0, <1>2, <1>4, <3>1 DEF Chained
        <4>. QED  BY <4>2, <4>3
      <3>3. (Canonical(proc[d]) = Before(d, Len(states[d]) + 1))'
        <4>1. Before(d, n + 2)' = b
          BY <1>4 DEF Before
        <4>2. Canonical(proc[d])' = b
          BY <1>3 DEF b
        <4>3. (Len(states[d]) + 1)' = n + 2
          BY <1>4
        <4>. QED  BY <4>1, <4>2, <4>3
      <3>. QED  BY <1>4, <2>3, <3>2, <3>3 DEF Chained
    <2>. QED  BY <2>1, <2>2, <2>3
  <1>14. ASSUME NEW e \in Drivers PROVE Agrees(e)'
    <2>. SUFFICES ASSUME NEW i \in 1 .. Len(states'[e]),
                         FirstFrame(e) + i <= Len(states'["full"])
                  PROVE  states'[e][i] = states'["full"][FirstFrame(e) + i]
      BY <1>1 DEF Agrees, FirstFrame
    <2>0. PICK ff \in Nat : ff = FirstFrame(e)
      BY DEF FirstFrame, ReplayInv, EnvOK
    <2>1. PICK m \in Nat : m = Len(states["full"])
      BY AppendIsSeq DEF ReplayInv, Chained, Drivers
    <2>2. PICK j \in Nat : j = Len(states[e])
      BY AppendIsSeq DEF ReplayInv, Chained
    <2>3. CASE e = "full"
      BY <2>3, <1>4, <2>2, <1>3 DEF FirstFrame
    <2>4. CASE i \in 1 .. j /\ ff + i <= m
      <3>1. states[e][i] = states["full"][ff + i]
        BY <2>0, <2>1, <2>2, <2>4 DEF ReplayInv, Agrees
      <3>2. states'[e][i] = states[e][i]
        BY <1>0, <1>3, <1>4, <2>2, <2>4
      <3>3. states'["full"][ff + i] = states["full"][ff + i]
        <4>1. ff + i \in 1 .. m
          BY <2>0, <2>1, <2>4
        <4>2. \A k \in 1 .. m : states'["full"][k] = states["full"][k]
          BY <1>0, <1>3, <1>4, <2>1 DEF Drivers
        <4>. QED  BY <4>1, <4>2
      <3>. QED  BY <2>0, <3>1, <3>2, <3>3
    <2>5. CASE e = d /\ e # "full" /\ i = n + 1
      <3>1. ff + i <= m /\ states'["full"] = states["full"]
        BY <1>3, <2>0, <2>1, <2>5 DEF Drivers
      <3>2. Before(e, i) = Before("full", FirstFrame(e) + i)
        BY <1>0, <1>1, <2>0, <2>1, <2>5, <3>1, BeforeAgrees
      <3>3. states["full"][ff + i] = StepOf(Before("full", ff + i))
        <4>1. ff + i \in 1 .. m
          BY <2>0, <2>1, <2>5, <3>1
        <4>. QED  BY <2>1, <4>1 DEF ReplayInv, Chained, Drivers
      <3>4. states'[e][i] = StepOf(Before(e, i))
        BY <1>2, <1>4, <2>5
      <3>. QED  BY <2>0, <3>1, <3>2, <3>3, <3>4
    <2>6. CASE d = "full" /\ e # "full" /\ ff + i = m + 1
      <3>1. states'[e] = states[e] /\ i \in 1 .. j /\ n = m
        BY <1>0, <1>3, <2>1, <2>2, <2>6
      <3>2. stage[e] # "off"
        <4>1. states[e] # <<>>
          BY <2>2, <3>1, EmptyIsSeq
        <4>. QED  BY <4>1 DEF ReplayInv, NotStarted
      <3>3. Before(e, i) = Before("full", FirstFrame(e) + i)
        BY <2>0, <2>1, <2>2, <2>6, <3>1, <3>2, BeforeAgrees
      <3>4. states[e][i] = StepOf(Before(e, i))
        BY <2>2, <3>1 DEF ReplayInv, Chained
      <3>5. states'["full"][m + 1] = StepOf(Before("full", m + 1))
        BY <1>2, <1>4, <2>6, <3>1
      <3>. QED  BY <2>0, <2>6, <3>1, <3>3, <3>4, <3>5
    <2>7. \/ i \in 1 .. j /\ ff + i <= m
          \/ e = "full"
          \/ e = d /\ e # "full" /\ i = n + 1
          \/ d = "full" /\ e # "full" /\ ff + i = m + 1
      <3>1. CASE d = "full" /\ e # "full"
        <4>1. Len(states'["full"]) = m + 1
          BY <1>0, <1>4, <2>1, <3>1
        <4>2. i \in 1 .. j
          BY <1>3, <2>2, <3>1
        <4>3. ff + i <= m + 1
          BY <2>0, <4>1
        <4>. QED  BY <2>0, <2>1, <2>2, <3>1, <4>2, <4>3
      <3>2. CASE d # "full"
        BY <1>0, <1>3, <1>4, <2>0, <2>1, <2>2, <3>2, SMTT(30) DEF Drivers
      <3>. QED  BY <3>1, <3>2
    <2>. QED  BY <2>3, <2>4, <2>5, <2>6, <2>7
  <1>15. ASSUME NEW e \in Drivers
         PROVE  (IF stage[e] = "off" THEN NotStarted(e) ELSE Counted(e))'
    <2>1. CASE e # d
      <3>1. /\ proc'[e] = proc[e] /\ states'[e] = states[e] /\ digests'[e] = digests[e]
            /\ stage'[e] = stage[e]
            /\ IF stage[e] = "off" THEN NotStarted(e) ELSE Counted(e)
        BY <1>1, <1>3, <2>1 DEF ReplayInv
      <3>. QED  BY <1>1, <3>1 DEF NotStarted, Counted, FirstFrame, LastFrame, Ran, Commits
    <2>2. CASE e = d
      <3>1. Counted(d)
        BY <1>1 DEF ReplayInv
      <3>2. PICK lf \in Nat : lf = LastFrame(d)
        BY FramesAssumption DEF LastFrame, ReplayInv, EnvOK
      <3>3. PICK ff \in Nat : ff = FirstFrame(d)
        BY DEF FirstFrame, ReplayInv, EnvOK
      <3>4. PICK f \in Nat : f = proc[d].f
        BY DEF ReplayInv, Good
      <3>5. LastFrame(d)' = lf /\ FirstFrame(d)' = ff /\ proc'[d].f = f + 1
        BY <1>1, <1>2, <1>3, <3>2, <3>3, <3>4 DEF LastFrame, FirstFrame
      <3>6. f = ff + n /\ f <= lf
        BY <1>0, <1>1, <3>1, <3>2, <3>3, <3>4 DEF Counted
      <3>7. /\ (proc[d].f = FirstFrame(d) + Len(states[d]))'
            /\ (proc[d].f <= LastFrame(d) + 1)'
        BY <1>4, <3>5, <3>6
      <3>8. Ran(proc[d])'
        BY <1>1, <1>2, <1>3 DEF Ran, Commits
      <3>9. (env.cart = "cutscene" => proc[d].mem.blob.active)'
        BY <1>1, <1>2, <1>3
      <3>10. stage'[d] = "running"
        BY <1>1
      <3>. QED  BY <2>2, <3>7, <3>8, <3>9, <3>10 DEF Counted
    <2>. QED  BY <2>1, <2>2
  <1>. QED  BY <1>3, <1>5, <1>7, <1>8, <1>9, <1>13, <1>14, <1>15 DEF ReplayInv

(* The other actions leave the histories alone.                            *)
LEMMA HistoriesKept ==
  ASSUME ReplayInv, UNCHANGED <<env, saveFrame, digests, states>>,
         NEW e \in Drivers
  PROVE  /\ Agrees(e)' /\ Printed(e)'
         /\ (stage[e] # "off" => Canonical(proc[e]) = Before(e, Len(states[e]) + 1))'
              => Chained(e)'
         /\ \A i \in Nat : Before(e, i)' = Before(e, i)
  <1>1. Agrees(e)' /\ Printed(e)'
    BY DEF ReplayInv, Agrees, Printed, FirstFrame, Prints, Line, Commits
  <1>2. ASSUME NEW i PROVE Before(e, i)' = Before(e, i)
    BY DEF Before, Seed
  <1>3. ASSUME NEW i \in 1 .. Len(states'[e])
        PROVE  states'[e][i] = StepOf(Before(e, i))'
    <2>1. StepOf(Before(e, i))' = StepOf(Before(e, i))
      BY <1>2 DEF StepOf
    <2>. QED  BY <2>1 DEF ReplayInv, Chained
  <1>4. IsSeq(states'[e])
    BY DEF ReplayInv, Chained
  <1>. QED  BY <1>1, <1>2, <1>3, <1>4 DEF Chained

LEMMA FinishKeeps ==
  ASSUME ReplayInv, NEW d \in Drivers, Finish(d)
  PROVE  ReplayInv'
  <1>1. /\ UNCHANGED <<env, saveFrame, proc, file, digests, states>>
        /\ d # "save" /\ stage[d] = "running" /\ proc[d].f > LastFrame(d)
        /\ stage' = [stage EXCEPT ![d] = "done"]
    BY DEF Finish
  <1>2. /\ PerDriver /\ EnvOK /\ StageOK /\ FileOK
        /\ \A e \in Drivers : Good(e, proc[e]) /\ Chained(e)
    BY DEF ReplayInv
  <1>3. StageOK' /\ PerDriver' /\ FileOK' /\ EnvOK'
    BY <1>1, <1>2 DEF StageOK, PerDriver, FileOK, EnvOK, Drivers
  <1>4. ASSUME NEW e \in Drivers PROVE Good(e, proc[e])'
    BY <1>1, <1>2 DEF Good, Commits, Quiet, Prints, Untracked
  <1>5. ASSUME NEW e \in Drivers PROVE Chained(e)'
    <2>1. PICK n \in Nat : n = Len(states[e])
      BY <1>2, AppendIsSeq DEF Chained
    <2>2. stage[e] # "off" => Canonical(proc[e]) = Before(e, n + 1)
      BY <1>2, <2>1 DEF Chained
    <2>3. (stage[e] # "off" => Canonical(proc[e]) = Before(e, n + 1))'
      BY <1>1, <1>2, <2>2, HistoriesKept DEF StageOK
    <2>. QED  BY <1>1, <2>1, <2>3, HistoriesKept
  <1>6. ASSUME NEW e \in Drivers
        PROVE  (IF stage[e] = "off" THEN NotStarted(e) ELSE Counted(e))'
    <2>1. CASE e # d
      <3>1. stage'[e] = stage[e] /\ (IF stage[e] = "off" THEN NotStarted(e) ELSE Counted(e))
        BY <1>1, <1>2, <2>1 DEF ReplayInv, StageOK
      <3>. QED  BY <1>1, <3>1 DEF NotStarted, Counted, FirstFrame, LastFrame, Ran, Commits
    <2>2. CASE e = d
      <3>1. Counted(d) /\ stage'[d] = "done"
        BY <1>1, <1>2 DEF ReplayInv, StageOK
      <3>2. PICK lf \in Nat : lf = LastFrame(d)
        BY FramesAssumption DEF LastFrame, ReplayInv, EnvOK
      <3>3. PICK f \in Nat : f = proc[d].f
        BY <1>2 DEF Good
      <3>4. f = lf + 1
        BY <1>1, <3>1, <3>2, <3>3 DEF Counted
      <3>. QED  BY <1>1, <2>2, <3>1, <3>2, <3>3, <3>4
             DEF Counted, FirstFrame, LastFrame, Ran, Commits
    <2>. QED  BY <2>1, <2>2
  <1>. QED  BY <1>1, <1>3, <1>4, <1>5, <1>6, HistoriesKept DEF ReplayInv

LEMMA SaveKeeps ==
  ASSUME ReplayInv, SaveBuffer
  PROVE  ReplayInv'
  <1>. DEFINE s == proc["save"]
              m == CanonMem(s.mem)
              r == [s EXCEPT !.mem = m]
  <1>1. /\ UNCHANGED <<env, saveFrame, digests, states>>
        /\ stage["save"] = "running" /\ s.f > saveFrame
        /\ stage' = [stage EXCEPT !["save"] = "done"]
        /\ file' = Tracked(env.cart, m)
        /\ proc' = [proc EXCEPT !["save"] = r]
    BY DEF SaveBuffer, LastFrame, SaveOut
  <1>2. /\ PerDriver /\ EnvOK /\ StageOK /\ "save" \in Drivers
        /\ \A e \in Drivers : Good(e, proc[e]) /\ Chained(e)
        /\ Counted("save")
    BY <1>1 DEF ReplayInv, Drivers
  <1>3. proc'["save"] = r /\ \A e \in Drivers \ {"save"} : proc'[e] = proc[e]
    BY <1>1, <1>2 DEF PerDriver
  <1>4. StageOK' /\ PerDriver' /\ EnvOK'
    BY <1>1, <1>2 DEF StageOK, PerDriver, EnvOK, Drivers
  <1>5. /\ Shape(s) /\ IsMem(m) /\ IsFS(m.fs)
        /\ m.fs.frame = s.mem.fs.frame /\ m.fs.rng = s.mem.fs.rng
        /\ m.fs.acc = Canon32(s.mem.fs.acc) /\ m.fs.mobs = Canon32(s.mem.fs.mobs)
        /\ m.q = s.mem.q /\ m.shake = s.mem.shake /\ m.blob = s.mem.blob
        /\ m.cs = Canon32(s.mem.cs)
    BY <1>2, CanonMemFields DEF Good, Shape
  <1>6. /\ IsProc(r) /\ r.mem = m /\ r.host = s.host /\ r.rng = s.rng /\ r.f = s.f
        /\ r.out = s.out
    BY <1>5 DEF Shape, IsProc
  <1>7. Shape(r) /\ Alike(r, s)
    BY <1>5, <1>6, SameCanon DEF Shape, Alike
  <1>8. Canonical(r) = Canonical(s) /\ Canonical(s).mem = m
    BY <1>5, <1>7, AlikeCanonical, CanonicalFields
  <1>9. Good("save", r)
    <2>1. Untracked(m)
      <3>1. FreshMem.cs = Zero32 /\ Canon32(Zero32) = Zero32
        BY DEF FreshMem, Zero32, Canon32
      <3>2. Untracked(s.mem)  BY <1>2 DEF Good
      <3>. HIDE DEF m, s
      <3>. QED  BY <1>5, <3>1, <3>2 DEF Untracked
    <2>2. m.fs.acc.nan \in {"no", "canon", "save"}
      <3>1. s.mem.fs.acc.nan \in {"no", "canon", "save"}
        BY <1>2 DEF Good
      <3>. QED  BY <1>5, <3>1 DEF Canon32, NaN32
    <2>3. Good("save", s)  BY <1>2
    <2>. HIDE DEF r, m, s
    <2>. QED  BY <1>5, <1>6, <1>7, <2>1, <2>2, <2>3 DEF Good
  <1>. HIDE DEF r, m
  <1>10. ASSUME NEW e \in Drivers PROVE Good(e, proc[e])'
    BY <1>1, <1>2, <1>3, <1>9 DEF Good, Commits, Quiet, Prints, Untracked
  <1>11. ASSUME NEW e \in Drivers PROVE Chained(e)'
    <2>1. PICK n \in Nat : n = Len(states[e])
      BY <1>2, AppendIsSeq DEF Chained
    <2>2. stage[e] # "off" => Canonical(proc[e]) = Before(e, n + 1)
      BY <1>2, <2>1 DEF Chained
    <2>3. Canonical(proc'[e]) = Canonical(proc[e])
      BY <1>3, <1>8
    <2>4. (stage[e] # "off" => Canonical(proc[e]) = Before(e, n + 1))'
      BY <1>1, <1>2, <2>2, <2>3, HistoriesKept DEF StageOK
    <2>. QED  BY <1>1, <2>1, <2>4, HistoriesKept
  <1>12. PICK n \in Nat : n = Len(states["save"])
    BY <1>2, AppendIsSeq DEF Chained
  <1>13. PICK sf \in Nat : sf = saveFrame
    BY <1>2 DEF EnvOK
  <1>14. PICK f \in Nat : f = s.f
    BY <1>2 DEF Good
  <1>15. f = sf + 1 /\ n = sf + 1
    <2>1. f = 0 + n /\ f <= sf + 1
      BY <1>2, <1>12, <1>13, <1>14 DEF Counted, FirstFrame, LastFrame
    <2>. QED  BY <1>1, <1>13, <1>14, <2>1
  <1>16. FileOK'
    <2>1. Canonical(s) = states["save"][n]
      <3>1. Canonical(s) = Before("save", n + 1)
        BY <1>1, <1>2, <1>12 DEF Chained
      <3>. QED  BY <1>13, <1>15, <3>1 DEF Before
    <2>2. file' = Tracked(env.cart, states["save"][saveFrame + 1].mem)
      BY <1>1, <1>8, <1>13, <1>15, <2>1
    <2>. QED  BY <1>1, <1>12, <1>13, <1>15, <2>2 DEF FileOK
  <1>17. ASSUME NEW e \in Drivers
         PROVE  (IF stage[e] = "off" THEN NotStarted(e) ELSE Counted(e))'
    <2>1. CASE e # "save"
      <3>1. stage'[e] = stage[e] /\ proc'[e] = proc[e]
            /\ (IF stage[e] = "off" THEN NotStarted(e) ELSE Counted(e))
        BY <1>1, <1>2, <1>3, <2>1 DEF ReplayInv, StageOK
      <3>. QED  BY <1>1, <3>1 DEF NotStarted, Counted, FirstFrame, LastFrame, Ran, Commits
    <2>2. CASE e = "save"
      <3>1. stage'[e] = "done" /\ proc'[e].f = sf + 1 /\ LastFrame(e)' = sf
            /\ FirstFrame(e)' = 0 /\ Len(states'[e]) = sf + 1
        BY <1>1, <1>2, <1>3, <1>6, <1>12, <1>13, <1>14, <1>15, <2>2
           DEF LastFrame, FirstFrame, StageOK
      <3>2. env.cart = "cutscene" => r.mem.blob.active
        BY <1>2, <1>5, <1>6 DEF Counted
      <3>3. Ran(r)
        <4>1. Ran(s)  BY <1>2, <1>12, <1>15 DEF Counted
        <4>. QED  BY <1>5, <1>6, <4>1 DEF Ran
      <3>. QED  BY <1>1, <1>3, <2>2, <3>1, <3>2, <3>3 DEF Counted, Ran, Commits
    <2>. QED  BY <2>1, <2>2
  <1>. QED  BY <1>1, <1>4, <1>10, <1>11, <1>16, <1>17, HistoriesKept DEF ReplayInv

LEMMA LoadKeeps ==
  ASSUME ReplayInv, LoadBuffer
  PROVE  ReplayInv'
  <1>. DEFINE s == proc["save"]
              r == ResumeCart(env.cart, proc["load"], file)
  <1>1. /\ UNCHANGED <<env, saveFrame, file, digests, states>>
        /\ stage["load"] = "off" /\ stage["save"] = "done"
        /\ proc' = [proc EXCEPT !["load"] = r]
        /\ stage' = [stage EXCEPT !["load"] =
                       IF QueueLoads(proc'["load"].mem.q) THEN "running" ELSE "panic"]
    BY DEF LoadBuffer
  <1>2. /\ PerDriver /\ EnvOK /\ StageOK /\ FileOK
        /\ "save" \in Drivers /\ "load" \in Drivers
        /\ \A e \in Drivers : Good(e, proc[e]) /\ Chained(e)
        /\ Counted("save") /\ NotStarted("load")
    BY <1>1 DEF ReplayInv, Drivers
  <1>3. env.cart # "direct" /\ "load" \in Programs(env.cart)
    BY <1>1, <1>2 DEF StageOK, Programs
  <1>4. proc["load"] = Process("load") /\ states["load"] = <<>>
    BY <1>2 DEF NotStarted
  <1>5. PICK sf \in Nat : sf = saveFrame /\ sf + 1 <= NFRAMES
    BY <1>2, FramesAssumption DEF EnvOK
  <1>6. /\ Len(states["save"]) = sf + 1
        /\ file = Tracked(env.cart, states["save"][sf + 1].mem)
    BY <1>1, <1>2, <1>5 DEF FileOK
  <1>7. Canonical(s) = states["save"][sf + 1]
    <2>1. Canonical(s) = Before("save", sf + 1 + 1)
      BY <1>1, <1>2, <1>6 DEF Chained
    <2>. QED  BY <1>5, <2>1 DEF Before
  <1>8. file = Tracked(env.cart, CanonMem(s.mem))
    BY <1>2, <1>6, <1>7, CanonicalFields DEF Good
  <1>9. Good("save", s) /\ Ran(s) /\ (env.cart = "cutscene" => s.mem.blob.active)
        /\ s.f = sf + 1
    <2>1. s.f = 0 + (sf + 1)
      BY <1>2, <1>6 DEF Counted, FirstFrame
    <2>. QED  BY <1>2, <1>5, <1>6, <2>1 DEF Counted
  <1>10. /\ Good("load", r) /\ Ran(r) /\ r.f = sf + 1
         /\ env.cart = "cutscene" => r.mem.blob.active
         /\ Canonical(r) = states["save"][sf + 1]
    BY <1>2, <1>3, <1>4, <1>7, <1>8, <1>9, ResumedGood
  <1>. HIDE DEF r, s
  <1>11. proc'["load"] = r /\ \A e \in Drivers \ {"load"} : proc'[e] = proc[e]
    BY <1>1, <1>2 DEF PerDriver
  <1>12. stage' = [stage EXCEPT !["load"] = "running"]
    BY <1>1, <1>10, <1>11 DEF Good, QueueOK
  <1>13. StageOK' /\ PerDriver' /\ EnvOK' /\ FileOK'
    BY <1>1, <1>2, <1>3, <1>12 DEF StageOK, PerDriver, EnvOK, FileOK, Drivers
  <1>14. ASSUME NEW e \in Drivers PROVE Good(e, proc[e])'
    BY <1>1, <1>2, <1>10, <1>11 DEF Good, Commits, Quiet, Prints, Untracked
  <1>15. ASSUME NEW e \in Drivers PROVE Chained(e)'
    <2>1. PICK n \in Nat : n = Len(states[e])
      BY <1>2, AppendIsSeq DEF Chained
    <2>2. CASE e # "load"
      <3>1. stage[e] # "off" => Canonical(proc[e]) = Before(e, n + 1)
        BY <1>2, <2>1 DEF Chained
      <3>2. (stage[e] # "off" => Canonical(proc[e]) = Before(e, n + 1))'
        BY <1>1, <1>2, <1>11, <1>12, <2>2, <3>1, HistoriesKept DEF StageOK
      <3>. QED  BY <1>1, <2>1, <3>2, HistoriesKept
    <2>3. CASE e = "load"
      <3>1. n = 0
        BY <1>4, <2>1, <2>3, EmptyIsSeq
      <3>2. Before(e, 1)' = states["save"][sf + 1]
        BY <1>1, <1>5, <2>3 DEF Before, Seed
      <3>3. Canonical(proc[e])' = states["save"][sf + 1]
        BY <1>10, <1>11, <2>3
      <3>4. (Len(states[e]) + 1)' = 1
        BY <1>1, <2>1, <3>1
      <3>. QED  BY <1>1, <3>2, <3>3, <3>4, HistoriesKept
    <2>. QED  BY <2>2, <2>3
  <1>16. ASSUME NEW e \in Drivers
         PROVE  (IF stage[e] = "off" THEN NotStarted(e) ELSE Counted(e))'
    <2>1. CASE e # "load"
      <3>1. stage'[e] = stage[e] /\ proc'[e] = proc[e]
            /\ (IF stage[e] = "off" THEN NotStarted(e) ELSE Counted(e))
        BY <1>2, <1>11, <1>12, <2>1 DEF ReplayInv, StageOK
      <3>. QED  BY <1>1, <3>1 DEF NotStarted, Counted, FirstFrame, LastFrame, Ran, Commits
    <2>2. CASE e = "load"
      <3>1. stage'[e] = "running"
        BY <1>2, <1>12, <2>2 DEF StageOK
      <3>2. Len(states'[e]) = 0
        BY <1>1, <1>4, <2>2, EmptyIsSeq
      <3>3. /\ proc'[e].f = sf + 1 /\ FirstFrame(e)' = sf + 1
            /\ LastFrame(e)' = NFRAMES - 1
        BY <1>1, <1>5, <1>10, <1>11, <2>2 DEF FirstFrame, LastFrame
      <3>4. sf + 1 = sf + 1 + 0 /\ sf + 1 <= NFRAMES - 1 + 1
        BY <1>5, FramesAssumption
      <3>. QED  BY <1>1, <1>10, <1>11, <2>2, <3>1, <3>2, <3>3, <3>4 DEF Counted
    <2>. QED  BY <2>1, <2>2
  <1>. QED  BY <1>1, <1>13, <1>14, <1>15, <1>16, HistoriesKept DEF ReplayInv

(* The processes are good, the histories are chains of one step, and they  *)
(* agree wherever they overlap, in every reachable state.                  *)
THEOREM ReplayInductive == Spec => []ReplayInv
  <1>1. Init => ReplayInv
    BY InitReplay
  <1>2. ReplayInv /\ [Next]_vars => ReplayInv'
    <2>. SUFFICES ASSUME ReplayInv, [Next]_vars PROVE ReplayInv'
      OBVIOUS
    <2>1. CASE Next
      BY <2>1, RunFrameKeeps, FinishKeeps, SaveKeeps, LoadKeeps DEF Next
    <2>2. CASE UNCHANGED vars
      BY <2>2 DEF vars, ReplayInv, PerDriver, EnvOK, StageOK, FileOK, Good, Chained,
         Agrees, Printed, NotStarted, Counted, Commits, Quiet, Prints, Untracked,
         Before, Seed, StepOf, FirstFrame, LastFrame, Ran, Line
    <2>. QED  BY <2>1, <2>2
  <1>. QED  BY <1>1, <1>2, PTL DEF Spec

(* The contract of the deterministic carts, for every length of run, queue *)
(* size, shake, save frame, schedule and NaN: processes stay within their  *)
(* loops and arrays, and the resumed run prints the uninterrupted run's    *)
(* digests.                                                                *)
THEOREM ReplayIsSound == Spec => []ReplaySound
  <1>1. ReplayInv => ReplaySound
    <2>. SUFFICES ASSUME ReplayInv PROVE ReplaySound
      OBVIOUS
    <2>1. ASSUME NEW d \in Drivers
          PROVE  /\ proc[d].f <= LastFrame(d) + 1 /\ QueueLoads(proc[d].mem.q)
                 /\ proc[d].mem.fs.acc.nan \in {"no", "canon", d}
      <3>1. LastFrame(d) \in Nat
        BY FramesAssumption DEF ReplayInv, EnvOK, LastFrame
      <3>2. proc[d].f <= LastFrame(d) + 1
        BY <3>1 DEF ReplayInv, NotStarted, Counted
      <3>. QED  BY <3>2 DEF ReplayInv, Good, QueueOK
    <2>2. stage["save"] = "done" => DOMAIN file = Regions(env.cart)
      BY DEF ReplayInv, FileOK, Tracked
    <2>3. TypeOK
      BY <2>1, <2>2 DEF TypeOK, ReplayInv, StageOK
    <2>4. ASSUME NEW d \in Drivers, NEW i \in DOMAIN digests[d],
                 (FirstFrame(d) + i) \in DOMAIN digests["full"]
          PROVE  digests[d][i] = digests["full"][FirstFrame(d) + i]
      <3>1. Printed(d) /\ Agrees(d) /\ Printed("full") /\ Prints("full")
        BY DEF ReplayInv, Drivers, Prints
      <3>2. Prints(d)
        BY <2>4, <3>1 DEF Printed
      <3>3. /\ IsSeq(digests[d]) /\ Len(digests[d]) = Len(states[d])
            /\ \A j \in 1 .. Len(states[d]) : digests[d][j] = Line(states[d][j])
            /\ IsSeq(digests["full"]) /\ Len(digests["full"]) = Len(states["full"])
            /\ \A j \in 1 .. Len(states["full"]) :
                 digests["full"][j] = Line(states["full"][j])
        BY <3>1, <3>2 DEF Printed
      <3>4. i \in 1 .. Len(states[d]) /\ FirstFrame(d) + i \in 1 .. Len(states["full"])
        BY <2>4, <3>3, SeqDomain
      <3>5. states[d][i] = states["full"][FirstFrame(d) + i]
        BY <3>1, <3>4 DEF Agrees
      <3>. QED  BY <3>3, <3>4, <3>5
    <2>5. ResumedDigestsMatchFullRun
      BY <2>4 DEF ResumedDigestsMatchFullRun
    <2>. QED  BY <2>3, <2>5 DEF ReplaySound
  <1>. QED  BY <1>1, ReplayInductive, PTL

(* The buffer is the uninterrupted run's state, whichever host wrote it.   *)
THEOREM BufferIsTheState == Spec => []BufferIsHostIndependent
  <1>1. ReplayInv => BufferIsHostIndependent
    <2>. SUFFICES ASSUME ReplayInv, stage["save"] = "done",
                         Len(states["full"]) > saveFrame
                  PROVE  file = Tracked(env.cart, states["full"][saveFrame + 1].mem)
      BY DEF BufferIsHostIndependent
    <2>1. PICK sf \in Nat : sf = saveFrame
      BY DEF ReplayInv, EnvOK
    <2>2. /\ Len(states["save"]) = sf + 1
          /\ file = Tracked(env.cart, states["save"][sf + 1].mem)
      BY <2>1 DEF ReplayInv, FileOK
    <2>3. PICK n \in Nat : n = Len(states["full"])
      BY AppendIsSeq DEF ReplayInv, Chained, Drivers
    <2>4. states["save"][sf + 1] = states["full"][0 + (sf + 1)]
      <3>1. sf + 1 \in 1 .. Len(states["save"]) /\ 0 + (sf + 1) <= n
        BY <2>1, <2>2, <2>3
      <3>. QED  BY <2>3, <3>1 DEF ReplayInv, Agrees, FirstFrame, Drivers
    <2>. QED  BY <2>1, <2>2, <2>4
  <1>. QED  BY <1>1, ReplayInductive, PTL

(***************************************************************************)
(* The voice-end queue.                                                    *)
(***************************************************************************)
Entries == [frame : Nat, handle : Handles]
Ended(q) == {q.pending[i].handle : i \in DOMAIN q.pending}
QueueType(q) == q \in [view : SUBSET Handles, pending : Seq(Entries)]
\* No voice has two ends pending.
OneEndEach(q) ==
  \A i, j \in DOMAIN q.pending : q.pending[i].handle = q.pending[j].handle => i = j

QueueInv ==
  /\ phase \in {"update", "mix"}
  /\ QueueType(queue) /\ audible \subseteq Handles
  /\ OneEndEach(queue)
  /\ Len(queue.pending) <= PendingMax
  /\ queue.view = audible \cup Ended(queue) \cup unrecorded
  /\ audible \cap Ended(queue) = {}
  /\ (audible \cup Ended(queue)) \cap unrecorded = {}
  /\ phase = "update" => queue.pending = <<>>

\* With one end each, the queue is as long as the set of ended voices.
LEMMA PendingLength ==
  ASSUME NEW q, QueueType(q), OneEndEach(q)
  PROVE  IsFiniteSet(Ended(q)) /\ Cardinality(Ended(q)) = Len(q.pending)
<1> PICK n \in Nat : n = Len(q.pending) /\ DOMAIN q.pending = 1 .. n
  BY DEF QueueType
<1> DEFINE f == [i \in 1 .. n |-> q.pending[i].handle]
<1>1. f \in Bijection(1 .. n, Ended(q))
  BY DEF Bijection, Injection, Surjection, IsInjective, Ended, OneEndEach
<1>2. IsFiniteSet(1 .. n) /\ Cardinality(1 .. n) = n
  BY FS_Interval
<1> QED BY <1>1, <1>2, FS_Bijection DEF ExistsBijection

\* The compaction loop's cursor numbers the entries it keeps 1, 2, ... .
LEMMA OutIsANumbering ==
  ASSUME NEW q, QueueType(q), NEW h
  PROVE  /\ Cardinality(Kept(q, h)) \in Nat
         /\ \A i \in Kept(q, h) : OutOf(q, h, i) \in 1 .. Cardinality(Kept(q, h))
         /\ \A i, j \in Kept(q, h) : OutOf(q, h, i) = OutOf(q, h, j) => i = j
         /\ \A n \in 1 .. Cardinality(Kept(q, h)) :
              \E i \in Kept(q, h) : OutOf(q, h, i) = n
<1> DEFINE K == Kept(q, h)
           Upto(i) == {k \in K : k <= i}
<1>1. K \subseteq Nat /\ IsFiniteSet(K) /\ Cardinality(K) \in Nat
  <2>1. DOMAIN q.pending = 1 .. Len(q.pending) /\ Len(q.pending) \in Nat
    BY DEF QueueType
  <2>2. IsFiniteSet(1 .. Len(q.pending))
    <3>1. 1 \in Int /\ Len(q.pending) \in Int
      BY ONLY <2>1
    <3> QED BY ONLY <3>1, FS_Interval, Zenon
  <2>3. K \in SUBSET (1 .. Len(q.pending))
    BY <2>1 DEF Kept
  <2>4. IsFiniteSet(K)
    BY <2>2, <2>3, FS_Subset
  <2> QED BY <2>1, <2>3, <2>4, FS_CardinalityType
<1> HIDE DEF K
<1>2. \A i : IsFiniteSet(Upto(i)) /\ Cardinality(Upto(i)) \in Nat
             /\ Cardinality(Upto(i)) <= Cardinality(K)
  <2> TAKE i
  <2>1. Upto(i) \in SUBSET K
    OBVIOUS
  <2> HIDE DEF Upto
  <2> QED BY <1>1, <2>1, FS_Subset, FS_CardinalityType
<1>3. \A i \in K : Cardinality(Upto(i)) >= 1
  <2> TAKE i \in K
  <2>1. i \in Upto(i)
    BY <1>1
  <2> HIDE DEF Upto
  <2> QED BY <1>2, <2>1, FS_EmptySet
<1>4. \A i, j \in K : i < j => Cardinality(Upto(i)) < Cardinality(Upto(j))
  <2> SUFFICES ASSUME NEW i \in K, NEW j \in K, i < j
               PROVE  Cardinality(Upto(i)) < Cardinality(Upto(j))
    OBVIOUS
  <2>1. Upto(i) \cup {j} \in SUBSET Upto(j) /\ j \notin Upto(i)
    <3>1. j \notin Upto(i) /\ j \in Upto(j)
      BY <1>1
    <3>2. \A k \in Upto(i) : k \in Upto(j)
      BY <1>1
    <3> QED BY <3>1, <3>2
  <2> HIDE DEF Upto
  <2>2. Cardinality(Upto(i) \cup {j}) = Cardinality(Upto(i)) + 1
    BY <1>2, <2>1, FS_AddElement
  <2>3. Cardinality(Upto(i) \cup {j}) <= Cardinality(Upto(j))
    BY <1>2, <2>1, FS_Subset
  <2> QED BY <1>2, <2>2, <2>3
<1>5. \A i : OutOf(q, h, i) = Cardinality(Upto(i))
  BY DEF OutOf, K
<1> HIDE DEF Upto
<1>6. \A i, j \in K : OutOf(q, h, i) = OutOf(q, h, j) => i = j
  BY <1>1, <1>2, <1>4, <1>5
<1>7. \A i \in K : OutOf(q, h, i) \in 1 .. Cardinality(K)
  BY <1>1, <1>2, <1>3, <1>5
<1>8. \A n \in 1 .. Cardinality(K) : \E i \in K : OutOf(q, h, i) = n
  <2> DEFINE f == [i \in K |-> OutOf(q, h, i)]
  <2>1. f \in Injection(K, 1 .. Cardinality(K))
    BY <1>6, <1>7 DEF Injection, IsInjective
  <2>2. IsFiniteSet(1 .. Cardinality(K))
        /\ Cardinality(1 .. Cardinality(K)) = Cardinality(K)
    BY <1>1, FS_Interval
  <2>3. f \in Surjection(K, 1 .. Cardinality(K))
    BY <2>1, <2>2, FS_Injection
  <2> QED BY <2>3 DEF Surjection
<1> QED BY <1>1, <1>6, <1>7, <1>8 DEF K

\* voice_start drops the voice's pending end and no other.
LEMMA StartedDropsTheStaleEnd ==
  ASSUME NEW q, QueueType(q), OneEndEach(q), NEW h \in Handles
  PROVE  /\ QueueType(Started(q, h)) /\ OneEndEach(Started(q, h))
         /\ Started(q, h).view = q.view \cup {h}
         /\ Ended(Started(q, h)) = Ended(q) \ {h}
         /\ Len(Started(q, h).pending) <= Len(q.pending)
         /\ q.pending = <<>> => Started(q, h).pending = <<>>
<1> PICK n : n = Cardinality(Kept(q, h))
  OBVIOUS
<1> DEFINE from(out) == CHOOSE i \in Kept(q, h) : OutOf(q, h, i) = out
           pend == [out \in 1 .. n |-> q.pending[from(out)]]
<1>1. /\ n \in Nat
      /\ \A i \in Kept(q, h) : OutOf(q, h, i) \in 1 .. n
      /\ \A i, j \in Kept(q, h) : OutOf(q, h, i) = OutOf(q, h, j) => i = j
      /\ \A m \in 1 .. n : \E i \in Kept(q, h) : OutOf(q, h, i) = m
  BY OutIsANumbering
<1>2. \A out \in 1 .. n : from(out) \in Kept(q, h) /\ OutOf(q, h, from(out)) = out
  BY <1>1
<1>3. \A i \in Kept(q, h) : from(OutOf(q, h, i)) = i
  BY <1>1
<1>4. Started(q, h) = [view |-> q.view \cup {h}, pending |-> pend]
  BY DEF Started
<1>5. Kept(q, h) \subseteq DOMAIN q.pending
      /\ \A i \in DOMAIN q.pending : i \in Kept(q, h) <=> q.pending[i].handle # h
  BY DEF Kept
<1>6. \A i \in DOMAIN q.pending : q.pending[i] \in Entries
  BY DEF QueueType
<1> HIDE DEF from
<1>7. pend \in Seq(Entries) /\ DOMAIN pend = 1 .. n
  <2>1. pend \in [1 .. n -> Entries]
    BY <1>2, <1>5, <1>6
  <2> QED BY <2>1, <1>1
<1>8. OneEndEach(Started(q, h))
  <2> SUFFICES ASSUME NEW a \in 1 .. n, NEW b \in 1 .. n,
                      q.pending[from(a)].handle = q.pending[from(b)].handle
               PROVE  a = b
    BY <1>4, <1>7 DEF OneEndEach
  <2>1. from(a) = from(b)
    BY <1>2, <1>5 DEF OneEndEach
  <2> QED BY <2>1, <1>2
<1>9. {pend[i].handle : i \in 1 .. n} = Ended(q) \ {h}
  <2>1. \A i \in 1 .. n : pend[i].handle \in Ended(q) \ {h}
    BY <1>2, <1>5 DEF Ended
  <2>2. ASSUME NEW v \in Ended(q) \ {h} PROVE \E i \in 1 .. n : pend[i].handle = v
    <3> PICK k \in DOMAIN q.pending : q.pending[k].handle = v
      BY DEF Ended
    <3>1. k \in Kept(q, h)
      BY <1>5
    <3>2. OutOf(q, h, k) \in 1 .. n /\ pend[OutOf(q, h, k)] = q.pending[k]
      BY <3>1, <1>1, <1>3
    <3> QED BY <3>2
  <2> QED BY <2>1, <2>2
<1>10. ASSUME q.pending = <<>> PROVE pend = <<>>
  <2>1. Kept(q, h) = {}
    BY <1>10, <1>5
  <2>2. n = 0
    BY <2>1, FS_EmptySet
  <2> QED BY <2>2, <1>7
<1> HIDE DEF pend
<1>11. Started(q, h).view = q.view \cup {h} /\ Started(q, h).pending = pend
  BY <1>4
<1>12. QueueType(Started(q, h))
  BY <1>4, <1>7 DEF QueueType
<1>13. Ended(Started(q, h)) = Ended(q) \ {h}
  BY <1>7, <1>9, <1>11 DEF Ended
<1>14. Len(Started(q, h).pending) <= Len(q.pending)
  <2>1. /\ IsFiniteSet(Ended(q)) /\ Cardinality(Ended(q)) = Len(q.pending)
        /\ Cardinality(Ended(Started(q, h))) = Len(Started(q, h).pending)
    BY PendingLength, <1>8, <1>12
  <2>2. Ended(q) \ {h} \in SUBSET Ended(q)
    OBVIOUS
  <2> QED BY <2>1, <2>2, <1>13, FS_Subset
<1> QED BY <1>8, <1>10, <1>11, <1>12, <1>13, <1>14

\* An end is recorded as long as there is a slot for it.
LEMMA RecordedAddsTheEnd ==
  ASSUME NEW q, QueueType(q), OneEndEach(q), Len(q.pending) < PendingMax,
         NEW h \in Handles \ Ended(q)
  PROVE  /\ QueueType(Recorded(q, 0, h)) /\ OneEndEach(Recorded(q, 0, h))
         /\ Recorded(q, 0, h).view = q.view
         /\ Ended(Recorded(q, 0, h)) = Ended(q) \cup {h}
         /\ Len(Recorded(q, 0, h).pending) = Len(q.pending) + 1
<1> PICK e \in Entries : e = [frame |-> 0, handle |-> h]
  BY DEF Entries
<1> PICK s : s = Append(q.pending, e)
  OBVIOUS
<1> PICK n \in Nat : n = Len(q.pending)
  BY DEF QueueType
<1>1. Recorded(q, 0, h) = [q EXCEPT !.pending = s]
  BY PendingAssumption DEF Recorded, QueueType
<1>2. Recorded(q, 0, h) = [view |-> q.view, pending |-> s]
  BY <1>1 DEF QueueType
<1>3. /\ s \in Seq(Entries) /\ DOMAIN s = 1 .. (n + 1) /\ DOMAIN q.pending = 1 .. n
      /\ \A i \in 1 .. n : s[i] = q.pending[i]
      /\ s[n + 1] = e
  BY DEF QueueType
<1>4. e.handle = h
  OBVIOUS
<1>5. OneEndEach(Recorded(q, 0, h))
  <2> SUFFICES ASSUME NEW i \in 1 .. (n + 1), NEW j \in 1 .. (n + 1),
                      s[i].handle = s[j].handle
               PROVE  i = j
    <3>1. Recorded(q, 0, h).pending = s
      BY <1>2
    <3> QED BY <3>1, <1>3 DEF OneEndEach
  <2>1. \A k \in 1 .. n : s[k].handle # h
    BY <1>3 DEF Ended
  <2>2. CASE i \in 1 .. n /\ j \in 1 .. n
    BY <2>2, <1>3 DEF OneEndEach
  <2>3. CASE i = n + 1 \/ j = n + 1
    BY <2>1, <2>3, <1>3, <1>4
  <2> QED BY <2>2, <2>3
<1>6. {s[i].handle : i \in DOMAIN s} = Ended(q) \cup {h}
  <2>1. \A i \in 1 .. (n + 1) : s[i].handle \in Ended(q) \cup {h}
    <3> TAKE i \in 1 .. (n + 1)
    <3>1. CASE i \in 1 .. n
      BY <3>1, <1>3 DEF Ended
    <3>2. CASE i = n + 1
      BY <3>2, <1>3, <1>4
    <3> QED BY <3>1, <3>2
  <2>2. \A v \in Ended(q) : \E i \in 1 .. (n + 1) : s[i].handle = v
    BY <1>3 DEF Ended
  <2>3. n + 1 \in 1 .. (n + 1)
    OBVIOUS
  <2> QED BY <2>1, <2>2, <2>3, <1>3, <1>4
<1>7. Recorded(q, 0, h).view = q.view /\ Recorded(q, 0, h).pending = s
  BY <1>2
<1>8. QueueType(Recorded(q, 0, h))
  <2>1. q.view \in SUBSET Handles
    BY DEF QueueType
  <2>2. s \in Seq(Entries)
    BY <1>3
  <2> QED BY ONLY <1>2, <2>1, <2>2 DEF QueueType
<1>9. Ended(Recorded(q, 0, h)) = Ended(q) \cup {h}
  BY <1>6, <1>7 DEF Ended
<1>10. Len(Recorded(q, 0, h).pending) = Len(q.pending) + 1
  BY <1>3, <1>7
<1> QED BY <1>5, <1>7, <1>8, <1>9, <1>10

LEMMA QueueInvInit == VoiceInit => QueueInv
<1> SUFFICES ASSUME VoiceInit PROVE QueueInv
  OBVIOUS
<1>1. /\ queue = [view |-> {}, pending |-> <<>>] /\ phase = "update"
      /\ audible = {} /\ unrecorded = {}
  BY DEF VoiceInit, EmptyQueue
<1>2. Ended(queue) = {} /\ Len(queue.pending) = 0
  BY <1>1 DEF Ended
<1> QED BY <1>1, <1>2, PendingAssumption DEF QueueInv, QueueType, OneEndEach

LEMMA QueueInvNext ==
  ASSUME QueueInv, [VoiceNext]_voiceVars
  PROVE  QueueInv'
<1>1. ASSUME NEW h \in Handles, VoiceStart(h) PROVE QueueInv'
  <2>1. /\ QueueType(queue') /\ OneEndEach(queue')
        /\ queue'.view = queue.view \cup {h}
        /\ Ended(queue') = Ended(queue) \ {h}
        /\ Len(queue'.pending) <= Len(queue.pending)
        /\ queue.pending = <<>> => queue'.pending = <<>>
    BY <1>1, StartedDropsTheStaleEnd DEF QueueInv, VoiceStart
  <2>2. OneEndEach(queue)' /\ QueueType(queue)' /\ Ended(queue)' = Ended(queue')
    BY <2>1 DEF OneEndEach, QueueType, Ended, Entries
  <2>3. Len(queue.pending) \in Nat /\ Len(queue'.pending) \in Nat
    BY <2>1 DEF QueueInv, QueueType
  <2>4. Len(queue'.pending) <= PendingMax
    BY <2>1, <2>3, PendingAssumption DEF QueueInv
  <2> QED BY <1>1, <2>1, <2>2, <2>4 DEF QueueInv, VoiceStart
<1>2. ASSUME NEW h \in Handles, MixerReport(h) PROVE QueueInv'
  <2>1. h \notin Ended(queue) /\ h \notin unrecorded /\ Len(queue.pending) \in Nat
    BY <1>2 DEF QueueInv, QueueType, MixerReport
  <2>2. CASE Len(queue.pending) < PendingMax
    <3>1. /\ QueueType(queue') /\ OneEndEach(queue')
          /\ queue'.view = queue.view
          /\ Ended(queue') = Ended(queue) \cup {h}
          /\ Len(queue'.pending) = Len(queue.pending) + 1
      BY <1>2, <2>1, <2>2, RecordedAddsTheEnd DEF QueueInv, MixerReport
    <3>2. OneEndEach(queue)' /\ QueueType(queue)' /\ Ended(queue)' = Ended(queue')
      BY <3>1 DEF OneEndEach, QueueType, Ended, Entries
    <3>3. Len(queue'.pending) <= PendingMax
      BY <2>1, <2>2, <3>1, PendingAssumption
    <3> QED BY <1>2, <2>1, <2>2, <3>1, <3>2, <3>3 DEF QueueInv, MixerReport
  <2>3. CASE ~(Len(queue.pending) < PendingMax)
    <3>1. queue' = queue /\ unrecorded' = unrecorded \cup {h}
      BY <1>2, <2>1, <2>3, PendingAssumption DEF MixerReport, Recorded
    <3>2. QueueType(queue)' /\ OneEndEach(queue)' /\ Ended(queue)' = Ended(queue)
      BY <3>1 DEF QueueInv, QueueType, OneEndEach, Ended
    <3> QED BY <1>2, <2>1, <3>1, <3>2 DEF QueueInv, MixerReport
  <2> QED BY <2>2, <2>3
<1>3. ASSUME EndUpdate PROVE QueueInv'
  <2>1. queue' = queue /\ audible' = audible /\ phase' = "mix"
        /\ unrecorded' = unrecorded
    BY <1>3 DEF EndUpdate
  <2>2. QueueType(queue)' /\ OneEndEach(queue)' /\ Ended(queue)' = Ended(queue)
    BY <2>1 DEF QueueInv, QueueType, OneEndEach, Ended
  <2> QED BY <2>1, <2>2 DEF QueueInv
<1>4. ASSUME NextUpdate PROVE QueueInv'
  <2>1. queue' = [view |-> queue.view \ Ended(queue), pending |-> <<>>]
        /\ phase' = "update" /\ audible' = audible /\ unrecorded' = unrecorded
    BY <1>4 DEF NextUpdate, Applied, Ended
  <2>2. queue.view \subseteq Handles
    BY DEF QueueInv, QueueType
  <2>3. Len(queue'.pending) <= PendingMax
    BY <2>1, PendingAssumption
  <2>4. Ended(queue)' = {} /\ OneEndEach(queue)'
    BY <2>1 DEF Ended, OneEndEach
  <2>5. QueueType(queue)'
    BY <2>1, <2>2 DEF QueueType
  <2> QED BY <2>1, <2>3, <2>4, <2>5 DEF QueueInv
<1>5. CASE UNCHANGED voiceVars
  <2>1. queue' = queue /\ audible' = audible /\ phase' = phase
        /\ unrecorded' = unrecorded
    BY <1>5 DEF voiceVars
  <2>2. QueueType(queue)' /\ OneEndEach(queue)' /\ Ended(queue)' = Ended(queue)
    BY <2>1 DEF QueueInv, QueueType, OneEndEach, Ended
  <2> QED BY <2>1, <2>2 DEF QueueInv
<1> QED BY <1>1, <1>2, <1>3, <1>4, <1>5 DEF VoiceNext

\* For every set of voices and every length of the queue, the code's 64 and 8
\* among them: voice_is_playing answers what the mixer plays, the ends still
\* pending, and the voices whose last end met a full queue; no other end is
\* lost and none hits a restarted voice.
THEOREM QueueIsSound == VoiceSpec => []QueueSound
<1>1. QueueInv => QueueSound
  <2> SUFFICES ASSUME QueueInv PROVE QueueSound
    OBVIOUS
  <2>1. Len(queue.pending) = Cardinality(Ended(queue))
    BY PendingLength DEF QueueInv
  <2>2. ASSUME phase = "update" PROVE Ended(queue) = {}
    BY <2>2 DEF QueueInv, Ended
  <2> QED BY <2>1, <2>2 DEF QueueInv, QueueSound, QueueLoads, Ended
<1> QED BY <1>1, QueueInvInit, QueueInvNext, PTL DEF VoiceSpec

(***************************************************************************)
(* The allocating cart.                                                    *)
(***************************************************************************)
\* GROW_VEC after c frames: the first multiples of GROW_EVERY, as many as
\* fit under c and under the cap.
GrownTo(v, c) ==
  /\ v \in Seq(Nat) /\ Len(v) <= GROW_MAX
  /\ \A i \in DOMAIN v : v[i] = i * GROW_EVERY
  /\ Len(v) * GROW_EVERY <= c
  /\ Len(v) < GROW_MAX => c < (Len(v) + 1) * GROW_EVERY

\* The heap as the cart's update needs it, GROW_VEC having seen c frames.
HeapAt(c) ==
  /\ heap \in [rl : {heap.rl}, sv : {heap.sv}, arc : {heap.arc}, gv : {heap.gv}]
  /\ heap.rl = Some("resource") /\ heap.arc = Some(store.arc)
  /\ heap.gv = Some(heap.gv[1]) /\ GrownTo(heap.gv[1], c)

DigestLines == [frame : Nat, digest : Nat \X {"resource"} \X Nat \X Seq(Nat)]
DigestLine(l) ==
  l.digest[1] = l.frame + 1 /\ l.digest[3] = l.frame + 1 /\ GrownTo(l.digest[4], l.frame + 1)

PrintedOK ==
  /\ printed \in Seq(DigestLines)
  /\ \A i \in DOMAIN printed :
       /\ printed[i].frame = printed[1].frame + i - 1
       /\ printed[1].frame \in {0, SAVE_AT_S_CTR}
       /\ DigestLine(printed[i])

\* The next line follows on from the last one.
Follows ==
  /\ store.ctr < ALLOC_FRAMES
  /\ IF printed = <<>> THEN store.ctr \in {0, SAVE_AT_S_CTR}
     ELSE store.ctr = printed[1].frame + Len(printed)

\* A file that is not absent was begun by a save, and all saves are alike.
SaveFileOK ==
  /\ saveFile \in [len : -1 .. SAVE_BYTES, words : [frame : Nat, ctr : Nat, arc : Nat]]
  /\ saveFile.len >= 0 => saveFile.words.ctr = SAVE_AT_S_CTR
                          /\ saveFile.words.arc = SAVE_AT_S_CTR

AllocInv ==
  /\ at \in {"off", "start", "load", "update", "saving", "frame", "ended"}
  /\ store \in [ctr : 0 .. ALLOC_FRAMES, arc : 0 .. ALLOC_FRAMES]
  /\ store.arc = store.ctr
  /\ SaveFileOK /\ PrintedOK
  /\ at = "start" => store.ctr = 0 /\ heap = NoHeap /\ replayed = 0 /\ printed = <<>>
  /\ at = "load" => HeapAt(replayed) /\ replayed \in 0 .. store.ctr
                    /\ Follows /\ printed = <<>>
  /\ at \in {"update", "saving", "frame"} => HeapAt(store.ctr) /\ Follows
  /\ at = "saving" => saveFile.len \in 0 .. (SAVE_BYTES - 1)

\* Multiples of a positive step: what the provers need to know of them.
LEMMA Multiples ==
  ASSUME NEW g \in Nat, g > 0
  PROVE  /\ \A a, b \in Int : a * g < b * g => a < b
         /\ \A a, b \in Int : a < b => a * g + g <= b * g
         /\ \A k \in Nat : k = (k \div g) * g + (k % g) /\ k \div g \in Nat
                           /\ k % g \in 0 .. (g - 1)
         /\ \A i \in Nat : (i * g) % g = 0 /\ (i * g) \div g = i
<1>1. \A a, b \in Int : a * g < b * g => a < b
  OBVIOUS
<1>2. \A a, b \in Int : a < b => a * g + g <= b * g
  OBVIOUS
<1>3. \A k \in Nat : k = (k \div g) * g + (k % g) /\ k \div g \in Nat
                     /\ k % g \in 0 .. (g - 1)
  OBVIOUS
<1>4. \A i \in Nat : (i * g) % g = 0 /\ (i * g) \div g = i
  OBVIOUS
<1> QED BY <1>1, <1>2, <1>3, <1>4

\* The rule of update and on_load takes GROW_VEC from one frame to the next.
LEMMA GrownOnce ==
  ASSUME NEW v, NEW c \in Nat, GrownTo(v, c)
  PROVE  GrownTo(Grown(v, c + 1), c + 1)
<1> USE AllocAssumption
<1> PICK g \in Nat : g = GROW_EVERY /\ g > 0
  OBVIOUS
<1> PICK n \in Nat : n = Len(v) /\ DOMAIN v = 1 .. n
  BY DEF GrownTo
<1> DEFINE q == (c + 1) \div g
<1>1. /\ v \in Seq(Nat) /\ n <= GROW_MAX /\ n * g <= c
      /\ n < GROW_MAX => c < (n + 1) * g
      /\ \A i \in 1 .. n : v[i] = i * g
  BY DEF GrownTo
<1>2. c + 1 = q * g + ((c + 1) % g) /\ q \in Nat /\ (c + 1) % g \in 0 .. (g - 1)
  BY Multiples
<1> HIDE DEF q
<1>3. CASE Grows(v, c + 1)
  <2>1. (c + 1) % g = 0 /\ n < GROW_MAX
    BY <1>3 DEF Grows
  <2>2. n * g < q * g /\ q * g <= (n + 1) * g /\ n * g \in Int /\ q * g \in Int
    BY <1>1, <1>2, <2>1
  <2>3. n < q
    BY <2>2, <1>2, Multiples
  <2>4. ~(n + 1 < q)
    <3> SUFFICES ASSUME n + 1 < q PROVE FALSE
      OBVIOUS
    <3>1. (n + 1) * g + g <= q * g
      BY <1>2, Multiples
    <3> QED BY <3>1, <2>2
  <2>5. q = n + 1
    BY <2>3, <2>4, <1>2
  <2>6. c + 1 = (n + 1) * g
    BY <1>2, <2>1, <2>5
  <2> PICK w : w = Append(v, c + 1)
    OBVIOUS
  <2>7. /\ w \in Seq(Nat) /\ Len(w) = n + 1 /\ DOMAIN w = 1 .. (n + 1)
        /\ \A i \in 1 .. n : w[i] = v[i]
        /\ w[n + 1] = c + 1
    BY <1>1
  <2>8. \A i \in DOMAIN w : w[i] = i * g
    <3> TAKE i \in DOMAIN w
    <3>1. i \in 1 .. n \/ i = n + 1
      BY <2>7
    <3> QED BY <3>1, <2>6, <2>7, <1>1
  <2>9. (n + 1) * g < (n + 1 + 1) * g
    OBVIOUS
  <2>10. GrownTo(w, c + 1)
    <3>1. Len(w) * g <= c + 1 /\ c + 1 < (Len(w) + 1) * g
      BY <2>6, <2>7, <2>9
    <3> QED BY <2>1, <2>7, <2>8, <3>1, SMTT(30) DEF GrownTo
  <2> QED BY <1>3, <2>10 DEF Grown
<1>4. CASE ~Grows(v, c + 1)
  <2>1. ASSUME n < GROW_MAX PROVE c + 1 < (n + 1) * g
    <3>1. (c + 1) % g # 0
      BY <1>4, <2>1 DEF Grows
    <3>2. c + 1 # (n + 1) * g
      <4> SUFFICES ASSUME c + 1 = (n + 1) * g PROVE FALSE
        OBVIOUS
      <4>1. ((n + 1) * g) % g = 0
        BY Multiples
      <4> QED BY <4>1, <3>1
    <3> QED BY <3>2, <1>1, <2>1
  <2>2. n * g <= c + 1
    BY <1>1
  <2> QED BY <1>1, <1>4, <2>1, <2>2 DEF Grown, GrownTo
<1> QED BY <1>3, <1>4

\* GROW_VEC after c frames holds the counters that were due, in order.
LEMMA GrownIsPushed ==
  ASSUME NEW v, NEW c \in Nat, GrownTo(v, c)
  PROVE  /\ {v[k] : k \in DOMAIN v} = Pushed(c)
         /\ \A j, k \in DOMAIN v : j < k => v[j] < v[k]
<1> USE AllocAssumption
<1> PICK g \in Nat : g = GROW_EVERY /\ g > 0
  OBVIOUS
<1> PICK n \in Nat : n = Len(v) /\ DOMAIN v = 1 .. n
  BY DEF GrownTo
<1>1. /\ n <= GROW_MAX /\ n * g <= c
      /\ n < GROW_MAX => c < (n + 1) * g
      /\ \A i \in 1 .. n : v[i] = i * g
  BY DEF GrownTo
<1>2. ASSUME NEW j \in 1 .. n, NEW k \in 1 .. n, j < k PROVE v[j] < v[k]
  <2> PICK a \in Int, b \in Int : a = j * g /\ b = k * g
    OBVIOUS
  <2>1. a + g <= b
    BY <1>2, Multiples
  <2>2. v[j] = a /\ v[k] = b
    BY <1>1
  <2> QED BY ONLY <2>1, <2>2, g \in Nat, g > 0, a \in Int, b \in Int
<1>3. ASSUME NEW k \in 1 .. n PROVE v[k] \in Pushed(c)
  <2> PICK a \in Int, b \in Int : a = k * g /\ b = n * g
    OBVIOUS
  <2>1. a % g = 0 /\ a \div g = k
    BY Multiples
  <2>2. g <= a
    <3>1. 0 * g + g <= k * g
      BY Multiples
    <3>2. 0 * g = 0
      OBVIOUS
    <3> QED BY ONLY <3>1, <3>2, a = k * g, g \in Nat, a \in Int
  <2>3. a <= b
    <3>1. CASE k = n
      BY ONLY <3>1, a = k * g, b = n * g, a \in Int
    <3>2. CASE k < n
      <4>1. a + g <= b
        BY <3>2, Multiples
      <4> QED BY ONLY <4>1, a \in Int, b \in Int, g \in Nat
    <3> QED BY <3>1, <3>2
  <2>4. b <= c
    BY <1>1
  <2>5. a \in 1 .. c
    BY ONLY <2>2, <2>3, <2>4, a \in Int, b \in Int, c \in Nat, g \in Nat, g > 0
  <2>6. k <= GROW_MAX /\ v[k] = a
    BY <1>1
  <2> QED BY ONLY <2>1, <2>5, <2>6, g = GROW_EVERY DEF Pushed
<1>4. ASSUME NEW x \in Pushed(c) PROVE \E k \in 1 .. n : v[k] = x
  <2> PICK k : k = x \div g
    OBVIOUS
  <2>1. x \in 1 .. c /\ x % g = 0 /\ k <= GROW_MAX
    BY DEF Pushed
  <2>2. x = k * g /\ k \in Nat
    <3>1. x = (x \div g) * g + (x % g) /\ x \div g \in Nat
      BY <2>1, Multiples
    <3>2. x = k * g + 0 /\ k \in Nat
      BY <3>1, <2>1
    <3> QED BY <3>2
  <2>3. k >= 1
    <3>1. k # 0
      BY ONLY <2>1, <2>2, g \in Nat, c \in Nat
    <3> QED BY ONLY <3>1, <2>2
  <2>4. k <= n
    <3>1. CASE n = GROW_MAX
      BY <3>1, <2>1
    <3>2. CASE n < GROW_MAX
      <4> PICK b \in Int : b = (n + 1) * g
        OBVIOUS
      <4>1. c < b
        BY <3>2, <1>1
      <4>2. x < b
        BY ONLY <4>1, <2>1, b \in Int, c \in Nat
      <4>3. k * g < (n + 1) * g
        BY ONLY <4>2, <2>2, b = (n + 1) * g
      <4>4. k < n + 1
        BY <4>3, <2>2, Multiples
      <4> QED BY ONLY <4>4, <2>2, n \in Nat
    <3> QED BY <3>1, <3>2, <1>1
  <2>5. k \in 1 .. n
    BY ONLY <2>2, <2>3, <2>4, n \in Nat
  <2> QED BY <2>2, <2>5, <1>1
<1> QED BY <1>2, <1>3, <1>4

LEMMA AllocInvInit == AllocInit => AllocInv
<1> SUFFICES ASSUME AllocInit PROVE AllocInv
  OBVIOUS
<1>1. SaveFileOK
  BY AllocAssumption DEF AllocInit, SaveFileOK, NoFile
<1>2. PrintedOK
  BY DEF AllocInit, PrintedOK
<1> QED BY <1>1, <1>2, AllocAssumption DEF AllocInit, AllocInv

\* What a step leaves alone.
LEMMA FileKept == ASSUME SaveFileOK, saveFile' = saveFile PROVE SaveFileOK'
BY DEF SaveFileOK
LEMMA PrintedKept == ASSUME PrintedOK, printed' = printed PROVE PrintedOK'
BY DEF PrintedOK
LEMMA HeapKept ==
  ASSUME NEW c, HeapAt(c), heap' = heap, store' = store PROVE HeapAt(c)'
BY DEF HeapAt
LEMMA FollowsKept ==
  ASSUME Follows, printed' = printed, store' = store PROVE Follows'
BY DEF Follows

LEMMA BootKeeps == ASSUME AllocInv, NEW d, Boot(d) PROVE AllocInv'
<1>1. at' = "start" /\ store' = [ctr |-> 0, arc |-> 0] /\ heap' = NoHeap
      /\ replayed' = 0 /\ printed' = <<>> /\ saveFile' = saveFile
  BY DEF Boot
<1>2. SaveFileOK'
  BY <1>1, FileKept DEF AllocInv
<1>3. PrintedOK'
  BY <1>1 DEF PrintedOK
<1> QED BY <1>1, <1>2, <1>3, AllocAssumption DEF AllocInv

LEMMA StartKeeps == ASSUME AllocInv, Start PROVE AllocInv'
<1> USE AllocAssumption
<1>1. /\ at = "start" /\ at' = "load" /\ replayed' = 0 /\ replayed = 0
      /\ saveFile' = saveFile /\ printed' = <<>> /\ printed = <<>>
      /\ heap = NoHeap /\ store.ctr = 0 /\ store.arc = 0
      /\ store \in [ctr : 0 .. ALLOC_FRAMES, arc : 0 .. ALLOC_FRAMES]
  BY DEF Start, AllocInv
<1>2. SaveFileOK' /\ PrintedOK'
  BY <1>1, FileKept, PrintedKept DEF AllocInv
<1>3. /\ store' \in [ctr : 0 .. ALLOC_FRAMES, arc : 0 .. ALLOC_FRAMES]
      /\ store'.ctr \in {0, SAVE_AT_S_CTR} /\ store'.arc = store'.ctr
  <2>1. CASE dir # "none" /\ ReadsAll(saveFile.len)
    <3>1. saveFile.len = SAVE_BYTES
      BY <2>1 DEF ReadsAll
    <3>2. store' = [ctr |-> saveFile.words.ctr, arc |-> saveFile.words.arc]
      BY <2>1, <3>1 DEF Start, WordsRead
    <3>3. saveFile.words.ctr = SAVE_AT_S_CTR /\ saveFile.words.arc = SAVE_AT_S_CTR
      BY <3>1 DEF AllocInv, SaveFileOK
    <3> QED BY <3>2, <3>3
  <2>2. CASE ~(dir # "none" /\ ReadsAll(saveFile.len))
    BY <2>2, <1>1 DEF Start
  <2> QED BY <2>1, <2>2
<1>4. heap' = [rl |-> Some("resource"), sv |-> Some(store'.ctr),
               arc |-> Some(store'.arc), gv |-> Some(<<>>)]
  <2>1. NoHeap.rl = None /\ [NoHeap EXCEPT !.rl = Some("resource")].rl = Some("resource")
    BY DEF NoHeap
  <2>2. Some("resource") # None
    BY DEF Some, None
  <2>3. \A st : fc_cart_on_load(st, NoHeap) =
                  [rl |-> Some("resource"), sv |-> Some(st.ctr),
                   arc |-> Some(st.arc), gv |-> Some(<<>>)]
    BY <2>1 DEF fc_cart_on_load
  <2>4. \A st : fc_cart_init(st, NoHeap) =
                  [rl |-> Some("resource"), sv |-> Some(st.ctr),
                   arc |-> Some(st.arc), gv |-> Some(<<>>)]
    BY <2>1, <2>2 DEF fc_cart_on_load, fc_cart_init
  <2> QED BY <1>1, <2>3, <2>4 DEF Start
<1>5. GrownTo(<<>>, 0)
  BY DEF GrownTo
<1>6. HeapAt(replayed)'
  <2>1. heap'.gv = Some(<<>>) /\ heap'.gv[1] = <<>> /\ heap'.rl = Some("resource")
        /\ heap'.arc = Some(store'.arc)
    BY <1>4 DEF Some
  <2>2. heap' \in [rl : {heap'.rl}, sv : {heap'.sv}, arc : {heap'.arc}, gv : {heap'.gv}]
    BY <1>4
  <2> QED BY <1>1, <1>5, <2>1, <2>2 DEF HeapAt
<1>7. Follows'
  BY <1>1, <1>3 DEF Follows
<1>8. replayed' \in 0 .. store'.ctr
  BY <1>1, <1>3
<1> QED BY <1>1, <1>2, <1>3, <1>6, <1>7, <1>8 DEF AllocInv

LEMMA ReplayKeeps == ASSUME AllocInv, Replay PROVE AllocInv'
<1> USE AllocAssumption
<1>1. /\ at = "load" /\ store' = store /\ saveFile' = saveFile /\ printed' = printed
      /\ HeapAt(replayed) /\ replayed \in 0 .. store.ctr
      /\ Follows /\ printed = <<>> /\ store.ctr \in Nat
  BY DEF Replay, AllocInv
<1>2. SaveFileOK' /\ PrintedOK' /\ Follows'
  BY <1>1, FileKept, PrintedKept, FollowsKept DEF AllocInv
<1>3. CASE replayed < store.ctr
  <2> PICK v : v = heap.gv[1] /\ GrownTo(v, replayed)
    BY <1>1 DEF HeapAt
  <2> PICK w : w = Grown(v, replayed + 1)
    OBVIOUS
  <2>1. at' = "load" /\ replayed' = replayed + 1 /\ heap' = [heap EXCEPT !.gv = Some(w)]
    BY <1>1, <1>3 DEF Replay, Replays
  <2>2. GrownTo(w, replayed + 1)
    BY <1>1, GrownOnce
  <2>3. heap'.rl = heap.rl /\ heap'.arc = heap.arc /\ heap'.gv = Some(w)
        /\ heap' \in [rl : {heap'.rl}, sv : {heap'.sv}, arc : {heap'.arc}, gv : {heap'.gv}]
    BY <1>1, <2>1 DEF HeapAt
  <2>4. Some(w)[1] = w
    BY DEF Some
  <2>5. HeapAt(replayed)'
    BY <1>1, <2>1, <2>2, <2>3, <2>4 DEF HeapAt
  <2>6. replayed' \in 0 .. store'.ctr
    BY <1>1, <1>3, <2>1
  <2> QED BY <1>1, <1>2, <2>1, <2>5, <2>6 DEF AllocInv
<1>4. CASE ~(replayed < store.ctr)
  <2>1. at' = "update" /\ heap' = heap /\ replayed = store.ctr
    BY <1>1, <1>4 DEF Replay
  <2>2. HeapAt(store.ctr)'
    BY <1>1, <2>1 DEF HeapAt
  <2> QED BY <1>1, <1>2, <2>1, <2>2 DEF AllocInv
<1> QED BY <1>3, <1>4

LEMMA UpdateKeeps == ASSUME AllocInv, Update PROVE AllocInv'
<1> USE AllocAssumption
<1>1. /\ at = "update" /\ store' = store /\ heap' = heap /\ printed' = printed
      /\ HeapAt(store.ctr) /\ Follows
  BY DEF Update, AllocInv
<1>2. PrintedOK' /\ Follows' /\ HeapAt(store.ctr)'
  <2>1. HeapAt(store.ctr)'
    BY <1>1 DEF HeapAt
  <2> QED BY <1>1, <2>1, PrintedKept, FollowsKept DEF AllocInv
<1>3. CASE store.ctr = SAVE_AT_S_CTR /\ dir \in {"rw", "full"}
  <2>1. at' = "saving" /\ saveFile' = [len |-> 0, words |-> Saves]
    BY <1>3 DEF Update
  <2>2. Saves \in [frame : Nat, ctr : Nat, arc : Nat]
        /\ Saves.ctr = SAVE_AT_S_CTR /\ Saves.arc = SAVE_AT_S_CTR
    BY <1>3 DEF Saves, AllocInv
  <2>3. SaveFileOK' /\ saveFile'.len = 0
    BY <2>1, <2>2 DEF SaveFileOK
  <2> QED BY <1>1, <1>2, <2>1, <2>3 DEF AllocInv
<1>4. CASE ~(store.ctr = SAVE_AT_S_CTR /\ dir \in {"rw", "full"})
  <2>1. at' = "frame" /\ saveFile' = saveFile
    BY <1>4 DEF Update
  <2>2. SaveFileOK'
    BY <2>1, FileKept DEF AllocInv
  <2> QED BY <1>1, <1>2, <2>1, <2>2 DEF AllocInv
<1> QED BY <1>3, <1>4

LEMMA WriteChunkKeeps ==
  ASSUME AllocInv, NEW n \in Written, WriteChunk(n) PROVE AllocInv'
<1> USE AllocAssumption
<1>1. /\ at = "saving" /\ store' = store /\ heap' = heap /\ printed' = printed
      /\ HeapAt(store.ctr) /\ Follows /\ saveFile.len \in 0 .. (SAVE_BYTES - 1)
  BY DEF WriteChunk, AllocInv
<1>2. PrintedOK' /\ Follows' /\ HeapAt(store.ctr)'
  <2>1. HeapAt(store.ctr)'
    BY <1>1 DEF HeapAt
  <2> QED BY <1>1, <2>1, PrintedKept, FollowsKept DEF AllocInv
<1>3. CASE Breaks(n)
  <2>1. at' = "frame" /\ saveFile' = saveFile
    BY <1>3 DEF WriteChunk
  <2>2. SaveFileOK'
    BY <2>1, FileKept DEF AllocInv
  <2> QED BY <1>1, <1>2, <2>1, <2>2 DEF AllocInv
<1>4. CASE ~Breaks(n)
  <2>1. n \in 1 .. (SAVE_BYTES - saveFile.len)
    BY <1>1, <1>4 DEF Breaks, Written, Want, Rest
  <2>2. /\ saveFile' = [saveFile EXCEPT !.len = @ + n]
        /\ at' = IF saveFile'.len = SAVE_BYTES THEN "frame" ELSE "saving"
    BY <1>4 DEF WriteChunk
  <2>3. SaveFileOK' /\ saveFile'.len \in 1 .. SAVE_BYTES
    BY <1>1, <2>1, <2>2 DEF SaveFileOK, AllocInv
  <2> QED BY <1>1, <1>2, <2>2, <2>3 DEF AllocInv
<1> QED BY <1>3, <1>4

LEMMA UpdateRestKeeps == ASSUME AllocInv, UpdateRest PROVE AllocInv'
<1> USE AllocAssumption
<1>1. /\ at = "frame" /\ HeapAt(store.ctr) /\ Follows /\ SaveFileOK /\ PrintedOK
      /\ saveFile' = saveFile /\ store.arc = store.ctr
      /\ store.ctr \in 0 .. ALLOC_FRAMES
  BY DEF UpdateRest, AllocInv
<1> PICK s \in Nat : s = store.ctr /\ s < ALLOC_FRAMES
  BY <1>1 DEF Follows
<1> PICK v : v = heap.gv[1] /\ GrownTo(v, s)
  BY <1>1 DEF HeapAt
<1> PICK w : w = Grown(v, s + 1)
  OBVIOUS
<1>2. heap.arc[1] = s /\ heap.rl[1] = "resource"
  BY <1>1 DEF HeapAt, Some
<1> PICK l : l = [frame |-> s, digest |-> <<s + 1, "resource", s + 1, w>>]
  OBVIOUS
<1>3. /\ heap' = [heap EXCEPT !.arc = Some(s + 1), !.gv = Some(w)]
      /\ store' = [ctr |-> s + 1, arc |-> s + 1]
      /\ printed' = Append(printed, l)
      /\ at' = IF s + 1 >= ALLOC_FRAMES THEN "ended" ELSE "update"
  BY <1>1, <1>2 DEF UpdateRest
<1>4. GrownTo(w, s + 1)
  BY GrownOnce
<1>5. l \in DigestLines /\ DigestLine(l) /\ l.frame = s
  <2>1. w \in Seq(Nat)
    BY <1>4 DEF GrownTo
  <2> QED BY <1>4, <2>1 DEF DigestLines, DigestLine
<1>6. HeapAt(store.ctr)'
  <2>1. heap'.rl = heap.rl /\ heap'.arc = Some(s + 1) /\ heap'.gv = Some(w)
        /\ heap' \in [rl : {heap'.rl}, sv : {heap'.sv}, arc : {heap'.arc}, gv : {heap'.gv}]
    BY <1>1, <1>3 DEF HeapAt
  <2>2. Some(w)[1] = w
    BY DEF Some
  <2> QED BY <1>1, <1>3, <1>4, <2>1, <2>2 DEF HeapAt
<1> PICK n \in Nat : n = Len(printed) /\ DOMAIN printed = 1 .. n
  BY <1>1 DEF PrintedOK
<1>7. /\ DOMAIN printed' = 1 .. (n + 1) /\ Len(printed') = n + 1
      /\ printed' \in Seq(DigestLines)
      /\ \A i \in 1 .. n : printed'[i] = printed[i]
      /\ printed'[n + 1] = l
  BY <1>1, <1>3, <1>5 DEF PrintedOK
<1>8. printed'[1].frame \in {0, SAVE_AT_S_CTR} /\ s = printed'[1].frame + n
      /\ printed'[1].frame \in Nat
  <2>1. CASE printed = <<>>
    BY <1>1, <1>5, <1>7, <2>1, SMTT(30) DEF Follows
  <2>2. CASE printed # <<>>
    <3>1. n >= 1 /\ 1 \in 1 .. n
      BY <1>1, <2>2 DEF PrintedOK
    <3> QED BY <1>1, <1>7, <2>2, <3>1, SMTT(30) DEF Follows, PrintedOK
  <2> QED BY <2>1, <2>2
<1>9. PrintedOK'
  <2> SUFFICES ASSUME NEW i \in 1 .. (n + 1)
               PROVE  printed'[i].frame = printed'[1].frame + i - 1 /\ DigestLine(printed'[i])
    BY <1>7, <1>8 DEF PrintedOK, DigestLine, GrownTo
  <2>1. CASE i \in 1 .. n
    <3>1. 1 \in 1 .. n
      BY ONLY <2>1, n \in Nat
    <3>2. printed'[i] = printed[i] /\ printed'[1] = printed[1]
      BY ONLY <2>1, <3>1, <1>7
    <3> QED BY <1>1, <2>1, <3>1, <3>2 DEF PrintedOK
  <2>2. CASE i = n + 1
    BY <2>2, <1>5, <1>7, <1>8
  <2>3. i \in 1 .. n \/ i = n + 1
    BY ONLY i \in 1 .. (n + 1), n \in Nat
  <2> QED BY <2>1, <2>2, <2>3
<1>10. ASSUME s + 1 < ALLOC_FRAMES PROVE Follows'
  <2>1. printed' # <<>>
    BY <1>7
  <2>2. store'.ctr = s + 1
    BY <1>3
  <2>3. store'.ctr = printed'[1].frame + Len(printed')
    BY ONLY <1>7, <1>8, <2>2, n \in Nat, s \in Nat
  <2> QED BY ONLY <1>10, <2>1, <2>2, <2>3 DEF Follows
<1>11. SaveFileOK'
  BY <1>1, FileKept
<1>12. store' \in [ctr : 0 .. ALLOC_FRAMES, arc : 0 .. ALLOC_FRAMES]
       /\ store'.arc = store'.ctr
  BY <1>3, SMTT(30)
<1> QED BY <1>3, <1>6, <1>9, <1>10, <1>11, <1>12 DEF AllocInv

LEMMA AllocInvNext == ASSUME AllocInv, [AllocNext]_allocVars PROVE AllocInv'
<1>1. CASE Gone
  <2>1. at' = "off" /\ store' = store /\ saveFile' = saveFile /\ printed' = printed
    BY <1>1 DEF Gone
  <2>2. SaveFileOK' /\ PrintedOK'
    BY <2>1, FileKept, PrintedKept DEF AllocInv
  <2> QED BY <2>1, <2>2 DEF AllocInv
<1>2. CASE UNCHANGED allocVars
  <2>1. at' = at /\ store' = store /\ saveFile' = saveFile /\ printed' = printed
        /\ heap' = heap /\ replayed' = replayed
    BY <1>2 DEF allocVars
  <2>2. /\ SaveFileOK' /\ PrintedOK' /\ (Follows => Follows')
        /\ (HeapAt(replayed) => HeapAt(replayed)')
        /\ (HeapAt(store.ctr) => HeapAt(store.ctr)')
    BY <2>1 DEF AllocInv, SaveFileOK, PrintedOK, Follows, HeapAt
  <2> QED BY <2>1, <2>2 DEF AllocInv
<1> QED BY <1>1, <1>2, BootKeeps, StartKeeps, ReplayKeeps, UpdateKeeps,
           WriteChunkKeeps, UpdateRestKeeps DEF AllocNext

\* The save file and what is rebuilt from it, for every number of frames,
\* save point, growth rule, chunk size and sequence of killed processes:
\* the allocating cart never works with half a save and prints after any
\* restore what an uninterrupted run prints.
THEOREM AllocIsSound == AllocSpec => []AllocSound
<1>1. AllocInv => AllocSound
  <2> SUFFICES ASSUME AllocInv PROVE AllocSound
    OBVIOUS
  <2>1. AllocTypeOK
    <3>1. ASSUME HeapAt(store.ctr) PROVE heap.rl # None /\ heap.arc # None /\ heap.gv # None
      BY <3>1 DEF HeapAt, Some, None
    <3> QED BY <3>1 DEF AllocTypeOK, AllocInv, SaveFileOK
  <2>2. RestoredDigestsMatch
    <3> SUFFICES ASSUME NEW i \in DOMAIN printed
                 PROVE  LET f == printed[i].frame
                            d == printed[i].digest
                        IN /\ f = printed[1].frame + i - 1
                           /\ printed[1].frame \in {0, SAVE_AT_S_CTR}
                           /\ d[1] = f + 1 /\ d[2] = "resource" /\ d[3] = f + 1
                           /\ {d[4][k] : k \in DOMAIN d[4]} = Pushed(f + 1)
                           /\ \A j, k \in DOMAIN d[4] : j < k => d[4][j] < d[4][k]
      BY DEF RestoredDigestsMatch
    <3>1. /\ printed[i].frame = printed[1].frame + i - 1
          /\ printed[1].frame \in {0, SAVE_AT_S_CTR} /\ DigestLine(printed[i])
          /\ printed[i] \in DigestLines
      BY DEF AllocInv, PrintedOK
    <3>2. printed[i].digest[2] = "resource" /\ printed[i].frame + 1 \in Nat
      BY <3>1 DEF DigestLines
    <3>3. /\ {printed[i].digest[4][k] : k \in DOMAIN printed[i].digest[4]}
               = Pushed(printed[i].frame + 1)
          /\ \A j, k \in DOMAIN printed[i].digest[4] :
               j < k => printed[i].digest[4][j] < printed[i].digest[4][k]
      BY <3>1, <3>2, GrownIsPushed DEF DigestLine
    <3> QED BY <3>1, <3>2, <3>3 DEF DigestLine
  <2> QED BY <2>1, <2>2 DEF AllocSound
<1> QED BY <1>1, AllocInvInit, AllocInvNext, PTL DEF AllocSpec

=============================================================================
