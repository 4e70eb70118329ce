----------------------------- MODULE CartReplay -----------------------------
(***************************************************************************)
(* Save on one host, resume on another, compare with an uninterrupted run  *)
(* on a third (spikes/spike-k/ports/rv32emu: the *_full.c, *_save.c and    *)
(* *_load.c programs of each cart); or run spike-d's cart and spike-f's    *)
(* build of it side by side.  The processes run independently; the load    *)
(* program needs the save program's buffer.  The header gates and damaged  *)
(* buffers are module SaveState's subject: here the buffer arrives as      *)
(* written.                                                                *)
(***************************************************************************)
EXTENDS DetCarts

CONSTANT NFRAMES          \* frames of a complete run

ASSUME FramesAssumption == NFRAMES \in Nat \ {0}

Drivers == {"full", "save", "load", "wasm"}     \* each on a host of its own
Programs(cart) == IF cart = "direct" THEN {"full", "wasm"}
                                     ELSE {"full", "save", "load"}

VARIABLES env,            \* what the run is given; never changes
          saveFrame,      \* argv of the save program
          proc,           \* proc[d]: the process running program d
          stage,          \* stage[d]: "off", "running", "done" or "panic"
          file,           \* the BUFFER line, once the save program is done
          digests,        \* digests[d][i]: the DIGEST lines of program d
          states          \* history: states[d][i]: d after its i-th frame

vars == <<env, saveFrame, proc, stage, file, digests, states>>

\* A shake saved before its trigger would never shake again: the load
\* program of that cart is for a buffer that "carries mid-shake state".
SaveFrames(cart) == IF cart = "shake" THEN ShakeTrigger .. (NFRAMES - 1)
                                      ELSE 0 .. (NFRAMES - 1)

Init ==
  /\ env \in [cart  : Carts,
              ends  : [1 .. 2 -> 0 .. NFRAMES],
              nanAt : 0 .. NFRAMES,
              stack : {[d \in Drivers |-> IF d = "full" THEN 100 ELSE 200]}]
  /\ env.cart # "audio" => env.ends = [h \in 1 .. 2 |-> NFRAMES]
  /\ env.cart \notin {"lua", "whetstone", "direct"} => env.nanAt = NFRAMES
  /\ saveFrame \in SaveFrames(env.cart)
  /\ proc = [d \in Drivers |-> IF d = "load" THEN Process(d)
                               ELSE StartCart(env.cart, Process(d))]
  /\ stage = [d \in Drivers |-> IF d \in Programs(env.cart) \ {"load"}
                                THEN "running" ELSE "off"]
  /\ file = <<>>
  /\ digests = [d \in Drivers |-> <<>>]
  /\ states = [d \in Drivers |-> <<>>]

\* The last frame of the program's loop.
LastFrame(d) == IF d = "save" THEN saveFrame ELSE NFRAMES - 1

\* A process as the other hosts' are to be compared with it: NaNs canonical,
\* whatever it printed.
Canonical(p) == [p EXCEPT !.host = "any", !.mem = CanonMem(@), !.out = <<>>]

\* One iteration of a program's loop.
RunFrame(d) ==
  LET p == Frame(d, proc[d], env)
  IN  /\ stage[d] = "running"
      /\ proc[d].f <= LastFrame(d)
      /\ proc' = [proc EXCEPT ![d] = [p EXCEPT !.f = @ + 1]]
      /\ digests' = [digests EXCEPT ![d] =
                       IF p.out = <<>> THEN @ ELSE Append(@, p.out[1])]
      /\ states' = [states EXCEPT ![d] = Append(@, Canonical(proc'[d]))]
      /\ UNCHANGED <<env, saveFrame, stage, file>>

\* save_state_save after the last frame, then exit.
SaveBuffer ==
  /\ stage["save"] = "running"
  /\ proc["save"].f > LastFrame("save")
  /\ file' = SaveOut(env.cart, proc["save"].mem)
  /\ proc' = [proc EXCEPT !["save"].mem = CanonMem(@)]
  /\ stage' = [stage EXCEPT !["save"] = "done"]
  /\ UNCHANGED <<env, saveFrame, digests, states>>

\* The load program's main up to its loop; a queue region that load()
\* refuses makes it panic.
LoadBuffer ==
  /\ stage["load"] = "off"
  /\ stage["save"] = "done"
  /\ proc' = [proc EXCEPT !["load"] = ResumeCart(env.cart, @, file)]
  /\ stage' = [stage EXCEPT !["load"] =
                 IF QueueLoads(proc'["load"].mem.q) THEN "running" ELSE "panic"]
  /\ UNCHANGED <<env, saveFrame, file, digests, states>>

Finish(d) ==
  /\ d # "save"
  /\ stage[d] = "running"
  /\ proc[d].f > LastFrame(d)
  /\ stage' = [stage EXCEPT ![d] = "done"]
  /\ UNCHANGED <<env, saveFrame, proc, file, digests, states>>

Next == \/ \E d \in Drivers : RunFrame(d) \/ Finish(d)
        \/ SaveBuffer
        \/ LoadBuffer

Spec == Init /\ [][Next]_vars /\ WF_vars(Next)

------------------------------------------------------------------------------
(* No process runs past its last frame or panics, every queue fits its     *)
(* array, a NaN is the host's own or canonical, and the file has the       *)
(* cart's regions.                                                         *)
TypeOK ==
  /\ stage \in [Drivers -> {"off", "running", "done"}]
  /\ \A d \in Drivers : /\ proc[d].f <= LastFrame(d) + 1
                        /\ QueueLoads(proc[d].mem.q)
                        /\ proc[d].mem.fs.acc.nan \in {"no", "canon", d}
  /\ stage["save"] = "done" => DOMAIN file = Regions(env.cart)

FirstFrame(d) == IF d = "load" THEN saveFrame + 1 ELSE 0

(* The determinism contract: every DIGEST line of the resumed run is the   *)
(* line the uninterrupted run prints for that frame, wherever the save was *)
(* taken (with voice ends pending, mid-shake, mid-cutscene, after a NaN),  *)
(* although the save program prints none and so never canonicalised; and   *)
(* every line of the WASM build is the one rv32emu prints.                 *)
ResumedDigestsMatchFullRun ==
  \A d \in Drivers : \A i \in DOMAIN digests[d] :
    (FirstFrame(d) + i) \in DOMAIN digests["full"]
       => digests[d][i] = digests["full"][FirstFrame(d) + i]

(* Processes stay within their loops and arrays, and a resumed run prints  *)
(* the digests of the uninterrupted one.                                   *)
ReplaySound == TypeOK /\ ResumedDigestsMatchFullRun

(* The buffer is the same bytes on every host: it is the uninterrupted     *)
(* run's tracked state at that frame, canonicalised.                       *)
BufferIsHostIndependent ==
  (stage["save"] = "done" /\ Len(states["full"]) > saveFrame)
    => file = Tracked(env.cart, states["full"][saveFrame + 1].mem)

(* Both runs come to an end and the resumed one prints exactly the frames  *)
(* after the save: no frame repeated at the seam, none skipped, whether    *)
(* the cart stores the frame it finished or (lua) the next one.            *)
ResumedRunCompletes ==
  <>(/\ \A d \in Programs(env.cart) : stage[d] = "done"
     /\ "load" \in Programs(env.cart) =>
          Len(digests["load"]) = NFRAMES - 1 - saveFrame
     /\ \A i \in DOMAIN digests["load"] :
          digests["load"][i].frame = saveFrame + i)
=============================================================================
