----------------------------- MODULE AllocCart -----------------------------
(***************************************************************************)
(* The allocating Rust cart and its save file                              *)
(* (spike-p/cart/src/lib_alloc.rs, spike-p/lib/console_spike_p.c, and the  *)
(* straight, save and restore runs of spike-p/Makefile).                   *)
(*                                                                         *)
(* A process reads the save file at start: a whole one puts it in load     *)
(* mode, anything else starts afresh.  The cart keeps two words in the     *)
(* state buffer and four values on its heap; the heap is never saved, so  *)
(* on_load has to rebuild it from the two words.  The save truncates the   *)
(* file and rewrites it in chunks, and a process may be killed anywhere,   *)
(* also inside the save.                                                   *)
(***************************************************************************)
EXTENDS Integers, Sequences

CONSTANTS
    SAVE_AT_S_CTR,  \* the counter at which the cart saves
    ALLOC_FRAMES,   \* NFRAMES of the cart
    GROW_EVERY,     \* GROW_VEC takes every such counter
    GROW_MAX,       \* and at most this many
    SAVE_BYTES,     \* sizeof(save_file_t)
    CHUNK,          \* the largest read or write
    MAX_BOOTS       \* processes started one after the other

ASSUME AllocAssumption ==
    /\ {SAVE_AT_S_CTR, ALLOC_FRAMES, GROW_EVERY, GROW_MAX} \subseteq Nat
    /\ {SAVE_BYTES, CHUNK, MAX_BOOTS} \subseteq Nat
    /\ 0 < CHUNK /\ CHUNK < SAVE_BYTES
    /\ SAVE_AT_S_CTR < ALLOC_FRAMES /\ GROW_EVERY > 0

VARIABLES
    at,         \* where the process is; "off" when there is none
    dir,        \* this run's save directory: "none", "ro", "rw", "full"
    store,      \* state_store: the counter and the Arc's value
    heap,       \* RESOURCE_LOOKUP, STATE_VEC, ARC_COUNTER and GROW_VEC
    replayed,   \* counters on_load's loop has gone through
    saveFile,   \* bytes in the file, and the words they are the start of
    printed,    \* DIGEST lines of this process
    boots       \* processes so far

allocVars == <<at, dir, store, heap, replayed, saveFile, printed, boots>>

None == <<>>
Some(v) == <<v>>
Undefined == -1                 \* stands for a word of the stack nobody wrote
NoFile == [len |-> -1, words |-> [frame |-> 0, ctr |-> 0, arc |-> 0]]
NoHeap == [rl |-> None, sv |-> None, arc |-> None, gv |-> None]

AllocInit ==
    /\ at = "off" /\ dir = "none" /\ boots = 0
    /\ store = [ctr |-> 0, arc |-> 0] /\ heap = NoHeap /\ replayed = 0
    /\ saveFile = NoFile /\ printed = <<>>

(* The rule both update and on_load apply: this counter is pushed. *)
Grows(gv, c) == c % GROW_EVERY = 0 /\ Len(gv) < GROW_MAX
Grown(gv, c) == IF Grows(gv, c) THEN Append(gv, c) ELSE gv

(* fc_cart_on_load up to its loop: the resource only when missing, the     *)
(* rest from the state buffer, GROW_VEC empty.                             *)
fc_cart_on_load(st, hp) ==
    [rl  |-> IF hp.rl = None THEN Some("resource") ELSE hp.rl,
     sv  |-> Some(st.ctr),
     arc |-> Some(st.arc),
     gv  |-> Some(<<>>)]

fc_cart_init(st, hp) == fc_cart_on_load(st, [hp EXCEPT !.rl = Some("resource")])

-----------------------------------------------------------------------------
(* A run of the Makefile starts the process with the directory absent,     *)
(* writable (perhaps on a full disk) or read-only; memory is fresh.        *)
Boot(d) ==
    /\ at = "off" /\ boots < MAX_BOOTS
    /\ at' = "start" /\ dir' = d /\ boots' = boots + 1
    /\ store' = [ctr |-> 0, arc |-> 0] /\ heap' = NoHeap /\ printed' = <<>>
    /\ replayed' = 0 /\ UNCHANGED saveFile

(* The slip of loading whatever could be read. *)
ReadsAny(len) == len >= 0

(* read_save succeeds: the file is there and has every byte. *)
ReadsAll(len) == len = SAVE_BYTES

(* The words the cart uses lie in the first chunk. *)
WordsRead ==
    IF saveFile.len >= CHUNK THEN [ctr |-> saveFile.words.ctr, arc |-> saveFile.words.arc]
                             ELSE [ctr |-> Undefined, arc |-> Undefined]

(* fc_console_main up to the loop of on_load, which fc_cart_init also calls. *)
Start ==
    /\ at = "start" /\ at' = "load"
    /\ IF dir # "none" /\ ReadsAll(saveFile.len)
       THEN store' = WordsRead /\ heap' = fc_cart_on_load(WordsRead, heap)
       ELSE store' = store /\ heap' = fc_cart_init(store, heap)
    /\ UNCHANGED <<dir, replayed, saveFile, printed, boots>>

(* The slip of replaying the pushes before the first frame's increment. *)
ReplaysEarly(gv, k) == Grown(gv, k - 1)

(* What the loop does with new_s_ctr = k. *)
Replays(gv, k) == Grown(gv, k)

(* One turn of on_load's loop, which replays the pushes of frames 1 to     *)
(* s_ctr, or its end.                                                      *)
Replay ==
    /\ at = "load"
    /\ IF replayed < store.ctr
       THEN /\ replayed' = replayed + 1
            /\ heap' = [heap EXCEPT !.gv = Some(Replays(@[1], replayed + 1))]
            /\ UNCHANGED at
       ELSE at' = "update" /\ replayed' = 0 /\ UNCHANGED heap
    /\ UNCHANGED <<dir, store, saveFile, printed, boots>>

(* The slip of saving after the increment. *)
SavesNext == [frame |-> store.ctr, ctr |-> store.ctr + 1, arc |-> store.arc + 1]

(* What blyt_test_save_now writes. *)
Saves == [frame |-> store.ctr, ctr |-> store.ctr, arc |-> store.arc]

(* fc_cart_update up to the open of the file, which truncates it; without  *)
(* a writable directory the save does nothing.                             *)
Update ==
    /\ at = "update"
    /\ IF store.ctr = SAVE_AT_S_CTR /\ dir \in {"rw", "full"}
       THEN /\ at' = "saving"
            /\ saveFile' = [len |-> 0, words |-> Saves]
       ELSE at' = "frame" /\ UNCHANGED saveFile
    /\ UNCHANGED <<dir, store, heap, replayed, printed, boots>>

Rest == SAVE_BYTES - saveFile.len
Want == IF Rest > CHUNK THEN CHUNK ELSE Rest

(* The slip of retrying a write that wrote nothing. *)
BreaksOnError(n) == n < 0

Breaks(n) == n <= 0

(* sys_write takes some bytes or fails; on a full disk it takes none. *)
Written == IF dir = "full" THEN {0} ELSE {-1} \cup 1..Want

(* One turn of write_save's loop.  Nobody looks at the result of the save. *)
WriteChunk(n) ==
    /\ at = "saving" /\ Rest > 0
    /\ IF Breaks(n)
       THEN at' = "frame" /\ UNCHANGED saveFile
       ELSE /\ saveFile' = [saveFile EXCEPT !.len = @ + n]
            /\ at' = IF saveFile'.len = SAVE_BYTES THEN "frame" ELSE "saving"
    /\ UNCHANGED <<dir, store, heap, replayed, printed, boots>>

(* The rest of fc_cart_update: count, push, print, leave after NFRAMES.    *)
(* The digest is an injective image of the fields it covers; STATE_VEC is  *)
(* left out of it on purpose, it differs after a restore.                  *)
UpdateRest ==
    LET c   == store.ctr + 1
        arc == heap.arc[1] + 1
        gv  == Grown(heap.gv[1], c)
    IN /\ at = "frame"
       /\ heap' = [heap EXCEPT !.arc = Some(arc), !.gv = Some(gv)]
       /\ store' = [ctr |-> c, arc |-> arc]
       /\ printed' = Append(printed, [frame |-> store.ctr,
                                      digest |-> <<c, heap.rl[1], arc, gv>>])
       /\ at' = IF c >= ALLOC_FRAMES THEN "ended" ELSE "update"
       /\ UNCHANGED <<dir, replayed, saveFile, boots>>

(* The process is gone: killed anywhere, or collected after its exit. *)
Gone ==
    /\ at # "off" /\ at' = "off"
    /\ UNCHANGED <<dir, store, heap, replayed, saveFile, printed, boots>>

ProcessStep ==
    Start \/ Replay \/ Update \/ (\E n \in Written : WriteChunk(n)) \/ UpdateRest

AllocNext ==
    \/ \E d \in {"none", "ro", "rw", "full"} : Boot(d)
    \/ Start
    \/ Replay
    \/ Update
    \/ \E n \in Written : WriteChunk(n)
    \/ UpdateRest
    \/ Gone

(* A process is one thread of straight-line code; nobody has to kill it. *)
AllocSpec == AllocInit /\ [][AllocNext]_allocVars /\ WF_allocVars(ProcessStep)

-----------------------------------------------------------------------------
(* Every word in use was written by the cart, and update finds the heap    *)
(* values it unwraps: no run works with a file that was cut short.         *)
AllocTypeOK ==
    /\ at \in {"off", "start", "load", "update", "saving", "frame", "ended"}
    /\ store.ctr \in 0..ALLOC_FRAMES /\ store.arc \in 0..ALLOC_FRAMES
    /\ saveFile.len \in -1..SAVE_BYTES
    /\ at \in {"update", "saving", "frame"} =>
          heap.rl # None /\ heap.arc # None /\ heap.gv # None

(* The counters GROW_VEC holds after c frames of an uninterrupted run. *)
Pushed(c) == {k \in 1..c : k % GROW_EVERY = 0 /\ k \div GROW_EVERY <= GROW_MAX}

(* Stage 4's gate, for every run and not only the five frames it compares: *)
(* whatever was saved, killed inside a save, half written or restored      *)
(* before, a process prints for each frame what an uninterrupted run       *)
(* prints, and its frames follow on from 0 or from the save.               *)
RestoredDigestsMatch ==
    \A i \in DOMAIN printed :
        LET f == printed[i].frame
            d == printed[i].digest
        IN /\ f = printed[1].frame + i - 1
           /\ printed[1].frame \in {0, SAVE_AT_S_CTR}
           /\ d[1] = f + 1 /\ d[2] = "resource" /\ d[3] = f + 1
           /\ {d[4][k] : k \in DOMAIN d[4]} = Pushed(f + 1)
           /\ \A j, k \in DOMAIN d[4] : j < k => d[4][j] < d[4][k]

(* The allocating cart never works with half a save, and what it prints    *)
(* after any restore is what an uninterrupted run prints.                  *)
AllocSound == AllocTypeOK /\ RestoredDigestsMatch

(* A process that is not killed comes to its exit, also when the disk is   *)
(* full or refuses the save.                                               *)
AllocCartEnds == (at = "start") ~> (at \in {"ended", "off"})
=============================================================================
