------------------------- MODULE PersistentScripts ---------------------------
(***************************************************************************)
(* Persistent coroutines, spikes/spike-m: the wrapper                      *)
(* lib/blyt32_coroutine.lua (its `slots` table and the coroutines in it)   *)
(* over the tracked region cart_runtime/region_persistent_scripts.c (an    *)
(* active bit and a blob for each slot), across saves and loads.           *)
(*                                                                         *)
(* A ctx is known by the script that made it, how often it was advanced    *)
(* and whether lua_table_flatten accepts it; the flattened bytes of a ctx  *)
(* are the ctx itself (the byte format is not this module's question).     *)
(* The cart is any order of calls; after a load it first re-creates, in    *)
(* slot order, the scripts that were alive, as the spike's carts do.       *)
(***************************************************************************)
EXTENDS Integers, FiniteSets

CONSTANTS NSlots,      \* MAX_PERSISTENT_SCRIPTS
          Scripts,     \* the bodies the cart may run, one instance of each
          MaxSteps     \* resumes of a script (bound)

ASSUME NSlotsAssumption == NSlots \in Nat \ {0}
ASSUME ScriptsAssumption == "none" \notin Scripts
ASSUME MaxStepsAssumption == MaxSteps \in Nat

VARIABLES active,      \* active_bits
          blob,        \* slot_lens and slots; NoCtx is length 0
          recs,        \* the wrapper's `slots`
          load_resume, \* g_load_resume
          todo,        \* slots of the snapshot whose script the cart still
                       \* has to re-create
          file,        \* the snapshot
          base,        \* history: who made the bytes each slot was loaded with
          gapped       \* history: this process, or one whose save it descends
                       \* from, loaded a snapshot with a gap

scriptVars == <<active, blob, recs, load_resume, todo, file, base, gapped>>

Slots == 0 .. NSlots - 1
Ctx == [by : Scripts, n : 0 .. MaxSteps, fits : BOOLEAN]
NoCtx == [by |-> "none", n |-> 0, fits |-> TRUE]
NoRec == [script |-> "none", ctx |-> NoCtx]
Rec == [script : Scripts, ctx : Ctx]
Blank == [s \in Slots |-> NoCtx]
NoRecs == [s \in Slots |-> NoRec]
NoFile == [active |-> {}, blob |-> Blank, recs |-> NoRecs, gapped |-> FALSE]

Seed(x, fits) == [by |-> x, n |-> 0, fits |-> fits]
Alive == {recs[s].script : s \in {t \in Slots : recs[t] # NoRec}}

ScriptInit ==
  /\ active = {} /\ blob = Blank /\ recs = NoRecs
  /\ load_resume = FALSE /\ todo = {} /\ file = NoFile
  /\ base = [s \in Slots |-> "none"] /\ gapped = FALSE

------------------------------------------------------------------------------
LastFree(s) == s \in Slots \ active /\ \A t \in Slots \ active : s >= t  \* mutant
\* persistent_scripts_alloc: the first free slot.
FirstFree(s) == s \in Slots \ active /\ \A t \in Slots \ active : s <= t

\* The ctx a new script starts with: after a load the bytes of its slot,
\* when there are any.
StartCtx(s, seed) == IF load_resume /\ blob[s] # NoCtx THEN blob[s] ELSE seed

PersistOnce(s, ctx) == blob' = [blob EXCEPT ![s] = IF @ = NoCtx THEN ctx ELSE @]  \* mutant
\* flatten_and_persist: an unflattenable ctx is an error, and no byte moves.
Persist(s, ctx) == blob' = [blob EXCEPT ![s] = IF ctx.fits THEN ctx ELSE @]

FreeNoBit(s) == blob' = [blob EXCEPT ![s] = NoCtx] /\ UNCHANGED active  \* mutant
FreeNoWipe(s) == active' = active \ {s} /\ UNCHANGED blob         \* mutant
\* persistent_scripts_free
FreeSlot(s) == active' = active \ {s} /\ blob' = [blob EXCEPT ![s] = NoCtx]

\* M.create(body, seed).  A seed that does not flatten is an error too, but
\* only after the slot is taken and the coroutine is in `slots`.
Create(x, seed) ==
  /\ x \notin Alive
  /\ \E s \in Slots :
       /\ FirstFree(s)
       /\ active' = active \cup {s}
       /\ recs' = [recs EXCEPT ![s] = [script |-> x, ctx |-> StartCtx(s, seed)]]
       /\ Persist(s, StartCtx(s, seed))
  /\ UNCHANGED <<load_resume, file, base, gapped>>

\* A new script, or BLYT_ERR_SLOT_EXHAUSTED.
CartCreates(x, fits) ==
  /\ todo = {} /\ Create(x, Seed(x, fits)) /\ UNCHANGED todo

\* The cart's first calls after a load: the scripts that were alive, in the
\* order of their slots.
CartRecreates(s) ==
  /\ s \in todo /\ (\A t \in todo : s <= t)
  /\ Create(file.recs[s].script, Seed(file.recs[s].script, TRUE))
  /\ todo' = todo \ {s}

Advanced(ctx, fits) == [by |-> ctx.by, n |-> ctx.n + 1, fits |-> fits]

\* M.resume, the body yields: it has advanced its ctx, which may have become
\* (or ceased to be) too large or of an unsupported shape.
ResumeYields(s, fits) ==
  /\ todo = {} /\ recs[s] # NoRec /\ recs[s].ctx.n < MaxSteps
  /\ recs' = [recs EXCEPT ![s] = [script |-> @.script, ctx |-> Advanced(@.ctx, fits)]]
  /\ Persist(s, Advanced(recs[s].ctx, fits))
  /\ UNCHANGED <<active, load_resume, todo, file, base, gapped>>

\* M.resume, the body returns or fails; M.destroy does the same.
ResumeEnds(s) ==
  /\ todo = {} /\ recs[s] # NoRec
  /\ recs' = [recs EXCEPT ![s] = NoRec]
  /\ FreeSlot(s)
  /\ UNCHANGED <<load_resume, todo, file, base, gapped>>

\* save_state_save at the end of a frame.  `recs` and `gapped` are not in the
\* buffer: the record keeps them for the properties, and `recs` for the cart's
\* order of creates.
Save ==
  /\ todo = {}
  /\ file' = [active |-> active, blob |-> blob, recs |-> recs,
               gapped |-> gapped]
  /\ UNCHANGED <<active, blob, recs, load_resume, todo, base, gapped>>

\* Snapshot f has a free slot below a used one.
HasGap(f) == \E s \in f.active, t \in Slots : t < s /\ t \notin f.active

\* m_driver_load: a new process loads the snapshot, then clears every active
\* bit (persistent_scripts_unmark_all) and runs the cart from its top.
Load ==
  /\ file # NoFile
  /\ active' = {} /\ blob' = file.blob
  /\ recs' = NoRecs /\ load_resume' = TRUE
  /\ todo' = {s \in Slots : file.recs[s] # NoRec}
  /\ base' = [s \in Slots |-> file.blob[s].by]
  /\ gapped' = (file.gapped \/ HasGap(file))
  /\ UNCHANGED file

ScriptNext == \/ \E x \in Scripts, fits \in BOOLEAN : CartCreates(x, fits)
              \/ \E s \in Slots : CartRecreates(s)
              \/ \E s \in Slots, fits \in BOOLEAN : ResumeYields(s, fits)
              \/ \E s \in Slots : ResumeEnds(s)
              \/ Save
              \/ Load

ScriptSpec == ScriptInit /\ [][ScriptNext]_scriptVars

------------------------------------------------------------------------------
(* The region and the wrapper's table have their types, and agree on which *)
(* slots are in use ("The C-side region_persistent_scripts mirrors slot    *)
(* occupancy + bytes", blyt32_coroutine.lua:27).                           *)
ScriptTypeOK ==
  /\ active \subseteq Slots /\ blob \in [Slots -> Ctx \cup {NoCtx}]
  /\ recs \in [Slots -> Rec \cup {NoRec}]
  /\ load_resume \in BOOLEAN /\ todo \subseteq Slots
  /\ file.active \subseteq Slots /\ file.blob \in [Slots -> Ctx \cup {NoCtx}]
  /\ file.recs \in [Slots -> Rec \cup {NoRec}]
  /\ base \in [Slots -> Scripts \cup {"none"}]
  /\ gapped \in BOOLEAN /\ file.gapped \in BOOLEAN
  /\ active = {s \in Slots : recs[s] # NoRec}

(* Whatever errors came before, a script whose ctx flattens now has this   *)
(* ctx, not an older one, in the region the next save writes; one whose    *)
(* ctx does not has an earlier ctx of its own or nothing, never another    *)
(* script's.                                                               *)
SavedCtxIsCurrent ==
  \A s \in active :
    LET ctx == recs[s].ctx IN
    /\ ctx.fits => blob[s] = ctx
    /\ blob[s] # NoCtx => blob[s].by = ctx.by /\ blob[s].n <= ctx.n

(* No script runs on a ctx that another script made, however creates, ends,*)
(* flatten errors, saves and loads alternate: slots are wiped when they    *)
(* are freed, and what a load leaves in a slot goes to the script it       *)
(* belongs to.  The one exception is the code's own: m_driver_load.c:93    *)
(* clears the active bits, so the scripts of a snapshot with a gap move    *)
(* down; then a script may run on the bytes its slot was loaded with, and  *)
(* on no other script's.                                                   *)
CtxStaysWithItsScript ==
  \A s \in active :
    recs[s].ctx.by # recs[s].script => gapped /\ recs[s].ctx.by = base[s]

(* The region, the wrapper's table and the scripts agree: on the slots in  *)
(* use, on what a save would write, and on whose ctx each script runs.     *)
CtxSound == ScriptTypeOK /\ SavedCtxIsCurrent /\ CtxStaysWithItsScript

(* A script re-created after any load takes the slot with as many used     *)
(* ones below it as at the save, and goes on with the bytes of that slot,  *)
(* or with its seed when there are none.  It is the slot it had exactly    *)
(* when every slot below was used.                                         *)
RestoredInOrder ==
  [][\A s \in Slots :
       CartRecreates(s) =>
         LET x == file.recs[s].script
             k == Cardinality({t \in file.active : t < s})
         IN  recs'[k] = [script |-> x,
                         ctx |-> IF file.blob[k] # NoCtx THEN file.blob[k]
                                                         ELSE Seed(x, TRUE)]]_scriptVars

(* "Slot indices are stable across save/restore"                           *)
(* (blyt32_coroutine.lua:21): while the cart re-creates its scripts, a     *)
(* slot that is used holds the script it held at the save.  A save with a  *)
(* gap refutes it.                                                         *)
SlotsAreStable ==
  todo # {} => \A s \in active : recs[s].script = file.recs[s].script
==============================================================================
