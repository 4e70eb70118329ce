------------------------------ MODULE SaveState ------------------------------
(***************************************************************************)
(* The save-state engine of the cart runtime                               *)
(* (spikes/spike-k/cart_runtime: save_state.c, runtime_tracked.c,          *)
(* save_io.c), driven the way the *_save.c and *_load.c drivers drive it.  *)
(*                                                                         *)
(* A cart build links a registry of tracked regions.  Saving writes a      *)
(* header and one block per region, in registry order; loading checks the  *)
(* header and hands each block to its region's load() callback in turn.    *)
(* The file travels to another host, possibly to another build, and may be *)
(* damaged on the way.                                                     *)
(*                                                                         *)
(* Abstractions.  A region's bytes are one member of Values, and its name, *)
(* size and field list one member of RegionDefs.  A region's description   *)
(* is one token, so ScratchCap (4096 characters in the code) counts        *)
(* regions.  `p + r->size > end` and `p == end` in save_state_load are not *)
(* written out: after the total_size gate both compare one sum of region   *)
(* sizes with itself.                                                      *)
(***************************************************************************)
EXTENDS Naturals, Sequences, SequencesExt

CONSTANTS
  RegionDefs,   \* [name, size, fields] of every tracked region of any build
  Builds,       \* cart builds that may write or read a file
  Registry,     \* Registry[b]: runtime_tracked_regions of b, in order
  Values,       \* what the bytes of a region can hold
  Zero,         \* all-zero bytes (BSS)
  CartValues,   \* CartValues[r]: contents the cart's own updates give region r
  Canon,        \* Canon[v]: v after a region's save() canonicalised its NaNs
  Accepts,      \* Accepts[r]: contents the load() of region r returns 1 on
  ScratchCap,   \* descriptions that fit save_state_init's scratch
  BufCap,       \* the drivers' save buffer (8192 bytes in the code)
  Fnv(_),       \* fnv1a_64_bytes
  BadHash,      \* a layout_hash that no build computes
  None          \* refinement only: no running cart, no usable image

HeaderSize == 24          \* sizeof(save_state_header_t)
SAVE_STATE_MAGIC == 1     \* 0x46433253; any other value is a mismatch
SAVE_STATE_VERSION == 1

Slots(b) == 1 .. Len(Registry[b])

(* runtime_tracked_describe into a bounded sink: what does not fit is      *)
(* dropped, and the sink's overflowed flag is set.                         *)
Overflowed(b) == Len(Registry[b]) > ScratchCap
Description(b) == IF Overflowed(b) THEN SubSeq(Registry[b], 1, ScratchCap)
                                   ELSE Registry[b]
LayoutHash(b) == Fnv(Description(b))

TotalSize(b) == FoldLeft(LAMBDA acc, r : acc + r.size, 0, Registry[b])
Capacity(b) == HeaderSize + TotalSize(b)

\* A region's load() on the block: only voice_end_queue refuses contents.
LoadOKRefusesLegal(b, i, v) ==     \* mutant: refuses a legal non-empty queue
  v \in Accepts[Registry[b][i]] /\ (Accepts[Registry[b][i]] # Values => v = Zero)
LoadOK(b, i, v) == v \in Accepts[Registry[b][i]]

ASSUME BuildAssumption ==
  /\ Registry \in [Builds -> Seq(RegionDefs)]
  /\ ScratchCap \in Nat
  /\ \A b \in Builds : TotalSize(b) \in Nat
\* No 64-bit collision among the descriptions of the builds at hand.
ASSUME FnvAssumption ==
  \A b, c \in Builds : /\ LayoutHash(b) # BadHash
                       /\ LayoutHash(b) = LayoutHash(c)
                            => Description(b) = Description(c)
\* A region accepts what its own cart code and its own save() produce.
ASSUME RegionAssumption ==
  /\ Zero \in Values
  /\ Canon \in [Values -> Values]
  /\ Accepts \in [RegionDefs -> SUBSET Values]
  /\ CartValues \in [RegionDefs -> SUBSET Values]
  /\ \A r \in RegionDefs : /\ Zero \in Accepts[r]
                           /\ CartValues[r] \subseteq Accepts[r]
                           /\ \A v \in Accepts[r] : Canon[v] \in Accepts[r]

\* None is no state of the store.
ASSUME NoneAssumption ==
  None \notin UNION {[layout : {Registry[b]}, vals : [Slots(b) -> Values]] :
                       b \in Builds}

VARIABLES
  build,      \* the build the process runs
  status,     \* "running", "hung" (save_state_init's spin) or "exited"
  live,       \* live[i]: contents of the i-th region of the running build
  ginit,      \* g_initialized
  ghash,      \* g_layout_hash
  file,       \* the buffer on its medium
  damage,     \* history: what the medium did to `file` since it was written
  outcome,    \* history: what a load returned, until the next step
  prior       \* history: `live` just before that load (else `live` itself)

vars == <<build, status, live, ginit, ghash, file, damage, outcome, prior>>

NoFile(b) == [hex |-> TRUE, magic |-> 0, version |-> 0, hash |-> BadHash,
              total |-> 0, size |-> 0, body |-> [i \in Slots(b) |-> Zero],
              writer |-> b]

Init ==
  /\ build \in Builds
  /\ status = "exited"
  /\ live = [i \in Slots(build) |-> Zero]
  /\ ginit = FALSE
  /\ ghash = BadHash
  /\ file = NoFile(build)
  /\ damage = {"absent"}
  /\ outcome = "none"
  /\ prior = live

BootKeepsStatics(b) ==             \* mutant: statics survive the restart
  /\ build' = b
  /\ status' = "running"
  /\ ginit' = FALSE
  /\ outcome' = "none"
  /\ UNCHANGED <<live, prior, ghash, file, damage>>

(* A process starts (after an exit or a crash) with zeroed statics; which  *)
(* build it runs is the host's choice.                                     *)
Boot(b) ==
  /\ build' = b
  /\ status' = "running"
  /\ live' = [i \in Slots(b) |-> Zero]
  /\ ginit' = FALSE
  /\ ghash' = BadHash
  /\ outcome' = "none"
  /\ prior' = live'
  /\ UNCHANGED <<file, damage>>

InitCallTruncates ==               \* mutant: overflow flag not inspected
  /\ ginit' = TRUE
  /\ ghash' = LayoutHash(build)
  /\ UNCHANGED status

(* save_state_init: hash the description, or spin if it was truncated.     *)
InitCall ==
  IF Overflowed(build)
  THEN /\ status' = "hung"
       /\ UNCHANGED <<ginit, ghash>>
  ELSE /\ ginit' = TRUE
       /\ ghash' = LayoutHash(build)
       /\ UNCHANGED status

SaveStateInit ==
  /\ status = "running"
  /\ InitCall
  /\ UNCHANGED <<build, live, file, damage, outcome, prior>>

\* The cart updates one region between calls of the engine.
CartFrame ==
  /\ status = "running"
  /\ \E i \in Slots(build) : \E v \in CartValues[Registry[build][i]] :
       live' = [live EXCEPT ![i] = v]
  /\ outcome' = "none"
  /\ prior' = live'
  /\ UNCHANGED <<build, status, ginit, ghash, file, damage>>

Ready == ginit \/ ~Overflowed(build)

(* save_state_save: initialises on demand, refuses a short buffer (the     *)
(* drivers then exit), otherwise every region canonicalises its live f32   *)
(* fields in place and is copied out.                                      *)
Save ==
  /\ status = "running"
  /\ outcome' = "none"
  /\ UNCHANGED build
  /\ \/ /\ ~Ready
        /\ InitCall
        /\ UNCHANGED <<live, file, damage>>
     \/ /\ Ready
        /\ ginit' = TRUE
        /\ ghash' = IF ginit THEN ghash ELSE LayoutHash(build)
        /\ IF BufCap < Capacity(build)
           THEN /\ status' = "exited"
                /\ UNCHANGED <<live, file, damage>>
           ELSE /\ live' = [i \in Slots(build) |-> Canon[live[i]]]
                /\ file' = [hex |-> TRUE,
                            magic |-> SAVE_STATE_MAGIC,
                            version |-> SAVE_STATE_VERSION,
                            hash |-> ghash',
                            total |-> Capacity(build),
                            size |-> Capacity(build),
                            body |-> live',
                            writer |-> build]
                /\ damage' = {}
                /\ UNCHANGED status
  /\ prior' = live'

(* The medium: the faults the corruption tests inject, an undecodable hex  *)
(* text, a short file, or another byte in one region's block.              *)
DamageHeader ==
  \/ file' = [file EXCEPT !.magic = 0]
  \/ file' = [file EXCEPT !.version = 0]
  \/ file' = [file EXCEPT !.hash = BadHash]
  \/ file' = [file EXCEPT !.total = @ + 1]
  \/ file' = [file EXCEPT !.hex = FALSE]
  \/ \E n \in {HeaderSize - 1, file.size - 1} :
       n < file.size /\ file' = [file EXCEPT !.size = n]

DamageBody ==
  \E i \in DOMAIN file.body : \E v \in Values :
    file' = [file EXCEPT !.body[i] = v]

Damage ==
  /\ damage = {}
  /\ \/ DamageHeader /\ damage' = {"header"}
     \/ DamageBody   /\ damage' = {"body"}
  /\ outcome' = "none"
  /\ prior' = live
  /\ UNCHANGED <<build, status, live, ginit, ghash>>

(* save_state_load's gates, in order; the first two come before the        *)
(* on-demand initialisation.                                               *)
EarlyGates == /\ file.hex
              /\ file.size >= HeaderSize
              /\ file.magic = SAVE_STATE_MAGIC
              /\ file.version = SAVE_STATE_VERSION
LateGates(h) == /\ file.hash = h
                /\ file.total <= file.size
                /\ file.total = Capacity(build)

\* Regions are committed one by one up to and including the first refusal:
\* a load() that refuses has already copied its block.
Committed(i) == \A j \in 1 .. (i - 1) : LoadOK(build, j, file.body[j])
BodyOK == \A i \in Slots(build) : LoadOK(build, i, file.body[i])

Accept == outcome' = "accepted" /\ UNCHANGED status
RejectAndGoOn == outcome' = "rejected" /\ UNCHANGED status   \* mutant
Reject == outcome' = "rejected" /\ status' = "exited"   \* drivers: PANIC, exit

Load ==
  /\ status = "running"
  /\ prior' = live
  /\ UNCHANGED <<build, file, damage>>
  /\ \/ /\ ~EarlyGates
        /\ Reject
        /\ UNCHANGED <<live, ginit, ghash>>
     \/ /\ EarlyGates
        /\ ~Ready
        /\ InitCall
        /\ outcome' = "none"
        /\ UNCHANGED live
     \/ /\ EarlyGates
        /\ Ready
        /\ ginit' = TRUE
        /\ ghash' = IF ginit THEN ghash ELSE LayoutHash(build)
        /\ IF LateGates(ghash')
           THEN /\ live' = [i \in Slots(build) |->
                              IF Committed(i) THEN file.body[i] ELSE live[i]]
                /\ IF BodyOK THEN Accept ELSE Reject
           ELSE /\ UNCHANGED live
                /\ Reject

Next ==
  \/ \E b \in Builds : Boot(b)
  \/ SaveStateInit
  \/ CartFrame
  \/ Save
  \/ Damage
  \/ Load

Spec == Init /\ [][Next]_vars

------------------------------------------------------------------------------
FileType ==
  [hex : BOOLEAN, magic : Nat, version : Nat,
   hash : {LayoutHash(b) : b \in Builds} \cup {BadHash},
   total : Nat, size : Nat,
   body : UNION {[Slots(b) -> Values] : b \in Builds}, writer : Builds]

(* Every variable holds what its C counterpart can hold; a file's blocks   *)
(* are those of the build that wrote it.                                   *)
TypeOK ==
  /\ build \in Builds
  /\ status \in {"running", "hung", "exited"}
  /\ live \in [Slots(build) -> Values]
  /\ ginit \in BOOLEAN
  /\ damage \in SUBSET {"absent", "header", "body"}
  /\ outcome \in {"none", "accepted", "rejected"}
  /\ prior \in [Slots(build) -> Values]
  /\ file \in FileType
  /\ file.body \in [Slots(file.writer) -> Values]

(* A load returns 1 only for a file written by a build whose registry is   *)
(* the reader's to the last field, and then every region holds exactly its *)
(* block: no acceptance on a truncated description, no region skipped      *)
(* (save_state.h: "rejects the load if it differs").                       *)
AcceptedLoadIsWholeAndSameLayout ==
  outcome = "accepted" => /\ Registry[file.writer] = Registry[build]
                          /\ live = file.body

(* A file the medium left alone is never refused by a build of its layout  *)
(* (corruption_tests.c, test 6), whatever the process did before: no run   *)
(* of frames, saves, loads and refused loads leaves a region holding       *)
(* contents that its own load() refuses.                                   *)
CleanFileIsAccepted ==
  (outcome = "rejected" /\ damage = {}) => Registry[file.writer] # Registry[build]

(* A refusal that is not about a block's contents (bad text, short file,   *)
(* header gates) happens before any region is touched.                     *)
GateRefusalTouchesNothing ==
  (outcome = "rejected" /\ "body" \notin damage) => live = prior

(* Both at once: the load's gates refuse no file they should let through,  *)
(* and a refusal at a gate leaves the process as it was.                   *)
GatesAreExact == CleanFileIsAccepted /\ GateRefusalTouchesNothing

(* save_state.h:52 says this of every refusal: "each returns false, no     *)
(* partial mutation".                                                      *)
RefusalTouchesNothing == outcome = "rejected" => live = prior

(* The promise of SnapshotStore: a running cart never holds a mixture of   *)
(* two states, because a refused load ends the process.                    *)
Fresh(l) == [i \in 1 .. Len(l) |-> Zero]
Contents(l) == [1 .. Len(l) -> Values]
CanonOf(c) == [i \in DOMAIN c |-> Canon[c[i]]]

CurState == IF status = "running"
            THEN [layout |-> Registry[build], vals |-> live] ELSE None
ImgState == IF damage \subseteq {"body"}
            THEN [layout |-> Registry[file.writer], vals |-> file.body] ELSE None

Store == INSTANCE SnapshotStore
           WITH Layouts <- {Registry[b] : b \in Builds},
                OwnValues <- CartValues, cur <- CurState, img <- ImgState

CartNeverRunsOnAMixture == Store!Spec
==============================================================================
