--------------------------- MODULE SaveStateProofs ---------------------------
(***************************************************************************)
(* Proofs about SaveState for every set of builds, registry and region     *)
(* behaviour that satisfies the assumptions of that module.                *)
(*                                                                         *)
(* The properties are not inductive: that an accepted file has the         *)
(* reader's layout rests on who may have written its hash (HashInv), and   *)
(* that a clean file is accepted on what a running process may hold        *)
(* (LiveInv) and write (FileInv).                                          *)
(***************************************************************************)
EXTENDS SaveState, TLAPS

\* A process that has initialised runs a build whose description fits.
InitInv == ginit => /\ ~Overflowed(build)
                    /\ ghash = LayoutHash(build)

\* A layout hash in a file is its writer's, and the writer's was not truncated.
HashInv == file.hash # BadHash => /\ ~Overflowed(file.writer)
                                  /\ file.hash = LayoutHash(file.writer)

\* A file whose header the medium left alone passes every gate of its writer.
FileInv == damage \subseteq {"body"} =>
             /\ file.hex
             /\ file.magic = SAVE_STATE_MAGIC
             /\ file.version = SAVE_STATE_VERSION
             /\ file.hash = LayoutHash(file.writer)
             /\ ~Overflowed(file.writer)
             /\ file.total = Capacity(file.writer)
             /\ file.size = Capacity(file.writer)

\* A file that is missing or damaged outside its blocks fails some gate.
GateInv == ~(damage \subseteq {"body"}) =>
             \/ ~file.hex
             \/ file.magic # SAVE_STATE_MAGIC
             \/ file.version # SAVE_STATE_VERSION
             \/ file.hash = BadHash
             \/ file.total > file.size
             \/ file.total # Capacity(file.writer)

\* Blocks the medium left alone are blocks their regions accept.
BodyInv == "body" \notin damage =>
             \A i \in Slots(file.writer) : LoadOK(file.writer, i, file.body[i])

\* A running process holds in every region contents that region accepts.
LiveInv == status = "running" =>
             \A i \in Slots(build) : LoadOK(build, i, live[i])

IInv == /\ TypeOK
        /\ InitInv
        /\ HashInv
        /\ FileInv
        /\ GateInv
        /\ BodyInv
        /\ LiveInv
        /\ AcceptedLoadIsWholeAndSameLayout
        /\ CleanFileIsAccepted
        /\ GateRefusalTouchesNothing

\* Builds whose untruncated descriptions hash alike have one registry.
LEMMA SameHashSameRegistry ==
  ASSUME NEW b \in Builds, NEW c \in Builds,
         ~Overflowed(b), ~Overflowed(c), LayoutHash(b) = LayoutHash(c)
  PROVE  Registry[b] = Registry[c]
  BY FnvAssumption DEF Description

\* Registry entries are region definitions, so LoadOK is about known regions.
LEMMA RegistryEntry ==
  ASSUME NEW b \in Builds, NEW i \in Slots(b)
  PROVE  Registry[b][i] \in RegionDefs
  BY BuildAssumption DEF Slots

\* What a loader with registry b makes of blocks only reads b's registry.
LEMMA LoadOKOfRegistry ==
  ASSUME NEW b, NEW c, NEW i, NEW v, Registry[b] = Registry[c]
  PROVE  LoadOK(b, i, v) <=> LoadOK(c, i, v)
  BY DEF LoadOK

\* Capacity is a number and at least the header.
LEMMA CapacityIsNat ==
  ASSUME NEW b \in Builds
  PROVE  Capacity(b) \in Nat /\ Capacity(b) >= HeaderSize
  BY BuildAssumption DEF Capacity, HeaderSize

LEMMA InitIInv == Init => IInv
  <1> SUFFICES ASSUME Init PROVE IInv
    OBVIOUS
  <1> USE DEF Init, NoFile
  <1>1. TypeOK
    <2>1. [i \in Slots(build) |-> Zero] \in [Slots(build) -> Values]
      BY RegionAssumption
    <2>2. file \in FileType /\ file.body = [i \in Slots(build) |-> Zero]
      BY <2>1 DEF FileType
    <2> QED
      BY <2>1, <2>2 DEF TypeOK
  <1>2. BodyInv
    BY RegionAssumption, RegistryEntry DEF BodyInv, LoadOK
  <1>3. InitInv /\ HashInv /\ FileInv /\ GateInv /\ LiveInv
    BY DEF InitInv, HashInv, FileInv, GateInv, LiveInv, SAVE_STATE_MAGIC
  <1>4. AcceptedLoadIsWholeAndSameLayout /\ CleanFileIsAccepted /\ GateRefusalTouchesNothing
    BY DEF AcceptedLoadIsWholeAndSameLayout, CleanFileIsAccepted, GateRefusalTouchesNothing
  <1> QED
    BY <1>1, <1>2, <1>3, <1>4 DEF IInv

\* The three properties when no load has just returned.
LEMMA NoOutcome ==
  ASSUME outcome' = "none"
  PROVE  /\ AcceptedLoadIsWholeAndSameLayout'
         /\ CleanFileIsAccepted'
         /\ GateRefusalTouchesNothing'
  BY DEF AcceptedLoadIsWholeAndSameLayout, CleanFileIsAccepted, GateRefusalTouchesNothing

LEMMA BootStep ==
  ASSUME IInv, NEW b \in Builds, Boot(b)
  PROVE  IInv'
  <1> USE DEF Boot
  <1>1. TypeOK'
    BY RegionAssumption DEF IInv, TypeOK
  <1>2. InitInv' /\ HashInv' /\ FileInv' /\ GateInv' /\ BodyInv'
    BY DEF IInv, InitInv, HashInv, FileInv, GateInv, BodyInv
  <1>3. LiveInv'
    BY RegionAssumption, RegistryEntry DEF LiveInv, LoadOK
  <1> QED
    BY <1>1, <1>2, <1>3, NoOutcome DEF IInv

LEMMA InitCallStep ==
  ASSUME IInv, SaveStateInit
  PROVE  IInv'
  <1> USE DEF SaveStateInit, InitCall
  <1>1. TypeOK' /\ InitInv'
    BY DEF IInv, TypeOK, InitInv
  <1>2. HashInv' /\ FileInv' /\ GateInv' /\ BodyInv' /\ LiveInv'
    BY DEF IInv, HashInv, FileInv, GateInv, BodyInv, LiveInv
  <1>3. /\ AcceptedLoadIsWholeAndSameLayout'
        /\ CleanFileIsAccepted'
        /\ GateRefusalTouchesNothing'
    BY DEF IInv, AcceptedLoadIsWholeAndSameLayout, CleanFileIsAccepted,
           GateRefusalTouchesNothing
  <1> QED
    BY <1>1, <1>2, <1>3 DEF IInv

LEMMA CartFrameStep ==
  ASSUME IInv, CartFrame
  PROVE  IInv'
  <1>0. PICK i \in Slots(build) : \E v \in CartValues[Registry[build][i]] :
          live' = [live EXCEPT ![i] = v]
    BY DEF CartFrame
  <1>1. PICK v \in CartValues[Registry[build][i]] :
          live' = [live EXCEPT ![i] = v]
    BY <1>0
  <1>2. Registry[build][i] \in RegionDefs
    BY RegistryEntry DEF IInv, TypeOK
  <1>3. v \in Values /\ v \in Accepts[Registry[build][i]]
    BY <1>2, RegionAssumption
  <1>4. TypeOK'
    BY <1>1, <1>3 DEF IInv, TypeOK, CartFrame
  <1>5. LiveInv'
    BY <1>1, <1>3 DEF IInv, TypeOK, LiveInv, LoadOK, CartFrame
  <1>6. InitInv' /\ HashInv' /\ FileInv' /\ GateInv' /\ BodyInv'
    BY DEF IInv, InitInv, HashInv, FileInv, GateInv, BodyInv, CartFrame
  <1> QED
    BY <1>4, <1>5, <1>6, NoOutcome DEF IInv, CartFrame

LEMMA SaveStep ==
  ASSUME IInv, Save
  PROVE  IInv'
  <1>1. CASE ~Ready
    <2> USE <1>1 DEF Save, Ready, InitCall
    <2>1. TypeOK' /\ InitInv'
      BY DEF IInv, TypeOK, InitInv
    <2>2. HashInv' /\ FileInv' /\ GateInv' /\ BodyInv' /\ LiveInv'
      BY DEF IInv, HashInv, FileInv, GateInv, BodyInv, LiveInv
    <2> QED
      BY <2>1, <2>2, NoOutcome DEF IInv
  <1>2. CASE Ready /\ BufCap < Capacity(build)
    <2> USE <1>2 DEF Save, Ready
    <2>1. TypeOK' /\ InitInv'
      BY DEF IInv, TypeOK, InitInv
    <2>2. HashInv' /\ FileInv' /\ GateInv' /\ BodyInv' /\ LiveInv'
      BY DEF IInv, HashInv, FileInv, GateInv, BodyInv, LiveInv
    <2> QED
      BY <2>1, <2>2, NoOutcome DEF IInv
  <1>3. CASE Ready /\ ~(BufCap < Capacity(build))
    <2> USE <1>3
    <2>1. /\ live' = [i \in Slots(build) |-> Canon[live[i]]]
          /\ build' = build /\ status' = "running" /\ status = "running"
          /\ ginit' = TRUE /\ damage' = {} /\ outcome' = "none" /\ prior' = live'
          /\ ghash' = LayoutHash(build) /\ ~Overflowed(build)
          /\ file' = [hex |-> TRUE, magic |-> SAVE_STATE_MAGIC,
                      version |-> SAVE_STATE_VERSION, hash |-> ghash',
                      total |-> Capacity(build), size |-> Capacity(build),
                      body |-> live', writer |-> build]
      BY DEF Save, Ready, IInv, InitInv
    <2>2. TypeOK'
      <3>1. live' \in [Slots(build) -> Values]
        BY <2>1, RegionAssumption DEF IInv, TypeOK
      <3>2. file' \in FileType
        BY <2>1, <3>1, CapacityIsNat
           DEF FileType, IInv, TypeOK, SAVE_STATE_MAGIC, SAVE_STATE_VERSION
      <3> QED
        BY <2>1, <3>1, <3>2 DEF IInv, TypeOK, FileType
    <2>3. \A i \in Slots(build) : LoadOK(build, i, live'[i])
      BY <2>1, RegionAssumption, RegistryEntry DEF IInv, TypeOK, LiveInv, LoadOK
    <2>4. LiveInv' /\ BodyInv'
      BY <2>1, <2>3 DEF LiveInv, BodyInv, LoadOK, Slots
    <2>5. InitInv' /\ HashInv' /\ FileInv' /\ GateInv'
      BY <2>1 DEF InitInv, HashInv, FileInv, GateInv
    <2> QED
      BY <2>1, <2>2, <2>4, <2>5, NoOutcome DEF IInv
  <1> QED
    BY <1>1, <1>2, <1>3

LEMMA DamageStep ==
  ASSUME IInv, Damage
  PROVE  IInv'
  <1> USE DEF Damage
  <1>1. CASE DamageHeader /\ damage' = {"header"}
    <2>1. /\ file'.writer = file.writer
          /\ file'.body = file.body
          /\ file'.hash = file.hash \/ file'.hash = BadHash
          /\ file' \in FileType
      <3>1. file \in FileType
        BY DEF IInv, TypeOK
      <3>2. CASE file' = [file EXCEPT !.magic = 0] \/ file' = [file EXCEPT !.version = 0]
        BY <3>1, <3>2 DEF FileType
      <3>3. CASE file' = [file EXCEPT !.hash = BadHash]
        BY <3>1, <3>3 DEF FileType
      <3>4. CASE file' = [file EXCEPT !.total = @ + 1]
        BY <3>1, <3>4 DEF FileType
      <3>5. CASE file' = [file EXCEPT !.hex = FALSE]
        BY <3>1, <3>5 DEF FileType
      <3>6. ASSUME NEW n \in {HeaderSize - 1, file.size - 1}, n < file.size,
                   file' = [file EXCEPT !.size = n]
            PROVE  /\ file'.writer = file.writer
                   /\ file'.body = file.body
                   /\ file'.hash = file.hash
                   /\ file' \in FileType
        <4>1. file.size \in Nat /\ file.size >= HeaderSize
          BY <3>1, CapacityIsNat DEF FileType, IInv, FileInv
        <4>2. n \in Nat
          BY <4>1, <3>6 DEF HeaderSize
        <4> QED
          BY <3>1, <3>6, <4>2 DEF FileType
      <3> QED
        BY <1>1, <3>2, <3>3, <3>4, <3>5, <3>6 DEF DamageHeader
    <2>2. TypeOK'
      BY <1>1, <2>1 DEF IInv, TypeOK
    <2>3. HashInv' /\ BodyInv' /\ FileInv'
      BY <1>1, <2>1 DEF IInv, HashInv, BodyInv, FileInv
    <2>4. InitInv' /\ LiveInv'
      BY DEF IInv, InitInv, LiveInv
    <2>5. GateInv'
      <3>1. /\ file \in FileType
            /\ file.total = Capacity(file.writer)
            /\ file.size = Capacity(file.writer)
            /\ Capacity(file.writer) \in Nat
        BY CapacityIsNat DEF IInv, FileInv, TypeOK, FileType
      <3>2. CASE file' = [file EXCEPT !.magic = 0] \/ file' = [file EXCEPT !.version = 0]
        BY <3>1, <3>2 DEF GateInv, FileType, SAVE_STATE_MAGIC, SAVE_STATE_VERSION
      <3>3. CASE file' = [file EXCEPT !.hash = BadHash] \/ file' = [file EXCEPT !.hex = FALSE]
        BY <3>1, <3>3 DEF GateInv, FileType
      <3>4. CASE file' = [file EXCEPT !.total = @ + 1]
        <4>1. file'.total = file.total + 1 /\ file'.writer = file.writer
          BY <3>1, <3>4 DEF FileType
        <4> QED
          BY <3>1, <4>1 DEF GateInv
      <3>5. ASSUME NEW n \in {HeaderSize - 1, file.size - 1}, n < file.size,
                   file' = [file EXCEPT !.size = n]
            PROVE  GateInv'
        <4>1. file'.size = n /\ file'.total = file.total
          BY <3>1, <3>5 DEF FileType
        <4>2. n \in Int
          BY <3>1 DEF HeaderSize
        <4> QED
          BY <3>1, <3>5, <4>1, <4>2 DEF GateInv
      <3> QED
        BY <1>1, <3>2, <3>3, <3>4, <3>5 DEF DamageHeader
    <2> QED
      BY <2>2, <2>3, <2>4, <2>5, NoOutcome DEF IInv
  <1>2. CASE DamageBody /\ damage' = {"body"}
    <2>1. PICK i \in DOMAIN file.body, v \in Values :
            file' = [file EXCEPT !.body[i] = v]
      BY <1>2 DEF DamageBody
    <2>2. /\ file' \in FileType
          /\ file'.body \in [Slots(file'.writer) -> Values]
          /\ file' = [file EXCEPT !.body = file'.body]
      BY <2>1 DEF IInv, TypeOK, FileType
    <2>3. TypeOK'
      BY <1>2, <2>2 DEF IInv, TypeOK
    <2>5. HashInv' /\ BodyInv' /\ FileInv' /\ GateInv'
      BY <1>2, <2>2 DEF IInv, HashInv, BodyInv, FileInv, GateInv, TypeOK, FileType
    <2>4. InitInv' /\ LiveInv'
      BY DEF IInv, InitInv, LiveInv
    <2> QED
      BY <2>3, <2>4, <2>5, NoOutcome DEF IInv
  <1> QED
    BY <1>1, <1>2

\* A file that passes the late gates was written with the reader's registry.
LEMMA GatesMeanSameRegistry ==
  ASSUME IInv, Ready, LateGates(LayoutHash(build))
  PROVE  Registry[file.writer] = Registry[build]
  BY SameHashSameRegistry, FnvAssumption
     DEF IInv, TypeOK, FileType, InitInv, HashInv, LateGates, Ready

LEMMA LoadStep ==
  ASSUME IInv, Load
  PROVE  IInv'
  <1>1. HashInv' /\ FileInv' /\ GateInv' /\ BodyInv'
    BY DEF Load, IInv, HashInv, FileInv, GateInv, BodyInv
  <1>2. CASE ~EarlyGates
    <2> USE <1>2 DEF Load, Reject
    <2>1. TypeOK' /\ InitInv' /\ LiveInv'
      BY DEF IInv, TypeOK, InitInv, LiveInv
    <2>2. AcceptedLoadIsWholeAndSameLayout' /\ GateRefusalTouchesNothing'
      BY DEF AcceptedLoadIsWholeAndSameLayout, GateRefusalTouchesNothing
    <2>3. CleanFileIsAccepted'
      BY CapacityIsNat
         DEF CleanFileIsAccepted, EarlyGates, IInv, FileInv, TypeOK, FileType
    <2> QED
      BY <1>1, <2>1, <2>2, <2>3 DEF IInv
  <1>3. CASE EarlyGates /\ ~Ready
    <2> USE <1>3 DEF Load, InitCall
    <2>1. TypeOK' /\ InitInv' /\ LiveInv'
      BY DEF IInv, TypeOK, InitInv, LiveInv, Ready
    <2> QED
      BY <1>1, <2>1, NoOutcome DEF IInv, Ready
  <1>4. CASE EarlyGates /\ Ready /\ ~LateGates(LayoutHash(build))
    <2> USE <1>4
    <2>1. /\ ginit' = TRUE /\ ghash' = LayoutHash(build) /\ ~Overflowed(build)
          /\ live' = live /\ prior' = live
          /\ outcome' = "rejected" /\ status' = "exited"
          /\ UNCHANGED <<build, file, damage>>
      BY DEF Load, Reject, Ready, IInv, InitInv
    <2>2. TypeOK' /\ InitInv' /\ LiveInv'
      BY <2>1 DEF IInv, TypeOK, InitInv, LiveInv
    <2>3. AcceptedLoadIsWholeAndSameLayout' /\ GateRefusalTouchesNothing'
      BY <2>1 DEF AcceptedLoadIsWholeAndSameLayout, GateRefusalTouchesNothing
    <2>4. CleanFileIsAccepted'
      <3> SUFFICES ASSUME damage = {}, Registry[file.writer] = Registry[build]
                   PROVE  FALSE
        BY <2>1 DEF CleanFileIsAccepted
      <3>1. LayoutHash(file.writer) = LayoutHash(build)
        BY DEF LayoutHash, Description, Overflowed
      <3>2. TotalSize(file.writer) = TotalSize(build)
        BY Zenon DEF TotalSize
      <3>3. Capacity(file.writer) = Capacity(build)
        BY <3>2 DEF Capacity
      <3>4. Capacity(file.writer) \in Nat
        BY CapacityIsNat DEF IInv, TypeOK, FileType
      <3> QED
        BY <3>1, <3>3, <3>4 DEF LateGates, IInv, FileInv
    <2> QED
      BY <1>1, <2>2, <2>3, <2>4 DEF IInv
  <1>5. CASE EarlyGates /\ Ready /\ LateGates(LayoutHash(build))
    <2> USE <1>5
    <2>1. /\ ginit' = TRUE /\ ghash' = LayoutHash(build) /\ ~Overflowed(build)
          /\ live' = [i \in Slots(build) |->
                         IF Committed(i) THEN file.body[i] ELSE live[i]]
          /\ prior' = live
          /\ IF BodyOK THEN Accept ELSE Reject
          /\ UNCHANGED <<build, file, damage>>
          /\ status = "running"
      BY DEF Load, Ready, IInv, InitInv
    <2>2. Registry[file.writer] = Registry[build]
      BY GatesMeanSameRegistry
    <2>3. Slots(file.writer) = Slots(build)
      BY <2>2 DEF Slots
    <2>4. TypeOK'
      BY <2>1, <2>3 DEF IInv, TypeOK, Accept, Reject
    <2>5. InitInv'
      BY <2>1 DEF InitInv
    <2>6. CASE BodyOK
      <3>1. \A i \in Slots(build) : Committed(i)
        BY <2>6, BuildAssumption DEF BodyOK, Committed, Slots, IInv, TypeOK
      <3>2. live' = file.body
        BY <2>1, <2>3, <3>1 DEF IInv, TypeOK
      <3>3. LiveInv'
        BY <2>1, <2>6, <3>2 DEF LiveInv, BodyOK
      <3>4. AcceptedLoadIsWholeAndSameLayout'
        BY <2>1, <2>2, <3>2 DEF AcceptedLoadIsWholeAndSameLayout
      <3>5. CleanFileIsAccepted' /\ GateRefusalTouchesNothing'
        BY <2>1, <2>6 DEF CleanFileIsAccepted, GateRefusalTouchesNothing, Accept
      <3> QED
        BY <1>1, <2>4, <2>5, <3>3, <3>4, <3>5 DEF IInv
    <2>7. CASE ~BodyOK
      <3>1. "body" \in damage
        BY <2>2, <2>3, <2>7, LoadOKOfRegistry DEF BodyOK, IInv, BodyInv
      <3>2. LiveInv' /\ AcceptedLoadIsWholeAndSameLayout' /\ CleanFileIsAccepted'
            /\ GateRefusalTouchesNothing'
        BY <2>1, <2>7, <3>1
           DEF LiveInv, AcceptedLoadIsWholeAndSameLayout, CleanFileIsAccepted,
               GateRefusalTouchesNothing, Reject
      <3> QED
        BY <1>1, <2>4, <2>5, <3>2 DEF IInv
    <2> QED
      BY <2>6, <2>7
  <1> QED
    BY <1>2, <1>3, <1>4, <1>5

\* The conjunction of the properties and their strengthening is preserved.
LEMMA NextIInv == IInv /\ [Next]_vars => IInv'
  <1> SUFFICES ASSUME IInv, [Next]_vars PROVE IInv'
    OBVIOUS
  <1>1. CASE UNCHANGED vars
    BY <1>1 DEF vars, IInv, TypeOK, InitInv, HashInv, FileInv, GateInv, BodyInv, LiveInv,
                AcceptedLoadIsWholeAndSameLayout, CleanFileIsAccepted,
                GateRefusalTouchesNothing
  <1> QED
    BY <1>1, BootStep, InitCallStep, CartFrameStep, SaveStep, DamageStep, LoadStep
       DEF Next

\* The strengthening is an invariant of the engine.
THEOREM SaveStateInvariant == Spec => []IInv
  BY InitIInv, NextIInv, PTL DEF Spec

(* Type correctness, for every registry: the regions of the running build  *)
(* and the blocks of the file keep their shape across boots, loads and     *)
(* damage.                                                                 *)
THEOREM TypeCorrect == Spec => []TypeOK
  <1>1. IInv => TypeOK
    BY DEF IInv
  <1> QED
    BY <1>1, SaveStateInvariant, PTL

(* save_state_load returns 1 only for a file of the reader's own layout,   *)
(* and then restores every region.                                         *)
THEOREM AcceptedLoad == Spec => []AcceptedLoadIsWholeAndSameLayout
  <1>1. IInv => AcceptedLoadIsWholeAndSameLayout
    BY DEF IInv
  <1> QED
    BY <1>1, SaveStateInvariant, PTL

\* A file the medium left alone is accepted by every build of its layout.
THEOREM CleanFile == Spec => []CleanFileIsAccepted
  <1>1. IInv => CleanFileIsAccepted
    BY DEF IInv
  <1> QED
    BY <1>1, SaveStateInvariant, PTL

\* A refusal not caused by a block's contents leaves every region as it was.
THEOREM GateRefusal == Spec => []GateRefusalTouchesNothing
  <1>1. IInv => GateRefusalTouchesNothing
    BY DEF IInv
  <1> QED
    BY <1>1, SaveStateInvariant, PTL

(* The gates of save_state_load, for every registry: no clean file of the  *)
(* reader's layout is refused, and a refusal at a gate changes nothing.    *)
THEOREM ExactGates == Spec => []GatesAreExact
  <1>1. CleanFileIsAccepted /\ GateRefusalTouchesNothing => GatesAreExact
    BY DEF GatesAreExact
  <1> QED
    BY <1>1, CleanFile, GateRefusal, PTL

------------------------------------------------------------------------------
\* A running process is a state of the store, never None.
LEMMA RunningIsState ==
  ASSUME IInv
  PROVE  [layout |-> Registry[build], vals |-> live] # None
  BY NoneAssumption DEF IInv, TypeOK

LEMMA ImageIsState ==
  ASSUME IInv
  PROVE  [layout |-> Registry[file.writer], vals |-> file.body] # None
  BY NoneAssumption DEF IInv, TypeOK, FileType

LEMMA StoreInit == Init => Store!Init
  BY DEF Init, Store!Init, CurState, ImgState

\* Every step of the engine is a step of the store or changes nothing there.
LEMMA StoreStep ==
  ASSUME IInv, IInv', [Next]_vars
  PROVE  [Store!Next]_<<CurState, ImgState>>
  <1> DEFINE Live == [layout |-> Registry[build], vals |-> live]
             Image == [layout |-> Registry[file.writer], vals |-> file.body]
  <1>1. CASE UNCHANGED vars
    BY <1>1 DEF vars, CurState, ImgState
  <1>2. ASSUME NEW b \in Builds, Boot(b) PROVE Store!Start
    <2>1. CurState' = [layout |-> Registry[b], vals |-> Fresh(Registry[b])]
      BY <1>2 DEF Boot, CurState, Fresh, Slots
    <2>2. UNCHANGED ImgState
      BY <1>2 DEF Boot, ImgState
    <2> QED
      BY <2>1, <2>2 DEF Store!Start, Store!State
  <1>3. CASE SaveStateInit
    BY <1>3 DEF SaveStateInit, InitCall, CurState, ImgState, Store!Next, Store!Stop
  <1>4. ASSUME CartFrame PROVE Store!Work
    <2>1. CurState = Live /\ CurState' = [layout |-> Registry[build], vals |-> live']
      BY <1>4 DEF CartFrame, CurState
    <2>2. \E i \in DOMAIN live : \E v \in CartValues[Registry[build][i]] :
             live' = [live EXCEPT ![i] = v]
      BY <1>4 DEF CartFrame, IInv, TypeOK
    <2>3. UNCHANGED ImgState
      BY <1>4 DEF CartFrame, ImgState
    <2> QED
      BY <2>1, <2>2, <2>3, RunningIsState DEF Store!Work, Store!State
  <1>5. CASE Save
    <2>1. CASE ~(Ready /\ ~(BufCap < Capacity(build)))
      <3>1. UNCHANGED ImgState
        BY <1>5, <2>1 DEF Save, ImgState
      <3>2. UNCHANGED CurState \/ CurState' = None
        BY <1>5, <2>1 DEF Save, InitCall, CurState
      <3> QED
        BY <3>1, <3>2 DEF Store!Next, Store!Stop
    <2>2. CASE Ready /\ ~(BufCap < Capacity(build))
      <3>1. /\ live' = [i \in Slots(build) |-> Canon[live[i]]]
            /\ build' = build /\ status' = "running" /\ status = "running"
            /\ damage' = {} /\ file'.writer = build /\ file'.body = live'
        BY <1>5, <2>2 DEF Save
      <3>2. live' = CanonOf(live)
        BY <3>1 DEF CanonOf, IInv, TypeOK
      <3>3. /\ CurState = Live
            /\ CurState' = [layout |-> Registry[build], vals |-> CanonOf(live)]
            /\ ImgState' = CurState'
        BY <3>1, <3>2 DEF CurState, ImgState
      <3> QED
        BY <3>3, RunningIsState DEF Store!Next, Store!Checkpoint, Store!State
    <2> QED
      BY <2>1, <2>2
  <1>6. CASE Damage
    <2>1. UNCHANGED CurState
      BY <1>6 DEF Damage, CurState
    <2>2. ImgState = Image
      BY <1>6 DEF Damage, ImgState
    <2>3. CASE damage' = {"header"}
      <3>1. ImgState' = None
        BY <2>3 DEF ImgState
      <3> QED
        BY <2>1, <2>2, <3>1, ImageIsState DEF Store!Next, Store!Decay
    <2>4. CASE DamageBody /\ damage' = {"body"}
      <3>1. PICK i \in DOMAIN file.body, v \in Values :
              file' = [file EXCEPT !.body[i] = v]
        BY <2>4 DEF DamageBody
      <3>2. file'.writer = file.writer
        BY <3>1 DEF IInv, TypeOK, FileType
      <3>3. file'.body \in Contents(Registry[file.writer])
        BY <3>2 DEF IInv, TypeOK, Contents, Slots
      <3>4. ImgState' = [layout |-> Registry[file.writer], vals |-> file'.body]
        BY <2>4, <3>2 DEF ImgState
      <3> QED
        BY <2>1, <2>2, <3>3, <3>4, ImageIsState
           DEF Store!Next, Store!Decay, Store!State
    <2> QED
      BY <1>6, <2>3, <2>4 DEF Damage
  <1>7. CASE Load
    <2>1. UNCHANGED ImgState
      BY <1>7 DEF Load, ImgState
    <2>2. CASE outcome' # "accepted"
      <3>1. CurState' = None \/ UNCHANGED CurState
        BY <1>7, <2>2 DEF Load, Accept, Reject, InitCall, CurState
      <3> QED
        BY <2>1, <3>1 DEF Store!Next, Store!Stop
    <2>3. CASE outcome' = "accepted"
      <3>1. /\ EarlyGates /\ Ready /\ LateGates(LayoutHash(build))
            /\ status = "running" /\ status' = "running"
            /\ UNCHANGED <<build, file, damage>>
        BY <1>7, <2>3 DEF Load, Accept, Reject, InitCall, Ready, IInv, InitInv
      <3>2. Registry[file.writer] = Registry[build] /\ live' = file.body
        BY <2>3, <3>1 DEF IInv, AcceptedLoadIsWholeAndSameLayout
      <3>3. Capacity(file.writer) = Capacity(build)
        <4>1. TotalSize(file.writer) = TotalSize(build)
          BY <3>2, Zenon DEF TotalSize
        <4> QED
          BY <4>1 DEF Capacity
      <3>4. damage \subseteq {"body"}
        BY <3>1, <3>3, FnvAssumption
           DEF EarlyGates, LateGates, IInv, GateInv, TypeOK, FileType
      <3>5. CurState = Live /\ ImgState = Image /\ CurState' = Image
        BY <3>1, <3>2, <3>4 DEF CurState, ImgState
      <3> QED
        BY <2>1, <3>2, <3>5, RunningIsState, ImageIsState DEF Store!Next, Store!Restore
    <2> QED
      BY <2>2, <2>3
  <1> QED
    BY <1>1, <1>2, <1>3, <1>4, <1>5, <1>6, <1>7 DEF Next, Store!Next

(* The engine with its drivers implements the all-or-nothing store: a      *)
(* running cart holds its own state or a whole saved image, never part of  *)
(* one.                                                                    *)
THEOREM Refinement == Spec => CartNeverRunsOnAMixture
  <1>1. IInv /\ IInv' /\ [Next]_vars => [Store!Next]_<<CurState, ImgState>>
    BY StoreStep
  <1> QED
    BY <1>1, StoreInit, SaveStateInvariant, PTL
       DEF Spec, CartNeverRunsOnAMixture, Store!Spec
==============================================================================
