----------------------------- MODULE HotReload ------------------------------
(***************************************************************************)
(* Hot reload by save and restore, spikes/spike-n: a cart is built, runs,  *)
(* is snapshotted, edited and rebuilt, and the new binary loads the        *)
(* snapshot with save_state_load_migrate (cart_runtime/save_state_n.c).    *)
(* Two regions are modelled, in the order of their registration:           *)
(* frame_state, whose layout no edit touches (nor that of the two regions  *)
(* of the Lua cart's scripts), and the cart's own (native_state or         *)
(* lua_cart_state).  The header's magic, version and size checks are those *)
(* of SaveState; a snapshot here is undamaged, but it may be of any        *)
(* earlier build of the cart.                                              *)
(*                                                                         *)
(* `truth` and `described` are history variables: the number each field of *)
(* the cart stands for, carried across edits by ADR-0045's table (same     *)
(* name and type: kept; new: zero; gone: dropped; retyped: what the        *)
(* callback says), and whether each load was of a layout the build knew.   *)
(***************************************************************************)
EXTENDS Migrate, FiniteSets

CONSTANTS Builds,       \* build -> [cart, layout, desc, migrates]
          Scratch,      \* sizeof(scratch), in words
          MaxFrames     \* frames a session runs (bound)

VARIABLES build,        \* the binary that runs, or was last started
          status,       \* "running" or "refused"
          frame,        \* region_frame_state
          cart,         \* the cart's region
          file,         \* the snapshot
          truth, described

vars == <<build, status, frame, cart, file, truth, described>>

NoLayout == Layout(<<>>, 0)
NoDesc == [old |-> NoLayout, new |-> NoLayout, on_retype |-> "none"]
CartOf(b) == Builds[b].cart
LayoutOf(b) == Builds[b].layout
DescOf(b) == Builds[b].desc
\* The native load driver calls save_state_load_migrate, the Lua one is
\* spike-m's and calls save_state_load.
Migrates(b) == Builds[b].migrates
HasDesc(b) == DescOf(b).old # NoLayout
NamesOf(b) == {f.name : f \in Fields(LayoutOf(b))}
FieldOf(b, n) == CHOOSE f \in Fields(LayoutOf(b)) : f.name = n

Blank(b) == [w \in 1 .. LayoutOf(b).total |-> 0]
NoFile == [build |-> "none", frame |-> 0, cart |-> <<>>, truth |-> <<>>,
           described |-> TRUE]

\* A layout the compiler can give a struct: fields with names of their own
\* that fit the region and do not overlap.
WellFormed(L) ==
  /\ L.total \in Nat
  /\ \A f \in Fields(L) : /\ f.offset \in Nat /\ f.type \in {"i32", "i64", "f32"}
                          /\ FieldFits(f, L)
  /\ \A f, g \in Fields(L) :
       f # g => /\ f.name # g.name
                /\ \/ f.offset + Size(f.type) <= g.offset
                   \/ g.offset + Size(g.type) <= f.offset

\* The descriptors are registered by hand beside the struct they describe.
ASSUME BuildsAssumption ==
  /\ \A b \in DOMAIN Builds :
       /\ WellFormed(LayoutOf(b))
       /\ HasDesc(b) => DescOf(b).new = LayoutOf(b) /\ WellFormed(DescOf(b).old)
  /\ Scratch \in Nat /\ MaxFrames \in Nat

\* The layouts' descriptions are hashed; SaveState has the hash's limits.
SameHash(b) == LayoutOf(file.build) = LayoutOf(b)

Init ==
  /\ build \in {b \in DOMAIN Builds : ~HasDesc(b)}
  /\ status = "running" /\ frame = 0 /\ cart = Blank(build)
  /\ file = NoFile /\ truth = [n \in NamesOf(build) |-> 0] /\ described = TRUE

\* Numbers the cart puts in a field: both signs, and one that needs i64.
ValuesOf(type) == IF type = "i64" THEN {-3, 1} ELSE {-1, 1}

Written(f, v) ==
  [w \in DOMAIN cart |-> IF f.offset < w /\ w <= f.offset + Size(f.type)
                         THEN Encode(v, f.type)[w - f.offset] ELSE cart[w]]

\* native_cart_update, set_cart_state: a frame writes some field.
CartUpdate(n, v) ==
  /\ status = "running" /\ frame < MaxFrames
  /\ v \in ValuesOf(FieldOf(build, n).type)
  /\ cart' = Written(FieldOf(build, n), v)
  /\ truth' = [truth EXCEPT ![n] = v]
  /\ frame' = frame + 1
  /\ UNCHANGED <<build, status, file, described>>

Snapshot ==
  /\ status = "running"
  /\ file' = [build |-> build, frame |-> frame, cart |-> cart, truth |-> truth,
              described |-> described]
  /\ UNCHANGED <<build, status, frame, cart, truth, described>>

\* The bytes of the cart's region in the snapshot that build b expects.
OldSize(b) == IF HasDesc(b) THEN DescOf(b).old.total ELSE LayoutOf(b).total

OldSizeFitsStrict(b) == OldSize(b) < Len(file.cart)               \* mutant
\* Phase 2: the snapshot is long enough.  Nothing asks if it is too long.
OldSizeFits(b) == OldSize(b) <= Len(file.cart)

\* A refusal before any region is touched.
Refused(b) == ~Migrates(b) \/ ~OldSizeFits(b)

\* Phase 3 for the cart's region: does it get past every `return 0`?
CartLoads(b) == HasDesc(b) => /\ LayoutOf(b).total <= Scratch
                              /\ MigrateOK(DescOf(b).new, DescOf(b).old)

CartBytes(b) ==
  IF HasDesc(b)
  THEN Migrated(DescOf(b).new, DescOf(b).old, file.cart, DescOf(b).on_retype)
  ELSE SubSeq(file.cart, 1, LayoutOf(b).total)

\* ADR-0045's table, by the two layouts.
Carried(b) ==
  [n \in NamesOf(b) |->
     IF n \notin NamesOf(file.build) THEN 0
     ELSE LET from == FieldOf(file.build, n).type
              to == FieldOf(b, n).type
          IN IF from = to \/ (from = "i32" /\ to = "i64" /\ DescOf(b).on_retype = "widen")
             THEN file.truth[n] ELSE 0]

\* The new binary starts on zeroed regions and loads the snapshot.
Start(b, s, f, c) == build' = b /\ status' = s /\ frame' = f /\ cart' = c

\* The build knows the snapshot's layout: it is its own, or the one its
\* descriptor starts from.
Describes(b) == SameHash(b) \/ (HasDesc(b) /\ DescOf(b).old = LayoutOf(file.build))

\* The developer starts a build of the cart on the last snapshot of it.
Reload(b) ==
  /\ file # NoFile /\ CartOf(b) = CartOf(file.build)
  /\ UNCHANGED file
  /\ described' = (file.described /\ Describes(b))
  /\ \/ /\ SameHash(b)                                   \* save_state_load
        /\ Start(b, "running", file.frame, file.cart)
        /\ truth' = file.truth
     \/ /\ ~SameHash(b) /\ Refused(b)
        /\ Start(b, "refused", 0, Blank(b))
        /\ truth' = Carried(b)
     \/ /\ ~SameHash(b) /\ ~Refused(b) /\ ~CartLoads(b)
        /\ Start(b, "refused", file.frame, Blank(b))     \* frame_state is in
        /\ truth' = Carried(b)
     \/ /\ ~SameHash(b) /\ ~Refused(b) /\ CartLoads(b)
        /\ Start(b, "running", file.frame, CartBytes(b))
        /\ truth' = Carried(b)

Next == \/ \E n \in NamesOf(build), v \in -3 .. 1 : CartUpdate(n, v)
        \/ Snapshot
        \/ \E b \in DOMAIN Builds : Reload(b)

Spec == Init /\ [][Next]_vars

------------------------------------------------------------------------------
(* Every word stays a word and the region keeps the size of the layout     *)
(* that was compiled in, whatever sizes the snapshot had.                  *)
TypeOK ==
  /\ build \in DOMAIN Builds /\ status \in {"running", "refused"}
  /\ frame \in 0 .. MaxFrames
  /\ cart \in Seq(Word) /\ Len(cart) = LayoutOf(build).total
  /\ DOMAIN truth = NamesOf(build)

(* Through any sequence of edits and reloads the running cart's fields     *)
(* read what the cart last wrote: added ones zero, widened ones the same   *)
(* number, reordered ones their own value.  That takes builds that know    *)
(* the layout of what they load: save_state_load_migrate also accepts an   *)
(* older snapshot of any layout that is long enough, and reads it wrong.   *)
StateSurvivesTheEdit ==
  status = "running" /\ described =>
    \A n \in NamesOf(build) : Decode(Slice(cart, FieldOf(build, n))) = truth[n]

(* A snapshot whose layout the build knows is refused for two reasons      *)
(* only: the region outgrew the scratch buffer, or the build is linked     *)
(* with the driver that never migrates.                                    *)
DescribedEditIsAccepted ==
  status = "refused" /\ Describes(build) =>
    LayoutOf(build).total > Scratch \/ ~Migrates(build)

(* After any chain of reloads the region has the new build's layout and,   *)
(* where each load was described, every field in it the value the cart     *)
(* last gave it; and no session reaches a snapshot that a described edit   *)
(* of a migrating build cannot load.                                       *)
EditKeepsState == TypeOK /\ StateSurvivesTheEdit /\ DescribedEditIsAccepted

(* The edits of the sweep load: "l2 PASS add bonus field to POD buffer     *)
(* (v0 -> v2); zero-init on load", and so l3 and l4                        *)
(* (workloads/det_lua_cart.edits.txt:11-24).                               *)
DescribedEditPasses == status = "refused" => ~Describes(build)

(* "The load is atomic: on any failure, no tracked region has been         *)
(* mutated" (save_state_n.h:55).                                           *)
MigrationRefusalTouchesNothing == status = "refused" => frame = 0 /\ cart = Blank(build)

(* A region that changed size without a descriptor "is a configuration     *)
(* error; treat as fail" (save_state_n.c:158).                             *)
UndescribedResizeIsRefused ==
  [][\A b \in DOMAIN Builds :
       (Reload(b) /\ ~HasDesc(b) /\ LayoutOf(b).total # LayoutOf(file.build).total)
         => status' = "refused"]_vars
==============================================================================
