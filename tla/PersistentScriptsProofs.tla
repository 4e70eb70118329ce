---------------------- MODULE PersistentScriptsProofs ------------------------
(***************************************************************************)
(* The invariants of PersistentScripts for every number of slots, set of   *)
(* scripts and number of resumes, and for every snapshot, the ones with a  *)
(* free slot below a used one included.                                    *)
(***************************************************************************)
EXTENDS PersistentScripts, FiniteSetTheorems, TLAPS

BlobsFit == \A s \in Slots : blob[s].fits /\ file.blob[s].fits

\* Before any load, what is free is empty.
FreshIsClean == ~load_resume => \A s \in Slots : s \notin active => blob[s] = NoCtx

\* What the cart re-creates was alive in the snapshot.
TodoIsAlive == \A s \in todo : file.recs[s] # NoRec

(* What a single process keeps true, whatever it loads.                    *)
IInv == ScriptTypeOK /\ BlobsFit /\ FreshIsClean /\ SavedCtxIsCurrent /\ TodoIsAlive

USE DEF Slots

LEMMA NoCtxFits == NoCtx.fits = TRUE /\ NoCtx.by = "none"
BY DEF NoCtx

(* No script is called "none", so a record is never the empty one.         *)
LEMMA RecIsNotNoRec == \A r \in Rec : r # NoRec /\ r.script \in Scripts /\ r.ctx \in Ctx
BY ScriptsAssumption DEF Rec, NoRec

LEMMA CtxIsNotNoCtx == \A c \in Ctx : c # NoCtx /\ c.n \in Int /\ c.fits \in BOOLEAN /\ c.by \in Scripts
BY ScriptsAssumption, MaxStepsAssumption DEF Ctx, NoCtx

LEMMA SeedIsCtx == \A x \in Scripts, fits \in BOOLEAN : Seed(x, fits) \in Ctx /\ Seed(x, fits).by = x
BY MaxStepsAssumption DEF Seed, Ctx

(* A create, of whatever script and seed, keeps the invariant; the slot it *)
(* takes and the ctx it starts with are the code's.                        *)
LEMMA CreateKeepsIInv ==
  ASSUME IInv, NEW x \in Scripts, NEW seed \in Ctx, Create(x, seed), todo' \subseteq todo
  PROVE  IInv'
<1>1. PICK s \in Slots : /\ FirstFree(s)
                         /\ active' = active \cup {s}
                         /\ recs' = [recs EXCEPT ![s] = [script |-> x, ctx |-> StartCtx(s, seed)]]
                         /\ Persist(s, StartCtx(s, seed))
  BY DEF Create
<1> DEFINE ctx == StartCtx(s, seed)
<1>2. load_resume' = load_resume /\ file' = file /\ base' = base /\ gapped' = gapped
  BY DEF Create
<1>3. s \notin active /\ blob \in [Slots -> Ctx \cup {NoCtx}] /\ recs \in [Slots -> Rec \cup {NoRec}]
  BY <1>1 DEF FirstFree, IInv, ScriptTypeOK
<1>4. ctx \in Ctx /\ (ctx = blob[s] \/ blob[s] = NoCtx)
  BY <1>3 DEF StartCtx, IInv, FreshIsClean, ScriptTypeOK
<1>5. [script |-> x, ctx |-> ctx] \in Rec
  BY <1>4 DEF Rec
<1>6. blob' = [blob EXCEPT ![s] = IF ctx.fits THEN ctx ELSE blob[s]]
  BY <1>1, <1>3 DEF Persist
<1>7. recs' = [recs EXCEPT ![s] = [script |-> x, ctx |-> ctx]]
  BY <1>1
<1> HIDE DEF ctx
<1>8. ScriptTypeOK'
  <2>1. blob' \in [Slots -> Ctx \cup {NoCtx}]
    BY <1>3, <1>4, <1>6
  <2>2. recs' \in [Slots -> Rec \cup {NoRec}]
    BY <1>3, <1>5, <1>7
  <2>3. active' = {t \in Slots : recs'[t] # NoRec}
    BY <1>1, <1>3, <1>5, <1>7, RecIsNotNoRec DEF IInv, ScriptTypeOK
  <2> QED
    BY <1>1, <1>2, <2>1, <2>2, <2>3 DEF IInv, ScriptTypeOK
<1>9. BlobsFit'
  BY <1>2, <1>3, <1>6 DEF IInv, BlobsFit
<1>10. FreshIsClean'
  BY <1>1, <1>2, <1>3, <1>6 DEF IInv, FreshIsClean
<1>11. SavedCtxIsCurrent'
  <2> SUFFICES ASSUME NEW t \in active'
               PROVE  /\ recs'[t].ctx.fits => blob'[t] = recs'[t].ctx
                      /\ blob'[t] # NoCtx => /\ blob'[t].by = recs'[t].ctx.by
                                             /\ blob'[t].n <= recs'[t].ctx.n
    BY DEF SavedCtxIsCurrent
  <2>1. CASE t = s
    <3>1. recs'[t].ctx = ctx /\ blob'[t] = (IF ctx.fits THEN ctx ELSE blob[s])
      BY <2>1, <1>3, <1>6, <1>7
    <3> QED
      BY <3>1, <1>4, CtxIsNotNoCtx
  <2>2. CASE t # s
    <3>1. t \in active /\ t \in Slots
      BY <2>2, <1>1 DEF IInv, ScriptTypeOK
    <3>2. recs'[t] = recs[t] /\ blob'[t] = blob[t]
      BY <2>2, <3>1, <1>3, <1>6, <1>7
    <3> QED
      BY <3>1, <3>2 DEF IInv, SavedCtxIsCurrent
  <2> QED
    BY <2>1, <2>2
<1>12. TodoIsAlive'
  BY <1>2 DEF IInv, TodoIsAlive
<1> QED
  BY <1>8, <1>9, <1>10, <1>11, <1>12 DEF IInv

(* Every step of the system keeps IInv.                                    *)
LEMMA NextKeepsIInv ==
  ASSUME IInv, [ScriptNext]_scriptVars
  PROVE  IInv'
<1> USE DEF IInv
<1>1. CASE \E x \in Scripts, fits \in BOOLEAN : CartCreates(x, fits)
  <2>1. PICK x \in Scripts, fits \in BOOLEAN : CartCreates(x, fits)
    BY <1>1
  <2> QED
    BY <2>1, SeedIsCtx, CreateKeepsIInv DEF CartCreates, ScriptTypeOK
<1>2. CASE \E s \in Slots : CartRecreates(s)
  <2>1. PICK s \in Slots : CartRecreates(s)
    BY <1>2
  <2>2. CASE file.recs[s] \in Rec
    <3>1. file.recs[s].script \in Scripts
      BY <2>2, RecIsNotNoRec
    <3>2. Seed(file.recs[s].script, TRUE) \in Ctx
      BY <3>1, SeedIsCtx
    <3>3. todo' \subseteq todo
      BY <2>1 DEF CartRecreates, ScriptTypeOK
    <3> QED
      BY <2>1, <3>1, <3>2, <3>3, CreateKeepsIInv DEF CartRecreates
  <2>3. CASE file.recs[s] = NoRec
    BY <2>1, <2>3 DEF CartRecreates, TodoIsAlive
  <2> QED
    BY <2>2, <2>3 DEF ScriptTypeOK
<1>3. CASE \E s \in Slots, fits \in BOOLEAN : ResumeYields(s, fits)
  <2>1. PICK s \in Slots, fits \in BOOLEAN : ResumeYields(s, fits)
    BY <1>3
  <2> DEFINE ctx == Advanced(recs[s].ctx, fits)
  <2>2. recs[s] \in Rec /\ recs[s].ctx.n < MaxSteps /\ s \in active
    BY <2>1 DEF ResumeYields, ScriptTypeOK
  <2>3. /\ ctx \in Ctx /\ ctx.by = recs[s].ctx.by /\ ctx.n = recs[s].ctx.n + 1
        /\ recs[s].ctx.n \in Int
    BY <2>2, MaxStepsAssumption DEF Rec, Ctx, Advanced
  <2>4. recs' = [recs EXCEPT ![s] = [script |-> recs[s].script, ctx |-> ctx]]
    BY <2>1, <2>2 DEF ResumeYields, ScriptTypeOK
  <2>5. blob' = [blob EXCEPT ![s] = IF ctx.fits THEN ctx ELSE blob[s]]
    BY <2>1 DEF ResumeYields, Persist, ScriptTypeOK
  <2>6. UNCHANGED <<active, load_resume, todo, file, base, gapped>>
    BY <2>1 DEF ResumeYields
  <2>7. [script |-> recs[s].script, ctx |-> ctx] \in Rec
    BY <2>2, <2>3 DEF Rec
  <2> HIDE DEF ctx
  <2>8. ScriptTypeOK'
    <3>1. blob' \in [Slots -> Ctx \cup {NoCtx}]
      BY <2>3, <2>5 DEF ScriptTypeOK
    <3>2. recs' \in [Slots -> Rec \cup {NoRec}]
      BY <2>4, <2>7 DEF ScriptTypeOK
    <3>3. active' = {t \in Slots : recs'[t] # NoRec}
      BY <2>2, <2>4, <2>6, <2>7, RecIsNotNoRec DEF ScriptTypeOK
    <3> QED
      BY <2>6, <3>1, <3>2, <3>3 DEF ScriptTypeOK
  <2>9. BlobsFit'
    BY <2>5, <2>6 DEF BlobsFit, ScriptTypeOK
  <2>10. FreshIsClean'
    BY <2>2, <2>5, <2>6 DEF FreshIsClean, ScriptTypeOK
  <2>11. SavedCtxIsCurrent'
    <3> SUFFICES ASSUME NEW t \in active
                 PROVE  /\ recs'[t].ctx.fits => blob'[t] = recs'[t].ctx
                        /\ blob'[t] # NoCtx => /\ blob'[t].by = recs'[t].ctx.by
                                               /\ blob'[t].n <= recs'[t].ctx.n
      BY <2>6 DEF SavedCtxIsCurrent
    <3>1. CASE t = s
      <4>1. recs'[t].ctx = ctx /\ blob'[t] = (IF ctx.fits THEN ctx ELSE blob[s])
        BY <3>1, <2>2, <2>4, <2>5 DEF ScriptTypeOK
      <4>2. blob[s] \in Ctx \cup {NoCtx} /\ (blob[s] # NoCtx => blob[s].by = ctx.by /\ blob[s].n <= recs[s].ctx.n)
        BY <2>2, <2>3 DEF SavedCtxIsCurrent, ScriptTypeOK
      <4> QED
        BY <4>1, <4>2, <2>3, CtxIsNotNoCtx
    <3>2. CASE t # s
      BY <3>2, <2>4, <2>5 DEF SavedCtxIsCurrent, ScriptTypeOK
    <3> QED
      BY <3>1, <3>2
  <2>12. TodoIsAlive'
    BY <2>6 DEF TodoIsAlive
  <2> QED
    BY <2>8, <2>9, <2>10, <2>11, <2>12
<1>4. CASE \E s \in Slots : ResumeEnds(s)
  <2>1. PICK s \in Slots : ResumeEnds(s)
    BY <1>4
  <2>2. /\ recs' = [recs EXCEPT ![s] = NoRec] /\ active' = active \ {s}
        /\ blob' = [blob EXCEPT ![s] = NoCtx]
        /\ UNCHANGED <<load_resume, todo, file, base, gapped>>
    BY <2>1 DEF ResumeEnds, FreeSlot
  <2>3. ScriptTypeOK'
    BY <2>2 DEF ScriptTypeOK
  <2>4. BlobsFit'
    BY <2>2, NoCtxFits DEF BlobsFit, ScriptTypeOK
  <2>5. FreshIsClean'
    BY <2>2 DEF FreshIsClean, ScriptTypeOK
  <2>6. SavedCtxIsCurrent'
    BY <2>2 DEF SavedCtxIsCurrent, ScriptTypeOK
  <2>7. TodoIsAlive'
    BY <2>2 DEF TodoIsAlive
  <2> QED
    BY <2>3, <2>4, <2>5, <2>6, <2>7
<1>5. CASE Save
  <2>1. /\ file' = [active |-> active, blob |-> blob, recs |-> recs, gapped |-> gapped]
        /\ todo = {} /\ UNCHANGED <<active, blob, recs, load_resume, todo, base, gapped>>
    BY <1>5 DEF Save
  <2> QED
    BY <2>1 DEF ScriptTypeOK, BlobsFit, FreshIsClean, SavedCtxIsCurrent, TodoIsAlive
<1>6. CASE Load
  <2>1. /\ active' = {} /\ blob' = file.blob /\ recs' = NoRecs /\ load_resume' = TRUE
        /\ todo' = {s \in Slots : file.recs[s] # NoRec} /\ file' = file
        /\ base' = [s \in Slots |-> file.blob[s].by]
        /\ gapped' = (file.gapped \/ HasGap(file))
    BY <1>6 DEF Load
  <2>2. base' \in [Slots -> Scripts \cup {"none"}]
    BY <2>1, NoCtxFits, CtxIsNotNoCtx DEF ScriptTypeOK
  <2>3. gapped' \in BOOLEAN
    BY <2>1 DEF HasGap
  <2>4. ScriptTypeOK'
    BY <2>1, <2>2, <2>3 DEF ScriptTypeOK, NoRecs
  <2> QED
    BY <2>1, <2>4 DEF ScriptTypeOK, BlobsFit, FreshIsClean, SavedCtxIsCurrent, TodoIsAlive, NoRecs
<1>7. CASE UNCHANGED scriptVars
  BY <1>7 DEF scriptVars, ScriptTypeOK, BlobsFit, FreshIsClean, SavedCtxIsCurrent, TodoIsAlive
<1> QED
  BY <1>1, <1>2, <1>3, <1>4, <1>5, <1>6, <1>7 DEF ScriptNext

(* IInv holds in every state of every behaviour.                           *)
THEOREM ScriptsInvariant == ScriptSpec => []IInv
<1>1. ScriptInit => IInv
  <2> SUFFICES ASSUME ScriptInit PROVE IInv
    OBVIOUS
  <2>1. file.active = {} /\ file.blob = Blank /\ file.recs = NoRecs /\ file.gapped = FALSE
    BY DEF ScriptInit, NoFile
  <2>2. ScriptTypeOK
    BY <2>1 DEF ScriptInit, ScriptTypeOK, Blank, NoRecs
  <2>3. BlobsFit
    BY <2>1, NoCtxFits DEF ScriptInit, BlobsFit, Blank
  <2> QED
    BY <2>1, <2>2, <2>3 DEF ScriptInit, IInv, FreshIsClean, SavedCtxIsCurrent, TodoIsAlive, Blank
<1>2. IInv /\ [ScriptNext]_scriptVars => IInv'
  BY NextKeepsIInv
<1> QED
  BY <1>1, <1>2, PTL DEF ScriptSpec

(* The slot table and the wrapper's table keep their types and agree on    *)
(* which slots are in use, for any number of slots and any snapshot.       *)
THEOREM TypeCorrect == ScriptSpec => []ScriptTypeOK
<1>1. IInv => ScriptTypeOK
  BY DEF IInv
<1> QED
  BY <1>1, ScriptsInvariant, PTL

(* What the next save would write is what every flattenable script has     *)
(* now, through every flatten error, reclaim and load.                     *)
THEOREM CurrentCtx == ScriptSpec => []SavedCtxIsCurrent
<1>1. IInv => SavedCtxIsCurrent
  BY DEF IInv
<1> QED
  BY <1>1, ScriptsInvariant, PTL

------------------------------------------------------------------------------
\* What lies in a free slot is what a load left there; without a gap it
\* belongs to a script still to be re-created.
Leftovers ==
  \A s \in Slots : s \notin active /\ blob[s] # NoCtx =>
    blob[s].by = base[s] /\ (~gapped => s \in todo)

\* The snapshot's blobs belong to the scripts that were alive.
FileOwns ==
  /\ file.active = {s \in Slots : file.recs[s] # NoRec}
  /\ ~file.gapped => \A s \in Slots : file.blob[s] # NoCtx =>
       file.recs[s] # NoRec /\ file.blob[s].by = file.recs[s].script

\* While the cart re-creates, the lowest slots are filled, as many as it has
\* re-created, and the others are as they were loaded.
Recreated == file.active \ todo
InOrder ==
  todo # {} =>
    /\ load_resume
    /\ todo \subseteq file.active
    /\ \A s \in todo, t \in Recreated : t < s
    /\ active = 0 .. (Cardinality(Recreated) - 1)
    /\ \A s \in Slots : s \notin active => blob[s] = file.blob[s]
    /\ gapped = (file.gapped \/ HasGap(file))

(* What the wrapper and the driver keep true together.                     *)
OInv == CtxStaysWithItsScript /\ Leftovers /\ FileOwns /\ InOrder

LEMMA RecreatedIsFinite ==
  ASSUME IInv
  PROVE  /\ IsFiniteSet(Recreated) /\ Recreated \subseteq Slots
         /\ Cardinality(Recreated) \in Nat
<1>1. IsFiniteSet(Slots) /\ Recreated \in SUBSET Slots
  <2>1. 0 \in Int /\ NSlots - 1 \in Int
    BY NSlotsAssumption
  <2>2. IsFiniteSet(0 .. (NSlots - 1))
    BY ONLY <2>1, FS_Interval, Zenon
  <2> QED BY <2>2 DEF IInv, ScriptTypeOK, Recreated
<1> QED BY <1>1, FS_Subset, FS_CardinalityType

(* The next script to re-create takes the slot counted by those before it. *)
LEMMA RecreateTakesTheNext ==
  ASSUME IInv, OInv, NEW s \in Slots, CartRecreates(s)
  PROVE  \E k \in Slots :
         /\ k = Cardinality(Recreated)
         /\ Recreated = {t \in file.active : t < s}
         /\ k <= s /\ (~HasGap(file) => k = s)
         /\ k \notin active /\ load_resume /\ s \in todo /\ s \in file.active
         /\ active = 0 .. (k - 1)
         /\ active' = active \cup {k} /\ todo' = todo \ {s}
         /\ UNCHANGED <<file, load_resume, base, gapped>>
         /\ recs' = [recs EXCEPT ![k] = [script |-> file.recs[s].script,
                       ctx |-> StartCtx(k, Seed(file.recs[s].script, TRUE))]]
         /\ Persist(k, StartCtx(k, Seed(file.recs[s].script, TRUE)))
         /\ blob[k] = file.blob[k]
<1> DEFINE x == file.recs[s].script
           k == Cardinality(Recreated)
<1>1. s \in todo /\ (\A t \in todo : s <= t) /\ Create(x, Seed(x, TRUE)) /\ todo' = todo \ {s}
  BY DEF CartRecreates
<1>2. PICK r \in Slots :
        /\ FirstFree(r)
        /\ active' = active \cup {r}
        /\ recs' = [recs EXCEPT ![r] = [script |-> x, ctx |-> StartCtx(r, Seed(x, TRUE))]]
        /\ Persist(r, StartCtx(r, Seed(x, TRUE)))
  BY <1>1 DEF Create
<1>3. /\ load_resume /\ todo \subseteq file.active /\ active = 0 .. (k - 1)
      /\ \A t \in Recreated : t < s
      /\ \A t \in Slots : t \notin active => blob[t] = file.blob[t]
  BY <1>1 DEF OInv, InOrder
<1>4. file.active \subseteq Slots /\ s \in file.active
  BY <1>1, <1>3 DEF IInv, ScriptTypeOK
<1>5. Recreated = {t \in file.active : t < s}
  <2>1. \A t \in file.active : t < s => t \notin todo
    BY <1>1, <1>4, NSlotsAssumption
  <2> QED BY <2>1, <1>3 DEF Recreated
<1>6. k \in Nat /\ k <= s /\ (~HasGap(file) => k = s)
  <2>1. k \in Nat /\ Recreated \in SUBSET (0 .. (s - 1))
    BY <1>3, RecreatedIsFinite, NSlotsAssumption
  <2>2. IsFiniteSet(0 .. (s - 1)) /\ Cardinality(0 .. (s - 1)) = s
    <3>1. 0 \in Int /\ s - 1 \in Int /\ s \in Nat
      BY NSlotsAssumption
    <3>2. /\ IsFiniteSet(0 .. (s - 1))
          /\ Cardinality(0 .. (s - 1)) = IF 0 > s - 1 THEN 0 ELSE (s - 1) - 0 + 1
      BY ONLY <3>1, FS_Interval, Zenon
    <3> QED BY <3>1, <3>2
  <2>3. k <= s
    BY <2>1, <2>2, FS_Subset
  <2>4. ASSUME ~HasGap(file) PROVE k = s
    <3>1. Recreated = 0 .. (s - 1)
      BY <2>4, <1>4, <1>5, <2>1, NSlotsAssumption DEF HasGap
    <3> QED BY <3>1, <2>2
  <2> QED BY <2>1, <2>3, <2>4
<1> HIDE DEF k
<1>7. k \in Slots /\ k \notin active
  BY <1>3, <1>6, NSlotsAssumption
<1>8. r = k
  BY <1>2, <1>3, <1>6, <1>7, NSlotsAssumption DEF FirstFree
<1>9. UNCHANGED <<file, load_resume, base, gapped>>
  BY <1>1 DEF Create
<1>10. k = Cardinality(Recreated)
  BY DEF k
<1>11. blob[k] = file.blob[k]
  BY <1>3, <1>7
<1> HIDE DEF x
<1>12. /\ active' = active \cup {k}
       /\ recs' = [recs EXCEPT ![k] = [script |-> x, ctx |-> StartCtx(k, Seed(x, TRUE))]]
       /\ Persist(k, StartCtx(k, Seed(x, TRUE)))
  BY <1>2, <1>8
<1> QED
  BY <1>1, <1>3, <1>4, <1>5, <1>6, <1>7, <1>9, <1>10, <1>11, <1>12 DEF x

LEMMA NextKeepsOInv ==
  ASSUME IInv, OInv, [ScriptNext]_scriptVars
  PROVE  OInv'
<1> USE DEF OInv
<1>0. blob \in [Slots -> Ctx \cup {NoCtx}] /\ recs \in [Slots -> Rec \cup {NoRec}]
  BY DEF IInv, ScriptTypeOK
<1>1. CASE \E x \in Scripts, fits \in BOOLEAN : CartCreates(x, fits)
  <2>1. PICK x \in Scripts, fits \in BOOLEAN : CartCreates(x, fits)
    BY <1>1
  <2>2. PICK s \in Slots :
          /\ FirstFree(s)
          /\ active' = active \cup {s}
          /\ recs' = [recs EXCEPT ![s] = [script |-> x, ctx |-> StartCtx(s, Seed(x, fits))]]
          /\ Persist(s, StartCtx(s, Seed(x, fits)))
    BY <2>1 DEF CartCreates, Create
  <2> DEFINE ctx == StartCtx(s, Seed(x, fits))
  <2>3. todo = {} /\ todo' = {} /\ file' = file /\ base' = base /\ gapped' = gapped
    BY <2>1 DEF CartCreates, Create
  <2>4. ctx.by # x => gapped /\ ctx.by = base[s]
    BY <2>2, <2>3, SeedIsCtx DEF Leftovers, StartCtx, FirstFree
  <2> HIDE DEF ctx
  <2>5. recs' = [recs EXCEPT ![s] = [script |-> x, ctx |-> ctx]]
    BY <2>2 DEF ctx
  <2>6. CtxStaysWithItsScript'
    <3> SUFFICES ASSUME NEW t \in active'
                 PROVE  recs'[t].ctx.by # recs'[t].script => gapped /\ recs'[t].ctx.by = base[t]
      BY <2>3 DEF CtxStaysWithItsScript
    <3>1. CASE t = s
      BY <3>1, <1>0, <2>4, <2>5
    <3>2. CASE t # s
      BY <3>2, <1>0, <2>2, <2>5 DEF CtxStaysWithItsScript, IInv, ScriptTypeOK
    <3> QED BY <3>1, <3>2
  <2>7. Leftovers'
    BY <1>0, <2>2, <2>3 DEF Leftovers, Persist
  <2> QED
    BY <2>3, <2>6, <2>7 DEF FileOwns, InOrder
<1>2. CASE \E s \in Slots : CartRecreates(s)
  <2>1. PICK s \in Slots : CartRecreates(s)
    BY <1>2
  <2> DEFINE x == file.recs[s].script
  <2>2. PICK k \in Slots :
         /\ k = Cardinality(Recreated)
         /\ Recreated = {t \in file.active : t < s}
         /\ k <= s /\ (~HasGap(file) => k = s)
         /\ k \notin active /\ load_resume /\ s \in todo /\ s \in file.active
         /\ active = 0 .. (k - 1)
         /\ active' = active \cup {k} /\ todo' = todo \ {s}
         /\ UNCHANGED <<file, load_resume, base, gapped>>
         /\ recs' = [recs EXCEPT ![k] = [script |-> x, ctx |-> StartCtx(k, Seed(x, TRUE))]]
         /\ Persist(k, StartCtx(k, Seed(x, TRUE)))
         /\ blob[k] = file.blob[k]
    BY <2>1, RecreateTakesTheNext
  <2> DEFINE ctx == StartCtx(k, Seed(x, TRUE))
  <2>3. gapped = (file.gapped \/ HasGap(file))
        /\ (\A a \in todo, t \in Recreated : t < a) /\ todo \subseteq file.active
        /\ \A t \in Slots : t \notin active => blob[t] = file.blob[t]
    BY <2>2 DEF InOrder
  <2>4. ctx.by # x => gapped /\ ctx.by = base[k]
    <3>1. CASE blob[k] = NoCtx
      <4>1. ctx.by = x
        BY <3>1 DEF StartCtx, Seed
      <4> QED BY <4>1
    <3>2. CASE blob[k] # NoCtx
      <4>1. ctx = blob[k]
        BY <3>2, <2>2 DEF StartCtx
      <4>2. blob[k].by = base[k]
        BY <3>2, <2>2 DEF Leftovers
      <4>3. ~gapped => blob[k].by = x
        BY <3>2, <2>2, <2>3 DEF FileOwns, IInv, ScriptTypeOK
      <4> HIDE DEF ctx, x
      <4> QED BY <4>1, <4>2, <4>3 DEF IInv, ScriptTypeOK
    <3> QED BY <3>1, <3>2
  <2>5. blob' = [blob EXCEPT ![k] = IF ctx.fits THEN ctx ELSE blob[k]]
    BY <1>0, <2>2 DEF Persist
  <2>6. recs' = [recs EXCEPT ![k] = [script |-> x, ctx |-> ctx]]
    BY <2>2
  <2> HIDE DEF ctx, x
  <2>7. CtxStaysWithItsScript'
    <3> SUFFICES ASSUME NEW t \in active'
                 PROVE  recs'[t].ctx.by # recs'[t].script => gapped /\ recs'[t].ctx.by = base[t]
      BY <2>2 DEF CtxStaysWithItsScript
    <3>1. CASE t = k
      BY <3>1, <1>0, <2>4, <2>6
    <3>2. CASE t # k
      BY <3>2, <1>0, <2>2, <2>6 DEF CtxStaysWithItsScript, IInv, ScriptTypeOK
    <3> QED BY <3>1, <3>2
  <2>8. Leftovers'
    <3> SUFFICES ASSUME NEW t \in Slots, t \notin active', blob'[t] # NoCtx
                 PROVE  blob'[t].by = base[t] /\ (~gapped => t \in todo')
      BY <2>2 DEF Leftovers
    <3>1. t \notin active /\ t # k /\ blob'[t] = blob[t]
      BY <1>0, <2>2, <2>5
    <3>2. blob[t].by = base[t] /\ (~gapped => t \in todo)
      BY <3>1 DEF Leftovers
    <3>3. ~gapped => k = s
      BY <2>2, <2>3
    <3> QED BY <2>2, <3>1, <3>2, <3>3
  <2>9. InOrder'
    <3>1. Recreated' = Recreated \cup {s} /\ s \notin Recreated
      BY <2>2 DEF Recreated
    <3>2. Cardinality(Recreated') = k + 1
      <4>1. IsFiniteSet(Recreated)
        BY RecreatedIsFinite
      <4>2. Cardinality(Recreated \cup {s}) = Cardinality(Recreated) + 1
        BY <3>1, <4>1, FS_AddElement
      <4> QED BY <3>1, <4>2, <2>2
    <3>3. active' = 0 .. (Cardinality(Recreated') - 1)
      <4>0. k \in Nat
        BY NSlotsAssumption
      <4>1. active' = (0 .. (k - 1)) \cup {k} /\ k \in Nat
        <5>1. active' = active \cup {k} /\ active = 0 .. (k - 1)
          BY <2>2, Zenon
        <5> QED BY ONLY <4>0, <5>1
      <4>2. (0 .. (k - 1)) \cup {k} = 0 .. ((k + 1) - 1)
        BY ONLY <4>1
      <4> QED BY <3>2, <4>1, <4>2
    <3>4. \A a \in todo', t \in Recreated' : t < a
      <4> SUFFICES ASSUME NEW a \in todo', NEW t \in Recreated' PROVE t < a
        OBVIOUS
      <4>1. a \in todo /\ a # s
        BY <2>2
      <4>2. CASE t \in Recreated
        BY <4>1, <4>2, <2>3
      <4>3. CASE t = s
        <5>1. s <= a
          BY <2>1, <4>1 DEF CartRecreates
        <5>2. a \in Slots
          BY <4>1 DEF IInv, ScriptTypeOK
        <5> QED BY <4>1, <4>3, <5>1, <5>2, NSlotsAssumption
      <4> QED BY <3>1, <4>2, <4>3
    <3>5. \A t \in Slots : t \notin active' => blob'[t] = file.blob[t]
      BY <1>0, <2>2, <2>3, <2>5
    <3> QED
      BY <2>2, <2>3, <3>3, <3>4, <3>5 DEF InOrder, HasGap
  <2> QED
    BY <2>2, <2>7, <2>8, <2>9 DEF FileOwns
<1>3. CASE \E s \in Slots, fits \in BOOLEAN : ResumeYields(s, fits)
  <2>1. PICK s \in Slots, fits \in BOOLEAN : ResumeYields(s, fits)
    BY <1>3
  <2>2. /\ recs' = [recs EXCEPT ![s] = [script |-> recs[s].script, ctx |-> Advanced(recs[s].ctx, fits)]]
        /\ Persist(s, Advanced(recs[s].ctx, fits))
        /\ UNCHANGED <<active, load_resume, todo, file, base, gapped>>
        /\ todo = {} /\ recs[s] # NoRec
    BY <1>0, <2>1 DEF ResumeYields
  <2>3. s \in active
    BY <2>2 DEF IInv, ScriptTypeOK
  <2>4. CtxStaysWithItsScript'
    BY <1>0, <2>2, <2>3 DEF CtxStaysWithItsScript, Advanced, IInv, ScriptTypeOK
  <2>5. Leftovers'
    BY <1>0, <2>2, <2>3 DEF Leftovers, Persist
  <2> QED
    BY <2>2, <2>4, <2>5 DEF FileOwns, InOrder
<1>4. CASE \E s \in Slots : ResumeEnds(s)
  <2>1. PICK s \in Slots : ResumeEnds(s)
    BY <1>4
  <2>2. /\ recs' = [recs EXCEPT ![s] = NoRec] /\ active' = active \ {s} /\ todo = {}
        /\ blob' = [blob EXCEPT ![s] = NoCtx]
        /\ UNCHANGED <<load_resume, todo, file, base, gapped>>
    BY <2>1 DEF ResumeEnds, FreeSlot
  <2>3. CtxStaysWithItsScript'
    BY <1>0, <2>2 DEF CtxStaysWithItsScript, IInv, ScriptTypeOK
  <2>4. Leftovers'
    BY <1>0, <2>2 DEF Leftovers
  <2> QED
    BY <2>2, <2>3, <2>4 DEF FileOwns, InOrder
<1>5. CASE Save
  <2>1. /\ file' = [active |-> active, blob |-> blob, recs |-> recs, gapped |-> gapped]
        /\ todo = {} /\ UNCHANGED <<active, blob, recs, load_resume, todo, base, gapped>>
    BY <1>5 DEF Save
  <2>2. FileOwns'
    <3>1. file'.active = active /\ file'.blob = blob /\ file'.recs = recs /\ file'.gapped = gapped
      BY <2>1
    <3>2. ~gapped => \A s \in Slots : blob[s] # NoCtx => s \in active
      BY <2>1 DEF Leftovers
    <3>3. ~gapped => \A s \in active : blob[s] # NoCtx => blob[s].by = recs[s].script
      BY DEF IInv, SavedCtxIsCurrent, CtxStaysWithItsScript
    <3> QED
      BY <3>1, <3>2, <3>3 DEF FileOwns, IInv, ScriptTypeOK
  <2> QED
    BY <2>1, <2>2 DEF CtxStaysWithItsScript, Leftovers, InOrder
<1>6. CASE Load
  <2>1. /\ active' = {} /\ blob' = file.blob /\ load_resume' = TRUE
        /\ todo' = {s \in Slots : file.recs[s] # NoRec} /\ file' = file
        /\ base' = [s \in Slots |-> file.blob[s].by]
        /\ gapped' = (file.gapped \/ HasGap(file))
    BY <1>6 DEF Load
  <2>2. todo' = file.active
    BY <2>1 DEF FileOwns
  <2>3. Leftovers'
    BY <2>1, <2>2 DEF FileOwns, Leftovers
  <2>4. InOrder'
    <3>1. Recreated' = {}
      BY <2>1, <2>2 DEF Recreated
    <3>2. active' = 0 .. (Cardinality(Recreated') - 1)
      <4>1. Cardinality({}) = 0
        BY FS_EmptySet
      <4>2. {} = 0 .. (0 - 1)
        OBVIOUS
      <4> QED BY <2>1, <3>1, <4>1, <4>2
    <3> QED BY <2>1, <2>2, <3>1, <3>2 DEF InOrder, HasGap
  <2> QED
    BY <2>1, <2>3, <2>4 DEF FileOwns, CtxStaysWithItsScript
<1>7. CASE UNCHANGED scriptVars
  BY <1>7 DEF scriptVars, CtxStaysWithItsScript, Leftovers, FileOwns, InOrder, Recreated, HasGap
<1> QED
  BY <1>1, <1>2, <1>3, <1>4, <1>5, <1>6, <1>7 DEF ScriptNext

(* OInv holds in every state of every behaviour.                           *)
THEOREM OrderInvariant == ScriptSpec => []OInv
<1>1. ScriptInit => OInv
  <2> SUFFICES ASSUME ScriptInit PROVE OInv
    OBVIOUS
  <2>1. file.active = {} /\ file.blob = Blank /\ file.recs = NoRecs
    BY DEF ScriptInit, NoFile
  <2> QED
    BY <2>1 DEF ScriptInit, OInv, CtxStaysWithItsScript, Leftovers, FileOwns, InOrder, Blank, NoRecs
<1>2. IInv /\ OInv /\ [ScriptNext]_scriptVars => OInv'
  BY NextKeepsOInv
<1> QED
  BY <1>1, <1>2, ScriptsInvariant, PTL DEF ScriptSpec

(* No script is handed the ctx of another one, except the bytes its own    *)
(* slot was loaded with, and that only downstream of a snapshot with a     *)
(* gap.                                                                    *)
THEOREM OwnCtx == ScriptSpec => []CtxStaysWithItsScript
<1>1. OInv => CtxStaysWithItsScript
  BY DEF OInv
<1> QED
  BY <1>1, OrderInvariant, PTL

(* The three together, for any number of slots, scripts and resumes.       *)
THEOREM ScriptsAreSound == ScriptSpec => []CtxSound
  BY TypeCorrect, CurrentCtx, OwnCtx, PTL DEF CtxSound

(* Every script re-created after a load, of whatever snapshot, takes the   *)
(* slot counted by the used ones below its own, and the bytes saved there. *)
THEOREM RestoredByRank == ScriptSpec => RestoredInOrder
<1> DEFINE Rank(s) == Cardinality({t \in file.active : t < s})
           Start(x, k) == IF file.blob[k] # NoCtx THEN file.blob[k] ELSE Seed(x, TRUE)
           A == \A s \in Slots :
                  CartRecreates(s) =>
                    recs'[Rank(s)] = [script |-> file.recs[s].script,
                                      ctx |-> Start(file.recs[s].script, Rank(s))]
<1>1. IInv /\ OInv /\ [ScriptNext]_scriptVars => [A]_scriptVars
  <2> SUFFICES ASSUME IInv, OInv, NEW s \in Slots, CartRecreates(s)
               PROVE  recs'[Rank(s)] = [script |-> file.recs[s].script,
                                        ctx |-> Start(file.recs[s].script, Rank(s))]
    OBVIOUS
  <2> DEFINE x == file.recs[s].script
  <2>1. PICK k \in Slots :
         /\ k = Rank(s) /\ load_resume /\ blob[k] = file.blob[k]
         /\ recs' = [recs EXCEPT ![k] = [script |-> x, ctx |-> StartCtx(k, Seed(x, TRUE))]]
    BY RecreateTakesTheNext
  <2>2. recs'[k] = [script |-> x, ctx |-> StartCtx(k, Seed(x, TRUE))]
    BY <2>1 DEF IInv, ScriptTypeOK
  <2>3. StartCtx(k, Seed(x, TRUE)) = Start(x, k)
    BY <2>1 DEF StartCtx
  <2> QED
    BY <2>1, <2>2, <2>3
<1> QED
  BY <1>1, ScriptsInvariant, OrderInvariant, PTL DEF ScriptSpec, RestoredInOrder
==============================================================================
