--------------------------- MODULE PlatformProofs ---------------------------
(***************************************************************************)
(* Proofs about the programs around the console.                           *)
(*                                                                         *)
(*   StubPacker  For every set of sources, contents and digests, and any   *)
(*               length of time, and an editor that does what it likes.    *)
(*               An entry vouches for the output of a content that is new  *)
(*               to the file (EntryTrue), or as long as no compiler ran    *)
(*               since it was written (EntryBuilt).                        *)
(*   Seccomp     For every list of calls and every buffer: a filter means  *)
(*               its list.  A program is read through the table of answers *)
(*               from each place (RunUnfolds), and a list by the least     *)
(*               number of entries left for which it would answer wrongly. *)
(*   Launcher    For every kernel, command line and number of failing      *)
(*               calls.  Until execve the child has its plan in todo:      *)
(*               everything the launch needs is done or still to           *)
(*               come as a step whose failure ends the child, and what     *)
(*               follows the filter is on the filter's list.  From execve  *)
(*               on everything is done, and a step that narrows the filter *)
(*               precedes the probe.                                       *)
(*                                                                         *)
(* StubPacker and Launcher share no variable.                              *)
(***************************************************************************)
EXTENDS StubPacker, Launcher, WellFoundedInduction, TLAPS

---------------------------------------------------------------------------
(* StubPacker *)

(* A run in progress holds the entry that is in the file: nothing else     *)
(* writes packer-state.json while it runs.                                 *)
PrevIsTable == InRun => proc.prev = table[proc.path]

(* While nobody edits, the hash the run took is the hash of the source.    *)
ShaIsCurrent ==
    proc.pc \in {"compile", "save"} /\ ~raced
        => proc.sha = Sha256FileHex(source[proc.path].content)

(* A settled source is the one its entry describes. *)
SettledIsRecorded ==
    \A p \in Paths : settled[p] =>
        /\ table[p] # NoEntry
        /\ table[p].sha256 = Sha256FileHex(source[p].content)

(* A run that found the hash to differ is not about a settled source. *)
Unsettled == proc.pc \in {"compile", "save"} => ~settled[proc.path]

NInv ==
    /\ PackTypeOK
    /\ PrevIsTable
    /\ ShaIsCurrent
    /\ SettledIsRecorded
    /\ Unsettled

-----------------------------------------------------------------------------
There(p) == source[p].content # NoFile

(* Every hash in the file or in hand is the hash of a content the source   *)
(* has held, or the zeros of a source that was not there.                  *)
Known(p, h) == h = Zeros \/ \E c \in held[p] : h = Digest[c]

KnownHashes ==
    /\ \A p \in Paths : There(p) => source[p].content \in held[p]
    /\ \A p \in Paths : table[p] # NoEntry => Known(p, table[p].sha256)
    /\ proc.pc \in {"compile", "save"} => Known(proc.path, proc.sha)

(* Nothing carries a later second than the source it describes. *)
PastTimes ==
    /\ \A p \in Paths : source[p].mtime =< now
    /\ \A p \in Paths : table[p] # NoEntry => table[p].mtime =< source[p].mtime
    /\ InRun => proc.mtime =< source[proc.path].mtime

(* An entry of the source's own second has the source's hash, unless the   *)
(* source was rewritten within that second.                                *)
EntryFresh ==
    \A p \in Paths :
        There(p) /\ table[p] # NoEntry /\ table[p].mtime = source[p].mtime
          /\ ~rewritten[p]
            => table[p].sha256 = Digest[source[p].content]

(* An entry with the hash of a content that is new to the file has its     *)
(* output.                                                                 *)
EntryTrue ==
    \A p \in Paths :
        There(p) /\ ~undone[p] /\ table[p] # NoEntry
          /\ table[p].sha256 = Digest[source[p].content]
            => artefact[p] = source[p].content

(* The entry describes the output there is, unless a compiler ran since it *)
(* was written.                                                            *)
EntryBuilt ==
    \A p \in Paths :
        table[p] # NoEntry /\ ~unrecorded[p]
            => artefact[p] \in Contents /\ table[p].sha256 = Digest[artefact[p]]

(* The same facts of the entry a run is about to write. *)
FreshSha ==
    proc.pc \in {"compile", "save"} /\ There(proc.path)
      /\ proc.mtime = source[proc.path].mtime /\ ~rewritten[proc.path]
        => proc.sha = Digest[source[proc.path].content]

SaveTrue ==
    proc.pc = "save" /\ There(proc.path) /\ ~undone[proc.path]
      /\ proc.sha = Digest[source[proc.path].content]
        => artefact[proc.path] = source[proc.path].content

SaveBuilt ==
    proc.pc = "save" /\ ~raced => artefact[proc.path] = source[proc.path].content

(* The compiler runs only over an entry that does not describe the source, *)
(* unless an old content was put back meanwhile: its failure leaves no     *)
(* entry behind that would be believed.                                    *)
CompileMiss ==
    proc.pc = "compile" /\ There(proc.path) /\ ~undone[proc.path]
      /\ table[proc.path] # NoEntry
        => table[proc.path].sha256 # Digest[source[proc.path].content]

ThereUnlessRaced == InRun /\ ~raced => There(proc.path)

DInv ==
    /\ NInv
    /\ KnownHashes
    /\ PastTimes
    /\ EntryFresh
    /\ EntryTrue
    /\ EntryBuilt
    /\ FreshSha
    /\ SaveTrue
    /\ SaveBuilt
    /\ CompileMiss
    /\ ThereUnlessRaced
    /\ DoneMeansBuilt
-----------------------------------------------------------------------------
(* sha256_file_hex always yields a hash (stub_packer.c:139-157). *)
LEMMA ShaType ==
    ASSUME NEW c \in Contents \cup {NoFile}
    PROVE  Sha256FileHex(c) \in Hashes
  BY DEF Sha256FileHex, Hashes

(* Distinct contents have distinct hashes, and none is the zeros. *)
LEMMA ShaDistinct ==
    ASSUME NEW c \in Contents, NEW d \in Contents \cup {NoFile},
           Sha256FileHex(d) = Digest[c]
    PROVE  d = c
  BY PackerAssumption DEF Sha256FileHex

(* The initial states: nothing built, nothing recorded. *)
LEMMA InitNInv == PackInit => NInv
  <1> SUFFICES ASSUME PackInit PROVE NInv
    OBVIOUS
  <1>1. PackTypeOK
    <2>1. proc \in Proc
      BY DEF PackInit, Proc, Hashes
    <2>2. source \in [Paths -> [content : Contents \cup {NoFile}, mtime : Nat]]
      BY DEF PackInit
    <2>3. held \in [Paths -> SUBSET Contents]
      BY DEF PackInit
    <2> QED BY <2>1, <2>2, <2>3 DEF PackInit, PackTypeOK
  <1>2. proc.pc = "idle"
    BY DEF PackInit
  <1> QED
    BY <1>1, <1>2 DEF PackInit, NInv, PrevIsTable, InRun, ShaIsCurrent,
       SettledIsRecorded, Unsettled

(* A write by the editor: whatever it writes, the file is no longer        *)
(* settled, and a run on that file is raced.                               *)
LEMMA WriteNInv ==
    ASSUME NInv, NEW p \in Paths, NEW c \in Contents \cup {NoFile}, Write(p, c)
    PROVE  NInv'
  <1>1. PackTypeOK'
    BY DEF NInv, PackTypeOK, Write
  <1>2. PrevIsTable'
    BY DEF NInv, Write, PrevIsTable, InRun
  <1>3. ShaIsCurrent'
    <2> SUFFICES ASSUME proc.pc \in {"compile", "save"}, ~raced, p # proc.path
                 PROVE  proc.sha = Sha256FileHex(source'[proc.path].content)
      BY DEF ShaIsCurrent, Write, NInv, PackTypeOK
    <2>1. source'[proc.path] = source[proc.path]
      BY DEF Write, NInv, PackTypeOK, Proc
    <2> QED BY <2>1 DEF NInv, ShaIsCurrent
  <1>4. SettledIsRecorded'
    BY DEF NInv, PackTypeOK, Write, SettledIsRecorded
  <1>5. Unsettled'
    BY DEF NInv, PackTypeOK, Proc, Write, Unsettled
  <1> QED BY <1>1, <1>2, <1>3, <1>4, <1>5 DEF NInv

LEMMA TouchNInv ==
    ASSUME NInv, NEW p \in Paths, Touch(p)
    PROVE  NInv'
  <1>1. source' \in [Paths -> [content : Contents \cup {NoFile}, mtime : Nat]]
    BY DEF NInv, PackTypeOK, Touch
  <1>2. \A q \in Paths : source'[q].content = source[q].content
    BY DEF NInv, PackTypeOK, Touch
  <1>3. PackTypeOK'
    BY <1>1 DEF NInv, PackTypeOK, Touch
  <1>4. proc.path \in Paths
    BY DEF NInv, PackTypeOK, Proc
  <1> QED
    BY <1>2, <1>3, <1>4 DEF NInv, Touch, PrevIsTable, InRun, ShaIsCurrent,
       SettledIsRecorded, Unsettled

LEMMA StartNInv ==
    ASSUME NInv, NEW p \in Paths, NEW mode \in {"native", "lua", "other"},
           Start(p, mode)
    PROVE  NInv'
  <1>1. CASE source[p].content = NoFile
    <2>1. proc' = [proc EXCEPT !.pc = "failed", !.path = p, !.mode = mode]
      BY <1>1 DEF Start
    <2>2. proc' \in Proc /\ proc'.pc = "failed"
      BY <2>1 DEF NInv, PackTypeOK, Proc
    <2> QED
      BY <2>2 DEF Start, NInv, PackTypeOK, PrevIsTable, InRun, ShaIsCurrent,
         SettledIsRecorded, Unsettled
  <1>2. CASE source[p].content # NoFile
    <2>1. PICK pc \in {"done", "hash"} : proc' = Statted(p, mode, pc)
      BY <1>2 DEF Start
    <2>2. source[p].content \in Contents /\ source[p].mtime \in Nat
      BY <1>2 DEF NInv, PackTypeOK
    <2>3. Bytes[source[p].content] \in Nat
      BY <2>2, PackerAssumption
    <2>4. proc' \in Proc /\ proc'.pc \in {"done", "hash"} /\ proc'.path = p
             /\ proc'.prev = table[p]
      BY <2>1, <2>2, <2>3 DEF Statted, Proc, NInv, PackTypeOK, Hashes
    <2> QED
      BY <2>4 DEF Start, NInv, PackTypeOK, PrevIsTable, InRun, ShaIsCurrent,
         SettledIsRecorded, Unsettled
  <1> QED BY <1>1, <1>2

(* state_save keeps the table typed, and settles only what an undisturbed  *)
(* run recorded.                                                           *)
LEMMA StateSaveSound ==
    ASSUME NInv, NEW sha \in Hashes, StateSave(sha),
           ~raced => sha = Sha256FileHex(source[proc.path].content),
           settled[proc.path] => sha = Sha256FileHex(source[proc.path].content)
    PROVE  /\ table' \in [Paths -> Entry \cup {NoEntry}]
           /\ settled' \in [Paths -> BOOLEAN]
           /\ \A p \in Paths : settled'[p] =>
                 /\ table'[p] # NoEntry
                 /\ table'[p].sha256 = Sha256FileHex(source[p].content)
           /\ \A p \in Paths \ {proc.path} :
                 table'[p] = table[p] /\ settled'[p] = settled[p]
  <1> DEFINE e == [mtime |-> proc.mtime, size |-> proc.size, sha256 |-> sha]
  <1>1. e \in Entry /\ e # NoEntry /\ e.sha256 = sha
    BY EntryAssumption DEF Entry, NInv, PackTypeOK, Proc
  <1>2. proc.path \in Paths
    BY DEF NInv, PackTypeOK, Proc
  <1>3. CASE table' = [table EXCEPT ![proc.path] = e]
             /\ settled' = [settled EXCEPT ![proc.path] = @ \/ ~raced]
    <2>1. table'[proc.path] = e
      BY <1>2, <1>3 DEF NInv, PackTypeOK
    <2>2. table' \in [Paths -> Entry \cup {NoEntry}]
      BY <1>1, <1>3 DEF NInv, PackTypeOK
    <2>3. settled' \in [Paths -> BOOLEAN]
      BY <1>3 DEF NInv, PackTypeOK
    <2>4. settled'[proc.path] => settled[proc.path] \/ ~raced
      BY <1>2, <1>3 DEF NInv, PackTypeOK
    <2>5. \A p \in Paths \ {proc.path} :
             table'[p] = table[p] /\ settled'[p] = settled[p]
      BY <1>3 DEF NInv, PackTypeOK
    <2>6. ASSUME NEW p \in Paths, settled'[p]
          PROVE  table'[p] # NoEntry
                 /\ table'[p].sha256 = Sha256FileHex(source[p].content)
      <3>1. CASE p = proc.path
        BY <3>1, <2>1, <2>4, <2>6, <1>1
      <3>2. CASE p # proc.path
        BY <3>2, <2>5, <2>6 DEF NInv, SettledIsRecorded
      <3> QED BY <3>1, <3>2
    <2> QED BY <2>2, <2>3, <2>5, <2>6
  <1>4. CASE UNCHANGED <<table, settled>>
    BY <1>4 DEF NInv, PackTypeOK, SettledIsRecorded
  <1> QED BY <1>3, <1>4 DEF StateSave

LEMMA HashNInv ==
    ASSUME NInv, Hash
    PROVE  NInv'
  <1> DEFINE sha == Sha256FileHex(source[proc.path].content)
  <1>1. proc.path \in Paths /\ sha \in Hashes
    BY ShaType DEF NInv, PackTypeOK, Proc
  <1>2. proc.prev = table[proc.path]
    BY DEF NInv, PrevIsTable, InRun, Hash
  <1>3. CASE proc.prev # NoEntry /\ proc.prev.sha256 = sha
    <2>1. StateSave(sha) /\ proc' = [proc EXCEPT !.sha = sha, !.pc = "done"]
      BY <1>3 DEF Hash
    <2>2. proc' \in Proc /\ proc'.pc = "done"
      BY <2>1, <1>1 DEF NInv, PackTypeOK, Proc
    <2>3. /\ table' \in [Paths -> Entry \cup {NoEntry}]
          /\ settled' \in [Paths -> BOOLEAN]
          /\ \A p \in Paths : settled'[p] =>
                /\ table'[p] # NoEntry
                /\ table'[p].sha256 = Sha256FileHex(source[p].content)
      BY <2>1, <1>1, StateSaveSound
    <2>4. PackTypeOK'
      BY <2>2, <2>3 DEF NInv, PackTypeOK, Hash, trail
    <2> QED
      BY <2>2, <2>3, <2>4 DEF Hash, NInv, PrevIsTable, InRun, ShaIsCurrent,
         SettledIsRecorded, Unsettled
  <1>4. CASE proc.prev # NoEntry => proc.prev.sha256 # sha
    <2>1. /\ proc' = [proc EXCEPT !.sha = sha, !.pc = "compile"]
          /\ UNCHANGED <<source, table, settled, raced>>
      BY <1>4 DEF Hash
    <2>2. /\ proc' \in Proc /\ proc'.pc = "compile" /\ proc'.path = proc.path
          /\ proc'.prev = proc.prev /\ proc'.sha = sha
      BY <2>1, <1>1 DEF NInv, PackTypeOK, Proc
    <2>3. ~settled[proc.path]
      BY <1>1, <1>2, <1>4 DEF NInv, SettledIsRecorded
    <2>4. PackTypeOK'
      BY <2>1, <2>2 DEF NInv, PackTypeOK, Hash, trail
    <2> QED
      BY <2>1, <2>2, <2>3, <2>4, <1>2 DEF Hash, NInv, PrevIsTable, InRun,
         ShaIsCurrent, SettledIsRecorded, Unsettled
  <1> QED BY <1>3, <1>4

(* Compile and Kill change the output and the program counter only. *)
LEMMA OutputNInv ==
    ASSUME NInv, Compile \/ Kill
    PROVE  NInv'
  <1>1. UNCHANGED <<now, source, held, table, raced, settled>>
    BY DEF Compile, Kill
  <1>2. proc.path \in Paths
    BY DEF NInv, PackTypeOK, Proc
  <1>3. artefact' \in [Paths -> Contents \cup {NoFile}]
    BY <1>2 DEF Compile, Kill, AfterFailure, NInv, PackTypeOK
  <1>7. /\ unrecorded' \in [Paths -> BOOLEAN]
        /\ UNCHANGED <<undone, rewritten, blind>>
    BY <1>2 DEF Compile, Kill, NInv, PackTypeOK
  <1>4. PICK pc \in {"save", "failed", "idle"} :
           /\ proc' = [proc EXCEPT !.pc = pc]
           /\ pc = "save" => proc.pc = "compile"
    BY DEF Compile, Kill
  <1>5. /\ proc' \in Proc /\ proc'.pc = pc /\ proc'.path = proc.path
        /\ proc'.prev = proc.prev /\ proc'.sha = proc.sha
    BY <1>4 DEF NInv, PackTypeOK, Proc
  <1>6. PackTypeOK'
    BY <1>1, <1>3, <1>5, <1>7 DEF NInv, PackTypeOK
  <1> QED
    BY <1>1, <1>4, <1>5, <1>6 DEF NInv, PrevIsTable, InRun, ShaIsCurrent,
       SettledIsRecorded, Unsettled

LEMMA SaveNInv ==
    ASSUME NInv, Save
    PROVE  NInv'
  <1>1. proc.pc = "save" /\ StateSave(proc.sha) /\ proc.sha \in Hashes
    BY DEF Save, NInv, PackTypeOK, Proc
  <1>2. ~raced => proc.sha = Sha256FileHex(source[proc.path].content)
    BY <1>1 DEF NInv, ShaIsCurrent
  <1>3. ~settled[proc.path]
    BY <1>1 DEF NInv, Unsettled
  <1>4. /\ table' \in [Paths -> Entry \cup {NoEntry}]
        /\ settled' \in [Paths -> BOOLEAN]
        /\ \A p \in Paths : settled'[p] =>
              /\ table'[p] # NoEntry
              /\ table'[p].sha256 = Sha256FileHex(source[p].content)
    BY <1>1, <1>2, <1>3, StateSaveSound
  <1>5. proc' \in Proc /\ proc'.pc = "done"
    BY DEF Save, NInv, PackTypeOK, Proc
  <1>6. PackTypeOK'
    BY <1>4, <1>5 DEF Save, NInv, PackTypeOK
  <1> QED
    BY <1>4, <1>5, <1>6 DEF Save, NInv, PrevIsTable, InRun, ShaIsCurrent,
       SettledIsRecorded, Unsettled

LEMMA NextNInv == NInv /\ [PackNext]_packVars => NInv'
  <1> SUFFICES ASSUME NInv, [PackNext]_packVars PROVE NInv'
    OBVIOUS
  <1>1. CASE Tick
    BY <1>1 DEF Tick, trail, NInv, PackTypeOK, PrevIsTable, InRun, ShaIsCurrent,
       SettledIsRecorded, Unsettled
  <1>2. ASSUME NEW p \in Paths, NEW c \in Contents, Edit(p, c)
        PROVE  NInv'
    BY <1>2, WriteNInv DEF Edit
  <1>3. ASSUME NEW p \in Paths, Delete(p)
        PROVE  NInv'
    BY <1>3, WriteNInv DEF Delete
  <1>4. ASSUME NEW p \in Paths, Touch(p)
        PROVE  NInv'
    BY <1>4, TouchNInv
  <1>5. ASSUME NEW p \in Paths, NEW mode \in {"native", "lua", "other"},
               Start(p, mode)
        PROVE  NInv'
    BY <1>5, StartNInv
  <1>6. CASE UNCHANGED packVars
    BY <1>6 DEF packVars, trail, NInv, PackTypeOK, PrevIsTable, InRun, ShaIsCurrent,
       SettledIsRecorded, Unsettled
  <1> QED
    BY <1>1, <1>2, <1>3, <1>4, <1>5, <1>6, HashNInv, OutputNInv, SaveNInv DEF PackNext

(* The entry in packer-state.json, the hash in hand and the settled        *)
(* sources agree in every state, whatever the editor does                  *)
(* (stub_packer.c:231-306).                                                *)
THEOREM TrackingInvariant == PackSpec => []NInv
  BY InitNInv, NextNInv, PTL DEF PackSpec

(* Type correctness of the packer, its file and its editor. *)
THEOREM TypeCorrect == PackSpec => []PackTypeOK
  <1>1. NInv => PackTypeOK
    BY DEF NInv
  <1> QED BY <1>1, TrackingInvariant, PTL

(* A source recorded by an undisturbed run and not edited since is never   *)
(* compiled again (the slow path, stub_packer.c:265-271).                  *)
THEOREM NoRebuild == PackSpec => []NoNeedlessRebuild
  <1>1. NInv => NoNeedlessRebuild
    BY DEF NInv, Unsettled, NoNeedlessRebuild
  <1> QED BY <1>1, TrackingInvariant, PTL
-----------------------------------------------------------------------------
LEMMA InitDInv == PackInit => DInv
  <1> SUFFICES ASSUME PackInit PROVE DInv
    OBVIOUS
  <1>1. NInv
    BY InitNInv
  <1>2. \A p \in Paths : /\ source[p].content \in Contents /\ source[p].mtime = 0
                         /\ table[p] = NoEntry /\ held[p] = {source[p].content}
    BY DEF PackInit
  <1>3. proc.pc = "idle" /\ now = 0
    BY DEF PackInit
  <1> QED
    BY <1>1, <1>2, <1>3 DEF DInv, KnownHashes, PastTimes, EntryFresh, EntryTrue,
       EntryBuilt, FreshSha, SaveTrue, SaveBuilt, CompileMiss, ThereUnlessRaced,
       DoneMeansBuilt, InRun

(* A write: in a later second no entry and no hash in hand is of the       *)
(* source's own second, and a content that is new to the file is described *)
(* by none.                                                                *)
LEMMA WriteDInv ==
    ASSUME DInv, NEW p \in Paths, NEW c \in Contents \cup {NoFile}, Write(p, c)
    PROVE  DInv'
  <1>1. NInv'
    BY WriteNInv DEF DInv
  <1>2. /\ source[p].mtime =< now
        /\ now \in Nat /\ \A q \in Paths : source[q].mtime \in Nat
        /\ proc.path \in Paths /\ proc.mtime \in Nat
    BY DEF DInv, PastTimes, NInv, PackTypeOK, Proc
  <1>3. /\ source'[p].content = c /\ source'[p].mtime = now
        /\ held'[p] = held[p] \cup ({c} \ {NoFile})
        /\ ~undone'[p] => c \notin held[p]
        /\ ~rewritten'[p] => source[p].mtime # now
        /\ UNCHANGED <<now, artefact, table, proc, unrecorded, blind>>
        /\ raced' = (raced \/ p = proc.path)
    BY DEF Write, DInv, NInv, PackTypeOK
  <1>4. \A q \in Paths \ {p} : /\ source'[q] = source[q] /\ held'[q] = held[q]
                               /\ undone'[q] = undone[q] /\ rewritten'[q] = rewritten[q]
    BY DEF Write, DInv, NInv, PackTypeOK
  <1>5. ASSUME NEW h, Known(p, h), c # NoFile, c \notin held[p]
        PROVE  h # Digest[c]
    <2>1. held[p] \subseteq Contents
      BY DEF DInv, NInv, PackTypeOK
    <2> QED BY <2>1, <1>5, PackerAssumption DEF Known
  <1>6. \A q \in Paths : table[q] # NoEntry => table[q].mtime \in Nat
    BY DEF DInv, NInv, PackTypeOK, Entry
  <1>7. KnownHashes'
    BY <1>2, <1>3, <1>4 DEF DInv, KnownHashes, Known, There
  <1>8. PastTimes'
    BY <1>2, <1>3, <1>4, <1>6 DEF DInv, PastTimes, InRun
  <1>9. EntryFresh'
    BY <1>2, <1>3, <1>4, <1>6 DEF DInv, EntryFresh, PastTimes, There
  <1>10. EntryTrue' /\ EntryBuilt'
    BY <1>3, <1>4, <1>5 DEF DInv, EntryTrue, EntryBuilt, KnownHashes, There
  <1>11. FreshSha'
    BY <1>2, <1>3, <1>4 DEF DInv, FreshSha, PastTimes, InRun, There
  <1>12. SaveTrue' /\ CompileMiss'
    BY <1>2, <1>3, <1>4, <1>5 DEF DInv, SaveTrue, CompileMiss, KnownHashes, There
  <1>13. ThereUnlessRaced' /\ SaveBuilt' /\ DoneMeansBuilt'
    BY <1>2, <1>3, <1>4 DEF DInv, ThereUnlessRaced, SaveBuilt, DoneMeansBuilt,
       InRun, There
  <1> QED
    BY <1>1, <1>7, <1>8, <1>9, <1>10, <1>11, <1>12, <1>13 DEF DInv

(* A touch moves the second on, so that only the hash still recognises the *)
(* source.                                                                 *)
LEMMA TouchDInv ==
    ASSUME DInv, NEW p \in Paths, Touch(p)
    PROVE  DInv'
  <1>1. NInv'
    BY TouchNInv DEF DInv
  <1>2. /\ source[p].mtime =< now /\ source[p].mtime # now
        /\ now \in Nat /\ \A q \in Paths : source[q].mtime \in Nat
        /\ proc.path \in Paths /\ proc.mtime \in Nat
    BY DEF Touch, DInv, PastTimes, NInv, PackTypeOK, Proc
  <1>3. /\ source'[p].mtime = now
        /\ \A q \in Paths \ {p} : source'[q] = source[q]
        /\ \A q \in Paths : source'[q].content = source[q].content
        /\ \A q \in Paths \ {p} : rewritten'[q] = rewritten[q]
        /\ UNCHANGED <<now, held, artefact, table, proc, raced, undone, blind, unrecorded>>
    BY DEF Touch, DInv, NInv, PackTypeOK
  <1>4. \A q \in Paths : table[q] # NoEntry => table[q].mtime \in Nat
    BY DEF DInv, NInv, PackTypeOK, Entry
  <1>5. KnownHashes'
    BY <1>2, <1>3 DEF DInv, KnownHashes, Known, There
  <1>6. PastTimes'
    BY <1>2, <1>3, <1>4 DEF DInv, PastTimes, InRun
  <1>7. EntryFresh'
    BY <1>2, <1>3, <1>4 DEF DInv, EntryFresh, PastTimes, There
  <1>8. EntryTrue' /\ EntryBuilt'
    BY <1>3 DEF DInv, EntryTrue, EntryBuilt, There
  <1>9. FreshSha'
    BY <1>2, <1>3 DEF DInv, FreshSha, PastTimes, InRun, There
  <1>10. /\ SaveTrue' /\ SaveBuilt' /\ CompileMiss'
         /\ ThereUnlessRaced' /\ DoneMeansBuilt'
    BY <1>2, <1>3 DEF DInv, SaveTrue, SaveBuilt, CompileMiss, ThereUnlessRaced,
       DoneMeansBuilt, InRun, There
  <1> QED
    BY <1>1, <1>5, <1>6, <1>7, <1>8, <1>9, <1>10 DEF DInv

(* An entry with the source's hash has its output: because the content is  *)
(* new to the file, or because no compiler ran since the entry was made.   *)
LEMMA HitIsBuilt ==
    ASSUME DInv, NEW p \in Paths, There(p), table[p] # NoEntry,
           table[p].sha256 = Digest[source[p].content],
           ~(undone[p] /\ unrecorded[p])
    PROVE  artefact[p] = source[p].content
  <1>1. source[p].content \in Contents
    BY DEF DInv, NInv, PackTypeOK, There
  <1>2. CASE ~undone[p]
    BY <1>2 DEF DInv, EntryTrue
  <1>3. CASE ~unrecorded[p]
    BY <1>1, <1>3, PackerAssumption DEF DInv, EntryBuilt
  <1> QED BY <1>2, <1>3

(* The fast path is right because an entry of the source's own second has  *)
(* the source's hash.                                                      *)
LEMMA StartDInv ==
    ASSUME DInv, NEW p \in Paths, NEW mode \in {"native", "lua", "other"},
           Start(p, mode)
    PROVE  DInv'
  <1>1. NInv'
    BY StartNInv DEF DInv
  <1>2. /\ UNCHANGED <<now, source, held, artefact, table, undone, rewritten, unrecorded>>
        /\ raced' = FALSE /\ blind' = rewritten[p]
    BY DEF Start
  <1>3. \A q \in Paths : source[q].mtime \in Nat
    BY DEF DInv, NInv, PackTypeOK
  <1>4. /\ proc'.pc \in {"failed", "done", "hash"} /\ proc'.path = p
        /\ proc'.pc = "hash" => There(p) /\ proc'.mtime = source[p].mtime
        /\ proc'.pc = "done" => /\ There(p) /\ table[p] # NoEntry
                                /\ table[p].mtime = source[p].mtime
    <2>1. CASE source[p].content = NoFile
      <3>1. proc' = [proc EXCEPT !.pc = "failed", !.path = p, !.mode = mode]
        BY <2>1 DEF Start
      <3> QED BY <3>1 DEF DInv, NInv, PackTypeOK, Proc
    <2>2. CASE source[p].content # NoFile
      BY <2>2 DEF Start, Statted, FastMatch, There
    <2> QED BY <2>1, <2>2
  <1>5. KnownHashes' /\ EntryFresh' /\ EntryTrue' /\ EntryBuilt'
    BY <1>2, <1>4 DEF DInv, KnownHashes, EntryFresh, EntryTrue, EntryBuilt, Known, There
  <1>6. PastTimes'
    BY <1>2, <1>3, <1>4 DEF DInv, PastTimes, InRun
  <1>7. FreshSha' /\ SaveTrue' /\ SaveBuilt' /\ CompileMiss' /\ ThereUnlessRaced'
    BY <1>2, <1>4 DEF FreshSha, SaveTrue, SaveBuilt, CompileMiss, ThereUnlessRaced,
       InRun, There
  <1>8. DoneMeansBuilt'
    BY <1>2, <1>4, HitIsBuilt DEF DInv, EntryFresh, DoneMeansBuilt
  <1> QED
    BY <1>1, <1>5, <1>6, <1>7, <1>8 DEF DInv

(* What state_save does to the table when the entry it writes describes    *)
(* the source as EntryFresh and EntryTrue say.                             *)
LEMMA StateSaveTrue ==
    ASSUME DInv, NEW sha \in Hashes, StateSave(sha),
           UNCHANGED <<now, source, held, artefact, undone, rewritten>>, InRun,
           Known(proc.path, sha),
           There(proc.path) /\ proc.mtime = source[proc.path].mtime
             /\ ~rewritten[proc.path]
               => sha = Digest[source[proc.path].content],
           There(proc.path) /\ ~undone[proc.path]
             /\ sha = Digest[source[proc.path].content]
               => artefact[proc.path] = source[proc.path].content,
           \A q \in Paths \ {proc.path} : unrecorded'[q] = unrecorded[q],
           ~unrecorded'[proc.path] =>
             /\ table' = table => ~unrecorded[proc.path]
             /\ artefact[proc.path] \in Contents
             /\ sha = Digest[artefact[proc.path]]
    PROVE  /\ EntryFresh' /\ EntryTrue' /\ EntryBuilt'
           /\ \A p \in Paths : table'[p] # NoEntry =>
                 Known(p, table'[p].sha256) /\ table'[p].mtime =< source[p].mtime
  <1> DEFINE e == [mtime |-> proc.mtime, size |-> proc.size, sha256 |-> sha]
  <1>1. proc.path \in Paths /\ proc.mtime =< source[proc.path].mtime
    BY DEF DInv, NInv, PackTypeOK, Proc, PastTimes
  <1>2. CASE table' = [table EXCEPT ![proc.path] = e]
    <2>1. /\ table'[proc.path] = e
          /\ \A p \in Paths \ {proc.path} : table'[p] = table[p]
      BY <1>1, <1>2 DEF DInv, NInv, PackTypeOK
    <2>2. e.mtime = proc.mtime /\ e.sha256 = sha
      OBVIOUS
    <2> HIDE DEF e
    <2>3. EntryFresh'
      BY <2>1, <2>2 DEF DInv, EntryFresh, There
    <2>4. EntryTrue' /\ EntryBuilt'
      BY <2>1, <2>2 DEF DInv, EntryTrue, EntryBuilt, There
    <2>5. \A p \in Paths : table'[p] # NoEntry =>
              Known(p, table'[p].sha256) /\ table'[p].mtime =< source[p].mtime
      BY <1>1, <2>1, <2>2 DEF DInv, KnownHashes, PastTimes
    <2> QED BY <2>3, <2>4, <2>5
  <1>3. CASE UNCHANGED table
    BY <1>1, <1>3 DEF DInv, EntryFresh, EntryTrue, EntryBuilt, KnownHashes, PastTimes,
       There
  <1> QED BY <1>2, <1>3 DEF StateSave

LEMMA HashDInv ==
    ASSUME DInv, Hash
    PROVE  DInv'
  <1> DEFINE p == proc.path
             sha == Sha256FileHex(source[p].content)
  <1>1. NInv'
    BY HashNInv DEF DInv
  <1>2. /\ p \in Paths /\ sha \in Hashes /\ InRun /\ proc.pc = "hash"
        /\ source[p].content \in Contents \cup {NoFile}
        /\ proc.prev = table[p]
        /\ UNCHANGED <<now, source, held, artefact, raced, trail>>
    BY ShaType DEF DInv, NInv, PackTypeOK, Proc, Hash, InRun, PrevIsTable
  <1>3. There(p) => sha = Digest[source[p].content]
    BY DEF Sha256FileHex, There
  <1>4. Known(p, sha)
    BY <1>2 DEF DInv, KnownHashes, Known, Sha256FileHex, There
  <1>5. CASE proc.prev # NoEntry /\ proc.prev.sha256 = sha
    <2>1. StateSave(sha) /\ proc' = [proc EXCEPT !.sha = sha, !.pc = "done"]
      BY <1>5 DEF Hash
    <2>2. proc'.pc = "done" /\ proc'.path = p
      BY <2>1, <1>2 DEF DInv, NInv, PackTypeOK, Proc
    <2>3. There(p) /\ ~(undone[p] /\ unrecorded[p]) => artefact[p] = source[p].content
      BY <1>2, <1>3, <1>5, HitIsBuilt
    <2>7. ~unrecorded[p] => artefact[p] \in Contents /\ sha = Digest[artefact[p]]
      BY <1>2, <1>5 DEF DInv, EntryBuilt
    <2>8. UNCHANGED <<undone, rewritten, unrecorded, blind>>
      BY <1>2 DEF trail
    <2> HIDE DEF sha
    <2>4. /\ EntryFresh' /\ EntryTrue' /\ EntryBuilt'
          /\ \A q \in Paths : table'[q] # NoEntry =>
                Known(q, table'[q].sha256) /\ table'[q].mtime =< source[q].mtime
      BY <2>1, <2>3, <2>7, <2>8, <1>2, <1>3, <1>4, StateSaveTrue
    <2>5. KnownHashes' /\ PastTimes'
      BY <2>2, <2>4, <1>2 DEF DInv, KnownHashes, PastTimes, Known, InRun, There
    <2>6. DoneMeansBuilt'
      BY <2>2, <2>3, <2>8, <1>2 DEF DInv, ThereUnlessRaced, DoneMeansBuilt
    <2> QED
      BY <1>1, <2>2, <2>4, <2>5, <2>6 DEF DInv, FreshSha, SaveTrue, SaveBuilt,
         CompileMiss, ThereUnlessRaced, InRun
  <1>6. CASE proc.prev # NoEntry => proc.prev.sha256 # sha
    <2>1. /\ proc' = [proc EXCEPT !.sha = sha, !.pc = "compile"]
          /\ UNCHANGED table
      BY <1>6 DEF Hash
    <2>2. /\ proc'.pc = "compile" /\ proc'.path = p /\ proc'.sha = sha
          /\ proc'.mtime = proc.mtime
      BY <2>1, <1>2 DEF DInv, NInv, PackTypeOK, Proc
    <2>3. KnownHashes' /\ PastTimes'
      BY <2>1, <2>2, <1>2, <1>4 DEF DInv, KnownHashes, PastTimes, Known, InRun, There
    <2>4. EntryFresh' /\ EntryTrue' /\ EntryBuilt'
      BY <2>1, <1>2 DEF DInv, EntryFresh, EntryTrue, EntryBuilt, There, trail
    <2>5. FreshSha' /\ SaveTrue' /\ SaveBuilt' /\ CompileMiss'
      BY <2>1, <2>2, <1>2, <1>3, <1>6 DEF FreshSha, SaveTrue, SaveBuilt, CompileMiss,
         There, trail
    <2>6. ThereUnlessRaced' /\ DoneMeansBuilt'
      BY <2>2, <1>2 DEF DInv, ThereUnlessRaced, DoneMeansBuilt, InRun, There
    <2> QED
      BY <1>1, <2>3, <2>4, <2>5, <2>6 DEF DInv
  <1> QED BY <1>5, <1>6

(* A compiler that fails may take the output with it, but only over an     *)
(* entry that no longer describes the source.                              *)
LEMMA OutputDInv ==
    ASSUME DInv, Compile \/ Kill
    PROVE  DInv'
  <1> DEFINE p == proc.path
  <1>1. NInv'
    BY OutputNInv DEF DInv
  <1>2. /\ UNCHANGED <<now, source, held, table, raced, undone, rewritten, blind>>
        /\ p \in Paths /\ InRun
    BY DEF Compile, Kill, DInv, NInv, PackTypeOK, Proc, InRun
  <1>3. PICK pc \in {"save", "failed", "idle"} :
           /\ proc' = [proc EXCEPT !.pc = pc]
           /\ pc = "save" => proc.pc = "compile" /\ artefact'[p] = source[p].content
    BY <1>2 DEF Compile, Kill, DInv, NInv, PackTypeOK
  <1>4. /\ proc'.pc = pc /\ proc'.path = p /\ proc'.sha = proc.sha
        /\ proc'.mtime = proc.mtime
    BY <1>3 DEF DInv, NInv, PackTypeOK, Proc
  <1>5. /\ \A q \in Paths \ {p} : artefact'[q] = artefact[q]
        /\ \A q \in Paths \ {p} : unrecorded'[q] = unrecorded[q]
        /\ proc.pc # "compile" => artefact' = artefact
        /\ ~unrecorded'[p] => ~unrecorded[p] /\ artefact' = artefact
    BY <1>2 DEF Compile, Kill, DInv, NInv, PackTypeOK
  <1>6. EntryTrue'
    BY <1>2, <1>5 DEF DInv, EntryTrue, CompileMiss, There
  <1>10. EntryBuilt'
    BY <1>2, <1>5 DEF DInv, EntryBuilt
  <1>7. KnownHashes' /\ PastTimes'
    BY <1>2, <1>3, <1>4 DEF DInv, KnownHashes, PastTimes, Known, InRun, There
  <1>8. EntryFresh' /\ FreshSha' /\ SaveTrue' /\ SaveBuilt' /\ CompileMiss'
    BY <1>2, <1>3, <1>4 DEF DInv, EntryFresh, FreshSha, SaveTrue, SaveBuilt,
       CompileMiss, There
  <1>9. ThereUnlessRaced' /\ DoneMeansBuilt'
    BY <1>2, <1>3, <1>4 DEF DInv, ThereUnlessRaced, DoneMeansBuilt, InRun, There
  <1> QED
    BY <1>1, <1>6, <1>7, <1>8, <1>9, <1>10 DEF DInv

LEMMA SaveDInv ==
    ASSUME DInv, Save
    PROVE  DInv'
  <1> DEFINE p == proc.path
  <1>1. NInv'
    BY SaveNInv DEF DInv
  <1>2. /\ proc.pc = "save" /\ InRun /\ p \in Paths /\ proc.sha \in Hashes
        /\ StateSave(proc.sha)
        /\ UNCHANGED <<now, source, held, artefact, raced, undone, rewritten, blind>>
        /\ \A q \in Paths \ {p} : unrecorded'[q] = unrecorded[q]
        /\ ~unrecorded'[p] => table' # table /\ ~raced
    BY DEF Save, InRun, DInv, NInv, PackTypeOK, Proc
  <1>3. proc'.pc = "done" /\ proc'.path = p
    BY DEF Save, DInv, NInv, PackTypeOK, Proc
  <1>7. ~raced => /\ There(p) /\ artefact[p] = source[p].content
                  /\ artefact[p] \in Contents /\ proc.sha = Digest[artefact[p]]
    BY <1>2 DEF DInv, NInv, PackTypeOK, ThereUnlessRaced, ShaIsCurrent, SaveBuilt,
       Sha256FileHex, There
  <1>4. /\ EntryFresh' /\ EntryTrue' /\ EntryBuilt'
        /\ \A q \in Paths : table'[q] # NoEntry =>
              Known(q, table'[q].sha256) /\ table'[q].mtime =< source[q].mtime
    BY <1>2, <1>7, StateSaveTrue DEF DInv, KnownHashes, FreshSha, SaveTrue
  <1>5. KnownHashes' /\ PastTimes'
    BY <1>2, <1>3, <1>4 DEF DInv, KnownHashes, PastTimes, Known, InRun, There
  <1>6. DoneMeansBuilt'
    BY <1>2, <1>3, <1>7 DEF DoneMeansBuilt
  <1> QED
    BY <1>1, <1>3, <1>4, <1>5, <1>6 DEF DInv, FreshSha, SaveTrue, SaveBuilt,
       CompileMiss, ThereUnlessRaced, InRun

LEMMA NextDInv == DInv /\ [PackNext]_packVars => DInv'
  <1> SUFFICES ASSUME DInv, [PackNext]_packVars PROVE DInv'
    OBVIOUS
  <1>1. CASE Tick
    <2>1. NInv'
      BY <1>1, NextNInv DEF DInv
    <2>2. now' = now + 1 /\ now \in Nat /\ \A p \in Paths : source[p].mtime \in Nat
      BY <1>1 DEF Tick, DInv, NInv, PackTypeOK
    <2>3. UNCHANGED <<source, held, artefact, table, proc, raced, trail>>
      BY <1>1 DEF Tick
    <2>4. PastTimes'
      BY <2>2, <2>3 DEF DInv, PastTimes, InRun
    <2> QED
      BY <2>1, <2>3, <2>4 DEF DInv, KnownHashes, Known, EntryFresh, EntryTrue,
         EntryBuilt, FreshSha, SaveTrue, SaveBuilt, CompileMiss, ThereUnlessRaced,
         DoneMeansBuilt, InRun, There, trail
  <1>2. CASE UNCHANGED packVars
    <2>1. NInv'
      BY <1>2, NextNInv DEF DInv
    <2> QED
      BY <2>1, <1>2 DEF packVars, trail, DInv, KnownHashes, Known, PastTimes,
         EntryFresh, EntryTrue, EntryBuilt, FreshSha, SaveTrue, SaveBuilt,
         CompileMiss, ThereUnlessRaced, DoneMeansBuilt, InRun, There
  <1> QED
    BY <1>1, <1>2, WriteDInv, TouchDInv, StartDInv, HashDInv, OutputDInv,
       SaveDInv DEF PackNext, Edit, Delete

(* BUILD-DONE after an undisturbed run means the output is compiled from   *)
(* the source as it stands (stub_packer.c:253-304), for any editor and any *)
(* number of failed, killed and unrecorded builds, but for a source that   *)
(* was rewritten within its second, and an old content put back over a     *)
(* compile that no entry describes.                                        *)
THEOREM BuiltWhenDone == PackSpec => []DoneMeansBuilt
  <1>1. DInv => DoneMeansBuilt
    BY DEF DInv
  <1> QED BY <1>1, InitDInv, NextDInv, PTL DEF PackSpec

(* The record in both directions: what BUILD-DONE skips is built, and what *)
(* is built and recorded is skipped (stub_packer.c:231-306).               *)
THEOREM TrackingIsSound == PackSpec => []TrackingSound
  <1>1. PackTypeOK /\ DoneMeansBuilt /\ NoNeedlessRebuild => TrackingSound
    BY DEF TrackingSound
  <1> QED BY <1>1, TypeCorrect, BuiltWhenDone, NoRebuild, PTL

---------------------------------------------------------------------------
(* Seccomp *)

\* A set of numbers that is not empty has a least one: the induction of what
\* follows looks at the least counterexample.
LEMMA LeastNat ==
  ASSUME NEW S \in SUBSET Nat, S # {}
  PROVE  \E i \in S : \A j \in S : i <= j
<1>1. PICK i \in S : \A j \in S : ~(<<j, i>> \in OpToRel(<, Nat))
  BY WFMin, NatLessThanWellFounded, Zenon
<1>2. \A j \in S : i <= j
  <2> TAKE j \in S
  <2>1. i \in Nat /\ j \in Nat
    OBVIOUS
  <2>2. <<j, i>> \in Nat \X Nat /\ <<j, i>>[1] = j /\ <<j, i>>[2] = i
    BY <2>1
  <2>3. ~(j < i)
    BY <1>1, <2>2, Zenon DEF OpToRel
  <2> QED BY <2>1, <2>3
<1> QED BY <1>2

\* One instruction, when what follows is f.
Exec(prog, arch, nr, f, pc, acc) ==
  CASE prog[pc].op = "ld"  -> f[pc + 1][IF prog[pc].k = "arch" THEN arch ELSE nr]
    [] prog[pc].op = "jeq" ->
         f[pc + 1 + (IF acc = prog[pc].k THEN prog[pc].jt ELSE prog[pc].jf)][acc]
    [] prog[pc].op = "ret" -> prog[pc].k

\* What the kernel's interpreter is: a table of the answers from each place.
IsRun(f, prog, arch, nr) ==
  f = [pc \in 1 .. Len(prog) |->
         [acc \in {"none", arch, nr} |-> Exec(prog, arch, nr, f, pc, acc)]]

\* The programs the kernel takes: every path stays inside.
Closed(prog) ==
  /\ Len(prog) \in Nat \ {0}
  /\ \A pc \in 1 .. Len(prog) :
       /\ prog[pc].op \in {"ld", "jeq", "ret"}
       /\ prog[pc].op = "ld" => pc + 1 \in 1 .. Len(prog)
       /\ prog[pc].op = "jeq" => /\ pc + 1 + prog[pc].jt \in (pc + 1) .. Len(prog)
                                 /\ pc + 1 + prog[pc].jf \in (pc + 1) .. Len(prog)

\* Such a program's table exists: the answers from the last place on, and
\* from each place before it, whose answer needs later ones only.
LEMMA RunExists ==
  ASSUME NEW prog, Closed(prog), NEW arch, NEW nr
  PROVE  \E f : IsRun(f, prog, arch, nr)
<1> PICK N \in Nat : N = Len(prog) /\ N > 0
  BY DEF Closed
<1> DEFINE A == {"none", arch, nr}
           From(n, f) == /\ DOMAIN f = (N + 1 - n) .. N
                         /\ \A pc \in (N + 1 - n) .. N :
                              f[pc] = [acc \in A |-> Exec(prog, arch, nr, f, pc, acc)]
           Bad == {n \in 0 .. N : ~ \E f : f = [pc \in DOMAIN f |-> f[pc]] /\ From(n, f)}
<1>1. SUFFICES Bad = {}
  <2>1. N \in 0 .. N /\ N + 1 - N = 1
    OBVIOUS
  <2>2. PICK f : f = [pc \in DOMAIN f |-> f[pc]] /\ From(N, f)
    <3>1. N \notin Bad
      BY <1>1
    <3> HIDE DEF From
    <3> QED BY <2>1, <3>1
  <2>3. IsRun(f, prog, arch, nr)
    BY <2>1, <2>2 DEF IsRun
  <2> QED BY <2>3
<1>2. SUFFICES ASSUME Bad # {} PROVE FALSE
  OBVIOUS
<1>3. PICK n \in Bad : \A j \in Bad : n <= j
  <2>1. Bad \in SUBSET Nat
    OBVIOUS
  <2> HIDE DEF Bad
  <2> QED BY <1>2, <2>1, LeastNat
<1>4. n \in 0 .. N /\ ~ \E f : f = [pc \in DOMAIN f |-> f[pc]] /\ From(n, f)
  OBVIOUS
<1>5. CASE n = 0
  <2> DEFINE g == [pc \in (N + 1) .. N |-> 0]
  <2>1. From(0, g)
    OBVIOUS
  <2> QED BY <1>4, <1>5, <2>1
<1>6. CASE n # 0
  <2>1. n \in Nat /\ n - 1 \in 0 .. N /\ n - 1 \notin Bad
    <3>1. n \in Nat /\ n - 1 \in 0 .. N /\ ~(n <= n - 1)
      BY <1>4, <1>6
    <3> HIDE DEF Bad
    <3> QED BY <1>3, <3>1
  <2>2. PICK f : f = [pc \in DOMAIN f |-> f[pc]] /\ From(n - 1, f)
    BY <2>1
  <2> PICK p \in 1 .. N : p = N + 1 - n
    BY <1>4, <1>6, <2>1
  <2>3. (N + 1 - (n - 1)) = p + 1
    BY <2>1, SMTT(20)
  <2> DEFINE g == [pc \in p .. N |-> IF pc = p
                     THEN [acc \in A |-> Exec(prog, arch, nr, f, p, acc)] ELSE f[pc]]
  <2>4. \A pc \in (p + 1) .. N : g[pc] = f[pc]
    OBVIOUS
  <2>5. DOMAIN g = p .. N /\ g = [pc \in DOMAIN g |-> g[pc]]
    OBVIOUS
  <2>6. g[p] = [acc \in A |-> Exec(prog, arch, nr, f, p, acc)]
    OBVIOUS
  <2> HIDE DEF g, A
  <2>7. \A pc \in p .. N : \A acc : Exec(prog, arch, nr, g, pc, acc) = Exec(prog, arch, nr, f, pc, acc)
    <3> SUFFICES ASSUME NEW pc \in p .. N, NEW acc
                 PROVE  Exec(prog, arch, nr, g, pc, acc) = Exec(prog, arch, nr, f, pc, acc)
      OBVIOUS
    <3>1. pc \in 1 .. N /\ \A q \in (pc + 1) .. N : q \in (p + 1) .. N
      OBVIOUS
    <3>2. /\ prog[pc].op = "ld" => pc + 1 \in (p + 1) .. N
          /\ prog[pc].op = "jeq" => /\ pc + 1 + prog[pc].jt \in (p + 1) .. N
                                    /\ pc + 1 + prog[pc].jf \in (p + 1) .. N
      BY <3>1, SMTT(20) DEF Closed
    <3>3. prog[pc].op \in {"ld", "jeq", "ret"}
      BY <3>1 DEF Closed
    <3>4. CASE prog[pc].op = "ld"
      BY <2>4, <3>2, <3>4 DEF Exec
    <3>5. CASE prog[pc].op = "jeq"
      BY <2>4, <3>2, <3>5 DEF Exec
    <3>6. CASE prog[pc].op = "ret"
      BY <3>6 DEF Exec
    <3> QED BY <3>3, <3>4, <3>5, <3>6
  <2>8. \A pc \in p .. N : g[pc] = [acc \in A |-> Exec(prog, arch, nr, g, pc, acc)]
    <3> TAKE pc \in p .. N
    <3>1. [acc \in A |-> Exec(prog, arch, nr, g, pc, acc)]
            = [acc \in A |-> Exec(prog, arch, nr, f, pc, acc)]
      BY <2>7
    <3>2. CASE pc = p
      BY <2>6, <3>1, <3>2
    <3>3. CASE pc # p
      <4>1. pc \in (p + 1) .. N
        BY <3>3
      <4>2. f[pc] = [acc \in A |-> Exec(prog, arch, nr, f, pc, acc)]
        BY <2>2, <2>3, <4>1
      <4> QED BY <2>4, <3>1, <4>1, <4>2
    <3> QED BY <3>2, <3>3
  <2>9. From(n, g)
    BY <2>5, <2>8
  <2> QED BY <1>4, <2>5, <2>9
<1> QED BY <1>5, <1>6

\* f has the answer of program prog from every place and accumulator.
Answers(f, prog, arch, nr) ==
  \A pc \in 1 .. Len(prog), acc \in {"none", arch, nr} :
    f[pc][acc] = Exec(prog, arch, nr, f, pc, acc)

\* What Run computes.
LEMMA RunUnfolds ==
  ASSUME NEW prog, Closed(prog), NEW arch, NEW nr
  PROVE  \E f : Run(prog, arch, nr) = f[1]["none"] /\ Answers(f, prog, arch, nr)
<1> DEFINE f == CHOOSE g : IsRun(g, prog, arch, nr)
<1>1. IsRun(f, prog, arch, nr)
  BY RunExists
<1>2. Run(prog, arch, nr) = f[1]["none"]
  BY DEF Run, IsRun, Exec
<1> HIDE DEF f
<1>3. Answers(f, prog, arch, nr)
  BY <1>1 DEF IsRun, Answers
<1> QED BY <1>2, <1>3

\* An offset that fits its field is stored as it is.
LEMMA Fits ==
  ASSUME NEW a \in 0 .. JF_MAX
  PROVE  a % (JF_MAX + 1) = a
BY FilterAssumption

\* What an instruction does to the answer.
LEMMA ExecLD ==
  ASSUME NEW prog, NEW arch, NEW nr, NEW f, NEW pc, NEW acc, NEW k, prog[pc] = LD(k)
  PROVE  Exec(prog, arch, nr, f, pc, acc) = f[pc + 1][IF k = "arch" THEN arch ELSE nr]
<1>1. prog[pc].op = "ld" /\ prog[pc].k = k
  BY DEF LD
<1> QED BY <1>1 DEF Exec

\* A test whose offsets fit their fields goes where it says.
LEMMA ExecJEQ ==
  ASSUME NEW prog, NEW arch, NEW nr, NEW f, NEW pc, NEW acc, NEW k,
         NEW a \in 0 .. JF_MAX, NEW b \in 0 .. JF_MAX, prog[pc] = JEQ(k, a, b)
  PROVE  Exec(prog, arch, nr, f, pc, acc) = f[pc + 1 + (IF acc = k THEN a ELSE b)][acc]
<1>1. prog[pc].op = "jeq" /\ prog[pc].k = k /\ prog[pc].jt = a /\ prog[pc].jf = b
  BY Fits DEF JEQ
<1> QED BY <1>1 DEF Exec

\* A return ends the program.
LEMMA ExecRET ==
  ASSUME NEW prog, NEW arch, NEW nr, NEW f, NEW pc, NEW acc, NEW v, prog[pc] = RET(v)
  PROVE  Exec(prog, arch, nr, f, pc, acc) = v
<1>1. prog[pc].op = "ret" /\ prog[pc].k = v
  BY DEF RET
<1> QED BY <1>1 DEF Exec

\* From place p + 1 on the program tests the list and then kills.
ListAt(prog, p, nrs) ==
  /\ \A i \in 1 .. Len(nrs) : /\ prog[p + 2 * i - 1] = JEQ(nrs[i], 0, 1)
                              /\ prog[p + 2 * i] = RET("ALLOW")
  /\ prog[p + 2 * Len(nrs) + 1] = RET("KILL")
  /\ p + 2 * Len(nrs) + 1 <= Len(prog)

\* A list lets through its members and kills the rest: from the test of entry
\* j + 1 on, the members after j.
LEMMA ListMeaning ==
  ASSUME NEW prog, Closed(prog), NEW arch, NEW nr, NEW f, Answers(f, prog, arch, nr),
         NEW nrs, Len(nrs) \in Nat, NEW p \in Nat, ListAt(prog, p, nrs)
  PROVE  f[p + 1][nr] = IF \E i \in 1 .. Len(nrs) : nrs[i] = nr THEN "ALLOW" ELSE "KILL"
<1> PICK N \in Nat : N = Len(nrs)
  OBVIOUS
<1> DEFINE Right(m) == f[p + 2 * (N - m) + 1][nr]
                         = IF \E i \in (N - m + 1) .. N : nrs[i] = nr THEN "ALLOW" ELSE "KILL"
           Bad == {m \in 0 .. N : ~Right(m)}
<1>0. Len(prog) \in Nat
  BY DEF Closed
<1>1. SUFFICES Bad = {}
  <2>1. N \in 0 .. N /\ N - N = 0 /\ N - N + 1 = 1 /\ p + 2 * (N - N) + 1 = p + 1
    OBVIOUS
  <2>2. Right(N)
    BY <1>1, <2>1, SMTT(20)
  <2> QED BY <2>1, <2>2
<1>2. SUFFICES ASSUME Bad # {} PROVE FALSE
  OBVIOUS
<1>3. PICK m \in Bad : \A j \in Bad : m <= j
  <2>1. Bad \in SUBSET Nat
    OBVIOUS
  <2> HIDE DEF Bad
  <2> QED BY <1>2, <2>1, LeastNat
<1>4. m \in 0 .. N /\ ~Right(m)
  OBVIOUS
<1>t. \A pc \in 1 .. Len(prog) : f[pc][nr] = Exec(prog, arch, nr, f, pc, nr)
  BY DEF Answers
<1>5. CASE m = 0
  <2>1. p + 2 * (N - 0) + 1 = p + 2 * N + 1 /\ p + 2 * N + 1 \in 1 .. Len(prog)
    <3>1. p + 2 * N + 1 <= Len(prog)
      BY DEF ListAt
    <3> QED BY ONLY <1>0, <3>1, N \in Nat, p \in Nat
  <2>2. f[p + 2 * N + 1][nr] = "KILL"
    <3>1. prog[p + 2 * N + 1] = RET("KILL")
      BY DEF ListAt
    <3>2. f[p + 2 * N + 1][nr] = Exec(prog, arch, nr, f, p + 2 * N + 1, nr)
      BY ONLY <1>t, <2>1
    <3>3. Exec(prog, arch, nr, f, p + 2 * N + 1, nr) = "KILL"
      BY ONLY <3>1, ExecRET
    <3> QED BY ONLY <3>2, <3>3
  <2>3. ~ \E i \in (N - 0 + 1) .. N : nrs[i] = nr
    OBVIOUS
  <2> QED BY <1>4, <1>5, <2>1, <2>2, <2>3
<1>6. CASE m # 0
  <2>1. m \in Nat /\ m - 1 \in 0 .. N /\ m - 1 \notin Bad
    <3>0. m \in 0 .. N
      BY <1>4
    <3>1. m \in Nat /\ m - 1 \in 0 .. N /\ ~(m <= m - 1)
      BY ONLY <1>6, <3>0, N \in Nat
    <3> HIDE DEF Bad
    <3> QED BY <1>3, <3>1
  <2>2. Right(m - 1)
    BY <2>1
  <2> PICK j \in 1 .. N : j = N - m + 1
    <3>1. N - m + 1 \in 1 .. N
      <4> HIDE DEF Bad
      <4> QED BY <1>4, <1>6, SMTT(20)
    <3> QED BY <3>1
  <2> HIDE DEF Bad, Right
  <2> PICK q \in Nat : q = p + 2 * j - 1
    OBVIOUS
  <2>3. /\ p + 2 * (N - m) + 1 = q /\ N - (m - 1) = j /\ p + 2 * j = q + 1
        /\ p + 2 * (N - (m - 1)) + 1 = q + 2 /\ N - (m - 1) + 1 = j + 1 /\ N - m + 1 = j
    BY <2>1
  <2>4. q \in 1 .. Len(prog) /\ q + 1 \in 1 .. Len(prog)
    <3>1. p + 2 * N + 1 <= Len(prog)
      BY DEF ListAt
    <3> QED BY <1>0, <3>1, SMTT(20)
  <2>5. prog[q] = JEQ(nrs[j], 0, 1) /\ prog[q + 1] = RET("ALLOW")
    BY <2>3 DEF ListAt
  <2>6. f[q][nr] = f[q + 1 + (IF nr = nrs[j] THEN 0 ELSE 1)][nr]
    <3>1. 0 \in 0 .. JF_MAX /\ 1 \in 0 .. JF_MAX
      BY FilterAssumption
    <3>2. f[q][nr] = Exec(prog, arch, nr, f, q, nr)
      BY <1>t, <2>4
    <3> PICK k : k = nrs[j]
      OBVIOUS
    <3>3. prog[q] = JEQ(k, 0, 1)
      BY <2>5
    <3>4. Exec(prog, arch, nr, f, q, nr) = f[q + 1 + (IF nr = k THEN 0 ELSE 1)][nr]
      BY ONLY <3>1, <3>3, ExecJEQ
    <3> QED BY <3>2, <3>4
  <2>7. f[q + 1][nr] = "ALLOW"
    <3>1. f[q + 1][nr] = Exec(prog, arch, nr, f, q + 1, nr)
      BY <1>t, <2>4
    <3>2. prog[q + 1] = RET("ALLOW")
      BY <2>5
    <3>3. Exec(prog, arch, nr, f, q + 1, nr) = "ALLOW"
      BY ONLY <3>2, ExecRET
    <3> QED BY ONLY <3>1, <3>3
  <2>8. f[q + 2][nr] = IF \E i \in (j + 1) .. N : nrs[i] = nr THEN "ALLOW" ELSE "KILL"
    BY <2>2, <2>3 DEF Right
  <2>9. (\E i \in j .. N : nrs[i] = nr) <=> (nrs[j] = nr \/ \E i \in (j + 1) .. N : nrs[i] = nr)
    <3>1. \A i \in j .. N : i = j \/ i \in (j + 1) .. N
      OBVIOUS
    <3>2. j \in j .. N /\ \A i \in (j + 1) .. N : i \in j .. N
      OBVIOUS
    <3> QED BY <3>1, <3>2
  <2>10. f[q][nr] = IF \E i \in j .. N : nrs[i] = nr THEN "ALLOW" ELSE "KILL"
    <3>1. CASE nr = nrs[j]
      <4>1. q + 1 + 0 = q + 1
        OBVIOUS
      <4> QED BY <2>6, <2>7, <2>9, <3>1, <4>1
    <3>2. CASE nr # nrs[j]
      <4>1. q + 1 + 1 = q + 2
        OBVIOUS
      <4> QED BY <2>6, <2>8, <2>9, <3>2, <4>1
    <3> QED BY <3>1, <3>2
  <2> QED BY <1>4, <2>3, <2>10 DEF Right
<1> QED BY <1>5, <1>6

\* The tests of a list stay inside the program.
LEMMA ListClosed ==
  ASSUME NEW prog, Len(prog) \in Nat, NEW nrs, Len(nrs) \in Nat, NEW p \in Nat,
         ListAt(prog, p, nrs)
  PROVE  \A pc \in (p + 1) .. (p + 2 * Len(nrs) + 1) :
           /\ prog[pc].op \in {"jeq", "ret"}
           /\ prog[pc].op = "jeq" => /\ pc + 1 + prog[pc].jt \in (pc + 1) .. Len(prog)
                                     /\ pc + 1 + prog[pc].jf \in (pc + 1) .. Len(prog)
<1> PICK n \in Nat : n = Len(nrs)
  OBVIOUS
<1> PICK N \in Nat : N = Len(prog) /\ p + 2 * n + 1 <= N
  BY DEF ListAt
<1> SUFFICES ASSUME NEW pc \in (p + 1) .. (p + 2 * n + 1)
             PROVE  /\ prog[pc].op \in {"jeq", "ret"}
                    /\ prog[pc].op = "jeq" => /\ pc + 1 + prog[pc].jt \in (pc + 1) .. N
                                              /\ pc + 1 + prog[pc].jf \in (pc + 1) .. N
  OBVIOUS
<1>1. \/ pc = p + 2 * n + 1
      \/ \E i \in 1 .. n : pc = p + 2 * i - 1
      \/ \E i \in 1 .. n : pc = p + 2 * i
  <2> DEFINE i == (pc - p + 1) \div 2
  <2>1. pc - p + 1 = 2 * i \/ pc - p + 1 = 2 * i + 1
    OBVIOUS
  <2>2. i \in Nat
    OBVIOUS
  <2> HIDE DEF i
  <2>3. CASE pc - p + 1 = 2 * i
    <3>1. pc = p + 2 * i - 1 /\ (i \in 1 .. n \/ pc = p + 2 * n + 1)
      BY ONLY <2>2, <2>3, p \in Nat, n \in Nat, pc \in (p + 1) .. (p + 2 * n + 1)
    <3> QED BY ONLY <3>1
  <2>4. CASE pc - p + 1 = 2 * i + 1
    <3>1. pc = p + 2 * i /\ i \in 1 .. n
      BY ONLY <2>2, <2>4, p \in Nat, n \in Nat, pc \in (p + 1) .. (p + 2 * n + 1)
    <3> QED BY ONLY <3>1
  <2> QED BY ONLY <2>1, <2>3, <2>4
<1>2. CASE pc = p + 2 * n + 1
  <2>1. prog[pc].op = "ret"
    BY <1>2 DEF ListAt, RET
  <2> QED BY <2>1
<1>3. ASSUME NEW i \in 1 .. n, pc = p + 2 * i
      PROVE  prog[pc].op = "ret"
  BY <1>3 DEF ListAt, RET
<1>4. ASSUME NEW i \in 1 .. n, pc = p + 2 * i - 1
      PROVE  prog[pc].op = "jeq" /\ prog[pc].jt = 0 /\ prog[pc].jf = 1 /\ pc + 2 <= N
  <2>1. prog[pc] = JEQ(nrs[i], 0, 1)
    BY <1>4 DEF ListAt
  <2>2. 0 % (JF_MAX + 1) = 0 /\ 1 % (JF_MAX + 1) = 1
    BY Fits, FilterAssumption
  <2> QED BY <1>4, <2>1, <2>2 DEF JEQ
<1>5. CASE \E i \in 1 .. n : pc = p + 2 * i
  BY <1>3, <1>5
<1>6. CASE \E i \in 1 .. n : pc = p + 2 * i - 1
  BY <1>4, <1>6
<1> QED BY <1>1, <1>2, <1>5, <1>6

(***************************************************************************)
(* The builders' programs.                                                 *)
(***************************************************************************)
\* The names of the lists, and any other.
Calls ==
  {"exit", "exit_group", "rt_sigreturn", "rt_sigprocmask", "rt_sigaction", "brk", "mmap", "mmap2",
   "munmap", "mremap", "write", "writev", "read", "close", "fstat", "fstat64", "fstatat64",
   "newfstatat", "statx", "ioctl", "readlinkat", "set_tid_address", "set_robust_list", "futex",
   "futex_time64", "clock_gettime", "clock_gettime64", "getrandom", "prlimit64", "uname",
   "newuname", "execve", "riscv_flush_icache", "faccessat", "openat", "lseek", "mprotect", "rseq",
   "fcntl", "seccomp", "prctl", "unshare", "mount", "mkdirat", "pivot_root", "chdir", "umount2",
   "unlinkat", "socket", "madvise", "sysinfo", "nr258"}
Names == STRING \cup Calls

Insn == [op : {"ld", "jeq", "ret"},
         k : {"arch", "nr", "KILL", "ALLOW", RV64, RV32} \cup Names, jt : Nat, jf : Nat]

\* The builders emit instructions.
LEMMA Insns ==
  /\ LD("arch") \in Insn /\ LD("nr") \in Insn /\ RET("KILL") \in Insn /\ RET("ALLOW") \in Insn
  /\ \A k \in {RV64, RV32} \cup Names, a \in Nat, b \in Nat : JEQ(k, a, b) \in Insn
<1>1. \A a \in Nat : a % (JF_MAX + 1) \in Nat
  BY FilterAssumption
<1> QED BY <1>1 DEF Insn, LD, RET, JEQ

\* z is s, t and u one after the other.
Joined(z, s, t, u) ==
  /\ Len(z) = Len(s) + Len(t) + Len(u)
  /\ \A i \in 1 .. Len(s) : z[i] = s[i]
  /\ \A i \in 1 .. Len(t) : z[Len(s) + i] = t[i]
  /\ \A i \in 1 .. Len(u) : z[Len(s) + Len(t) + i] = u[i]

\* What concatenation does.
LEMMA Concat3 ==
  ASSUME NEW S, NEW s \in Seq(S), NEW t \in Seq(S), NEW u \in Seq(S)
  PROVE  (s \o t) \o u \in Seq(S) /\ Joined((s \o t) \o u, s, t, u)
<1> PICK v : v = s \o t
  OBVIOUS
<1>1. /\ v \in Seq(S) /\ Len(v) = Len(s) + Len(t)
      /\ \A i \in 1 .. Len(s) : v[i] = s[i]
      /\ \A i \in 1 .. Len(t) : v[Len(s) + i] = t[i]
  OBVIOUS
<1>2. /\ v \o u \in Seq(S) /\ Len(v \o u) = Len(v) + Len(u)
      /\ \A i \in 1 .. Len(v) : (v \o u)[i] = v[i]
      /\ \A i \in 1 .. Len(u) : (v \o u)[Len(v) + i] = u[i]
  BY <1>1
<1>3. Len(s) \in Nat /\ Len(t) \in Nat /\ Len(u) \in Nat
  OBVIOUS
<1> QED BY <1>1, <1>2, <1>3 DEF Joined

\* The block of a list: a test and an allow for each entry.
LEMMA AllowEachIs ==
  ASSUME NEW nrs \in Seq(Names)
  PROVE  /\ AllowEach(nrs) \in Seq(Insn) /\ Len(AllowEach(nrs)) = 2 * Len(nrs)
         /\ \A i \in 1 .. Len(nrs) : /\ AllowEach(nrs)[2 * i - 1] = JEQ(nrs[i], 0, 1)
                                     /\ AllowEach(nrs)[2 * i] = RET("ALLOW")
<1> PICK n \in Nat : n = Len(nrs)
  OBVIOUS
<1>1. AllowEach(nrs) = [i \in 1 .. (2 * n) |->
                          IF i % 2 = 1 THEN JEQ(nrs[(i + 1) \div 2], 0, 1) ELSE RET("ALLOW")]
  BY DEF AllowEach
<1>2. \A i \in 1 .. (2 * n) : i % 2 = 1 => (i + 1) \div 2 \in 1 .. n
  OBVIOUS
<1>3. \A i \in 1 .. (2 * n) : i % 2 = 1 => nrs[(i + 1) \div 2] \in Names
  BY <1>2
<1>4. \A i \in 1 .. (2 * n) : i % 2 = 1 => JEQ(nrs[(i + 1) \div 2], 0, 1) \in Insn
  BY <1>3, Insns
<1>5. \A i \in 1 .. (2 * n) : AllowEach(nrs)[i] \in Insn
  BY <1>1, <1>4, Insns
<1>6. AllowEach(nrs) \in Seq(Insn) /\ Len(AllowEach(nrs)) = 2 * n
  <2>1. AllowEach(nrs) \in [1 .. (2 * n) -> Insn]
    BY <1>1, <1>5
  <2>2. 2 * n \in Nat
    OBVIOUS
  <2> QED BY <2>1, <2>2
<1>7. ASSUME NEW i \in 1 .. n
      PROVE  /\ AllowEach(nrs)[2 * i - 1] = JEQ(nrs[i], 0, 1)
             /\ AllowEach(nrs)[2 * i] = RET("ALLOW")
  <2>1. /\ 2 * i - 1 \in 1 .. (2 * n) /\ (2 * i - 1) % 2 = 1 /\ ((2 * i - 1) + 1) \div 2 = i
        /\ 2 * i \in 1 .. (2 * n) /\ (2 * i) % 2 = 0
    OBVIOUS
  <2> QED BY <1>1, <2>1
<1> QED BY <1>6, <1>7

\* The filter of one architecture: unified and RISCV32-only.
OneArch(own, nrs) ==
  <<LD("arch"), JEQ(own, 1, 0), RET("KILL"), LD("nr")>> \o AllowEach(nrs) \o <<RET("KILL")>>

\* Its instructions, place by place.
LEMMA OneArchIs ==
  ASSUME NEW own \in {RV64, RV32}, NEW nrs \in Seq(Names)
  PROVE  /\ OneArch(own, nrs) \in Seq(Insn) /\ Len(OneArch(own, nrs)) = 5 + 2 * Len(nrs)
         /\ OneArch(own, nrs)[1] = LD("arch") /\ OneArch(own, nrs)[2] = JEQ(own, 1, 0)
         /\ OneArch(own, nrs)[3] = RET("KILL") /\ OneArch(own, nrs)[4] = LD("nr")
         /\ ListAt(OneArch(own, nrs), 4, nrs)
<1> PICK s : s = <<LD("arch"), JEQ(own, 1, 0), RET("KILL"), LD("nr")>>
  OBVIOUS
<1> PICK t : t = AllowEach(nrs)
  OBVIOUS
<1> PICK u : u = <<RET("KILL")>>
  OBVIOUS
<1> PICK n \in Nat : n = Len(nrs)
  OBVIOUS
<1> PICK v : v = OneArch(own, nrs)
  OBVIOUS
<1>1. /\ s \in Seq(Insn) /\ Len(s) = 4 /\ s[1] = LD("arch") /\ s[2] = JEQ(own, 1, 0)
      /\ s[3] = RET("KILL") /\ s[4] = LD("nr")
  <2>1. JEQ(own, 1, 0) \in Insn
    BY Insns
  <2> QED BY <2>1, Insns
<1>2. u \in Seq(Insn) /\ Len(u) = 1 /\ u[1] = RET("KILL")
  BY Insns
<1>3. /\ t \in Seq(Insn) /\ Len(t) = 2 * n
      /\ \A i \in 1 .. n : t[2 * i - 1] = JEQ(nrs[i], 0, 1) /\ t[2 * i] = RET("ALLOW")
  BY AllowEachIs
<1>4. /\ v \in Seq(Insn) /\ Len(v) = Len(s) + Len(t) + Len(u)
      /\ \A i \in 1 .. Len(s) : v[i] = s[i]
      /\ \A i \in 1 .. Len(t) : v[Len(s) + i] = t[i]
      /\ \A i \in 1 .. Len(u) : v[Len(s) + Len(t) + i] = u[i]
  <2>1. v = (s \o t) \o u
    BY DEF OneArch
  <2>2. s \in Seq(Insn) /\ t \in Seq(Insn) /\ u \in Seq(Insn)
    BY <1>1, <1>2, <1>3
  <2>3. (s \o t) \o u \in Seq(Insn) /\ Joined((s \o t) \o u, s, t, u)
    BY ONLY <2>2, Concat3
  <2> QED BY ONLY <2>1, <2>3, Zenon DEF Joined
<1>5. Len(v) = 5 + 2 * n
  BY <1>1, <1>2, <1>3, <1>4
<1>6. /\ v[1] = LD("arch") /\ v[2] = JEQ(own, 1, 0) /\ v[3] = RET("KILL") /\ v[4] = LD("nr")
  BY <1>1, <1>4
<1>7. v[4 + 2 * n + 1] = RET("KILL")
  BY <1>1, <1>2, <1>3, <1>4
<1>8. ASSUME NEW i \in 1 .. n
      PROVE  v[4 + 2 * i - 1] = JEQ(nrs[i], 0, 1) /\ v[4 + 2 * i] = RET("ALLOW")
  <2>1. /\ 2 * i - 1 \in 1 .. (2 * n) /\ 2 * i \in 1 .. (2 * n)
        /\ 4 + 2 * i - 1 = 4 + (2 * i - 1)
    OBVIOUS
  <2>2. v[4 + (2 * i - 1)] = t[2 * i - 1] /\ v[4 + 2 * i] = t[2 * i]
    BY <1>1, <1>3, <1>4, <2>1
  <2> QED BY <1>3, <2>1, <2>2
<1>9. ListAt(v, 4, nrs)
  BY <1>5, <1>7, <1>8 DEF ListAt
<1> QED BY <1>4, <1>5, <1>6, <1>9

\* It is closed, and lets through its list on its own architecture.
LEMMA OneArchMeaning ==
  ASSUME NEW own \in {RV64, RV32}, NEW nrs \in Seq(Names)
  PROVE  /\ KernelAccepts(OneArch(own, nrs))
         /\ \A arch, nr : Run(OneArch(own, nrs), arch, nr)
              = IF arch = own /\ \E i \in 1 .. Len(nrs) : nrs[i] = nr THEN "ALLOW" ELSE "KILL"
<1> PICK n \in Nat : n = Len(nrs)
  OBVIOUS
<1> PICK v : v = OneArch(own, nrs)
  OBVIOUS
<1>1. /\ v \in Seq(Insn) /\ Len(v) = 5 + 2 * n
      /\ v[1] = LD("arch") /\ v[2] = JEQ(own, 1, 0) /\ v[3] = RET("KILL") /\ v[4] = LD("nr")
      /\ ListAt(v, 4, nrs)
  BY OneArchIs
<1>2. 0 \in 0 .. JF_MAX /\ 1 \in 0 .. JF_MAX
  BY FilterAssumption
<1>3. /\ v[1].op = "ld" /\ v[3].op = "ret" /\ v[4].op = "ld"
      /\ v[2].op = "jeq" /\ v[2].jt = 1 /\ v[2].jf = 0
  BY <1>1, <1>2, Fits DEF LD, JEQ, RET
<1>4. Closed(v)
  <2>1. \A pc \in 1 .. Len(v) : pc = 1 \/ pc = 2 \/ pc = 3 \/ pc = 4 \/ pc \in 5 .. (5 + 2 * n)
    BY <1>1
  <2>2. ASSUME NEW pc \in 5 .. (5 + 2 * n)
        PROVE  /\ v[pc].op \in {"jeq", "ret"}
               /\ v[pc].op = "jeq" => /\ pc + 1 + v[pc].jt \in (pc + 1) .. Len(v)
                                      /\ pc + 1 + v[pc].jf \in (pc + 1) .. Len(v)
    <3>1. pc \in (4 + 1) .. (4 + 2 * n + 1) /\ Len(v) \in Nat
      BY <1>1
    <3> QED BY <1>1, <3>1, ListClosed
  <2>3. 5 + 2 * n \in Nat
    OBVIOUS
  <2> QED BY <1>1, <1>3, <2>1, <2>2, <2>3 DEF Closed
<1>5. KernelAccepts(v)
  <2>1. v # << >> /\ v[Len(v)].op = "ret"
    <3>1. v[5 + 2 * n] = RET("KILL")
      BY <1>1 DEF ListAt
    <3> QED BY <1>1, <3>1 DEF RET
  <2> QED BY <1>4, <2>1 DEF Closed, KernelAccepts
<1>6. ASSUME NEW arch, NEW nr
      PROVE  Run(v, arch, nr) = IF arch = own /\ \E i \in 1 .. n : nrs[i] = nr
                                THEN "ALLOW" ELSE "KILL"
  <2>1. PICK f : Run(v, arch, nr) = f[1]["none"] /\ Answers(f, v, arch, nr)
    BY <1>4, RunUnfolds
  <2>2. 1 \in 1 .. Len(v) /\ 2 \in 1 .. Len(v) /\ 3 \in 1 .. Len(v) /\ 4 \in 1 .. Len(v)
    BY <1>1
  <2>3. f[1]["none"] = f[1 + 1][arch]
    <3>1. f[1]["none"] = Exec(v, arch, nr, f, 1, "none")
      BY <2>1, <2>2 DEF Answers
    <3>2. Exec(v, arch, nr, f, 1, "none") = f[1 + 1][IF "arch" = "arch" THEN arch ELSE nr]
      <4>1. v[1] = LD("arch")
        BY ONLY <1>1
      <4> QED BY ONLY <4>1, ExecLD
    <3> QED BY <3>1, <3>2
  <2>4. f[2][arch] = f[2 + 1 + (IF arch = own THEN 1 ELSE 0)][arch]
    <3>1. f[2][arch] = Exec(v, arch, nr, f, 2, arch)
      BY <2>1, <2>2 DEF Answers
    <3>2. Exec(v, arch, nr, f, 2, arch) = f[2 + 1 + (IF arch = own THEN 1 ELSE 0)][arch]
      BY ONLY <1>1, <1>2, ExecJEQ
    <3> QED BY <3>1, <3>2
  <2>5. f[3][arch] = "KILL"
    <3>1. f[3][arch] = Exec(v, arch, nr, f, 3, arch)
      BY <2>1, <2>2 DEF Answers
    <3>2. Exec(v, arch, nr, f, 3, arch) = "KILL"
      BY ONLY <1>1, ExecRET
    <3> QED BY <3>1, <3>2
  <2>6. f[4][arch] = f[4 + 1][nr]
    <3>1. f[4][arch] = Exec(v, arch, nr, f, 4, arch)
      BY <2>1, <2>2 DEF Answers
    <3>2. Exec(v, arch, nr, f, 4, arch) = f[4 + 1][IF "nr" = "arch" THEN arch ELSE nr]
      BY ONLY <1>1, ExecLD
    <3> QED BY <3>1, <3>2
  <2>7. f[4 + 1][nr] = IF \E i \in 1 .. Len(nrs) : nrs[i] = nr THEN "ALLOW" ELSE "KILL"
    <3>1. Len(nrs) \in Nat /\ 4 \in Nat
      OBVIOUS
    <3> QED BY ONLY <1>1, <1>4, <2>1, <3>1, ListMeaning
  <2>8. CASE arch = own
    BY <2>1, <2>3, <2>4, <2>6, <2>7, <2>8
  <2>9. CASE arch # own
    BY <2>1, <2>3, <2>4, <2>5, <2>9
  <2> QED BY <2>8, <2>9
<1> QED BY <1>5, <1>6

\* The filter dispatched on the architecture.
DispatchShape(v, a, b, jf) ==
  /\ v \in Seq(Insn) /\ Len(v) = 8 + 2 * Len(a) + 2 * Len(b)
  /\ v[1] = LD("arch") /\ v[2] = JEQ(RV64, 0, jf) /\ v[3] = LD("nr")
  /\ ListAt(v, 3, a)
  /\ v[5 + 2 * Len(a)] = JEQ(RV32, 1, 0) /\ v[6 + 2 * Len(a)] = RET("KILL")
  /\ v[7 + 2 * Len(a)] = LD("nr")
  /\ ListAt(v, 7 + 2 * Len(a), b)

\* Its instructions, place by place.
LEMMA DispatchIs ==
  ASSUME NEW a \in Seq(Names), NEW b \in Seq(Names), NEW jf \in Nat
  PROVE  DispatchShape(DispatchProgram(a, b, jf), a, b, jf)
<1> PICK v : v = DispatchProgram(a, b, jf)
  OBVIOUS
<1> PICK s : s = <<LD("arch"), JEQ(RV64, 0, jf), LD("nr")>>
  OBVIOUS
<1> PICK t : t = AllowEach(a)
  OBVIOUS
<1> PICK u : u = <<RET("KILL"), JEQ(RV32, 1, 0), RET("KILL"), LD("nr")>>
  OBVIOUS
<1> PICK w : w = AllowEach(b)
  OBVIOUS
<1> PICK x : x = <<RET("KILL")>>
  OBVIOUS
<1> PICK y : y = (s \o t) \o u
  OBVIOUS
<1> PICK m \in Nat : m = Len(a)
  OBVIOUS
<1> PICK k \in Nat : k = Len(b)
  OBVIOUS
<1>1. /\ s \in Seq(Insn) /\ Len(s) = 3 /\ s[1] = LD("arch") /\ s[2] = JEQ(RV64, 0, jf)
      /\ s[3] = LD("nr")
  <2>1. JEQ(RV64, 0, jf) \in Insn
    BY Insns
  <2> QED BY <2>1, Insns
<1>2. /\ u \in Seq(Insn) /\ Len(u) = 4 /\ u[1] = RET("KILL") /\ u[2] = JEQ(RV32, 1, 0)
      /\ u[3] = RET("KILL") /\ u[4] = LD("nr")
  <2>1. JEQ(RV32, 1, 0) \in Insn
    BY Insns
  <2> QED BY <2>1, Insns
<1>3. x \in Seq(Insn) /\ Len(x) = 1 /\ x[1] = RET("KILL")
  BY Insns
<1>4. /\ t \in Seq(Insn) /\ Len(t) = 2 * m
      /\ \A i \in 1 .. m : t[2 * i - 1] = JEQ(a[i], 0, 1) /\ t[2 * i] = RET("ALLOW")
  BY AllowEachIs
<1>5. /\ w \in Seq(Insn) /\ Len(w) = 2 * k
      /\ \A i \in 1 .. k : w[2 * i - 1] = JEQ(b[i], 0, 1) /\ w[2 * i] = RET("ALLOW")
  BY AllowEachIs
<1>6. /\ y \in Seq(Insn) /\ Len(y) = Len(s) + Len(t) + Len(u)
      /\ \A i \in 1 .. Len(s) : y[i] = s[i]
      /\ \A i \in 1 .. Len(t) : y[Len(s) + i] = t[i]
      /\ \A i \in 1 .. Len(u) : y[Len(s) + Len(t) + i] = u[i]
  <2>1. s \in Seq(Insn) /\ t \in Seq(Insn) /\ u \in Seq(Insn)
    BY <1>1, <1>2, <1>4
  <2>2. (s \o t) \o u \in Seq(Insn) /\ Joined((s \o t) \o u, s, t, u)
    BY ONLY <2>1, Concat3
  <2> QED BY ONLY y = (s \o t) \o u, <2>2, Zenon DEF Joined
<1>7. /\ v \in Seq(Insn) /\ Len(v) = Len(y) + Len(w) + Len(x)
      /\ \A i \in 1 .. Len(y) : v[i] = y[i]
      /\ \A i \in 1 .. Len(w) : v[Len(y) + i] = w[i]
      /\ \A i \in 1 .. Len(x) : v[Len(y) + Len(w) + i] = x[i]
  <2>1. v = (y \o w) \o x
    BY DEF DispatchProgram
  <2>2. y \in Seq(Insn) /\ w \in Seq(Insn) /\ x \in Seq(Insn)
    BY <1>3, <1>5, <1>6
  <2>3. (y \o w) \o x \in Seq(Insn) /\ Joined((y \o w) \o x, y, w, x)
    BY ONLY <2>2, Concat3
  <2> QED BY ONLY <2>1, <2>3, Zenon DEF Joined
<1>8. Len(y) = 7 + 2 * m /\ Len(v) = 8 + 2 * m + 2 * k
  BY <1>1, <1>2, <1>3, <1>4, <1>5, <1>6, <1>7
<1>9. v[1] = LD("arch") /\ v[2] = JEQ(RV64, 0, jf) /\ v[3] = LD("nr")
  BY <1>1, <1>6, <1>7, <1>8, SMTT(20)
<1>10. /\ v[4 + 2 * m] = RET("KILL") /\ v[5 + 2 * m] = JEQ(RV32, 1, 0)
       /\ v[6 + 2 * m] = RET("KILL") /\ v[7 + 2 * m] = LD("nr")
  <2>1. /\ y[3 + 2 * m + 1] = u[1] /\ y[3 + 2 * m + 2] = u[2]
        /\ y[3 + 2 * m + 3] = u[3] /\ y[3 + 2 * m + 4] = u[4]
    <3>1. 1 \in 1 .. Len(u) /\ 2 \in 1 .. Len(u) /\ 3 \in 1 .. Len(u) /\ 4 \in 1 .. Len(u)
      BY <1>2
    <3>2. Len(s) + Len(t) = 3 + 2 * m
      BY <1>1, <1>4
    <3>3. \A i \in 1 .. Len(u) : y[3 + 2 * m + i] = u[i]
      BY ONLY <1>6, <3>2
    <3> QED BY ONLY <3>1, <3>3, Zenon
  <2>2. /\ 3 + 2 * m + 1 = 4 + 2 * m /\ 3 + 2 * m + 2 = 5 + 2 * m
        /\ 3 + 2 * m + 3 = 6 + 2 * m /\ 3 + 2 * m + 4 = 7 + 2 * m
    OBVIOUS
  <2>3. /\ 4 + 2 * m \in 1 .. Len(y) /\ 5 + 2 * m \in 1 .. Len(y)
        /\ 6 + 2 * m \in 1 .. Len(y) /\ 7 + 2 * m \in 1 .. Len(y)
    BY <1>8
  <2>4. /\ v[4 + 2 * m] = y[4 + 2 * m] /\ v[5 + 2 * m] = y[5 + 2 * m]
        /\ v[6 + 2 * m] = y[6 + 2 * m] /\ v[7 + 2 * m] = y[7 + 2 * m]
    BY ONLY <1>7, <2>3, Zenon
  <2>5. /\ y[4 + 2 * m] = u[1] /\ y[5 + 2 * m] = u[2]
        /\ y[6 + 2 * m] = u[3] /\ y[7 + 2 * m] = u[4]
    BY ONLY <2>1, <2>2, Zenon
  <2> QED BY ONLY <1>2, <2>4, <2>5, Zenon
<1>11. ListAt(v, 3, a)
  <2>1. ASSUME NEW i \in 1 .. m
        PROVE  v[3 + 2 * i - 1] = JEQ(a[i], 0, 1) /\ v[3 + 2 * i] = RET("ALLOW")
    <3>1. /\ 2 * i - 1 \in 1 .. (2 * m) /\ 2 * i \in 1 .. (2 * m)
          /\ 3 + 2 * i - 1 = 3 + (2 * i - 1)
          /\ 3 + (2 * i - 1) \in 1 .. (7 + 2 * m) /\ 3 + 2 * i \in 1 .. (7 + 2 * m)
      OBVIOUS
    <3>2. y[3 + (2 * i - 1)] = t[2 * i - 1] /\ y[3 + 2 * i] = t[2 * i]
      BY <1>1, <1>4, <1>6, <3>1
    <3>3. v[3 + (2 * i - 1)] = y[3 + (2 * i - 1)] /\ v[3 + 2 * i] = y[3 + 2 * i]
      BY <1>7, <1>8, <3>1
    <3> QED BY <1>4, <3>1, <3>2, <3>3
  <2>2. 3 + 2 * m + 1 = 4 + 2 * m /\ 3 + 2 * m + 1 <= Len(v)
    BY <1>8
  <2> QED BY <1>10, <2>1, <2>2 DEF ListAt
<1>12. ListAt(v, 7 + 2 * m, b)
  <2>1. ASSUME NEW i \in 1 .. k
        PROVE  v[7 + 2 * m + 2 * i - 1] = JEQ(b[i], 0, 1) /\ v[7 + 2 * m + 2 * i] = RET("ALLOW")
    <3>1. /\ 2 * i - 1 \in 1 .. (2 * k) /\ 2 * i \in 1 .. (2 * k)
          /\ 7 + 2 * m + 2 * i - 1 = 7 + 2 * m + (2 * i - 1)
      OBVIOUS
    <3>2. v[7 + 2 * m + (2 * i - 1)] = w[2 * i - 1] /\ v[7 + 2 * m + 2 * i] = w[2 * i]
      <4>1. Len(w) = 2 * k /\ Len(y) = 7 + 2 * m
        BY <1>5, <1>8
      <4>2. \A n \in 1 .. (2 * k) : v[7 + 2 * m + n] = w[n]
        BY ONLY <1>7, <4>1, Zenon
      <4> QED BY ONLY <3>1, <4>2, Zenon
    <3> QED BY <1>5, <3>1, <3>2
  <2>2. v[7 + 2 * m + 2 * k + 1] = RET("KILL") /\ 7 + 2 * m + 2 * k + 1 <= Len(v)
    <3>1. 1 \in 1 .. Len(x) /\ Len(y) + Len(w) = 7 + 2 * m + 2 * k
      <4>1. Len(x) = 1 /\ Len(w) = 2 * k /\ Len(y) = 7 + 2 * m
        BY <1>3, <1>5, <1>8
      <4> QED BY ONLY <4>1, m \in Nat, k \in Nat
    <3>2. \A i \in 1 .. Len(x) : v[7 + 2 * m + 2 * k + i] = x[i]
      BY ONLY <1>7, <3>1, Zenon
    <3>3. 7 + 2 * m + 2 * k + 1 <= Len(v)
      BY <1>8
    <3>4. v[7 + 2 * m + 2 * k + 1] = x[1]
      BY ONLY <3>1, <3>2, Zenon
    <3> QED BY <1>3, <3>3, <3>4
  <2> QED BY <2>1, <2>2 DEF ListAt
<1> QED BY <1>7, <1>8, <1>9, <1>10, <1>11, <1>12 DEF DispatchShape

\* An architecture with a list sees its own, and any other is killed.
LEMMA DispatchMeaning ==
  ASSUME NEW a \in Seq(Names), NEW b \in Seq(Names), 2 + 2 * Len(a) <= JF_MAX
  PROVE  /\ KernelAccepts(DispatchProgram(a, b, 2 + 2 * Len(a)))
         /\ Len(DispatchProgram(a, b, 2 + 2 * Len(a))) = 8 + 2 * Len(a) + 2 * Len(b)
         /\ \A arch, nr : Run(DispatchProgram(a, b, 2 + 2 * Len(a)), arch, nr)
              = IF \/ arch = RV64 /\ \E i \in 1 .. Len(a) : a[i] = nr
                   \/ arch = RV32 /\ \E i \in 1 .. Len(b) : b[i] = nr
                THEN "ALLOW" ELSE "KILL"
<1> PICK m \in Nat : m = Len(a)
  OBVIOUS
<1> PICK k \in Nat : k = Len(b)
  OBVIOUS
<1> PICK j \in Nat : j = 2 + 2 * m
  OBVIOUS
<1> PICK q \in Nat : q = 5 + 2 * m
  OBVIOUS
<1> PICK v : v = DispatchProgram(a, b, j)
  OBVIOUS
<1>1. /\ v \in Seq(Insn) /\ Len(v) = 8 + 2 * m + 2 * k
      /\ v[1] = LD("arch") /\ v[2] = JEQ(RV64, 0, j) /\ v[3] = LD("nr")
      /\ ListAt(v, 3, a)
      /\ v[5 + 2 * m] = JEQ(RV32, 1, 0) /\ v[6 + 2 * m] = RET("KILL")
      /\ v[7 + 2 * m] = LD("nr")
      /\ ListAt(v, 7 + 2 * m, b)
  <2>1. DispatchShape(v, a, b, j)
    BY DispatchIs
  <2> QED BY ONLY <2>1, m = Len(a), k = Len(b) DEF DispatchShape
<1>2. /\ 6 + 2 * m = q + 1 /\ 7 + 2 * m = q + 2 /\ j = q - 3 /\ q >= 5
      /\ 8 + 2 * m + 2 * k = q + 3 + 2 * k /\ q + 2 \in Nat
  OBVIOUS
<1>3. /\ v[q] = JEQ(RV32, 1, 0) /\ v[q + 1] = RET("KILL") /\ v[q + 2] = LD("nr")
      /\ ListAt(v, q + 2, b) /\ Len(v) = q + 3 + 2 * k
  BY <1>1, <1>2
<1>4. 0 \in 0 .. JF_MAX /\ 1 \in 0 .. JF_MAX /\ j \in 0 .. JF_MAX
  BY FilterAssumption
<1>5. /\ v[1].op = "ld" /\ v[3].op = "ld" /\ v[q + 1].op = "ret" /\ v[q + 2].op = "ld"
      /\ v[2].op = "jeq" /\ v[2].jt = 0 /\ v[2].jf = j
      /\ v[q].op = "jeq" /\ v[q].jt = 1 /\ v[q].jf = 0
  <2>1. v[2].op = "jeq" /\ v[2].jt = 0 /\ v[2].jf = j
    <3>1. 0 % (JF_MAX + 1) = 0 /\ j % (JF_MAX + 1) = j
      BY ONLY <1>4, Fits
    <3> QED BY ONLY <1>1, <3>1 DEF JEQ
  <2>2. v[q].op = "jeq" /\ v[q].jt = 1 /\ v[q].jf = 0
    <3>1. 1 % (JF_MAX + 1) = 1 /\ 0 % (JF_MAX + 1) = 0
      BY ONLY <1>4, Fits
    <3> QED BY ONLY <1>3, <3>1 DEF JEQ
  <2>3. v[1].op = "ld" /\ v[3].op = "ld"
    BY ONLY <1>1 DEF LD
  <2>4. v[q + 1].op = "ret"
    BY ONLY <1>3 DEF RET
  <2>5. v[q + 2].op = "ld"
    BY ONLY <1>3 DEF LD
  <2> QED BY ONLY <2>1, <2>2, <2>3, <2>4, <2>5
<1>6. Closed(v)
  <2>1. \A pc \in 1 .. Len(v) : \/ pc = 1 \/ pc = 2 \/ pc = 3 \/ pc \in (3 + 1) .. (3 + 2 * m + 1)
                               \/ pc = q \/ pc = q + 1 \/ pc = q + 2
                               \/ pc \in (q + 2 + 1) .. (q + 2 + 2 * k + 1)
    BY ONLY <1>3, m \in Nat, k \in Nat, q \in Nat, q = 5 + 2 * m
  <2> DEFINE Ok(pc) == /\ v[pc].op \in {"ld", "jeq", "ret"}
                       /\ v[pc].op = "ld" => pc + 1 \in 1 .. Len(v)
                       /\ v[pc].op = "jeq" => /\ pc + 1 + v[pc].jt \in (pc + 1) .. Len(v)
                                              /\ pc + 1 + v[pc].jf \in (pc + 1) .. Len(v)
  <2>2. ASSUME NEW pc \in (3 + 1) .. (3 + 2 * m + 1) PROVE Ok(pc)
    <3>1. Len(v) \in Nat /\ Len(a) \in Nat /\ 3 \in Nat
      BY <1>1
    <3>2. pc \in (3 + 1) .. (3 + 2 * Len(a) + 1)
      BY <2>2
    <3>3. /\ v[pc].op \in {"jeq", "ret"}
          /\ v[pc].op = "jeq" => /\ pc + 1 + v[pc].jt \in (pc + 1) .. Len(v)
                                 /\ pc + 1 + v[pc].jf \in (pc + 1) .. Len(v)
      BY ONLY <1>1, <3>1, <3>2, ListClosed
    <3> QED BY ONLY <3>3
  <2>3. ASSUME NEW pc \in (q + 2 + 1) .. (q + 2 + 2 * k + 1) PROVE Ok(pc)
    <3>1. Len(v) \in Nat /\ Len(b) \in Nat
      BY <1>1
    <3>2. pc \in (q + 2 + 1) .. (q + 2 + 2 * Len(b) + 1) /\ q + 2 \in Nat
      BY <2>3
    <3>3. /\ v[pc].op \in {"jeq", "ret"}
          /\ v[pc].op = "jeq" => /\ pc + 1 + v[pc].jt \in (pc + 1) .. Len(v)
                                 /\ pc + 1 + v[pc].jf \in (pc + 1) .. Len(v)
      BY ONLY <1>3, <3>1, <3>2, ListClosed
    <3> QED BY ONLY <3>3
  <2>4. /\ Len(v) = q + 3 + 2 * k /\ j = q - 3 /\ q >= 5 /\ q \in Nat /\ k \in Nat
    BY <1>2, <1>3
  <2>5. Ok(1) /\ Ok(3)
    BY ONLY <1>5, <2>4
  <2>6. Ok(2)
    <3>1. 2 + 1 + 0 \in (2 + 1) .. Len(v) /\ 2 + 1 + j \in (2 + 1) .. Len(v)
      BY ONLY <2>4
    <3> QED BY ONLY <1>5, <3>1
  <2>7. Ok(q + 1) /\ Ok(q + 2)
    BY ONLY <1>5, <2>4
  <2>8. Ok(q)
    <3>1. q + 1 + 1 \in (q + 1) .. Len(v) /\ q + 1 + 0 \in (q + 1) .. Len(v)
      BY ONLY <2>4
    <3> QED BY ONLY <1>5, <3>1
  <2>9. Len(v) \in Nat \ {0}
    BY <1>3
  <2> HIDE DEF Ok
  <2>10. \A pc \in 1 .. Len(v) : Ok(pc)
    BY <2>1, <2>2, <2>3, <2>5, <2>7, <2>6, <2>8
  <2> QED BY <2>9, <2>10 DEF Closed, Ok
<1>7. KernelAccepts(v)
  <2>1. v # << >> /\ v[Len(v)].op = "ret"
    <3>1. v[(q + 2) + 2 * k + 1] = RET("KILL") /\ (q + 2) + 2 * k + 1 = Len(v)
      BY <1>2, <1>3 DEF ListAt
    <3> QED BY <1>1, <3>1 DEF RET
  <2> QED BY <1>6, <2>1 DEF Closed, KernelAccepts
<1>8. ASSUME NEW arch, NEW nr
      PROVE  Run(v, arch, nr) = IF \/ arch = RV64 /\ \E i \in 1 .. m : a[i] = nr
                                   \/ arch = RV32 /\ \E i \in 1 .. k : b[i] = nr
                                THEN "ALLOW" ELSE "KILL"
  <2>1. PICK f : Run(v, arch, nr) = f[1]["none"] /\ Answers(f, v, arch, nr)
    BY <1>6, RunUnfolds
  <2>2. /\ 1 \in 1 .. Len(v) /\ 2 \in 1 .. Len(v) /\ 3 \in 1 .. Len(v)
        /\ q \in 1 .. Len(v) /\ q + 1 \in 1 .. Len(v) /\ q + 2 \in 1 .. Len(v)
    BY ONLY <1>2, <1>3, m \in Nat, k \in Nat, q \in Nat, q = 5 + 2 * m
  <2>3. f[1]["none"] = f[1 + 1][arch]
    <3>1. f[1]["none"] = Exec(v, arch, nr, f, 1, "none")
      BY <2>1, <2>2 DEF Answers
    <3>2. Exec(v, arch, nr, f, 1, "none") = f[1 + 1][IF "arch" = "arch" THEN arch ELSE nr]
      <4>1. v[1] = LD("arch")
        BY ONLY <1>1
      <4> QED BY ONLY <4>1, ExecLD
    <3> QED BY <3>1, <3>2
  <2>4. f[2][arch] = f[2 + 1 + (IF arch = RV64 THEN 0 ELSE j)][arch]
    <3>1. f[2][arch] = Exec(v, arch, nr, f, 2, arch)
      BY <2>1, <2>2 DEF Answers
    <3>2. Exec(v, arch, nr, f, 2, arch) = f[2 + 1 + (IF arch = RV64 THEN 0 ELSE j)][arch]
      <4>1. v[2] = JEQ(RV64, 0, j)
        BY <1>1
      <4> QED BY ONLY <1>4, <4>1, ExecJEQ
    <3> QED BY <3>1, <3>2
  <2>5. f[3][arch] = f[3 + 1][nr]
    <3>1. f[3][arch] = Exec(v, arch, nr, f, 3, arch)
      BY <2>1, <2>2 DEF Answers
    <3>2. Exec(v, arch, nr, f, 3, arch) = f[3 + 1][IF "nr" = "arch" THEN arch ELSE nr]
      <4>1. v[3] = LD("nr")
        BY ONLY <1>1
      <4> QED BY ONLY <4>1, ExecLD
    <3> QED BY <3>1, <3>2
  <2>6. f[q][arch] = f[q + 1 + (IF arch = RV32 THEN 1 ELSE 0)][arch]
    <3>1. f[q][arch] = Exec(v, arch, nr, f, q, arch)
      BY <2>1, <2>2 DEF Answers
    <3>2. Exec(v, arch, nr, f, q, arch) = f[q + 1 + (IF arch = RV32 THEN 1 ELSE 0)][arch]
      <4>1. v[q] = JEQ(RV32, 1, 0)
        BY ONLY <1>3
      <4> QED BY ONLY <1>4, <4>1, ExecJEQ
    <3> QED BY <3>1, <3>2
  <2>7. f[q + 1][arch] = "KILL"
    <3>1. f[q + 1][arch] = Exec(v, arch, nr, f, q + 1, arch)
      BY <2>1, <2>2 DEF Answers
    <3>2. Exec(v, arch, nr, f, q + 1, arch) = "KILL"
      <4>1. v[q + 1] = RET("KILL")
        BY ONLY <1>3
      <4> QED BY ONLY <4>1, ExecRET
    <3> QED BY <3>1, <3>2
  <2>8. f[q + 2][arch] = f[q + 2 + 1][nr]
    <3>1. f[q + 2][arch] = Exec(v, arch, nr, f, q + 2, arch)
      BY <2>1, <2>2 DEF Answers
    <3>2. Exec(v, arch, nr, f, q + 2, arch) = f[q + 2 + 1][IF "nr" = "arch" THEN arch ELSE nr]
      <4>1. v[q + 2] = LD("nr")
        BY ONLY <1>3
      <4> QED BY ONLY <4>1, ExecLD
    <3> QED BY <3>1, <3>2
  <2>9. f[3 + 1][nr] = IF \E i \in 1 .. Len(a) : a[i] = nr THEN "ALLOW" ELSE "KILL"
    <3>1. Len(a) \in Nat /\ 3 \in Nat
      OBVIOUS
    <3> QED BY ONLY <1>1, <1>6, <2>1, <3>1, ListMeaning
  <2>10. f[q + 2 + 1][nr] = IF \E i \in 1 .. Len(b) : b[i] = nr THEN "ALLOW" ELSE "KILL"
    <3>1. Len(b) \in Nat
      OBVIOUS
    <3> QED BY ONLY <1>2, <1>3, <1>6, <2>1, <3>1, ListMeaning
  <2>11. RV64 # RV32
    BY DEF RV64, RV32
  <2>12. CASE arch = RV64
    <3>1. f[1]["none"] = f[3 + 1][nr]
      BY <2>3, <2>4, <2>5, <2>12
    <3> QED BY <2>1, <2>9, <2>11, <2>12, <3>1
  <2>13. CASE arch # RV64
    <3>1. f[1]["none"] = f[q][arch]
      <4>1. 2 + 1 + j = q /\ 1 + 1 = 2
        BY <1>2
      <4> QED BY <2>3, <2>4, <2>13, <4>1
    <3>2. CASE arch = RV32
      <4>1. q + 1 + 1 = q + 2
        BY <1>2
      <4>2. f[1]["none"] = f[q + 2 + 1][nr]
        BY <2>6, <2>8, <3>1, <3>2, <4>1
      <4> QED BY <2>1, <2>10, <2>13, <3>2, <4>2
    <3>3. CASE arch # RV32
      <4>1. q + 1 + 0 = q + 1
        BY <1>2
      <4> QED BY <2>1, <2>6, <2>7, <2>13, <3>1, <3>3, <4>1
    <3> QED BY <3>2, <3>3
  <2> QED BY <2>12, <2>13
<1> QED BY <1>1, <1>7, <1>8

\* A builder may be given any names.
LEMMA Named ==
  ASSUME NEW l \in Seq(STRING)
  PROVE  l \in Seq(Names)
<1>1. \A i \in 1 .. Len(l) : l[i] \in Names
  BY DEF Names
<1> QED BY <1>1

\* The calls of a list.
LEMMA Members ==
  ASSUME NEW l \in Seq(Names), NEW nr
  PROVE  nr \in ToSet(l) <=> \E i \in 1 .. Len(l) : l[i] = nr
BY DEF ToSet

\* The empty list names no call.
LEMMA Empty ==
  ASSUME NEW nr
  PROVE  nr \notin ToSet(<< >>)
BY DEF ToSet

(***************************************************************************)
(* Whatever lists and buffers build_unified_filter,                        *)
(* build_arch_dispatch_filter and build_riscv32_only_filter are given, a   *)
(* program they return is one the kernel accepts, and it lets through      *)
(* exactly the calls of the list of the caller's architecture; where the   *)
(* 8-bit offset could not reach over the RV64 block the builder refuses.   *)
(***************************************************************************)
THEOREM FiltersMeanTheirLists == BuildSpec => []FilterMeaning
<1>1. built = NoBuild => FilterMeaning
  BY DEF FilterMeaning
<1>2. FilterMeaning /\ [Build]_built => FilterMeaning'
  <2> SUFFICES ASSUME FilterMeaning, [Build]_built PROVE FilterMeaning'
    OBVIOUS
  <2>1. ASSUME NEW nrs \in BuildLists, NEW bufsz \in BufSizes, BuildUnified(nrs, bufsz)
        PROVE  FilterMeaning'
    <3> PICK l \in Seq(Names) : l = nrs
      BY BuildAssumption, Named
    <3>1. /\ built'.which = "unified" /\ built'.rv64 = l /\ built'.rv32 = << >>
          /\ built'.bufsz = bufsz /\ built'.result = build_unified_filter(bufsz, l)
      BY <2>1 DEF BuildUnified
    <3>2. SUFFICES ASSUME built'.result.ok
                   PROVE  /\ Len(built'.result.prog) <= bufsz
                          /\ KernelAccepts(built'.result.prog)
                          /\ \A arch, nr : Run(built'.result.prog, arch, nr) = "ALLOW"
                               <=> arch = RV64 /\ nr \in ToSet(l)
      BY <3>1, Empty, BuildAssumption DEF FilterMeaning
    <3>3. built'.result.prog = OneArch(RV64, l) /\ ~(5 + 2 * Len(l) > bufsz)
      BY <3>1, <3>2 DEF build_unified_filter, Refused, Built, OneArch
    <3>4. Len(OneArch(RV64, l)) = 5 + 2 * Len(l)
      BY OneArchIs
    <3>5. bufsz \in Nat /\ Len(l) \in Nat
      BY BuildAssumption
    <3> QED BY <3>3, <3>4, <3>5, OneArchMeaning, Members
  <2>2. ASSUME NEW a \in BuildLists, NEW b \in BuildLists, NEW bufsz \in BufSizes,
               BuildDispatch(a, b, bufsz)
        PROVE  FilterMeaning'
    <3> PICK l \in Seq(Names) : l = a
      BY BuildAssumption, Named
    <3> PICK r \in Seq(Names) : r = b
      BY BuildAssumption, Named
    <3>1. /\ built'.which = "dispatch" /\ built'.rv64 = l /\ built'.rv32 = r
          /\ built'.bufsz = bufsz /\ built'.result = build_arch_dispatch_filter(bufsz, l, r)
      BY <2>2 DEF BuildDispatch
    <3>2. SUFFICES ASSUME built'.result.ok
                   PROVE  /\ Len(built'.result.prog) <= bufsz
                          /\ KernelAccepts(built'.result.prog)
                          /\ \A arch, nr : Run(built'.result.prog, arch, nr) = "ALLOW"
                               <=> \/ arch = RV64 /\ nr \in ToSet(l)
                                   \/ arch = RV32 /\ nr \in ToSet(r)
      BY <3>1, BuildAssumption DEF FilterMeaning
    <3>3. /\ built'.result.prog = DispatchProgram(l, r, 2 + 2 * Len(l))
          /\ ~(8 + 2 * (Len(l) + Len(r)) > bufsz) /\ ~(2 + 2 * Len(l) > JF_MAX)
      BY <3>1, <3>2 DEF build_arch_dispatch_filter, Refused, Built
    <3>4. 2 + 2 * Len(l) <= JF_MAX /\ 8 + 2 * Len(l) + 2 * Len(r) <= bufsz
      BY <3>3, BuildAssumption, FilterAssumption
    <3>5. /\ KernelAccepts(DispatchProgram(l, r, 2 + 2 * Len(l)))
          /\ Len(DispatchProgram(l, r, 2 + 2 * Len(l))) = 8 + 2 * Len(l) + 2 * Len(r)
          /\ \A arch, nr : Run(DispatchProgram(l, r, 2 + 2 * Len(l)), arch, nr)
               = IF \/ arch = RV64 /\ \E i \in 1 .. Len(l) : l[i] = nr
                    \/ arch = RV32 /\ \E i \in 1 .. Len(r) : r[i] = nr
                 THEN "ALLOW" ELSE "KILL"
      BY ONLY <3>4, l \in Seq(Names), r \in Seq(Names), DispatchMeaning
    <3> QED BY <3>3, <3>4, <3>5, Members
  <2>3. ASSUME NEW nrs \in BuildLists, NEW bufsz \in BufSizes, BuildOnly32(nrs, bufsz)
        PROVE  FilterMeaning'
    <3> PICK l \in Seq(Names) : l = nrs
      BY BuildAssumption, Named
    <3>1. /\ built'.which = "only32" /\ built'.rv64 = << >> /\ built'.rv32 = l
          /\ built'.bufsz = bufsz /\ built'.result = build_riscv32_only_filter(bufsz, l)
      BY <2>3 DEF BuildOnly32
    <3>2. SUFFICES ASSUME built'.result.ok
                   PROVE  /\ Len(built'.result.prog) <= bufsz + 1
                          /\ KernelAccepts(built'.result.prog)
                          /\ \A arch, nr : Run(built'.result.prog, arch, nr) = "ALLOW"
                               <=> arch = RV32 /\ nr \in ToSet(l)
      BY <3>1, Empty DEF FilterMeaning
    <3>3. built'.result.prog = OneArch(RV32, l) /\ ~(4 + 2 * Len(l) > bufsz)
      BY <3>1, <3>2 DEF build_riscv32_only_filter, Refused, Built, OneArch
    <3>4. Len(OneArch(RV32, l)) = 5 + 2 * Len(l)
      BY OneArchIs
    <3>5. bufsz \in Nat /\ Len(l) \in Nat
      BY BuildAssumption
    <3> QED BY <3>3, <3>4, <3>5, OneArchMeaning, Members
  <2>4. CASE UNCHANGED built
    BY <2>4 DEF FilterMeaning
  <2> QED BY <2>1, <2>2, <2>3, <2>4 DEF Build
<1> QED BY <1>1, <1>2, PTL DEF BuildSpec

------------------------------------------------------------------------------
(* Launcher *)

Codes == {0, 1, 2, 126, 127}
Effs == {"none", "bind", "root", "detach", "nnp", "ns", "private", "cgroup", "exec", "exit",
         "probe", "inline"} \cup Filters
Steps == [sys : SUBSET Calls, eff : Effs, onfail : Codes]

Elems(s) == {s[i] : i \in 1 .. Len(s)}

\* Among the steps to come is one with the effect e that ends the child when
\* it fails.
Holds(s, e) == \E i \in 1 .. Len(s) : s[i].eff = e /\ s[i].onfail # 0
Lacks(s, e) == \A i \in 1 .. Len(s) : s[i].eff # e

\* execve is the last step.
ExecLast(s) == \A i \in 1 .. Len(s) : s[i].eff = "exec" => i = Len(s)

\* The old root is detached after the new one is entered.
RootThenDetach(s) ==
  \A i \in 1 .. Len(s) : s[i].eff = "root" =>
    \E j \in 1 .. Len(s) : i < j /\ s[j].eff = "detach" /\ s[j].onfail # 0

\* A step whose calls every launcher's filter allows, and no filter itself.
Quiet(st) == st.sys \subseteq {"write", "execve", "exit_group"} /\ st.eff \notin Filters

AllQuiet(s) == \A x \in Elems(s) : Quiet(x)
Unfiltered(s) == \A x \in Elems(s) : x.eff \notin Filters

\* The one filter installed is f, and only quiet steps follow it.
Guarded(s, f) ==
  \A i \in 1 .. Len(s) : s[i].eff \in Filters =>
    s[i].eff = f /\ \A j \in 1 .. Len(s) : i < j => Quiet(s[j])

\* The second filter stands before the probe.
Narrowed(s) ==
  \A i \in 1 .. Len(s) : s[i].eff = "probe" =>
    \E j \in 1 .. Len(s) : j < i /\ s[j].eff = "phase2" /\ s[j].onfail # 0

\* The filters some launcher or test installs.
LEMMA FiltersAre == DOMAIN Program = Filters
  BY DEF Program, Filters

\* The places of a concatenation.
LEMMA Joined2 ==
  ASSUME NEW S, NEW s \in Seq(S), NEW t \in Seq(S)
  PROVE  /\ s \o t \in Seq(S) /\ Len(s) \in Nat /\ Len(t) \in Nat
         /\ Len(s \o t) = Len(s) + Len(t)
         /\ \A i \in 1 .. Len(s) : (s \o t)[i] = s[i]
         /\ \A i \in 1 .. Len(t) : (s \o t)[Len(s) + i] = t[i]
  OBVIOUS

\* Every place of s \o t is one of s or one of t.
LEMMA Places ==
  ASSUME NEW m \in Nat, NEW n \in Nat, NEW i \in 1 .. (m + n)
  PROVE  i \in 1 .. m \/ \E j \in 1 .. n : i = m + j
<1>1. CASE i <= m
  BY <1>1
<1>2. CASE ~(i <= m)
  <2>1. i - m \in 1 .. n /\ i = m + (i - m)
    BY <1>2
  <2> QED BY <2>1
<1> QED BY <1>1, <1>2

\* The elements of a concatenation.
LEMMA ElemsJoin ==
  ASSUME NEW S, NEW s \in Seq(S), NEW t \in Seq(S)
  PROVE  s \o t \in Seq(S) /\ Elems(s \o t) = Elems(s) \cup Elems(t)
<1> PICK m \in Nat : m = Len(s)
  OBVIOUS
<1> PICK n \in Nat : n = Len(t)
  OBVIOUS
<1> PICK u : u = s \o t
  OBVIOUS
<1>1. /\ u \in Seq(S) /\ Len(u) = m + n
      /\ \A i \in 1 .. m : u[i] = s[i]
      /\ \A i \in 1 .. n : u[m + i] = t[i]
  BY Joined2
<1>2. \A i \in 1 .. (m + n) : i \in 1 .. m \/ \E j \in 1 .. n : i = m + j
  BY Places
<1>3. /\ \A i \in 1 .. m : i \in 1 .. (m + n)
      /\ \A j \in 1 .. n : m + j \in 1 .. (m + n)
  OBVIOUS
<1>4. \A x \in Elems(u) : x \in Elems(s) \cup Elems(t)
  BY <1>1, <1>2 DEF Elems
<1>5. \A x \in Elems(s) \cup Elems(t) : x \in Elems(u)
  <2>1. ASSUME NEW i \in 1 .. m PROVE s[i] \in Elems(u)
    BY <1>1, <1>3 DEF Elems
  <2>2. ASSUME NEW j \in 1 .. n PROVE t[j] \in Elems(u)
    <3>1. m + j \in 1 .. Len(u) /\ u[m + j] = t[j]
      BY <1>1, <1>3
    <3> QED BY <3>1 DEF Elems
  <2> QED BY <2>1, <2>2 DEF Elems
<1> QED BY <1>1, <1>4, <1>5

\* The elements of an optional part.
LEMMA ElemsWhen ==
  ASSUME NEW S, NEW s \in Seq(S), NEW c \in BOOLEAN
  PROVE  When(c, s) \in Seq(S) /\ Elems(When(c, s)) = IF c THEN Elems(s) ELSE {}
<1>1. << >> \in Seq(S) /\ Len(<< >>) = 0
  OBVIOUS
<1>2. Elems(<< >>) = {}
  BY <1>1 DEF Elems
<1> QED BY <1>1, <1>2 DEF When

\* The elements of a list given by its places, one to six of them.
LEMMA Elems1 ==
  ASSUME NEW S, NEW a \in S
  PROVE  <<a>> \in Seq(S) /\ Elems(<<a>>) = {a}
  BY DEF Elems

LEMMA Elems2 ==
  ASSUME NEW S, NEW a \in S, NEW b \in S
  PROVE  <<a, b>> \in Seq(S) /\ Elems(<<a, b>>) = {a, b}
<1>1. Len(<<a, b>>) = 2 /\ 1 .. 2 = {1, 2}
  OBVIOUS
<1> QED BY <1>1 DEF Elems

LEMMA Elems3 ==
  ASSUME NEW S, NEW a \in S, NEW b \in S, NEW c \in S
  PROVE  <<a, b, c>> \in Seq(S) /\ Elems(<<a, b, c>>) = {a, b, c}
<1>1. Len(<<a, b, c>>) = 3 /\ 1 .. 3 = {1, 2, 3}
  OBVIOUS
<1> QED BY <1>1 DEF Elems

LEMMA Elems4 ==
  ASSUME NEW S, NEW a \in S, NEW b \in S, NEW c \in S, NEW d \in S
  PROVE  <<a, b, c, d>> \in Seq(S) /\ Elems(<<a, b, c, d>>) = {a, b, c, d}
<1>1. Len(<<a, b, c, d>>) = 4 /\ 1 .. 4 = {1, 2, 3, 4}
  OBVIOUS
<1> QED BY <1>1 DEF Elems

LEMMA Elems6 ==
  ASSUME NEW S, NEW a \in S, NEW b \in S, NEW c \in S, NEW d \in S, NEW e \in S, NEW f \in S
  PROVE  <<a, b, c, d, e, f>> \in Seq(S) /\ Elems(<<a, b, c, d, e, f>>) = {a, b, c, d, e, f}
<1>1. Len(<<a, b, c, d, e, f>>) = 6 /\ 1 .. 6 = {1, 2, 3, 4, 5, 6}
  OBVIOUS
<1> QED BY <1>1 DEF Elems

\* What is said of every step can be said of the set of the steps.
LEMMA ElemsSay ==
  ASSUME NEW s \in Seq(Steps), NEW e
  PROVE  /\ Holds(s, e) <=> \E x \in Elems(s) : x.eff = e /\ x.onfail # 0
         /\ Lacks(s, e) <=> \A x \in Elems(s) : x.eff # e
  BY DEF Holds, Lacks, Elems

\* A list has no step with an effect that none of its elements has.
LEMMA LacksSay ==
  ASSUME NEW s \in Seq(Steps), NEW e, \A x \in Elems(s) : x.eff # e
  PROVE  Lacks(s, e)
  BY ElemsSay

\* A list holds a step that is one of its elements.
LEMMA HoldsSay ==
  ASSUME NEW s \in Seq(Steps), NEW x \in Elems(s), x.onfail # 0
  PROVE  Holds(s, x.eff)
  BY ElemsSay

\* The order of the steps, put together from parts.
LEMMA OrderJoin ==
  ASSUME NEW s \in Seq(Steps), NEW t \in Seq(Steps)
  PROVE  /\ Lacks(s, "exec") /\ ExecLast(t) => ExecLast(s \o t)
         /\ RootThenDetach(s) /\ RootThenDetach(t) => RootThenDetach(s \o t)
         /\ \A f : /\ Unfiltered(s) /\ Guarded(t, f) => Guarded(s \o t, f)
                   /\ Guarded(s, f) /\ AllQuiet(t) => Guarded(s \o t, f)
         /\ Lacks(s, "probe") /\ Holds(s, "phase2") => Narrowed(s \o t)
<1> PICK m \in Nat : m = Len(s)
  OBVIOUS
<1> PICK n \in Nat : n = Len(t)
  OBVIOUS
<1> PICK u : u = s \o t
  OBVIOUS
<1>1. /\ u \in Seq(Steps) /\ Len(u) = m + n
      /\ \A i \in 1 .. m : u[i] = s[i]
      /\ \A i \in 1 .. n : u[m + i] = t[i]
  BY Joined2
<1>2. \A i \in 1 .. (m + n) : i \in 1 .. m \/ \E j \in 1 .. n : i = m + j
  BY Places
<1>3. /\ \A i \in 1 .. m : i \in 1 .. (m + n)
      /\ \A j \in 1 .. n : m + j \in 1 .. (m + n)
      /\ \A i \in 1 .. m, j \in 1 .. n : i < m + j /\ ~(m + j < i)
      /\ \A i, j \in 1 .. n : m + i < m + j <=> i < j
  OBVIOUS
<1>4. ASSUME Lacks(s, "exec"), ExecLast(t) PROVE ExecLast(u)
  <2> SUFFICES ASSUME NEW i \in 1 .. (m + n), u[i].eff = "exec" PROVE i = m + n
    BY <1>1 DEF ExecLast
  <2>1. i \notin 1 .. m
    BY <1>1, <1>4 DEF Lacks
  <2>2. PICK j \in 1 .. n : i = m + j
    BY ONLY <1>2, <2>1
  <2>3. t[j].eff = "exec"
    BY ONLY <1>1, <2>2, u[i].eff = "exec"
  <2>4. j = n
    BY <1>4, <2>3 DEF ExecLast
  <2> QED BY ONLY <2>2, <2>4
<1>9. (\A i \in 1 .. (m + n) : u[i].eff = "root" =>
         \E j \in 1 .. (m + n) : i < j /\ u[j].eff = "detach" /\ u[j].onfail # 0)
      => RootThenDetach(u)
  <2>1. Len(u) = m + n
    BY <1>1
  <2> QED BY ONLY <2>1 DEF RootThenDetach
<1>5. ASSUME RootThenDetach(s), RootThenDetach(t) PROVE RootThenDetach(u)
  <2> SUFFICES ASSUME NEW i \in 1 .. (m + n), u[i].eff = "root"
               PROVE  \E j \in 1 .. (m + n) : i < j /\ u[j].eff = "detach" /\ u[j].onfail # 0
    BY <1>9
  <2>1. CASE i \in 1 .. m
    <3>1. PICK j \in 1 .. m : i < j /\ s[j].eff = "detach" /\ s[j].onfail # 0
      BY <1>1, <1>5, <2>1 DEF RootThenDetach
    <3> QED BY <1>1, <1>3, <3>1
  <2>2. ASSUME NEW k \in 1 .. n, i = m + k
        PROVE  \E j \in 1 .. (m + n) : i < j /\ u[j].eff = "detach" /\ u[j].onfail # 0
    <3>1. PICK j \in 1 .. n : k < j /\ t[j].eff = "detach" /\ t[j].onfail # 0
      BY <1>1, <1>5, <2>2 DEF RootThenDetach
    <3>2. m + j \in 1 .. (m + n) /\ i < m + j
      BY <1>3, <2>2, <3>1
    <3> QED BY <1>1, <3>1, <3>2
  <2> QED BY <1>2, <2>1, <2>2
<1>6. ASSUME NEW f, Unfiltered(s), Guarded(t, f) PROVE Guarded(u, f)
  <2> SUFFICES ASSUME NEW i \in 1 .. (m + n), u[i].eff \in Filters
               PROVE  u[i].eff = f /\ \A j \in 1 .. (m + n) : i < j => Quiet(u[j])
    BY <1>1 DEF Guarded
  <2>1. PICK k \in 1 .. n : i = m + k
    BY <1>1, <1>2, <1>6 DEF Elems, Unfiltered
  <2>2. t[k].eff = f /\ \A j \in 1 .. n : k < j => Quiet(t[j])
    BY <1>1, <1>6, <2>1 DEF Guarded
  <2>3. ASSUME NEW j \in 1 .. (m + n), i < j PROVE Quiet(u[j])
    <3>1. PICK l \in 1 .. n : j = m + l /\ k < l
      <4>1. j \notin 1 .. m
        BY <2>1, <2>3
      <4>2. PICK l \in 1 .. n : j = m + l
        BY <1>2, <4>1
      <4> QED BY <2>1, <2>3, <4>2
    <3> QED BY <1>1, <2>2, <3>1
  <2> QED BY <1>1, <2>1, <2>2, <2>3
<1>7. ASSUME NEW f, Guarded(s, f), AllQuiet(t) PROVE Guarded(u, f)
  <2>0. \A j \in 1 .. n : Quiet(t[j])
    BY <1>7 DEF Elems, AllQuiet
  <2> SUFFICES ASSUME NEW i \in 1 .. (m + n), u[i].eff \in Filters
               PROVE  u[i].eff = f /\ \A j \in 1 .. (m + n) : i < j => Quiet(u[j])
    BY <1>1 DEF Guarded
  <2>1. i \in 1 .. m
    <3>1. ASSUME NEW k \in 1 .. n, i = m + k PROVE FALSE
      <4>1. u[i] = t[k]
        BY ONLY <1>1, <3>1
      <4> QED BY <2>0, <4>1 DEF Quiet
    <3> QED BY ONLY <1>2, <3>1, i \in 1 .. (m + n)
  <2>2. s[i].eff = f /\ \A j \in 1 .. m : i < j => Quiet(s[j])
    BY <1>1, <1>7, <2>1 DEF Guarded
  <2>3. ASSUME NEW j \in 1 .. (m + n), i < j PROVE Quiet(u[j])
    <3>1. CASE j \in 1 .. m
      BY <1>1, <2>2, <2>3, <3>1
    <3>2. ASSUME NEW l \in 1 .. n, j = m + l PROVE Quiet(u[j])
      BY <1>1, <2>0, <3>2
    <3> QED BY <1>2, <3>1, <3>2
  <2> QED BY <1>1, <2>1, <2>2, <2>3
<1>8. ASSUME Lacks(s, "probe"), Holds(s, "phase2") PROVE Narrowed(u)
  <2>1. PICK j \in 1 .. m : s[j].eff = "phase2" /\ s[j].onfail # 0
    BY <1>8 DEF Holds
  <2> SUFFICES ASSUME NEW i \in 1 .. (m + n), u[i].eff = "probe"
               PROVE  j < i /\ j \in 1 .. (m + n) /\ u[j] = s[j]
    BY <1>1, <2>1 DEF Narrowed
  <2>2. PICK k \in 1 .. n : i = m + k
    BY <1>1, <1>2, <1>8 DEF Lacks
  <2> QED BY <1>1, <1>3, <2>1, <2>2
<1> QED BY <1>4, <1>5, <1>6, <1>7, <1>8

Options == [cgroup : BOOLEAN, rootfs : BOOLEAN, seccomp : BOOLEAN, netns : BOOLEAN,
            mountns : BOOLEAN]

\* The steps before the filter.
PivotSteps == {Must("mount", "bind"), Must("mkdirat", "none"), Must("pivot_root", "root"),
               Must("chdir", "none"), Must("umount2", "detach"), Step({"unlinkat"}, "none", 0)}
CgroupSteps == {Must("openat", "none"), Must("write", "cgroup"), Step({"close"}, "none", 0)}
Isolating(o) ==
  {Must("prctl", "nnp")}
  \cup (IF o.mountns \/ o.netns THEN {Must("unshare", "ns")} ELSE {})
  \cup (IF o.mountns THEN {Must("mount", "private")} ELSE {})
  \cup (IF o.rootfs THEN PivotSteps ELSE {})
  \cup (IF o.cgroup THEN CgroupSteps ELSE {})

\* Every step of the launchers, typed.
LEMMA LauncherSteps ==
  /\ PivotSteps \subseteq Steps /\ CgroupSteps \subseteq Steps
  /\ Must("prctl", "nnp") \in Steps /\ Must("unshare", "ns") \in Steps
  /\ Must("mount", "private") \in Steps /\ Must("execve", "exec") \in Steps /\ Note \in Steps
  /\ \A e \in Filters : Install(e, 127) \in Steps
<1>1. PivotSteps \subseteq Steps
  <2>1. Must("mount", "bind") \in Steps /\ Must("mkdirat", "none") \in Steps
    BY DEF Must, Step, Steps, Calls, Effs, Codes
  <2>2. Must("pivot_root", "root") \in Steps /\ Must("chdir", "none") \in Steps
    BY DEF Must, Step, Steps, Calls, Effs, Codes
  <2>3. Must("umount2", "detach") \in Steps /\ Step({"unlinkat"}, "none", 0) \in Steps
    BY DEF Must, Step, Steps, Calls, Effs, Codes
  <2> QED BY <2>1, <2>2, <2>3 DEF PivotSteps
<1>2. CgroupSteps \subseteq Steps
  <2>1. Must("openat", "none") \in Steps /\ Must("write", "cgroup") \in Steps
    BY DEF Must, Step, Steps, Calls, Effs, Codes
  <2>2. Step({"close"}, "none", 0) \in Steps
    BY DEF Step, Steps, Calls, Effs, Codes
  <2> QED BY <2>1, <2>2 DEF CgroupSteps
<1>3. Must("prctl", "nnp") \in Steps /\ Must("unshare", "ns") \in Steps
  BY DEF Must, Step, Steps, Calls, Effs, Codes
<1>4. Must("mount", "private") \in Steps /\ Must("execve", "exec") \in Steps /\ Note \in Steps
  BY DEF Must, Note, Step, Steps, Calls, Effs, Codes
<1>5. \A e \in Filters : Install(e, 127) \in Steps
  BY DEF Install, Step, Steps, Calls, Effs, Codes
<1> QED BY <1>1, <1>2, <1>3, <1>4, <1>5

\* do_pivot_root enters the new root, and then detaches the old one.
LEMMA PivotIs ==
  /\ do_pivot_root \in Seq(Steps) /\ Elems(do_pivot_root) = PivotSteps
  /\ RootThenDetach(do_pivot_root)
<1> PICK a : a = Must("mount", "bind")
  OBVIOUS
<1> PICK b : b = Must("mkdirat", "none")
  OBVIOUS
<1> PICK c : c = Must("pivot_root", "root")
  OBVIOUS
<1> PICK d : d = Must("chdir", "none")
  OBVIOUS
<1> PICK e : e = Must("umount2", "detach")
  OBVIOUS
<1> PICK f : f = Step({"unlinkat"}, "none", 0)
  OBVIOUS
<1>1. PivotSteps = {a, b, c, d, e, f} /\ do_pivot_root = <<a, b, c, d, e, f>>
  BY DEF PivotSteps, do_pivot_root
<1>2. do_pivot_root \in Seq(Steps) /\ Elems(do_pivot_root) = PivotSteps
  <2>1. a \in Steps /\ b \in Steps /\ c \in Steps /\ d \in Steps /\ e \in Steps /\ f \in Steps
    BY <1>1, LauncherSteps
  <2> QED BY ONLY <1>1, <2>1, Elems6
<1>3. RootThenDetach(do_pivot_root)
  <2>1. /\ a.eff = "bind" /\ b.eff = "none" /\ d.eff = "none" /\ f.eff = "none"
        /\ e.eff = "detach" /\ e.onfail = 127
    BY DEF Must, Step
  <2>2. \A i \in 1 .. 6 : <<a, b, c, d, e, f>>[i].eff = "root" => i < 5
    BY ONLY <2>1
  <2>3. /\ 5 \in 1 .. 6 /\ <<a, b, c, d, e, f>>[5] = e /\ Len(<<a, b, c, d, e, f>>) = 6
        /\ e.onfail # 0
    BY ONLY <2>1
  <2> QED BY ONLY <1>1, <2>1, <2>2, <2>3 DEF RootThenDetach
<1> QED BY <1>2, <1>3

\* Without the effect there is nothing to order.
LEMMA NoRoot ==
  ASSUME NEW s \in Seq(Steps), Lacks(s, "root") PROVE RootThenDetach(s)
  BY DEF Lacks, RootThenDetach

\* An optional part keeps that order.
LEMMA WhenRooted ==
  ASSUME NEW s, RootThenDetach(s), NEW c \in BOOLEAN PROVE RootThenDetach(When(c, s))
<1>1. Len(<< >>) = 0
  OBVIOUS
<1> QED BY <1>1 DEF When, RootThenDetach

\* Steps that do one thing, or nothing where it is not asked for.
LEMMA When1 ==
  ASSUME NEW x \in Steps, NEW c \in BOOLEAN
  PROVE  /\ When(c, <<x>>) \in Seq(Steps)
         /\ Elems(When(c, <<x>>)) = IF c THEN {x} ELSE {}
<1>1. <<x>> \in Seq(Steps) /\ Elems(<<x>>) = {x}
  BY Elems1
<1> QED BY <1>1, ElemsWhen

\* What the launchers of spikes H and R do before the filter.
LEMMA NamespacesAre ==
  ASSUME NEW o \in Options
  PROVE  /\ Namespaces(o) \in Seq(Steps) /\ Elems(Namespaces(o)) = Isolating(o)
         /\ RootThenDetach(Namespaces(o))
<1> PICK a : a = <<Must("prctl", "nnp")>>
  OBVIOUS
<1> PICK b : b = When(o.mountns \/ o.netns, <<Must("unshare", "ns")>>)
  OBVIOUS
<1> PICK c : c = When(o.mountns, <<Must("mount", "private")>>)
  OBVIOUS
<1> PICK d : d = When(o.rootfs, do_pivot_root)
  OBVIOUS
<1> PICK e : e = When(o.cgroup, join_cgroup)
  OBVIOUS
<1>0. /\ o.mountns \in BOOLEAN /\ o.netns \in BOOLEAN /\ o.rootfs \in BOOLEAN
      /\ o.cgroup \in BOOLEAN /\ (o.mountns \/ o.netns) \in BOOLEAN
  BY DEF Options
<1>2. a \in Seq(Steps) /\ Elems(a) = {Must("prctl", "nnp")}
  BY LauncherSteps, Elems1
<1>3. b \in Seq(Steps)
      /\ Elems(b) = IF o.mountns \/ o.netns THEN {Must("unshare", "ns")} ELSE {}
  BY <1>0, LauncherSteps, When1
<1>4. c \in Seq(Steps) /\ Elems(c) = IF o.mountns THEN {Must("mount", "private")} ELSE {}
  BY <1>0, LauncherSteps, When1
<1>5. d \in Seq(Steps) /\ Elems(d) = IF o.rootfs THEN PivotSteps ELSE {}
  BY <1>0, PivotIs, ElemsWhen
<1>6. e \in Seq(Steps) /\ Elems(e) = IF o.cgroup THEN CgroupSteps ELSE {}
  <2>1. join_cgroup \in Seq(Steps) /\ Elems(join_cgroup) = CgroupSteps
    <3> PICK x : x = Must("openat", "none")
      OBVIOUS
    <3> PICK y : y = Must("write", "cgroup")
      OBVIOUS
    <3> PICK z : z = Step({"close"}, "none", 0)
      OBVIOUS
    <3>1. CgroupSteps = {x, y, z} /\ join_cgroup = <<x, y, z>>
      BY DEF CgroupSteps, join_cgroup
    <3>2. x \in Steps /\ y \in Steps /\ z \in Steps
      BY <3>1, LauncherSteps
    <3> QED BY ONLY <3>1, <3>2, Elems3
  <2> QED BY <1>0, <2>1, ElemsWhen
<1>7. /\ RootThenDetach(a) /\ RootThenDetach(b) /\ RootThenDetach(c) /\ RootThenDetach(d)
      /\ RootThenDetach(e)
  <2>1. Lacks(a, "root") /\ Lacks(b, "root") /\ Lacks(c, "root") /\ Lacks(e, "root")
    <3>1. /\ Must("prctl", "nnp").eff = "nnp" /\ Must("unshare", "ns").eff = "ns"
          /\ Must("mount", "private").eff = "private" /\ Must("openat", "none").eff = "none"
          /\ Must("write", "cgroup").eff = "cgroup" /\ Step({"close"}, "none", 0).eff = "none"
      BY DEF Must, Step
    <3>2. /\ \A x \in Elems(a) : x.eff # "root"
          /\ \A x \in Elems(b) : x.eff # "root"
          /\ \A x \in Elems(c) : x.eff # "root"
          /\ \A x \in Elems(e) : x.eff # "root"
      BY ONLY <1>2, <1>3, <1>4, <1>6, <3>1 DEF CgroupSteps
    <3> QED BY ONLY <1>2, <1>3, <1>4, <1>6, <3>2, LacksSay
  <2>2. RootThenDetach(d)
    BY <1>0, PivotIs, WhenRooted
  <2> QED BY <1>2, <1>3, <1>4, <1>6, <2>1, <2>2, NoRoot
<1>8. Namespaces(o) = a \o b \o c \o d \o e
  BY DEF Namespaces
<1> PICK ab : ab = a \o b
  OBVIOUS
<1> PICK abc : abc = ab \o c
  OBVIOUS
<1> PICK abcd : abcd = abc \o d
  OBVIOUS
<1> PICK all : all = abcd \o e
  OBVIOUS
<1>9. ab \in Seq(Steps) /\ Elems(ab) = Elems(a) \cup Elems(b)
  BY ONLY <1>2, <1>3, ab = a \o b, ElemsJoin
<1>10. abc \in Seq(Steps) /\ Elems(abc) = Elems(ab) \cup Elems(c)
  BY ONLY <1>4, <1>9, abc = ab \o c, ElemsJoin
<1>11. abcd \in Seq(Steps) /\ Elems(abcd) = Elems(abc) \cup Elems(d)
  BY ONLY <1>5, <1>10, abcd = abc \o d, ElemsJoin
<1>12. all \in Seq(Steps) /\ Elems(all) = Elems(abcd) \cup Elems(e)
  BY ONLY <1>6, <1>11, all = abcd \o e, ElemsJoin
<1>13. RootThenDetach(ab)
  BY ONLY <1>2, <1>3, <1>7, ab = a \o b, OrderJoin
<1>14. RootThenDetach(abc)
  BY ONLY <1>4, <1>7, <1>9, <1>13, abc = ab \o c, OrderJoin
<1>15. RootThenDetach(abcd)
  BY ONLY <1>5, <1>7, <1>10, <1>14, abcd = abc \o d, OrderJoin
<1>16. RootThenDetach(all)
  BY ONLY <1>6, <1>7, <1>11, <1>15, all = abcd \o e, OrderJoin
<1>17. Elems(all) = Isolating(o)
  BY ONLY <1>2, <1>3, <1>4, <1>5, <1>6, <1>9, <1>10, <1>11, <1>12 DEF Isolating
<1> QED BY <1>8, <1>12, <1>16, <1>17

\* A step that neither installs a filter nor ends the launcher's part.
Setting(x) == x.eff \notin Filters \cup {"exec", "probe", "exit", "inline"}

\* What child_main's steps are to do: whatever is in E, under the filter f.
Plan(t, f, E) ==
  /\ t \in Seq(Steps) /\ ExecLast(t) /\ RootThenDetach(t) /\ Guarded(t, f)
  /\ Lacks(t, "probe") /\ Lacks(t, "exit") /\ Lacks(t, "inline")
  /\ \A e \in E : Holds(t, e)

\* The steps before the filter, the filter, execve.
LEMMA PlanIs ==
  ASSUME NEW n \in Seq(Steps), RootThenDetach(n), \A x \in Elems(n) : Setting(x),
         NEW g \in Seq(Steps), NEW f, Guarded(g, f), Lacks(g, "root"),
         \A x \in Elems(g) : x.eff \notin {"exec", "probe", "exit", "inline"},
         NEW E, \A e \in E : Holds(n, e) \/ Holds(g, e)
  PROVE  Plan(n \o g \o <<Must("execve", "exec")>>, f, E)
<1> PICK ex : ex = Must("execve", "exec")
  OBVIOUS
<1> PICK x : x = <<ex>>
  OBVIOUS
<1> PICK ng : ng = n \o g
  OBVIOUS
<1> PICK t : t = ng \o x
  OBVIOUS
<1>1. ex \in Steps /\ ex.eff = "exec" /\ ex.sys = {"execve"} /\ ex.onfail = 127
  <2>1. ex \in Steps
    BY LauncherSteps
  <2> QED BY <2>1 DEF Must, Step
<1>2. x \in Seq(Steps) /\ Elems(x) = {ex}
  BY ONLY <1>1, x = <<ex>>, Elems1
<1>3. ng \in Seq(Steps) /\ Elems(ng) = Elems(n) \cup Elems(g)
  BY ONLY n \in Seq(Steps), g \in Seq(Steps), ng = n \o g, ElemsJoin
<1>4. t \in Seq(Steps) /\ Elems(t) = Elems(ng) \cup {ex}
  <2>1. t \in Seq(Steps) /\ Elems(t) = Elems(ng) \cup Elems(x)
    BY ONLY <1>2, <1>3, t = ng \o x, ElemsJoin
  <2> QED BY ONLY <1>2, <2>1
<1>5. ExecLast(t)
  <2>1. \A y \in Elems(ng) : y.eff # "exec"
    BY <1>3 DEF Setting
  <2>2. Lacks(ng, "exec")
    BY ONLY <1>3, <2>1, LacksSay
  <2>3. ExecLast(x)
    BY DEF ExecLast
  <2> QED BY ONLY <1>2, <1>3, <2>2, <2>3, t = ng \o x, OrderJoin
<1>6. RootThenDetach(t)
  <2>1. RootThenDetach(g)
    BY ONLY g \in Seq(Steps), Lacks(g, "root"), NoRoot
  <2>2. RootThenDetach(ng)
    BY ONLY <2>1, n \in Seq(Steps), g \in Seq(Steps), RootThenDetach(n), ng = n \o g, OrderJoin
  <2>3. \A y \in Elems(x) : y.eff # "root"
    BY ONLY <1>1, <1>2
  <2>4. Lacks(x, "root")
    BY ONLY <1>2, <2>3, LacksSay
  <2>5. RootThenDetach(x)
    BY ONLY <1>2, <2>4, NoRoot
  <2> QED BY ONLY <1>2, <1>3, <2>2, <2>5, t = ng \o x, OrderJoin
<1>7. Guarded(t, f)
  <2>1. Unfiltered(n)
    BY DEF Unfiltered, Setting
  <2>2. Guarded(ng, f)
    <3>1. \A h : Unfiltered(n) /\ Guarded(g, h) => Guarded(n \o g, h)
      BY ONLY n \in Seq(Steps), g \in Seq(Steps), OrderJoin
    <3> QED BY ONLY <2>1, <3>1, Guarded(g, f), ng = n \o g
  <2>3. AllQuiet(x)
    BY ONLY <1>1, <1>2 DEF AllQuiet, Quiet, Filters
  <2>4. \A h : Guarded(ng, h) /\ AllQuiet(x) => Guarded(ng \o x, h)
    BY ONLY <1>2, <1>3, OrderJoin
  <2> QED BY ONLY <2>2, <2>3, <2>4, t = ng \o x
<1>8. Lacks(t, "probe") /\ Lacks(t, "exit") /\ Lacks(t, "inline")
  <2>1. \A y \in Elems(t) : y.eff # "probe" /\ y.eff # "exit" /\ y.eff # "inline"
    BY <1>1, <1>3, <1>4 DEF Setting
  <2> QED BY ONLY <1>4, <2>1, LacksSay
<1>9. ASSUME NEW e \in E PROVE Holds(t, e)
  <2>1. Holds(n, e) \/ Holds(g, e)
    OBVIOUS
  <2>2. \E y \in Elems(n) \cup Elems(g) : y.eff = e /\ y.onfail # 0
    BY ONLY <2>1, n \in Seq(Steps), g \in Seq(Steps), ElemsSay
  <2>3. PICK y \in Elems(t) : y.eff = e /\ y.onfail # 0
    BY ONLY <1>3, <1>4, <2>2
  <2> QED BY ONLY <1>4, <2>3, HoldsSay
<1>10. Plan(t, f, E)
  BY ONLY <1>4, <1>5, <1>6, <1>7, <1>8, <1>9 DEF Plan
<1> QED BY ONLY <1>10, t = ng \o x, ng = n \o g, x = <<ex>>, ex = Must("execve", "exec")

\* The filter and the message beside it, in either order.
LEMMA FilterStep ==
  ASSUME NEW f \in Filters, NEW c \in BOOLEAN, NEW g,
         g = When(c, <<Install(f, 127), Note>>) \/ g = When(c, <<Note, Install(f, 127)>>)
  PROVE  /\ g \in Seq(Steps) /\ Guarded(g, f) /\ Lacks(g, "root")
         /\ \A x \in Elems(g) : x.eff \notin {"exec", "probe", "exit", "inline"}
         /\ c => Holds(g, f)
<1> PICK i : i = Install(f, 127)
  OBVIOUS
<1> PICK n : n = Note
  OBVIOUS
<1>1. /\ i \in Steps /\ n \in Steps /\ i.eff = f /\ i.onfail = 127 /\ n.eff = "none"
      /\ n.sys = {"write"}
  <2>1. i \in Steps /\ n \in Steps
    BY LauncherSteps
  <2> QED BY <2>1 DEF Install, Note, Step
<1>2. Quiet(n) /\ n.eff \notin Filters
  BY ONLY <1>1 DEF Quiet, Filters
<1>3. f \notin {"exec", "probe", "exit", "inline", "root"}
  BY DEF Filters
<1>4. CASE ~c
  <2>1. g = << >> /\ << >> \in Seq(Steps) /\ Len(<< >>) = 0
    BY <1>4 DEF When
  <2> QED BY ONLY <1>4, <2>1 DEF Guarded, Lacks, Elems
<1>5. ASSUME c, g = <<i, n>> \/ g = <<n, i>>
      PROVE  /\ g \in Seq(Steps) /\ Guarded(g, f) /\ Lacks(g, "root")
             /\ \A x \in Elems(g) : x.eff \notin {"exec", "probe", "exit", "inline"}
             /\ Holds(g, f)
  <2>1. g \in Seq(Steps) /\ Elems(g) = {i, n}
    <3>1. CASE g = <<i, n>>
      BY ONLY <1>1, <3>1, Elems2
    <3>2. CASE g = <<n, i>>
      <4>1. g \in Seq(Steps) /\ Elems(g) = {n, i}
        BY ONLY <1>1, <3>2, Elems2
      <4> QED BY ONLY <4>1
    <3> QED BY <1>5, <3>1, <3>2
  <2>2. Guarded(g, f)
    <3>1. Len(g) = 2 /\ 1 .. 2 = {1, 2}
      BY ONLY <1>5
    <3>2. CASE g = <<i, n>>
      <4>1. g[1] = i /\ g[2] = n
        BY ONLY <3>2
      <4> QED BY ONLY <1>1, <1>2, <3>1, <4>1 DEF Guarded
    <3>3. CASE g = <<n, i>>
      <4>1. g[1] = n /\ g[2] = i
        BY ONLY <3>3
      <4> QED BY ONLY <1>1, <1>2, <3>1, <4>1 DEF Guarded
    <3> QED BY <1>5, <3>2, <3>3
  <2>3. \A x \in Elems(g) : x.eff \notin {"exec", "probe", "exit", "inline"}
    BY ONLY <1>1, <1>3, <2>1
  <2>4. Lacks(g, "root")
    <3>1. \A x \in Elems(g) : x.eff # "root"
      BY ONLY <1>1, <1>3, <2>1
    <3> QED BY ONLY <2>1, <3>1, LacksSay
  <2>5. Holds(g, f)
    <3>1. i \in Elems(g) /\ i.onfail # 0
      BY ONLY <1>1, <2>1
    <3>2. Holds(g, i.eff)
      BY ONLY <2>1, <3>1, HoldsSay
    <3> QED BY ONLY <1>1, <3>2
  <2> QED BY <2>1, <2>2, <2>3, <2>4, <2>5
<1>6. CASE c
  <2>1. g = <<i, n>> \/ g = <<n, i>>
    BY <1>6 DEF When
  <2> QED BY <1>5, <1>6, <2>1
<1> QED BY <1>4, <1>6

\* What a launch asks for, as effects.
NeedsHR(o, f) ==
  {"nnp"} \cup (IF o.seccomp THEN {f} ELSE {})
  \cup (IF o.mountns THEN {"ns", "private"} ELSE {}) \cup (IF o.netns THEN {"ns"} ELSE {})
  \cup (IF o.rootfs THEN {"root"} ELSE {}) \cup (IF o.cgroup THEN {"cgroup"} ELSE {})
NeedsS(o) == {"nnp"} \cup (IF o.seccomp THEN {"phase1"} ELSE {})

\* The namespaces' steps bring about all of it but the filter.
LEMMA IsolatingSays ==
  ASSUME NEW o \in Options
  PROVE  /\ \A x \in Isolating(o) : Setting(x)
         /\ \A f : \A e \in NeedsHR(o, f) :
              (o.seccomp /\ e = f) \/ \E x \in Isolating(o) : x.eff = e /\ x.onfail # 0
<1>1. /\ Must("prctl", "nnp").eff = "nnp" /\ Must("unshare", "ns").eff = "ns"
      /\ Must("mount", "private").eff = "private" /\ Must("openat", "none").eff = "none"
      /\ Must("write", "cgroup").eff = "cgroup" /\ Step({"close"}, "none", 0).eff = "none"
  BY DEF Must, Step
<1>2. /\ Must("mount", "bind").eff = "bind" /\ Must("mkdirat", "none").eff = "none"
      /\ Must("pivot_root", "root").eff = "root" /\ Must("chdir", "none").eff = "none"
      /\ Must("umount2", "detach").eff = "detach" /\ Step({"unlinkat"}, "none", 0).eff = "none"
  BY DEF Must, Step
<1>3. /\ Must("prctl", "nnp").onfail = 127 /\ Must("unshare", "ns").onfail = 127
      /\ Must("mount", "private").onfail = 127 /\ Must("write", "cgroup").onfail = 127
      /\ Must("pivot_root", "root").onfail = 127
  BY DEF Must, Step
<1>4. \A x \in PivotSteps : Setting(x)
  BY ONLY <1>2 DEF PivotSteps, Setting, Filters
<1>5. \A x \in CgroupSteps : Setting(x)
  BY ONLY <1>1 DEF CgroupSteps, Setting, Filters
<1>6. /\ Setting(Must("prctl", "nnp")) /\ Setting(Must("unshare", "ns"))
      /\ Setting(Must("mount", "private"))
  BY ONLY <1>1 DEF Setting, Filters
<1>7. \A x \in Isolating(o) : Setting(x)
  BY ONLY <1>4, <1>5, <1>6 DEF Isolating
<1>8. ASSUME NEW f, NEW e \in NeedsHR(o, f), ~(o.seccomp /\ e = f)
      PROVE  \E x \in Isolating(o) : x.eff = e /\ x.onfail # 0
  <2>1. \/ e = "nnp"
        \/ e = "ns" /\ (o.mountns \/ o.netns)
        \/ e = "private" /\ o.mountns
        \/ e = "root" /\ o.rootfs
        \/ e = "cgroup" /\ o.cgroup
    BY ONLY <1>8, e \in NeedsHR(o, f) DEF NeedsHR
  <2>2. CASE e = "nnp"
    BY ONLY <1>1, <1>3, <2>2 DEF Isolating
  <2>3. CASE e = "ns" /\ (o.mountns \/ o.netns)
    BY ONLY <1>1, <1>3, <2>3 DEF Isolating
  <2>4. CASE e = "private" /\ o.mountns
    BY ONLY <1>1, <1>3, <2>4 DEF Isolating
  <2>5. CASE e = "root" /\ o.rootfs
    BY ONLY <1>2, <1>3, <2>5 DEF Isolating, PivotSteps
  <2>6. CASE e = "cgroup" /\ o.cgroup
    BY ONLY <1>1, <1>3, <2>6 DEF Isolating, CgroupSteps
  <2> QED BY ONLY <2>1, <2>2, <2>3, <2>4, <2>5, <2>6
<1> QED BY ONLY <1>7, <1>8

\* The launchers of spikes H and R plan everything they were asked for.
LEMMA MainHR ==
  ASSUME NEW o \in Options
  PROVE  /\ Plan(child_main_h(o), "spike_h", NeedsHR(o, "spike_h"))
         /\ Plan(child_main_r(o), "unified", NeedsHR(o, "unified"))
<1> PICK n : n = Namespaces(o)
  OBVIOUS
<1>1. /\ n \in Seq(Steps) /\ Elems(n) = Isolating(o) /\ RootThenDetach(n)
      /\ \A x \in Elems(n) : Setting(x)
  BY NamespacesAre, IsolatingSays
<1>2. ASSUME NEW f \in Filters, NEW g,
             \/ g = When(o.seccomp, <<Install(f, 127), Note>>)
             \/ g = When(o.seccomp, <<Note, Install(f, 127)>>)
      PROVE  Plan(n \o g \o <<Must("execve", "exec")>>, f, NeedsHR(o, f))
  <2>1. o.seccomp \in BOOLEAN
    BY DEF Options
  <2>2. /\ g \in Seq(Steps) /\ Guarded(g, f) /\ Lacks(g, "root")
        /\ \A x \in Elems(g) : x.eff \notin {"exec", "probe", "exit", "inline"}
        /\ o.seccomp => Holds(g, f)
    BY ONLY <1>2, <2>1, FilterStep
  <2> PICK E : E = NeedsHR(o, f)
    OBVIOUS
  <2>3. ASSUME NEW e \in E PROVE Holds(n, e) \/ Holds(g, e)
    <3>1. (o.seccomp /\ e = f) \/ \E x \in Isolating(o) : x.eff = e /\ x.onfail # 0
      BY IsolatingSays
    <3>2. CASE o.seccomp /\ e = f
      BY ONLY <2>2, <3>2
    <3>3. CASE \E x \in Isolating(o) : x.eff = e /\ x.onfail # 0
      <4>1. PICK x \in Elems(n) : x.eff = e /\ x.onfail # 0
        BY ONLY <1>1, <3>3
      <4> QED BY ONLY <1>1, <4>1, HoldsSay
    <3> QED BY ONLY <3>1, <3>2, <3>3
  <2>4. Plan(n \o g \o <<Must("execve", "exec")>>, f, E)
    BY ONLY <1>1, <2>2, <2>3, PlanIs
  <2> QED BY ONLY <2>4, E = NeedsHR(o, f)
<1>3. "spike_h" \in Filters /\ "unified" \in Filters
  BY DEF Filters
<1>4. Plan(child_main_h(o), "spike_h", NeedsHR(o, "spike_h"))
  BY ONLY <1>2, <1>3, n = Namespaces(o) DEF child_main_h
<1>5. Plan(child_main_r(o), "unified", NeedsHR(o, "unified"))
  BY ONLY <1>2, <1>3, n = Namespaces(o) DEF child_main_r
<1> QED BY <1>4, <1>5

SOptions == [lib_dir : BOOLEAN, seccomp : BOOLEAN]

\* The launcher of spike S plans everything it was asked for.
LEMMA MainS ==
  ASSUME NEW o \in SOptions
  PROVE  Plan(child_main_s(o), "phase1", NeedsS(o))
<1> PICK p : p = Must("prctl", "nnp")
  OBVIOUS
<1> PICK a : a = Must("newfstatat", "none")
  OBVIOUS
<1> PICK b : b = Must("openat", "none")
  OBVIOUS
<1> PICK c : c = Must("read", "none")
  OBVIOUS
<1> PICK d : d = Step({"close"}, "none", 0)
  OBVIOUS
<1> PICK w : w = Note
  OBVIOUS
<1> PICK v : v = setenv
  OBVIOUS
<1> PICK s1 : s1 = <<p>>
  OBVIOUS
<1> PICK s2 : s2 = <<a, b, c, d>>
  OBVIOUS
<1> PICK s3 : s3 = When(o.lib_dir, <<v, w>>)
  OBVIOUS
<1> PICK s12 : s12 = s1 \o s2
  OBVIOUS
<1> PICK n : n = s12 \o s3
  OBVIOUS
<1> PICK g : g = When(o.seccomp, <<Note, Install("phase1", 127)>>)
  OBVIOUS
<1>1. child_main_s(o) = n \o g \o <<Must("execve", "exec")>>
  BY DEF child_main_s, validate_cart
<1>2. /\ p \in Steps /\ a \in Steps /\ b \in Steps /\ c \in Steps /\ d \in Steps
      /\ w \in Steps /\ v \in Steps
  <2>1. a \in Steps /\ b \in Steps /\ c \in Steps
    BY DEF Must, Step, Steps, Calls, Effs, Codes
  <2>2. d \in Steps
    BY DEF Step, Steps, Calls, Effs, Codes
  <2>3. v \in Steps
    BY DEF setenv, Step, Steps, Calls, Effs, Codes
  <2> QED BY <2>1, <2>2, <2>3, LauncherSteps
<1>3. /\ p.eff = "nnp" /\ p.onfail = 127 /\ a.eff = "none" /\ b.eff = "none"
      /\ c.eff = "none" /\ d.eff = "none" /\ w.eff = "none" /\ v.eff = "none"
  BY DEF Must, Step, Note, setenv
<1>4. s1 \in Seq(Steps) /\ Elems(s1) = {p}
  BY ONLY <1>2, s1 = <<p>>, Elems1
<1>5. s2 \in Seq(Steps) /\ Elems(s2) = {a, b, c, d}
  BY ONLY <1>2, s2 = <<a, b, c, d>>, Elems4
<1>6. o.lib_dir \in BOOLEAN /\ o.seccomp \in BOOLEAN
  BY DEF SOptions
<1>7. s3 \in Seq(Steps) /\ Elems(s3) \subseteq {v, w}
  <2>1. <<v, w>> \in Seq(Steps) /\ Elems(<<v, w>>) = {v, w}
    BY ONLY <1>2, Elems2
  <2>2. CASE o.lib_dir
    BY ONLY <2>1, <2>2, s3 = When(o.lib_dir, <<v, w>>) DEF When
  <2>3. CASE ~o.lib_dir
    <3>1. s3 = << >>
      BY ONLY <2>3, s3 = When(o.lib_dir, <<v, w>>) DEF When
    <3> QED BY ONLY <3>1 DEF Elems
  <2> QED BY <2>2, <2>3
<1>8. s12 \in Seq(Steps) /\ Elems(s12) = Elems(s1) \cup Elems(s2)
  BY ONLY <1>4, <1>5, s12 = s1 \o s2, ElemsJoin
<1>9. n \in Seq(Steps) /\ Elems(n) = Elems(s12) \cup Elems(s3)
  BY ONLY <1>7, <1>8, n = s12 \o s3, ElemsJoin
<1>10. \A x \in Elems(n) : x \in {p, a, b, c, d, v, w}
  BY ONLY <1>4, <1>5, <1>7, <1>8, <1>9
<1>11. \A x \in Elems(n) : x.eff # "root" /\ Setting(x)
  BY ONLY <1>3, <1>10 DEF Setting, Filters
<1>12. RootThenDetach(n)
  <2>1. Lacks(n, "root")
    BY ONLY <1>9, <1>11, LacksSay
  <2> QED BY ONLY <1>9, <2>1, NoRoot
<1>13. /\ g \in Seq(Steps) /\ Guarded(g, "phase1") /\ Lacks(g, "root")
       /\ \A x \in Elems(g) : x.eff \notin {"exec", "probe", "exit", "inline"}
       /\ o.seccomp => Holds(g, "phase1")
  <2>1. "phase1" \in Filters
    BY DEF Filters
  <2> PICK f : f = "phase1"
    OBVIOUS
  <2> PICK c2 : c2 = o.seccomp
    OBVIOUS
  <2>2. /\ f \in Filters /\ c2 \in BOOLEAN
        /\ g = When(c2, <<Install(f, 127), Note>>) \/ g = When(c2, <<Note, Install(f, 127)>>)
    BY ONLY <1>6, <2>1, f = "phase1", g = When(o.seccomp, <<Note, Install("phase1", 127)>>),
            c2 = o.seccomp
  <2>3. /\ g \in Seq(Steps) /\ Guarded(g, f) /\ Lacks(g, "root")
        /\ \A x \in Elems(g) : x.eff \notin {"exec", "probe", "exit", "inline"}
        /\ c2 => Holds(g, f)
    BY ONLY <2>2, FilterStep
  <2> QED BY ONLY <2>3, f = "phase1", c2 = o.seccomp
<1> PICK E : E = NeedsS(o)
  OBVIOUS
<1>14. ASSUME NEW e \in E PROVE Holds(n, e) \/ Holds(g, e)
  <2>1. e = "nnp" \/ (o.seccomp /\ e = "phase1")
    BY DEF NeedsS
  <2>2. p \in Elems(n) /\ p.onfail # 0
    BY ONLY <1>3, <1>4, <1>8, <1>9
  <2>3. Holds(n, p.eff)
    BY ONLY <1>9, <2>2, HoldsSay
  <2> QED BY ONLY <1>3, <1>13, <2>1, <2>3
<1>15. Plan(n \o g \o <<Must("execve", "exec")>>, "phase1", E)
  BY ONLY <1>9, <1>11, <1>12, <1>13, <1>14, PlanIs
<1> QED BY ONLY <1>1, <1>15, E = NeedsS(o)

\* What a script or a command line asks for: a launch, a probe under given
\* filters, a call made by the child itself.
IsCase(c) ==
  \/ c.kind \in {"h", "r"} /\ c.opts \in Options /\ c.cart.image \in CartImages
  \/ c.kind = "s" /\ c.opts \in SOptions /\ c.cart.image \in CartImages
  \/ /\ c.kind = "probe" /\ c.opts.filters \in Seq(Filters) /\ c.opts.noexec \in {126, 127}
     /\ c.cart.image \in CartImages
  \/ c.kind = "inline" /\ c.opts.filter \in Filters /\ c.opts.sys \in {"write", "socket"}

Needs(c) == IF c.kind = "s" THEN NeedsS(c.opts) ELSE NeedsHR(c.opts, FilterOf[c.kind])

\* Any child's steps: execve comes last, and only with a cart to run.
AnyPlan(c, t) ==
  /\ t \in Seq(Steps) /\ ExecLast(t) /\ Lacks(t, "probe")
  /\ c.cart.image \in CartImages \/ Lacks(t, "exec")

\* The raw tests' children that execute a program.
LEMMA ProbePlan ==
  ASSUME NEW fs \in Seq(Filters), NEW k \in {126, 127}
  PROVE  /\ run_probe(fs, k) \in Seq(Steps) /\ ExecLast(run_probe(fs, k))
         /\ Lacks(run_probe(fs, k), "probe")
<1> PICK p : p = Must("prctl", "nnp")
  OBVIOUS
<1> PICK ex : ex = Step({"execve"}, "exec", k)
  OBVIOUS
<1> PICK n \in Nat : n = Len(fs)
  OBVIOUS
<1> PICK s : s = <<p>>
  OBVIOUS
<1> PICK m : m = [i \in 1 .. n |-> Install(fs[i], 127)]
  OBVIOUS
<1> PICK x : x = <<ex>>
  OBVIOUS
<1> PICK sm : sm = s \o m
  OBVIOUS
<1> PICK t : t = sm \o x
  OBVIOUS
<1>1. run_probe(fs, k) = t
  BY DEF run_probe
<1>2. p \in Steps /\ ex \in Steps
  <2>1. ex \in Steps
    BY DEF Step, Steps, Calls, Effs, Codes
  <2> QED BY <2>1, LauncherSteps
<1>3. p.eff = "nnp" /\ ex.eff = "exec"
  BY DEF Must, Step
<1>4. s \in Seq(Steps) /\ Elems(s) = {p}
  BY ONLY <1>2, s = <<p>>, Elems1
<1>5. x \in Seq(Steps) /\ Elems(x) = {ex}
  BY ONLY <1>2, x = <<ex>>, Elems1
<1>6. \A i \in 1 .. n : fs[i] \in Filters
  OBVIOUS
<1>7. \A i \in 1 .. n : Install(fs[i], 127) \in Steps
  BY <1>6, LauncherSteps
<1>8. m \in Seq(Steps) /\ Len(m) = n
  <2>1. m \in [1 .. n -> Steps]
    BY ONLY <1>7, m = [i \in 1 .. n |-> Install(fs[i], 127)]
  <2> QED BY ONLY <2>1, n \in Nat
<1>9. \A y \in Elems(m) : y.eff \in Filters
  <2>1. ASSUME NEW i \in 1 .. n PROVE m[i].eff \in Filters
    <3>1. m[i] = Install(fs[i], 127)
      OBVIOUS
    <3>2. Install(fs[i], 127).eff = fs[i]
      BY DEF Install, Step
    <3> QED BY ONLY <1>6, <3>1, <3>2
  <2> QED BY ONLY <1>8, <2>1 DEF Elems
<1>10. sm \in Seq(Steps) /\ Elems(sm) = Elems(s) \cup Elems(m)
  BY ONLY <1>4, <1>8, sm = s \o m, ElemsJoin
<1>11. t \in Seq(Steps) /\ Elems(t) = Elems(sm) \cup Elems(x)
  BY ONLY <1>5, <1>10, t = sm \o x, ElemsJoin
<1>12. "exec" \notin Filters /\ "probe" \notin Filters
  BY DEF Filters
<1>13. ExecLast(t)
  <2>1. \A y \in Elems(sm) : y.eff # "exec"
    BY ONLY <1>3, <1>4, <1>9, <1>10, <1>12
  <2>2. Lacks(sm, "exec")
    BY ONLY <1>10, <2>1, LacksSay
  <2>3. ExecLast(x)
    BY DEF ExecLast
  <2> QED BY ONLY <1>5, <1>10, <2>2, <2>3, t = sm \o x, OrderJoin
<1>14. Lacks(t, "probe")
  <2>1. \A y \in Elems(t) : y.eff # "probe"
    BY ONLY <1>3, <1>4, <1>5, <1>9, <1>10, <1>11, <1>12
  <2> QED BY ONLY <1>11, <2>1, LacksSay
<1> QED BY <1>1, <1>11, <1>13, <1>14

\* The raw tests' children that make the call themselves.
LEMMA InlinePlan ==
  ASSUME NEW f \in Filters, NEW sys \in {"write", "socket"}
  PROVE  /\ run_lp64_probe(f, sys) \in Seq(Steps) /\ Lacks(run_lp64_probe(f, sys), "exec")
         /\ Lacks(run_lp64_probe(f, sys), "probe")
<1> PICK p : p = Must("prctl", "nnp")
  OBVIOUS
<1> PICK i : i = Install(f, 127)
  OBVIOUS
<1> PICK x : x = Step({sys}, "inline", 1)
  OBVIOUS
<1> PICK t : t = <<p, i, x>>
  OBVIOUS
<1>1. run_lp64_probe(f, sys) = t
  BY DEF run_lp64_probe
<1>2. p \in Steps /\ i \in Steps /\ x \in Steps
  <2>1. x \in Steps
    BY DEF Step, Steps, Calls, Effs, Codes
  <2> QED BY <2>1, LauncherSteps
<1>3. t \in Seq(Steps) /\ Elems(t) = {p, i, x}
  BY ONLY <1>2, t = <<p, i, x>>, Elems3
<1>4. p.eff = "nnp" /\ i.eff = f /\ x.eff = "inline"
  BY DEF Must, Step, Install
<1>5. f # "exec" /\ f # "probe"
  BY DEF Filters
<1>6. \A y \in Elems(t) : y.eff # "exec" /\ y.eff # "probe"
  BY ONLY <1>3, <1>4, <1>5
<1>7. Lacks(t, "exec") /\ Lacks(t, "probe")
  BY ONLY <1>3, <1>6, LacksSay
<1> QED BY <1>1, <1>3, <1>7

\* The plan of every case's child.
LEMMA ChildMainIs ==
  ASSUME NEW c, IsCase(c)
  PROVE  /\ AnyPlan(c, ChildMain(c))
         /\ c.kind \in {"h", "r", "s"} => Plan(ChildMain(c), FilterOf[c.kind], Needs(c))
<1>1. FilterOf["h"] = "spike_h" /\ FilterOf["r"] = "unified" /\ FilterOf["s"] = "phase1"
  BY DEF FilterOf
<1>2. ASSUME c.kind \in {"h", "r", "s"}, c.cart.image \in CartImages,
             Plan(ChildMain(c), FilterOf[c.kind], Needs(c))
      PROVE  AnyPlan(c, ChildMain(c))
  BY ONLY <1>2 DEF Plan, AnyPlan
<1>3. CASE c.kind = "h" /\ c.opts \in Options /\ c.cart.image \in CartImages
  <2>1. ChildMain(c) = child_main_h(c.opts)
    BY ONLY <1>3 DEF ChildMain
  <2>2. Needs(c) = NeedsHR(c.opts, "spike_h")
    BY ONLY <1>1, <1>3 DEF Needs
  <2>3. Plan(child_main_h(c.opts), "spike_h", NeedsHR(c.opts, "spike_h"))
    BY ONLY <1>3, MainHR
  <2> QED BY <1>1, <1>2, <1>3, <2>1, <2>2, <2>3
<1>4. CASE c.kind = "r" /\ c.opts \in Options /\ c.cart.image \in CartImages
  <2>1. ChildMain(c) = child_main_r(c.opts)
    BY ONLY <1>4 DEF ChildMain
  <2>2. Needs(c) = NeedsHR(c.opts, "unified")
    BY ONLY <1>1, <1>4 DEF Needs
  <2>3. Plan(child_main_r(c.opts), "unified", NeedsHR(c.opts, "unified"))
    BY ONLY <1>4, MainHR
  <2> QED BY <1>1, <1>2, <1>4, <2>1, <2>2, <2>3
<1>5. CASE c.kind = "s" /\ c.opts \in SOptions /\ c.cart.image \in CartImages
  <2>1. ChildMain(c) = child_main_s(c.opts)
    BY ONLY <1>5 DEF ChildMain
  <2>2. Needs(c) = NeedsS(c.opts)
    BY ONLY <1>5 DEF Needs
  <2>3. Plan(child_main_s(c.opts), "phase1", NeedsS(c.opts))
    BY ONLY <1>5, MainS
  <2> QED BY <1>1, <1>2, <1>5, <2>1, <2>2, <2>3
<1>6. CASE /\ c.kind = "probe" /\ c.opts.filters \in Seq(Filters)
           /\ c.opts.noexec \in {126, 127} /\ c.cart.image \in CartImages
  <2>1. ChildMain(c) = run_probe(c.opts.filters, c.opts.noexec)
    BY ONLY <1>6 DEF ChildMain
  <2> QED BY ONLY <1>6, <2>1, ProbePlan DEF AnyPlan
<1>7. CASE c.kind = "inline" /\ c.opts.filter \in Filters /\ c.opts.sys \in {"write", "socket"}
  <2>1. ChildMain(c) = run_lp64_probe(c.opts.filter, c.opts.sys)
    BY ONLY <1>7 DEF ChildMain
  <2> PICK t : t = ChildMain(c)
    OBVIOUS
  <2>2. t \in Seq(Steps) /\ Lacks(t, "exec") /\ Lacks(t, "probe")
    BY ONLY <1>7, <2>1, t = ChildMain(c), InlinePlan
  <2>3. ExecLast(t)
    BY ONLY <2>2 DEF ExecLast, Lacks
  <2> QED BY ONLY <1>7, <2>2, <2>3, t = ChildMain(c) DEF AnyPlan
<1> QED BY <1>3, <1>4, <1>5, <1>6, <1>7 DEF IsCase

\* A cart's steps install at most the second filter.
CartEffs == {"none", "phase2", "probe", "exit"}
CartPlan(t) == t \in Seq(Steps) /\ \A x \in Elems(t) : x.eff \in CartEffs

\* A cart's plan, put together from parts.
LEMMA CartPlanJoin ==
  ASSUME NEW s, NEW t, CartPlan(s), CartPlan(t)
  PROVE  CartPlan(s \o t)
<1>1. s \o t \in Seq(Steps) /\ Elems(s \o t) = Elems(s) \cup Elems(t)
  BY ElemsJoin DEF CartPlan
<1> QED BY <1>1 DEF CartPlan

\* A cart's plan with an optional part.
LEMMA CartPlanWhen ==
  ASSUME NEW s, CartPlan(s), NEW c \in BOOLEAN
  PROVE  CartPlan(When(c, s))
<1>1. When(c, s) \in Seq(Steps) /\ Elems(When(c, s)) = IF c THEN Elems(s) ELSE {}
  BY ElemsWhen DEF CartPlan
<1> QED BY <1>1 DEF CartPlan

\* A cart's plan given by its places.
LEMMA CartPlan1 ==
  ASSUME NEW x \in Steps, x.eff \in CartEffs
  PROVE  CartPlan(<<x>>)
<1>1. <<x>> \in Seq(Steps) /\ Elems(<<x>>) = {x}
  BY Elems1
<1> QED BY <1>1 DEF CartPlan

LEMMA CartPlan2 ==
  ASSUME NEW x \in Steps, x.eff \in CartEffs, NEW y \in Steps, y.eff \in CartEffs
  PROVE  CartPlan(<<x, y>>)
<1>1. <<x, y>> \in Seq(Steps) /\ Elems(<<x, y>>) = {x, y}
  BY Elems2
<1> QED BY <1>1 DEF CartPlan

\* The steps a cart is made of.
LEMMA CartStep ==
  ASSUME NEW cart
  PROVE  /\ Report(cart) \in Steps /\ Report(cart).eff = "none"
         /\ \A k \in Codes : Exit(k) \in Steps /\ Exit(k).eff = "exit"
         /\ \A nr \in Calls : /\ Step({nr}, "probe", 1) \in Steps
                              /\ Step({nr}, "probe", 1).eff = "probe"
         /\ \A C \in SUBSET Calls : Step(C, "none", 0) \in Steps /\ Step(C, "none", 0).eff = "none"
<1>1. Report(cart) \in Steps /\ Report(cart).eff = "none"
  BY DEF Report, Step, Steps, Calls, Effs, Codes
<1>2. \A k \in Codes : Exit(k) \in Steps /\ Exit(k).eff = "exit"
  <2>1. {"exit_group"} \in SUBSET Calls /\ "exit" \in Effs
    BY DEF Calls, Effs
  <2> QED BY <2>1 DEF Exit, Step, Steps
<1>3. 1 \in Codes /\ 0 \in Codes /\ "probe" \in Effs /\ "none" \in Effs
  BY DEF Codes, Effs
<1>4. \A nr \in Calls : Step({nr}, "probe", 1) \in Steps /\ Step({nr}, "probe", 1).eff = "probe"
  BY <1>3 DEF Step, Steps
<1>5. \A C \in SUBSET Calls : Step(C, "none", 0) \in Steps /\ Step(C, "none", 0).eff = "none"
  BY <1>3 DEF Step, Steps
<1> QED BY <1>1, <1>2, <1>4, <1>5

\* main of a cart.
LEMMA MainPlan ==
  ASSUME NEW cart
  PROVE  CartPlan(CartMain(cart))
<1> PICK r : r = Report(cart)
  OBVIOUS
<1>1. r \in Steps /\ r.eff \in CartEffs
  BY CartStep DEF CartEffs
<1>2. ASSUME NEW k \in Codes PROVE CartPlan(<<r, Exit(k)>>)
  <2>1. Exit(k) \in Steps /\ Exit(k).eff \in CartEffs
    BY CartStep DEF CartEffs
  <2> QED BY ONLY <1>1, <2>1, CartPlan2
<1>3. 0 \in Codes /\ 2 \in Codes
  BY DEF Codes
<1>4. CASE cart.probe \in {"hello", "workload"}
  <2>1. cart.probe \notin DOMAIN ProbeCall
    BY <1>4 DEF ProbeCall
  <2>2. CartMain(cart) = <<r, Exit(0)>>
    BY <1>4, <2>1 DEF CartMain
  <2> QED BY <1>2, <1>3, <2>2
<1>5. CASE cart.probe \notin {"hello", "workload"} /\ cart.probe \in DOMAIN ProbeCall
  <2> PICK nr : nr = ProbeCall[cart.probe]
    OBVIOUS
  <2>1. nr \in {"openat", "socket", "execve", "mprotect", "uname", "write"}
    BY <1>5 DEF ProbeCall
  <2>2. nr \in Calls
    BY ONLY <2>1 DEF Calls
  <2>3. Step({nr}, "probe", 1) \in Steps /\ Step({nr}, "probe", 1).eff \in CartEffs
    BY <2>2, CartStep DEF CartEffs
  <2>4. CartPlan(<<Step({nr}, "probe", 1)>>)
    BY ONLY <2>3, CartPlan1
  <2> QED BY <1>5, <2>4 DEF CartMain
<1>6. CASE cart.probe \notin {"hello", "workload"} /\ cart.probe \notin DOMAIN ProbeCall
  BY <1>2, <1>3, <1>6 DEF CartMain
<1> QED BY <1>4, <1>5, <1>6

\* A cart from its start-up on: one that links libblyt32 narrows its filter
\* before it probes.
LEMMA CartStepsAre ==
  ASSUME NEW cart
  PROVE  /\ CartPlan(CartSteps(cart))
         /\ cart.image = "dynamic" => Narrowed(CartSteps(cart))
<1> PICK C : C = StartUp(cart) \cup
                 (IF kernel.exec = "binfmt" /\ cart.image # "emu" THEN Emulation ELSE {})
  OBVIOUS
<1> PICK u : u = Step(C, "none", 0)
  OBVIOUS
<1> PICK s : s = <<u>>
  OBVIOUS
<1> PICK a : a = Step({"writev"}, "none", 0)
  OBVIOUS
<1> PICK b : b = Install("phase2", 127)
  OBVIOUS
<1> PICK k : k = <<a, b>>
  OBVIOUS
<1> PICK w : w = When(cart.image = "dynamic", k)
  OBVIOUS
<1> PICK m : m = CartMain(cart)
  OBVIOUS
<1> PICK sw : sw = s \o w
  OBVIOUS
<1>1. CartSteps(cart) = sw \o m
  BY DEF CartSteps, libblyt32_phase2_constructor
<1>2. C \in SUBSET Calls
  <2>1. StartUp(cart) \subseteq Calls
    <3>1. CASE cart.image = "emu"
      BY <3>1 DEF StartUp, Calls
    <3>2. CASE cart.image \in {"dynamic", "console"}
      BY <3>2 DEF StartUp, Calls
    <3>3. CASE cart.image = "static"
      BY <3>3 DEF StartUp, Calls
    <3>4. CASE cart.image \notin {"emu", "dynamic", "console", "static"}
      BY <3>4 DEF StartUp, Calls
    <3> QED BY <3>1, <3>2, <3>3, <3>4
  <2>2. Emulation \subseteq Calls
    BY DEF Emulation, Calls
  <2> QED BY <2>1, <2>2
<1>3. u \in Steps /\ u.eff = "none"
  BY <1>2, CartStep
<1>4. a \in Steps /\ b \in Steps
  <2>1. {"writev"} \in SUBSET Calls /\ "phase2" \in Filters
    BY DEF Calls, Filters
  <2> QED BY <2>1, CartStep, LauncherSteps
<1>5. a.eff = "none" /\ b.eff = "phase2" /\ b.onfail = 127
  BY DEF Step, Install
<1>6. CartPlan(s)
  <2>1. u.eff \in CartEffs
    BY <1>3 DEF CartEffs
  <2> QED BY ONLY <1>3, <2>1, s = <<u>>, CartPlan1
<1>7. CartPlan(k)
  <2>1. a.eff \in CartEffs /\ b.eff \in CartEffs
    BY <1>5 DEF CartEffs
  <2> QED BY ONLY <1>4, <2>1, k = <<a, b>>, CartPlan2
<1>8. CartPlan(w)
  BY <1>7, CartPlanWhen
<1>9. CartPlan(m)
  BY MainPlan
<1>10. CartPlan(sw)
  BY ONLY <1>6, <1>8, sw = s \o w, CartPlanJoin
<1>11. CartPlan(sw \o m)
  BY ONLY <1>9, <1>10, CartPlanJoin
<1>12. ASSUME cart.image = "dynamic" PROVE Narrowed(sw \o m)
  <2>1. w = k
    BY <1>12 DEF When
  <2>2. Elems(s) = {u} /\ Elems(k) = {a, b}
    <3>1. Elems(s) = {u}
      BY ONLY <1>3, s = <<u>>, Elems1
    <3>2. Elems(k) = {a, b}
      BY ONLY <1>4, k = <<a, b>>, Elems2
    <3> QED BY <3>1, <3>2
  <2>3. s \in Seq(Steps) /\ w \in Seq(Steps) /\ m \in Seq(Steps) /\ sw \in Seq(Steps)
    BY <1>6, <1>8, <1>9, <1>10 DEF CartPlan
  <2>4. Elems(sw) = {u, a, b}
    <3>1. Elems(sw) = Elems(s) \cup Elems(w)
      BY ONLY <2>3, sw = s \o w, ElemsJoin
    <3> QED BY ONLY <2>1, <2>2, <3>1
  <2>5. Lacks(sw, "probe")
    <3>1. \A x \in Elems(sw) : x.eff # "probe"
      BY ONLY <1>3, <1>5, <2>4
    <3> QED BY ONLY <2>3, <3>1, LacksSay
  <2>6. Holds(sw, "phase2")
    <3>1. b \in Elems(sw) /\ b.onfail # 0
      BY ONLY <1>5, <2>4
    <3>2. Holds(sw, b.eff)
      BY ONLY <2>3, <3>1, HoldsSay
    <3> QED BY ONLY <1>5, <3>2
  <2> QED BY ONLY <2>3, <2>5, <2>6, OrderJoin
<1> QED BY <1>1, <1>11, <1>12

\* What a cart does with the answer to its probe.
LEMMA AfterProbeIs ==
  ASSUME NEW cart, NEW rc \in Codes
  PROVE  CartPlan(AfterProbe(cart, rc))
<1> PICK r : r = Report(cart)
  OBVIOUS
<1> PICK e : e = Exit(rc)
  OBVIOUS
<1>1. /\ r \in Steps /\ r.eff \in CartEffs /\ e \in Steps /\ e.eff \in CartEffs
  BY CartStep DEF CartEffs
<1>2. CartPlan(<<r>>) /\ CartPlan(<<e>>)
  BY <1>1, CartPlan1
<1> PICK a : a = When(~(cart.probe = "write" /\ rc = 0), <<r>>)
  OBVIOUS
<1> PICK b : b = When(cart.image = "static", <<r>>)
  OBVIOUS
<1>3. CartPlan(a)
  <2>1. (~(cart.probe = "write" /\ rc = 0)) \in BOOLEAN
    OBVIOUS
  <2> QED BY <1>2, <2>1, CartPlanWhen
<1>4. CartPlan(b)
  BY <1>2, CartPlanWhen
<1>5. CartPlan(a \o b)
  BY ONLY <1>3, <1>4, CartPlanJoin
<1>6. CartPlan(a \o b \o <<e>>)
  BY ONLY <1>2, <1>5, CartPlanJoin
<1> QED BY <1>6 DEF AfterProbe

\* The steps left after the first.
LEMMA TailIs ==
  ASSUME NEW s \in Seq(Steps), s # << >>
  PROVE  /\ Head(s) \in Steps /\ Head(s) \in Elems(s) /\ Tail(s) \in Seq(Steps)
         /\ Len(s) \in Nat /\ Len(s) >= 1 /\ Len(Tail(s)) = Len(s) - 1 /\ Head(s) = s[1]
         /\ \A i \in 1 .. Len(Tail(s)) : i + 1 \in 1 .. Len(s) /\ Tail(s)[i] = s[i + 1]
         /\ \A i \in 1 .. Len(s) : i = 1 \/ (i - 1 \in 1 .. Len(Tail(s)) /\ s[i] = Tail(s)[i - 1])
<1>1. Len(s) \in Nat /\ Len(s) >= 1
  OBVIOUS
<1>2. Head(s) = s[1] /\ 1 \in 1 .. Len(s) /\ s[1] \in Steps
  BY <1>1
<1>3. Tail(s) \in Seq(Steps) /\ Len(Tail(s)) = Len(s) - 1
  BY <1>1
<1>4. \A i \in 1 .. Len(Tail(s)) : i + 1 \in 1 .. Len(s) /\ Tail(s)[i] = s[i + 1]
  BY <1>1, <1>3
<1>5. ASSUME NEW i \in 1 .. Len(s), i # 1
      PROVE  i - 1 \in 1 .. Len(Tail(s)) /\ s[i] = Tail(s)[i - 1]
  <2>1. i - 1 \in 1 .. Len(Tail(s)) /\ (i - 1) + 1 = i
    BY <1>1, <1>3, <1>5
  <2> QED BY <1>4, <2>1
<1> QED BY <1>1, <1>2, <1>3, <1>4, <1>5 DEF Elems

\* What is true of the rest of the steps.
LEMMA TailEffects ==
  ASSUME NEW s \in Seq(Steps), s # << >>, NEW h, h = Head(s), NEW t, t = Tail(s)
  PROVE  /\ ExecLast(s) => ExecLast(t)
         /\ \A e : Lacks(s, e) => Lacks(t, e) /\ h.eff # e
         /\ \A e : Holds(s, e) => Holds(t, e) \/ (h.eff = e /\ h.onfail # 0)
<1> PICK n \in Nat : n = Len(t)
  BY TailIs
<1>1. /\ h \in Steps /\ h \in Elems(s) /\ t \in Seq(Steps) /\ Len(s) = n + 1 /\ h = s[1]
      /\ \A i \in 1 .. n : i + 1 \in 1 .. (n + 1) /\ t[i] = s[i + 1]
      /\ \A i \in 1 .. (n + 1) : i = 1 \/ (i - 1 \in 1 .. n /\ s[i] = t[i - 1])
  BY TailIs
<1>2. 1 \in 1 .. (n + 1) /\ \A i, j \in 1 .. (n + 1) : i < j <=> i - 1 < j - 1
  OBVIOUS
<1>3. \A i \in 1 .. (n + 1) : i # 1 => 1 < i
  OBVIOUS
<1>4. \A x \in Elems(t) : x \in Elems(s)
  BY <1>1 DEF Elems
<1>5. ASSUME ExecLast(s) PROVE ExecLast(t)
  <2>1. ASSUME NEW i \in 1 .. n, t[i].eff = "exec" PROVE i = n
    <3>1. i + 1 = n + 1
      BY <1>1, <1>5, <2>1 DEF ExecLast
    <3> QED BY <3>1
  <2> QED BY <2>1 DEF ExecLast
<1>6. ASSUME NEW e, Lacks(s, e) PROVE Lacks(t, e) /\ h.eff # e
  BY <1>1, <1>2, <1>6 DEF Lacks
<1>7. ASSUME NEW e, Holds(s, e) PROVE Holds(t, e) \/ (h.eff = e /\ h.onfail # 0)
  <2>1. PICK i \in 1 .. (n + 1) : s[i].eff = e /\ s[i].onfail # 0
    BY <1>1, <1>7 DEF Holds
  <2>2. CASE i = 1
    BY <1>1, <2>1, <2>2
  <2>3. CASE i # 1
    <3>1. i - 1 \in 1 .. n /\ s[i] = t[i - 1]
      BY <1>1, <2>3
    <3> QED BY <2>1, <3>1 DEF Holds
  <2> QED BY <2>2, <2>3
<1> QED BY <1>5, <1>6, <1>7

\* The order of what the launcher still does.
LEMMA TailGuarded ==
  ASSUME NEW s \in Seq(Steps), s # << >>, NEW h, h = Head(s), NEW t, t = Tail(s)
  PROVE  /\ RootThenDetach(s) => RootThenDetach(t)
         /\ RootThenDetach(s) /\ h.eff = "root" => Holds(t, "detach")
         /\ AllQuiet(s) => AllQuiet(t) /\ Quiet(h)
         /\ \A f : Guarded(s, f) => Guarded(t, f)
         /\ \A f : Guarded(s, f) /\ h.eff \in Filters => h.eff = f /\ AllQuiet(t)
<1> PICK n \in Nat : n = Len(t)
  BY TailIs
<1>1. /\ h \in Steps /\ h \in Elems(s) /\ t \in Seq(Steps) /\ Len(s) = n + 1 /\ h = s[1]
      /\ \A i \in 1 .. n : i + 1 \in 1 .. (n + 1) /\ t[i] = s[i + 1]
      /\ \A i \in 1 .. (n + 1) : i = 1 \/ (i - 1 \in 1 .. n /\ s[i] = t[i - 1])
  BY TailIs
<1>2. 1 \in 1 .. (n + 1) /\ \A i, j \in 1 .. (n + 1) : i < j <=> i - 1 < j - 1
  OBVIOUS
<1>3. \A i \in 1 .. (n + 1) : i # 1 => 1 < i
  OBVIOUS
<1>4. \A x \in Elems(t) : x \in Elems(s)
  BY <1>1 DEF Elems
<1>8. ASSUME RootThenDetach(s), NEW i \in 1 .. (n + 1), s[i].eff = "root"
      PROVE  \E j \in 1 .. n : i - 1 < j /\ t[j].eff = "detach" /\ t[j].onfail # 0
  <2>1. PICK j \in 1 .. (n + 1) : i < j /\ s[j].eff = "detach" /\ s[j].onfail # 0
    BY <1>1, <1>8 DEF RootThenDetach
  <2>2. j # 1 /\ i - 1 < j - 1
    BY <2>1
  <2>3. j - 1 \in 1 .. n /\ s[j] = t[j - 1]
    BY <1>1, <2>2
  <2> QED BY <2>1, <2>2, <2>3
<1>9. ASSUME RootThenDetach(s) PROVE RootThenDetach(t)
  <2>1. ASSUME NEW i \in 1 .. n, t[i].eff = "root"
        PROVE  \E j \in 1 .. n : i < j /\ t[j].eff = "detach" /\ t[j].onfail # 0
    <3>1. i + 1 \in 1 .. (n + 1) /\ s[i + 1].eff = "root" /\ (i + 1) - 1 = i
      BY <1>1, <2>1
    <3>2. \E j \in 1 .. n : (i + 1) - 1 < j /\ t[j].eff = "detach" /\ t[j].onfail # 0
      BY <1>8, <1>9, <3>1
    <3> QED BY <3>1, <3>2
  <2> QED BY <2>1 DEF RootThenDetach
<1>10. ASSUME RootThenDetach(s), h.eff = "root" PROVE Holds(t, "detach")
  BY <1>1, <1>2, <1>8, <1>10 DEF Holds
<1>11. AllQuiet(s) => AllQuiet(t) /\ Quiet(h)
  BY <1>1, <1>4 DEF AllQuiet
<1>12. ASSUME NEW f, Guarded(s, f) PROVE Guarded(t, f)
  <2>1. ASSUME NEW i \in 1 .. n, t[i].eff \in Filters
        PROVE  t[i].eff = f /\ \A j \in 1 .. n : i < j => Quiet(t[j])
    <3>1. s[i + 1].eff = f /\ \A j \in 1 .. (n + 1) : i + 1 < j => Quiet(s[j])
      BY <1>1, <1>12, <2>1 DEF Guarded
    <3>2. ASSUME NEW j \in 1 .. n, i < j PROVE Quiet(t[j])
      <4>1. j + 1 \in 1 .. (n + 1) /\ i + 1 < j + 1 /\ t[j] = s[j + 1]
        BY <1>1, <3>2
      <4> QED BY <3>1, <4>1
    <3> QED BY <1>1, <3>1, <3>2
  <2> QED BY <2>1 DEF Guarded
<1>13. ASSUME NEW f, Guarded(s, f), h.eff \in Filters PROVE h.eff = f /\ AllQuiet(t)
  <2>1. h.eff = f /\ \A j \in 1 .. (n + 1) : 1 < j => Quiet(s[j])
    BY <1>1, <1>2, <1>13 DEF Guarded
  <2>2. \A j \in 1 .. n : Quiet(t[j])
    <3> TAKE j \in 1 .. n
    <3>1. j + 1 \in 1 .. (n + 1) /\ 1 < j + 1 /\ t[j] = s[j + 1]
      BY <1>1
    <3> QED BY <2>1, <3>1
  <2> QED BY <2>1, <2>2 DEF AllQuiet, Elems
<1> QED BY <1>9, <1>10, <1>11, <1>12, <1>13

\* The order of what the cart still does.
LEMMA TailCart ==
  ASSUME NEW s \in Seq(Steps), s # << >>, NEW h, h = Head(s), NEW t, t = Tail(s)
  PROVE  /\ Narrowed(s) => h.eff # "probe"
         /\ Narrowed(s) /\ ~(h.eff = "phase2" /\ h.onfail # 0) => Narrowed(t)
         /\ CartPlan(s) => CartPlan(t) /\ h.eff \in CartEffs
<1> PICK n \in Nat : n = Len(t)
  BY TailIs
<1>1. /\ h \in Steps /\ h \in Elems(s) /\ t \in Seq(Steps) /\ Len(s) = n + 1 /\ h = s[1]
      /\ \A i \in 1 .. n : i + 1 \in 1 .. (n + 1) /\ t[i] = s[i + 1]
      /\ \A i \in 1 .. (n + 1) : i = 1 \/ (i - 1 \in 1 .. n /\ s[i] = t[i - 1])
  BY TailIs
<1>2. 1 \in 1 .. (n + 1) /\ \A i, j \in 1 .. (n + 1) : i < j <=> i - 1 < j - 1
  OBVIOUS
<1>3. \A i \in 1 .. (n + 1) : i # 1 => 1 < i
  OBVIOUS
<1>4. \A x \in Elems(t) : x \in Elems(s)
  BY <1>1 DEF Elems
<1>14. ASSUME Narrowed(s) PROVE h.eff # "probe"
  <2>1. \A j \in 1 .. (n + 1) : ~(j < 1)
    OBVIOUS
  <2> QED BY <1>1, <1>2, <1>14, <2>1 DEF Narrowed
<1>15. ASSUME Narrowed(s), ~(h.eff = "phase2" /\ h.onfail # 0) PROVE Narrowed(t)
  <2>1. ASSUME NEW i \in 1 .. n, t[i].eff = "probe"
        PROVE  \E j \in 1 .. n : j < i /\ t[j].eff = "phase2" /\ t[j].onfail # 0
    <3>1. i + 1 \in 1 .. (n + 1) /\ s[i + 1].eff = "probe"
      BY <1>1, <2>1
    <3>2. PICK j \in 1 .. (n + 1) : j < i + 1 /\ s[j].eff = "phase2" /\ s[j].onfail # 0
      BY <1>1, <1>15, <3>1 DEF Narrowed
    <3>3. j # 1
      BY <1>1, <1>15, <3>2
    <3>4. j - 1 \in 1 .. n /\ s[j] = t[j - 1] /\ j - 1 < i
      BY <1>1, <3>2, <3>3
    <3> QED BY <3>2, <3>4
  <2> QED BY <2>1 DEF Narrowed
<1>16. CartPlan(s) => CartPlan(t) /\ h.eff \in CartEffs
  BY <1>1, <1>4 DEF CartPlan
<1> QED BY <1>14, <1>15, <1>16

PlainStatuses == {Running, -31, -11} \cup Codes
Statuses == PlainStatuses \cup CartCodes
Children ==
  [image : CartImages \cup {"none", "launcher", "shell"}, todo : Seq(Steps), nnp : BOOLEAN,
   filters : Seq(Filters), ns : SUBSET {"mnt", "net"}, private : BOOLEAN, root : {"host", "new"},
   old : BOOLEAN, cgroup : BOOLEAN, probed : BOOLEAN, status : Statuses]

IsChild(c) ==
  c = [image |-> c.image, todo |-> c.todo, nnp |-> c.nnp, filters |-> c.filters, ns |-> c.ns,
       private |-> c.private, root |-> c.root, old |-> c.old, cgroup |-> c.cgroup,
       probed |-> c.probed, status |-> c.status]

\* The namespaces unshare is asked for.
Asks(o) == {n \in {"mnt", "net"} : \/ n = "mnt" /\ o.mountns
                                   \/ n = "net" /\ o.netns}

\* The call carried out leaves the child with these.
LEMMA EffectFields ==
  ASSUME child \in Children, NEW h \in Steps, NEW X, X = Effect(h)
  PROVE  /\ IsChild(X)
         /\ X.nnp = (child.nnp \/ h.eff = "nnp")
         /\ X.ns = IF h.eff = "ns" THEN Asks(Current.opts) ELSE child.ns
         /\ X.private = (child.private \/ h.eff = "private")
         /\ X.root = IF h.eff = "root" THEN "new" ELSE child.root
         /\ X.old = ((child.old /\ h.eff # "detach") \/ h.eff = "root")
         /\ X.cgroup = (child.cgroup \/ h.eff = "cgroup")
         /\ X.filters = IF h.eff \in Filters THEN Append(child.filters, h.eff) ELSE child.filters
         /\ X.probed = (child.probed \/ h.eff = "probe")
         /\ X.status = IF h.eff = "exit" THEN h.onfail ELSE child.status
         /\ X.image = IF h.eff = "exec" THEN Current.cart.image
                      ELSE IF h.eff = "probe" /\ Current.cart.probe = "execve" THEN "shell"
                      ELSE child.image
         /\ h.eff \notin {"exec", "probe", "inline", "exit"} => X.todo = Tail(child.todo)
         /\ h.eff = "exec" => X.todo = CartSteps(Current.cart)
         /\ h.eff = "probe" =>
              X.todo = IF Current.cart.probe = "execve"
                       THEN <<Step(ShellStartUp, "none", 0), Exit(0)>>
                       ELSE AfterProbe(Current.cart, 0)
         /\ h.eff = "inline" => X.todo = <<Exit(0)>>
         /\ h.eff = "exit" => X.todo = << >>
<1> PICK t : t = Tail(child.todo)
  OBVIOUS
<1> PICK rest : rest = [child EXCEPT !.todo = t]
  OBVIOUS
<1>1. /\ rest.nnp = child.nnp /\ rest.ns = child.ns /\ rest.private = child.private
      /\ rest.root = child.root /\ rest.old = child.old /\ rest.cgroup = child.cgroup
      /\ rest.filters = child.filters /\ rest.probed = child.probed
      /\ rest.status = child.status /\ rest.image = child.image /\ rest.todo = t
      /\ IsChild(rest)
      /\ child.nnp \in BOOLEAN /\ child.private \in BOOLEAN /\ child.old \in BOOLEAN
      /\ child.cgroup \in BOOLEAN /\ child.probed \in BOOLEAN
  BY DEF Children, IsChild
<1>2. DOMAIN Program = Filters
  BY FiltersAre
<1>3. h.eff \in Effs
  BY DEF Steps
<1>4. CASE h.eff = "nnp"
  <2>1. X = [rest EXCEPT !.nnp = TRUE]
    BY <1>2, <1>4 DEF Effect, Filters
  <2> QED BY ONLY <1>1, <1>4, <2>1, t = Tail(child.todo) DEF Filters, IsChild
<1>5. CASE h.eff = "ns"
  <2>1. X = [rest EXCEPT !.ns = Asks(Current.opts)]
    BY <1>2, <1>5 DEF Effect, Filters, Asks
  <2> QED BY ONLY <1>1, <1>5, <2>1, t = Tail(child.todo) DEF Filters, IsChild
<1>6. CASE h.eff = "private"
  <2>1. X = [rest EXCEPT !.private = TRUE]
    BY <1>2, <1>6 DEF Effect, Filters
  <2> QED BY ONLY <1>1, <1>6, <2>1, t = Tail(child.todo) DEF Filters, IsChild
<1>7. CASE h.eff = "root"
  <2>1. X = [rest EXCEPT !.root = "new", !.old = TRUE]
    BY <1>2, <1>7 DEF Effect, Filters
  <2> QED BY ONLY <1>1, <1>7, <2>1, t = Tail(child.todo) DEF Filters, IsChild
<1>8. CASE h.eff = "detach"
  <2>1. X = [rest EXCEPT !.old = FALSE]
    BY <1>2, <1>8 DEF Effect, Filters
  <2> QED BY ONLY <1>1, <1>8, <2>1, t = Tail(child.todo) DEF Filters, IsChild
<1>9. CASE h.eff = "cgroup"
  <2>1. X = [rest EXCEPT !.cgroup = TRUE]
    BY <1>2, <1>9 DEF Effect, Filters
  <2> QED BY ONLY <1>1, <1>9, <2>1, t = Tail(child.todo) DEF Filters, IsChild
<1>10. CASE h.eff \in Filters
  <2>1. X = [rest EXCEPT !.filters = Append(child.filters, h.eff)]
    BY <1>1, <1>2, <1>10 DEF Effect, Filters
  <2>2. h.eff \notin {"nnp", "ns", "private", "root", "detach", "cgroup", "exec", "probe",
                     "inline", "exit"}
    BY <1>10 DEF Filters
  <2> QED BY ONLY <1>1, <1>10, <2>1, <2>2, t = Tail(child.todo) DEF IsChild
<1>11. CASE h.eff = "exec"
  <2>1. X = [rest EXCEPT !.image = Current.cart.image, !.todo = CartSteps(Current.cart)]
    BY <1>2, <1>11 DEF Effect, Filters
  <2> QED BY ONLY <1>1, <1>11, <2>1 DEF Filters, IsChild
<1>12. CASE h.eff = "probe"
  <2>1. X = IF Current.cart.probe = "execve"
            THEN [rest EXCEPT !.image = "shell", !.probed = TRUE,
                              !.todo = <<Step(ShellStartUp, "none", 0), Exit(0)>>]
            ELSE [rest EXCEPT !.probed = TRUE, !.todo = AfterProbe(Current.cart, 0)]
    BY <1>2, <1>12 DEF Effect, Filters
  <2> PICK u : u = <<Step(ShellStartUp, "none", 0), Exit(0)>>
    OBVIOUS
  <2> PICK v : v = AfterProbe(Current.cart, 0)
    OBVIOUS
  <2>2. X = IF Current.cart.probe = "execve"
            THEN [rest EXCEPT !.image = "shell", !.probed = TRUE, !.todo = u]
            ELSE [rest EXCEPT !.probed = TRUE, !.todo = v]
    BY ONLY <2>1, u = <<Step(ShellStartUp, "none", 0), Exit(0)>>, v = AfterProbe(Current.cart, 0)
  <2>3. CASE Current.cart.probe = "execve"
    BY ONLY <1>1, <1>12, <2>2, <2>3, u = <<Step(ShellStartUp, "none", 0), Exit(0)>> DEF Filters, IsChild
  <2>4. CASE Current.cart.probe # "execve"
    BY ONLY <1>1, <1>12, <2>2, <2>4, v = AfterProbe(Current.cart, 0) DEF Filters, IsChild
  <2> QED BY ONLY <2>3, <2>4
<1>13. CASE h.eff = "inline"
  <2> PICK u : u = <<Exit(0)>>
    OBVIOUS
  <2>1. X = [rest EXCEPT !.todo = u]
    BY <1>2, <1>13 DEF Effect, Filters
  <2> QED BY ONLY <1>1, <1>13, <2>1, u = <<Exit(0)>> DEF Filters, IsChild
<1>14. CASE h.eff = "exit"
  <2>1. X = [rest EXCEPT !.todo = << >>, !.status = h.onfail]
    BY <1>2, <1>14 DEF Effect, Filters
  <2> QED BY ONLY <1>1, <1>14, <2>1 DEF Filters, IsChild
<1>15. CASE h.eff = "none" \/ h.eff = "bind"
  <2>1. X = rest
    BY <1>2, <1>15 DEF Effect, Filters
  <2> QED BY ONLY <1>1, <1>15, <2>1, t = Tail(child.todo) DEF Filters, IsChild
<1>16. \/ h.eff = "nnp" \/ h.eff = "ns" \/ h.eff = "private" \/ h.eff = "root"
       \/ h.eff = "detach" \/ h.eff = "cgroup" \/ h.eff \in Filters \/ h.eff = "exec"
       \/ h.eff = "probe" \/ h.eff = "inline" \/ h.eff = "exit" \/ h.eff = "none"
       \/ h.eff = "bind"
  BY ONLY <1>3 DEF Effs
<1> QED BY <1>4, <1>5, <1>6, <1>7, <1>8, <1>9, <1>10, <1>11, <1>12, <1>13, <1>14, <1>15, <1>16

\* A child, from the types of its fields and back.
LEMMA ChildType ==
  ASSUME NEW c, IsChild(c), c.image \in CartImages \cup {"none", "launcher", "shell"},
         c.todo \in Seq(Steps), c.nnp \in BOOLEAN, c.filters \in Seq(Filters),
         c.ns \in SUBSET {"mnt", "net"}, c.private \in BOOLEAN, c.root \in {"host", "new"},
         c.old \in BOOLEAN, c.cgroup \in BOOLEAN, c.probed \in BOOLEAN, c.status \in Statuses
  PROVE  c \in Children
  BY DEF Children, IsChild

LEMMA ChildHas ==
  ASSUME NEW c \in Children
  PROVE  /\ IsChild(c) /\ c.image \in CartImages \cup {"none", "launcher", "shell"}
         /\ c.todo \in Seq(Steps) /\ c.nnp \in BOOLEAN /\ c.filters \in Seq(Filters)
         /\ c.ns \in SUBSET {"mnt", "net"} /\ c.private \in BOOLEAN /\ c.root \in {"host", "new"}
         /\ c.old \in BOOLEAN /\ c.cgroup \in BOOLEAN /\ c.probed \in BOOLEAN
         /\ c.status \in Statuses
  BY DEF Children, IsChild

\* A step that fails leaves everything but the steps to come and the probe.
LEMMA FailureFields ==
  ASSUME child \in Children, NEW h \in Steps, NEW X, X = OnFailure(h)
  PROVE  /\ IsChild(X)
         /\ X.nnp = child.nnp /\ X.ns = child.ns /\ X.private = child.private
         /\ X.root = child.root /\ X.old = child.old /\ X.cgroup = child.cgroup
         /\ X.filters = child.filters /\ X.image = child.image /\ X.status = child.status
         /\ X.probed = (child.probed \/ h.eff = "probe")
         /\ h.eff = "probe" => X.todo = AfterProbe(Current.cart, 1)
         /\ h.eff = "inline" => X.todo = <<Exit(1)>>
         /\ h.eff \notin {"probe", "inline"} =>
              X.todo = IF h.onfail = 0 THEN Tail(child.todo) ELSE <<Note, Exit(h.onfail)>>
<1>1. IsChild(child) /\ child.probed \in BOOLEAN
  BY DEF Children, IsChild
<1>2. CASE h.eff = "probe"
  <2> PICK u : u = AfterProbe(Current.cart, 1)
    OBVIOUS
  <2>1. X = [child EXCEPT !.probed = TRUE, !.todo = u]
    BY <1>2 DEF OnFailure
  <2> QED BY ONLY <1>1, <1>2, <2>1, u = AfterProbe(Current.cart, 1) DEF IsChild
<1>3. CASE h.eff = "inline"
  <2> PICK u : u = <<Exit(1)>>
    OBVIOUS
  <2>1. X = [child EXCEPT !.todo = u]
    BY <1>3 DEF OnFailure
  <2> QED BY ONLY <1>1, <1>3, <2>1, u = <<Exit(1)>> DEF IsChild
<1>4. CASE h.eff \notin {"probe", "inline"} /\ h.onfail = 0
  <2> PICK u : u = Tail(child.todo)
    OBVIOUS
  <2>1. X = [child EXCEPT !.todo = u]
    BY <1>4 DEF OnFailure
  <2> QED BY ONLY <1>1, <1>4, <2>1, u = Tail(child.todo) DEF IsChild
<1>5. CASE h.eff \notin {"probe", "inline"} /\ h.onfail # 0
  <2> PICK u : u = <<Note, Exit(h.onfail)>>
    OBVIOUS
  <2>1. X = [child EXCEPT !.todo = u]
    BY <1>5 DEF OnFailure
  <2> QED BY ONLY <1>1, <1>5, <2>1, u = <<Note, Exit(h.onfail)>> DEF IsChild
<1> QED BY <1>2, <1>3, <1>4, <1>5

\* The two endings: an exit, a message and an exit.
LEMMA Endings ==
  ASSUME NEW k \in Codes
  PROVE  /\ CartPlan(<<Exit(k)>>) /\ CartPlan(<<Note, Exit(k)>>)
         /\ AllQuiet(<<Note, Exit(k)>>)
         /\ \A e : e # "exit" => Lacks(<<Exit(k)>>, e)
         /\ \A e : e \notin {"exit", "none"} => Lacks(<<Note, Exit(k)>>, e)
         /\ Elems(<<Note, Exit(k)>>) = {Note, Exit(k)}
         /\ CartPlan(<<Step(ShellStartUp, "none", 0), Exit(k)>>)
<1> PICK n : n = Note
  OBVIOUS
<1> PICK x : x = Exit(k)
  OBVIOUS
<1> PICK u : u = Step(ShellStartUp, "none", 0)
  OBVIOUS
<1>1. n \in Steps /\ x \in Steps /\ u \in Steps /\ u.eff = "none"
  <2>1. ShellStartUp \in SUBSET Calls
    BY DEF ShellStartUp, Calls
  <2> QED BY <2>1, LauncherSteps, CartStep
<1>2. n.eff = "none" /\ n.sys = {"write"} /\ x.eff = "exit" /\ x.sys = {"exit_group"}
  BY DEF Note, Exit, Step
<1>3. n.eff \in CartEffs /\ x.eff \in CartEffs /\ u.eff \in CartEffs
  BY <1>1, <1>2 DEF CartEffs
<1>4. CartPlan(<<x>>) /\ CartPlan(<<n, x>>) /\ CartPlan(<<u, x>>)
  BY ONLY <1>1, <1>3, CartPlan1, CartPlan2
<1>5. <<x>> \in Seq(Steps) /\ Elems(<<x>>) = {x}
  BY ONLY <1>1, Elems1
<1>6. <<n, x>> \in Seq(Steps) /\ Elems(<<n, x>>) = {n, x}
  BY ONLY <1>1, Elems2
<1>7. Quiet(n) /\ Quiet(x)
  BY ONLY <1>2 DEF Quiet, Filters
<1>8. AllQuiet(<<n, x>>)
  BY ONLY <1>6, <1>7 DEF AllQuiet
<1>9. ASSUME NEW e, e # "exit" PROVE Lacks(<<x>>, e)
  <2>1. \A y \in Elems(<<x>>) : y.eff # e
    BY ONLY <1>2, <1>5, <1>9
  <2> QED BY ONLY <1>5, <2>1, LacksSay
<1>10. ASSUME NEW e, e \notin {"exit", "none"} PROVE Lacks(<<n, x>>, e)
  <2>1. \A y \in Elems(<<n, x>>) : y.eff # e
    BY ONLY <1>2, <1>6, <1>10
  <2> QED BY ONLY <1>6, <2>1, LacksSay
<1> QED BY <1>4, <1>6, <1>8, <1>9, <1>10

ByLauncher(cs) == cs.kind \in {"h", "r", "s"}

\* The effect e is in force.
Did(c, o, e) ==
  /\ e = "nnp" => c.nnp
  /\ e = "ns" => c.ns = Asks(o)
  /\ e = "private" => c.private
  /\ e = "root" => c.root = "new"
  /\ e = "cgroup" => c.cgroup
  /\ e \in Filters => e \in ToSet(c.filters)

\* The launcher exits with a status of its own.
Nonzero(s) == \A x \in Elems(s) : x.eff = "exit" => x.onfail # 0

\* On its way to execve the child has done, or has to do and will stop at,
\* each thing it was asked for.
Heading(c, cs) ==
  \/ Lacks(c.todo, "exec")
  \/ /\ \A e \in Needs(cs) : Did(c, cs.opts, e) \/ Holds(c.todo, e)
     /\ c.old => Holds(c.todo, "detach")
Isolates(c, cs) ==
  /\ Heading(c, cs)
  /\ RootThenDetach(c.todo)
  /\ Guarded(c.todo, FilterOf[cs.kind])
  /\ c.filters = << >> \/ (c.filters = <<FilterOf[cs.kind]>> /\ AllQuiet(c.todo))
  /\ Lacks(c.todo, "inline") /\ Nonzero(c.todo)
  /\ c.status \notin {0, -31}
Setup(c, cs) ==
  /\ ~c.probed /\ AnyPlan(cs, c.todo)
  /\ ByLauncher(cs) => Isolates(c, cs)

\* The cart runs behind all of it.
Behind(c, cs) == (\A e \in Needs(cs) : Did(c, cs.opts, e)) /\ ~c.old
CartOK(c, cs) ==
  /\ CartPlan(c.todo)
  /\ c.image = "dynamic" => "phase2" \in ToSet(c.filters) \/ (~c.probed /\ Narrowed(c.todo))
  /\ ByLauncher(cs) => Behind(c, cs)

ChildOK(c, cs) ==
  /\ c \in Children
  /\ c.image = "none" => c = NoChild
  /\ c.image = "launcher" => Setup(c, cs)
  /\ c.image \notin {"none", "launcher"} => CartOK(c, cs)

\* With no step left everything about the steps holds.
LEMMA NoSteps ==
  /\ << >> \in Seq(Steps) /\ ExecLast(<< >>) /\ RootThenDetach(<< >>) /\ AllQuiet(<< >>)
  /\ Narrowed(<< >>) /\ CartPlan(<< >>) /\ Nonzero(<< >>)
  /\ \A e : Lacks(<< >>, e) /\ Guarded(<< >>, e)
<1>1. << >> \in Seq(Steps) /\ Len(<< >>) = 0
  OBVIOUS
<1>2. Elems(<< >>) = {}
  BY <1>1 DEF Elems
<1> QED BY <1>1, <1>2 DEF ExecLast, RootThenDetach, AllQuiet, Narrowed, CartPlan, Nonzero, Lacks,
                         Guarded

\* Nothing is quieter than a list without filters.
LEMMA QuietGuarded ==
  ASSUME NEW s \in Seq(Steps), AllQuiet(s), NEW f
  PROVE  Guarded(s, f)
  BY DEF AllQuiet, Guarded, Quiet, Elems

\* What a launch needs is neither the execve nor another launcher's filter.
LEMMA NeedsAre ==
  ASSUME NEW cs, IsCase(cs), ByLauncher(cs)
  PROVE  /\ "exec" \notin Needs(cs) /\ FilterOf[cs.kind] \in {"spike_h", "unified", "phase1"}
         /\ FilterOf[cs.kind] \in Filters
         /\ Needs(cs) \subseteq {"nnp", "ns", "private", "root", "cgroup", FilterOf[cs.kind]}
<1>1. FilterOf["h"] = "spike_h" /\ FilterOf["r"] = "unified" /\ FilterOf["s"] = "phase1"
  BY DEF FilterOf
<1>2. FilterOf[cs.kind] \in {"spike_h", "unified", "phase1"}
  BY <1>1 DEF ByLauncher
<1>3. FilterOf[cs.kind] \in Filters
  BY ONLY <1>2 DEF Filters
<1>4. Needs(cs) \subseteq {"nnp", "ns", "private", "root", "cgroup", FilterOf[cs.kind]}
  <2>1. CASE cs.kind = "s"
    BY <1>1, <2>1 DEF Needs, NeedsS
  <2>2. CASE cs.kind # "s"
    BY ONLY <2>2 DEF Needs, NeedsHR
  <2> QED BY <2>1, <2>2
<1> QED BY ONLY <1>2, <1>3, <1>4

\* The last step of the launcher has nothing behind it.
LEMMA AtExec ==
  ASSUME NEW s \in Seq(Steps), s # << >>, ExecLast(s), Head(s).eff = "exec", NEW e, Holds(s, e)
  PROVE  e = "exec"
<1>1. Head(s) = s[1] /\ Len(s) \in Nat /\ Len(s) >= 1
  BY TailIs
<1>2. 1 = Len(s)
  <2>1. 1 \in 1 .. Len(s) /\ s[1].eff = "exec"
    BY <1>1
  <2> QED BY ONLY <2>1, ExecLast(s) DEF ExecLast
<1>3. PICK i \in 1 .. Len(s) : s[i].eff = e
  BY DEF Holds
<1>4. i = 1
  BY <1>2, <1>3
<1> QED BY <1>1, <1>3, <1>4

\* Installing one more filter.
LEMMA Appended ==
  ASSUME NEW fs \in Seq(Filters), NEW f \in Filters
  PROVE  /\ Append(fs, f) \in Seq(Filters) /\ ToSet(Append(fs, f)) = ToSet(fs) \cup {f}
         /\ ToSet(<<f>>) = {f} /\ Append(<< >>, f) = <<f>>
<1> PICK n \in Nat : n = Len(fs)
  OBVIOUS
<1>1. /\ Append(fs, f) \in Seq(Filters) /\ Len(Append(fs, f)) = n + 1
      /\ \A i \in 1 .. n : Append(fs, f)[i] = fs[i]
      /\ Append(fs, f)[n + 1] = f
  OBVIOUS
<1>2. \A i \in 1 .. (n + 1) : i \in 1 .. n \/ i = n + 1
  OBVIOUS
<1>3. n + 1 \in 1 .. (n + 1) /\ \A i \in 1 .. n : i \in 1 .. (n + 1)
  OBVIOUS
<1>4. ToSet(Append(fs, f)) = ToSet(fs) \cup {f}
  BY <1>1, <1>2, <1>3 DEF ToSet
<1>5. ToSet(<<f>>) = {f}
  BY DEF ToSet
<1>6. Append(<< >>, f) = <<f>>
  OBVIOUS
<1> QED BY <1>1, <1>4, <1>5, <1>6

\* A step of the launcher's that is carried out.
LEMMA SetupTypes ==
  ASSUME child \in Children, child.todo # << >>, IsCase(Current), NEW X, X = Effect(Head(child.todo)),
         Head(child.todo).eff = "exec" => Current.cart.image \in CartImages
  PROVE  X \in Children
<1> PICK h : h = Head(child.todo)
  OBVIOUS
<1>1. child.todo \in Seq(Steps) /\ child.filters \in Seq(Filters)
  BY ChildHas
<1>2. h \in Steps /\ Tail(child.todo) \in Seq(Steps)
  BY ONLY <1>1, child.todo # << >>, h = Head(child.todo), TailIs
<1>3. h.onfail \in Codes
  BY <1>2 DEF Steps
<1>4. X.todo \in Seq(Steps)
  <2>1. 0 \in Codes
    BY DEF Codes
  <2>2. CartSteps(Current.cart) \in Seq(Steps)
    BY CartStepsAre DEF CartPlan
  <2>3. AfterProbe(Current.cart, 0) \in Seq(Steps)
    BY <2>1, AfterProbeIs DEF CartPlan
  <2>4. <<Exit(0)>> \in Seq(Steps) /\ <<Step(ShellStartUp, "none", 0), Exit(0)>> \in Seq(Steps)
    BY <2>1, Endings DEF CartPlan
  <2>5. << >> \in Seq(Steps)
    BY NoSteps
  <2> QED BY <1>2, <2>2, <2>3, <2>4, <2>5, EffectFields
<1>5. X.filters \in Seq(Filters)
  <2>1. X.filters = IF h.eff \in Filters THEN Append(child.filters, h.eff) ELSE child.filters
    BY <1>1, <1>2, EffectFields
  <2> QED BY ONLY <1>1, <2>1, Appended
<1>6. X.status \in Statuses
  BY <1>2, <1>3, ChildHas, EffectFields DEF Statuses, PlainStatuses
<1>7. X.image \in CartImages \cup {"none", "launcher", "shell"}
  BY <1>2, ChildHas, EffectFields
<1>8. IsChild(X) /\ X.nnp \in BOOLEAN /\ X.private \in BOOLEAN /\ X.cgroup \in BOOLEAN
      /\ X.old \in BOOLEAN /\ X.probed \in BOOLEAN
  BY <1>2, EffectFields
<1>9. X.ns \in SUBSET {"mnt", "net"} /\ X.root \in {"host", "new"}
  <2>1. Asks(Current.opts) \in SUBSET {"mnt", "net"}
    BY DEF Asks
  <2>2. child.ns \in SUBSET {"mnt", "net"} /\ child.root \in {"host", "new"}
    BY ChildHas
  <2> QED BY <1>2, <2>1, <2>2, EffectFields
<1> QED BY ONLY <1>4, <1>5, <1>6, <1>7, <1>8, <1>9, ChildType

\* A step that fails leaves a child.
LEMMA FailTypes ==
  ASSUME child \in Children, child.todo # << >>, IsCase(Current),
         NEW X, X = OnFailure(Head(child.todo))
  PROVE  X \in Children
<1> PICK h : h = Head(child.todo)
  OBVIOUS
<1>1. child.todo \in Seq(Steps)
  BY ChildHas
<1>2. h \in Steps /\ Tail(child.todo) \in Seq(Steps)
  BY ONLY <1>1, child.todo # << >>, h = Head(child.todo), TailIs
<1>3. h.onfail \in Codes
  BY <1>2 DEF Steps
<1>4. X.todo \in Seq(Steps)
  <2>1. 1 \in Codes
    BY DEF Codes
  <2>2. AfterProbe(Current.cart, 1) \in Seq(Steps)
    BY <2>1, AfterProbeIs DEF CartPlan
  <2>3. <<Exit(1)>> \in Seq(Steps) /\ <<Note, Exit(h.onfail)>> \in Seq(Steps)
    BY <1>3, <2>1, Endings DEF CartPlan
  <2> QED BY <1>2, <2>2, <2>3, FailureFields
<1>5. IsChild(X) /\ X.probed \in BOOLEAN
  BY <1>2, FailureFields
<1>6. /\ X.nnp = child.nnp /\ X.ns = child.ns /\ X.private = child.private
      /\ X.root = child.root /\ X.old = child.old /\ X.cgroup = child.cgroup
      /\ X.filters = child.filters /\ X.image = child.image /\ X.status = child.status
  BY <1>2, FailureFields
<1>7. /\ child.image \in CartImages \cup {"none", "launcher", "shell"}
      /\ child.nnp \in BOOLEAN /\ child.filters \in Seq(Filters)
      /\ child.ns \in SUBSET {"mnt", "net"} /\ child.private \in BOOLEAN
      /\ child.root \in {"host", "new"}
      /\ child.old \in BOOLEAN /\ child.cgroup \in BOOLEAN
      /\ child.status \in Statuses
  BY ChildHas
<1> QED BY ONLY <1>4, <1>5, <1>6, <1>7, ChildType

\* The launcher's step before execve leaves it on its way.
LEMMA SetupStep ==
  ASSUME ChildOK(child, Current), child.image = "launcher", child.todo # << >>, IsCase(Current),
         child.status = Running, NEW h, h = Head(child.todo), h.eff # "exec",
         NEW X, X = Effect(h)
  PROVE  ChildOK(X, Current)
<1> PICK cs : cs = Current
  OBVIOUS
<1> PICK s : s = child.todo
  OBVIOUS
<1> PICK t : t = Tail(s)
  OBVIOUS
<1>1. child \in Children /\ Setup(child, cs) /\ s \in Seq(Steps) /\ child.filters \in Seq(Filters)
  BY ChildHas DEF ChildOK
<1>2. h \in Steps /\ t \in Seq(Steps)
  BY ONLY <1>1, child.todo # << >>, s = child.todo, h = Head(child.todo), t = Tail(s), TailIs
<1>3. /\ ~child.probed /\ ExecLast(s) /\ Lacks(s, "probe")
      /\ cs.cart.image \in CartImages \/ Lacks(s, "exec")
  BY <1>1 DEF Setup, AnyPlan
<1>4. h.eff # "probe"
  <2>1. \A e : Lacks(s, e) => Lacks(t, e) /\ h.eff # e
    BY ONLY <1>1, child.todo # << >>, s = child.todo, h = Head(child.todo), t = Tail(s), TailEffects
  <2> QED BY <1>3, <2>1
<1>5. X.image = "launcher" /\ ~X.probed
  BY <1>1, <1>2, <1>3, <1>4, EffectFields
<1>6. X \in Children
  BY SetupTypes DEF ChildOK
<1>7. AnyPlan(cs, X.todo)
  <2>1. CASE h.eff \notin {"inline", "exit"}
    <3>1. X.todo = t
      BY <1>1, <1>2, <1>4, <2>1, EffectFields
    <3>2. ExecLast(t) /\ Lacks(t, "probe") /\ (Lacks(s, "exec") => Lacks(t, "exec"))
      BY ONLY <1>1, <1>3, child.todo # << >>, s = child.todo, h = Head(child.todo), t = Tail(s),
              TailEffects
    <3> QED BY ONLY <1>2, <1>3, <3>1, <3>2 DEF AnyPlan
  <2>2. CASE h.eff = "inline"
    <3>1. X.todo = <<Exit(0)>>
      BY <1>1, <1>2, <2>2, EffectFields
    <3>2. 0 \in Codes
      BY DEF Codes
    <3>3. <<Exit(0)>> \in Seq(Steps) /\ Lacks(<<Exit(0)>>, "probe") /\ Lacks(<<Exit(0)>>, "exec")
      <4>1. CartPlan(<<Exit(0)>>) /\ \A e : e # "exit" => Lacks(<<Exit(0)>>, e)
        BY ONLY <3>2, Endings
      <4> QED BY ONLY <4>1 DEF CartPlan
    <3> PICK u : u = <<Exit(0)>>
      OBVIOUS
    <3>4. ExecLast(u)
      BY <3>3 DEF ExecLast, Lacks
    <3> QED BY ONLY <3>1, <3>3, <3>4, u = <<Exit(0)>> DEF AnyPlan
  <2>3. CASE h.eff = "exit"
    <3>1. X.todo = << >>
      BY <1>1, <1>2, <2>3, EffectFields
    <3> QED BY <3>1, NoSteps DEF AnyPlan
  <2> QED BY <2>1, <2>2, <2>3
<1>8. ASSUME ByLauncher(cs) PROVE Isolates(X, cs)
  <2> PICK f : f = FilterOf[cs.kind]
    OBVIOUS
  <2>1. f \in Filters /\ Needs(cs) \subseteq {"nnp", "ns", "private", "root", "cgroup", f}
    BY <1>8, NeedsAre
  <2>2. Isolates(child, cs)
    BY <1>1, <1>8 DEF Setup
  <2>3. /\ Heading(child, cs) /\ RootThenDetach(s) /\ Guarded(s, f)
        /\ child.filters = << >> \/ (child.filters = <<f>> /\ AllQuiet(s))
        /\ Lacks(s, "inline") /\ Nonzero(s)
    BY <2>2 DEF Isolates
  <2>4. /\ \A e : Lacks(s, e) => Lacks(t, e) /\ h.eff # e
        /\ \A e : Holds(s, e) => Holds(t, e) \/ (h.eff = e /\ h.onfail # 0)
        /\ RootThenDetach(t)
        /\ h.eff = "root" => Holds(t, "detach")
        /\ AllQuiet(s) => AllQuiet(t) /\ Quiet(h)
        /\ Guarded(t, f)
        /\ h.eff \in Filters => h.eff = f /\ AllQuiet(t)
    <3>1. s # << >> /\ h = Head(s) /\ t = Tail(s)
      BY ONLY child.todo # << >>, s = child.todo, h = Head(child.todo), t = Tail(s)
    <3>2. /\ \A e : Lacks(s, e) => Lacks(t, e) /\ h.eff # e
          /\ \A e : Holds(s, e) => Holds(t, e) \/ (h.eff = e /\ h.onfail # 0)
      BY ONLY <1>1, <3>1, TailEffects
    <3>3. /\ RootThenDetach(t)
          /\ h.eff = "root" => Holds(t, "detach")
          /\ AllQuiet(s) => AllQuiet(t) /\ Quiet(h)
      BY ONLY <1>1, <2>3, <3>1, TailGuarded
    <3>4. /\ Guarded(t, f)
          /\ h.eff \in Filters => h.eff = f /\ AllQuiet(t)
      BY ONLY <1>1, <2>3, <3>1, TailGuarded
    <3> QED BY ONLY <3>2, <3>3, <3>4
  <2>5. h.eff # "inline"
    BY <2>3, <2>4
  <2>6. h \in Elems(s) /\ \A x \in Elems(t) : x \in Elems(s)
    <3>1. /\ h \in Elems(s)
          /\ \A i \in 1 .. Len(t) : i + 1 \in 1 .. Len(s) /\ t[i] = s[i + 1]
      BY ONLY <1>1, child.todo # << >>, s = child.todo, h = Head(child.todo), t = Tail(s), TailIs
    <3> QED BY <3>1 DEF Elems
  <2>7. Nonzero(t) /\ (h.eff = "exit" => h.onfail # 0)
    BY <2>3, <2>6 DEF Nonzero
  <2>8. X.todo = IF h.eff = "exit" THEN << >> ELSE t
    BY <1>1, <1>2, <1>4, <2>5, EffectFields
  <2>9. /\ RootThenDetach(X.todo) /\ Guarded(X.todo, f) /\ Lacks(X.todo, "inline")
        /\ Nonzero(X.todo)
    BY <2>3, <2>4, <2>7, <2>8, NoSteps
  <2>10. X.filters = << >> \/ (X.filters = <<f>> /\ AllQuiet(X.todo))
    <3>1. CASE h.eff \in Filters
      <4>1. child.filters = << >>
        BY <2>3, <2>4, <3>1 DEF Quiet
      <4>2. X.filters = <<f>>
        <5>1. X.filters = Append(child.filters, h.eff)
          BY <1>1, <1>2, <3>1, EffectFields
        <5>2. X.filters = Append(<< >>, f)
          BY ONLY <2>4, <3>1, <4>1, <5>1
        <5> QED BY ONLY <5>2
      <4>3. X.todo = t
        BY <2>8, <3>1 DEF Filters
      <4> QED BY <2>4, <3>1, <4>2, <4>3
    <3>2. CASE h.eff \notin Filters
      <4>1. X.filters = child.filters
        BY <1>1, <1>2, <3>2, EffectFields
      <4> QED BY <2>3, <2>4, <2>8, <4>1, NoSteps
    <3> QED BY <3>1, <3>2
  <2>11. X.status \notin {0, -31}
    <3>1. h.onfail \in Codes
      BY <1>2 DEF Steps
    <3>2. X.status = IF h.eff = "exit" THEN h.onfail ELSE Running
      BY <1>1, <1>2, EffectFields
    <3> QED BY <2>7, <3>1, <3>2 DEF Running, Codes
  <2>12. Heading(X, cs)
    <3>1. CASE Lacks(s, "exec")
      BY <2>4, <2>8, <3>1, NoSteps DEF Heading
    <3>2. CASE h.eff = "exit"
      BY <2>8, <3>2, NoSteps DEF Heading
    <3>3. CASE ~Lacks(s, "exec") /\ h.eff # "exit"
      <4>1. X.todo = t
        BY <2>8, <3>3
      <4>2. /\ \A e \in Needs(cs) : Did(child, cs.opts, e) \/ Holds(s, e)
            /\ child.old => Holds(s, "detach")
        BY <2>3, <3>3 DEF Heading
      <4>3. X.old => Holds(t, "detach")
        <5>1. X.old = ((child.old /\ h.eff # "detach") \/ h.eff = "root")
          BY <1>1, <1>2, EffectFields
        <5> QED BY <2>4, <4>2, <5>1
      <4>4. ASSUME NEW e \in Needs(cs), Did(child, cs.opts, e) PROVE Did(X, cs.opts, e)
        <5>1. /\ child.nnp => X.nnp
              /\ X.ns = Asks(cs.opts) \/ X.ns = child.ns
              /\ child.private => X.private
              /\ child.root = "new" => X.root = "new"
              /\ child.cgroup => X.cgroup
          <6>1. X.nnp = (child.nnp \/ h.eff = "nnp") /\ X.private = (child.private \/ h.eff = "private")
                /\ X.cgroup = (child.cgroup \/ h.eff = "cgroup")
            BY <1>1, <1>2, EffectFields
          <6>2. /\ X.ns = IF h.eff = "ns" THEN Asks(Current.opts) ELSE child.ns
                /\ X.root = IF h.eff = "root" THEN "new" ELSE child.root
            BY <1>1, <1>2, EffectFields
          <6> QED BY ONLY <6>1, <6>2, cs = Current
        <5>2. ToSet(child.filters) \subseteq ToSet(X.filters)
          <6>1. X.filters = IF h.eff \in Filters THEN Append(child.filters, h.eff) ELSE child.filters
            BY <1>1, <1>2, EffectFields
          <6>2. CASE h.eff \in Filters
            <7>1. ToSet(X.filters) = ToSet(child.filters) \cup {h.eff}
              BY ONLY <1>1, <6>1, <6>2, Appended
            <7> QED BY ONLY <7>1
          <6> QED BY ONLY <6>1, <6>2
        <5> QED BY ONLY <4>4, <5>1, <5>2 DEF Did
      <4>5. ASSUME NEW e \in Needs(cs), h.eff = e PROVE Did(X, cs.opts, e)
        <5>1. /\ h.eff = "nnp" => X.nnp
              /\ h.eff = "ns" => X.ns = Asks(cs.opts)
              /\ h.eff = "private" => X.private
              /\ h.eff = "root" => X.root = "new"
              /\ h.eff = "cgroup" => X.cgroup
          BY <1>1, <1>2, EffectFields
        <5>2. ASSUME h.eff \in Filters PROVE h.eff \in ToSet(X.filters)
          <6>1. X.filters = Append(child.filters, h.eff)
            BY <1>1, <1>2, <5>2, EffectFields
          <6> QED BY ONLY <1>1, <5>2, <6>1, Appended
        <5> QED BY ONLY <4>5, <5>1, <5>2 DEF Did
      <4>6. \A e \in Needs(cs) : Did(X, cs.opts, e) \/ Holds(t, e)
        BY <2>4, <4>2, <4>4, <4>5
      <4> QED BY ONLY <4>1, <4>3, <4>6 DEF Heading
    <3> QED BY <3>1, <3>2, <3>3
  <2> QED BY ONLY <2>9, <2>10, <2>11, <2>12, f = FilterOf[cs.kind] DEF Isolates
<1>9. Setup(X, cs)
  BY ONLY <1>5, <1>7, <1>8 DEF Setup
<1> QED BY ONLY <1>5, <1>6, <1>9, cs = Current DEF ChildOK

\* execve: the cart's code starts behind everything that was asked for.
LEMMA SetupExec ==
  ASSUME ChildOK(child, Current), child.image = "launcher", child.todo # << >>, IsCase(Current),
         NEW h, h = Head(child.todo), h.eff = "exec", NEW X, X = Effect(h)
  PROVE  ChildOK(X, Current)
<1> PICK cs : cs = Current
  OBVIOUS
<1> PICK s : s = child.todo
  OBVIOUS
<1>1. child \in Children /\ Setup(child, cs) /\ s \in Seq(Steps)
  BY ChildHas DEF ChildOK
<1>2. h \in Steps
  BY ONLY <1>1, child.todo # << >>, s = child.todo, h = Head(child.todo), TailIs
<1>3. /\ ~child.probed /\ ExecLast(s) /\ (cs.cart.image \in CartImages \/ Lacks(s, "exec"))
  BY <1>1 DEF Setup, AnyPlan
<1>4. ~Lacks(s, "exec")
  <2>1. \A e : Lacks(s, e) => h.eff # e
    BY ONLY <1>1, child.todo # << >>, s = child.todo, h = Head(child.todo), TailEffects
  <2> QED BY ONLY <2>1, h.eff = "exec"
<1>5. cs.cart.image \in CartImages
  BY <1>3, <1>4
<1>6. X \in Children
  BY <1>1, <1>5, SetupTypes
<1>7. /\ X.nnp = child.nnp /\ X.ns = child.ns /\ X.private = child.private
      /\ X.root = child.root /\ X.old = child.old /\ X.cgroup = child.cgroup
      /\ X.filters = child.filters /\ X.probed = child.probed
      /\ X.image = cs.cart.image /\ X.todo = CartSteps(cs.cart)
  <2>1. h.eff \notin Filters
    BY DEF Filters
  <2>2. child.old \in BOOLEAN /\ child.nnp \in BOOLEAN /\ child.private \in BOOLEAN
        /\ child.cgroup \in BOOLEAN /\ child.probed \in BOOLEAN
    BY <1>1, ChildHas
  <2> QED BY <1>1, <1>2, <2>1, <2>2, EffectFields
<1>8. CartPlan(X.todo) /\ (X.image = "dynamic" => ~X.probed /\ Narrowed(X.todo))
  <2>1. /\ CartPlan(CartSteps(cs.cart))
        /\ cs.cart.image = "dynamic" => Narrowed(CartSteps(cs.cart))
    BY CartStepsAre
  <2> QED BY ONLY <1>3, <1>7, <2>1
<1>9. ASSUME ByLauncher(cs) PROVE Behind(X, cs)
  <2>1. "exec" \notin Needs(cs)
    BY <1>9, NeedsAre
  <2>2. Heading(child, cs)
    BY <1>1, <1>9 DEF Setup, Isolates
  <2>3. /\ \A e \in Needs(cs) : Did(child, cs.opts, e) \/ Holds(s, e)
        /\ child.old => Holds(s, "detach")
    BY <1>4, <2>2 DEF Heading
  <2>4. \A e : Holds(s, e) => e = "exec"
    BY ONLY <1>1, <1>3, child.todo # << >>, s = child.todo, h = Head(child.todo), h.eff = "exec",
            AtExec
  <2>5. \A e \in Needs(cs) : Did(child, cs.opts, e)
    BY ONLY <2>1, <2>3, <2>4
  <2>6. ~child.old
    BY ONLY <2>3, <2>4
  <2>7. \A e \in Needs(cs) : Did(X, cs.opts, e)
    BY ONLY <1>7, <2>5 DEF Did
  <2> QED BY ONLY <1>7, <2>6, <2>7 DEF Behind
<1>10. CartOK(X, cs)
  BY ONLY <1>8, <1>9 DEF CartOK
<1>11. X.image \notin {"none", "launcher"}
  BY <1>5, <1>7 DEF CartImages
<1> QED BY ONLY <1>6, <1>10, <1>11, cs = Current DEF ChildOK

\* A step of the launcher's that fails.
LEMMA SetupFails ==
  ASSUME ChildOK(child, Current), child.image = "launcher", child.todo # << >>, IsCase(Current),
         child.status = Running, NEW h, h = Head(child.todo), h.eff # "exit",
         NEW X, X = OnFailure(h)
  PROVE  ChildOK(X, Current)
<1> PICK cs : cs = Current
  OBVIOUS
<1> PICK s : s = child.todo
  OBVIOUS
<1> PICK t : t = Tail(s)
  OBVIOUS
<1>1. child \in Children /\ Setup(child, cs) /\ s \in Seq(Steps)
  BY ChildHas DEF ChildOK
<1>2. h \in Steps /\ t \in Seq(Steps)
  BY ONLY <1>1, child.todo # << >>, s = child.todo, h = Head(child.todo), t = Tail(s), TailIs
<1>3. h.onfail \in Codes
  BY <1>2 DEF Steps
<1>4. /\ ~child.probed /\ ExecLast(s) /\ Lacks(s, "probe")
      /\ cs.cart.image \in CartImages \/ Lacks(s, "exec")
  BY <1>1 DEF Setup, AnyPlan
<1>5. /\ \A e : Lacks(s, e) => Lacks(t, e) /\ h.eff # e
      /\ \A e : Holds(s, e) => Holds(t, e) \/ (h.eff = e /\ h.onfail # 0)
      /\ ExecLast(t)
  BY ONLY <1>1, <1>4, child.todo # << >>, s = child.todo, h = Head(child.todo), t = Tail(s), TailEffects
<1>6. h.eff # "probe"
  BY ONLY <1>4, <1>5
<1>7. /\ X.nnp = child.nnp /\ X.ns = child.ns /\ X.private = child.private
      /\ X.root = child.root /\ X.old = child.old /\ X.cgroup = child.cgroup
      /\ X.filters = child.filters /\ X.image = "launcher" /\ X.status = Running /\ ~X.probed
  BY <1>1, <1>2, <1>4, <1>6, FailureFields
<1>8. X \in Children
  BY <1>1, FailTypes
<1> PICK u : u = <<Exit(1)>>
  OBVIOUS
<1> PICK v : v = <<Note, Exit(h.onfail)>>
  OBVIOUS
<1>9. X.todo = IF h.eff = "inline" THEN u ELSE IF h.onfail = 0 THEN t ELSE v
  BY <1>1, <1>2, <1>6, FailureFields
<1>10. /\ u \in Seq(Steps) /\ v \in Seq(Steps)
       /\ \A e : e # "exit" => Lacks(u, e)
       /\ \A e : e \notin {"exit", "none"} => Lacks(v, e)
       /\ AllQuiet(v) /\ Elems(v) = {Note, Exit(h.onfail)}
  <2>1. 1 \in Codes
    BY DEF Codes
  <2>2. /\ CartPlan(<<Exit(1)>>) /\ \A e : e # "exit" => Lacks(<<Exit(1)>>, e)
    BY ONLY <2>1, Endings
  <2>3. /\ CartPlan(<<Note, Exit(h.onfail)>>)
        /\ \A e : e \notin {"exit", "none"} => Lacks(<<Note, Exit(h.onfail)>>, e)
        /\ AllQuiet(<<Note, Exit(h.onfail)>>)
        /\ Elems(<<Note, Exit(h.onfail)>>) = {Note, Exit(h.onfail)}
    BY ONLY <1>3, Endings
  <2> QED BY ONLY <2>2, <2>3, u = <<Exit(1)>>, v = <<Note, Exit(h.onfail)>> DEF CartPlan
<1>11. Lacks(u, "probe") /\ Lacks(u, "exec") /\ Lacks(v, "probe") /\ Lacks(v, "exec")
       /\ Lacks(v, "root") /\ Lacks(v, "inline")
  BY ONLY <1>10
<1>12. AnyPlan(cs, X.todo)
  <2>1. ExecLast(u) /\ ExecLast(v)
    BY ONLY <1>11 DEF ExecLast, Lacks
  <2>2. Lacks(t, "probe") /\ (Lacks(s, "exec") => Lacks(t, "exec"))
    BY ONLY <1>4, <1>5
  <2> QED BY ONLY <1>2, <1>4, <1>5, <1>9, <1>10, <1>11, <2>1, <2>2 DEF AnyPlan
<1>13. ASSUME ByLauncher(cs) PROVE Isolates(X, cs)
  <2> PICK f : f = FilterOf[cs.kind]
    OBVIOUS
  <2>1. Isolates(child, cs)
    BY <1>1, <1>13 DEF Setup
  <2>2. /\ Heading(child, cs) /\ RootThenDetach(s) /\ Guarded(s, f)
        /\ child.filters = << >> \/ (child.filters = <<f>> /\ AllQuiet(s))
        /\ Lacks(s, "inline") /\ Nonzero(s)
    BY <2>1 DEF Isolates
  <2>3. h.eff # "inline" /\ X.todo = IF h.onfail = 0 THEN t ELSE v
    BY ONLY <1>5, <1>9, <2>2
  <2>4. X.status \notin {0, -31}
    BY <1>7 DEF Running
  <2>5. CASE h.onfail # 0
    <3>1. X.todo = v
      BY <2>3, <2>5
    <3>2. Nonzero(v)
      <4>1. Note.eff = "none" /\ Exit(h.onfail).onfail = h.onfail
        BY DEF Note, Exit, Step
      <4> QED BY ONLY <1>10, <2>5, <4>1 DEF Nonzero
    <3>3. RootThenDetach(v)
      BY ONLY <1>10, <1>11, NoRoot
    <3>4. Guarded(v, f)
      BY ONLY <1>10, QuietGuarded
    <3>5. Heading(X, cs)
      BY ONLY <1>11, <3>1 DEF Heading
    <3> QED BY ONLY <1>7, <1>10, <1>11, <2>2, <2>4, <3>1, <3>2, <3>3, <3>4, <3>5,
                    f = FilterOf[cs.kind] DEF Isolates
  <2>6. CASE h.onfail = 0
    <3>1. X.todo = t
      BY <2>3, <2>6
    <3>2. /\ RootThenDetach(t) /\ Guarded(t, f) /\ (AllQuiet(s) => AllQuiet(t))
      BY ONLY <1>1, <2>2, child.todo # << >>, s = child.todo, h = Head(child.todo), t = Tail(s),
              TailGuarded
    <3>3. Nonzero(t)
      <4>1. \A i \in 1 .. Len(t) : i + 1 \in 1 .. Len(s) /\ t[i] = s[i + 1]
        BY ONLY <1>1, child.todo # << >>, s = child.todo, t = Tail(s), TailIs
      <4>2. \A x \in Elems(t) : x \in Elems(s)
        BY ONLY <4>1 DEF Elems
      <4> QED BY ONLY <2>2, <4>2 DEF Nonzero
    <3>4. Heading(X, cs)
      <4>1. CASE Lacks(s, "exec")
        BY ONLY <1>5, <3>1, <4>1 DEF Heading
      <4>2. CASE ~Lacks(s, "exec")
        <5>1. /\ \A e \in Needs(cs) : Did(child, cs.opts, e) \/ Holds(s, e)
              /\ child.old => Holds(s, "detach")
          BY ONLY <2>2, <4>2, s = child.todo DEF Heading
        <5>2. \A e : Holds(s, e) => Holds(t, e)
          BY ONLY <1>5, <2>6
        <5>3. \A e : Did(child, cs.opts, e) => Did(X, cs.opts, e)
          BY ONLY <1>7 DEF Did
        <5> QED BY ONLY <1>7, <3>1, <5>1, <5>2, <5>3 DEF Heading
      <4> QED BY ONLY <4>1, <4>2
    <3>5. Lacks(t, "inline")
      BY ONLY <1>5, <2>2
    <3> QED BY ONLY <1>7, <2>2, <2>4, <3>1, <3>2, <3>3, <3>4, <3>5, f = FilterOf[cs.kind]
            DEF Isolates
  <2> QED BY <2>5, <2>6
<1>14. Setup(X, cs)
  BY ONLY <1>7, <1>12, <1>13 DEF Setup
<1> QED BY ONLY <1>7, <1>8, <1>14, cs = Current DEF ChildOK

\* A step of a cart's.
LEMMA CartStepDone ==
  ASSUME ChildOK(child, Current), child.image \notin {"none", "launcher"}, child.todo # << >>,
         IsCase(Current), NEW h, h = Head(child.todo), NEW X, X = Effect(h)
  PROVE  ChildOK(X, Current)
<1> PICK cs : cs = Current
  OBVIOUS
<1> PICK s : s = child.todo
  OBVIOUS
<1> PICK t : t = Tail(s)
  OBVIOUS
<1>1. /\ child \in Children /\ CartOK(child, cs) /\ s \in Seq(Steps)
      /\ child.filters \in Seq(Filters) /\ child.probed \in BOOLEAN
  BY ChildHas DEF ChildOK
<1>2. h \in Steps /\ t \in Seq(Steps)
  BY ONLY <1>1, child.todo # << >>, s = child.todo, h = Head(child.todo), t = Tail(s), TailIs
<1>3. CartPlan(s)
  BY <1>1 DEF CartOK
<1>4. /\ CartPlan(t) /\ h.eff \in CartEffs
      /\ Narrowed(s) => h.eff # "probe"
      /\ Narrowed(s) /\ ~(h.eff = "phase2" /\ h.onfail # 0) => Narrowed(t)
  BY ONLY <1>1, <1>3, child.todo # << >>, s = child.todo, h = Head(child.todo), t = Tail(s), TailCart
<1>5. h.eff \in {"none", "phase2", "probe", "exit"}
  BY ONLY <1>4 DEF CartEffs
<1>6. X \in Children
  BY <1>1, <1>5, SetupTypes
<1>7. /\ X.nnp = child.nnp /\ X.ns = child.ns /\ X.private = child.private
      /\ X.root = child.root /\ X.old = child.old /\ X.cgroup = child.cgroup
      /\ X.probed = (child.probed \/ h.eff = "probe")
  <2>1. child.old \in BOOLEAN /\ child.nnp \in BOOLEAN /\ child.private \in BOOLEAN
        /\ child.cgroup \in BOOLEAN
    BY <1>1, ChildHas
  <2> QED BY <1>1, <1>2, <1>5, <2>1, EffectFields
<1>8. ToSet(child.filters) \subseteq ToSet(X.filters)
      /\ (h.eff = "phase2" => "phase2" \in ToSet(X.filters))
  <2>1. X.filters = IF h.eff \in Filters THEN Append(child.filters, h.eff) ELSE child.filters
    BY <1>1, <1>2, EffectFields
  <2>2. "phase2" \in Filters
    BY DEF Filters
  <2>3. CASE h.eff \in Filters
    <3>1. ToSet(X.filters) = ToSet(child.filters) \cup {h.eff}
      BY ONLY <1>1, <2>1, <2>3, Appended
    <3> QED BY ONLY <3>1
  <2> QED BY ONLY <2>1, <2>2, <2>3
<1>9. X.image = child.image \/ X.image = "shell"
  BY <1>1, <1>2, <1>5, EffectFields
<1>10. CartPlan(X.todo)
  <2>1. 0 \in Codes
    BY DEF Codes
  <2>2. CartPlan(AfterProbe(cs.cart, 0)) /\ CartPlan(<<Step(ShellStartUp, "none", 0), Exit(0)>>)
    BY <2>1, AfterProbeIs, Endings
  <2>3. CASE h.eff \in {"none", "phase2"}
    <3>1. X.todo = t
      BY <1>1, <1>2, <2>3, EffectFields
    <3> QED BY <1>4, <3>1
  <2>4. CASE h.eff = "probe"
    <3>1. X.todo = IF Current.cart.probe = "execve"
                   THEN <<Step(ShellStartUp, "none", 0), Exit(0)>>
                   ELSE AfterProbe(Current.cart, 0)
      BY <1>1, <1>2, <2>4, EffectFields
    <3> QED BY ONLY <2>2, <3>1, cs = Current
  <2>5. CASE h.eff = "exit"
    <3>1. X.todo = << >>
      BY <1>1, <1>2, <2>5, EffectFields
    <3> QED BY <3>1, NoSteps
  <2> QED BY <1>5, <2>3, <2>4, <2>5
<1>11. ASSUME X.image = "dynamic"
       PROVE  "phase2" \in ToSet(X.filters) \/ (~X.probed /\ Narrowed(X.todo))
  <2>1. "phase2" \in ToSet(child.filters) \/ (~child.probed /\ Narrowed(s))
    BY <1>1, <1>9, <1>11 DEF CartOK
  <2>2. CASE "phase2" \in ToSet(child.filters)
    BY <1>8, <2>2
  <2>3. CASE h.eff = "phase2"
    BY <1>8, <2>3
  <2>4. CASE ~child.probed /\ Narrowed(s) /\ h.eff # "phase2"
    <3>1. h.eff \in {"none", "exit"} /\ Narrowed(t)
      BY <1>4, <1>5, <2>4
    <3>2. X.todo = t \/ X.todo = << >>
      BY <1>1, <1>2, <3>1, EffectFields
    <3> QED BY <1>7, <2>4, <3>1, <3>2, NoSteps
  <2> QED BY <2>1, <2>2, <2>3, <2>4
<1>12. ASSUME ByLauncher(cs) PROVE Behind(X, cs)
  <2>1. Behind(child, cs)
    BY <1>1, <1>12 DEF CartOK
  <2> QED BY ONLY <1>7, <1>8, <2>1 DEF Behind, Did
<1>13. CartOK(X, cs)
  BY ONLY <1>10, <1>11, <1>12 DEF CartOK
<1>14. X.image \notin {"none", "launcher"}
  BY <1>9
<1> QED BY ONLY <1>6, <1>13, <1>14, cs = Current DEF ChildOK

\* A cart's step that fails: the second filter's, above all, ends the cart.
LEMMA CartStepFails ==
  ASSUME ChildOK(child, Current), child.image \notin {"none", "launcher"}, child.todo # << >>,
         IsCase(Current), NEW h, h = Head(child.todo), NEW X, X = OnFailure(h)
  PROVE  ChildOK(X, Current)
<1> PICK cs : cs = Current
  OBVIOUS
<1> PICK s : s = child.todo
  OBVIOUS
<1> PICK t : t = Tail(s)
  OBVIOUS
<1>1. /\ child \in Children /\ CartOK(child, cs) /\ s \in Seq(Steps) /\ child.probed \in BOOLEAN
  BY ChildHas DEF ChildOK
<1>2. h \in Steps /\ t \in Seq(Steps)
  BY ONLY <1>1, child.todo # << >>, s = child.todo, h = Head(child.todo), t = Tail(s), TailIs
<1>3. CartPlan(s)
  BY <1>1 DEF CartOK
<1>4. /\ CartPlan(t) /\ h.eff \in CartEffs
      /\ Narrowed(s) => h.eff # "probe"
      /\ Narrowed(s) /\ ~(h.eff = "phase2" /\ h.onfail # 0) => Narrowed(t)
  BY ONLY <1>1, <1>3, child.todo # << >>, s = child.todo, h = Head(child.todo), t = Tail(s), TailCart
<1>5. h.eff \in {"none", "phase2", "probe", "exit"} /\ h.onfail \in Codes
  BY <1>2, <1>4 DEF CartEffs, Steps
<1>6. X \in Children
  BY <1>1, FailTypes
<1>7. /\ X.nnp = child.nnp /\ X.ns = child.ns /\ X.private = child.private
      /\ X.root = child.root /\ X.old = child.old /\ X.cgroup = child.cgroup
      /\ X.filters = child.filters /\ X.image = child.image
      /\ X.probed = (child.probed \/ h.eff = "probe")
  BY <1>1, <1>2, FailureFields
<1> PICK v : v = <<Note, Exit(h.onfail)>>
  OBVIOUS
<1>8. /\ h.eff = "probe" => X.todo = AfterProbe(cs.cart, 1)
      /\ h.eff # "probe" => X.todo = IF h.onfail = 0 THEN t ELSE v
  BY <1>1, <1>2, <1>5, FailureFields
<1>9. CartPlan(v) /\ \A e : e \notin {"exit", "none"} => Lacks(v, e)
  BY ONLY <1>5, v = <<Note, Exit(h.onfail)>>, Endings
<1>10. CartPlan(X.todo)
  <2>1. 1 \in Codes
    BY DEF Codes
  <2>2. CartPlan(AfterProbe(cs.cart, 1))
    BY <2>1, AfterProbeIs
  <2> QED BY ONLY <1>4, <1>8, <1>9, <2>2
<1>11. ASSUME X.image = "dynamic"
       PROVE  "phase2" \in ToSet(X.filters) \/ (~X.probed /\ Narrowed(X.todo))
  <2>1. "phase2" \in ToSet(child.filters) \/ (~child.probed /\ Narrowed(s))
    BY <1>1, <1>7, <1>11 DEF CartOK
  <2>2. CASE "phase2" \in ToSet(child.filters)
    BY <1>7, <2>2
  <2>3. CASE ~child.probed /\ Narrowed(s)
    <3>1. ~X.probed /\ X.todo = IF h.onfail = 0 THEN t ELSE v
      BY ONLY <1>4, <1>7, <1>8, <2>3
    <3>2. Narrowed(v)
      <4>1. Lacks(v, "probe")
        BY ONLY <1>9
      <4> QED BY ONLY <4>1 DEF Lacks, Narrowed
    <3>3. h.onfail = 0 => Narrowed(t)
      BY ONLY <1>4, <2>3
    <3> QED BY ONLY <3>1, <3>2, <3>3
  <2> QED BY <2>1, <2>2, <2>3
<1>12. ASSUME ByLauncher(cs) PROVE Behind(X, cs)
  <2>1. Behind(child, cs)
    BY <1>1, <1>12 DEF CartOK
  <2> QED BY ONLY <1>7, <2>1 DEF Behind, Did
<1>13. CartOK(X, cs)
  BY ONLY <1>10, <1>11, <1>12 DEF CartOK
<1> QED BY ONLY <1>6, <1>7, <1>13, cs = Current, child.image \notin {"none", "launcher"} DEF ChildOK

\* The child ends, by a signal (SIGSYS not the launcher itself) or with a
\* status of its own.
LEMMA Signalled ==
  ASSUME ChildOK(child, Current), NEW h, NEW k \in Statuses,
         child.image = "launcher" => h.eff # "probe" /\ k = -31 /\ ~ByLauncher(Current),
         child.image # "none", child.todo # << >>, h = Head(child.todo),
         NEW b \in BOOLEAN, b => child.probed \/ h.eff = "probe",
         child.probed => b,
         NEW X, X = [child EXCEPT !.status = k, !.probed = b]
  PROVE  ChildOK(X, Current)
<1> PICK cs : cs = Current
  OBVIOUS
<1>1. child \in Children /\ IsChild(child)
  BY ChildHas DEF ChildOK
<1>2. /\ IsChild(X) /\ X.nnp = child.nnp /\ X.ns = child.ns /\ X.private = child.private
      /\ X.root = child.root /\ X.old = child.old /\ X.cgroup = child.cgroup
      /\ X.filters = child.filters /\ X.image = child.image /\ X.todo = child.todo
      /\ X.probed = b /\ X.status = k
  BY <1>1 DEF IsChild
<1>3. X \in Children
  <2>1. k \in Statuses
    OBVIOUS
  <2>2. /\ child.image \in CartImages \cup {"none", "launcher", "shell"}
        /\ child.nnp \in BOOLEAN /\ child.filters \in Seq(Filters)
        /\ child.ns \in SUBSET {"mnt", "net"} /\ child.private \in BOOLEAN
        /\ child.root \in {"host", "new"} /\ child.todo \in Seq(Steps)
        /\ child.old \in BOOLEAN /\ child.cgroup \in BOOLEAN
    BY <1>1, ChildHas
  <2> QED BY ONLY <1>2, <2>1, <2>2, b \in BOOLEAN, ChildType
<1>4. ASSUME child.image = "launcher" PROVE Setup(X, cs)
  <2>1. Setup(child, cs) /\ ~ByLauncher(cs) /\ ~X.probed
    BY <1>2, <1>4 DEF ChildOK, Setup
  <2> QED BY ONLY <1>2, <2>1 DEF Setup
<1>5. ASSUME child.image \notin {"none", "launcher"} PROVE CartOK(X, cs)
  <2>1. CartOK(child, cs)
    BY <1>5 DEF ChildOK
  <2>2. ByLauncher(cs) => Behind(X, cs)
    BY ONLY <1>2, <2>1 DEF CartOK, Behind, Did
  <2>3. ASSUME X.image = "dynamic"
        PROVE  "phase2" \in ToSet(X.filters) \/ (~X.probed /\ Narrowed(X.todo))
    <3>1. "phase2" \in ToSet(child.filters) \/ (~child.probed /\ Narrowed(child.todo))
      BY ONLY <1>2, <2>1, <2>3 DEF CartOK
    <3>2. Narrowed(child.todo) => h.eff # "probe"
      <4>1. child.todo \in Seq(Steps)
        BY <1>1, ChildHas
      <4> QED BY ONLY <4>1, child.todo # << >>, h = Head(child.todo), TailCart
    <3> QED BY <1>2, <3>1, <3>2
  <2>4. CartPlan(X.todo)
    BY ONLY <1>2, <2>1 DEF CartOK
  <2> QED BY ONLY <2>2, <2>3, <2>4 DEF CartOK
<1> QED BY <1>2, <1>3, <1>4, <1>5 DEF ChildOK

\* The calls the launcher makes under its own filter are on its list.
LEMMA OnTheLists ==
  ASSUME NEW nr \in {"write", "execve", "exit_group"}
  PROVE  /\ spike_h_rules \in Seq(Names) /\ unified_nrs \in Seq(Names)
         /\ phase1_riscv64_nrs \in Seq(Names) /\ phase1_riscv32_nrs \in Seq(Names)
         /\ \E i \in 1 .. Len(spike_h_rules) : spike_h_rules[i] = nr
         /\ \E i \in 1 .. Len(unified_nrs) : unified_nrs[i] = nr
         /\ \E i \in 1 .. Len(phase1_riscv64_nrs) : phase1_riscv64_nrs[i] = nr
<1>1. Calls \subseteq Names
  BY DEF Names
<1>2. spike_h_rules \in Seq(Calls)
  <2>1. allow_names \in Seq(Calls) /\ "nr258" \in Calls
    BY DEF allow_names, Calls
  <2> QED BY ONLY <2>1 DEF spike_h_rules
<1>3. unified_nrs \in Seq(Calls)
  BY DEF unified_nrs, Calls
<1>4. phase1_riscv64_nrs \in Seq(Calls)
  BY DEF phase1_riscv64_nrs, Calls
<1>5. phase1_riscv32_nrs \in Seq(Calls)
  BY DEF phase1_riscv32_nrs, Calls
<1>6. \A l \in Seq(Calls) : l \in Seq(Names)
  BY <1>1
<1>7. /\ Len(spike_h_rules) = 34 /\ spike_h_rules[11] = "write" /\ spike_h_rules[32] = "execve"
      /\ spike_h_rules[2] = "exit_group"
  <2>1. /\ Len(allow_names) = 33 /\ allow_names[11] = "write"
        /\ allow_names[32] = "execve" /\ allow_names[2] = "exit_group"
    BY DEF allow_names
  <2>2. allow_names \in Seq(Calls)
    BY DEF allow_names, Calls
  <2> PICK l \in Seq(Calls) : l = allow_names
    BY <2>2
  <2>3. Len(Append(l, "nr258")) = Len(l) + 1 /\ \A i \in 1 .. Len(l) : Append(l, "nr258")[i] = l[i]
    OBVIOUS
  <2>4. Len(l) = 33 /\ l[11] = "write" /\ l[32] = "execve" /\ l[2] = "exit_group"
    BY ONLY <2>1, l = allow_names
  <2>5. 11 \in 1 .. Len(l) /\ 32 \in 1 .. Len(l) /\ 2 \in 1 .. Len(l) /\ Len(l) + 1 = 34
    BY ONLY <2>4
  <2>6. spike_h_rules = Append(l, "nr258")
    BY ONLY l = allow_names DEF spike_h_rules
  <2> QED BY ONLY <2>3, <2>4, <2>5, <2>6
<1>8. /\ Len(unified_nrs) = 23 /\ unified_nrs[21] = "write" /\ unified_nrs[1] = "execve"
      /\ unified_nrs[22] = "exit_group"
  BY DEF unified_nrs
<1>9. /\ Len(phase1_riscv64_nrs) = 3 /\ phase1_riscv64_nrs[2] = "write"
      /\ phase1_riscv64_nrs[1] = "execve" /\ phase1_riscv64_nrs[3] = "exit_group"
  BY DEF phase1_riscv64_nrs
<1>10. 11 \in 1 .. 34 /\ 32 \in 1 .. 34 /\ 2 \in 1 .. 34 /\ 21 \in 1 .. 23 /\ 1 \in 1 .. 23
       /\ 22 \in 1 .. 23 /\ 1 \in 1 .. 3 /\ 2 \in 1 .. 3 /\ 3 \in 1 .. 3
  OBVIOUS
<1>11. \E i \in 1 .. Len(spike_h_rules) : spike_h_rules[i] = nr
  BY ONLY <1>7, <1>10, nr \in {"write", "execve", "exit_group"}
<1>12. \E i \in 1 .. Len(unified_nrs) : unified_nrs[i] = nr
  BY ONLY <1>8, <1>10, nr \in {"write", "execve", "exit_group"}
<1>13. \E i \in 1 .. Len(phase1_riscv64_nrs) : phase1_riscv64_nrs[i] = nr
  BY ONLY <1>9, <1>10, nr \in {"write", "execve", "exit_group"}
<1> QED BY ONLY <1>2, <1>3, <1>4, <1>5, <1>6, <1>11, <1>12, <1>13

\* So the filters answer ALLOW to them.
LEMMA OwnCallsAllowed ==
  ASSUME NEW f \in {"spike_h", "unified", "phase1"}, NEW nr \in {"write", "execve", "exit_group"}
  PROVE  Run(Program[f], RV64, nr) = "ALLOW"
<1> PICK h : h = spike_h_rules
  OBVIOUS
<1> PICK u : u = unified_nrs
  OBVIOUS
<1> PICK a : a = phase1_riscv64_nrs
  OBVIOUS
<1> PICK b : b = phase1_riscv32_nrs
  OBVIOUS
<1>1. /\ h \in Seq(Names) /\ u \in Seq(Names) /\ a \in Seq(Names) /\ b \in Seq(Names)
      /\ \E i \in 1 .. Len(h) : h[i] = nr
      /\ \E i \in 1 .. Len(u) : u[i] = nr
      /\ \E i \in 1 .. Len(a) : a[i] = nr
  BY OnTheLists
<1>2. CASE f = "spike_h"
  <2>1. Program["spike_h"] = OneArch(RV64, h)
    BY DEF Program, spike_h_filter, OneArch
  <2>2. \A arch, k : Run(OneArch(RV64, h), arch, k)
          = IF arch = RV64 /\ \E i \in 1 .. Len(h) : h[i] = k THEN "ALLOW" ELSE "KILL"
    BY ONLY <1>1, OneArchMeaning
  <2> QED BY ONLY <1>1, <1>2, <2>1, <2>2
<1>3. CASE f = "unified"
  <2>1. build_unified_filter(MAX_INSNS, u).ok
    BY LaunchAssumption
  <2>2. build_unified_filter(MAX_INSNS, u).prog = OneArch(RV64, u)
    BY ONLY <2>1 DEF build_unified_filter, Refused, Built, OneArch
  <2>3. Program["unified"] = OneArch(RV64, u)
    BY <2>2 DEF Program
  <2>4. \A arch, k : Run(OneArch(RV64, u), arch, k)
          = IF arch = RV64 /\ \E i \in 1 .. Len(u) : u[i] = k THEN "ALLOW" ELSE "KILL"
    BY ONLY <1>1, OneArchMeaning
  <2> QED BY ONLY <1>1, <1>3, <2>3, <2>4
<1>4. CASE f = "phase1"
  <2>1. build_arch_dispatch_filter(MAX_INSNS, a, b).ok
    BY LaunchAssumption
  <2>2. /\ build_arch_dispatch_filter(MAX_INSNS, a, b).prog = DispatchProgram(a, b, 2 + 2 * Len(a))
        /\ ~(2 + 2 * Len(a) > JF_MAX)
    BY ONLY <2>1 DEF build_arch_dispatch_filter, Refused, Built
  <2>3. 2 + 2 * Len(a) <= JF_MAX
    BY <1>1, <2>2, FilterAssumption
  <2>4. Program["phase1"] = DispatchProgram(a, b, 2 + 2 * Len(a))
    BY <2>2 DEF Program
  <2>5. \A arch, k : Run(DispatchProgram(a, b, 2 + 2 * Len(a)), arch, k)
          = IF \/ arch = RV64 /\ \E i \in 1 .. Len(a) : a[i] = k
               \/ arch = RV32 /\ \E i \in 1 .. Len(b) : b[i] = k
            THEN "ALLOW" ELSE "KILL"
    BY ONLY <1>1, <2>3, DispatchMeaning
  <2> QED BY ONLY <1>1, <1>4, <2>4, <2>5
<1> QED BY <1>2, <1>3, <1>4

\* The launcher is not killed at a call of its own.
LEMMA OwnVerdict ==
  ASSUME child.image = "launcher", NEW nr,
         \/ child.filters = << >>
         \/ /\ nr \in {"write", "execve", "exit_group"}
            /\ \E f \in {"spike_h", "unified", "phase1"} : child.filters = <<f>>
  PROVE  Verdict(nr) = "ALLOW"
<1> DEFINE answers == [i \in 1 .. Len(child.filters) |-> Answer[child.filters[i]][Arch][nr]]
<1>1. CASE child.filters = << >>
  <2>1. Len(child.filters) = 0 /\ 1 .. 0 = {}
    BY <1>1
  <2>2. answers = << >>
    BY <2>1
  <2> QED BY <2>2 DEF Verdict
<1>2. ASSUME NEW f \in {"spike_h", "unified", "phase1"}, child.filters = <<f>>,
             nr \in {"write", "execve", "exit_group"}
      PROVE  Verdict(nr) = "ALLOW"
  <2>1. Arch = RV64
    BY DEF Arch, CartImages
  <2>2. nr \in AllCalls
    <3>1. \E i \in 1 .. Len(unified_nrs) : unified_nrs[i] = nr
      BY <1>2, OnTheLists
    <3>2. unified_nrs \in Seq(Names)
      BY <1>2, OnTheLists
    <3>3. nr \in ToSet(unified_nrs)
      BY ONLY <3>1, <3>2, Members
    <3> QED BY <3>3 DEF AllCalls
  <2>3. f \in DOMAIN Program
    BY FiltersAre DEF Filters
  <2>4. Answer[f][RV64][nr] = "ALLOW"
    <3>1. Run(Program[f], RV64, nr) = "ALLOW"
      BY <1>2, OwnCallsAllowed
    <3>2. Answer[f] = [arch \in {RV64, RV32} |-> [k \in AllCalls |-> Run(Program[f], arch, k)]]
      BY ONLY <2>3 DEF Answer
    <3>3. Answer[f][RV64] = [k \in AllCalls |-> Run(Program[f], RV64, k)]
      BY ONLY <3>2
    <3> QED BY ONLY <2>2, <3>1, <3>3
  <2>5. Len(child.filters) = 1 /\ child.filters[1] = f
    BY <1>2
  <2>6. answers = [i \in 1 .. 1 |-> "ALLOW"]
    <3>1. \A i \in 1 .. 1 : Answer[child.filters[i]][Arch][nr] = "ALLOW"
      BY <2>1, <2>4, <2>5
    <3> QED BY <2>5, <3>1
  <2>7. answers # << >> /\ Len(answers) = 1 /\ answers[1] = "ALLOW"
    <3>1. [i \in 1 .. 1 |-> "ALLOW"] = <<"ALLOW">>
      OBVIOUS
    <3> QED BY ONLY <2>6, <3>1
  <2>8. ToSet(answers) = {"ALLOW"}
    BY ONLY <2>6, <2>7 DEF ToSet
  <2> HIDE DEF answers
  <2>9. Verdict(nr) = IF answers = << >> THEN "ALLOW"
                      ELSE IF kernel.stacking = "latest" THEN answers[Len(answers)]
                      ELSE IF "KILL" \in ToSet(answers) THEN "KILL"
                      ELSE IF "ERRNO" \in ToSet(answers) THEN "ERRNO" ELSE "ALLOW"
    BY DEF Verdict, answers
  <2> QED BY ONLY <2>7, <2>8, <2>9
<1> QED BY <1>1, <1>2

\* A script's entry is a case.
LEMMA EntryIs ==
  ASSUME NEW p, NEW x
  PROVE  /\ \A o \in Options, i \in CartImages : /\ IsCase(Case("h", o, Cart(i, p), x))
                                                 /\ IsCase(Case("r", o, Cart(i, p), x))
         /\ \A o \in SOptions, i \in CartImages :
              IsCase(Case("s", o, Cart(i, p), x))
         /\ \A i \in CartImages : IsCase(run_cart(Cart(i, p)))
<1>1. ASSUME NEW o \in Options, NEW i \in CartImages
      PROVE  IsCase(Case("h", o, Cart(i, p), x)) /\ IsCase(Case("r", o, Cart(i, p), x))
  BY DEF IsCase, Case, Cart
<1>2. ASSUME NEW o \in SOptions, NEW i \in CartImages
      PROVE  IsCase(Case("s", o, Cart(i, p), x))
  BY DEF IsCase, Case, Cart
<1>3. ASSUME NEW i \in CartImages PROVE IsCase(run_cart(Cart(i, p)))
  <2>1. LibDir \in SOptions
    BY DEF LibDir, SOptions
  <2>2. /\ run_cart(Cart(i, p)).kind = "s" /\ run_cart(Cart(i, p)).opts = LibDir
        /\ run_cart(Cart(i, p)).cart.image = i
    BY DEF run_cart, Case, Cart
  <2> QED BY <2>1, <2>2 DEF IsCase
<1> QED BY <1>1, <1>2, <1>3

\* The raw tests' cases are cases.
LEMMA ProbeIs ==
  ASSUME NEW fs \in Seq(Filters), NEW k, k = 126 \/ k = 127, NEW i \in CartImages, NEW p, NEW x
  PROVE  IsCase(Probe32(fs, k, i, p, x))
  BY DEF IsCase, Case, Cart, Probe32

LEMMA InlineIs ==
  ASSUME NEW f \in Filters, NEW nr, nr = "write" \/ nr = "socket", NEW x
  PROVE  IsCase(Inline(f, nr, x))
  BY DEF IsCase, Case, Cart, Inline

AllAre(l) == Len(l) \in Nat \ {0} /\ \A i \in 1 .. Len(l) : IsCase(l[i])

\* The cases of the scripts and of the raw tests, list by list.
LEMMA ScriptH == AllAre(run_guest_tests_h)
<1>1. Plain \in Options /\ Isolated \in Options /\ "static" \in CartImages
  BY DEF Plain, Isolated, Options, CartImages
<1> PICK c1 : c1 = Case("h", Plain, Cart("static", "open"), {159})
  OBVIOUS
<1> PICK c2 : c2 = Case("h", Plain, Cart("static", "socket"), {159})
  OBVIOUS
<1> PICK c3 : c3 = Case("h", Plain, Cart("static", "execve"), {159})
  OBVIOUS
<1> PICK c4 : c4 = Case("h", Plain, Cart("static", "mprotect"), {159})
  OBVIOUS
<1> PICK c5 : c5 = Case("h", Plain, Cart("static", "uname"), {0})
  OBVIOUS
<1> PICK c6 : c6 = Case("h", Isolated, Cart("static", "hello"), {0})
  OBVIOUS
<1> PICK c7 : c7 = Case("h", Isolated, Cart("static", "open"), {1})
  OBVIOUS
<1>2. run_guest_tests_h = <<c1, c2, c3, c4, c5, c6, c7>>
  BY DEF run_guest_tests_h
<1>3. \A p, x : /\ IsCase(Case("h", Plain, Cart("static", p), x))
                /\ IsCase(Case("h", Isolated, Cart("static", p), x))
  BY ONLY <1>1, EntryIs
<1>4. /\ IsCase(c1) /\ IsCase(c2) /\ IsCase(c3) /\ IsCase(c4) /\ IsCase(c5) /\ IsCase(c6)
      /\ IsCase(c7)
  BY <1>3
<1>5. Len(<<c1, c2, c3, c4, c5, c6, c7>>) = 7
      /\ \A i \in 1 .. 7 : IsCase(<<c1, c2, c3, c4, c5, c6, c7>>[i])
  BY ONLY <1>4
<1> QED BY ONLY <1>2, <1>5 DEF AllAre

LEMMA ScriptR == AllAre(run_guest_tests_r)
<1>1. Plain \in Options /\ "static" \in CartImages
  BY DEF Plain, Options, CartImages
<1> PICK c1 : c1 = Case("r", Plain, Cart("static", "socket"), {159})
  OBVIOUS
<1> PICK c2 : c2 = Case("r", Plain, Cart("static", "uname"), {159})
  OBVIOUS
<1>2. run_guest_tests_r = <<c1, c2>>
  BY DEF run_guest_tests_r
<1>3. \A p, x : IsCase(Case("r", Plain, Cart("static", p), x))
  BY ONLY <1>1, EntryIs
<1>4. IsCase(c1) /\ IsCase(c2)
  BY <1>3
<1>5. Len(<<c1, c2>>) = 2 /\ \A i \in 1 .. 2 : IsCase(<<c1, c2>>[i])
  BY ONLY <1>4
<1> QED BY ONLY <1>2, <1>5 DEF AllAre

LEMMA ScriptS == AllAre(run_guest_stage4)
<1>1. /\ LibDir \in SOptions
      /\ "dynamic" \in CartImages /\ "console" \in CartImages /\ "static_s" \in CartImages
  BY DEF LibDir, SOptions, CartImages
<1> PICK c1 : c1 = Case("s", LibDir, Cart("dynamic", "socket"), {159})
  OBVIOUS
<1> PICK c2 : c2 = Case("s", LibDir, Cart("dynamic", "execve"), {159})
  OBVIOUS
<1> PICK c3 : c3 = Case("s", LibDir, Cart("dynamic", "write"), {0})
  OBVIOUS
<1> PICK c4 : c4 = run_cart(Cart("console", "workload"))
  OBVIOUS
<1> PICK c5 : c5 = run_cart(Cart("static_s", "workload"))
  OBVIOUS
<1> PICK c6 : c6 = run_cart(Cart("dynamic", "write"))
  OBVIOUS
<1>2. run_guest_stage4 = <<c1, c2, c3, c4, c4, c5, c6>>
  BY DEF run_guest_stage4
<1>3. IsCase(c1) /\ IsCase(c2) /\ IsCase(c3)
  BY <1>1, EntryIs
<1>4. IsCase(c4) /\ IsCase(c5) /\ IsCase(c6)
  BY <1>1, EntryIs
<1>5. Len(<<c1, c2, c3, c4, c4, c5, c6>>) = 7
      /\ \A i \in 1 .. 7 : IsCase(<<c1, c2, c3, c4, c4, c5, c6>>[i])
  BY ONLY <1>3, <1>4
<1> QED BY ONLY <1>2, <1>5 DEF AllAre

LEMMA ScriptRawR == AllAre(seccomp_raw_test_r)
<1> PICK f : f = "unified"
  OBVIOUS
<1> PICK fs : fs = <<"unified">>
  OBVIOUS
<1> PICK gs : gs = <<"kill_uname", "allow_all">>
  OBVIOUS
<1> PICK i : i = "static"
  OBVIOUS
<1>1. i \in CartImages /\ f \in Filters /\ fs \in Seq(Filters) /\ gs \in Seq(Filters)
  BY DEF CartImages, Filters
<1> PICK c1 : c1 = Inline(f, "write", {0})
  OBVIOUS
<1> PICK c2 : c2 = Probe32(fs, 127, i, "socket", {159})
  OBVIOUS
<1> PICK c3 : c3 = Probe32(gs, 127, i, "uname", {159})
  OBVIOUS
<1>2. seccomp_raw_test_r = <<c1, c2, c3>>
  BY DEF seccomp_raw_test_r
<1>3. IsCase(c1)
  BY ONLY <1>1, c1 = Inline(f, "write", {0}), InlineIs
<1>4. IsCase(c2)
  BY ONLY <1>1, c2 = Probe32(fs, 127, i, "socket", {159}), ProbeIs
<1>5. IsCase(c3)
  BY ONLY <1>1, c3 = Probe32(gs, 127, i, "uname", {159}), ProbeIs
<1>6. Len(<<c1, c2, c3>>) = 3 /\ \A j \in 1 .. 3 : IsCase(<<c1, c2, c3>>[j])
  BY ONLY <1>3, <1>4, <1>5
<1> QED BY ONLY <1>2, <1>6 DEF AllAre

LEMMA ScriptRawS == AllAre(seccomp_raw_test_s)
<1> PICK f : f = "dispatch"
  OBVIOUS
<1> PICK fs : fs = <<"dispatch">>
  OBVIOUS
<1> PICK gs : gs = <<"rv64only">>
  OBVIOUS
<1> PICK hs : hs = <<"write_errno">>
  OBVIOUS
<1> PICK i : i = "static_s"
  OBVIOUS
<1>1. i \in CartImages /\ f \in Filters
  BY DEF CartImages, Filters
<1>2. fs \in Seq(Filters) /\ gs \in Seq(Filters) /\ hs \in Seq(Filters)
  BY DEF Filters
<1> PICK c1 : c1 = Inline(f, "write", {0})
  OBVIOUS
<1> PICK c2 : c2 = Inline(f, "socket", {159})
  OBVIOUS
<1> PICK c3 : c3 = Probe32(fs, 126, i, "write", {0})
  OBVIOUS
<1> PICK c4 : c4 = Probe32(fs, 126, i, "socket", {159})
  OBVIOUS
<1> PICK c5 : c5 = Probe32(fs, 126, i, "execve", {159})
  OBVIOUS
<1> PICK c6 : c6 = Probe32(gs, 126, i, "write", {159})
  OBVIOUS
<1> PICK c7 : c7 = Probe32(hs, 126, i, "write", AnyStatus)
  OBVIOUS
<1>3. seccomp_raw_test_s = <<c1, c2, c3, c4, c5, c6, c7>>
  BY DEF seccomp_raw_test_s
<1>4. IsCase(c1) /\ IsCase(c2)
  BY ONLY <1>1, c1 = Inline(f, "write", {0}), c2 = Inline(f, "socket", {159}), InlineIs
<1>5. ASSUME NEW l \in Seq(Filters), NEW p, NEW x PROVE IsCase(Probe32(l, 126, i, p, x))
  BY ONLY <1>1, <1>5, ProbeIs
<1>6. IsCase(c3) /\ IsCase(c4) /\ IsCase(c5)
  BY ONLY <1>2, <1>5, c3 = Probe32(fs, 126, i, "write", {0}),
          c4 = Probe32(fs, 126, i, "socket", {159}), c5 = Probe32(fs, 126, i, "execve", {159})
<1>7. IsCase(c6) /\ IsCase(c7)
  BY ONLY <1>2, <1>5, c6 = Probe32(gs, 126, i, "write", {159}),
          c7 = Probe32(hs, 126, i, "write", AnyStatus)
<1>8. Len(<<c1, c2, c3, c4, c5, c6, c7>>) = 7
      /\ \A j \in 1 .. 7 : IsCase(<<c1, c2, c3, c4, c5, c6, c7>>[j])
  BY ONLY <1>4, <1>6, <1>7
<1> QED BY ONLY <1>3, <1>8 DEF AllAre

\* Whatever runs is a case.
LEMMA CasesAre ==
  ASSUME NEW s \in Scripts
  PROVE  AllAre(CasesOf(s))
<1>1. CASE s \in [name : DOMAIN Script]
  <2>1. s.name \in {"h", "r", "s", "raw_r", "raw_s"}
    BY <1>1 DEF Script
  <2>2. /\ Script["h"] = run_guest_tests_h /\ Script["r"] = run_guest_tests_r
        /\ Script["s"] = run_guest_stage4 /\ Script["raw_r"] = seccomp_raw_test_r
        /\ Script["raw_s"] = seccomp_raw_test_s
    BY DEF Script
  <2>3. CasesOf(s) = Script[s.name]
    BY <2>1 DEF CasesOf
  <2> QED BY ONLY <2>1, <2>2, <2>3, ScriptH, ScriptR, ScriptS, ScriptRawR, ScriptRawS
<1>2. CASE s \in [name : {"single"}, case : SingleCases, argv : {"launch", "help", "bad"}]
  <2> PICK c : c = s.case
    OBVIOUS
  <2>1. s.name = "single" /\ c \in SingleCases
    BY <1>2
  <2>2. CasesOf(s) = <<c>>
    BY <2>1 DEF CasesOf
  <2>3. c \in LauncherCases
    BY <2>1, LaunchAssumption
  <2>4. IsCase(c)
    BY ONLY <2>3 DEF LauncherCases, Launches, IsCase, Options, SOptions
  <2> QED BY ONLY <2>2, <2>4 DEF AllAre
<1> QED BY <1>1, <1>2 DEF Scripts

\* What the launcher reports is its own or the child's.
Reported ==
  \/ ret \in {Running, 1, 124}
  \/ child.status # Running /\ ret = ExitStatus(child.status)
  \/ /\ ~Launching /\ child = NoChild
     /\ ret = IF script.argv = "help" THEN 0 ELSE 2

\* A cart that is no probe, which alone ends with a status of its own.
OfItsOwn(c) == c.image \notin {"none", "launcher"} /\ Current.cart.probe = "workload"

\* Whose the child's status is, and that a child was asked for.
Owned ==
  /\ child.status \in PlainStatuses \/ OfItsOwn(child)
  /\ Launching \/ child = NoChild

\* A case counts once; the preflight checks count before the first.
Counted ==
  /\ fails \in Nat /\ fails <= idx + (IF verdict = Running THEN 0 ELSE 1)
  /\ reached \subseteq (1 .. Len(CasesOf(script))) \X {"stopped", "made"}

LInv ==
  /\ kernel \in Kernels /\ script \in Scripts /\ idx \in 1 .. Len(CasesOf(script))
  /\ faults \in 0 .. MAX_FAULTS /\ verdict \in {Running, 0, 1}
  /\ Counted /\ Reported /\ Owned /\ ChildOK(child, Current)

\* The invariant of the launch, and what it says of a state.
LEMMA NoChildOK ==
  ASSUME NEW cs PROVE ChildOK(NoChild, cs)
<1>1. << >> \in Seq(Steps) /\ << >> \in Seq(Filters)
  OBVIOUS
<1>2. NoChild.image = "none"
  BY DEF NoChild
<1>3. NoChild \in Children
  BY <1>1 DEF NoChild, Children, Statuses, PlainStatuses
<1> QED BY <1>2, <1>3 DEF ChildOK

\* Every status is an exit status or one of two signals.
LEMMA StatusIs ==
  ASSUME NEW k \in Statuses
  PROVE  k \in {Running, -31, -11} \/ k \in 0 .. 255
<1>1. Codes \subseteq 0 .. 255 /\ CartCodes \subseteq 0 .. 255
  BY LaunchAssumption DEF Codes
<1> QED BY <1>1 DEF Statuses, PlainStatuses

\* The script is always at one of its cases.
LEMMA CurrentIs ==
  ASSUME LInv PROVE IsCase(Current) /\ Len(CasesOf(script)) \in Nat \ {0}
<1>1. AllAre(CasesOf(script))
  BY CasesAre DEF LInv
<1> QED BY <1>1 DEF LInv, AllAre, Current

\* The parent's return value is its own, or an exit status.
LEMMA RetType ==
  ASSUME LInv PROVE ret \in {Running} \cup 0 .. 255
<1>1. child.status \in {Running, -31, -11} \/ child.status \in 0 .. 255
  BY ChildHas, StatusIs DEF LInv, ChildOK
<1>2. ExitStatus(child.status) \in 0 .. 255 \/ child.status = Running
  BY <1>1 DEF ExitStatus
<1>3. \/ ret \in {Running, 1, 124} \/ (child.status # Running /\ ret = ExitStatus(child.status))
      \/ ret \in {0, 2}
  BY DEF LInv, Reported
<1> QED BY ONLY <1>2, <1>3

\* The invariant gives what the runs check.
LEMMA LInvSays ==
  ASSUME LInv PROVE LaunchSafe /\ ReportSound
<1> PICK cs : cs = Current
  OBVIOUS
<1> PICK n \in Nat : n = Len(CasesOf(script))
  BY CurrentIs
<1>0. IsCase(cs) /\ ChildOK(child, cs)
  BY CurrentIs DEF LInv
<1>1. child \in Children /\ child.status \in Statuses /\ child.todo \in Seq(Steps)
      /\ child.filters \in Seq(Filters)
  BY <1>0, ChildHas DEF ChildOK
<1>2. TypeOK
  <2>1. kernel \in Kernels /\ idx \in 1 .. n /\ faults \in 0 .. MAX_FAULTS
        /\ verdict \in {Running, 0, 1} /\ reached \subseteq (1 .. n) \X {"stopped", "made"}
    BY DEF LInv, Counted
  <2>2. fails \in 0 .. (n + 1)
    <3>1. fails \in Nat /\ fails <= idx + (IF verdict = Running THEN 0 ELSE 1)
      BY DEF LInv, Counted
    <3>2. fails <= idx + 1
      BY <2>1, <3>1
    <3> QED BY <2>1, <3>1, <3>2
  <2>3. child.status \in {Running, -31, -11} \cup 0 .. 255
    BY <1>1, StatusIs
  <2>4. ToSet(child.filters) \subseteq Filters
    BY <1>1 DEF ToSet
  <2> QED BY <2>1, <2>2, <2>3, <2>4, RetType DEF TypeOK
<1>3. DOMAIN FilterOf = {"h", "r", "s"}
  BY DEF FilterOf
<1>4. CartRunsOnlyIsolated
  <2> SUFFICES ASSUME child.image \notin {"none", "launcher"}, cs.kind \in {"h", "r", "s"}
               PROVE  LET o == cs.opts
                      IN  /\ child.nnp
                          /\ o.seccomp => FilterOf[cs.kind] \in ToSet(child.filters)
                          /\ cs.kind \in {"h", "r"} =>
                                /\ o.mountns => "mnt" \in child.ns /\ child.private
                                /\ o.netns => "net" \in child.ns
                                /\ o.rootfs => child.root = "new" /\ ~child.old
                                /\ o.cgroup => child.cgroup
    BY <1>3 DEF CartRunsOnlyIsolated, InCart
  <2>1. (\A e \in Needs(cs) : Did(child, cs.opts, e)) /\ ~child.old
    BY <1>0 DEF ChildOK, CartOK, ByLauncher, Behind
  <2> PICK f : f = FilterOf[cs.kind]
    OBVIOUS
  <2> PICK o : o = cs.opts
    OBVIOUS
  <2>2. f \in Filters
    BY <1>0, NeedsAre DEF ByLauncher
  <2>3. "nnp" \in Needs(cs) /\ (o.seccomp => f \in Needs(cs))
    <3>1. FilterOf["s"] = "phase1"
      BY DEF FilterOf
    <3> QED BY <3>1 DEF Needs, NeedsS, NeedsHR
  <2>4. child.nnp /\ (o.seccomp => f \in ToSet(child.filters))
    BY <2>1, <2>2, <2>3 DEF Did
  <2>5. ASSUME cs.kind \in {"h", "r"}
        PROVE  /\ o.mountns => "mnt" \in child.ns /\ child.private
               /\ o.netns => "net" \in child.ns
               /\ o.rootfs => child.root = "new"
               /\ o.cgroup => child.cgroup
    <3>1. Needs(cs) = NeedsHR(o, f)
      BY <2>5 DEF Needs
    <3>2. /\ o.mountns => "ns" \in Needs(cs) /\ "private" \in Needs(cs)
          /\ o.netns => "ns" \in Needs(cs)
          /\ o.rootfs => "root" \in Needs(cs)
          /\ o.cgroup => "cgroup" \in Needs(cs)
      BY ONLY <3>1 DEF NeedsHR
    <3>3. /\ (o.mountns \/ o.netns) => child.ns = Asks(o)
          /\ o.mountns => child.private
          /\ o.rootfs => child.root = "new"
          /\ o.cgroup => child.cgroup
      BY ONLY <2>1, <3>2, o = cs.opts DEF Did
    <3>4. /\ o.mountns => "mnt" \in Asks(o)
          /\ o.netns => "net" \in Asks(o)
      BY DEF Asks
    <3> QED BY ONLY <3>3, <3>4
  <2> QED BY <2>1, <2>4, <2>5
<1>5. SetupSurvivesItsOwnFilter
  BY <1>0, <1>3 DEF SetupSurvivesItsOwnFilter, ChildOK, Setup, ByLauncher, Isolates
<1>6. MainRunsUnderPhase2
  <2> SUFFICES ASSUME child.image = "dynamic",
                      child.probed \/ (child.todo # << >> /\ Head(child.todo).eff = "probe")
               PROVE  "phase2" \in ToSet(child.filters)
    BY DEF MainRunsUnderPhase2, Alive, Head1
  <2>1. "phase2" \in ToSet(child.filters) \/ (~child.probed /\ Narrowed(child.todo))
    BY <1>0 DEF ChildOK, CartOK
  <2>2. child.todo # << >> /\ Narrowed(child.todo) => Head(child.todo).eff # "probe"
    BY ONLY <1>1, TailCart
  <2> QED BY <2>1, <2>2
<1>7. ReportSound
  <2> SUFFICES ASSUME cs.kind \in {"h", "r", "s"}
               PROVE  /\ ret = 0 => IF Launching
                                    THEN child.image \notin {"none", "launcher"} /\ child.status = 0
                                    ELSE script.argv = "help" /\ child = NoChild
                      /\ ret = 159 => \/ child.status = -31
                                      \/ OfItsOwn(child) /\ child.status = 159
    BY <1>3 DEF ReportSound, InCart, OfItsOwn
  <2>1. Owned
    BY DEF LInv
  <2>2. /\ ExitStatus(child.status) = 0 => child.status = 0 \/ child.status = Running
        /\ ExitStatus(child.status) = 159 => child.status = -31 \/ child.status = 159
    <3>1. child.status \in {Running, -31, -11} \/ child.status \in 0 .. 255
      BY <1>1, StatusIs
    <3> QED BY ONLY <3>1 DEF ExitStatus, Running
  <2>3. child.image = "none" => child.status = Running
    BY <1>0 DEF ChildOK, NoChild
  <2>4. child.image = "launcher" => child.status # 0
    BY <1>0 DEF ChildOK, Setup, ByLauncher, Isolates
  <2>5. NoChild.status = Running
    BY DEF NoChild
  <2>6. CASE Launching
    <3>1. ASSUME ret = 0 \/ ret = 159
          PROVE  child.status # Running /\ ret = ExitStatus(child.status)
      BY <2>6, <3>1 DEF LInv, Reported, Running
    <3>2. child.status = 159 => OfItsOwn(child)
      BY <2>1 DEF Owned, PlainStatuses, Codes, Running
    <3> QED BY <2>2, <2>3, <2>4, <2>6, <3>1, <3>2
  <2>7. CASE ~Launching
    <3>1. child = NoChild
      BY <2>1, <2>7 DEF Owned
    <3>2. ret \in {Running, 1, 124} \/ ret = IF script.argv = "help" THEN 0 ELSE 2
      BY <2>5, <3>1 DEF LInv, Reported
    <3> QED BY <2>7, <3>1, <3>2 DEF Running
  <2> QED BY <2>6, <2>7
<1> QED BY <1>2, <1>4, <1>5, <1>6, <1>7 DEF LaunchSafe

\* No script has started.
LEMMA InitLInv == Init => LInv
<1> SUFFICES ASSUME Init PROVE LInv
  OBVIOUS
<1>1. script \in Scripts /\ kernel \in Kernels /\ idx = 1 /\ fails = 0 /\ reached = {} /\ faults = 0
      /\ child = NoChild /\ ret = Running /\ verdict = Running
  BY DEF Init
<1>2. AllAre(CasesOf(script))
  BY <1>1, CasesAre
<1>3. Len(CasesOf(script)) \in Nat \ {0}
  BY <1>2 DEF AllAre
<1>4. idx \in 1 .. Len(CasesOf(script)) /\ faults \in 0 .. MAX_FAULTS
  BY <1>1, <1>3, LaunchAssumption
<1>5. Counted
  BY <1>1 DEF Counted
<1>6. ChildOK(child, Current)
  BY <1>1, NoChildOK
<1>7. Owned
  BY <1>1 DEF Owned, NoChild, PlainStatuses
<1> QED BY <1>1, <1>4, <1>5, <1>6, <1>7 DEF LInv, Reported

\* A child there is was asked for.
LEMMA WasAsked ==
  ASSUME LInv, child.todo # << >> PROVE Launching /\ child # NoChild
  BY DEF LInv, Owned, NoChild

\* A step that changes the child only, or a fault's count and a report too.
LEMMA ChildSteps ==
  ASSUME LInv, UNCHANGED <<kernel, script, idx, fails, reached, verdict>>,
         faults' \in 0 .. MAX_FAULTS, Reported', ChildOK(child', Current),
         \/ child' = child
         \/ Launching /\ (child'.status \in PlainStatuses \/ OfItsOwn(child'))
  PROVE  LInv'
<1>1. Current' = Current /\ CasesOf(script)' = CasesOf(script)
  BY DEF Current, CasesOf
<1>2. ChildOK(child, Current)'
  BY <1>1
<1>3. Counted'
  BY <1>1 DEF LInv, Counted
<1>4. Launching' <=> Launching
  BY DEF Launching
<1>5. Owned'
  <2>1. CASE child' = child
    BY <1>1, <1>4, <2>1 DEF LInv, Owned, OfItsOwn
  <2>2. CASE Launching /\ (child'.status \in PlainStatuses \/ OfItsOwn(child'))
    BY <1>1, <1>4, <2>2 DEF Owned, OfItsOwn
  <2> QED BY <2>1, <2>2
<1> QED BY <1>1, <1>2, <1>3, <1>5 DEF LInv

\* The bound on the faults.
LEMMA FaultCount ==
  ASSUME LInv, faults < MAX_FAULTS, faults' = faults + 1
  PROVE  faults' \in 0 .. MAX_FAULTS
  BY LaunchAssumption DEF LInv

\* A report is made once, and of a child that has ended.
LEMMA StillReported ==
  ASSUME LInv, ret' = ret, child.status = Running, child.todo # << >>
  PROVE  Reported'
  BY WasAsked DEF LInv, Reported

\* The preservation of the invariant, action by action.
LEMMA PreflightLInv ==
  ASSUME LInv, Preflight PROVE LInv'
<1>1. idx = 1 /\ fails' = 1 /\ verdict' = verdict /\ verdict = Running
      /\ faults' = faults + 1 /\ faults < MAX_FAULTS
      /\ UNCHANGED <<kernel, script, idx, reached, child, ret, verdict>>
  BY DEF Preflight
<1>2. Current' = Current /\ CasesOf(script)' = CasesOf(script)
  BY <1>1 DEF Current, CasesOf
<1>3. faults' \in 0 .. MAX_FAULTS
  BY <1>1, FaultCount
<1>4. Counted'
  BY <1>1, <1>2 DEF LInv, Counted
<1>5. Reported' /\ Owned'
  BY <1>1, <1>2 DEF LInv, Reported, Owned, OfItsOwn, Launching
<1>6. ChildOK(child, Current)'
  BY <1>1, <1>2 DEF LInv
<1> QED BY <1>1, <1>2, <1>3, <1>4, <1>5, <1>6 DEF LInv

LEMMA ParseArgsLInv ==
  ASSUME LInv, ParseArgs PROVE LInv'
<1>1. /\ UNCHANGED <<kernel, script, idx, fails, reached, faults, child, verdict>>
      /\ ~Launching /\ child = NoChild /\ ret' = IF script.argv = "help" THEN 0 ELSE 2
  BY DEF ParseArgs, Fresh
<1>2. Reported'
  BY <1>1 DEF Reported, Launching
<1>3. ChildOK(child', Current) /\ faults' \in 0 .. MAX_FAULTS
  BY <1>1 DEF LInv
<1> QED BY <1>1, <1>2, <1>3, ChildSteps

LEMMA SkipCartLInv ==
  ASSUME LInv, SkipCart PROVE LInv'
<1> PICK n \in Nat : n = Len(CasesOf(script))
  BY CurrentIs
<1>1. /\ idx < n /\ idx' = idx + 1 /\ child = NoChild /\ ret = Running /\ verdict = Running
      /\ UNCHANGED <<kernel, script, fails, reached, faults, child, ret, verdict>>
  BY DEF SkipCart, Fresh
<1>2. CasesOf(script)' = CasesOf(script)
  BY <1>1 DEF CasesOf
<1>3. idx \in 1 .. n /\ fails \in Nat /\ fails <= idx
  BY <1>1 DEF LInv, Counted
<1>4. idx' \in 1 .. n /\ fails <= idx'
  BY ONLY <1>1, <1>3, n \in Nat
<1>5. Counted'
  BY <1>1, <1>2, <1>3, <1>4 DEF LInv, Counted
<1>6. Reported' /\ Owned'
  BY <1>1 DEF Reported, Owned, NoChild, PlainStatuses
<1>7. ChildOK(child, Current)'
  BY <1>1, NoChildOK
<1> QED BY <1>1, <1>2, <1>4, <1>5, <1>6, <1>7 DEF LInv

LEMMA ForkLInv ==
  ASSUME LInv, Fork PROVE LInv'
<1> PICK cs : cs = Current
  OBVIOUS
<1> PICK t : t = ChildMain(cs)
  OBVIOUS
<1> PICK X : X = child'
  OBVIOUS
<1>1. /\ X = [NoChild EXCEPT !.image = "launcher", !.todo = t] /\ ret = Running
      /\ UNCHANGED <<kernel, script, idx, fails, reached, faults, ret, verdict>>
  BY DEF Fork, Fresh
<1>2. IsCase(cs)
  BY CurrentIs
<1>3. /\ AnyPlan(cs, t)
      /\ ByLauncher(cs) => Plan(t, FilterOf[cs.kind], Needs(cs))
  BY <1>2, ChildMainIs DEF ByLauncher
<1>4. /\ IsChild(X) /\ X.image = "launcher" /\ X.todo = t /\ X.nnp = FALSE /\ X.filters = << >>
      /\ X.ns = {} /\ X.private = FALSE /\ X.root = "host" /\ X.old = FALSE
      /\ X.cgroup = FALSE /\ X.probed = FALSE /\ X.status = Running
  BY <1>1 DEF NoChild, IsChild
<1>5. X \in Children
  <2>1. t \in Seq(Steps) /\ << >> \in Seq(Filters) /\ Running \in Statuses
        /\ {} \in SUBSET {"mnt", "net"}
    BY <1>3 DEF AnyPlan, Statuses, PlainStatuses
  <2> QED BY ONLY <1>4, <2>1, ChildType
<1>6. ASSUME ByLauncher(cs) PROVE Isolates(X, cs)
  <2> PICK f : f = FilterOf[cs.kind]
    OBVIOUS
  <2>1. /\ t \in Seq(Steps) /\ RootThenDetach(t) /\ Guarded(t, f)
        /\ Lacks(t, "exit") /\ Lacks(t, "inline")
        /\ \A e \in Needs(cs) : Holds(t, e)
    BY <1>3, <1>6 DEF Plan
  <2>2. Nonzero(t)
    BY ONLY <2>1, ElemsSay DEF Nonzero
  <2>3. Heading(X, cs)
    BY ONLY <1>4, <2>1 DEF Heading
  <2>4. X.status \notin {0, -31}
    BY <1>4 DEF Running
  <2> QED BY ONLY <1>4, <2>1, <2>2, <2>3, <2>4, f = FilterOf[cs.kind] DEF Isolates
<1>7. Setup(X, cs)
  BY ONLY <1>3, <1>4, <1>6 DEF Setup
<1>8. ChildOK(X, cs)
  BY ONLY <1>4, <1>5, <1>7 DEF ChildOK
<1>9. Reported'
  BY <1>1 DEF Reported
<1>10. faults' \in 0 .. MAX_FAULTS
  BY <1>1 DEF LInv
<1>11. Launching /\ X.status \in PlainStatuses
  BY <1>4 DEF Fork, PlainStatuses
<1> QED BY <1>1, <1>8, <1>9, <1>10, <1>11, ChildSteps

LEMMA NoForkLInv ==
  ASSUME LInv, NoFork PROVE LInv'
<1>1. /\ UNCHANGED <<kernel, script, idx, fails, reached, child, verdict>>
      /\ faults' = faults + 1 /\ faults < MAX_FAULTS /\ ret' = 1
  BY DEF NoFork
<1>2. faults' \in 0 .. MAX_FAULTS
  BY <1>1, FaultCount
<1>3. Reported'
  BY <1>1 DEF Reported
<1>4. ChildOK(child', Current)
  BY <1>1 DEF LInv
<1> QED BY <1>1, <1>2, <1>3, <1>4, ChildSteps

LEMMA DoneLInv ==
  ASSUME LInv, StepDone PROVE LInv'
<1> PICK h : h = Head(child.todo)
  OBVIOUS
<1> PICK X : X = Effect(h)
  OBVIOUS
<1>1. /\ child.status = Running /\ child.todo # << >> /\ child' = X
      /\ UNCHANGED <<kernel, script, idx, fails, reached, faults, ret, verdict>>
  BY DEF StepDone, Alive, Head1
<1>2. ChildOK(child, Current) /\ IsCase(Current) /\ faults' \in 0 .. MAX_FAULTS
  BY <1>1, CurrentIs DEF LInv
<1>3. child.image # "none"
  BY <1>1, <1>2 DEF ChildOK, NoChild
<1>4. ChildOK(X, Current)
  <2>1. CASE child.image = "launcher" /\ h.eff # "exec"
    BY <1>1, <1>2, <2>1, SetupStep
  <2>2. CASE child.image = "launcher" /\ h.eff = "exec"
    BY <1>1, <1>2, <2>2, SetupExec
  <2>3. CASE child.image \notin {"none", "launcher"}
    BY <1>1, <1>2, <2>3, CartStepDone
  <2> QED BY <1>3, <2>1, <2>2, <2>3
<1>5. Reported'
  BY <1>1, StillReported
<1>6. Launching /\ X.status \in PlainStatuses
  <2>1. Running \in PlainStatuses /\ Codes \subseteq PlainStatuses
    BY DEF PlainStatuses
  <2>2. child \in Children /\ child.todo \in Seq(Steps)
    BY <1>2, ChildHas DEF ChildOK
  <2>3. h \in Steps
    BY <1>1, <2>2, TailIs
  <2>4. h.onfail \in Codes
    BY <2>3 DEF Steps
  <2>5. X.status = IF h.eff = "exit" THEN h.onfail ELSE child.status
    BY <2>2, <2>3, EffectFields
  <2> QED BY <1>1, <2>1, <2>4, <2>5, WasAsked
<1> QED BY <1>1, <1>2, <1>4, <1>5, <1>6, ChildSteps

LEMMA FailsLInv ==
  ASSUME LInv, StepFails PROVE LInv'
<1> PICK h : h = Head(child.todo)
  OBVIOUS
<1> PICK X : X = OnFailure(h)
  OBVIOUS
<1>1. /\ child.status = Running /\ child.todo # << >> /\ child' = X /\ h.eff # "exit"
      /\ UNCHANGED <<kernel, script, idx, fails, reached, ret, verdict>>
  BY DEF StepFails, Alive, Head1
<1>2. ChildOK(child, Current) /\ IsCase(Current)
  BY CurrentIs DEF LInv
<1>3. faults' \in 0 .. MAX_FAULTS
  <2>1. CASE faults' = faults
    BY <2>1 DEF LInv
  <2>2. CASE faults < MAX_FAULTS /\ faults' = faults + 1
    BY <2>2, FaultCount
  <2> QED BY <2>1, <2>2 DEF StepFails
<1>4. child.image # "none"
  BY <1>1, <1>2 DEF ChildOK, NoChild
<1>5. ChildOK(X, Current)
  <2>1. CASE child.image = "launcher"
    BY <1>1, <1>2, <2>1, SetupFails
  <2>2. CASE child.image \notin {"none", "launcher"}
    BY <1>1, <1>2, <2>2, CartStepFails
  <2> QED BY <1>4, <2>1, <2>2
<1>6. Reported'
  BY <1>1, StillReported
<1>7. Launching /\ X.status \in PlainStatuses
  <2>1. child \in Children /\ child.todo \in Seq(Steps)
    BY <1>2, ChildHas DEF ChildOK
  <2>2. h \in Steps
    BY <1>1, <2>1, TailIs
  <2>3. X.status = child.status
    BY <2>1, <2>2, FailureFields
  <2> QED BY <1>1, <2>3, WasAsked DEF PlainStatuses
<1> QED BY <1>1, <1>3, <1>5, <1>6, <1>7, ChildSteps

LEMMA KilledLInv ==
  ASSUME LInv, StepKilled PROVE LInv'
<1> PICK h : h = Head(child.todo)
  OBVIOUS
<1> PICK b : b = (child.probed \/ h.eff = "probe")
  OBVIOUS
<1> PICK X : X = [child EXCEPT !.status = -31, !.probed = b]
  OBVIOUS
<1> PICK cs : cs = Current
  OBVIOUS
<1>0. ChildOK(child, cs) /\ IsCase(cs) /\ child \in Children /\ child.todo \in Seq(Steps)
  BY CurrentIs, ChildHas DEF LInv, ChildOK
<1>1. /\ child.status = Running /\ child.todo # << >> /\ Killed(h)
      /\ UNCHANGED <<kernel, script, idx, fails, reached, faults, ret, verdict>>
  BY DEF StepKilled, Alive, Head1
<1>2. child' = X
  <2>1. child' = [child EXCEPT !.status = -31, !.probed = child.probed \/ h.eff = "probe"]
    BY <1>0 DEF StepKilled, Head1, Children
  <2> QED BY ONLY <2>1, X = [child EXCEPT !.status = -31, !.probed = b],
                  b = (child.probed \/ h.eff = "probe")
<1>3. child.image # "none"
  BY <1>0, <1>1 DEF ChildOK, NoChild
<1>4. ASSUME child.image = "launcher" PROVE h.eff # "probe" /\ ~ByLauncher(cs)
  <2>1. Setup(child, cs)
    BY <1>0, <1>4 DEF ChildOK
  <2>2. h.eff # "probe"
    <3>1. Lacks(child.todo, "probe")
      BY <2>1 DEF Setup, AnyPlan
    <3> QED BY ONLY <1>0, <1>1, <3>1, h = Head(child.todo), TailEffects
  <2>3. ASSUME ByLauncher(cs) PROVE FALSE
    <3>1. PICK nr \in h.sys : Verdict(nr) = "KILL"
      BY <1>1 DEF Killed
    <3>2. \/ child.filters = << >>
          \/ child.filters = <<FilterOf[cs.kind]>> /\ AllQuiet(child.todo)
      BY <2>1, <2>3 DEF Setup, Isolates
    <3>3. AllQuiet(child.todo) => h.sys \subseteq {"write", "execve", "exit_group"}
      <4>1. AllQuiet(child.todo) => Quiet(h)
        BY ONLY <1>0, <1>1, h = Head(child.todo), TailGuarded
      <4> QED BY ONLY <4>1 DEF Quiet
    <3>4. FilterOf[cs.kind] \in {"spike_h", "unified", "phase1"}
      BY <1>0, <2>3, NeedsAre
    <3>5. Verdict(nr) = "ALLOW"
      BY ONLY <1>4, <3>1, <3>2, <3>3, <3>4, OwnVerdict
    <3> QED BY <3>1, <3>5
  <2> QED BY <2>2, <2>3
<1>5. ChildOK(X, Current)
  <2>1. b \in BOOLEAN /\ -31 \in Statuses
    BY <1>0 DEF Children, Statuses, PlainStatuses
  <2> QED BY ONLY <1>0, <1>1, <1>3, <1>4, <2>1, X = [child EXCEPT !.status = -31, !.probed = b],
                  b = (child.probed \/ h.eff = "probe"), cs = Current, h = Head(child.todo),
                  Signalled
<1>6. Reported' /\ faults' \in 0 .. MAX_FAULTS
  BY <1>1, StillReported DEF LInv
<1>7. Launching /\ child'.status \in PlainStatuses
  <2>1. X.status = -31
    BY <1>0 DEF Children
  <2> QED BY <1>1, <1>2, <2>1, WasAsked DEF PlainStatuses
<1> QED BY <1>1, <1>2, <1>5, <1>6, <1>7, ChildSteps

\* The cart ends by itself: it crashes, or returns a status of its own.
LEMMA EndsLInv ==
  ASSUME LInv, NEW k \in Statuses, k = -11 \/ Current.cart.probe = "workload",
         child.status = Running, child.todo # << >>, child.image \notin {"none", "launcher"},
         child' = [child EXCEPT !.status = k], faults < MAX_FAULTS, faults' = faults + 1,
         UNCHANGED <<kernel, script, idx, fails, reached, ret, verdict>>
  PROVE  LInv'
<1> PICK h : h = Head(child.todo)
  OBVIOUS
<1> PICK b : b = child.probed
  OBVIOUS
<1> PICK X : X = [child EXCEPT !.status = k, !.probed = b]
  OBVIOUS
<1>0. ChildOK(child, Current) /\ IsCase(Current) /\ child \in Children /\ IsChild(child)
      /\ b \in BOOLEAN
  BY CurrentIs, ChildHas DEF LInv, ChildOK
<1>1. child' = X /\ X.status = k /\ X.image = child.image
  BY <1>0 DEF IsChild
<1>2. ChildOK(X, Current)
  BY ONLY <1>0, X = [child EXCEPT !.status = k, !.probed = b], k \in Statuses,
          child.todo # << >>, child.image \notin {"none", "launcher"},
          b = child.probed, h = Head(child.todo), Signalled
<1>3. Reported' /\ faults' \in 0 .. MAX_FAULTS
  BY StillReported, FaultCount
<1>4. Launching /\ (X.status \in PlainStatuses \/ OfItsOwn(X))
  BY <1>1, WasAsked DEF PlainStatuses, OfItsOwn
<1> QED BY <1>1, <1>2, <1>3, <1>4, ChildSteps

LEMMA CrashLInv ==
  ASSUME LInv, CartCrashes PROVE LInv'
<1>1. -11 \in Statuses
  BY DEF Statuses, PlainStatuses
<1> QED BY <1>1, EndsLInv DEF CartCrashes, Alive

LEMMA ReturnsLInv ==
  ASSUME LInv, CartReturns PROVE LInv'
<1> PICK code \in CartCodes : child' = [child EXCEPT !.status = code]
  BY DEF CartReturns
<1>1. code \in Statuses
  BY DEF Statuses
<1> QED BY <1>1, EndsLInv DEF CartReturns, Alive

LEMMA WaitLInv ==
  ASSUME LInv, Wait \/ WaitFails \/ TimesOut PROVE LInv'
<1>1. UNCHANGED <<kernel, script, idx, fails, reached, child, verdict>>
  BY DEF Wait, WaitFails, TimesOut
<1>2. faults' \in 0 .. MAX_FAULTS
  <2>1. CASE faults' = faults
    BY <2>1 DEF LInv
  <2>2. CASE faults < MAX_FAULTS /\ faults' = faults + 1
    BY <2>2, FaultCount
  <2> QED BY <2>1, <2>2 DEF Wait, WaitFails, TimesOut
<1>3. Reported'
  <2>1. CASE Wait
    <3>1. child.status # Running /\ ret' = ExitStatus(child.status) /\ child' = child
      BY <2>1 DEF Wait
    <3>2. ExitStatus(child.status)' = ExitStatus(child.status)
      BY <3>1
    <3> QED BY ONLY <3>1, <3>2 DEF Reported
  <2>2. CASE WaitFails \/ TimesOut
    <3>1. ret' = 1 \/ ret' = 124
      BY <2>2 DEF WaitFails, TimesOut
    <3> QED BY <3>1 DEF Reported
  <2> QED BY <2>1, <2>2
<1>4. ChildOK(child', Current)
  BY <1>1 DEF LInv
<1> QED BY <1>1, <1>2, <1>3, <1>4, ChildSteps

LEMMA JudgeLInv ==
  ASSUME LInv, Judge PROVE LInv'
<1> PICK n \in Nat : n = Len(CasesOf(script))
  BY CurrentIs
<1>1. /\ verdict = Running /\ UNCHANGED <<kernel, script, faults>>
      /\ fails' = fails \/ fails' = fails + 1
      /\ \/ reached' = reached
         \/ \E v \in {"stopped", "made"} : reached' = reached \union {<<idx, v>>}
      /\ script.name # "single"
  BY DEF Judge
<1> DEFINE R == (1 .. n) \X {"stopped", "made"}
<1>2. /\ idx \in 1 .. n /\ fails \in Nat /\ fails <= idx /\ reached \subseteq R
      /\ faults \in 0 .. MAX_FAULTS /\ kernel \in Kernels /\ script \in Scripts
  BY <1>1 DEF LInv, Counted
<1>3. CasesOf(script)' = CasesOf(script)
  BY <1>1 DEF CasesOf
<1>6. fails' = fails \/ fails' = fails + 1
  BY ONLY <1>1
<1>7. reached' \subseteq R
  <2>1. CASE reached' = reached
    BY ONLY <1>2, <2>1
  <2>2. ASSUME NEW v \in {"stopped", "made"}, reached' = reached \union {<<idx, v>>}
        PROVE  reached' \subseteq R
    BY ONLY <1>2, <2>2
  <2> QED BY ONLY <1>1, <2>1, <2>2
<1>8. Launching'
  BY <1>1 DEF Launching
<1> HIDE DEF R
<1>4. CASE idx < n /\ idx' = idx + 1 /\ child' = NoChild /\ ret' = Running /\ verdict' = verdict
  <2>1. idx' \in 1 .. n /\ fails' \in Nat /\ fails' <= idx' /\ reached' \subseteq R
    <3>1. idx' \in 1 .. n
      BY ONLY <1>2, <1>4, n \in Nat
    <3>2. fails' \in Nat /\ fails' <= idx'
      BY ONLY <1>6, <1>2, <1>4, n \in Nat
    <3> QED BY ONLY <1>7, <3>1, <3>2
  <2>2. Counted'
    BY <1>1, <1>3, <1>4, <2>1 DEF Counted, R
  <2>3. ChildOK(child, Current)'
    BY <1>4, NoChildOK
  <2>4. Reported' /\ Owned'
    BY <1>4 DEF Reported, Owned, NoChild, PlainStatuses
  <2> QED BY <1>1, <1>2, <1>3, <1>4, <2>1, <2>2, <2>3, <2>4 DEF LInv
<1>5. CASE UNCHANGED <<idx, child, ret>> /\ verdict' \in {0, 1}
  <2>1. idx' \in 1 .. n /\ fails' \in Nat /\ fails' <= idx' + 1 /\ reached' \subseteq R
    <3>1. idx' \in 1 .. n
      BY ONLY <1>2, <1>5
    <3>2. fails' \in Nat /\ fails' <= idx' + 1
      BY ONLY <1>6, <1>2, <1>5, n \in Nat
    <3> QED BY ONLY <1>7, <3>1, <3>2
  <2>2. Counted'
    BY <1>3, <1>5, <2>1 DEF Counted, Running, R
  <2>3. ChildOK(child, Current)'
    <3>1. Current' = Current
      BY <1>1, <1>3, <1>5 DEF Current
    <3> QED BY <1>5, <3>1 DEF LInv
  <2>4. Reported' /\ Owned'
    <3>1. Current' = Current /\ script' = script
      BY <1>1, <1>3, <1>5 DEF Current
    <3> QED BY <1>5, <1>8, <3>1 DEF LInv, Reported, Owned, OfItsOwn, Launching
  <2> QED BY <1>1, <1>2, <1>3, <1>5, <2>1, <2>2, <2>3, <2>4 DEF LInv
<1> QED BY <1>4, <1>5 DEF Judge

\* The invariant is inductive.
LEMMA NextLInv == LInv /\ [Next]_vars => LInv'
<1> SUFFICES ASSUME LInv, [Next]_vars PROVE LInv'
  OBVIOUS
<1>1. CASE UNCHANGED vars
  <2>1. Current' = Current /\ CasesOf(script)' = CasesOf(script)
    BY <1>1 DEF vars, Current, CasesOf
  <2>2. UNCHANGED <<kernel, script, idx, fails, reached, verdict, faults, child, ret>>
    BY <1>1 DEF vars
  <2>3. Reported' /\ faults' \in 0 .. MAX_FAULTS /\ ChildOK(child', Current)
    BY <2>2 DEF LInv, Reported, Launching
  <2> QED BY <2>2, <2>3, ChildSteps
<1> QED BY <1>1, PreflightLInv, ParseArgsLInv, ForkLInv, NoForkLInv, SkipCartLInv, DoneLInv,
           FailsLInv, KilledLInv, CrashLInv, ReturnsLInv, WaitLInv, JudgeLInv DEF Next

(* A cart of the three launchers runs only behind everything its launch    *)
(* asked for: no-new-privs, the filter, the namespaces, the new root with  *)
(* the old one detached and the cgroup, whichever call fails on the way.   *)
(* The launcher is never killed by the filter it installs on itself, and a *)
(* cart that links libblyt32 reaches main only under the second filter.    *)
(* For every kernel, every command line and any number of failing calls.   *)
THEOREM LaunchIsSafe == Spec => []LaunchSafe
<1>1. LInv => LaunchSafe
  BY LInvSays
<1> QED BY <1>1, InitLInv, NextLInv, PTL DEF Spec

(* main's report of waitpid's status: a launcher that launches returns 0   *)
(* only for a cart that ran and returned 0, and one that does not only for *)
(* --help; it returns 159 only for a process the filter killed, or for a   *)
(* cart that is no probe and ended with 159 itself.  Any fork, step or     *)
(* wait of its own may fail on the way.                                    *)
THEOREM ReportIsSound == Spec => []ReportSound
<1>1. LInv => ReportSound
  BY LInvSays
<1> QED BY <1>1, InitLInv, NextLInv, PTL DEF Spec
==============================================================================
