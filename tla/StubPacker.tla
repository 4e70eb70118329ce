----------------------------- MODULE StubPacker -----------------------------
(***************************************************************************)
(* The incremental packer of the hot-reload loop                           *)
(* (spike-n/harness/stub_packer.c) under an editor that keeps working      *)
(* while it runs.  One invocation builds one source: it stats the source,  *)
(* looks up what build/packer-state.json remembers of it, and skips the    *)
(* compiler when modification second and size agree (fast path) or when    *)
(* the SHA-256 agrees (slow path).  It hashes the file and the compiler    *)
(* reads it again later, so the source may change under it at every point; *)
(* a compile may fail, and the process may be killed between the compiler  *)
(* and the record of what it built.                                        *)
(*                                                                         *)
(* A content stands for the bytes of a source file, and an artefact is the *)
(* content it was compiled from.                                           *)
(***************************************************************************)
EXTENDS Integers

CONSTANTS
    Paths,          \* the source files, each with its output path
    Contents,       \* what a source file can hold
    Broken,         \* the contents the compiler refuses
    Bytes,          \* st_size of a content
    Digest,         \* SHA-256 of a content, in hex
    Zeros,          \* what sha256_file_hex writes when it cannot open the file
    NoFile,         \* no such file
    NoEntry,        \* no line for the path in packer-state.json
    MaxClock        \* bound: seconds the clock is followed for

ASSUME PackerAssumption ==
    /\ Broken \subseteq Contents
    /\ NoFile \notin Contents
    /\ Bytes \in [Contents -> Nat]
    /\ DOMAIN Digest = Contents
    /\ \A c, d \in Contents : Digest[c] = Digest[d] => c = d
    /\ \A c \in Contents : Digest[c] # Zeros
    /\ MaxClock \in Nat

VARIABLES
    now,        \* the clock, in the whole seconds st_mtime is cut to
    source,     \* path -> the file's content (or NoFile) and st_mtime
    held,       \* history: path -> the contents the file has ever held
    artefact,   \* path -> the content its output was compiled from, or NoFile
    table,      \* packer-state.json: path -> entry, or NoEntry
    proc,       \* the locals of the packer process
    raced,      \* history: the source changed since the process called stat
    settled,    \* history: path -> recorded by an undisturbed run, not edited since
    undone,     \* history: path -> the file holds a content it held before
    rewritten,  \* history: path -> it was rewritten within its st_mtime second
    blind,      \* history: the process called stat on a rewritten file
    unrecorded  \* history: path -> a compiler ran since the entry was last
                \* written by an undisturbed run

trail == <<undone, rewritten, blind, unrecorded>>
packVars == <<now, source, held, artefact, table, proc, raced, settled, trail>>

(* What sha256_file_hex leaves in hex_out. *)
Hashes == {Digest[c] : c \in Contents} \cup {Zeros}

Sha256FileHex(c) == IF c = NoFile THEN Zeros ELSE Digest[c]

(* packer_entry_t, less the path. *)
Entry == [mtime : Nat, size : Nat, sha256 : Hashes]

ASSUME EntryAssumption == NoEntry \notin Entry

(* main's locals: the arguments, the stat result, have_prev/prev and sha. *)
Proc == [pc : {"idle", "hash", "compile", "save", "done", "failed"},
         path : Paths, mode : {"native", "lua", "other"},
         mtime : Nat, size : Nat, prev : Entry \cup {NoEntry}, sha : Hashes]

PackTypeOK ==
    /\ now \in Nat
    /\ source \in [Paths -> [content : Contents \cup {NoFile}, mtime : Nat]]
    /\ held \in [Paths -> SUBSET Contents]
    /\ artefact \in [Paths -> Contents \cup {NoFile}]
    /\ table \in [Paths -> Entry \cup {NoEntry}]
    /\ proc \in Proc
    /\ raced \in BOOLEAN
    /\ settled \in [Paths -> BOOLEAN]
    /\ undone \in [Paths -> BOOLEAN]
    /\ rewritten \in [Paths -> BOOLEAN]
    /\ blind \in BOOLEAN
    /\ unrecorded \in [Paths -> BOOLEAN]

(* A fresh checkout: sources, no build directory. *)
PackInit ==
    /\ now = 0
    /\ source \in [Paths -> [content : Contents, mtime : {0}]]
    /\ held = [p \in Paths |-> {source[p].content}]
    /\ artefact = [p \in Paths |-> NoFile]
    /\ table = [p \in Paths |-> NoEntry]
    /\ proc \in [pc : {"idle"}, path : Paths, mode : {"native"}, mtime : {0},
                 size : {0}, prev : {NoEntry}, sha : {Zeros}]
    /\ raced = FALSE
    /\ settled = [p \in Paths |-> FALSE]
    /\ undone = [p \in Paths |-> FALSE]
    /\ rewritten = [p \in Paths |-> FALSE]
    /\ blind = FALSE
    /\ unrecorded = [p \in Paths |-> FALSE]

InRun == proc.pc \in {"hash", "compile", "save"}

-----------------------------------------------------------------------------
(* The editor and the clock.                                               *)

Tick ==
    /\ now < MaxClock
    /\ now' = now + 1
    /\ UNCHANGED <<source, held, artefact, table, proc, raced, settled, trail>>

(* The source of p now holds c: an edit, an undo, a checkout, a deletion. *)
Write(p, c) ==
    /\ source' = [source EXCEPT ![p] = [content |-> c, mtime |-> now]]
    /\ held' = [held EXCEPT ![p] = @ \cup ({c} \ {NoFile})]
    /\ raced' = (raced \/ p = proc.path)
    /\ settled' = [settled EXCEPT ![p] = FALSE]
    /\ undone' = [undone EXCEPT ![p] = c \in held[p]]
    /\ rewritten' = [rewritten EXCEPT ![p] = source[p].mtime = now]
    /\ UNCHANGED <<now, artefact, table, proc, blind, unrecorded>>

Edit(p, c) ==
    /\ c # source[p].content
    /\ Write(p, c)

Delete(p) ==
    /\ source[p].content # NoFile
    /\ Write(p, NoFile)

(* touch, or a checkout that rewrites the same bytes. *)
Touch(p) ==
    /\ source[p].content # NoFile
    /\ source[p].mtime # now
    /\ source' = [source EXCEPT ![p].mtime = now]
    /\ rewritten' = [rewritten EXCEPT ![p] = FALSE]
    /\ UNCHANGED <<now, held, artefact, table, proc, raced, settled, undone, blind,
                   unrecorded>>

-----------------------------------------------------------------------------
(* The packer: main of stub_packer.c, cut where the file system is read.   *)

(* The plausible slip of comparing only the size. *)
FastMatchSizeOnly(prev, mtime, size) == prev # NoEntry /\ prev.size = size

(* have_prev && prev.mtime == mtime && prev.size == size *)
FastMatch(prev, mtime, size) ==
    prev # NoEntry /\ prev.mtime = mtime /\ prev.size = size

(* Locals after stat and state_load: what both returned, and where to go. *)
Statted(p, mode, pc) ==
    [pc |-> pc, path |-> p, mode |-> mode,
     mtime |-> source[p].mtime, size |-> Bytes[source[p].content],
     prev |-> table[p], sha |-> Zeros]

(* stat, state_load and the fast path: a source that cannot be statted ends *)
(* the run, a matching entry ends it with BUILD-DONE.                       *)
Start(p, mode) ==
    /\ ~InRun
    /\ raced' = FALSE
    /\ blind' = rewritten[p]
    /\ \/ /\ source[p].content = NoFile
          /\ proc' = [proc EXCEPT !.pc = "failed", !.path = p, !.mode = mode]
       \/ /\ source[p].content # NoFile
          /\ proc' = Statted(p, mode,
                IF FastMatch(table[p], source[p].mtime, Bytes[source[p].content])
                THEN "done" ELSE "hash")
    /\ UNCHANGED <<now, source, held, artefact, table, settled, undone, rewritten,
                   unrecorded>>

(* state_save: the entry is replaced by rename; a .tmp file that cannot be  *)
(* opened leaves the old table and is not reported.                         *)
StateSave(sha) ==
    \/ /\ table' = [table EXCEPT ![proc.path] =
                        [mtime |-> proc.mtime, size |-> proc.size, sha256 |-> sha]]
       /\ settled' = [settled EXCEPT ![proc.path] = @ \/ ~raced]
    \/ UNCHANGED <<table, settled>>

(* The hash is compared with nothing: every miss of the fast path builds.   *)
HashAlwaysBuilds ==
    /\ proc.pc = "hash"
    /\ proc' = [proc EXCEPT !.sha = Sha256FileHex(source[proc.path].content),
                            !.pc = "compile"]
    /\ UNCHANGED <<now, source, held, artefact, table, raced, settled, trail>>

(* The slow path: sha256_file_hex reads the source; a hash the entry knows  *)
(* ends the run with BUILD-DONE and a refreshed entry.                      *)
Hash ==
    LET sha == Sha256FileHex(source[proc.path].content)
    IN /\ proc.pc = "hash"
       /\ \/ /\ proc.prev # NoEntry /\ proc.prev.sha256 = sha
             /\ StateSave(sha)
             /\ proc' = [proc EXCEPT !.sha = sha, !.pc = "done"]
          \/ /\ proc.prev # NoEntry => proc.prev.sha256 # sha
             /\ proc' = [proc EXCEPT !.sha = sha, !.pc = "compile"]
             /\ UNCHANGED <<table, settled>>
       /\ UNCHANGED <<now, source, held, artefact, raced, trail>>

(* The output after a refused compile: the gcc driver removes it, luac      *)
(* stops before it opens it; a compiler that never started leaves it.       *)
AfterFailure(a, mode) == IF mode = "native" THEN {a, NoFile} ELSE {a}

(* rc is dropped: a refused compile is recorded like any other.             *)
CompileUnchecked ==
    /\ proc.pc = "compile"
    /\ artefact' = [artefact EXCEPT ![proc.path] =
           IF source[proc.path].content \in Contents \ Broken
           THEN source[proc.path].content ELSE @]
    /\ proc' = [proc EXCEPT !.pc = "save"]
    /\ unrecorded' = [unrecorded EXCEPT ![proc.path] = TRUE]
    /\ UNCHANGED <<now, source, held, table, raced, settled, undone, rewritten, blind>>

(* system(cmd): the compiler reads the source again.  An unknown mode never *)
(* gets as far as a command.                                                *)
Compile ==
    LET p == proc.path
        c == source[p].content
    IN /\ proc.pc = "compile"
       /\ \/ /\ proc.mode # "other" /\ c \in Contents \ Broken
             /\ artefact' = [artefact EXCEPT ![p] = c]
             /\ proc' = [proc EXCEPT !.pc = "save"]
          \/ /\ proc.mode # "other" /\ c \notin Contents \ Broken
             /\ \E a \in AfterFailure(artefact[p], proc.mode) :
                    artefact' = [artefact EXCEPT ![p] = a]
             /\ proc' = [proc EXCEPT !.pc = "failed"]
          \/ /\ proc.mode = "other"
             /\ proc' = [proc EXCEPT !.pc = "failed"]
             /\ UNCHANGED artefact
       /\ unrecorded' = [unrecorded EXCEPT ![p] = @ \/ proc.mode # "other"]
       /\ UNCHANGED <<now, source, held, table, raced, settled, undone, rewritten, blind>>

(* state_save after a good build, then BUILD-DONE. *)
Save ==
    /\ proc.pc = "save"
    /\ StateSave(proc.sha)
    /\ proc' = [proc EXCEPT !.pc = "done"]
    /\ unrecorded' = [unrecorded EXCEPT ![proc.path] = table' = table \/ raced]
    /\ UNCHANGED <<now, source, held, artefact, raced, undone, rewritten, blind>>

(* The process is killed.  Killed with the compiler it may leave no output. *)
Kill ==
    /\ InRun
    /\ \/ UNCHANGED <<artefact, unrecorded>>
       \/ /\ proc.pc = "compile" /\ proc.mode # "other"
          /\ \E a \in AfterFailure(artefact[proc.path], "native") :
                 artefact' = [artefact EXCEPT ![proc.path] = a]
          /\ unrecorded' = [unrecorded EXCEPT ![proc.path] = TRUE]
    /\ proc' = [proc EXCEPT !.pc = "idle"]
    /\ UNCHANGED <<now, source, held, table, raced, settled, undone, rewritten, blind>>

-----------------------------------------------------------------------------
PackNext ==
    \/ Tick
    \/ \E p \in Paths :
          \/ \E c \in Contents : Edit(p, c)
          \/ Delete(p)
          \/ Touch(p)
          \/ \E mode \in {"native", "lua", "other"} : Start(p, mode)
    \/ Hash
    \/ Compile
    \/ Save
    \/ Kill

PackSpec == PackInit /\ [][PackNext]_packVars

-----------------------------------------------------------------------------
(* What BUILD-DONE promises.  A run that ends with it, and under which the  *)
(* source did not change, leaves an output compiled from the source as it   *)
(* stands: neither skip of main (lines 253 and 265) is taken over an output *)
(* that is stale or missing.  Two histories only escape the tracking: the   *)
(* source was rewritten within the second of its st_mtime; or it holds a    *)
(* content it held before, and between the two a compile failed, was killed *)
(* or went unrecorded.  Every other failure, race, kill, undo, checkout and *)
(* touch is covered.                                                        *)
DoneMeansBuilt ==
    LET p == proc.path
    IN  proc.pc = "done" /\ ~raced /\ ~blind /\ ~(undone[p] /\ unrecorded[p])
            => artefact[p] = source[p].content

(* ADR-0088:96-98: "If the hash matches the stored hash, the stored         *)
(* size/mtime are updated but the transform is still skipped (handles VCS   *)
(* checkouts, `touch`, etc.)".  So an undisturbed run over a file whose     *)
(* st_mtime can be trusted leaves an output of this source, whatever was    *)
(* checked out before.  Undoing an edit whose build failed refutes it.      *)
SkipIsUpToDate ==
    proc.pc = "done" /\ ~raced /\ ~blind
        => artefact[proc.path] = source[proc.path].content

(* The point of the tracking (ADR-0088: "handles VCS checkouts, touch"): a  *)
(* source that an undisturbed run recorded, and that nobody edited since,   *)
(* is never compiled again, however often it is touched, other sources are  *)
(* built, or later runs are killed.                                         *)
NoNeedlessRebuild ==
    proc.pc = "compile" => ~settled[proc.path]

(* The record is right in both directions: what is skipped is built, and     *)
(* what is built is skipped.                                                 *)
TrackingSound == PackTypeOK /\ DoneMeansBuilt /\ NoNeedlessRebuild
=============================================================================
