----------------------------- MODULE MCLauncher ------------------------------
(* The launchers, the test programs and the guest scripts on every kernel,   *)
(* and, in behaviours of their own, the filter builders on short lists, the  *)
(* packer and the libretro core.                                             *)
EXTENDS Launcher, MCStubPacker, MCRetroCore

Options ==
    [cgroup : BOOLEAN, rootfs : BOOLEAN, seccomp : BOOLEAN, netns : BOOLEAN,
     mountns : BOOLEAN]

MCSingleCases ==
    {Case("h", o, Cart("static", p), {}) : o \in Options, p \in {"uname", "hello"}}
    \union {Case("h", Plain, Cart("static", p), {}) : p \in {"execve", "usage"}}
    \union {Case("h", Plain, Cart("static", "workload"), {})}
    \union {Case("r", o, c, {}) : o \in Options, c \in {Cart("emu", "hello")}}
    \union {Case("r", Plain, Cart("emu", "workload"), {})}
    \union {Case("r", Plain, Cart("static", p), {}) : p \in {"mprotect", "open"}}
    \union {Case("s", [lib_dir |-> l, seccomp |-> f], Cart(i, p), {}) :
               l \in BOOLEAN, f \in BOOLEAN, i \in {"dynamic", "static_s"},
               p \in {"write", "socket", "usage"}}
    \union {Case("s", LibDir, Cart(i, "workload"), {}) : i \in {"dynamic", "console"}}

\* Prefixes of one list: the builders only use its length and its members.
MCBuildLists ==
    LET all == <<"write", "read", "exit", "brk", "mmap", "ioctl">>
    IN  {SubSeq(all, 1, n) : n \in 0..Len(all)}

MCInit == Init /\ built = NoBuild /\ PackInit /\ RetroInit

\* One state of each part in which the others run.
LauncherAtRest ==
    /\ script.name = "h" /\ kernel.exec = "native64"
    /\ kernel.stacking = "strictest" /\ Init
BuilderAtRest  == built = NoBuild
PackerAtRest   == PackInit /\ source[p1].content = c1
CoreAtRest     == RetroInit /\ \A b \in Buffers : bufs[b].from = "none"

LauncherMoves ==
    CoreAtRest /\ BuilderAtRest /\ PackerAtRest
    /\ Next /\ UNCHANGED <<built, packVars, retroVars>>
BuilderMoves ==
    CoreAtRest /\ PackerAtRest /\ LauncherAtRest
    /\ Build /\ UNCHANGED <<vars, packVars, retroVars>>
PackerMoves ==
    CoreAtRest /\ BuilderAtRest /\ LauncherAtRest
    /\ PackNext /\ UNCHANGED <<vars, built, retroVars>>
CoreMoves ==
    BuilderAtRest /\ PackerAtRest /\ LauncherAtRest
    /\ RetroNext /\ UNCHANGED <<vars, built, packVars>>

MCNext == LauncherMoves \/ BuilderMoves \/ PackerMoves \/ CoreMoves

MCSpec == MCInit /\ [][MCNext]_<<vars, built, packVars, retroVars>>
=============================================================================
