------------------------------- MODULE Seccomp -------------------------------
(* The system-call filters of the cart launchers: the allow lists, the       *)
(* builders that turn a list into a BPF program, and the kernel that checks, *)
(* runs and stacks the programs (external).                                  *)
(*                                                                           *)
(*   spike-h/seccomp_filter.c       allow_names, through libseccomp          *)
(*   spike-r/seccomp_allowlist.h    one list, one architecture               *)
(*   spike-s/seccomp_allowlist_s.h  two lists dispatched on the architecture *)
(*   spike-r/seccomp_raw_test.c, spike-s/seccomp_raw_test_s.c  test filters  *)
(*                                                                           *)
(* A system call is its name; the three list entries the code repeats for    *)
(* older or 32-bit variants of one call (mmap2, fstat64, ...) stand for      *)
(* their own names, which no process of the model issues.                    *)
EXTENDS Integers, Sequences, SequencesExt

CONSTANTS
    JF_MAX,      \* the largest offset a jump's 8-bit field holds (255)
    MAX_INSNS    \* SECCOMP_MAX_INSNS (512): the buffer every caller passes

ASSUME FilterAssumption ==
    /\ JF_MAX \in Nat \ {0}
    /\ MAX_INSNS \in Nat

RV64 == "RISCV64"
RV32 == "RISCV32"

--------------------------------------------------------------------------
(* Allow lists *)

allow_names ==
    << "exit", "exit_group", "rt_sigreturn", "rt_sigprocmask", "rt_sigaction",
       "brk", "mmap", "mmap2", "munmap", "mremap", "write", "writev", "read",
       "close", "fstat", "fstat64", "fstatat64", "newfstatat", "statx",
       "ioctl", "readlinkat", "set_tid_address", "set_robust_list", "futex",
       "futex_time64", "clock_gettime", "clock_gettime64", "getrandom",
       "prlimit64", "uname", "newuname", "execve", "riscv_flush_icache" >>

unified_nrs ==
    << "execve", "faccessat", "openat", "close", "read", "lseek", "fstat",
       "newfstatat", "mmap", "mprotect", "munmap", "brk", "set_tid_address",
       "set_robust_list", "rseq", "getrandom", "prlimit64", "rt_sigaction",
       "rt_sigreturn", "ioctl", "write", "exit_group", "exit" >>

phase1_riscv64_nrs == << "execve", "write", "exit_group" >>

\* The dynamic linker's start-up without the system call the constructor's
\* message needs.
phase1_riscv32_without_writev ==
    << "openat", "close", "read", "fcntl", "statx", "mmap", "mprotect", "brk",
       "set_tid_address", "seccomp", "ioctl", "write", "exit", "exit_group" >>

phase1_riscv32_nrs ==
    << "openat", "close", "read", "fcntl", "statx", "mmap", "mprotect", "brk",
       "set_tid_address", "writev", "seccomp", "lseek", "fstat", "newfstatat",
       "munmap", "faccessat", "set_robust_list", "rseq", "getrandom",
       "prlimit64", "rt_sigaction", "rt_sigreturn", "ioctl", "write", "exit",
       "exit_group" >>

phase2_riscv32_nrs == << "ioctl", "read", "write", "exit", "exit_group" >>

test_rv64_nrs == << "execve", "write", "exit_group" >>

test_rv32_nrs == << "set_tid_address", "write", "exit_group" >>

--------------------------------------------------------------------------
(* Instructions and builders.  A builder returns [ok, prog].               *)

LD(field)       == [op |-> "ld",  k |-> field, jt |-> 0, jf |-> 0]
\* The offsets are stored in 8-bit fields.
JEQ(k, jt, jf)  == [op |-> "jeq", k |-> k, jt |-> jt % (JF_MAX + 1),
                    jf |-> jf % (JF_MAX + 1)]
RET(verdict)    == [op |-> "ret", k |-> verdict, jt |-> 0, jf |-> 0]

Refused     == [ok |-> FALSE, prog |-> << >>]
Built(prog) == [ok |-> TRUE, prog |-> prog]

AllowEach(nrs) ==
    [i \in 1..(2 * Len(nrs)) |->
        IF i % 2 = 1 THEN JEQ(nrs[(i + 1) \div 2], 0, 1) ELSE RET("ALLOW")]

build_unified_filter(bufsz, nrs) ==
    IF 5 + 2 * Len(nrs) > bufsz
    THEN Refused
    ELSE Built(<<LD("arch"), JEQ(RV64, 1, 0), RET("KILL"), LD("nr")>>
               \o AllowEach(nrs) \o <<RET("KILL")>>)

DispatchProgram(rv64_nrs, rv32_nrs, jf) ==
    <<LD("arch"), JEQ(RV64, 0, jf), LD("nr")>>
    \o AllowEach(rv64_nrs)
    \o <<RET("KILL"), JEQ(RV32, 1, 0), RET("KILL"), LD("nr")>>
    \o AllowEach(rv32_nrs) \o <<RET("KILL")>>

\* Without the test that the jump over the RV64 block fits its field.
build_dispatch_unlimited(bufsz, rv64_nrs, rv32_nrs) ==
    IF 8 + 2 * (Len(rv64_nrs) + Len(rv32_nrs)) > bufsz
    THEN Refused
    ELSE Built(DispatchProgram(rv64_nrs, rv32_nrs, 2 + 2 * Len(rv64_nrs)))

build_arch_dispatch_filter(bufsz, rv64_nrs, rv32_nrs) ==
    IF \/ 8 + 2 * (Len(rv64_nrs) + Len(rv32_nrs)) > bufsz
       \/ 2 + 2 * Len(rv64_nrs) > JF_MAX
    THEN Refused
    ELSE Built(DispatchProgram(rv64_nrs, rv32_nrs, 2 + 2 * Len(rv64_nrs)))

\* The size test counts one instruction less than are emitted.
build_riscv32_only_filter(bufsz, nrs) ==
    IF 4 + 2 * Len(nrs) > bufsz
    THEN Refused
    ELSE Built(<<LD("arch"), JEQ(RV32, 1, 0), RET("KILL"), LD("nr")>>
               \o AllowEach(nrs) \o <<RET("KILL")>>)

build_riscv32_write_errno_filter ==
    <<LD("arch"), JEQ(RV32, 0, 3), LD("nr"), JEQ("write", 0, 1),
      RET("ERRNO"), RET("ALLOW")>>

build_riscv64_only_allowall ==
    <<LD("arch"), JEQ(RV64, 1, 0), RET("KILL"), RET("ALLOW")>>

build_phase1 ==
    <<LD("nr"), JEQ("uname", 0, 1), RET("KILL"), RET("ALLOW")>>

build_phase2 == <<RET("ALLOW")>>

\* The names, and the call the code knows by its number only.
spike_h_rules == Append(allow_names, "nr258")

\* libseccomp compiles the rules whose names it knows into a filter of the
\* native architecture whose default is the context's action.
spike_h_filter ==
    <<LD("arch"), JEQ(RV64, 1, 0), RET("KILL"), LD("nr")>>
    \o AllowEach(spike_h_rules) \o <<RET("KILL")>>

\* The programs the launchers and the tests install, by name.
Program ==
    [ spike_h      |-> spike_h_filter,
      unified      |-> build_unified_filter(MAX_INSNS, unified_nrs).prog,
      phase1       |-> build_arch_dispatch_filter(MAX_INSNS, phase1_riscv64_nrs,
                                                  phase1_riscv32_nrs).prog,
      phase2       |-> build_riscv32_only_filter(MAX_INSNS,
                                                 phase2_riscv32_nrs).prog,
      dispatch     |-> build_arch_dispatch_filter(MAX_INSNS, test_rv64_nrs,
                                                  test_rv32_nrs).prog,
      write_errno  |-> build_riscv32_write_errno_filter,
      rv64only     |-> build_riscv64_only_allowall,
      kill_uname   |-> build_phase1,
      allow_all    |-> build_phase2 ]

--------------------------------------------------------------------------
(* The kernel *)

\* Before it accepts a program the kernel checks that every path stays
\* inside it and ends in a return.
KernelAccepts(prog) ==
    /\ prog # << >>
    /\ prog[Len(prog)].op = "ret"
    /\ \A pc \in 1..Len(prog) :
           prog[pc].op = "jeq" => /\ pc + 1 + prog[pc].jt <= Len(prog)
                                  /\ pc + 1 + prog[pc].jf <= Len(prog)

Run(prog, arch, nr) ==
    LET run[pc \in 1..Len(prog)] ==
            [acc \in {"none", arch, nr} |->
                LET i == prog[pc]
                IN  CASE i.op = "ld"  -> run[pc + 1][IF i.k = "arch" THEN arch ELSE nr]
                      [] i.op = "jeq" -> run[pc + 1 + (IF acc = i.k THEN i.jt ELSE i.jf)][acc]
                      [] i.op = "ret" -> i.k]
    IN  run[1]["none"]

--------------------------------------------------------------------------
(* Building a filter is a calculation: one step leaves the arguments and   *)
(* the program in built.                                                   *)

CONSTANTS
    BuildLists,   \* the lists a builder is given
    BufSizes      \* the buffers it is given

ASSUME BuildAssumption ==
    /\ \A l \in BuildLists : l \in Seq(STRING)
    /\ BufSizes \subseteq Nat

VARIABLE built

NoBuild == [which |-> "none"]

BuildUnified(nrs, bufsz) ==
    built' = [which |-> "unified", rv64 |-> nrs, rv32 |-> << >>, bufsz |-> bufsz,
              result |-> build_unified_filter(bufsz, nrs)]

BuildDispatch(rv64, rv32, bufsz) ==
    built' = [which |-> "dispatch", rv64 |-> rv64, rv32 |-> rv32, bufsz |-> bufsz,
              result |-> build_arch_dispatch_filter(bufsz, rv64, rv32)]

BuildOnly32(nrs, bufsz) ==
    built' = [which |-> "only32", rv64 |-> << >>, rv32 |-> nrs, bufsz |-> bufsz,
              result |-> build_riscv32_only_filter(bufsz, nrs)]

Build ==
    \E nrs \in BuildLists, bufsz \in BufSizes :
        \/ BuildUnified(nrs, bufsz)
        \/ \E rv32 \in BuildLists : BuildDispatch(nrs, rv32, bufsz)
        \/ BuildOnly32(nrs, bufsz)

BuildSpec == built = NoBuild /\ [][Build]_built

\* The calls a filter is asked about: those some list names and one of none.
Asked == {"socket"} \union UNION {ToSet(l) : l \in BuildLists}

\* A filter the builders return fits its buffer, is accepted by the kernel,
\* and lets through exactly the calls of the list of
\* the caller's own architecture: the jump over the RV64 block lands on the
\* RV32 test whatever the lengths of the lists, and where the 8-bit offset
\* cannot say so the builder refuses.  The size test of the RISCV32-only
\* builder counts one instruction less than it writes: its program may be one
\* longer than the buffer, and no more.
FilterMeaning ==
    (built # NoBuild /\ built.result.ok) =>
        LET prog == built.result.prog
        IN  /\ Len(prog) <= built.bufsz + (IF built.which = "only32" THEN 1 ELSE 0)
            /\ KernelAccepts(prog)
            /\ \A arch \in {RV64, RV32, "other"}, nr \in Asked :
                   Run(prog, arch, nr) = "ALLOW" <=>
                       \/ arch = RV64 /\ nr \in ToSet(built.rv64)
                       \/ arch = RV32 /\ nr \in ToSet(built.rv32)
=============================================================================
