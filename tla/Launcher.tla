------------------------------ MODULE Launcher -------------------------------
(* The cart launchers of spikes H, R and S, the test programs that install   *)
(* the same filters, and the guest scripts that run them and judge the exit  *)
(* status.                                                                   *)
(*                                                                           *)
(*   spike-h/launcher.c, spike-r/launcher_r.c, spike-s/launcher_s.c          *)
(*   spike-s/libblyt32_stub_s.c           constructor of the second filter   *)
(*   spike-h/adversary.c, spike-s/adversary_s.c       the carts that probe   *)
(*   spike-r/seccomp_raw_test.c, spike-s/seccomp_raw_test_s.c                *)
(*   spike-h/run-guest-tests.sh (Stage 3), spike-r/run-guest-tests-r.sh      *)
(*   (Stage 2), spike-s/run-guest-stage4.sh                                  *)
(*                                                                           *)
(* A launch is a forked child that works through a list of steps, each one   *)
(* or several system calls.  The kernel may kill the child at a call its     *)
(* filters do not allow, fail the call (at most MAX_FAULTS times), or carry  *)
(* it out; the parent waits and turns the child's status into its own.  A    *)
(* script is a sequence of launches with the exit statuses it accepts.  A    *)
(* cart that is no probe may exit with any status of CartCodes.              *)
EXTENDS Seccomp, FiniteSets

CONSTANTS
    MAX_FAULTS,   \* calls and carts that fail in one behaviour
    CartCodes,    \* the statuses a cart of its own exits with, besides 0
    SingleCases   \* the launches examined on their own, outside any script

VARIABLES
    kernel,    \* [exec, stacking]: how 32-bit carts run, how filters combine
    script,    \* the script that runs
    idx,       \* its current case
    fails,     \* FAIL: cases (and preflight checks) that went wrong
    reached,   \* the cases whose cart got as far as its probe, and whether
               \* the filter stopped it there
    faults,    \* calls, checks and carts that failed so far
    child,     \* the forked process
    ret,       \* the launcher's exit status, Running before it has one
    verdict    \* the script's exit status

vars == <<kernel, script, idx, fails, reached, faults, child, ret, verdict>>

Running == -99    \* no status yet

--------------------------------------------------------------------------
(* Steps *)

When(c, s) == IF c THEN s ELSE << >>

\* A step: the system calls it makes, what it achieves, the status the
\* process exits with when it fails (0: the failure is ignored).
Step(sys, eff, onfail) == [sys |-> sys, eff |-> eff, onfail |-> onfail]
Must(sys, eff)         == Step({sys}, eff, 127)
Note                   == Step({"write"}, "none", 0)
Exit(code)             == Step({"exit_group"}, "exit", code)
Install(filter, code)  == Step({"seccomp"}, filter, code)

do_pivot_root ==
    << Must("mount", "bind"), Must("mkdirat", "none"),
       Must("pivot_root", "root"), Must("chdir", "none"),
       Must("umount2", "detach"), Step({"unlinkat"}, "none", 0) >>

join_cgroup ==
    << Must("openat", "none"), Must("write", "cgroup"), Step({"close"}, "none", 0) >>

Namespaces(o) ==
    <<Must("prctl", "nnp")>>
    \o When(o.mountns \/ o.netns, <<Must("unshare", "ns")>>)
    \o When(o.mountns, <<Must("mount", "private")>>)
    \o When(o.rootfs, do_pivot_root)
    \o When(o.cgroup, join_cgroup)

\* The filter loaded before the root is changed.
child_main_filter_first(o) ==
    <<Must("prctl", "nnp"), Install("spike_h", 127)>>
    \o Tail(Namespaces(o)) \o <<Must("execve", "exec")>>

child_main_h(o) ==
    Namespaces(o)
    \o When(o.seccomp, <<Install("spike_h", 127), Note>>)
    \o <<Must("execve", "exec")>>

\* A filter that cannot be installed is reported and the cart started.
child_main_r_unchecked(o) ==
    Namespaces(o)
    \o When(o.seccomp, <<Note, Install("unified", 0)>>)
    \o <<Must("execve", "exec")>>

child_main_r(o) ==
    Namespaces(o)
    \o When(o.seccomp, <<Note, Install("unified", 127)>>)
    \o <<Must("execve", "exec")>>

\* stat, open, read, close; a short read or another magic is a failed read.
validate_cart ==
    << Must("newfstatat", "none"), Must("openat", "none"),
       Must("read", "none"), Step({"close"}, "none", 0) >>

\* setenv makes no system call but may find no memory.
setenv == Step({}, "none", 127)

child_main_s(o) ==
    <<Must("prctl", "nnp")>> \o validate_cart
    \o When(o.lib_dir, <<setenv, Note>>)
    \o When(o.seccomp, <<Note, Install("phase1", 127)>>)
    \o <<Must("execve", "exec")>>

\* run_probe, run_ilp32_probe: install the filters, start the probing cart.
run_probe(filters, noexec) ==
    <<Must("prctl", "nnp")>>
    \o [i \in 1..Len(filters) |-> Install(filters[i], 127)]
    \o <<Step({"execve"}, "exec", noexec)>>

\* run_lp64_probe_write, run_lp64_probe_socket and Test A of spike R: the
\* forked child makes the call itself.
run_lp64_probe(filter, sys) ==
    <<Must("prctl", "nnp"), Install(filter, 127), Step({sys}, "inline", 1)>>

ChildMain(c) ==
    CASE c.kind = "h"      -> child_main_h(c.opts)
      [] c.kind = "r"      -> child_main_r(c.opts)
      [] c.kind = "s"      -> child_main_s(c.opts)
      [] c.kind = "probe"  -> run_probe(c.opts.filters, c.opts.noexec)
      [] c.kind = "inline" -> run_lp64_probe(c.opts.filter, c.opts.sys)

--------------------------------------------------------------------------
(* Carts.  Their start-up is the C library's and the emulator's (external). *)

StartUp(cart) ==
    CASE cart.image = "emu" ->        \* rv32emu and its dynamic linker
             {"faccessat", "openat", "close", "read", "lseek", "fstat",
              "newfstatat", "mmap", "mprotect", "munmap", "brk",
              "set_tid_address", "set_robust_list", "rseq", "getrandom",
              "prlimit64", "rt_sigaction"}
      [] cart.image \in {"dynamic", "console"} ->
             \* ld.so of the 32-bit C library
             {"set_tid_address", "brk", "mmap", "openat", "fcntl", "statx",
              "read", "close", "mprotect"}
      [] cart.image = "static" ->     \* the emulation answers 258 itself
             {"set_tid_address"}
             \union (IF kernel.exec = "binfmt" THEN {} ELSE {"nr258"})
      [] OTHER -> {"set_tid_address"}

\* qemu-riscv32-static, which binfmt_misc starts in the cart's place.
Emulation == {"futex", "madvise", "sysinfo"}

\* The shell a cart's execve probe starts.
ShellStartUp == {"brk", "faccessat", "openat", "mmap"}

\* Standard error of the 32-bit C library goes through writev, the
\* emulator's through write.
Report(cart) == Step({IF cart.image = "emu" THEN "write" ELSE "writev"}, "none", 0)

\* The constructor's status is not tested before the cart goes on.
constructor_unchecked == <<Step({"writev"}, "none", 0), Install("phase2", 0)>>

libblyt32_phase2_constructor ==
    <<Step({"writev"}, "none", 0), Install("phase2", 127)>>

ProbeCall ==
    [ open |-> "openat", socket |-> "socket", execve |-> "execve",
      mprotect |-> "mprotect", uname |-> "uname", write |-> "write" ]

\* What main() does with its argument: hello and the carts that are no
\* probes (workload) print and end, a probe makes its call, anything else is
\* a usage message.
CartMain(cart) ==
    CASE cart.probe \in {"hello", "workload"} -> <<Report(cart), Exit(0)>>
      [] cart.probe \in DOMAIN ProbeCall ->
             <<Step({ProbeCall[cart.probe]}, "probe", 1)>>
      [] OTHER -> <<Report(cart), Exit(2)>>

CartSteps(cart) ==
    <<Step(StartUp(cart) \union
           (IF kernel.exec = "binfmt" /\ cart.image # "emu" THEN Emulation ELSE {}),
           "none", 0)>>
    \o When(cart.image = "dynamic", libblyt32_phase2_constructor)
    \o CartMain(cart)

\* After the probe's call: adversary_s's write probe reports only a failure,
\* adversary.c reports twice.
AfterProbe(cart, rc) ==
    When(~(cart.probe = "write" /\ rc = 0), <<Report(cart)>>)
    \o When(cart.image = "static", <<Report(cart)>>)
    \o <<Exit(rc)>>

--------------------------------------------------------------------------
(* Scripts *)

Plain    == [cgroup |-> FALSE, rootfs |-> FALSE, seccomp |-> TRUE,
             netns |-> TRUE, mountns |-> TRUE]
Isolated == [Plain EXCEPT !.rootfs = TRUE, !.seccomp = FALSE, !.netns = FALSE]
LibDir   == [lib_dir |-> TRUE, seccomp |-> TRUE]

Cart(image, probe) == [image |-> image, probe |-> probe]

AnyStatus == 0..255   \* a result that is only printed

Case(kind, opts, cart, expect) ==
    [kind |-> kind, opts |-> opts, cart |-> cart, expect |-> expect,
     timed |-> FALSE, optional |-> FALSE]

run_guest_tests_h ==
    << Case("h", Plain, Cart("static", "open"), {159}),
       Case("h", Plain, Cart("static", "socket"), {159}),
       Case("h", Plain, Cart("static", "execve"), {159}),
       Case("h", Plain, Cart("static", "mprotect"), {159}),
       Case("h", Plain, Cart("static", "uname"), {0}),
       Case("h", Isolated, Cart("static", "hello"), {0}),
       Case("h", Isolated, Cart("static", "open"), {1}) >>

run_guest_tests_r ==
    << Case("r", Plain, Cart("static", "socket"), {159}),
       Case("r", Plain, Cart("static", "uname"), {159}) >>

\* run_cart: under timeout(1), which reports 124; a cart that is not staged
\* is skipped.
run_cart(cart) ==
    [Case("s", LibDir, cart, {0, 124}) EXCEPT
        !.timed = TRUE, !.optional = cart.probe = "workload"]

\* Stage 4 without the case that has to be let through.
stage4_blocked_only ==
    << Case("s", LibDir, Cart("dynamic", "socket"), {159}),
       Case("s", LibDir, Cart("dynamic", "execve"), {159}) >>

\* cart_a and cart_b link libconsole only, rust_cart nothing.
run_guest_stage4 ==
    << Case("s", LibDir, Cart("dynamic", "socket"), {159}),
       Case("s", LibDir, Cart("dynamic", "execve"), {159}),
       Case("s", LibDir, Cart("dynamic", "write"), {0}),
       run_cart(Cart("console", "workload")),
       run_cart(Cart("console", "workload")),
       run_cart(Cart("static_s", "workload")),
       run_cart(Cart("dynamic", "write")) >>

Probe32(filters, noexec, image, probe, expect) ==
    Case("probe", [filters |-> filters, noexec |-> noexec],
         Cart(image, probe), expect)

Inline(filter, sys, expect) ==
    Case("inline", [filter |-> filter, sys |-> sys], Cart("none", sys), expect)

\* Test C with its two filters installed in the other order.
raw_test_r_swapped ==
    << Inline("unified", "write", {0}),
       Probe32(<<"unified">>, 127, "static", "socket", {159}),
       Probe32(<<"allow_all", "kill_uname">>, 127, "static", "uname", {159}) >>

seccomp_raw_test_r ==
    << Inline("unified", "write", {0}),
       Probe32(<<"unified">>, 127, "static", "socket", {159}),
       Probe32(<<"kill_uname", "allow_all">>, 127, "static", "uname", {159}) >>

seccomp_raw_test_s ==
    << Inline("dispatch", "write", {0}),
       Inline("dispatch", "socket", {159}),
       Probe32(<<"dispatch">>, 126, "static_s", "write", {0}),
       Probe32(<<"dispatch">>, 126, "static_s", "socket", {159}),
       Probe32(<<"dispatch">>, 126, "static_s", "execve", {159}),
       Probe32(<<"rv64only">>, 126, "static_s", "write", {159}),
       Probe32(<<"write_errno">>, 126, "static_s", "write", AnyStatus) >>

Script ==
    [ h      |-> run_guest_tests_h,
      r      |-> run_guest_tests_r,
      s      |-> run_guest_stage4,
      raw_r  |-> seccomp_raw_test_r,
      raw_s  |-> seccomp_raw_test_s ]

CartImages == {"emu", "static", "static_s", "dynamic", "console"}

\* What a launcher's command line can ask for.
Launches(kinds, options) ==
    [kind : kinds, opts : options, cart : [image : CartImages, probe : STRING],
     expect : SUBSET Int, timed : BOOLEAN, optional : BOOLEAN]

LauncherCases ==
    Launches({"h", "r"}, [cgroup : BOOLEAN, rootfs : BOOLEAN, seccomp : BOOLEAN,
                          netns : BOOLEAN, mountns : BOOLEAN])
    \union Launches({"s"}, [lib_dir : BOOLEAN, seccomp : BOOLEAN])

\* The launchers' own lists fit the buffer and the jump they are built with.
ASSUME LaunchAssumption ==
    /\ MAX_FAULTS \in Nat
    /\ CartCodes \subseteq 1..255
    /\ SingleCases \subseteq LauncherCases
    /\ build_unified_filter(MAX_INSNS, unified_nrs).ok
    /\ build_arch_dispatch_filter(MAX_INSNS, phase1_riscv64_nrs, phase1_riscv32_nrs).ok

\* A script's name, or a single case and whether its command line is good:
\* one with -h or --help, or with an argument parse_args does not know, asks
\* for no launch.
Scripts ==
    [name : DOMAIN Script]
    \union [name : {"single"}, case : SingleCases, argv : {"launch", "help", "bad"}]

CasesOf(s) == IF s.name = "single" THEN <<s.case>> ELSE Script[s.name]
Current    == CasesOf(script)[idx]

--------------------------------------------------------------------------
(* The kernel: what happens to one system call of the child *)

Kernels ==
    [exec : {"native32", "native64", "binfmt", "enoexec"},
     stacking : {"strictest", "latest"}]

\* The architecture the kernel reports: a 32-bit cart is RISCV32 only where
\* the kernel runs it natively and says so.
Arch ==
    IF /\ child.image \in CartImages \ {"emu"}
       /\ kernel.exec = "native32"
    THEN RV32 ELSE RV64

AllCalls ==
    UNION {Emulation, ShellStartUp, ToSet(unified_nrs), ToSet(spike_h_rules),
           ToSet(phase1_riscv32_nrs),
           {"prctl", "unshare", "mount", "mkdirat", "pivot_root", "chdir",
            "umount2", "unlinkat", "socket"}}

\* Every filter's answer to every call, computed once.
Answer ==
    [f \in DOMAIN Program |-> [arch \in {RV64, RV32} |-> [nr \in AllCalls |->
        Run(Program[f], arch, nr)]]]

\* Every installed filter runs; the strictest answer counts.
Verdict(nr) ==
    LET answers == [i \in 1..Len(child.filters) |-> Answer[child.filters[i]][Arch][nr]]
    IN  IF answers = << >>
        THEN "ALLOW"
        ELSE IF kernel.stacking = "latest"
             THEN answers[Len(answers)]
             ELSE IF "KILL" \in ToSet(answers) THEN "KILL"
                  ELSE IF "ERRNO" \in ToSet(answers) THEN "ERRNO" ELSE "ALLOW"

Head1 == Head(child.todo)
Alive == child.status = Running /\ child.todo # << >>
Killed(step) == \E nr \in step.sys : Verdict(nr) = "KILL"
Errno(step)  == \E nr \in step.sys : Verdict(nr) = "ERRNO"

\* Calls whose failure is settled by the state and not a fault: execve of a
\* 32-bit cart with no loader, a file that the new root does not have, a
\* filter without no_new_privs.
CannotSucceed(step) ==
    \/ Errno(step)
    \/ /\ step.eff = "exec"
       /\ kernel.exec = "enoexec"
       /\ Current.cart.image # "emu"
    \/ /\ step.eff = "probe"
       /\ Current.cart.probe \in {"open", "execve"}
       /\ child.root = "new"
    \/ step.eff \in DOMAIN Program /\ ~child.nnp

--------------------------------------------------------------------------
(* The launcher *)

NoChild ==
    [image |-> "none", todo |-> << >>, nnp |-> FALSE, filters |-> << >>,
     ns |-> {}, private |-> FALSE, root |-> "host", old |-> FALSE,
     cgroup |-> FALSE, probed |-> FALSE, status |-> Running]

Init ==
    /\ kernel \in Kernels
    /\ script \in Scripts
    /\ idx = 1
    /\ fails = 0
    /\ reached = {}
    /\ faults = 0
    /\ child = NoChild
    /\ ret = Running
    /\ verdict = Running

\* A check before a guest script's first launch fails: a file is missing.
Preflight ==
    /\ idx = 1 /\ child = NoChild /\ ret = Running /\ fails = 0
    /\ script.name \in {"h", "r", "s"}
    /\ verdict = Running
    /\ faults < MAX_FAULTS
    /\ faults' = faults + 1
    /\ fails' = 1
    /\ UNCHANGED <<kernel, script, idx, reached, child, ret, verdict>>

\* The scripts' own command lines are good.
Launching == script.name = "single" => script.argv = "launch"

\* Nothing of the current case has happened yet.
Fresh == child = NoChild /\ ret = Running /\ verdict = Running

\* parse_args ends the launcher: the usage asked for is success (0), an
\* argument it does not know or a missing cart is not (2).
ParseArgs ==
    /\ Fresh /\ ~Launching
    /\ ret' = IF script.argv = "help" THEN 0 ELSE 2
    /\ UNCHANGED <<kernel, script, idx, fails, reached, faults, child, verdict>>

\* main: the arguments are parsed, the child is forked.
Fork ==
    /\ Fresh /\ Launching
    /\ child' = [NoChild EXCEPT !.image = "launcher", !.todo = ChildMain(Current)]
    /\ UNCHANGED <<kernel, script, idx, fails, reached, faults, ret, verdict>>

\* fork's own result returned.
NoForkReturnsPid ==
    /\ Fresh /\ Launching
    /\ faults < MAX_FAULTS
    /\ faults' = faults + 1
    /\ ret' = -1
    /\ UNCHANGED <<kernel, script, idx, fails, reached, child, verdict>>

\* fork fails.
NoFork ==
    /\ Fresh /\ Launching
    /\ faults < MAX_FAULTS
    /\ faults' = faults + 1
    /\ ret' = 1
    /\ UNCHANGED <<kernel, script, idx, fails, reached, child, verdict>>

\* run_cart finds no such cart; the adversary it is given last was checked
\* for before.
SkipCart ==
    /\ Fresh
    /\ Current.optional /\ idx < Len(CasesOf(script))
    /\ idx' = idx + 1
    /\ UNCHANGED <<kernel, script, fails, reached, faults, child, ret, verdict>>

Effect(step) ==
    LET rest == [child EXCEPT !.todo = Tail(@)]
        o    == Current.opts
    IN  CASE step.eff = "nnp"     -> [rest EXCEPT !.nnp = TRUE]
          [] step.eff = "ns"      -> [rest EXCEPT !.ns =
                                         {n \in {"mnt", "net"} :
                                            \/ n = "mnt" /\ o.mountns
                                            \/ n = "net" /\ o.netns}]
          [] step.eff = "private" -> [rest EXCEPT !.private = TRUE]
          [] step.eff = "root"    -> [rest EXCEPT !.root = "new", !.old = TRUE]
          [] step.eff = "detach"  -> [rest EXCEPT !.old = FALSE]
          [] step.eff = "cgroup"  -> [rest EXCEPT !.cgroup = TRUE]
          [] step.eff \in DOMAIN Program ->
                 [rest EXCEPT !.filters = Append(@, step.eff)]
          [] step.eff = "exec"    -> [rest EXCEPT !.image = Current.cart.image,
                                                  !.todo = CartSteps(Current.cart)]
          [] step.eff = "probe"   ->
                 IF Current.cart.probe = "execve"
                 THEN [rest EXCEPT !.image = "shell", !.probed = TRUE,
                                   !.todo = <<Step(ShellStartUp, "none", 0), Exit(0)>>]
                 ELSE [rest EXCEPT !.probed = TRUE,
                                   !.todo = AfterProbe(Current.cart, 0)]
          [] step.eff = "inline"  -> [rest EXCEPT !.todo = <<Exit(0)>>]
          [] step.eff = "exit"    -> [rest EXCEPT !.todo = << >>, !.status = step.onfail]
          [] OTHER                -> rest

\* The kernel carries the call out.
StepDone ==
    /\ Alive
    /\ ~Killed(Head1) /\ ~CannotSucceed(Head1)
    /\ child' = Effect(Head1)
    /\ UNCHANGED <<kernel, script, idx, fails, reached, faults, ret, verdict>>

\* The call fails: where that is not ignored, a message and the exit status;
\* a probe reports it.
OnFailure(step) ==
    CASE step.eff = "probe"  -> [child EXCEPT !.probed = TRUE,
                                              !.todo = AfterProbe(Current.cart, 1)]
      [] step.eff = "inline" -> [child EXCEPT !.todo = <<Exit(1)>>]
      [] step.eff \notin {"probe", "inline"} /\ step.onfail = 0 ->
             [child EXCEPT !.todo = Tail(@)]
      [] OTHER               -> [child EXCEPT !.todo = <<Note, Exit(step.onfail)>>]

StepFails ==
    /\ Alive
    /\ ~Killed(Head1) /\ Head1.eff # "exit"
    /\ \/ CannotSucceed(Head1) /\ UNCHANGED faults
       \/ /\ ~CannotSucceed(Head1)
          /\ faults < MAX_FAULTS
          /\ faults' = faults + 1
    /\ child' = OnFailure(Head1)
    /\ UNCHANGED <<kernel, script, idx, fails, reached, ret, verdict>>

\* A filter answers KILL_PROCESS: the child dies of SIGSYS (31).
StepKilled ==
    /\ Alive
    /\ Killed(Head1)
    /\ child' = [child EXCEPT !.status = -31,
                              !.probed = @ \/ Head1.eff = "probe"]
    /\ UNCHANGED <<kernel, script, idx, fails, reached, faults, ret, verdict>>

\* The cart crashes (SIGSEGV, 11).
CartCrashes ==
    /\ Alive
    /\ child.image \notin {"none", "launcher"}
    /\ faults < MAX_FAULTS
    /\ faults' = faults + 1
    /\ child' = [child EXCEPT !.status = -11]
    /\ UNCHANGED <<kernel, script, idx, fails, reached, ret, verdict>>

\* A cart that is no probe exits with a status of its own.
CartReturns ==
    /\ Alive
    /\ child.image \notin {"none", "launcher"}
    /\ Head1.eff = "exit" /\ ~Killed(Head1)
    /\ Current.cart.probe = "workload"
    /\ faults < MAX_FAULTS
    /\ faults' = faults + 1
    /\ \E code \in CartCodes : child' = [child EXCEPT !.status = code]
    /\ UNCHANGED <<kernel, script, idx, fails, reached, ret, verdict>>

\* waitpid's status as an exit status.
ExitStatus(status) == IF status >= 0 THEN status ELSE 128 - status

\* The signal's own number, as a shell never reports it.
ExitStatusRaw(status) == IF status >= 0 THEN status ELSE 0

WaitStatusRaw ==
    /\ child.status # Running /\ ret = Running
    /\ ret' = ExitStatusRaw(child.status)
    /\ UNCHANGED <<kernel, script, idx, fails, reached, faults, child, verdict>>

Wait ==
    /\ child.status # Running /\ ret = Running
    /\ ret' = ExitStatus(child.status)
    /\ UNCHANGED <<kernel, script, idx, fails, reached, faults, child, verdict>>

\* waitpid fails while the child is still there.
WaitFails ==
    /\ child # NoChild /\ ret = Running
    /\ faults < MAX_FAULTS
    /\ faults' = faults + 1
    /\ ret' = 1
    /\ UNCHANGED <<kernel, script, idx, fails, reached, child, verdict>>

\* timeout(1) ends the launcher; nothing ends the cart.
TimesOut ==
    /\ Current.timed
    /\ child # NoChild /\ ret = Running
    /\ ret' = 124
    /\ UNCHANGED <<kernel, script, idx, fails, reached, faults, child, verdict>>

\* The filter killed the cart at its probe's own call.
StoppedAtProbe ==
    child.status = -31 /\ child.todo # << >> /\ Head1.eff = "probe"

\* The script compares the status and goes on.
Judge ==
    /\ ret # Running /\ verdict = Running
    /\ script.name # "single"
    /\ fails' = IF ret \in Current.expect THEN fails ELSE fails + 1
    /\ reached' = IF child.probed
                  THEN reached \union {<<idx, IF StoppedAtProbe THEN "stopped" ELSE "made">>}
                  ELSE reached
    /\ IF idx < Len(CasesOf(script))
       THEN /\ idx' = idx + 1 /\ child' = NoChild /\ ret' = Running
            /\ UNCHANGED verdict
       ELSE /\ verdict' = (IF fails' = 0 THEN 0 ELSE 1)
            /\ UNCHANGED <<idx, child, ret>>
    /\ UNCHANGED <<kernel, script, faults>>

Next ==
    \/ Preflight \/ ParseArgs \/ Fork \/ NoFork \/ SkipCart
    \/ StepDone \/ StepFails \/ StepKilled \/ CartCrashes \/ CartReturns
    \/ Wait \/ WaitFails \/ TimesOut
    \/ Judge

Spec == Init /\ [][Next]_vars

--------------------------------------------------------------------------
(* Properties *)

Filters == {"spike_h", "unified", "phase1", "phase2", "dispatch", "write_errno", "rv64only",
            "kill_uname", "allow_all"}

TypeOK ==
    /\ kernel \in Kernels
    /\ idx \in 1..Len(CasesOf(script))
    /\ fails \in 0..(Len(CasesOf(script)) + 1)
    /\ reached \subseteq (1..Len(CasesOf(script))) \X {"stopped", "made"}
    /\ faults \in 0..MAX_FAULTS
    /\ child.status \in {Running, -31, -11} \union 0..255
    /\ ToSet(child.filters) \subseteq Filters
    /\ ret \in {Running} \union 0..255
    /\ verdict \in {Running, 0, 1}

InCart == child.image \notin {"none", "launcher"}

FilterOf == [h |-> "spike_h", r |-> "unified", s |-> "phase1"]

\* When the cart's code runs, everything the launch was asked for is in
\* force: no_new_privs, the filter, the namespaces, the new root with the old
\* one detached, the cgroup.  child_main stops at the first step that fails,
\* so no failure of one of them leaves a cart running without it.
CartRunsOnlyIsolated ==
    (InCart /\ Current.kind \in DOMAIN FilterOf) =>
        LET o == Current.opts
        IN  /\ child.nnp
            /\ o.seccomp => FilterOf[Current.kind] \in ToSet(child.filters)
            /\ Current.kind \in {"h", "r"} =>
                  /\ o.mountns => "mnt" \in child.ns /\ child.private
                  /\ o.netns => "net" \in child.ns
                  /\ o.rootfs => child.root = "new" /\ ~child.old
                  /\ o.cgroup => child.cgroup

\* The filter is inherited by the launcher itself until execve: whatever the
\* launcher still does after it is installed, the failure message and the
\* exit included, is on the list.
SetupSurvivesItsOwnFilter ==
    (child.image = "launcher" /\ Current.kind \in DOMAIN FilterOf) =>
        child.status # -31

\* The constructor of libblyt32 narrows the filter before main: a cart that
\* links the library reaches its own code under the second filter or not at
\* all, also when the launcher was told to install no filter.
MainRunsUnderPhase2 ==
    (/\ child.image = "dynamic"
     /\ child.probed \/ (Alive /\ Head1.eff = "probe")) =>
        "phase2" \in ToSet(child.filters)

\* The status the launcher reports is the cart's.  Without a cart it is 0
\* only where the usage was asked for: no failing fork, step or wait of the
\* launcher's own looks like a cart that ran and returned 0.  159 means that
\* a filter killed the process, unless the cart is no probe and returned 159
\* itself (main hands an exit status on as it is, launcher_r.c:197-200).
ReportSound ==
    Current.kind \in DOMAIN FilterOf =>
        /\ ret = 0 => IF Launching THEN InCart /\ child.status = 0
                      ELSE script.argv = "help" /\ child = NoChild
        /\ ret = 159 =>
              \/ child.status = -31
              \/ InCart /\ Current.cart.probe = "workload" /\ child.status = 159

\* Spike H's Stage 3 and spike S's Stage 4 exit 0 only when every cart that
\* had to be stopped was stopped at its probe's own call: not in its start-up,
\* which the one probe that is let through shows to pass, and not at a later
\* call.  Spike H's execve probe is the exception: execve is on the list the
\* launcher needs itself, and what the filter kills is the shell it started.
ExpectedStop(c) ==
    IF c.kind = "h" /\ c.cart.probe = "execve" THEN "made" ELSE "stopped"

PassMeansProbesStopped ==
    (verdict = 0 /\ script.name \in {"h", "s"}) =>
        \A i \in 1..Len(CasesOf(script)) :
            LET c == CasesOf(script)[i]
            IN  c.expect = {159} => <<i, ExpectedStop(c)>> \in reached

\* The raw filter tests measure the kernel: spike R's exits 0 only where a
\* later filter cannot undo an earlier one, spike S's only where the kernel
\* runs 32-bit programs and reports their architecture.
VerdictMeansKernel ==
    verdict = 0 =>
        /\ script.name = "raw_r" =>
              kernel.stacking = "strictest" /\ kernel.exec # "enoexec"
        /\ script.name = "raw_s" => kernel.exec = "native32"

Supported ==
    [ h     |-> kernel.exec = "native64",
      r     |-> kernel.exec # "enoexec",
      s     |-> kernel.exec = "native32",
      raw_r |-> kernel.exec # "enoexec" /\ kernel.stacking = "strictest",
      raw_s |-> kernel.exec = "native32" ]

\* On the kernel a spike was written for, and when nothing fails, its script
\* exits 0: the lists hold every call the launcher, the dynamic linker and
\* the constructor make under them.
SupportedKernelPasses ==
    (verdict # Running /\ faults = 0 /\ Supported[script.name]) => verdict = 0

\* The launch itself: a cart runs only behind what was asked for, and the
\* launcher gets it there under the filters it installed.
LaunchSafe ==
    TypeOK /\ CartRunsOnlyIsolated /\ SetupSurvivesItsOwnFilter /\ MainRunsUnderPhase2

\* What the launchers and the test scripts report can be relied on, in both
\* directions: no pass without its reason, no failure on a supported kernel.
ReportsMeanWhatTheySay ==
    ReportSound /\ PassMeansProbesStopped /\ VerdictMeansKernel /\ SupportedKernelPasses
=============================================================================
