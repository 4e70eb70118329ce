----------------------------- MODULE HookHosts -----------------------------
(***************************************************************************)
(* The hosts that meter a Lua chunk with a hook: the budget hosts of       *)
(* spike-g (hook_host.c, its STUB_CLOCK build, and fire_host.c), the       *)
(* busy-wait of spike-g.2 and the accumulated debt of spike-g.3            *)
(* (throttle_host.c).                                                      *)
(*                                                                         *)
(* Time is real time in small units; what now_ns returns is real time cut  *)
(* to the clock's quantum, about 100 microseconds in a browser worker and  *)
(* far more than the delay a line is to cost.  A tic is one protected call *)
(* of the chunk.  The throttles are told of every line before it runs, the *)
(* budget hook of every HOOK_COUNT instructions.  The chunk may return or  *)
(* fail at any time.  Statistics of the printed frames are left out.       *)
(***************************************************************************)
EXTENDS Integers

CONSTANTS
    Meters,      \* the hosts of this instance
    QUANTUM,     \* resolution of the clock
    DELAY,       \* THROTTLE_DELAY_NS
    BUDGET,      \* HOOK_BUDGET_NS
    HOOK_COUNT,  \* instructions between two count events
    TICS,        \* frames_for(bench)
    MICRO,       \* clock units in the unit a frame is reported in
    Epochs,      \* when a host may be started, real time
    Costs,       \* real time one line or instruction may take
    Pauses,      \* real time that may pass between two tics
    MAX_EVENTS   \* bound: lines or instructions of one tic

BudgetMeters == {"budget", "stub", "fire"}
ThrottleMeters == {"delay", "debt"}

ASSUME HookAssumption ==
    /\ Meters \subseteq BudgetMeters \cup ThrottleMeters
    /\ QUANTUM \in Nat \ {0} /\ DELAY \in Nat /\ BUDGET \in Nat
    /\ HOOK_COUNT \in Nat \ {0} /\ TICS \in Nat /\ MICRO \in Nat \ {0}
    /\ Costs \subseteq Nat /\ Pauses \subseteq Nat /\ MAX_EVENTS \in Nat

\* The clock of a host that has loaded its chunk no longer reads zero.
ASSUME EpochAssumption == Epochs \subseteq {e \in Nat : e >= QUANTUM}

VARIABLES
    meter,    \* which host
    now,      \* real time
    mpc,      \* where its thread is
    rc,       \* exit status
    tic,      \* tics begun
    since,    \* tic_start_ns of the budget, start_ns of the debt; 0: not taken
    target,   \* target_ns
    deadline, \* what the hook spins for
    t0,       \* the clock before the call
    took,     \* microseconds of the last complete frame
    events,   \* lines or instructions of this tic
    first,    \* history: real time of the tic's first event, or of its begin
    waited,   \* history: real time this tic spent spinning
    overdue   \* history: instructions this tic ended a quantum past its budget,
              \* or since the last such error the chunk caught

hookVars == <<meter, now, mpc, rc, tic, since, target, deadline, t0, took, events,
              first, waited, overdue>>

\* now_ns: real time as the clock shows it.
now_ns(t) == QUANTUM * (t \div QUANTUM)

\* hook_now_ns: the diagnostic build's hook sees no time at all.
hook_now_ns(t) == IF meter = "stub" THEN 0 ELSE now_ns(t)

HookInit ==
    /\ meter \in Meters /\ now \in Epochs /\ mpc = "boot" /\ rc = 0
    /\ tic = 0 /\ since = 0 /\ target = 0 /\ deadline = 0 /\ t0 = 0 /\ took = 0
    /\ events = 0 /\ first = 0 /\ waited = 0 /\ overdue = 0

\* The next host is started; its clock counts from its own origin.
Launch ==
    /\ mpc = "exited"
    /\ meter' \in Meters /\ now' \in Epochs /\ mpc' = "boot" /\ rc' = 0
    /\ tic' = 0 /\ since' = 0 /\ target' = 0 /\ deadline' = 0 /\ t0' = 0 /\ took' = 0
    /\ events' = 0 /\ first' = 0 /\ waited' = 0 /\ overdue' = 0

Exit(status) ==
    /\ mpc' = "exited" /\ rc' = status
    /\ UNCHANGED <<meter, now, tic, since, target, deadline, t0, took, events, first,
                   waited, overdue>>

-----------------------------------------------------------------------------
(* main *)

\* A state is made and the chunk loaded, or the host gives up.
LoadChunkFails == mpc = "boot" /\ Exit(1)

LoadChunk ==
    /\ mpc = "boot" /\ mpc' = "between"
    /\ UNCHANGED <<meter, now, rc, tic, since, target, deadline, t0, took, events,
                   first, waited, overdue>>

TicsOf == IF meter = "fire" THEN 1 ELSE TICS

\* The slip of arming once, when the hook is installed.
Armed_once(t) == IF tic = 0 THEN hook_now_ns(t) ELSE since

\* What the host sets before each call: the budget hosts read the clock, the
\* debt forgets the last tic's start.
Armed(t) == IF meter \in BudgetMeters THEN hook_now_ns(t) ELSE 0

BeginTic(pause) ==
    /\ mpc = "between" /\ tic < TicsOf
    /\ now' = now + pause /\ tic' = tic + 1
    /\ since' = Armed(now') /\ target' = 0 /\ t0' = now_ns(now')
    /\ events' = 0 /\ first' = now' /\ waited' = 0 /\ overdue' = 0
    /\ mpc' = "chunk"
    /\ UNCHANGED <<meter, rc, deadline, took>>

\* The slip of subtracting the wrong way round.
FrameTime_swapped == (t0 - now_ns(now)) \div MICRO

FrameTime == (now_ns(now) - t0) \div MICRO

\* lua_pcall returns LUA_OK; the fire test wanted an error.
ChunkReturns ==
    /\ mpc = "chunk"
    /\ IF meter = "fire" THEN mpc' = "exited" /\ rc' = 1 ELSE mpc' = "between" /\ rc' = rc
    /\ took' = FrameTime
    /\ UNCHANGED <<meter, now, tic, since, target, deadline, t0, events, first, waited,
                   overdue>>

\* The chunk raises an error of its own: every host prints it and gives up.
ChunkFails == mpc \in {"chunk", "line"} /\ Exit(1)

\* The hook's error comes out of lua_pcall: what the fire test is after, the
\* end of any other host.
BudgetError == mpc = "over" /\ Exit(IF meter = "fire" THEN 0 ELSE 1)

\* The chunk was inside a pcall of its own (luaL_openlibs gives it one), which
\* takes the error: it goes on with the count begun anew.
ChunkCatches ==
    /\ mpc = "over" /\ mpc' = "chunk" /\ overdue' = 0
    /\ UNCHANGED <<meter, now, rc, tic, since, target, deadline, t0, took, events, first,
                   waited>>

Finish == mpc = "between" /\ tic = TicsOf /\ Exit(0)

-----------------------------------------------------------------------------
(* throttle_hook *)

\* spike-g.3: the first line takes the start, each line adds to the target.
DebtLine ==
    /\ mpc = "chunk" /\ meter = "debt" /\ events < MAX_EVENTS
    /\ since' = IF since = 0 THEN now_ns(now) ELSE since
    /\ target' = target + DELAY
    /\ deadline' = since' + target'
    /\ events' = events + 1
    /\ first' = IF events = 0 THEN now ELSE first
    /\ mpc' = "spin"
    /\ UNCHANGED <<meter, now, rc, tic, t0, took, waited, overdue>>

\* spike-g.2: each line waits by itself.
DelayLine ==
    /\ mpc = "chunk" /\ meter = "delay" /\ events < MAX_EVENTS
    /\ deadline' = now_ns(now) + DELAY
    /\ events' = events + 1
    /\ first' = IF events = 0 THEN now ELSE first
    /\ mpc' = "spin"
    /\ UNCHANGED <<meter, now, rc, tic, since, target, t0, took, waited, overdue>>

\* The slip of leaving the spin a quantum early.
Lags_early == now_ns(now) + QUANTUM < deadline

\* The slip of spinning at the deadline itself.
Lags_at == now_ns(now) <= deadline

Lags == now_ns(now) < deadline

Spin ==
    /\ mpc = "spin" /\ Lags
    /\ now' = now + 1 /\ waited' = waited + 1
    /\ UNCHANGED <<meter, mpc, rc, tic, since, target, deadline, t0, took, events,
                   first, overdue>>

HookReturns ==
    /\ mpc = "spin" /\ ~Lags /\ mpc' = "line"
    /\ UNCHANGED <<meter, now, rc, tic, since, target, deadline, t0, took, events,
                   first, waited, overdue>>

\* The line runs, with the C functions it calls.
RunLine(cost) ==
    /\ mpc = "line" /\ mpc' = "chunk" /\ now' = now + cost
    /\ UNCHANGED <<meter, rc, tic, since, target, deadline, t0, took, events, first,
                   waited, overdue>>

-----------------------------------------------------------------------------
(* hook_fn *)

CountEvent == (events + 1) % HOOK_COUNT = 0

\* The slip of testing the time since the last count event only.
Exceeds_window(t) == hook_now_ns(t) - hook_now_ns(now) > BUDGET

Exceeds(t) == hook_now_ns(t) - since > BUDGET

RunInstruction(cost) ==
    /\ mpc = "chunk" /\ meter \in BudgetMeters /\ events < MAX_EVENTS
    /\ now' = now + cost /\ events' = events + 1
    /\ mpc' = IF CountEvent /\ Exceeds(now') THEN "over" ELSE "chunk"
    /\ overdue' = IF now' - first >= BUDGET + QUANTUM THEN overdue + 1 ELSE overdue
    /\ UNCHANGED <<meter, rc, tic, since, target, deadline, t0, took, first, waited>>

-----------------------------------------------------------------------------

HookNext ==
    \/ Launch \/ LoadChunkFails \/ LoadChunk
    \/ \E p \in Pauses : BeginTic(p)
    \/ ChunkReturns \/ ChunkFails \/ BudgetError \/ ChunkCatches \/ Finish
    \/ DebtLine \/ DelayLine \/ Spin \/ HookReturns
    \/ \E c \in Costs : RunLine(c) \/ RunInstruction(c)

HookSpec == HookInit /\ [][HookNext]_hookVars

-----------------------------------------------------------------------------
(* Properties *)

\* Types: no subtraction of two clock readings goes below zero.
HookTypeOK ==
    /\ meter \in Meters /\ rc \in {0, 1}
    /\ mpc \in {"boot", "between", "chunk", "spin", "line", "over", "exited"}
    /\ now \in Nat /\ tic \in Nat /\ since \in Nat /\ target \in Nat
    /\ deadline \in Nat /\ t0 \in Nat /\ took \in Nat
    /\ events \in Nat /\ first \in Nat /\ waited \in Nat /\ overdue \in Nat

\* A throttled tic keeps the pace although the clock is coarse and the host
\* paused before it: after n lines it has lasted n delays, but for the part of
\* a quantum its start was read early.
PaceKept ==
    (meter \in ThrottleMeters /\ mpc \in {"line", "chunk"} /\ events > 0) =>
        now - first > events * DELAY - QUANTUM

\* The debt design makes the clock's resolution a quantum of the tic, not of
\* the line: whatever the number of lines, a tic waits less than one quantum
\* longer than its lines are worth.
OneQuantumPerTic ==
    meter = "debt" => waited < events * DELAY + QUANTUM

\* The frame time a throttled host prints is never below what its lines were
\* to cost.
ReportCoversTheDelays ==
    (meter \in ThrottleMeters /\ mpc = "between" /\ tic > 0) =>
        took >= (events * DELAY) \div MICRO

\* The budget stops only a tic that, to within a quantum, really used it up:
\* neither the pause before it nor an earlier tic is charged.
OnlyOverrunsStopped ==
    mpc = "over" => now - first + QUANTUM > BUDGET

\* A tic past its budget by a quantum gets the error within HOOK_COUNT
\* instructions, and again within as many each time the chunk catches it.
OverrunsAreCaught ==
    (meter \in {"budget", "fire"} /\ mpc = "chunk") => overdue < HOOK_COUNT

\* The throttle neither runs ahead of its delays nor adds more than one
\* quantum of the clock to a tic, and the host's report shows the delays.
ThrottleOnPace == PaceKept /\ OneQuantumPerTic /\ ReportCoversTheDelays

\* The budget hook stops the tics that overran, soon, and no others.
BudgetExact == HookTypeOK /\ OnlyOverrunsStopped /\ OverrunsAreCaught

\* Both uses of the debug hook: to slow a cart down and to stop it.
MetersExact == ThrottleOnPace /\ BudgetExact
=============================================================================
