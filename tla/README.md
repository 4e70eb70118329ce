# A TLA+ verification project for the blyt fantasy console

The repository plans a fantasy console: `docs/` holds the decisions (ADRs) and the
design, and `spikes/` holds the programs that were written to find out whether the
decisions work. The spikes are the only executable code, so they are what is
modelled here: every definition is a translation of code under `spikes/spike-*`, and
the ADRs, plans and header comments are used only as statements of what that code
promises.

The project has four kinds of file. A plain module (`SaveState.tla`) models one
component. A module whose name starts with `MC` gives its constants values for TLC,
and each `.cfg` beside it is one question. A module whose name ends in `Proofs` holds
theorems that TLAPS checks. `PROJECT.json` lists the components, the runs, the map from
definitions to source lines, the deliberate mutations each property must notice, the
findings and the hazards.

## 1. Inventory

### What the system consists of

| Component | State it keeps | Operations | Where it is modelled |
|---|---|---|---|
| Save-state engine (spike-k) | tracked regions, cached layout hash, buffer on disk | init, save, load, boot of another build | `SaveState`, `SnapshotStore` |
| Voice-end queue and mixer (spike-k) | logical view bits, pending events | voice start, apply pending, record end, load check | `VoiceQueue`, `VoiceEndQueue` |
| Deterministic carts (spikes d, f, k) | frame state, shake, coroutine blob, cart state, digests | one frame, save, load, resync, for five carts; one frame of the Lua workloads in the emulator and on WASM | `DetCarts`, `CartReplay` |
| Master hook, DAP server, Lua host (spike-j) | breakpoints, step mode, pause flags, budget, the Lua state, a socket | hook events, request handlers, pause loop, reload, shutdown | `DapDebug` |
| GDB stub (spike-j) | breakpoints, halted flag, sockets, threads | accept, read packet, handle, send and ack, CPU step, detach, shutdown | `GdbStub` |
| Hot-reload migration (spike-n) | a snapshot and the layout it has, region bytes, descriptor | frame, snapshot, reload with migration | `Migrate`, `HotReload` |
| Stub packer (spike-n) | packer-state.json, outputs | stat, hash, compile, record | `StubPacker` |
| Persistent coroutines (spike-m) | slot bitmap, blobs, the wrapper's table | create, resume, end, save, load, re-create | `PersistentScripts` |
| Libretro core (spike-l) | clock accumulator, audio counters, runtime, rewind buffers | load, run, reset, serialize, unserialize, unload | `RetroCore` |
| Table flattening (spike-m) | a byte buffer, the Lua stack | flatten, unflatten | `TableFlatten` |
| Freestanding Lua runtime (spikes b, c, i, j) | bump pointer, block headers, free list | malloc, calloc, realloc, free; memory, string, scan, sort, number, rounding and print routines | `LuaHeap`, `LuaLibc` |
| Hook and throttle hosts (spikes g, g.2, g.3) | a tic's start, debt, deadline | arm, line event, count event, spin, return | `HookHosts` |
| Dynamic loaders (spikes c, i) | mapped libraries, symbol table, memory | map, register, load needs, relocate | `DynLoader` |
| Console libraries, trampolines, binding (spikes i, q) | Lua state, preload and module tables, export registry, the emulated CPU | init, chunk, frames, require, call on demand | `ConsoleLua`, `LoadedConsole` |
| Allocating cart (spike-p) | state words, heap values, save file | boot, load or init, update, save in chunks, kill | `AllocCart` |
| Launchers (spikes h, r, s) | the child's isolation and filter, statuses of both processes | fork, each set-up step, exec, wait, report | `Launcher` |
| System-call filters and raw tests (spikes h, r, s) | filter programs | build, install, judge a call | `Seccomp` |
| Edit driver, console stubs, benchmark hosts and ports, drivers and reports (a, d, e, f, l, n, o, t, u) | none worth a property | | not modelled, see section 8 |

### How they interact

The *save-state engine* is the hub. A cart links a registry of regions; frame state,
voice queue, screen shake, coroutine blob, persistent scripts and the migratable
native or Lua state are all regions with `save`, `load` and `describe` callbacks. Hot
reload is a save in one build and a migrating load in the next; libretro's rewind is the
same save and load inside one process; resuming on another host is the same again
across machines. The voice-end queue decouples the mixer from the cart: the mixer's ends
become inputs of the next frame. The master hook is called by the Lua virtual machine and
calls into the DAP server, whose thread serves a client over a socket and shares
`g_dap` with it. The GDB stub has the same shape with a CPU loop in place of the hook. The
packer produces what a reload loads.

Below them lies what carries a cart. A launcher isolates a process and hands it to the cart
under a filter the process installs on itself. In the emulator a loader maps the libraries the cart
needs and binds their symbols; one of them is the console library, which makes a Lua state on the
freestanding runtime's heap, calls the cart's module hook through a weak reference and runs the
script frame by frame. In the browser the same script's native modules are reached through
trampolines that drive the emulator one call at a time. The hook hosts are the first, separate
versions of what the master hook composes.

### Which behaviours are hard

* Two threads that share flags with partial locking (DAP), or one socket (GDB).
* Loads that commit region by region and may be refused in the middle.
* Layouts: a hash of a description stands for a layout, a descriptor for a pair of them.
* Queues and buffers at their limit: 8 pending ends, 4096 characters of description,
  4096 bytes of scratch, 16 facade events.
* Resuming exactly: which part of the frame was done before the save, which NaN payload
  the host made, which slot a script had.
* Time: catch-up after a pause, audio that may not drift, a budget in wall-clock time, a
  modification time cut to seconds.
* Arithmetic at its limits: a filter's jump distances, a formatted number wider than its field, the
  most negative value, a clock coarser than what it measures.
* Long lives of shared cells: blocks that are freed, reused whole and moved; statics that outlive
  the call, the tic or the process they were set for.
* Isolation by steps, each of which may fail, and the last of which forbids the earlier ones.
* Termination: shutting down while the other thread is blocked in `recv`, in a pause
  loop or in a spin.

`PROJECT.json` lists these as hazards, each at the line where it bites and with the
properties that watch it. A note says where a property covers only part of a hazard.

### What makes each component correct

* Save state: a load is accepted only for the reader's own layout and is then complete; a
  good file is never refused; a refusal leaves no trace a cart could run on.
* Voice queue: at the start of an update the view is what the mixer plays.
* Replay: a resumed run prints the digests of the uninterrupted one, on any host.
* Debuggers: stops are announced, resumes are not lost, inspection happens only while
  stopped, detaching and shutting down free everybody.
* Hot reload: what a field meant before the edit it means after it.
* Packer: reported as built means built; not edited means not built again.
* Scripts: the region always holds what a save should write, and a context belongs to its
  script.
* Libretro: no invented time, no audio drift, no end reported twice, rewinding is exact.
* Flattening: the same table gives the same bytes on every host and comes back; what does not fit is
  refused; one value is pushed, whatever happens.
* Lua runtime: objects never share a cell, keep their contents through moves and failures, and no
  block is lost; the library computes what the C standard says, where it follows it.
* Hook hosts: a throttled tic keeps its pace under any clock, a budget stops overruns and nothing else.
* Loaders: every slot holds the program's one definition; each library is mapped once; loading ends.
* Console and trampolines: a script's call is answered by the function it names, on every host.
* Allocating cart: a run that was restored prints what the straight run prints, after any kill.
* Launchers and filters: a cart runs only behind every step of its launcher, the launcher survives its
  own filter, a filter program decides what its lists say, and a report of the tests means what it says.

## 2. Modules and how they correspond to the code

**SaveState** follows `save_state.c` with the drivers' use of it. `live` is the regions'
memory, `ginit` and `ghash` the statics of `save_state_init`, `file` the buffer in transit
with its header fields, `damage` what the medium did to it. `Boot` zeroes the statics the
way a new process does, `Save` and `Load` are the whole functions with every gate in
source order, `Reject` and `Accept` the driver's reaction. The description is cut at
`ScratchCap`, where the code spins: status `hung`. Contents are members of `Values`;
`Canon` is what a region's `save` does to NaNs and `Accepts` what its `load` refuses.

**SnapshotStore** is the abstract specification of that component: a running cart has one
state, a checkpoint copies it, a restore brings back the whole of it or nothing happens, and
the image may decay. `SaveState` implements it (property `CartNeverRunsOnAMixture`): the
half-loaded memory after a refused load is hidden because a driver that sees the refusal
exits.

**VoiceQueue** has the pure operations of `region_voice_end_queue.c` (`Started`, `Applied`,
`Recorded`, `QueueLoads`); **VoiceEndQueue** puts them between a cart, a mixer and the frame
loop. **DetCarts** has one operator per program (`AudioFull`, `AudioSave`, `AudioLoad`, `LuaResume`, ...) for
what one iteration of its loop does, with the regions its cart registers; **CartReplay** runs the full,
save and load programs of a cart, each on a host of its own, and stops a process whose queue was refused, as
`main` does. The sixth cart, `direct`, is a Lua workload of spike-d that is never saved: the emulator and
the WASM host of spike-f run it, and agree because both parse numbers with the library's own `strtof`
(`Parsed`). Floating-point values are abstracted to what was accumulated and whether a NaN is in host or
canonical form; `states` is a history variable, the canonical process after each frame.

**DapDebug** composes `master_hook.c`, `dap_server.c` and `dap_lua_host.c`. Each action is one
critical section, one send or one hook event; `cpc` and `spc` are the program points of the
cart thread and the DAP thread. What is read under the mutex and used after it stays a value
held by the thread. The Lua program is any sequence of line, call, return and count events,
the client any sequence of the requests in `Commands`; `Pipelines` says whether it sends without waiting for
responses (`host/dap_test.js` waits). A new breakpoint list replaces the table in the order the lines
come in, so of more lines than the table holds the last ones are refused.

**GdbStub** has a server thread, a CPU thread, the thread that calls shutdown, and GDB. The
stream towards the stub is a sequence of acks, packet openings and packet bodies, because
the code's threads take single bytes from it; a byte taken out of a body leaves another
packet or a short one (`Bitten`).

**Migrate** is `migrate_region_bytes` over 32-bit words as a pure operator. **HotReload** runs
edit chains over it: `CartUpdate`, `Snapshot` and `Reload`, where `Reload` is the whole of
`save_state_load_migrate` under its driver. `truth` is a history variable, the number each
field stands for according to ADR-0045's table. What the compiler guarantees of a struct is the
assumption `BuildsAssumption`: fields have names of their own, lie inside the region and do not overlap.

**StubPacker** cuts `main` of `stub_packer.c` where it touches the file system: `Start` (stat,
lookup, fast path), `Hash` (slow path), `Compile`, `Save`, with `Kill` possible in between. The
editor writes, deletes and touches sources at any time. `raced` and `settled` are history
variables.

**PersistentScripts** has `blyt32_coroutine.lua` over `region_persistent_scripts.c`. A context is
known by its script, how far it advanced, and whether it can be flattened. After `Load` the
cart re-creates its scripts in order, as the spike's carts do.

**RetroCore** has `retro_core.c` over `blyt_facade.c`. The frontend makes any permitted libretro
call; `acc`, `pushed` and `runs` are the adapter's counters; `path` records the inputs since the
cart's start so that a rewound cart can be compared with an undisturbed one.

**TableFlatten** is the encoder and decoder of `lua_table_flatten.c` over small tables: entries in the order
`lua_next` happens to give, sorted by key before they are written; sizes, fields and kinds limited as in the
code; error codes; and the height of the Lua stack after each call. `MCPersistentScripts` checks it beside the
scripts, for whom a context either can be flattened or cannot.

**LuaHeap** is the allocator: `brk`, headers, the free list and, per cell, what was last written. The VM is any
sequence of `l_alloc` calls by three objects. A header is one cell and an alignment two, so that splitting,
rounding and the list's link over the first user cell all happen. **LuaLibc** has one operator per library
routine beside a reference definition of what the C standard asks; a call is a step so that TLC tries every
argument. The copies of `lua_lib_runtime.c` in spikes c, i and j are the same text; the map names the heap
in spike-b's file, memory, strings, `strtof` and division in spike-c's, copying, sorting and parsing in spike-i's, scanning,
rounding and formatting in spike-j's. Conversions of a number beyond the integer's range saturate, as on the target.

**HookHosts** has the four metering hosts over real time and a clock that shows it cut to a quantum. A line's or
an instruction's cost and the pause between two tics are any member of a set; `first`, `waited` and `overdue`
are history variables.

**DynLoader** has both loaders: the single one maps every library at one address, the multi-library one keeps a
registry and recurses into needs. Memory is a function of words; a relocation table is a list of writes
(`LibRela`, `CartPltEntry`, `CartRelaEntry`), of which the last to a word stays. A `.dynsym` lists its names in any
order. `LoaderAssumption` and `WorldAssumption` are what the linker guarantees: a word of an object is relocated once and by a
symbol the object lists, a defined symbol has an address, the cart lies below the libraries and needs none of them twice,
and only the cart's stubs give an undefined symbol an address. **ConsoleLua** has the console library on three hosts: in the emulator with the Rust binding, in the browser
with trampolines, and the C harness. Registers, stack slots and the sentinel of a call on demand are state;
numbers are words of a few bits with the code's truncation. **LoadedConsole** composes the two: the console runs on what
the loader left, and whether its weak reference `cart_lua_modules` is found is what the loader wrote into the GOT word
`libconsolelua.so` tests it by (`HookWord`). `Starts` are the worlds a console is started in: the library refers to the hook
and no library defines it.

**AllocCart** has the two state words and four heap values of the cart, the file as a length and the words its bytes
are the start of, and the Makefile's straight, save and restore runs with a kill possible at each step. `Replay` is one
turn of `on_load`'s loop, which grows the vector again; `replayed` counts them.

**Seccomp** builds the filter programs from the allow-lists instruction by instruction and interprets them; its
reference is set membership. `Run` is a table of the answers from each place and accumulator, so that a program can be
reasoned about place by place; `BuildSpec` is the builders alone. **Launcher** composes the child's steps of the three launchers, the parent, the
filter the child is under at each moment and the probes of the guest scripts, whose verdicts are state too. What a
command line can ask for is `LauncherCases`.

Operators marked `mutant` in a comment, or described as a slip, are not part of any
specification: they are the plausible bugs that the properties are tested against.

## 3. Runs

Runs that pass (states found with the bounds in the cfg):

| Run | Checks | States |
|---|---|---|
| `save_state` | accepted loads are whole and of the same layout; clean files are accepted; header refusals touch nothing; refinement of `SnapshotStore` | 35,790 |
| `voice_queue` | the view follows the mixer; pending events account for the difference; every end reaches the cart | 247 |
| `cart_replay` | resumed digests equal the full run's; the buffer is host independent; the resumed run completes; the allocating cart restores what it saved after any kill, and ends | 121,674 |
| `dap` | no invisible stop, walks only while stopped, steps end where asked, acknowledged breakpoints stop, resumes are not lost, the harness ends after reloads of every outcome | 843,949 |
| `hot_reload` | state survives the edit; described edits are accepted | 20,378 |
| `gdb_stub` | no standoff but after a bitten packet; detach frees the CPU; shutdown ends | 225,678 |
| `persistent_scripts` | saved contexts are current, stay with their script and come back in place; flattening is host independent, comes back, refuses what is too large and pushes one value | 113,307 |
| `retro_core` | audio, time, voice ends, exact rewind | 1.1 million |
| `packer` | BUILD-DONE means built, and what was recorded is not built again, under a disciplined editor (the theorem `NoRebuild` has the second for any editor) | 259,414 |
| `lua_runtime` | objects share no cell, keep their contents, no block is lost; every library routine against its reference; metered tics keep their pace and budget | 301,478 |
| `launcher` | filter programs mean their lists; carts run only isolated and under the last filter; the launcher survives its own; reports and verdicts mean what they say | 74,638 |
| `binding` | slots hold the definition, libraries are mapped once and apart, loading returns; calls mean the export on every host, the console ends | 155,999 |

A run checks related invariants together, under a name of their conjunction; the parts keep their own definitions
and comments in the component's module:

| Checked | Parts |
|---|---|
| `GatesAreExact` | `CleanFileIsAccepted`, `GateRefusalTouchesNothing` |
| `QueueSound` | `ViewFollowsMixer`, `PendingAccountsForTheRest` |
| `ReplaySound`, `AllocSound`, `RunsComplete` | types with `ResumedDigestsMatchFullRun`; types with `RestoredDigestsMatch`; `ResumedRunCompletes` and `AllocCartEnds` |
| `StopDiscipline` | types, `NoInvisibleStop`, `WalkOnlyWhileStopped` |
| `EditKeepsState` | types, `StateSurvivesTheEdit` |
| `StubSound` | types, `NoStandoff` |
| `FlattenSound` | `ComesBack`, `OneValuePushed`, `SameBytesOnEveryHost`, `RefusedWhenTooLarge` |
| `HeapSound` | types, `NoOverlap`, `DataIntact`, `NothingLost` |
| `LibraryAsSpecified` | `MovesAsIfBuffered`, `ComparesThePrefix`, `SortedPermutation`, `FormatMatchesC`, `PrintsTheTextOnly`, `ReadsBack`, `NearestFraction`, `DividesExactly`, `ScansAsSpecified`, `RoundsAsSpecified` |
| `ThrottleOnPace`, `BudgetExact` | `PaceKept`, `OneQuantumPerTic`, `ReportCoversTheDelays`; types, `OnlyOverrunsStopped`, `OverrunsAreCaught` |
| `LaunchSafe`, `ReportsMeanWhatTheySay` | types, `CartRunsOnlyIsolated`, `SetupSurvivesItsOwnFilter`, `MainRunsUnderPhase2`; `ReportSound`, `PassMeansProbesReached`, `VerdictMeansKernel`, `SupportedKernelPasses` |
| `LoaderSound`, `CallsAnswered`, `BindingEnds` | types, `SlotsHoldTheDefinition`, `LibrariesDoNotOverlap`, `EachLibraryOnce`; types, `CallsMeanTheExport`, `HarnessReadsTheSums`, `TrampolinesAreBacked`; `LoaderReturns`, `ConsoleEnds` |

Where a module's type invariant is not part of one of these (`SaveState`, `PersistentScripts`, `RetroCore`,
`StubPacker`) it is proved, as `TypeCorrect` (section 4).

### Bounds and why they are enough

* `MCSaveState`: six builds chosen in pairs: two that differ in one field's width, two whose
  descriptions agree up to the cut-off, one too big for the buffer, one with other regions.
  Every gate therefore has a file that only it refuses. Scratch holds two regions.
* `MCVoiceEndQueue`: five handles over a queue of three, and a cart that plays three voices at a
  time, so that the queue fills to its last place; a fourth voice overflows it (section 6).
* `MCCartReplay`: five frames, two voices that end at any frame or never, a NaN that appears at
  any frame or never, every save frame. A frame's effect depends on the previous frame only, so
  five frames have a first, a last, one before the save, the saved one and one after.
* `MCDapDebug`: two lines compete for one breakpoint slot, so one of them is acknowledged as not
  verified; call depth two, three hook events a call, four requests out of every kind: enough to
  configure, set a breakpoint, inspect or reload at the stop, and step, continue or disconnect.
* `MCGdbStub`: two sessions of two requests, a wire of three symbols, one breakpoint.
* `MCHotReload`: all native edits n1 to n6 as the source defines them, one whose descriptor was forgotten, values
  of both signs and one that needs 64 bits; a scratch of five words against a region of six. The Lua edits l1 to l4
  are defined beside them and used in section 6.
* `MCPersistentScripts`: three scripts compete for two slots; tables of up to three entries (one more than the limit) in
  every order, with values of every kind the format knows or refuses, against four buffer sizes.
* `MCRetroCore`: a tick of two units and delays of 0, 1, 3 and 9, so that a run makes no, one,
  two or three updates or is capped; 5 samples to 3 frames so that batches alternate.
* `MCStubPacker`: four contents, of which two good ones and the broken one share a size; three
  seconds. A stale skip needs an edit, a race and an undo, which is two seconds.
* `MCLuaRuntime`: ten cells for three objects, with requests that fill a block exactly, leave a remainder, fill the
  heap or wrap the rounding. Library arguments are all short strings over two digits and `x`, all arrays up to four
  records with equal keys, all flag combinations, and all numbers of 5 and 6 bits. A quantum of 4 against a
  delay of 3, epochs at every phase of it, costs and pauses shorter and longer than it; four events a tic, so
  that an error of one quantum a line would be seen to add up; two tics, so that a static can outlive one.
* `MCLauncher`: the scripts as they stand and, outside them, the three launchers with every combination of options, on every
  kernel, with any one call failing. The builders run on lists of zero to six names, with jumps of at most eleven so
  that the longest list overflows an offset, and with buffers just too small and just large enough.
* `MCBinding`: every graph of needs among three libraries of different sizes, every choice of who defines one symbol
  and with which binding, one missing file; a registry and a symbol table that the larger worlds fill; carts whose
  exports come in two modules, out of order, with a gap, or one more than the table names. The console starts in
  the worlds whose cart needs `libconsolelua.so`, alone or after another library, and where it may need one itself.
* `MCCartReplay` (allocating cart): seven frames with a save in the third, chunks that do not divide the file, three
  processes one after the other: one that is killed, one that finds what it left, one that finds what that left.

### Fairness

Only liveness properties need it, and each fairness condition is a thread that the operating
system schedules or a loop that polls with `usleep`.

* `VoiceEndQueue`: the frame loop goes on (weak fairness of `EndUpdate` and `NextUpdate`); the mixer
  and the cart owe nothing.
* `CartReplay`: the programs run to their end; nothing in them waits.
* `DapDebug`: the DAP thread, the cart thread inside the pause loop and in `pthread_join`, and the
  client's reading of its socket. Not the Lua program, and not the user: nobody has to continue.
* `GdbStub`: both threads of the stub, GDB's reading and retransmission, and the shutting-down
  thread once it has begun. Not GDB's requests.

* `AllocCart`: a process is one thread of straight-line code; kills and boots owe nothing.
* `DynLoader`, `ConsoleLua`: one thread of straight-line code, and scripts that return.

Deadlock is checked except where a system may stop by design (programs that exit, a client that
sends nothing more); those cfgs say `CHECK_DEADLOCK FALSE`.

## 4. What is proved

TLAPS proves the following for every value of the constants that satisfies the named
assumptions; TLC checks the same definitions on the instances above.

**SaveStateProofs.** `TypeCorrect`, `AcceptedLoad`, `ExactGates` (from `CleanFile` and `GateRefusal`) and `Refinement`.
Assumptions: registries are sequences, the hash separates the descriptions at hand, a region
accepts what its own code writes. The inductive invariant adds to the type invariant that a
cached hash belongs to the running build, that an undamaged file carries its writer's hash and
sizes, and that its contents are acceptable to the writer's regions. Without the
first an old hash could survive a boot; without the last a clean file might be refused by
`load` callbacks. The refinement maps a running process that has just been refused to a stopped
cart, so that each step is a step of `SnapshotStore` or a stutter.

**PersistentScriptsProofs.** `TypeCorrect` and `CurrentCtx` without conditions; `OwnCtx` and
`RestoredInPlace` for snapshots whose used slots are dense, which is exactly what the finding
on slot stability violates. The invariant needs to know that free slots are wiped (or hold the
leftovers of a load), and that the list of scripts still to be re-created matches the blobs.

**ConsoleProofs.** *The libretro core:* `TypeCorrect`, `AudioDrift`, `TimeAccounted`, `EndsOnceEver` and `RewindsExactly`, from `Rate <= MaxBatch *
Fps` (48000 and 60 against a mix buffer of more than 800 frames) and distinct handles in the
schedule. The arithmetic core is a lemma on integer division: one more run raises the ideal count by
at most what the buffer takes, so the clamp never bites and the count never lags. The voice-end
argument needs that saved buffers obey the property too, since a rewind brings them back. Exactness
compares with `Golden`, the run of an undisturbed cart over the inputs in `path`, a recursive function. `RunExists` and
`RunUnique` say that the recursion defines something and only one thing, both by a least counterexample; `GoldenStep`
then unfolds it by one input, and the invariant `Rewinds` says that the runtime, and each saved buffer, are what
`Golden` makes of their own inputs.

*The console runtime:* `CallsAreAnswered`, for every set of cart files and argument lists, every size of the export registry and
of the function table, every number of register values above 8, and whether the weak hook is found or not. `CartFileAssumption`
says what a cart file is: entries with at most four argument types, a symbol table without zero addresses, and entries that
describe the functions they name; `LibraryAssumption` says what `fast_add`, `fast_mul`, `add32` and `addf` are. The property is about
an answer; the invariant `ConsoleInv` follows the call that produced it. `ConsoleTables`: a number in a script's table is a place
in the registry, the registry is what `blyt_hybrid_init` reads, and an emulator is live behind it. `CallInProgress`: the call's
address is the one the cart exports under its name (`CallIsNamed`), the guard is up, and until the function has run its operands
are in the registers the calling convention names, from then on its result is (`CallRegisters`). Four lemmas carry the weight.
`Ranked` and `ReadExportsSound`: the loop over the section lists the live entries, each once. `TablesSound`: the module tables point at entries
of their name. `ArgumentsInPlace`: what `rv32emu_call_fn` writes with two counters is what the function reads by its types.
`ProductWraps`: a product of wrapped words is the wrapped product, so the browser and the guest agree.

*The loaders:* `LoaderIsSound`, for every directory of libraries, graph of needs and choice of who defines what, every size of
registry, symbol table, page and memory, and both loaders. The property speaks of the moment the loader returns; the invariant
`LoaderInv` says what is true on the way there. `LoaderPlaces`: mappings rise, each above the one before. `NeedsMet`: while the needs
fit the registry, the registry is exactly what was mapped, each library once, and what the cart or a mapped library needs is mapped or still in
`todo`; so when `todo` is empty the mapped libraries are closed under needs, and being reachable they are the least such set
(`ReachableIsLeast`, `AllMapped`). This is what a circle of needs cannot upset. `LoaderSymbols`: the table knows every name by its definition *among
the libraries mapped so far*, and never holds more names than the program exports, so it is never full (`SymbolsGrow`); `DefinitionGrows` says that a
library mapped later changes the meaning of no name that had one. `LoaderMemory`: a library relocated once keeps its slots, because
what is written later lies elsewhere (`SlotsUndisturbed`, `LibrariesUndisturbed`), and the cart's words hold what the file holds until their
turn. The second pass is what lets the slots be right: no name gets a new meaning once the first slot is filled.

*Loader and console together:* `ModulesFollowTheCart`, for every directory, cart and start: a script finds its module exactly when the
cart defines the weak hook. `HookInv` carries it from the moment of the test to every later one: the console is past its start only where
the loader has come to its end, and from then on no step of the loader is possible, so the word tested is the word
`LoaderIsSound` speaks of (`HookMeans`); `ModulesSteps` says that nothing but the test fills the script's modules.

**PlatformProofs.** *The packer:* `TypeCorrect` and `NoRebuild` for any editor; `BuiltWhenDone` for one that writes a
file at most once a second and never restores an old content. Two inductive invariants. `NInv`: a
running packer's copy of the entry is the one in the file, its hash is the source's unless it was
raced, and a settled source is the one its entry describes. `DInv` adds the chain the skip relies on:
an entry of the source's own second has the source's hash (`EntryFresh`); an entry with the
source's hash has the source's output (`EntryTrue`); the compiler runs only when the entry does *not*
describe the source (`CompileMiss`), so a failing compiler cannot spoil an output that would be
believed. TLC refutes the conclusion without either half of the editor's discipline.

*The filters:* `FiltersMeanTheirLists`, for every pair of lists, every buffer and every width of the jump field. There is
nothing to carry from step to step; the work is in what a program computes. A program all of whose paths stay inside
(`Closed`) has a table of answers (`RunExists`: build it from the last place backwards), and `Run` reads that table
(`RunUnfolds`). A block that tests a list then answers as the list does (`ListMeaning`, by the least number of entries
left for which it would not). What remains is where the blocks lie (`OneArchIs`, `DispatchIs`) and that the one
long jump, over the RV64 block, is stored as it is because the builder refuses what the field cannot hold (`Fits`).

*The launchers:* `LaunchIsSafe` and `ReportIsSound`, for every kernel, every command line of the three launchers and any
number of failing calls, from `LaunchAssumption`: the launches are command lines, and the lists of spikes R and S fit the
buffer and the jump they are built with (TLC evaluates it for the sizes of the code). That a cart is isolated says nothing
about the steps before `execve`, so the invariant `LInv` speaks of the plan the child carries in `todo`. Before `execve`
(`Setup`): everything the launch needs is done, or still to come as a step whose failure ends the child (`Heading`); no
filter is in force, or the launcher's own one and everything to come is on its list (`Guarded`, `AllQuiet`); the old root is
left only after the new one is entered, and detached before `execve` (`RootThenDetach`). `execve` is the last step, so
when it is reached nothing is still to come. After it (`CartOK`): everything is done, and a cart that links libblyt32 has the
second filter or meets the step that installs it, fatal when it fails, before its probe (`Narrowed`). `Plan` says what
each `child_main` must provide, and is proved of the three lists from their parts. That the launcher's own calls pass its
filter is `OwnVerdict`, from `FiltersMeanTheirLists`.

**LuaRuntimeProofs.** *The heap:* `HeapAlwaysSound` (`TypeCorrect`, `ObjectsNeverOverlap`, `BlocksNeverLost`, `ContentsIntact`), for every heap
size, alignment, header size, word width and set of objects and requests. That no two objects share a cell is not
inductive: `malloc` hands out whole blocks from a list, so the proof must know what the list holds. The
invariant `Sound` says that blocks are disjoint and tile the heap up to `brk`; that the free list names blocks,
each once; that an object fits the block before it; and that each block has exactly one owner, an object or the
list. Three lemmas say what `malloc` returns (`ReuseServes`, `CarveServes`, `MallocServes`), one what granting it to an
object keeps (`GrantKeeps`), one what linking a block into the list keeps (`PushKeeps`); `realloc` is all three.
That the search of the list ends at a fitting block is a fact about a least element, cited from the library's
well-founded induction.

*The metering hosts:* `ThrottleAlwaysOnPace` (`PaceIsKept`, `QuantumOncePerTic`, `ReportCovers`) and `BudgetAlwaysExact`
(`HookTypeCorrect`, `OverrunsOnly`, `OverrunsCaught`), for every
clock resolution, delay, budget, count, cost and pause, from a clock that has left its first quantum (a start of
zero means "not taken" to the code). The invariant relates the clock's reading to the debt at each program point:
in the spin the deadline is worth the lines, after it the clock is. Waiting is bounded because a spin step needs a
reading below the deadline, and a reading is less than a quantum behind real time. The budget's half needs that the
instructions past the budget are at most those since the last count event.

**ReplayProofs.** *Replay:* `ReplayIsSound` and `BufferIsTheState`, for every cart, number of frames, save frame, shake,
queue size, schedule of voice ends, first NaN and contents of an uninitialised stack. No reference run is computed: two
processes are *alike* when they are equal once their NaNs are canonical, and each program's frame takes alike processes
to alike ones (`FrameAlike`, one lemma per cart). The invariant `ReplayInv` says that each history is a chain of one and
the same step, that they start from one seed, and that the buffer is the tracked part of the save program's last state;
a resumed process is alike the saved one because what is *not* tracked is either set again by the load program's first
lines or not read before it is written. Where two histories overlap they are then equal.

*The queue:* `QueueIsSound`, for every set of handles, from `CartVoices <= PendingMax`: the cart keeps no more voices than
the queue has places. The console has 64 voices and 8 places, so this is a condition on carts, and the table in
section 6 shows what happens without it. The invariant counts: pending ends name distinct voices, all of them in the
view and none of them audible, so there are at most as many as voices.

*The allocating cart:* `AllocIsSound`, for every save point, growth rule and chunk, with kills anywhere. The invariant says
which of a file's words are a save's at each length, that only a whole file is believed, and that the vector holds
exactly the multiples grown so far (`Pushed`), which is what makes the loop of `on_load` end where the straight run was.

**DapDebugProofs.** `StopsAreDisciplined`, `StepsEndWhereAsked` and `AckedLinesStop`, for every number of lines, table
size, call depth, frames, events and requests, for a client that waits for each answer as `host/dap_test.js` does
(`~Pipelines`; with it the first is false, section 6). The invariant has one part per idea. `OneRequest`: a request is on its way,
being handled or answered, and then no other exists. `Flight`: a request that resumes or walks is sent, read and handled
while the cart sits in one and the same pause loop. `Belief`: what the client believes is what the cart does, up to the
one stop or continue still in the socket. `StepAsked`: the step in force has the depth of the stop it was asked at. `Acked`:
the table holds what the last answer verified. None is inductive alone: that a walk meets a stopped cart needs the
belief, the belief needs the order of the socket, and the order needs that only one request exists.

**DevToolsProofs.** *Hot reload:* `EditsKeepState` and `DescribedEditsAreAccepted`, for every chain of builds with well-formed layouts, every
number of frames and every scratch buffer. Both are about sessions that give a build a snapshot it describes
(`~AnySnapshot`; section 6 shows the others), the second about builds linked with the migrating driver. The code moves
words, ADR-0045 speaks of numbers; the lemmas cross over once each, for a write (`WrittenReads`), for the walk
(`MigratedReads`, from `FieldReads` for one field) and for a zeroed region (`BlankRegion`). The invariant `ReloadInv` is then
that the running region, and the one in the snapshot, have their layout's size and read the numbers in `truth`. The
snapshot's half is needed because a reload reads nothing else. An undescribed edit is offered a shorter snapshot only, and
`OfferedAndLoaded` shows that the size gate refuses it.

*The GDB stub:* `StubIsSound`, for every cart, breakpoint table, mix of requests and number of sessions, packets and unread
bytes. That the CPU parked at a breakpoint and the GDB that continued it do not wait for each other (`NoStandoff`) is
a statement about one moment; what makes it true is where the continue is at every moment before. `Answered`: a continue
GDB waits on is still on its way, or is being handled, or has cleared `halted`, or the stop that set `halted` again is on
its way back. It needs that the bytes on the wire are a sequence of acks and packets (`Framed`), whole ones as long as no
thread took a byte of one (`Whole`), and that nothing is read before `accept` (`Unread`). Both threads take acks from
the same stream, so each action's lemma says what the head and the tail of the wire are after it.

### What is only model-checked

Liveness under fairness and `ENABLED` are out of this prover's reach: `EndReachesTheCart`, `RunsComplete`, `ResumeIsNotLost`,
`DetachFreesTheCpu`, both `ShutdownEnds`, `BindingEnds`. So are operators declared RECURSIVE, and with them the library
routines (`LibraryAsSpecified`) and the flattening (`FlattenSound`), whose loops are written that way.

Induction over data is *not* out of reach where the recursion is a function: the library's induction rule takes a
predicate, which the provers cannot instantiate, but a set of counterexamples has a least element (`LeastNat`, from
`WFMin`), and that is enough. The rewind's reference run and the filter interpreter are proved about in this way.

Of `ReportsMeanWhatTheySay` the launchers' half is proved (`ReportIsSound`); the scripts'
half (`PassMeansProbesReached`, `VerdictMeansKernel`, `SupportedKernelPasses`) is about the 23 fixed cases of five fixed
scripts, which TLC runs to the end on every kernel.

## 5. Mutants

Each property of each passing run, and nearly every part of a conjunction, has a mutated definition under which TLC
must find the property violated: a missing guard in `Recorded`, statics that survive a boot, a step predicate that
ignores the depth, a batch size without the correction term, a fast path that compares sizes only.
They show that no property holds by the shape of its model.

## 6. Where the code and the writing about it part

The models show places where the code departs from what is written about it. They are
kept out of the passing runs by a constant or by leaving out a property that is stated in the
module; the table says what to change in the cfg of the passing run, with the named property as
the only one, to see TLC's counterexample.

| Change | Property | What the code does |
|---|---|---|
| `MCDapDebug.cfg`: `Lines = {1}`, `MaxEvents = 2` | `CartRunsALiveState` | The debugger thread closes the Lua state that the cart thread runs or is paused in; dap_server.c:458 says "Queue the reload for the cart thread to execute. Sequencing is critical". |
| `MCGdbStub.cfg`: `MaxSessions = 1` | `ResumeWakesTheCpu` | Both threads of the stub read acknowledgements from one socket; one takes the other's, the other then takes a byte of the next packet, and a continue is lost (gdb_stub.h:11). |
| `MCPersistentScripts.cfg`: `DenseSaves = FALSE` | `RestoredWhereItWas` | Slots are handed out again in creation order after a load, so a free slot below a used one moves a script and gives its context away; blyt32_coroutine.lua:21 says "Slot indices are stable across save/restore." |
| `MCSaveState.cfg`: no constant | `RefusalTouchesNothing` | A region that refuses its block leaves itself and all earlier regions overwritten; save_state.h:52 promises no partial mutation. |
| `MCVoiceEndQueue.cfg`: `CartVoices = 4` | `ViewFollowsMixer` | An end that meets a full queue is dropped, and its voice plays for ever in the view; ADR-0106 knows no limit. |
| `MCDapDebug.cfg`: no constant | `LoadedSourceMeansPrepared` | A reload that failed is answered with success and announced as loaded (dap_server.c:413 says otherwise). |
| `MCDapDebug.cfg`: no constant | `DisconnectFreesTheCart` | The pause loop's entry erases a disconnect that was handled after the decision to stop; the cart stays paused without a client. |
| `MCDapDebug.cfg`: `Budget = 3` | `BudgetChargesOnlyWork` | Time at a breakpoint is charged to the call's budget. |
| `MCDapDebug.cfg`: `Pipelines = TRUE` | `WalkOnlyWhileStopped` | A stack trace requested right behind a continue walks a running Lua state. |
| `MCGdbStub.cfg`: no constant | `NoImmediateResponse` | A continue is answered at once with an empty packet, against the comment at gdb_stub.c:288. |
| `MCHotReload.cfg`: `Builds <- NativeBuilds`, `AnySnapshot = TRUE` | `StateSurvivesTheEdit` | A snapshot two edits old and of the same size is migrated with the wrong layout. |
| `MCHotReload.cfg`: no constant | `MigrationRefusalTouchesNothing` | A refused migration leaves frame_state overwritten; save_state_n.h:55 calls the load atomic. |
| `MCHotReload.cfg`: `Builds <- ForgottenBuilds`, `AnySnapshot = TRUE` | `UndescribedResizeIsRefused` | The size test at save_state_n.c:159 compares a size with itself. |
| `MCHotReload.cfg`: `Builds <- LuaBuilds` | `DescribedEditIsAccepted` | The Lua edits are linked with a driver that never migrates. |
| `MCRetroCore.cfg`: no constant | `EveryEndIsReported` | Voice ends are stepped over while A is held and the frame advances by two. |
| `MCRetroCore.cfg`: no constant | `PendingIsApplied` | No code takes pending voice ends out of the queue. |
| `MCStubPacker.cfg`: `NeverWrittenBack = FALSE` | `DoneMeansBuilt` | An edit that reaches the compiler but not the hash, and is then undone, is reported as built. |

### Observations from reading, without a property

Met while translating; each is in the model as the code has it, or lies in a part the model leaves out and says so.

* Lua runtime: the comment above the heap speaks of an 8-byte header, the code uses 4. `%.5d` of 1 prints `001`: the
  precision loop of `emit_int` stops early (`FormatMatchesC` is about precisions up to 3, and about the zero flag
  without a precision). `#x` puts its prefix before the padding. `%g` and `%e` print fixed notation. `strtof` accepts `-`,
  `.` and `1e`. `calloc`'s product wraps. A precision above the conversion buffer's size overruns it.
* Filters: `build_riscv32_only_filter` documents 4 + 2n instructions and emits 5 + 2n. The second phase's list has `write` but not
  `writev`, so a cart that prints through `fprintf` is killed; the comment of `install_phase2` says `write` where the call is
  `writev`. The comment of Test F has the two jump offsets the other way round.
* Launchers: the path of `--cgroup` is resolved after `pivot_root`; `--rootfs` with `--no-mountns` pivots without a private
  mount namespace; the parent's special case for SIGSYS repeats the general one. The `execve` probe of spike-h ends with 159
  because the shell it starts is killed, and Test B and stage 2 of spike-r also pass when the launch dies in start-up, so
  `PassMeansProbesReached` is stated for spikes h and s only. A comment in spike-r calls `uname` allowed where the test expects
  159. A missing cart is skipped without a failure.
* Loaders: a library beyond `LIB_MAX` is loaded but not registered, and a cycle through it would not end; names of 64 or more
  characters are cut and never found; `rv_create` ignores the loader's failure. The single loader maps every library at one
  address. The comment "recurse into DT_NEEDED deps first" stands above code that maps first.
* Trampolines: the registry has 32 places, the function table 16, so a seventeenth function is registered as null; a module
  whose exports are not contiguous loses its earlier run; the sentinel is armed per process, not per emulator; `call_fn` always
  returns 0 although its comment has a 1; a failing `lua_pcall` leaves its message on the Lua stack every frame. Out-of-range
  sums saturate in the Rust cart and are undefined in the C one.
* Allocating cart: a restored run with a writable directory rewrites the very file it came from; a kill inside a save loses the
  previous one; `blyt_test_save_now` ignores the result of the write; the saved frame number is never read.
* Hook hosts: a start of zero means "not taken", so in the clock's first quantum every line would take it again (the
  assumption on `Epochs`). A host stopped by its budget ends, it does not go on with the next tic.
* Harnesses: the edit driver's racy mode counts a closed connection as a pass; the sweep script compares two missing digests as
  equal. Neither is modelled.

## 7. Plan

Done, in this order: save state, voice queue, replay, debuggers, migration, scripts, libretro, packer; then flattening, Lua
runtime, launchers and filters, loaders and console, allocating cart, hook hosts. What remains in the repository keeps no state
a property could be about (section 8).

Proved, in this order: save state, scripts, libretro's counters, packer, heap, hosts; then replay, queue, allocating cart,
debugger, rewind, migration, filters; then the GDB stub, the launchers, the console runtime, the loaders and the two together.

Worth doing next:

1. `TableFlatten` and `LuaLibc` with recursive functions in place of RECURSIVE operators, where the reference is simple enough
   to be worth it (`memmove`, `qsort`, the division).

## 8. What is not modelled, and why

* Floating-point arithmetic, softfloat glue, benchmarks, transcendental routines of the Lua runtime: numbers, not control;
  out of TLC's reach.
* Pixels, palettes, tone phases and sample values: no property is about them. The tone phases are not
  saved by the facade, so a rewound tone restarts; the plan of spike-l says so.
* JSON and packet text, log lines, hexadecimal transport, usage texts: a message is what its handler reads of it.
* Transient coroutines: they are never saved.
* Web pages, workers, frontend drivers and reports: they drive programs and compare output. Of the guest scripts the stages
  that judge probes are modelled; provisioning, `derive_allowlist` and the size reports are not.
* The edit driver talks to a reload socket that no program of the repository serves.
* The console stub of spike-o echoes its arguments; its cart counts in one word, as spike-p's does.
* The frame statistics of the hook hosts: sums of printed numbers.
* The kernel, the client, GDB, the mixer, the frontend, the compiler, the editor and the Lua VM are external; their models
  allow what the code has to cope with.
