----------------------------- MODULE ConsoleLua -----------------------------
(* The console runtime that runs a Lua cart whose modules are native code.   *)
(*                                                                           *)
(*   "rv32"     spike-i/lib/libconsole_rv32.c, libconsolelua_rv32.c and the  *)
(*              cart library spike-q/cases/rv32_binding: all guest code, the *)
(*              cart's functions are Lua C functions                         *)
(*   "wasm"     spike-q/cases/wasm_trampoline/libconsolelua_wasm_hybrid.c:   *)
(*              Lua on the host, the cart's functions inside rv32emu, called *)
(*              through rv32emu_call_fn (spike-q/patches/apply_call_fn.py)   *)
(*   "harness"  spike-q/.../harness/test_call_on_demand.c, the same call API *)
(*              without Lua                                                  *)
(*                                                                           *)
(* A Lua number, and a float in a register, is a count of halves.  An        *)
(* integer in a register is one of WORD values.  Time stamps of calls and     *)
(* everything printed are left out.                                          *)
EXTENDS Integers, Sequences, FiniteSets

CONSTANTS
    FRAMES,           \* iterations of fc_console_main (10)
    MAX_TRAMPOLINES,  \* entries of s_trampolines (32)
    TRAMP_FNS,        \* C functions s_tramp_fns really holds (16)
    WORD,             \* values of a register (2^32)
    MAX_CALLS,        \* calls a behaviour makes (a bound of the model)
    Carts,            \* the cart files examined
    NativeCarts,      \* those whose functions are linked into the console
    CallArgs          \* argument lists a script may pass

VARIABLES
    host,       \* "rv32", "wasm" or "harness"
    cart,       \* the cart file, and whether rv_create accepts it
    at,         \* where the runtime is
    running,    \* the script function at names is running
    frame,      \* i of fc_console_main
    s_L,        \* the Lua state exists
    defined,    \* the script functions that exist: init, update, draw
    preload,    \* registry._PRELOAD: module -> its loader is there
    loaded,     \* registry._LOADED: module -> name -> C function, by number
    s_trampolines,
    s_rv,       \* "none", "live", "deleted"
    s_sentinel_installed,
    stub,       \* the sentinel stub is in guest memory
    cpu,        \* [X, F, halt, guard]: a0.., fa0.., halt, fc32_in_call_fn
    call,       \* the call in progress
    answer,     \* history: the call answered last
    calls       \* calls made

consoleVars == <<host, cart, at, running, frame, s_L, defined, preload, loaded,
                 s_trampolines, s_rv, s_sentinel_installed, stub, cpu, call,
                 answer, calls>>

emuVars == <<s_rv, s_sentinel_installed, stub, cpu, call, answer, calls>>
luaVars == <<s_L, defined, preload, loaded, s_trampolines>>

Scripts == {"chunk", "init", "update", "draw"}
NoTable == [m \in {} |-> [n \in {} |-> 0]]
NoCall  == [on |-> FALSE, from |-> "", mod |-> "", name |-> "", args |-> << >>,
            retf |-> FALSE, addr |-> 0]
NoAnswer == [mod |-> "", name |-> "", args |-> << >>, res |-> 0, exited |-> FALSE]

--------------------------------------------------------------------------
(* Numbers *)

Word(v)   == v % WORD
Signed(w) == IF 2 * w >= WORD THEN w - WORD ELSE w

\* (int32_t)f: toward zero
Truncate(h) == IF h >= 0 THEN h \div 2 ELSE -((-h) \div 2)

\* A missing argument reads as 0, and so does a fraction read as an integer.
lua_tonumber(args, i)  == IF i <= Len(args) THEN args[i] ELSE 0
lua_tointeger(args, i) ==
    IF i <= Len(args) /\ args[i] % 2 = 0 THEN args[i] \div 2 ELSE 0

--------------------------------------------------------------------------
(* The cart's export table *)

SymAddr(c, name) == IF name \in DOMAIN c.symtab THEN c.symtab[name] ELSE 0
elf_sym_addr(name) == SymAddr(cart, name)

\* The symbol table overrides the placeholder of the section.
EntryAddress(c, e) == IF SymAddr(c, e.name) # 0 THEN SymAddr(c, e.name) ELSE e.sym_addr
ExportAddress(e) == EntryAddress(cart, e)

IsTerminator(e) == e.sym_addr = 0 /\ e.module = ""

\* Where the section's live entries stand: before the terminator, with an address.
LiveEntries ==
    {i \in 1..Len(cart.section) :
        /\ cart.section[i].sym_addr # 0
        /\ \A j \in 1..(i - 1) : ~IsTerminator(cart.section[j])}

\* The k-th of them.
LiveEntry(k) == CHOOSE i \in LiveEntries : Cardinality({j \in LiveEntries : j <= i}) = k

Resolved(e) == [e EXCEPT !.sym_addr = ExportAddress(e)]

\* The registry's size is not looked at.
ReadExports_unlimited ==
    [k \in 1..Cardinality(LiveEntries) |-> Resolved(cart.section[LiveEntry(k)])]

ReadExports ==
    LET live == Cardinality(LiveEntries)
    IN  [k \in 1..(IF live > MAX_TRAMPOLINES THEN MAX_TRAMPOLINES ELSE live) |->
            Resolved(cart.section[LiveEntry(k)])]

\* One table per run of equal module names; a later run of the same module
\* replaces the table of an earlier one, a later function of the same name
\* the earlier function.
ModuleTables(tr) ==
    [m \in {tr[i].module : i \in 1..Len(tr)} |->
        LET last == CHOOSE i \in 1..Len(tr) :
                       tr[i].module = m /\ \A j \in (i + 1)..Len(tr) : tr[j].module # m
            run  == {i \in 1..last : \A j \in i..last : tr[j].module = m}
        IN  [n \in {tr[i].name : i \in run} |->
                CHOOSE i \in run : tr[i].name = n /\
                                   \A j \in run : tr[j].name = n => j <= i]]

--------------------------------------------------------------------------
(* Calls into the emulator *)

\* One counter for both classes of registers.
PlaceArguments_one_counter(args) ==
    LET n == IF Len(args) < 6 THEN Len(args) ELSE 6
    IN  [X |-> [k \in 0..5 |-> IF k < n /\ ~args[k + 1].is_float
                               THEN args[k + 1].bits ELSE cpu.X[k]],
         F |-> [k \in 0..5 |-> IF k < n /\ args[k + 1].is_float
                               THEN args[k + 1].bits ELSE cpu.F[k]]]

\* The arguments that go to the r-th register of a class.
Placed(args, float, r) ==
    {k \in 1..(IF Len(args) < 6 THEN Len(args) ELSE 6) :
        /\ args[k].is_float = float
        /\ Cardinality({j \in 1..(k - 1) : args[j].is_float = float}) = r}

Register(args, float, r, old) ==
    IF Placed(args, float, r) = {} THEN old
    ELSE args[CHOOSE k \in Placed(args, float, r) : TRUE].bits

\* Integers to a0, a1, .., floats to fa0, fa1, ..; at most six arguments.
PlaceArguments(args) ==
    [X |-> [r \in 0..5 |-> Register(args, FALSE, r, cpu.X[r])],
     F |-> [r \in 0..5 |-> Register(args, TRUE, r, cpu.F[r])]]

\* Installed is noted before the write.
call_fn_setup_no_write == s_sentinel_installed' = TRUE /\ UNCHANGED stub

\* The address, 64 MiB, lies in the 256 MiB both callers give the guest, so the
\* write is made: memory_write refuses only an address past its end.
call_fn_setup ==
    IF s_sentinel_installed
    THEN UNCHANGED <<s_sentinel_installed, stub>>
    ELSE s_sentinel_installed' = TRUE /\ stub' = TRUE

\* The guard is left clear.
EnterCpu_unguarded(args) ==
    [X |-> PlaceArguments(args).X, F |-> PlaceArguments(args).F,
     halt |-> FALSE, guard |-> FALSE]

\* The halt of the call before is left standing.
EnterCpu_still_halted(args) ==
    [X |-> PlaceArguments(args).X, F |-> PlaceArguments(args).F,
     halt |-> cpu.halt, guard |-> TRUE]

EnterCpu(args) ==
    [X |-> PlaceArguments(args).X, F |-> PlaceArguments(args).F,
     halt |-> FALSE, guard |-> TRUE]

\* rv32emu_call_fn up to rv_run
call_fn(c, args) ==
    /\ call_fn_setup
    /\ cpu' = EnterCpu(args)
    /\ call' = c

\* The halt ends rv_run; the browser build destroys the emulator then, unless
\* the guard is up.
Halted == IF host = "wasm" /\ ~cpu.guard THEN "deleted" ELSE s_rv

\* The k-th argument of a guest function under the ilp32f convention.
Operand(f, k) ==
    LET before == {j \in 1..(k - 1) : f.args[j] = f.args[k]}
    IN  IF f.args[k] = "f32" THEN cpu.F[Cardinality(before)]
        ELSE Signed(cpu.X[Cardinality(before)])

\* What the cart's functions compute; "mix" weighs each argument by its place.
Compute(op, v) ==
    LET arg(k) == IF k <= Len(v) THEN v[k] ELSE 0
    IN  CASE op = "add" -> arg(1) + arg(2)
          [] op = "mul" -> arg(1) * arg(2)
          [] op = "mix" -> arg(1) + 2 * arg(2) + 3 * arg(3) + 4 * arg(4)

\* The function returns to the stub, whose ECALL halts the emulator.
GuestReturns ==
    /\ call.on /\ ~cpu.halt /\ s_rv = "live" /\ stub
    /\ call.addr \in DOMAIN cart.code /\ ~cart.code[call.addr].exits
    /\ LET f == cart.code[call.addr]
           v == Compute(f.op, [k \in 1..Len(f.args) |-> Operand(f, k)])
       IN  cpu' = IF f.ret = "f32" THEN [cpu EXCEPT !.F[0] = v, !.halt = TRUE]
                  ELSE [cpu EXCEPT !.X[0] = Word(v), !.halt = TRUE]
    /\ s_rv' = Halted
    /\ UNCHANGED <<host, cart, at, running, frame, luaVars, s_sentinel_installed, stub, call,
                   answer, calls>>

\* The function ends the program through the exit system call instead.
GuestExits ==
    /\ call.on /\ ~cpu.halt /\ s_rv = "live"
    /\ call.addr \in DOMAIN cart.code /\ cart.code[call.addr].exits
    /\ cpu' = [cpu EXCEPT !.X[0] = 0, !.halt = TRUE]
    /\ call' = [call EXCEPT !.from = "exit"]
    /\ s_rv' = Halted
    /\ UNCHANGED <<host, cart, at, running, frame, luaVars, s_sentinel_installed, stub,
                   answer, calls>>

\* What the caller makes of the result registers.
Pushed == IF call.retf THEN Truncate(cpu.F[0]) ELSE Signed(cpu.X[0])

\* rv32emu_call_fn after rv_run; its result is 0 however the run ended.
CallReturns ==
    /\ call.on /\ cpu.halt
    /\ cpu' = [cpu EXCEPT !.guard = FALSE]
    /\ answer' = [mod |-> call.mod, name |-> call.name, args |-> call.args,
                  exited |-> call.from = "exit",
                  res |-> IF host = "wasm" THEN Pushed
                          ELSE IF call.retf THEN cpu.F[0] ELSE cpu.X[0]]
    /\ call' = NoCall
    /\ at' = CASE host = "wasm" -> at
               [] at = "add32"  -> "addf"
               [] at = "addf"   -> "passed"
    /\ s_rv' = IF at = "addf" THEN "deleted" ELSE s_rv
    /\ UNCHANGED <<host, cart, running, frame, luaVars, s_sentinel_installed, stub, calls>>

--------------------------------------------------------------------------
(* The cart files *)

Types == {"f32", "i32"}

\* The entries a cart means to export, up to its terminator.
ExportsOf(c) ==
    {i \in 1..Len(c.section) :
        c.section[i].sym_addr # 0 /\ \A j \in 1..i : ~IsTerminator(c.section[j])}

Function(op, args, ret) == [op |-> op, args |-> args, ret |-> ret, exits |-> FALSE]

\* An entry describes the function it names, and a module has one function of
\* a name.
ExportsMatchCode(c) ==
    /\ \A i \in ExportsOf(c) :
          LET a == EntryAddress(c, c.section[i])
          IN  /\ a \in DOMAIN c.code
              /\ ~c.code[a].exits => /\ c.code[a].args = c.section[i].args
                                    /\ c.code[a].ret = c.section[i].ret
    /\ \A i, j \in ExportsOf(c) :
          (/\ c.section[i].module = c.section[j].module
           /\ c.section[i].name = c.section[j].name) =>
              EntryAddress(c, c.section[i]) = EntryAddress(c, c.section[j])

\* The address and the code of an exported function.
Names(c, m, n, a) ==
    \E i \in ExportsOf(c) : /\ c.section[i].module = m /\ c.section[i].name = n
                            /\ EntryAddress(c, c.section[i]) = a

ASSUME ConsoleAssumption ==
    /\ FRAMES \in Nat \ {0} /\ MAX_CALLS \in Nat
    /\ MAX_TRAMPOLINES \in Nat /\ TRAMP_FNS \in Nat
    /\ WORD \in Nat /\ WORD > 8
    /\ CallArgs \subseteq Seq(Int)

\* A symbol table holds no zero address (elf_sym_addr skips them), arg_types
\* has four places.
ASSUME CartFileAssumption ==
    \A c \in Carts :
        /\ c.section \in Seq([module : STRING, name : STRING, sym_addr : Nat,
                              args : Seq(Types), ret : Types])
        /\ \A i \in 1..Len(c.section) : Len(c.section[i].args) <= 4
        /\ \A n \in DOMAIN c.symtab : c.symtab[n] \in Nat \ {0}
        /\ \A a \in DOMAIN c.code :
              c.code[a] \in [op : {"add", "mul", "mix"}, args : Seq(Types),
                             ret : Types, exits : BOOLEAN]
        /\ ExportsMatchCode(c)

\* rv32_binding's library and the functions test_call_on_demand looks up.
ASSUME LibraryAssumption ==
    /\ NativeCarts \subseteq Carts
    /\ \A c \in NativeCarts :
          /\ \E a \in DOMAIN c.code :
                /\ Names(c, "mylib", "fast_add", a)
                /\ c.code[a] = Function("add", <<"f32", "f32">>, "f32")
          /\ \E a \in DOMAIN c.code :
                /\ Names(c, "mylib", "fast_mul", a)
                /\ c.code[a] = Function("mul", <<"i32", "i32">>, "i32")
    /\ \A c \in Carts :
          /\ "add32" \in DOMAIN c.symtab =>
                /\ c.symtab["add32"] \in DOMAIN c.code
                /\ c.code[c.symtab["add32"]] = Function("add", <<"i32", "i32">>, "i32")
          /\ "addf" \in DOMAIN c.symtab =>
                /\ c.symtab["addf"] \in DOMAIN c.code
                /\ c.code[c.symtab["addf"]] = Function("add", <<"f32", "f32">>, "f32")

--------------------------------------------------------------------------
(* Starting up *)

ConsoleInit ==
    /\ host \in {"rv32", "wasm", "harness"}
    /\ cart \in (IF host = "rv32" THEN NativeCarts ELSE Carts)
    /\ at = "boot" /\ running = FALSE /\ frame = 0
    /\ s_L = FALSE /\ defined = {}
    /\ preload = {} /\ loaded = NoTable /\ s_trampolines = << >>
    /\ s_rv = "none" /\ s_sentinel_installed = FALSE /\ stub = FALSE
    /\ cpu = [X |-> [k \in 0..5 |-> 0], F |-> [k \in 0..5 |-> 0],
              halt |-> FALSE, guard |-> FALSE]
    /\ call = NoCall /\ answer = NoAnswer /\ calls = 0

\* fc_console_main, fc_cart_init, ensure_state up to the cart's modules; without
\* a Lua state every later entry point returns at once.
ensure_state(made) ==
    /\ at = "boot" /\ host # "harness"
    /\ s_L' = made
    /\ at' = IF ~made THEN "update" ELSE IF host = "wasm" THEN "hybrid" ELSE "modules"
    /\ UNCHANGED <<host, cart, running, frame, defined, preload, loaded, s_trampolines, emuVars>>

\* blyt_hybrid_init: the file, the emulator, the section, the tables.
blyt_hybrid_init ==
    /\ at = "hybrid"
    /\ at' = "modules"
    /\ s_rv' = IF cart.readable /\ cart.creates THEN "live" ELSE "none"
    /\ IF s_rv' = "live" THEN call_fn_setup
       ELSE UNCHANGED <<s_sentinel_installed, stub>>
    /\ s_trampolines' = IF s_rv' = "live" /\ cart.hasSection THEN ReadExports ELSE << >>
    /\ loaded' = ModuleTables(s_trampolines')
    /\ UNCHANGED <<host, cart, running, frame, s_L, defined, preload, cpu, call, answer, calls>>

\* cart_lua_modules is a weak reference: hook says whether it was found.  The
\* browser build links no library that defines it.
CallModulesHook(hook) ==
    /\ at = "modules" /\ (hook => host = "rv32")
    /\ preload' = IF hook THEN {"mylib"} ELSE {}
    /\ at' = "load"
    /\ UNCHANGED <<host, cart, running, frame, s_L, defined, loaded, s_trampolines, emuVars>>

\* No bytecode, bytecode that does not load, or a chunk to run.
LoadChunk ==
    /\ at = "load"
    /\ \/ at' = "init" /\ UNCHANGED running
       \/ at' = "chunk" /\ running' = TRUE
    /\ UNCHANGED <<host, cart, frame, luaVars, emuVars>>

After(script) ==
    CASE script = "chunk"  -> "init"
      [] script = "init"   -> "update"
      [] script = "update" -> "draw"
      [] script = "draw"   -> IF frame + 1 < FRAMES THEN "update" ELSE "ok"

\* Control leaves the script function, or the entry point that had none to run.
Leave ==
    /\ at' = After(at)
    /\ running' = FALSE
    /\ frame' = IF at = "draw" THEN frame + 1 ELSE frame

\* fc_cart_init, fc_cart_update, fc_cart_draw
EnterScript ==
    /\ at \in {"init", "update", "draw"} /\ ~running
    /\ IF s_L /\ at \in defined
       THEN running' = TRUE /\ UNCHANGED <<at, frame>>
       ELSE Leave
    /\ UNCHANGED <<host, cart, luaVars, emuVars>>

\* The script function returns or raises an error, which lua_pcall catches.
\* The chunk has defined some of the entry points by then.
ScriptEnds ==
    /\ running /\ ~call.on
    /\ Leave
    /\ defined' \in IF at = "chunk" THEN SUBSET {"init", "update", "draw"} ELSE {defined}
    /\ UNCHANGED <<host, cart, s_L, preload, loaded, s_trampolines, emuVars>>

--------------------------------------------------------------------------
(* What a script does *)

luaopen_mylib == [fast_add |-> 1, fast_mul |-> 2]

\* _LOADED, then _PRELOAD, else an error ends the script.
l_require(m) ==
    /\ running /\ ~call.on
    /\ m \notin DOMAIN loaded
    /\ IF m \in preload
       THEN /\ loaded' = [k \in DOMAIN loaded \union {m} |->
                             IF k = m THEN luaopen_mylib ELSE loaded[k]]
            /\ UNCHANGED <<at, running, frame>>
       ELSE Leave /\ UNCHANGED loaded
    /\ UNCHANGED <<host, cart, s_L, defined, preload, s_trampolines, emuVars>>

\* lua_fast_add and lua_fast_mul: both in the guest, a Rust product wraps.
lua_fast(n, args) ==
    CASE n = "fast_add" -> Truncate(lua_tonumber(args, 1) + lua_tonumber(args, 2))
      [] n = "fast_mul" -> Signed(Word(lua_tointeger(args, 1) * lua_tointeger(args, 2)))

GuestLuaCall(m, n, args) ==
    /\ host = "rv32" /\ running /\ calls < MAX_CALLS
    /\ m \in DOMAIN loaded /\ n \in DOMAIN loaded[m]
    /\ answer' = [mod |-> m, name |-> n, args |-> args, exited |-> FALSE,
                  res |-> lua_fast(n, args)]
    /\ calls' = calls + 1
    /\ UNCHANGED <<host, cart, at, running, frame, luaVars, s_rv, s_sentinel_installed, stub,
                   cpu, call>>

\* The arguments as the entry's types read them from the Lua stack.
Marshal(types, args) ==
    [i \in 1..Len(types) |->
        IF types[i] = "f32" THEN [is_float |-> TRUE, bits |-> lua_tonumber(args, i)]
        ELSE [is_float |-> FALSE, bits |-> Word(lua_tointeger(args, i))]]

\* Past the end of s_tramp_fns the registered C function is null.
trampoline_call(m, n, args) ==
    /\ host = "wasm" /\ running /\ ~call.on /\ calls < MAX_CALLS
    /\ m \in DOMAIN loaded /\ n \in DOMAIN loaded[m]
    /\ calls' = calls + 1
    /\ IF loaded[m][n] > TRAMP_FNS
       THEN /\ at' = "crashed" /\ running' = FALSE
            /\ UNCHANGED <<s_sentinel_installed, stub, cpu, call>>
       ELSE LET tr == s_trampolines[loaded[m][n]]
            IN  /\ call_fn([on |-> TRUE, from |-> "lua", mod |-> m, name |-> n,
                            args |-> args, retf |-> tr.ret = "f32",
                            addr |-> tr.sym_addr],
                           Marshal(tr.args, args))
                /\ UNCHANGED <<at, running>>
    /\ UNCHANGED <<host, cart, frame, luaVars, s_rv, answer>>

--------------------------------------------------------------------------
(* test_call_on_demand *)

HarnessStart ==
    /\ at = "boot" /\ host = "harness"
    /\ IF /\ cart.readable /\ cart.creates
          /\ elf_sym_addr("add32") # 0 /\ elf_sym_addr("addf") # 0
       THEN at' = "add32" /\ s_rv' = "live" /\ call_fn_setup
       ELSE at' = "failed" /\ UNCHANGED <<s_rv, s_sentinel_installed, stub>>
    /\ UNCHANGED <<host, cart, running, frame, luaVars, cpu, call, answer, calls>>

\* add32(3, 4), then addf(1.0, 2.0)
HarnessCall ==
    /\ at \in {"add32", "addf"} /\ ~call.on
    /\ LET f  == at = "addf"
           hs == IF f THEN <<2, 4>> ELSE <<6, 8>>
       IN  call_fn([on |-> TRUE, from |-> "c", mod |-> "", name |-> at, args |-> hs,
                    retf |-> f, addr |-> elf_sym_addr(at)],
                   Marshal(IF f THEN <<"f32", "f32">> ELSE <<"i32", "i32">>, hs))
    /\ UNCHANGED <<host, cart, at, running, frame, luaVars, s_rv, answer, calls>>

--------------------------------------------------------------------------

ConsoleNext(hook) ==
    \/ \E made \in BOOLEAN : ensure_state(made)
    \/ blyt_hybrid_init
    \/ CallModulesHook(hook)
    \/ LoadChunk
    \/ EnterScript
    \/ ScriptEnds
    \/ \E m \in {"mylib", "other"} : l_require(m)
    \/ \E m \in DOMAIN loaded, args \in CallArgs :
         \E n \in DOMAIN loaded[m] : GuestLuaCall(m, n, args) \/ trampoline_call(m, n, args)
    \/ GuestReturns \/ GuestExits \/ CallReturns
    \/ HarnessStart \/ HarnessCall

\* The console on its own: the reference is found or it is not.
ConsoleSpec == ConsoleInit /\ [][\E hook \in BOOLEAN : ConsoleNext(hook)]_consoleVars

--------------------------------------------------------------------------
(* Properties *)

ConsoleTypeOK ==
    /\ host \in {"rv32", "wasm", "harness"}
    /\ running => at \in Scripts
    /\ frame \in 0..FRAMES /\ calls \in 0..MAX_CALLS
    /\ Len(s_trampolines) <= MAX_TRAMPOLINES
    /\ s_rv \in {"none", "live", "deleted"}
    /\ cpu.X \in [0..5 -> 0..(WORD - 1)]
    /\ defined \subseteq Scripts

Exports == ExportsOf(cart)

\* A cart the registry is made for: each module's entries stand together and
\* there is a C function for each.
WithinRegistry ==
    /\ Cardinality(Exports) <= TRAMP_FNS
    /\ \A i, j, k \in Exports :
          (i < j /\ j < k /\ cart.section[i].module = cart.section[k].module) =>
              cart.section[j].module = cart.section[i].module

\* What a function receives for the arguments its entry declares.
Received(f, args) ==
    [k \in 1..Len(f.args) |->
        IF f.args[k] = "f32" THEN lua_tonumber(args, k)
        ELSE Signed(Word(lua_tointeger(args, k)))]

\* What mod.name(args) means: the cart's own function of that name, applied to
\* the arguments its entry declares, as a Lua integer.
Meaning(m, n, args) ==
    LET f == cart.code[CHOOSE a \in DOMAIN cart.code : Names(cart, m, n, a)]
        v == Compute(f.op, Received(f, args))
    IN  IF f.ret = "f32" THEN Truncate(v) ELSE Signed(Word(v))

\* Every call a script makes is answered by the function it names, with its
\* arguments in their places and its result not a leftover of an earlier call,
\* the same on the guest-only console and in the browser.
CallsMeanTheExport ==
    (answer.name # "" /\ host # "harness" /\ ~answer.exited /\ WithinRegistry) =>
        answer.res = Meaning(answer.mod, answer.name, answer.args)

\* The C harness reads 7 and 3.0 when every call returned.
HarnessReadsTheSums ==
    (host = "harness" /\ ~answer.exited) =>
        /\ answer.name = "add32" => answer.res = 7
        /\ answer.name = "addf" => answer.res = 6

\* As long as a script can reach a trampoline there is an emulator behind it,
\* and no reachable trampoline is null.
TrampolinesAreBacked ==
    (host = "wasm" /\ WithinRegistry) =>
        /\ at # "crashed"
        /\ loaded # NoTable => s_rv = "live"

\* Whichever console runs the cart, a call from a script or from the harness
\* has a live function behind it and brings back that function's result.
CallsAnswered ==
    ConsoleTypeOK /\ CallsMeanTheExport /\ HarnessReadsTheSums /\ TrampolinesAreBacked
=============================================================================
