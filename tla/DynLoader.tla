------------------------------ MODULE DynLoader ------------------------------
(* fc32_dynload: the dynamic loaders patched into rv32emu, which map a       *)
(* cart's shared libraries into guest memory and fill in the words their     *)
(* relocations name.                                                         *)
(*                                                                           *)
(*   spike-i/patches/apply-multi-dynload.py   loader "i": libraries load     *)
(*       recursively, the relocations follow in a second pass                *)
(*   spike-c/patches/apply-dynamic-loader.py  loader "c": one library, no    *)
(*       recursion, relocated as soon as it is mapped                        *)
(*                                                                           *)
(* An object is [size, needed, syms, relas] (the cart also plt and dynamic); *)
(* a symbol is [value, und, bind] under its name; a relocation is            *)
(* [type, off, sym, add], sym = "" where the entry names none.  Reading the  *)
(* tables out of the ELF image is left out, which table is read is not.      *)
EXTENDS Integers, Sequences, FiniteSets

CONSTANTS
    Libs,         \* sonames
    LIB_MAX,      \* FC32_LIB_MAX (8): entries of the loaded-library registry
    SYM_MAX,      \* FC32_SYM_MAX (4096; 2048 in spike C)
    PAGE,         \* FC32_LIB_ALIGN (0x1000)
    LIB_LOAD_ADDR,\* FC32_LIB_LOAD_ADDR, above the cart
    MEM_SIZE,     \* guest memory
    MAX_LOADS,    \* libraries mapped in one behaviour (a bound of the model)
    Worlds        \* the carts and library directories examined

VARIABLES
    loader,     \* "i" or "c"
    world,      \* [cart, files]: files maps the sonames that exist to objects
    phase,      \* "start", "load", "relocate", "plt", "rela", "done"
    todo,       \* sonames still to load, in the order the recursion meets them
    registry,   \* fc32_loaded, fc32_loaded_base
    next_base,
    syms,       \* fc32_syms
    mem,        \* guest memory, a word per address
    next_rela,  \* the registry entry the second pass has reached
    ok,         \* fc32_dynload's result
    mapped,     \* history: every mapping made, in order
    relocated   \* history: the bases relocated, in order

loaderVars == <<loader, world, phase, todo, registry, next_base, syms, mem,
                next_rela, ok, mapped, relocated>>

Raw == 999      \* what a file holds in a word no relocation has filled in

--------------------------------------------------------------------------
(* The symbol table *)

sym_find(table, name) ==
    IF \E i \in 1..Len(table) : table[i].name = name
    THEN table[CHOOSE i \in 1..Len(table) :
                   /\ table[i].name = name
                   /\ \A j \in 1..(i - 1) : table[j].name # name].addr
    ELSE 0

\* The cart's own PLT stubs taken for definitions.
Exported_with_stubs(sym) == sym.value # 0 /\ sym.bind \in {"global", "weak"}

\* The symbols an object's .dynsym contributes; spike C does not leave out
\* undefined ones that carry a value.
Exported(sym) ==
    /\ loader = "i" => ~sym.und
    /\ sym.value # 0
    /\ sym.bind \in {"global", "weak"}

\* The names sym_add does not return early for: spike I keeps the first
\* definition; spike C appends, and finds the first.
NewNames(table, obj) ==
    {n \in DOMAIN obj.syms :
        /\ Exported(obj.syms[n])
        /\ loader = "i" => \A i \in 1..Len(table) : table[i].name # n}

\* The orders in which a .dynsym may list a set of names.
Orders(S) ==
    {f \in [1..Cardinality(S) -> S] : \A n \in S : \E k \in 1..Cardinality(S) : f[k] = n}

Entries(obj, base, order, count) ==
    [k \in 1..count |-> [name |-> order[k], addr |-> base + obj.syms[order[k]].value]]

\* The table's size is not looked at.
sym_add_unlimited(table, obj, base, order) ==
    table \o Entries(obj, base, order, Len(order))

\* Each name in turn, until the table is full.
sym_add(table, obj, base, order) ==
    LET room == SYM_MAX - Len(table)
    IN  table \o Entries(obj, base, order, IF Len(order) <= room THEN Len(order) ELSE room)

\* A later definition replaces an earlier one.
AddExports_last_wins(table, obj, base) ==
    LET kept == SelectSeq(table, LAMBDA s : s.name \notin NewNames(<< >>, obj))
    IN  {sym_add(kept, obj, base, order) : order \in Orders(NewNames(kept, obj))}

\* The tables that adding an object's exports can leave.
AddExports(table, obj, base) ==
    {sym_add(table, obj, base, order) : order \in Orders(NewNames(table, obj))}

--------------------------------------------------------------------------
(* Memory *)

\* What a relocation entry does: it writes a word, or nothing anywhere.
Writes(addr, val) == [addr |-> addr, val |-> val]
Nothing == Writes(-1, 0)

\* Memory after the effects in their order: the last write to a word stays.
Write(m, effects) ==
    [a \in DOMAIN m |->
        LET K == {k \in 1..Len(effects) : effects[k].addr = a}
        IN  IF K = {} THEN m[a]
            ELSE effects[CHOOSE k \in K : \A j \in K : j <= k].val]

\* PT_LOAD segments: the words the file holds.
MapAt(m, base, size) ==
    [a \in DOMAIN m |-> IF a \in base..(base + size - 1) THEN Raw ELSE m[a]]

\* The next library begins where this one ends.
AlignDown(top) == (top \div PAGE) * PAGE

Align(top) == ((top + PAGE - 1) \div PAGE) * PAGE

--------------------------------------------------------------------------
(* Relocation *)

\* A name nobody defines becomes the library's base.
LibSym_base(table, obj, base, name) ==
    IF sym_find(table, name) # 0 THEN sym_find(table, name)
    ELSE base + obj.syms[name].value

\* A symbol of a library: the global table, or its own value.
LibSym(table, obj, base, name) ==
    LET sv == sym_find(table, name)
    IN  IF sv # 0 THEN sv
        ELSE IF loader = "c" \/ obj.syms[name].value # 0
             THEN base + obj.syms[name].value
             ELSE 0

\* Left alone: a jump slot or GOT word without a symbol.
LibRela(table, obj, base, r) ==
    LET at == base + r.off
    IN  CASE r.type = "RELATIVE"  -> Writes(at, base + r.add)
          [] r.type = "32" /\ r.sym # "" ->
                 Writes(at, LibSym(table, obj, base, r.sym) + r.add)
          [] r.type = "32" /\ r.sym = "" ->
                 Writes(at, IF loader = "c" THEN base + r.add ELSE r.add)
          [] r.type = "JUMP_SLOT" /\ r.sym # "" ->
                 Writes(at, LibSym(table, obj, base, r.sym))
          [] r.type = "GLOB_DAT" /\ r.sym # "" ->
                 Writes(at, LibSym(table, obj, base, r.sym) + r.add)
          [] OTHER -> Nothing

apply_lib_rela(table, obj, base, m) ==
    Write(m, [k \in 1..Len(obj.relas) |-> LibRela(table, obj, base, obj.relas[k])])

\* DT_JMPREL of the cart: an unresolved entry is reported and left.
CartPltEntry(r) ==
    LET sa == sym_find(syms, r.sym)
    IN  IF r.type \in {"JUMP_SLOT", "GLOB_DAT"} /\ r.sym # "" /\ sa # 0
        THEN Writes(r.off, sa)
        ELSE Nothing

\* DT_RELA of the cart, which is linked at its run-time address.
CartRelaEntry(r) ==
    LET sa == IF r.sym = "" THEN 0 ELSE sym_find(syms, r.sym)
    IN  CASE r.type \in {"GLOB_DAT", "JUMP_SLOT"} ->
                 IF sa # 0 THEN Writes(r.off, sa + r.add) ELSE Nothing
          [] r.type = "32" ->
                 Writes(r.off,
                        r.add + (IF r.sym = "" THEN 0
                                 ELSE IF sa # 0 THEN sa
                                      ELSE world.cart.syms[r.sym].value))
          [] r.type = "RELATIVE" -> Writes(r.off, r.add)
          [] OTHER -> Nothing

--------------------------------------------------------------------------
(* The object files *)

Members(seq) == {seq[i] : i \in 1..Len(seq)}

Symbol == [value : Nat, und : BOOLEAN, bind : {"global", "weak", "local"}]
Relocation == [type : STRING, off : Nat, sym : STRING, add : Int]

\* A symbol has an address when it is defined; the linker relocates a word
\* inside the object once, by a symbol the object lists.
IsObject(obj, relas) ==
    /\ obj.size \in Nat /\ obj.needed \in Seq(Libs)
    /\ IsFiniteSet(DOMAIN obj.syms) /\ DOMAIN obj.syms \subseteq STRING
    /\ \A n \in DOMAIN obj.syms :
          obj.syms[n] \in Symbol /\ (~obj.syms[n].und => obj.syms[n].value # 0)
    /\ relas \in Seq(Relocation)
    /\ \A k \in 1..Len(relas) :
          /\ relas[k].off < obj.size
          /\ relas[k].sym # "" => relas[k].sym \in DOMAIN obj.syms
          /\ relas[k].type = "JUMP_SLOT" => relas[k].sym # ""
          /\ \A j \in 1..Len(relas) : relas[j].off = relas[k].off => j = k

ASSUME LoaderAssumption ==
    /\ LIB_MAX \in Nat \ {0} /\ SYM_MAX \in Nat /\ PAGE \in Nat \ {0}
    /\ LIB_LOAD_ADDR \in Nat /\ LIB_LOAD_ADDR % PAGE = 0
    /\ MEM_SIZE \in Nat /\ LIB_LOAD_ADDR <= MEM_SIZE
    /\ IsFiniteSet(Libs)

\* The cart lies below the libraries and needs none of them twice; its PLT
\* holds jump slots.  An undefined symbol of a library has no address, only
\* the cart's stubs have.
ASSUME WorldAssumption ==
    \A w \in Worlds :
        /\ w.cart.dynamic \in BOOLEAN
        /\ IsObject(w.cart, w.cart.plt \o w.cart.relas)
        /\ w.cart.plt \in Seq(Relocation) /\ w.cart.relas \in Seq(Relocation)
        /\ w.cart.size <= LIB_LOAD_ADDR
        /\ \A i, j \in 1..Len(w.cart.needed) : w.cart.needed[i] = w.cart.needed[j] => i = j
        /\ \A k \in 1..Len(w.cart.plt) : w.cart.plt[k].type = "JUMP_SLOT"
        /\ DOMAIN w.files \subseteq Libs
        /\ \A l \in DOMAIN w.files :
              /\ IsObject(w.files[l], w.files[l].relas)
              /\ w.files[l].size > 0
              /\ \A n \in DOMAIN w.files[l].syms :
                    w.files[l].syms[n].und => w.files[l].syms[n].value = 0

--------------------------------------------------------------------------
(* fc32_dynload *)

LoaderInit ==
    /\ loader \in {"i", "c"}
    /\ world \in Worlds
    /\ phase = "start"
    /\ todo = << >> /\ registry = << >> /\ syms = << >>
    /\ next_base = LIB_LOAD_ADDR
    /\ mem = MapAt([a \in 0..(MEM_SIZE - 1) |-> 0], 0, world.cart.size)
    /\ next_rela = 1
    /\ ok = TRUE
    /\ mapped = << >> /\ relocated = << >>

\* A cart without PT_DYNAMIC is static: nothing to do.
Static ==
    /\ phase = "start" /\ ~world.cart.dynamic
    /\ phase' = "done"
    /\ UNCHANGED <<loader, world, todo, registry, next_base, syms, mem,
                   next_rela, ok, mapped, relocated>>

\* Steps 1 and 2: the cart's exports (spike I), the names it needs.
Begin ==
    /\ phase = "start" /\ world.cart.dynamic
    /\ syms' \in IF loader = "i" THEN AddExports(<< >>, world.cart, 0) ELSE {<< >>}
    /\ todo' = SubSeq(world.cart.needed, 1,
                      IF loader = "i" /\ Len(world.cart.needed) > LIB_MAX
                      THEN LIB_MAX ELSE Len(world.cart.needed))
    /\ phase' = "load"
    /\ UNCHANGED <<loader, world, registry, next_base, mem, next_rela, ok,
                   mapped, relocated>>

lib_loaded(soname) ==
    loader = "i" /\ \E i \in 1..Len(registry) : registry[i].name = soname

\* The library is only remembered once its own needs are met, which a cycle
\* never are.
lib_register_after(soname, base) == registry

lib_register(soname, base) ==
    IF Len(registry) >= LIB_MAX
    THEN registry
    ELSE Append(registry, [name |-> soname, base |-> base])

AlreadyLoaded ==
    /\ phase = "load" /\ todo # << >> /\ lib_loaded(Head(todo))
    /\ todo' = Tail(todo)
    /\ UNCHANGED <<loader, world, phase, registry, next_base, syms, mem,
                   next_rela, ok, mapped, relocated>>

\* fopen, malloc or fread fails: every level of the recursion returns false.
\* rv_create does not look at the result.
CannotLoad ==
    /\ phase = "load" /\ todo # << >> /\ ~lib_loaded(Head(todo))
    /\ Head(todo) \notin DOMAIN world.files
    /\ ok' = FALSE
    /\ phase' = "done"
    /\ UNCHANGED <<loader, world, todo, registry, next_base, syms, mem,
                   next_rela, mapped, relocated>>

\* Register, map, add the exports, go on with what the library needs itself.
load_lib ==
    LET soname == Head(todo)
        obj    == world.files[soname]
    IN  /\ phase = "load" /\ todo # << >> /\ ~lib_loaded(soname)
        /\ loader = "i"
        /\ soname \in DOMAIN world.files
        /\ Len(mapped) < MAX_LOADS
        /\ registry' = lib_register(soname, next_base)
        /\ mem' = MapAt(mem, next_base, obj.size)
        /\ mapped' = Append(mapped, [name |-> soname, base |-> next_base,
                                     top |-> next_base + obj.size])
        /\ next_base' = Align(next_base + obj.size)
        /\ syms' \in AddExports(syms, obj, next_base)
        /\ todo' = obj.needed \o Tail(todo)
        /\ UNCHANGED <<loader, world, phase, next_rela, ok, relocated>>

\* Spike C: every library at the same base, relocated at once.
load_single ==
    LET soname == Head(todo)
        obj    == world.files[soname]
    IN  /\ phase = "load" /\ todo # << >>
        /\ loader = "c"
        /\ soname \in DOMAIN world.files
        /\ syms' \in AddExports(syms, obj, LIB_LOAD_ADDR)
        /\ mem' = apply_lib_rela(syms', obj, LIB_LOAD_ADDR,
                                 MapAt(mem, LIB_LOAD_ADDR, obj.size))
        /\ mapped' = Append(mapped, [name |-> soname, base |-> LIB_LOAD_ADDR,
                                     top |-> LIB_LOAD_ADDR + obj.size])
        /\ relocated' = Append(relocated, LIB_LOAD_ADDR)
        /\ todo' = Tail(todo)
        /\ UNCHANGED <<loader, world, phase, registry, next_base, next_rela, ok>>

AllLoaded ==
    /\ phase = "load" /\ todo = << >>
    /\ phase' = IF loader = "i" THEN "relocate" ELSE "plt"
    /\ UNCHANGED <<loader, world, todo, registry, next_base, syms, mem,
                   next_rela, ok, mapped, relocated>>

\* Step 2b, one library of the registry at a time.
relocate_libs ==
    /\ phase = "relocate"
    /\ IF next_rela <= Len(registry)
       THEN LET lib == registry[next_rela]
            IN  /\ mem' = apply_lib_rela(syms, world.files[lib.name], lib.base, mem)
                /\ relocated' = Append(relocated, lib.base)
                /\ next_rela' = next_rela + 1
                /\ UNCHANGED phase
       ELSE phase' = "plt" /\ UNCHANGED <<mem, relocated, next_rela>>
    /\ UNCHANGED <<loader, world, todo, registry, next_base, syms, ok, mapped>>

\* Step 3
CartPlt ==
    /\ phase = "plt"
    /\ mem' = Write(mem, [k \in 1..Len(world.cart.plt) |-> CartPltEntry(world.cart.plt[k])])
    /\ phase' = "rela"
    /\ UNCHANGED <<loader, world, todo, registry, next_base, syms, next_rela,
                   ok, mapped, relocated>>

\* Step 4
CartRela ==
    /\ phase = "rela"
    /\ mem' = Write(mem, [k \in 1..Len(world.cart.relas) |-> CartRelaEntry(world.cart.relas[k])])
    /\ phase' = "done"
    /\ UNCHANGED <<loader, world, todo, registry, next_base, syms, next_rela,
                   ok, mapped, relocated>>

LoaderNext ==
    \/ Static \/ Begin
    \/ AlreadyLoaded \/ CannotLoad \/ load_lib \/ load_single \/ AllLoaded
    \/ relocate_libs \/ CartPlt \/ CartRela

\* The loader is straight-line code on the host: it keeps running.
LoaderSpec == LoaderInit /\ [][LoaderNext]_loaderVars /\ WF_loaderVars(LoaderNext)

--------------------------------------------------------------------------
(* Properties *)

LoaderTypeOK ==
    /\ loader \in {"i", "c"}
    /\ phase \in {"start", "load", "relocate", "plt", "rela", "done"}
    /\ Len(registry) <= LIB_MAX
    /\ Len(syms) <= SYM_MAX
    /\ next_base % PAGE = 0
    /\ ok \in BOOLEAN

Finished == phase = "done" /\ ok /\ world.cart.dynamic

Closed(S) == \A l \in S \cap DOMAIN world.files : Members(world.files[l].needed) \subseteq S

\* The libraries the cart needs, directly or through others.
Reachable ==
    {l \in Libs : \A S \in SUBSET Libs :
        (Members(world.cart.needed) \subseteq S /\ Closed(S)) => l \in S}

\* Every name they, and for loader I the cart, add to the symbol table.
ExportedNames ==
    (IF loader = "i" THEN NewNames(<< >>, world.cart) ELSE {})
    \union UNION {NewNames(<< >>, world.files[l]) : l \in Reachable \cap DOMAIN world.files}

\* What loader I promises: what it needs fits its registry and its tables.
\* Loader C is written for one library that needs no other.
WithinTables ==
    /\ IF loader = "i" THEN Cardinality(Reachable) <= LIB_MAX
       ELSE Len(world.cart.needed) = 1 /\ Cardinality(Reachable) = 1
    /\ Cardinality(ExportedNames) <= SYM_MAX

\* Neither looks at the end of guest memory.
WithinDesign == WithinTables /\ \A i \in 1..Len(mapped) : mapped[i].top <= MEM_SIZE

Defines(obj, name) ==
    name \in DOMAIN obj.syms /\ ~obj.syms[name].und /\ obj.syms[name].bind # "local"

Definers(ms, name) == {i \in 1..Len(ms) : Defines(world.files[ms[i].name], name)}

\* The address a name stands for with the libraries ms mapped: the cart's
\* definition (loader I), else the definition of the library mapped first.
DefinitionIn(ms, name) ==
    LET D == Definers(ms, name)
        first == CHOOSE i \in D : \A j \in D : ms[i].base <= ms[j].base
    IN  IF loader = "i" /\ Defines(world.cart, name) THEN world.cart.syms[name].value
        ELSE IF D = {} THEN 0
             ELSE ms[first].base + world.files[ms[first].name].syms[name].value

Definition(name) == DefinitionIn(mapped, name)

CartSlotsHold ==
    \A k \in 1..Len(world.cart.plt) :
        LET r == world.cart.plt[k]
        IN  mem[r.off] = IF Definition(r.sym) # 0 THEN Definition(r.sym) ELSE Raw

\* A word of a library that stands for a symbol: a jump slot, or a GOT word,
\* which weak references are tested by.
SymbolWord(r) == r.sym # "" /\ r.type \in {"JUMP_SLOT", "GLOB_DAT", "32"}

StandsFor(r, addr) == IF r.type = "JUMP_SLOT" THEN addr ELSE addr + r.add

LibrarySlotsHold(i) ==
    LET obj == world.files[mapped[i].name]
    IN  \A k \in 1..Len(obj.relas) :
           LET r  == obj.relas[k]
               at == mapped[i].base + r.off
           IN  /\ r.type = "RELATIVE" => mem[at] = mapped[i].base + r.add
               /\ (SymbolWord(r) /\ obj.syms[r.sym].bind # "local"
                   /\ (loader = "i" \/ Definition(r.sym) # 0)) =>
                      mem[at] = StandsFor(r, Definition(r.sym))

\* When the loader returns, every slot holds the one definition its name
\* has in the whole program, whichever library was mapped first and however
\* the libraries need each other: a call from the cart never lands in the
\* cart's own stub, a library's reference finds a later library or the cart,
\* and nothing mapped later overwrites a slot.  A name nobody defines is zero
\* in a library and left alone in the cart.
SlotsHoldTheDefinition ==
    (Finished /\ WithinDesign) =>
        CartSlotsHold /\ \A i \in 1..Len(mapped) : LibrarySlotsHold(i)

\* No two libraries share a word of guest memory, and none reaches into the
\* cart.
LibrariesDoNotOverlap ==
    WithinDesign =>
        /\ \A i, j \in 1..Len(mapped) :
              i # j => \/ mapped[i].top <= mapped[j].base
                       \/ mapped[j].top <= mapped[i].base
        /\ \A i \in 1..Len(mapped) : mapped[i].base >= world.cart.size

\* Every library the cart needs is mapped once and relocated once, also when
\* libraries need each other in a circle or a library is needed twice.
EachLibraryOnce ==
    (Finished /\ WithinDesign) =>
        /\ {mapped[i].name : i \in 1..Len(mapped)} = Reachable
        /\ Len(mapped) = Cardinality(Reachable)
        /\ relocated = [i \in 1..Len(mapped) |-> mapped[i].base]

\* What a loaded program stands on: every library in memory of its own, once,
\* and every slot with the definition of its name.
LoaderSound ==
    LoaderTypeOK /\ SlotsHoldTheDefinition /\ LibrariesDoNotOverlap /\ EachLibraryOnce

\* Once begun, loading ends, circular needs or not.
LoaderReturns == (phase # "start" /\ WithinDesign) ~> (phase = "done")
=============================================================================
