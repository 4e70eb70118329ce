---------------------------- MODULE LoadedConsole ----------------------------
(* The console on what the loader leaves.  libconsolelua.so is one of the    *)
(* libraries of the cart; it tests its weak reference cart_lua_modules by a  *)
(* GOT word the loader filled in, or did not.  The browser console and the   *)
(* call harness start the emulator without a library path, so without the    *)
(* loader.                                                                   *)
EXTENDS DynLoader, ConsoleLua

CONSTANTS
    ConsoleLib,     \* the soname of libconsolelua
    HookName,       \* cart_lua_modules
    Starts(_)       \* the worlds a console is started in

\* The GOT words a library tests the hook by.
HookEntries(obj) ==
    {k \in 1..Len(obj.relas) :
        /\ obj.relas[k].type \in {"GLOB_DAT", "32"}
        /\ obj.relas[k].sym = HookName /\ obj.relas[k].add = 0}

\* libconsolelua refers to the hook; only a cart defines it.
ASSUME ConsoleWorldAssumption ==
    /\ HookName # ""
    /\ \A w \in Worlds : Starts(w) =>
          /\ ConsoleLib \in DOMAIN w.files /\ HookEntries(w.files[ConsoleLib]) # {}
          /\ \A l \in DOMAIN w.files :
                HookName \in DOMAIN w.files[l].syms =>
                    w.files[l].syms[HookName].und /\ w.files[l].syms[HookName].bind # "local"

\* Where the library lies.
ConsoleAt == CHOOSE i \in 1..Len(mapped) : mapped[i].name = ConsoleLib

HookWord ==
    LET obj == world.files[ConsoleLib]
    IN  mapped[ConsoleAt].base + obj.relas[CHOOSE k \in HookEntries(obj) : TRUE].off

\* if (cart_lua_modules)
Hook == host = "rv32" /\ mem[HookWord] # 0

\* Elsewhere the loader has nothing to do.
BindingInit ==
    /\ LoaderInit /\ ConsoleInit
    /\ host # "rv32" => ~world.cart.dynamic /\ loader = "i"

LoaderStep == host = "rv32" /\ LoaderNext /\ UNCHANGED consoleVars

\* The library's code runs where the loader has mapped it and come to its end.
\* rv_create goes on after a failed load too; no slot is filled in then, and the
\* cart's first call leaves the program.
CanRun ==
    /\ Finished
    /\ loader = "i" /\ Starts(world)
    /\ \E i \in 1..Len(mapped) : mapped[i].name = ConsoleLib

ConsoleStep ==
    /\ host = "rv32" => CanRun
    /\ ConsoleNext(Hook)
    /\ UNCHANGED loaderVars

BindingNext == LoaderStep \/ ConsoleStep

\* Loader and console are one thread of straight-line code.
BindingSpec ==
    /\ BindingInit /\ [][BindingNext]_<<loaderVars, consoleVars>>
    /\ WF_<<loaderVars, consoleVars>>(BindingNext)

--------------------------------------------------------------------------
(* Properties *)

\* The weak reference is called exactly when the cart defines it, so a script
\* finds its module exactly then: not through an undefined name's leftover
\* address, and not missed because the library was mapped before the name was
\* known.
HookFollowsTheCart ==
    (host = "rv32" /\ at \notin {"boot", "hybrid", "modules"} /\ s_L /\ WithinDesign) =>
        (("mylib" \in preload) <=> Defines(world.cart, HookName))

\* Once started the console comes to its end, through failing chunks and calls.
ConsoleEnds ==
    (at # "boot") ~> (at \in {"ok", "crashed", "passed", "failed"})

\* Loading ends, and so does the console that starts on it.
BindingEnds == LoaderReturns /\ ConsoleEnds
=============================================================================
