---------------------------- MODULE MCLuaRuntime ----------------------------
(***************************************************************************)
(* The freestanding Lua runtime: the VM's use of the heap, and, before the *)
(* heap is touched, every library call on its own.  Apart from both, the   *)
(* hosts that meter Lua with a hook, one after the other, and the          *)
(* persistent scripts with the flattening of their ctx.                    *)
(***************************************************************************)
EXTENDS MCPersistentScripts, LuaHeap, LuaLibc, HookHosts

CONSTANTS o1, o2, o3, v1, v2

MCStrings ==
    {<<>>} \cup SeqOf({48, 49, 120}, 3) \cup
    {<<45, 48, 120, 49>>, <<45, 56>>, <<9, 32, 43, 49, 55>>, <<48, 88, 102, 70>>,
     <<49, 48, 49, 48, 49>>, <<48, 49, 48, 49>>}

MCArrays ==
    {[i \in 1..n |-> [key |-> k[i], id |-> i]] :
        <<n, k>> \in {<<n, k>> \in (0..4) \X [1..4 -> 0..2] :
                        \A i \in 1..4 : i > n => k[i] = 0}}

MCFormats ==
    [conv : {"d", "u", "x", "X", "o", "p", "c", "s"}, width : {0, 4}, prec : {-1, 0, 2, 3},
     zero : BOOLEAN, left : BOOLEAN, plus : BOOLEAN, space : BOOLEAN, hash : BOOLEAN]

MCFormatsUsed ==
    {f \in MCFormats : /\ f.conv # "d" => ~f.plus /\ ~f.space
                       /\ f.hash => f.conv \in {"x", "X"}
                       /\ f.conv = "p" => f.width = 0 /\ f.prec < 0 /\ ~f.zero /\ ~f.left}

Symmetry == Permutations(Objs) \cup Permutations(Values)

\* One state of each part, in which the others run.
HeapAtRest == Init /\ call = NoCall
HostAtRest == mpc = "boot" /\ meter = "debt" /\ now = QUANTUM
ScriptsAtRest == MCScriptInit

heapVars == <<vars, call>>

MCInit == Init /\ call = NoCall /\ HookInit /\ MCScriptInit

HeapMoves ==
  /\ HostAtRest /\ ScriptsAtRest /\ UNCHANGED <<hookVars, MCScriptVars>>
  /\ \/ HeapAtRest /\ Call /\ UNCHANGED vars
     \/ call # NoCall /\ call' = NoCall /\ UNCHANGED vars
     \/ call = NoCall /\ Next /\ UNCHANGED call
HostMoves ==
  HeapAtRest /\ ScriptsAtRest /\ HookNext /\ UNCHANGED <<heapVars, MCScriptVars>>
ScriptsMove ==
  HeapAtRest /\ HostAtRest /\ MCScriptNext /\ UNCHANGED <<heapVars, hookVars>>

MCNext == HeapMoves \/ HostMoves \/ ScriptsMove

MCSpec == MCInit /\ [][MCNext]_<<heapVars, hookVars, MCScriptVars>>
=============================================================================
