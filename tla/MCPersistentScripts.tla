------------------------ MODULE MCPersistentScripts --------------------------
(* The cutscene, the AI and the loader of det_two_scripts_destroy.lua, and, *)
(* before the first script, every flatten and unflatten of a small ctx.    *)
EXTENDS PersistentScripts, TableFlatten

MCScripts == {"cs", "ai", "loader"}

Str(s) == [t |-> "string", v |-> s]
Int1(n) == [t |-> "integer", v |-> n]
Flt(b) == [t |-> "float", v |-> b]
Boolean(b) == [t |-> "boolean", v |-> b]
Entry(k, v) == [key |-> k, value |-> v]
Arr(s) == [t |-> "table", v |-> [i \in DOMAIN s |-> Entry(Int1(i), s[i])]]

Prims == {Boolean(TRUE), Int1(3), Int1(9), Flt(3), Flt(12), Flt(13), Str(<<>>), Str(<<1, 2>>)}
MCValues == Prims \cup
    {Arr(<<>>), Arr(<<Int1(1), Int1(2)>>), Arr(<<Str(<<1>>), Str(<<>>)>>),
     Arr(<<Flt(12)>>), Arr(<<Boolean(FALSE)>>), Arr(<<Int1(1), Flt(1)>>),
     Arr(<<Arr(<<>>)>>), [t |-> "function"],
     [t |-> "table", v |-> <<Entry(Int1(2), Int1(1))>>],
     [t |-> "table", v |-> <<Entry(Int1(2), Int1(8)), Entry(Int1(1), Int1(7))>>]}
MCKeys == {Str(<<1>>), Str(<<1, 2>>), Str(<<2>>)}

MCTables ==
    {<<>>} \cup {<<Entry(k, v)>> : k \in MCKeys \cup {Str(<<>>), Str(<<1, 1, 1>>), Int1(1)},
                                   v \in MCValues}
    \cup {<<Entry(k, v), Entry(l, w)>> :
            <<k, v, l, w>> \in {x \in MCKeys \X MCValues \X MCKeys \X Prims : x[1] # x[3]}}
    \cup {<<Entry(k, v), Entry(l, w)>> :
            <<k, v, l, w>> \in {x \in MCKeys \X Prims \X MCKeys \X MCValues : x[1] # x[3]}}
    \cup {<<Entry(Str(<<1>>), Int1(1)), Entry(Str(<<2>>), Int1(1)),
            Entry(Str(<<1, 2>>), Int1(1))>>}

MCScriptVars == <<scriptVars, flat>>
MCScriptInit == ScriptInit /\ flat = NoFlat

NoScript == active = {} /\ file = NoFile

ScriptStep == flat = NoFlat /\ ScriptNext /\ UNCHANGED flat
FlattenStep == NoScript /\ flat = NoFlat /\ UNCHANGED scriptVars /\ (Flatten \/ Unflatten)
FlatReturn == flat # NoFlat /\ flat' = NoFlat /\ UNCHANGED scriptVars

MCScriptNext == ScriptStep \/ FlattenStep \/ FlatReturn

MCScriptSpec == MCScriptInit /\ [][MCScriptNext]_MCScriptVars
==============================================================================
