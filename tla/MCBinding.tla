------------------------------ MODULE MCBinding ------------------------------
(* Three libraries of different sizes, every graph of needs among them (each *)
(* library needs at most one other, A up to two), every choice of who        *)
(* defines the one symbol f, a missing file.  A stands for libconsolelua, f  *)
(* for its weak reference cart_lua_modules.                                  *)
EXTENDS LoadedConsole

MCLibs == {"A", "B", "C"}

LibSize == [A |-> 5, B |-> 4, C |-> 7]

Sym(def, undef) ==
    [value |-> IF def = "none" THEN undef ELSE 1, und |-> def = "none",
     bind |-> IF def = "none" THEN "global" ELSE def]

MCLib(name, need, def) ==
    [size |-> LibSize[name], needed |-> need, syms |-> [f |-> Sym(def, 0)],
     relas |-> << [type |-> "JUMP_SLOT", off |-> 2, sym |-> "f", add |-> 0],
                  [type |-> "32", off |-> 0, sym |-> "f", add |-> 0],
                  [type |-> "RELATIVE", off |-> 3, sym |-> "", add |-> 1] >>]

\* An undefined f carries the address of the cart's stub, 5.
MCCart(need, def, dynamic) ==
    [size |-> 7, needed |-> need, dynamic |-> dynamic, syms |-> [f |-> Sym(def, 5)],
     plt |-> << [type |-> "JUMP_SLOT", off |-> 2, sym |-> "f", add |-> 0] >>,
     relas |-> << [type |-> "32", off |-> 3, sym |-> "f", add |-> 1],
                  [type |-> "32", off |-> 4, sym |-> "", add |-> 4],
                  [type |-> "RELATIVE", off |-> 6, sym |-> "", add |-> 2] >>]

Others(x) == {<<y>> : y \in MCLibs \ {x}}

MCWorlds ==
    {[cart |-> MCCart(n, d, TRUE),
      files |-> [l \in MCLibs \ gone |->
                    CASE l = "A" -> MCLib("A", na, da)
                      [] l = "B" -> MCLib("B", nb, db)
                      [] l = "C" -> MCLib("C", nc, dc)]] :
        n \in {<<"A">>, <<"B", "A">>, <<"A", "B", "C">>},
        d \in {"none", "global", "local"},
        na \in {<< >>, <<"B", "C">>} \union Others("A"),
        nb \in {<< >>} \union Others("B"), nc \in {<< >>} \union Others("C"),
        da \in {"none", "weak", "local"}, db \in {"none", "global"},
        dc \in {"none", "global"}, gone \in {{}, {"C"}}}
    \union {[cart |-> MCCart(<<"A">>, "global", FALSE),
             files |-> [l \in {"A"} |-> MCLib("A", << >>, "none")]]}

\* The cart needs the console's library, which may need another.
MCStarts(w) ==
    /\ w.cart.needed \in {<<"A">>, <<"B", "A">>}
    /\ "C" \notin DOMAIN w.files
    /\ \A l \in DOMAIN w.files :
          /\ w.files[l].syms["f"].und
          /\ w.files[l].needed \in (IF l = "A" THEN {<< >>, <<"B">>} ELSE {<< >>})

--------------------------------------------------------------------------
(* Cart files *)

Entry(mod, n, addr, args, ret) ==
    [module |-> mod, name |-> n, sym_addr |-> addr, args |-> args, ret |-> ret]

AddEntry == Entry("mylib", "fast_add", 1, <<"f32", "f32">>, "f32")
MulEntry == Entry("mylib", "fast_mul", 2, <<"i32", "i32">>, "i32")
MixEntry(mod, ret) == Entry(mod, "mix", 3, <<"i32", "f32", "i32", "f32">>, ret)
QuitEntry == Entry("mylib", "quit", 5, << >>, "i32")
SumEntry == Entry("other", "sum", 4, <<"f32", "i32">>, "i32")
Terminator == Entry("", "", 0, << >>, "i32")

Code(ret) == [a \in {1, 2} \union 11..16 |->
    CASE a \in {1, 11} -> Function("add", <<"f32", "f32">>, "f32")
      [] a \in {2, 12} -> Function("mul", <<"i32", "i32">>, "i32")
      [] a = 13 -> Function("mix", <<"i32", "f32", "i32", "f32">>, ret)
      [] a = 14 -> Function("mix", <<"f32", "i32">>, "i32")
      [] a = 15 -> Function("add", <<"i32", "i32">>, "i32")
      [] a = 16 -> [Function("add", << >>, "i32") EXCEPT !.exits = TRUE]]

Symtab == [fast_add |-> 11, fast_mul |-> 12, mix |-> 13, sum |-> 14, addf |-> 11,
           add32 |-> 15, quit |-> 16]

CartFile(section, ret, syms_) ==
    [readable |-> TRUE, creates |-> TRUE, hasSection |-> TRUE, section |-> section,
     symtab |-> syms_, code |-> Code(ret)]

Binding == CartFile(<<AddEntry, MulEntry, Terminator>>, "f32", Symtab)

MCCarts ==
    {Binding, [Binding EXCEPT !.readable = FALSE], [Binding EXCEPT !.creates = FALSE],
     [Binding EXCEPT !.hasSection = FALSE],
     CartFile(<<AddEntry, MixEntry("mylib", "f32"), SumEntry>>, "f32", Symtab),
     CartFile(<<Entry("mylib", "gap", 0, << >>, "i32"), MixEntry("other", "i32"),
                Terminator, AddEntry>>, "i32", Symtab),
     CartFile(<<AddEntry, SumEntry, MulEntry>>, "f32", Symtab),
     CartFile(<<AddEntry, MulEntry, MixEntry("mylib", "f32"), SumEntry, SumEntry>>,
              "f32", Symtab),
     CartFile(<<QuitEntry, AddEntry>>, "f32", Symtab),
     CartFile(<<AddEntry, MulEntry>>, "f32", [fast_add |-> 11])}

MCNativeCarts == {Binding}

MCCallArgs == {<< >>, <<3, 4>>, <<-7, 2>>, <<10, 12>>, <<4, -5, -6, 8>>}

=============================================================================
