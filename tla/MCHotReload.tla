---------------------------- MODULE MCHotReload ------------------------------
(* The layouts of region_native_state.c and region_lua_cart_state.c, and   *)
(* the registries of the edit scripts.                                     *)
EXTENDS HotReload, TLC

v0 == Layout(<<Field("frame_count", "i32", 0), Field("some_value", "i32", 1),
               Field("unused_count", "i32", 2)>>, 3)
v3 == Layout(<<Field("frame_count", "i32", 0), Field("some_value", "i32", 1),
               Field("unused_count", "i32", 2), Field("last_score", "i32", 3)>>, 4)
v4 == Layout(<<Field("frame_count", "i32", 0), Field("some_value", "i32", 1),
               Field("last_score", "i32", 2)>>, 3)
v5 == Layout(<<Field("frame_count", "i64", 0), Field("some_value", "i32", 2),
               Field("last_score", "i32", 3)>>, 4)
v6 == Layout(<<Field("some_value", "i32", 0), Field("last_score", "i32", 1),
               Field("frame_count", "i64", 2)>>, 4)
lv0 == Layout(<<Field("score", "i32", 0), Field("step", "i32", 1),
                Field("combo", "i32", 2)>>, 3)
lv2 == Layout(<<Field("score", "i32", 0), Field("step", "i32", 1),
                Field("combo", "i32", 2), Field("bonus", "i32", 3)>>, 4)
lv4 == Layout(<<Field("score", "i32", 0), Field("step", "i32", 1),
                Field("combo_mult", "f32", 2)>>, 3)

Plain(L) == [cart |-> "native", layout |-> L, desc |-> NoDesc, migrates |-> TRUE]
Edit(old, new, on_retype) ==
  [Plain(new) EXCEPT !.desc = [old |-> old, new |-> new, on_retype |-> on_retype]]
Lua(native) == [native EXCEPT !.cart = "lua", !.migrates = FALSE]

NativeBuilds ==
  "n1" :> Plain(v0) @@ "n3" :> Edit(v0, v3, "none") @@ "n4" :> Edit(v3, v4, "none")
  @@ "n5" :> Edit(v4, v5, "widen") @@ "n6" :> Edit(v5, v6, "none")
LuaBuilds ==
  "l1" :> Lua(Plain(lv0)) @@ "l2" :> Lua(Edit(lv0, lv2, "none"))
  @@ "l3" :> Lua(Edit(lv2, lv0, "none")) @@ "l4" :> Lua(Edit(lv0, lv4, "none"))

\* A cart whose region outgrows the scratch buffer.
big == Layout(<<Field("frame_count", "i32", 0)>>, 6)
BigBuilds == "n1" :> Plain(v0) @@ "big" :> Edit(v0, big, "none")

\* Every edit of the sweep, and the two kinds of refused ones.
AllBuilds == NativeBuilds @@ LuaBuilds @@ BigBuilds @@ "n3forgot" :> Plain(v3)
==============================================================================
