---------------------------- MODULE TableFlatten ----------------------------
(***************************************************************************)
(* The table flattener of spike-m/lib/lua_table_flatten.c: the byte form a *)
(* persistent script's ctx has in its slot and in a snapshot.              *)
(*                                                                         *)
(* A Lua table is the sequence of its entries in the order lua_next walks  *)
(* them, which is the VM's own business.  A byte is a digit below BYTE;    *)
(* the wide integers of the format (u16, u32, u64) take two of them, least *)
(* significant first.  A float is its bit pattern; the patterns in NaNs    *)
(* are the not-a-numbers.                                                  *)
(***************************************************************************)
EXTENDS Integers, Sequences, SequencesExt, FiniteSetsExt, TLC

CONSTANTS
    BYTE,               \* values of a byte
    LTF_MAX_FIELDS,
    LTF_MAX_KEY_LEN,
    CANONICAL_QNAN,     \* the pattern every NaN is written as
    NaNs,               \* all of them
    Tables,             \* the ctx tables flattened
    Caps                \* the sizes of the buffer

VARIABLE flat           \* the last call and its result

ASSUME FlattenAssumption ==
    /\ BYTE \in Nat /\ BYTE > 5 /\ LTF_MAX_FIELDS \in Nat /\ LTF_MAX_KEY_LEN \in Nat
    /\ CANONICAL_QNAN \in NaNs

LTF_OK == 0
LTF_ERR_OVERFLOW == -1
LTF_ERR_UNSUPPORTED_TYPE == -2
LTF_ERR_NON_STRING_KEY == -3
LTF_ERR_KEY_TOO_LONG == -4
LTF_ERR_ARRAY_MIXED_TYPES == -5
LTF_ERR_ARRAY_NON_SEQUENCE == -6

Tags == [boolean |-> 1, integer |-> 2, float |-> 3, string |-> 4, table |-> 5]
Tag(v) == Tags[v.t]
TypeOf(tag) == CHOOSE t \in DOMAIN Tags : Tags[t] = tag
Primitive(v) == v.t \in {"boolean", "integer", "float", "string"}

canonicalize_nan(bits) == IF bits \in NaNs THEN CANONICAL_QNAN ELSE bits

Least(S) == CHOOSE x \in S : \A y \in S : x <= y

-----------------------------------------------------------------------------
(* The sink: once something did not fit, it is marked. *)

put_u8(s, v) == IF Len(s.out) + 1 > s.cap THEN [s EXCEPT !.overflowed = TRUE]
                ELSE [s EXCEPT !.out = Append(@, v)]

put_wide(s, v) == put_u8(put_u8(s, v % BYTE), v \div BYTE)

(* The slip of refusing bytes that just fit. *)
FitsLess(s, n) == Len(s.out) + n < s.cap

Fits(s, n) == Len(s.out) + n <= s.cap

put_bytes(s, b) == IF Fits(s, Len(b)) THEN [s EXCEPT !.out = @ \o b]
                   ELSE [s EXCEPT !.overflowed = TRUE]

(* The payload of a primitive value, in a field or in an array. *)
Payload(s, v) ==
    CASE v.t = "boolean" -> put_u8(s, IF v.v THEN 1 ELSE 0)
      [] v.t = "integer" -> put_wide(s, v.v)
      [] v.t = "float"   -> put_wide(s, canonicalize_nan(v.v))
      [] v.t = "string"  -> put_bytes(put_wide(s, Len(v.v)), v.v)

-----------------------------------------------------------------------------
(* detect_array: the sequence 1..n of a table, its tag, or an error. *)

At(t, k) == t[CHOOSE i \in DOMAIN t : t[i].key = k].value
Has(t, k) == \E i \in DOMAIN t : t[i].key = k
IntKey(i) == [t |-> "integer", v |-> i]

detect_array(t) ==
    LET n == Max({m \in 0..Len(t) : \A i \in 1..m : Has(t, IntKey(i))})
        elem(i) == At(t, IntKey(i))
        bad == {i \in 1..n : ~Primitive(elem(i)) \/ elem(i).t # elem(1).t}
    IN [rc  |-> IF bad # {} THEN (IF Primitive(elem(Least(bad)))
                                  THEN LTF_ERR_ARRAY_MIXED_TYPES
                                  ELSE LTF_ERR_UNSUPPORTED_TYPE)
                ELSE IF Len(t) # n THEN LTF_ERR_ARRAY_NON_SEQUENCE ELSE LTF_OK,
        tag |-> IF n = 0 THEN 0 ELSE IF Primitive(elem(1)) THEN Tag(elem(1)) ELSE 0,
        n   |-> n]

emit_array(s, t) ==
    LET a == detect_array(t)
        head == put_wide(put_u8(put_u8(s, Tags["table"]), a.tag), a.n)
    IN IF a.rc < 0 THEN [rc |-> a.rc, s |-> s]
       ELSE [rc |-> LTF_OK,
             s |-> FoldLeft(LAMBDA acc, i : Payload(acc, At(t, IntKey(i))),
                            head, [i \in 1..a.n |-> i])]

emit_value(s, v) ==
    IF Primitive(v) THEN [rc |-> LTF_OK, s |-> Payload(put_u8(s, Tag(v)), v)]
    ELSE IF v.t = "table" THEN emit_array(s, v.v)
    ELSE [rc |-> LTF_ERR_UNSUPPORTED_TYPE, s |-> s]

(* The slip of leaving out the length when one key begins the other. *)
KeyLessPrefix(a, b) ==
    \E i \in 1..Len(a) : /\ i <= Len(b) /\ a[i] < b[i]
                         /\ \A j \in 1..(i - 1) : a[j] = b[j]

(* key_cmp(a, b) < 0 *)
KeyLess(a, b) ==
    \/ \E i \in 1..Len(a) : /\ i <= Len(b) /\ a[i] < b[i]
                            /\ \A j \in 1..(i - 1) : a[j] = b[j]
    \/ Len(a) < Len(b) /\ SubSeq(b, 1, Len(a)) = a

(* key_sort, an insertion sort. *)
RECURSIVE Insert(_, _)
Insert(s, e) == IF s = <<>> \/ ~KeyLess(e.key.v, Last(s).key.v) THEN Append(s, e)
                ELSE Append(Insert(Front(s), e), Last(s))

key_sort(t) == FoldLeft(Insert, <<>>, t)

(* The first entry the collecting walk refuses, and why. *)
Refused(t, i) ==
    IF t[i].key.t # "string" THEN LTF_ERR_NON_STRING_KEY
    ELSE IF i > LTF_MAX_FIELDS THEN LTF_ERR_OVERFLOW
    ELSE IF Len(t[i].key.v) > LTF_MAX_KEY_LEN THEN LTF_ERR_KEY_TOO_LONG ELSE LTF_OK

RECURSIVE EmitFields(_, _)
EmitFields(s, t) ==
    IF t = <<>> THEN [rc |-> IF s.overflowed THEN LTF_ERR_OVERFLOW ELSE LTF_OK,
                      out |-> s.out]
    ELSE LET e == emit_value(put_bytes(put_wide(s, Len(t[1].key.v)), t[1].key.v),
                             t[1].value)
         IN IF e.rc < 0 THEN [rc |-> e.rc, out |-> <<>>]
            ELSE IF e.s.overflowed THEN [rc |-> LTF_ERR_OVERFLOW, out |-> <<>>]
            ELSE EmitFields(e.s, Tail(t))

lua_table_flatten(t, cap) ==
    LET bad == {i \in DOMAIN t : Refused(t, i) < 0}
        sink == [out |-> <<>>, cap |-> cap, overflowed |-> FALSE]
    IN IF bad # {} THEN [rc |-> Refused(t, Least(bad)), out |-> <<>>]
       ELSE EmitFields(put_wide(sink, Len(t)), key_sort(t))

-----------------------------------------------------------------------------
(* The source.  `sp` counts the values on the Lua stack above the caller's. *)

Took(s, n) == [s EXCEPT !.pos = @ + n]

(* take_u16, take_u32, take_u64: a missing byte reads as zero and is noted. *)
Digit(s, i) == IF s.pos + i <= Len(s.src) THEN s.src[s.pos + i] ELSE 0
take(s, n) == IF s.pos + n > Len(s.src)
              THEN [s EXCEPT !.pos = Len(s.src), !.underflowed = TRUE] ELSE Took(s, n)
Wide(s) == Digit(s, 1) + BYTE * Digit(s, 2)

Pushed(s, n) == [s EXCEPT !.sp = @ + n]
Result(rc, s, v) == [rc |-> rc, s |-> s, v |-> v]
Nil == [t |-> "nil"]

(* One primitive: pushed, unless a string runs past the end. *)
TakePayload(s, tag) ==
    CASE tag = 1 -> Result(LTF_OK, Pushed(take(s, 1), 1),
                           [t |-> "boolean", v |-> Digit(s, 1) # 0])
      [] tag \in {2, 3} -> Result(LTF_OK, Pushed(take(s, 2), 1),
                                  [t |-> TypeOf(tag), v |-> Wide(s)])
      [] tag = 4 ->
           LET s1 == take(s, 2) IN
           IF s1.pos + Wide(s) > Len(s.src)
           THEN Result(LTF_ERR_OVERFLOW, [s1 EXCEPT !.underflowed = TRUE], Nil)
           ELSE Result(LTF_OK, Pushed(Took(s1, Wide(s)), 1),
                       [t |-> "string",
                        v |-> SubSeq(s.src, s1.pos + 1, s1.pos + Wide(s))])
      [] OTHER -> Result(LTF_ERR_UNSUPPORTED_TYPE, s, Nil)

(* The slip of filling the array from index 0. *)
SlotFromZero(i) == i - 1

(* Where element i of the bytes goes. *)
Slot(i) == i

(* The slip of forgetting that the element was pushed. *)
PopsTable(s) == Pushed(s, -1)

(* What an element cut short leaves on the stack to pop: itself and the    *)
(* table.                                                                  *)
PopsBoth(s) == Pushed(s, -2)

(* The elements of an array, onto the table on top of the stack. *)
RECURSIVE TakeElems(_, _, _, _, _)
TakeElems(s, tag, i, n, t) ==
    IF i > n THEN Result(LTF_OK, s, [t |-> "table", v |-> t])
    ELSE LET e == TakePayload(s, tag) IN
         IF e.rc < 0 THEN Result(e.rc, Pushed(e.s, -1), Nil)
         ELSE IF e.s.underflowed THEN Result(LTF_ERR_OVERFLOW, PopsBoth(e.s), Nil)
         ELSE TakeElems(Pushed(e.s, -1), tag, i + 1, n,
                        Append(t, [key |-> IntKey(Slot(i)), value |-> e.v]))

unflatten_array(s) ==
    LET s1 == take(s, 1)
        s2 == take(s1, 2)
    IN IF s2.underflowed THEN Result(LTF_ERR_OVERFLOW, s2, Nil)
       ELSE TakeElems(Pushed(s2, 1), Digit(s, 1), 1, Wide(s1), <<>>)

unflatten_value(s) ==
    LET s1 == take(s, 1) IN
    IF s1.underflowed THEN Result(LTF_ERR_OVERFLOW, s1, Nil)
    ELSE IF Digit(s, 1) = Tags["table"] THEN unflatten_array(s1)
    ELSE TakePayload(s1, Digit(s, 1))

(* Pop what is there and push nil. *)
Fail(rc, s, pops) == Result(rc, Pushed(s, 1 - pops), Nil)

(* The slip of trusting the last value. *)
NeverCutShort(s) == FALSE

CutShort(s) == s.underflowed

RECURSIVE TakeFields(_, _, _)
TakeFields(s, n, t) ==
    IF n = 0 THEN IF CutShort(s) THEN Fail(LTF_ERR_OVERFLOW, s, 1)
                  ELSE Result(LTF_OK, s, [t |-> "table", v |-> t])
    ELSE LET s1 == take(s, 2)
             kl == Wide(s)
             s2 == Pushed(Took(s1, kl), 1)
             e  == unflatten_value(s2)
         IN IF s1.underflowed \/ kl > LTF_MAX_KEY_LEN \/ s1.pos + kl > Len(s.src)
            THEN Fail(LTF_ERR_OVERFLOW, s1, 1)
            ELSE IF e.rc < 0 THEN Fail(e.rc, e.s, 2)
            ELSE TakeFields(Pushed(e.s, -2), n - 1,
                   Append(t, [key |-> [t |-> "string",
                                       v |-> SubSeq(s.src, s1.pos + 1, s1.pos + kl)],
                              value |-> e.v]))

lua_table_unflatten(bytes) ==
    LET s == [src |-> bytes, pos |-> 0, underflowed |-> FALSE, sp |-> 0]
        s1 == take(s, 2)
    IN IF s1.underflowed \/ Wide(s) > LTF_MAX_FIELDS THEN Fail(LTF_ERR_OVERFLOW, s1, 0)
       ELSE TakeFields(Pushed(s1, 1), Wide(s), <<>>)

-----------------------------------------------------------------------------
NoFlat == [fn |-> "none"]

Flatten == \E t \in Tables, cap \in Caps :
    flat' = [fn |-> "flatten", t |-> t, cap |-> cap, out |-> lua_table_flatten(t, cap)]

(* A slot's bytes read back, whole or cut short. *)
Unflatten == \E t \in Tables :
    LET b == lua_table_flatten(t, Max(Caps)) IN
    /\ b.rc = LTF_OK
    /\ \E n \in 0..Len(b.out) :
         flat' = [fn |-> "unflatten", t |-> t, whole |-> n = Len(b.out),
                  out |-> lua_table_unflatten(SubSeq(b.out, 1, n))]

-----------------------------------------------------------------------------
(* A value as the format can keep it. *)
Kept(v) == IF v.t = "float" THEN [v EXCEPT !.v = canonicalize_nan(@)] ELSE v
KeptValue(v) ==
    IF v.t = "table" THEN [t |-> "table",
                           v |-> {<<e.key, Kept(e.value)>> : e \in ToSet(v.v)}]
    ELSE Kept(v)
KeptTable(t) == {<<e.key, KeptValue(e.value)>> : e \in ToSet(t)}

(* What was flattened comes back: the same keys, values and subtypes, the  *)
(* same array elements at the same indices, every NaN as the one NaN; and  *)
(* a buffer cut short anywhere, even inside the last value, is refused.    *)
(* Either way exactly one value, the table or nil, is left on the stack,   *)
(* for the binding that returns it to the cart.                            *)
ComesBack ==
    flat.fn = "unflatten" =>
        /\ flat.whole => /\ flat.out.rc = LTF_OK
                         /\ KeptTable(flat.out.v.v) = KeptTable(flat.t)
                         /\ flat.out.s.pos = Len(flat.out.s.src)
        /\ ~flat.whole => flat.out.rc < 0 /\ flat.out.v = Nil

OneValuePushed == flat.fn = "unflatten" => flat.out.s.sp = 1

(* The same table on another host: lua_next walks it, and the arrays in    *)
(* it, in another order, and a NaN has another payload.                    *)
OtherValue(v, nan) ==
    IF v.t = "table" THEN [v EXCEPT !.v = Reverse(@)]
    ELSE IF v.t = "float" /\ v.v \in NaNs THEN [v EXCEPT !.v = nan] ELSE v
OtherHosts(t) ==
    {[i \in DOMAIN t |-> [key |-> t[p[i]].key, value |-> OtherValue(t[p[i]].value, nan)]] :
        p \in Permutations(DOMAIN t), nan \in NaNs}

(* The bytes depend on the table alone, not on the order lua_next walks it *)
(* in nor on the payload of a NaN: every host writes the same snapshot.    *)
SameBytesOnEveryHost ==
    flat.fn = "flatten" =>
        \A t \in OtherHosts(flat.t) :
            LET r == lua_table_flatten(t, flat.cap) IN
            /\ (r.rc = LTF_OK) = (flat.out.rc = LTF_OK)
            /\ r.rc = LTF_OK => r.out = flat.out.out

(* The bytes a value and a table take. *)
ValueSize(v) ==
    LET size(p) == CASE p.t = "boolean" -> 1 [] p.t = "string" -> 2 + Len(p.v) [] OTHER -> 2
    IN 1 + IF v.t # "table" THEN size(v)
           ELSE 3 + MapThenSumSet(LAMBDA i : size(v.v[i].value), DOMAIN v.v)
TableSize(t) == 2 + MapThenSumSet(LAMBDA i : 2 + Len(t[i].key.v) + ValueSize(t[i].value),
                                  DOMAIN t)

(* A ctx of a supported shape is refused exactly when its bytes do not fit *)
(* the slot: never written cut short, and never refused when it just fits. *)
RefusedWhenTooLarge ==
    flat.fn = "flatten" /\ lua_table_flatten(flat.t, Max(Caps)).rc = LTF_OK =>
        /\ flat.out.rc = IF TableSize(flat.t) <= flat.cap THEN LTF_OK ELSE LTF_ERR_OVERFLOW
        /\ flat.out.rc = LTF_OK => Len(flat.out.out) = TableSize(flat.t)

(* A ctx table makes the trip through a save slot: the bytes every host    *)
(* agrees on, exactly when they fit, and the same table or a clean refusal *)
(* when they are read again.                                               *)
FlattenSound == ComesBack /\ OneValuePushed /\ SameBytesOnEveryHost /\ RefusedWhenTooLarge
=============================================================================
