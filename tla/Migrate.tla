------------------------------ MODULE Migrate -------------------------------
(***************************************************************************)
(* The field-level migration walk of spikes/spike-n/cart_runtime/migrate.c *)
(* and its on_retype callbacks.  A region is a sequence of words: an i32   *)
(* or f32 field takes one, an i64 field two (low word first).  Words have  *)
(* WordSize values, read as two's complement numbers.                      *)
(***************************************************************************)
EXTENDS Integers, Sequences

WordSize == 4
Word == 0 .. WordSize - 1

\* sizeof, in words
Size(type) == IF type = "i64" THEN 2 ELSE 1

Field(name, type, offset) == [name |-> name, type |-> type, offset |-> offset]

\* mlayout_t
Layout(fields, total) == [fields |-> fields, total |-> total]
Fields(L) == {L.fields[i] : i \in DOMAIN L.fields}

Signed(w) == IF w >= WordSize \div 2 THEN w - WordSize ELSE w

\* The bytes of field f in a region, and the words of a number.
Slice(bytes, f) == SubSeq(bytes, f.offset + 1, f.offset + Size(f.type))
TwosComplement(v, values) == (IF v < 0 THEN v + values ELSE v) % values
Encode(v, type) == IF Size(type) = 1 THEN <<TwosComplement(v, WordSize)>>
                   ELSE LET u == TwosComplement(v, WordSize * WordSize)
                        IN  <<u % WordSize, u \div WordSize>>
Decode(words) == IF Len(words) = 1 THEN Signed(words[1])
                 ELSE words[1] + WordSize * Signed(words[2])

Zeros(type) == [i \in 1 .. Size(type) |-> 0]

ZeroExtend(old, from, to, on_retype) ==                           \* mutant
  IF on_retype = "widen" /\ from = "i32" /\ to = "i64" THEN <<old[1], 0>> ELSE Zeros(to)
\* native_state_retype_i32_to_i64, or no callback: the field stays zero.
OnRetype(old, from, to, on_retype) ==
  IF on_retype = "widen" /\ from = "i32" /\ to = "i64"
  THEN Encode(Signed(old[1]), "i64") ELSE Zeros(to)

FieldFits(f, L) == f.offset + Size(f.type) <= L.total

\* Lookup by name in the old layout; names do not repeat.
OldField(L, f) == {g \in Fields(L) : g.name = f.name}

\* migrate_region_bytes returns 0 only for a malformed descriptor.
MigrateOK(new, old) ==
  \A f \in Fields(new) : FieldFits(f, new) /\ \A g \in OldField(old, f) : FieldFits(g, old)

MigratedField(f, old, bytes, on_retype) ==
  IF OldField(old, f) = {} THEN Zeros(f.type)
  ELSE LET g == CHOOSE h \in OldField(old, f) : TRUE IN
       IF g.type = f.type THEN Slice(bytes, g)
       ELSE OnRetype(Slice(bytes, g), g.type, f.type, on_retype)

MigratedOldSize(new, old, bytes, on_retype) ==                    \* mutant
  [w \in 1 .. old.total |-> IF w \in DOMAIN bytes THEN bytes[w] ELSE 0]
\* What migrate_region_bytes leaves in new_bytes: zero-filled, then one
\* field of the new layout after the other.
Migrated(new, old, bytes, on_retype) ==
  [w \in 1 .. new.total |->
     LET here == {f \in Fields(new) : f.offset < w /\ w <= f.offset + Size(f.type)} IN
     IF here = {} THEN 0
     ELSE LET f == CHOOSE h \in here : TRUE IN
          MigratedField(f, old, bytes, on_retype)[w - f.offset]]
==============================================================================
