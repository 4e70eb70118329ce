--------------------------- MODULE DevToolsProofs ---------------------------
(***************************************************************************)
(* Proofs about what a developer works with: the hot reload of a cart and  *)
(* the stub GDB talks to.  The two share no variable.                      *)
(*                                                                         *)
(* HotReload, for every chain of builds whose layouts are well formed,     *)
(* every length of run and every scratch buffer, and any snapshot of the   *)
(* cart: a hot reload carries each field's number over as ADR-0045's table *)
(* says as long as each build knew the layout it loaded, and refuses such  *)
(* a snapshot only when the new region does not fit the scratch buffer or  *)
(* the build's driver never migrates.                                      *)
(*                                                                         *)
(* The walk of save_state_n.c moves words; the table speaks of numbers.    *)
(* The first part relates the two: what a field reads after Written        *)
(* (WrittenReads), after Migrated (MigratedReads), on a zeroed region      *)
(* (BlankRegion).  The second part is the invariant: the running region    *)
(* and the one in the snapshot read the numbers the cart gave them.        *)
(*                                                                         *)
(* GdbStub, for every cart, every set of packets and any number of         *)
(* sessions: a continue that GDB waits on is never lost between the two    *)
(* threads (Answered), because the bytes it travels in stay in packets     *)
(* (Framed) and, while nobody took a byte of one, in whole ones (Whole).   *)
(***************************************************************************)
EXTENDS HotReload, GdbStub, SequenceTheorems, FiniteSetTheorems, TLAPS

(* What a field reads, word by word. *)
Read(c, f) ==
  IF f.type = "i64" THEN c[f.offset + 1] + WordSize * Signed(c[f.offset + 2])
                    ELSE Signed(c[f.offset + 1])

\* The words of a field.
In(w, f) == f.offset < w /\ w <= f.offset + Size(f.type)

\* The words cut out of a region are the region's own.
LEMMA Subsequence ==
  ASSUME NEW c \in Seq(Word), NEW o \in Nat, NEW n \in {1, 2}, o + n <= Len(c)
  PROVE  /\ Len(SubSeq(c, o + 1, o + n)) = n
         /\ \A i \in 1 .. n : SubSeq(c, o + 1, o + n)[i] = c[o + i]
<1> PICK a \in Int : a = o + 1
  OBVIOUS
<1> PICK b \in Int : b = o + n
  OBVIOUS
<1>1. Len(c) \in Nat /\ \A i \in 1 .. Len(c) : c[i] \in Word
  OBVIOUS
<1>2. a >= 1 /\ b <= Len(c) /\ b - a + 1 = n /\ a <= b
  OBVIOUS
<1>3. \A i \in a .. b : c[i] \in Word
  BY <1>1, <1>2
<1>4. /\ Len(SubSeq(c, a, b)) = IF a <= b THEN b - a + 1 ELSE 0
      /\ \A i \in 1 .. (b - a + 1) : SubSeq(c, a, b)[i] = c[a + i - 1]
  BY ONLY <1>3, a \in Int, b \in Int, SubSeqProperties
<1>5. \A i \in 1 .. n : a + i - 1 = o + i
  BY <1>2
<1> QED BY <1>2, <1>4, <1>5

\* A field of a layout lies inside the region, and its slice reads its number.
LEMMA SliceReads ==
  ASSUME NEW L, WellFormed(L), NEW f \in Fields(L),
         NEW c \in Seq(Word), L.total <= Len(c)
  PROVE  /\ Decode(Slice(c, f)) = Read(c, f)
         /\ f.offset + 1 \in 1 .. Len(c)
         /\ f.type = "i64" => f.offset + 2 \in 1 .. Len(c)
         /\ Len(Slice(c, f)) = Size(f.type)
         /\ \A i \in 1 .. Size(f.type) : /\ Slice(c, f)[i] = c[f.offset + i]
                                         /\ f.offset + i \in 1 .. Len(c)
<1>1. /\ f.offset \in Nat /\ f.type \in {"i32", "i64", "f32"} /\ L.total \in Nat
      /\ f.offset + Size(f.type) <= L.total
  BY DEF WellFormed, FieldFits
<1> PICK o \in Nat : o = f.offset
  BY <1>1
<1> PICK n \in {1, 2} : n = Size(f.type)
  BY <1>1 DEF Size
<1>2. o + 1 \in Nat /\ o + n \in Nat /\ o + n <= Len(c) /\ 1 <= o + 1
  BY <1>1
<1>3. /\ Len(SubSeq(c, o + 1, o + n)) = n
      /\ \A i \in 1 .. n : SubSeq(c, o + 1, o + n)[i] = c[o + i]
  BY <1>2, Subsequence
<1>4. Len(Slice(c, f)) = n /\ \A i \in 1 .. n : Slice(c, f)[i] = c[o + i]
  BY <1>3 DEF Slice
<1>5. \A i \in 1 .. n : o + i \in 1 .. Len(c)
  BY <1>2, SMTT(30)
<1>6. CASE n = 1
  <2>1. f.type # "i64"
    BY <1>6 DEF Size
  <2> QED BY <1>4, <1>5, <1>6, <2>1 DEF Decode, Read
<1>7. CASE n = 2
  <2>1. f.type = "i64"
    BY <1>7 DEF Size
  <2> QED BY <1>4, <1>5, <1>7, <2>1 DEF Decode, Read
<1> QED BY <1>6, <1>7

\* A number the cart writes is the number the field then reads.
LEMMA EncodeReads ==
  ASSUME NEW type \in {"i32", "i64", "f32"}, NEW v \in ValuesOf(type)
  PROVE  /\ Len(Encode(v, type)) = Size(type)
         /\ \A i \in 1 .. Size(type) : Encode(v, type)[i] \in Word
         /\ type # "i64" => Signed(Encode(v, type)[1]) = v
         /\ type = "i64" => Encode(v, type)[1] + WordSize * Signed(Encode(v, type)[2]) = v
<1>1. /\ TwosComplement(-1, 4) = 3 /\ TwosComplement(1, 4) = 1
      /\ TwosComplement(-3, 16) = 13 /\ TwosComplement(1, 16) = 1
      /\ 13 % 4 = 1 /\ 13 \div 4 = 3 /\ 1 % 4 = 1 /\ 1 \div 4 = 0
  BY DEF TwosComplement
<1> QED BY <1>1 DEF Encode, Size, Signed, WordSize, Word, ValuesOf

\* A frame writes one field and no other.
LEMMA WrittenReads ==
  ASSUME NEW L, WellFormed(L), NEW f \in Fields(L), cart \in Seq(Word), Len(cart) = L.total,
         NEW v \in ValuesOf(f.type)
  PROVE  /\ Written(f, v) \in Seq(Word) /\ Len(Written(f, v)) = L.total
         /\ Read(Written(f, v), f) = v
         /\ \A g \in Fields(L) : g # f => Read(Written(f, v), g) = Read(cart, g)
<1> PICK c : c = Written(f, v)
  OBVIOUS
<1>1. /\ f.offset \in Nat /\ f.type \in {"i32", "i64", "f32"} /\ L.total \in Nat
      /\ f.offset + Size(f.type) <= L.total /\ Size(f.type) \in {1, 2}
  BY DEF WellFormed, FieldFits, Size
<1>2. DOMAIN cart = 1 .. L.total
  OBVIOUS
<1>3. c = [w \in 1 .. L.total |-> IF In(w, f) THEN Encode(v, f.type)[w - f.offset] ELSE cart[w]]
  BY <1>2 DEF Written, In
<1>4. \A w \in 1 .. L.total : In(w, f) => w - f.offset \in 1 .. Size(f.type)
  BY <1>1 DEF In
<1>5. \A w \in 1 .. L.total : c[w] \in Word
  BY <1>1, <1>2, <1>3, <1>4, EncodeReads
<1>6. c \in Seq(Word) /\ Len(c) = L.total
  <2>1. c \in [1 .. L.total -> Word]
    BY <1>3, <1>5
  <2> QED BY <1>1, <2>1
<1>7. Read(c, f) = v
  <2>1. \A i \in 1 .. Size(f.type) : /\ f.offset + i \in 1 .. L.total /\ In(f.offset + i, f)
                                     /\ (f.offset + i) - f.offset = i
    BY <1>1 DEF In
  <2>2. \A i \in 1 .. Size(f.type) : c[f.offset + i] = Encode(v, f.type)[i]
    BY <1>3, <2>1
  <2> QED BY <1>1, <2>2, EncodeReads DEF Read, Size
<1>8. ASSUME NEW g \in Fields(L), g # f PROVE Read(c, g) = Read(cart, g)
  <2>1. /\ g.offset \in Nat /\ g.type \in {"i32", "i64", "f32"} /\ Size(g.type) \in {1, 2}
        /\ g.offset + Size(g.type) <= L.total
        /\ \/ f.offset + Size(f.type) <= g.offset
           \/ g.offset + Size(g.type) <= f.offset
    BY <1>8 DEF WellFormed, FieldFits, Size
  <2>2. \A i \in 1 .. Size(g.type) : /\ g.offset + i \in 1 .. L.total /\ ~In(g.offset + i, f)
    BY <1>1, <2>1 DEF In
  <2>3. \A i \in 1 .. Size(g.type) : c[g.offset + i] = cart[g.offset + i]
    BY <1>3, <2>2
  <2> QED BY <2>1, <2>3 DEF Read, Size
<1> QED BY <1>6, <1>7, <1>8

\* The callback widens a word to the same number.
LEMMA WidenReads ==
  ASSUME NEW w \in Word
  PROVE  /\ Encode(Signed(w), "i64")[1] \in Word /\ Encode(Signed(w), "i64")[2] \in Word
         /\ Encode(Signed(w), "i64")[1] + WordSize * Signed(Encode(Signed(w), "i64")[2])
              = Signed(w)
<1>1. /\ TwosComplement(-1, 16) = 15 /\ TwosComplement(1, 16) = 1
      /\ TwosComplement(-2, 16) = 14 /\ TwosComplement(0, 16) = 0
      /\ 15 % 4 = 3 /\ 15 \div 4 = 3 /\ 14 % 4 = 2 /\ 14 \div 4 = 3
      /\ 1 % 4 = 1 /\ 1 \div 4 = 0 /\ 0 % 4 = 0 /\ 0 \div 4 = 0
  BY DEF TwosComplement
<1>2. w = 0 \/ w = 1 \/ w = 2 \/ w = 3
  BY DEF Word, WordSize
<1>3. /\ Signed(0) = 0 /\ Signed(1) = 1 /\ Signed(2) = -2 /\ Signed(3) = -1
  BY DEF Signed, WordSize
<1>4. \A v : Encode(v, "i64") = <<TwosComplement(v, 16) % 4, TwosComplement(v, 16) \div 4>>
  BY DEF Encode, Size, WordSize
<1> QED BY <1>1, <1>2, <1>3, <1>4 DEF Word, WordSize

\* The number a field's words stand for, and the number the walk gives it.
Number(words, type) ==
  IF type = "i64" THEN words[1] + WordSize * Signed(words[2]) ELSE Signed(words[1])
Walked(f, old, bytes, on_retype) ==
  LET g == CHOOSE h \in OldField(old, f) : TRUE IN
  IF OldField(old, f) # {} /\ (\/ g.type = f.type
                               \/ on_retype = "widen" /\ g.type = "i32" /\ f.type = "i64")
  THEN Read(bytes, g) ELSE 0

\* The walk leaves one field its number: the old one, widened or not, or zero.
LEMMA FieldReads ==
  ASSUME NEW new, WellFormed(new), NEW old, WellFormed(old), NEW f \in Fields(new),
         NEW bytes \in Seq(Word), old.total <= Len(bytes), NEW on_retype
  PROVE  /\ \A i \in 1 .. Size(f.type) : MigratedField(f, old, bytes, on_retype)[i] \in Word
         /\ Number(MigratedField(f, old, bytes, on_retype), f.type)
              = Walked(f, old, bytes, on_retype)
<1> PICK m : m = MigratedField(f, old, bytes, on_retype)
  OBVIOUS
<1>1. f.type \in {"i32", "i64", "f32"} /\ Size(f.type) = IF f.type = "i64" THEN 2 ELSE 1
  BY DEF WellFormed, Size
<1>2. ASSUME m = Zeros(f.type)
      PROVE  (\A i \in 1 .. Size(f.type) : m[i] \in Word) /\ Number(m, f.type) = 0
  BY <1>1, <1>2 DEF Zeros, Number, Word, WordSize, Signed
<1>3. CASE OldField(old, f) = {}
  BY <1>2, <1>3 DEF MigratedField, Walked
<1>4. CASE OldField(old, f) # {}
  <2> PICK g : g = CHOOSE h \in OldField(old, f) : TRUE
    OBVIOUS
  <2>1. g \in Fields(old)
    BY <1>4 DEF OldField
  <2>2. g.type \in {"i32", "i64", "f32"} /\ Size(g.type) = IF g.type = "i64" THEN 2 ELSE 1
    BY <2>1 DEF WellFormed, Size
  <2>3. \A i \in 1 .. Size(g.type) : /\ Slice(bytes, g)[i] = bytes[g.offset + i]
                                      /\ g.offset + i \in 1 .. Len(bytes)
    BY <2>1, SliceReads
  <2>4. \A i \in 1 .. Size(g.type) : Slice(bytes, g)[i] \in Word
    BY <2>3
  <2>5. m = IF g.type = f.type THEN Slice(bytes, g)
            ELSE OnRetype(Slice(bytes, g), g.type, f.type, on_retype)
    BY <1>4 DEF MigratedField
  <2>6. Walked(f, old, bytes, on_retype)
          = IF g.type = f.type \/ (on_retype = "widen" /\ g.type = "i32" /\ f.type = "i64")
            THEN Read(bytes, g) ELSE 0
    BY <1>4 DEF Walked
  <2>7. CASE g.type = f.type
    <3>1. m = Slice(bytes, g) /\ Walked(f, old, bytes, on_retype) = Read(bytes, g)
      BY <2>5, <2>6, <2>7
    <3>2. Number(m, f.type) = Read(bytes, g)
      BY <1>1, <2>3, <2>7, <3>1 DEF Number, Read
    <3> QED BY <2>4, <2>7, <3>1, <3>2
  <2>8. CASE g.type # f.type /\ on_retype = "widen" /\ g.type = "i32" /\ f.type = "i64"
    <3>1. m = Encode(Signed(Slice(bytes, g)[1]), "i64")
      BY <2>5, <2>8 DEF OnRetype
    <3>2. Slice(bytes, g)[1] \in Word /\ Slice(bytes, g)[1] = bytes[g.offset + 1]
      BY <2>2, <2>3, <2>4, <2>8
    <3>3. m[1] \in Word /\ m[2] \in Word /\ Number(m, "i64") = Signed(Slice(bytes, g)[1])
      BY <3>1, <3>2, WidenReads DEF Number
    <3>4. Signed(Slice(bytes, g)[1]) = Read(bytes, g)
      BY <2>8, <3>2 DEF Read
    <3>5. Walked(f, old, bytes, on_retype) = Read(bytes, g)
      BY <2>6, <2>8
    <3>6. \A i \in 1 .. 2 : i = 1 \/ i = 2
      OBVIOUS
    <3> QED BY <1>1, <2>8, <3>3, <3>4, <3>5, <3>6
  <2>9. CASE g.type # f.type /\ ~(on_retype = "widen" /\ g.type = "i32" /\ f.type = "i64")
    <3>1. m = Zeros(f.type) /\ Walked(f, old, bytes, on_retype) = 0
      BY <2>5, <2>6, <2>9 DEF OnRetype
    <3> QED BY <1>2, <3>1
  <2> QED BY <2>7, <2>8, <2>9
<1> QED BY <1>3, <1>4

\* Every field of the new region reads what the walk gives it.
LEMMA MigratedReads ==
  ASSUME NEW new, WellFormed(new), NEW old, WellFormed(old),
         NEW bytes \in Seq(Word), old.total <= Len(bytes), NEW on_retype
  PROVE  /\ Migrated(new, old, bytes, on_retype) \in Seq(Word)
         /\ Len(Migrated(new, old, bytes, on_retype)) = new.total
         /\ \A f \in Fields(new) :
              Read(Migrated(new, old, bytes, on_retype), f) = Walked(f, old, bytes, on_retype)
<1> PICK m : m = Migrated(new, old, bytes, on_retype)
  OBVIOUS
<1> DEFINE here(w) == {f \in Fields(new) : In(w, f)}
           words(f) == MigratedField(f, old, bytes, on_retype)
<1>1. m = [w \in 1 .. new.total |->
             IF here(w) = {} THEN 0
             ELSE words(CHOOSE h \in here(w) : TRUE)[w - (CHOOSE h \in here(w) : TRUE).offset]]
  BY DEF Migrated, In
<1>2. \A f \in Fields(new) : /\ f.offset \in Nat /\ Size(f.type) \in {1, 2}
                              /\ f.type \in {"i32", "i64", "f32"}
                              /\ f.offset + Size(f.type) <= new.total
  BY DEF WellFormed, FieldFits, Size
<1>3. new.total \in Nat
  BY DEF WellFormed
<1>4. ASSUME NEW f \in Fields(new), NEW w \in 1 .. new.total, In(w, f)
      PROVE  m[w] = words(f)[w - f.offset] /\ m[w] \in Word
  <2>1. \A g \in Fields(new) : In(w, g) => g = f
    BY <1>2, <1>4 DEF WellFormed, In
  <2>2. here(w) = {f}
    BY <1>4, <2>1
  <2> HIDE DEF here
  <2>3. (CHOOSE h \in here(w) : TRUE) = f
    BY <2>2
  <2> HIDE DEF words
  <2>4. m[w] = words(f)[w - f.offset]
    BY <1>1, <2>2, <2>3
  <2>5. w - f.offset \in 1 .. Size(f.type)
    BY <1>2, <1>4 DEF In
  <2> QED BY <2>4, <2>5, FieldReads DEF words
<1>5. ASSUME NEW w \in 1 .. new.total PROVE m[w] \in Word
  <2>1. CASE here(w) = {}
    <3> HIDE DEF here, words
    <3>1. m[w] = 0
      BY <1>1, <2>1
    <3> QED BY <3>1 DEF Word, WordSize
  <2>2. CASE here(w) # {}
    BY <1>4, <2>2
  <2> QED BY <2>1, <2>2
<1>6. m \in Seq(Word) /\ Len(m) = new.total
  <2>1. DOMAIN m = 1 .. new.total /\ m = [w \in 1 .. new.total |-> m[w]]
    <3> HIDE DEF here, words
    <3> QED BY <1>1
  <2>2. m \in [1 .. new.total -> Word]
    BY <1>5, <2>1
  <2> QED BY <1>3, <2>2
<1>7. ASSUME NEW f \in Fields(new) PROVE Read(m, f) = Walked(f, old, bytes, on_retype)
  <2>1. \A i \in 1 .. Size(f.type) : /\ f.offset + i \in 1 .. new.total
                                      /\ In(f.offset + i, f) /\ (f.offset + i) - f.offset = i
    BY <1>2, <1>3 DEF In
  <2>2. \A i \in 1 .. Size(f.type) : m[f.offset + i] = words(f)[i]
    <3> HIDE DEF words, here
    <3> QED BY <1>4, <2>1
  <2>3. Read(m, f) = Number(words(f), f.type)
    <3> HIDE DEF words
    <3> QED BY <1>2, <2>2 DEF Read, Number, Size
  <2> QED BY <2>3, FieldReads
<1> QED BY <1>6, <1>7

(***************************************************************************)
(* The inductive invariant: the running region and the one in the snapshot *)
(* have their layout's size and read the numbers the cart gave them.       *)
(***************************************************************************)
Region(b, c, t) ==
  /\ c \in Seq(Word) /\ Len(c) = LayoutOf(b).total /\ DOMAIN t = NamesOf(b)
Reads(b, c, t) == \A n \in NamesOf(b) : Read(c, FieldOf(b, n)) = t[n]

Running ==
  /\ build \in DOMAIN Builds /\ status \in {"running", "refused"}
  /\ frame \in 0 .. MaxFrames
  /\ Region(build, cart, truth) /\ described \in BOOLEAN
  /\ status = "running" /\ described => Reads(build, cart, truth)
Filed ==
  file # NoFile => /\ file.build \in DOMAIN Builds /\ file.frame \in 0 .. MaxFrames
                   /\ Region(file.build, file.cart, file.truth)
                   /\ file.described \in BOOLEAN
                   /\ file.described => Reads(file.build, file.cart, file.truth)
ReloadInv == Running /\ Filed /\ DescribedEditIsAccepted

\* A name of a build has one field.
LEMMA NamedField ==
  ASSUME NEW b \in DOMAIN Builds
  PROVE  /\ \A n \in NamesOf(b) : FieldOf(b, n) \in Fields(LayoutOf(b)) /\ FieldOf(b, n).name = n
         /\ \A f \in Fields(LayoutOf(b)) : f.name \in NamesOf(b) /\ FieldOf(b, f.name) = f
<1>1. WellFormed(LayoutOf(b))
  BY BuildsAssumption
<1>2. ASSUME NEW n \in NamesOf(b)
      PROVE  FieldOf(b, n) \in Fields(LayoutOf(b)) /\ FieldOf(b, n).name = n
  BY DEF NamesOf, FieldOf
<1>3. ASSUME NEW f \in Fields(LayoutOf(b))
      PROVE  f.name \in NamesOf(b) /\ FieldOf(b, f.name) = f
  <2>1. f.name \in NamesOf(b)
    BY DEF NamesOf
  <2> QED BY <1>1, <1>2, <2>1 DEF WellFormed
<1> QED BY <1>2, <1>3

\* A zeroed region.
LEMMA BlankRegion ==
  ASSUME NEW b \in DOMAIN Builds
  PROVE  /\ Blank(b) \in Seq(Word) /\ Len(Blank(b)) = LayoutOf(b).total
         /\ \A f \in Fields(LayoutOf(b)) : Read(Blank(b), f) = 0
<1>1. WellFormed(LayoutOf(b)) /\ LayoutOf(b).total \in Nat
  BY BuildsAssumption DEF WellFormed
<1>2. 0 \in Word
  BY DEF Word, WordSize
<1>3. Blank(b) \in Seq(Word) /\ Len(Blank(b)) = LayoutOf(b).total
  BY <1>1, <1>2 DEF Blank
<1>4. ASSUME NEW f \in Fields(LayoutOf(b)) PROVE Read(Blank(b), f) = 0
  <2>1. /\ f.offset + 1 \in 1 .. LayoutOf(b).total
        /\ f.type = "i64" => f.offset + 2 \in 1 .. LayoutOf(b).total
    BY <1>1, <1>3, SliceReads
  <2> QED BY <2>1 DEF Read, Blank, Signed, WordSize
<1> QED BY <1>3, <1>4

\* The first build starts on a zeroed region.
LEMMA ReloadInit == Init => ReloadInv
<1> SUFFICES ASSUME Init PROVE ReloadInv
  OBVIOUS
<1>1. build \in DOMAIN Builds /\ cart = Blank(build) /\ truth = [n \in NamesOf(build) |-> 0]
  BY DEF Init
<1>2. Region(build, cart, truth) /\ Reads(build, cart, truth)
  BY <1>1, BlankRegion, NamedField DEF Region, Reads
<1> QED BY <1>1, <1>2, BuildsAssumption
        DEF Init, ReloadInv, Running, Filed, DescribedEditIsAccepted

\* A frame of the cart.
LEMMA UpdateKeeps ==
  ASSUME ReloadInv, NEW n \in NamesOf(build), NEW v, CartUpdate(n, v)
  PROVE  ReloadInv'
<1> PICK f : f = FieldOf(build, n)
  OBVIOUS
<1>1. /\ status = "running" /\ frame < MaxFrames /\ v \in ValuesOf(f.type)
      /\ cart' = Written(f, v) /\ truth' = [truth EXCEPT ![n] = v] /\ frame' = frame + 1
      /\ UNCHANGED <<build, status, file, described>>
  BY DEF CartUpdate
<1>2. /\ build \in DOMAIN Builds /\ frame \in 0 .. MaxFrames
      /\ Region(build, cart, truth) /\ described \in BOOLEAN
      /\ described => Reads(build, cart, truth)
  BY <1>1 DEF ReloadInv, Running
<1>3. WellFormed(LayoutOf(build)) /\ f \in Fields(LayoutOf(build)) /\ f.name = n
  BY <1>2, BuildsAssumption, NamedField
<1>4. /\ cart' \in Seq(Word) /\ Len(cart') = LayoutOf(build).total
      /\ Read(cart', f) = v
      /\ \A g \in Fields(LayoutOf(build)) : g # f => Read(cart', g) = Read(cart, g)
  BY <1>1, <1>2, <1>3, WrittenReads DEF Region
<1>5. DOMAIN truth' = NamesOf(build) /\ truth'[n] = v
      /\ \A k \in NamesOf(build) : k # n => truth'[k] = truth[k]
  BY <1>1, <1>2 DEF Region
<1>6. ASSUME described, NEW k \in NamesOf(build)
      PROVE  Read(cart', FieldOf(build, k)) = truth'[k]
  <2>1. FieldOf(build, k) \in Fields(LayoutOf(build)) /\ FieldOf(build, k).name = k
    BY <1>2, NamedField
  <2>2. CASE k = n
    BY <1>4, <1>5, <2>2
  <2>3. CASE k # n
    BY <1>2, <1>3, <1>4, <1>5, <1>6, <2>1, <2>3 DEF Reads
  <2> QED BY <2>2, <2>3
<1>7. Region(build, cart', truth') /\ (described => Reads(build, cart', truth'))
  BY <1>4, <1>5, <1>6 DEF Region, Reads
<1>8. Running'
  <2>1. frame' \in 0 .. MaxFrames
    BY <1>1, <1>2, BuildsAssumption
  <2> QED BY <1>1, <1>2, <1>7, <2>1 DEF Running
<1> QED BY <1>1, <1>8 DEF ReloadInv, Filed, DescribedEditIsAccepted

\* What the load leaves has the new build's size, whatever snapshot it was given.
LEMMA LoadedRegion ==
  ASSUME Filed, file # NoFile, NEW b \in DOMAIN Builds, ~Refused(b)
  PROVE  Region(b, CartBytes(b), Carried(b))
<1>1. /\ file.cart \in Seq(Word) /\ Len(file.cart) \in Nat
      /\ OldSize(b) <= Len(file.cart)
  BY DEF Filed, Region, Refused, OldSizeFits
<1>2. WellFormed(LayoutOf(b)) /\ LayoutOf(b).total \in Nat
  BY BuildsAssumption DEF WellFormed
<1>3. CartBytes(b) \in Seq(Word) /\ Len(CartBytes(b)) = LayoutOf(b).total
  <2>1. CASE HasDesc(b)
    BY <1>1, <1>2, <2>1, BuildsAssumption, MigratedReads DEF CartBytes, OldSize
  <2>2. CASE ~HasDesc(b)
    <3> PICK n \in Nat : n = LayoutOf(b).total
      BY <1>2
    <3>1. CartBytes(b) = SubSeq(file.cart, 1, n) /\ n <= Len(file.cart)
      BY <1>1, <2>2 DEF CartBytes, OldSize
    <3>2. \A i \in 1 .. n : file.cart[i] \in Word
      BY <1>1, <3>1
    <3>3. /\ SubSeq(file.cart, 1, n) \in Seq(Word)
          /\ Len(SubSeq(file.cart, 1, n)) = n
      BY <1>1, <3>1, <3>2, SubSeqProperties
    <3> QED BY <3>1, <3>3
  <2> QED BY <2>1, <2>2
<1> QED BY <1>3 DEF Region, Carried

\* The numbers ADR-0045's table carries over are the ones the walk leaves.
LEMMA CarriedReads ==
  ASSUME Filed, file # NoFile, file.described, NEW b \in DOMAIN Builds, HasDesc(b),
         DescOf(b).old = LayoutOf(file.build)
  PROVE  Reads(b, CartBytes(b), Carried(b))
<1> PICK o : o = file.build
  OBVIOUS
<1> PICK r : r = DescOf(b).on_retype
  OBVIOUS
<1>1. /\ o \in DOMAIN Builds /\ Region(o, file.cart, file.truth)
      /\ Reads(o, file.cart, file.truth)
  BY DEF Filed
<1>2. WellFormed(LayoutOf(b)) /\ WellFormed(LayoutOf(o)) /\ DescOf(b).new = LayoutOf(b)
  BY <1>1, BuildsAssumption
<1>3. CartBytes(b) = Migrated(LayoutOf(b), LayoutOf(o), file.cart, r)
  BY <1>2 DEF CartBytes
<1>4. \A f \in Fields(LayoutOf(b)) :
        Read(CartBytes(b), f) = Walked(f, LayoutOf(o), file.cart, r)
  <2>1. LayoutOf(o).total <= Len(file.cart)
    BY <1>1, <1>2 DEF Region, WellFormed
  <2> QED BY <1>1, <1>2, <1>3, <2>1, MigratedReads DEF Region
<1>5. ASSUME NEW n \in NamesOf(b)
      PROVE  Read(CartBytes(b), FieldOf(b, n)) = Carried(b)[n]
  <2> PICK f : f = FieldOf(b, n)
    OBVIOUS
  <2>1. f \in Fields(LayoutOf(b)) /\ f.name = n
    BY NamedField
  <2>2. Read(CartBytes(b), f) = Walked(f, LayoutOf(o), file.cart, r)
    BY <1>4, <2>1
  <2>3. CASE n \notin NamesOf(o)
    <3>1. OldField(LayoutOf(o), f) = {}
      BY <2>1, <2>3 DEF OldField, NamesOf
    <3>2. Carried(b)[n] = 0
      BY <2>3 DEF Carried
    <3> QED BY <2>2, <3>1, <3>2 DEF Walked
  <2>4. CASE n \in NamesOf(o)
    <3> PICK g : g = FieldOf(o, n)
      OBVIOUS
    <3>1. OldField(LayoutOf(o), f) = {g}
      BY <1>1, <2>1, <2>4, NamedField DEF OldField
    <3>2. (CHOOSE h \in OldField(LayoutOf(o), f) : TRUE) = g
      BY <3>1
    <3>3. Read(file.cart, g) = file.truth[n]
      BY <1>1, <2>4 DEF Reads
    <3>4. Walked(f, LayoutOf(o), file.cart, r)
            = IF g.type = f.type \/ (r = "widen" /\ g.type = "i32" /\ f.type = "i64")
              THEN file.truth[n] ELSE 0
      BY <3>1, <3>2, <3>3 DEF Walked
    <3>5. Carried(b)[n]
            = IF g.type = f.type \/ (r = "widen" /\ g.type = "i32" /\ f.type = "i64")
              THEN file.truth[n] ELSE 0
      BY <2>4 DEF Carried
    <3> QED BY <2>2, <3>4, <3>5
  <2> QED BY <2>3, <2>4
<1> QED BY <1>5 DEF Reads

\* The new binary loads the snapshot, or refuses it.
LEMMA ReloadKeeps ==
  ASSUME ReloadInv, NEW b \in DOMAIN Builds, Reload(b)
  PROVE  Running' /\ Filed'
<1>1. /\ file # NoFile /\ file' = file /\ Filed
      /\ file.build \in DOMAIN Builds /\ file.frame \in 0 .. MaxFrames
      /\ Region(file.build, file.cart, file.truth)
      /\ file.described \in BOOLEAN
      /\ file.described => Reads(file.build, file.cart, file.truth)
      /\ described' = (file.described /\ Describes(b))
  BY DEF ReloadInv, Filed, Reload
<1>2. Filed'
  BY <1>1 DEF Filed
<1>3. CASE SameHash(b)
  <2>1. /\ Start(b, "running", file.frame, file.cart) /\ truth' = file.truth
    BY <1>3 DEF Reload
  <2>2. LayoutOf(b) = LayoutOf(file.build)
    BY <1>3 DEF SameHash
  <2>3. NamesOf(b) = NamesOf(file.build) /\ \A n : FieldOf(b, n) = FieldOf(file.build, n)
    BY <2>2 DEF NamesOf, FieldOf
  <2>4. /\ Region(b, file.cart, file.truth)
        /\ file.described => Reads(b, file.cart, file.truth)
    BY <1>1, <2>2, <2>3 DEF Region, Reads
  <2> QED BY <1>1, <1>2, <2>1, <2>4 DEF Running, Start
<1>4. CASE ~SameHash(b) /\ (Refused(b) \/ ~CartLoads(b))
  <2>1. /\ truth' = Carried(b)
        /\ \/ Start(b, "refused", 0, Blank(b))
           \/ Start(b, "refused", file.frame, Blank(b))
    BY <1>4 DEF Reload
  <2>2. Region(b, Blank(b), Carried(b))
    BY BlankRegion DEF Region, Carried
  <2> QED BY <1>1, <1>2, <2>1, <2>2, BuildsAssumption DEF Running, Start
<1>5. CASE ~SameHash(b) /\ ~Refused(b) /\ CartLoads(b)
  <2>1. Start(b, "running", file.frame, CartBytes(b)) /\ truth' = Carried(b)
    BY <1>5 DEF Reload
  <2>2. Region(b, CartBytes(b), Carried(b))
    BY <1>1, <1>5, LoadedRegion
  <2>3. file.described /\ Describes(b) => Reads(b, CartBytes(b), Carried(b))
    BY <1>1, <1>5, CarriedReads DEF Describes
  <2> QED BY <1>1, <1>2, <2>1, <2>2, <2>3 DEF Running, Start
<1> QED BY <1>3, <1>4, <1>5

\* No other gate of save_state_n.c stands in a described edit's way.
LEMMA DescribedLoads ==
  ASSUME ReloadInv, NEW b \in DOMAIN Builds, Reload(b)
  PROVE  DescribedEditIsAccepted'
<1>1. SUFFICES ASSUME status' = "refused", Describes(b), Migrates(b)
               PROVE  LayoutOf(b).total > Scratch
  BY DEF DescribedEditIsAccepted, Reload, Start, Describes, SameHash
<1>2. ~SameHash(b) /\ (Refused(b) \/ ~CartLoads(b)) /\ HasDesc(b)
      /\ DescOf(b).old = LayoutOf(file.build)
  BY <1>1 DEF Reload, Start, Describes
<1>3. /\ file.build \in DOMAIN Builds
      /\ Len(file.cart) = LayoutOf(file.build).total
  BY DEF Reload, ReloadInv, Filed, Region
<1>4. LayoutOf(file.build).total \in Nat
  BY <1>3, BuildsAssumption DEF WellFormed
<1>5. ~Refused(b)
  BY <1>1, <1>2, <1>3, <1>4 DEF Refused, OldSizeFits, OldSize
<1>6. MigrateOK(DescOf(b).new, DescOf(b).old)
  BY <1>2, BuildsAssumption DEF MigrateOK, WellFormed, OldField
<1>7. LayoutOf(b).total \in Nat /\ Scratch \in Nat
  BY BuildsAssumption DEF WellFormed
<1> QED BY <1>2, <1>5, <1>6, <1>7 DEF CartLoads

\* Every step keeps the invariant.
LEMMA ReloadNext == ReloadInv /\ [Next]_vars => ReloadInv'
<1> SUFFICES ASSUME ReloadInv, [Next]_vars PROVE ReloadInv'
  OBVIOUS
<1>1. ASSUME NEW n \in NamesOf(build), NEW v \in -3 .. 1, CartUpdate(n, v) PROVE ReloadInv'
  BY <1>1, UpdateKeeps
<1>2. CASE Snapshot
  BY <1>2 DEF Snapshot, ReloadInv, Running, Filed, DescribedEditIsAccepted
<1>3. ASSUME NEW b \in DOMAIN Builds, Reload(b) PROVE ReloadInv'
  BY <1>3, ReloadKeeps, DescribedLoads DEF ReloadInv
<1>4. CASE UNCHANGED vars
  BY <1>4 DEF vars, ReloadInv, Running, Filed, DescribedEditIsAccepted, Describes, SameHash
<1> QED BY <1>1, <1>2, <1>3, <1>4 DEF Next

(***************************************************************************)
(* Whatever snapshot of the cart a build is given, the running region and  *)
(* the filed one always have the size of their layout, and as long as each *)
(* build knew the layout it loaded they read, field by field, what the     *)
(* cart last wrote or what the table carried over.                         *)
(***************************************************************************)
THEOREM ReloadInductive == Spec => []ReloadInv
<1>1. ReloadInv /\ [Next]_vars => ReloadInv'
  BY ReloadNext
<1> QED BY <1>1, ReloadInit, PTL DEF Spec

(***************************************************************************)
(* No described edit changes the state a running cart sees: each field of  *)
(* the region save_state_load_migrate left decodes to the number the table *)
(* gives it, whatever was moved, added, dropped or widened before; and a   *)
(* described edit is refused only for its size or for its driver.          *)
(***************************************************************************)
THEOREM EditsKeepState == Spec => []EditKeepsState
<1>1. ReloadInv => EditKeepsState
  <2> SUFFICES ASSUME ReloadInv PROVE EditKeepsState
    OBVIOUS
  <2>1. TypeOK
    BY DEF ReloadInv, Running, Region, TypeOK
  <2>2. ASSUME status = "running", described, NEW n \in NamesOf(build)
        PROVE  Decode(Slice(cart, FieldOf(build, n))) = truth[n]
    <3>1. build \in DOMAIN Builds /\ Region(build, cart, truth) /\ Reads(build, cart, truth)
      BY <2>2 DEF ReloadInv, Running
    <3>2. WellFormed(LayoutOf(build)) /\ FieldOf(build, n) \in Fields(LayoutOf(build))
      BY <2>2, <3>1, BuildsAssumption, NamedField
    <3>3. LayoutOf(build).total <= Len(cart)
      BY <3>1, <3>2 DEF Region, WellFormed
    <3>4. Decode(Slice(cart, FieldOf(build, n))) = Read(cart, FieldOf(build, n))
      BY <3>1, <3>2, <3>3, SliceReads DEF Region
    <3> QED BY <2>2, <3>1, <3>4 DEF Reads
  <2> QED BY <2>1, <2>2 DEF ReloadInv, EditKeepsState, StateSurvivesTheEdit
<1> QED BY <1>1, ReloadInductive, PTL

---------------------------------------------------------------------------
(***************************************************************************)
(* The GDB stub: the inductive invariant.                                  *)
(***************************************************************************)
Cut == P("cut", 0)
Packets == Requests \cup {Cut}
Bytes == Packets \cup {Ack, Dollar}

ServerAts == {"top", "accept", "loop", "read", "body", "handle", "send", "ack",
              "sendlib", "acklib", "close", "done"}

Servers == [at : ServerAts, req : Requests \cup {Dollar}, out : Replies]
Nets == [peer : {"none", "open", "closed"}, shut : BOOLEAN, lshut : BOOLEAN,
         bitten : BOOLEAN, held : BOOLEAN, toStub : Seq(Bytes), toGdb : Seq(Replies)]
Clients == [at : {"off", "idle", "reply", "resumed"}, req : Requests \cup {Dollar},
            sent : Nat, sessions : Nat]

StubTypes ==
  /\ running \in BOOLEAN /\ halted \in BOOLEAN /\ reload_pending \in BOOLEAN
  /\ client_fd \in BOOLEAN /\ pending \in {"c", "s"}
  /\ breaks \in Seq(Addrs) /\ Len(breaks) <= MaxBreaks
  /\ server \in Servers
  /\ cpu \in [at : {"run", "send", "recv", "ack", "wait"}, pc : Addrs, action : {"c", "s"}]
  /\ main \in {"run", "client", "listen", "join", "done"}
  /\ net \in Nets /\ gdb \in Clients
  /\ client_fd <=> server.at \notin {"top", "accept", "done"}

\* Every '$' still has its packet behind it, and so has the server that read
\* one: a byte taken out of a packet leaves a packet.
Framed(at, s) ==
  /\ \A i \in 1 .. Len(s) : s[i] = Dollar => i + 1 \in 1 .. Len(s) /\ s[i + 1] \in Packets
  /\ at = "body" => 1 \in 1 .. Len(s) /\ s[1] \in Packets

\* Nobody took a byte of a packet: every packet is whole and has its '$'.
Whole(at, s) ==
  \A i \in 1 .. Len(s) : s[i] \in Packets =>
    /\ s[i] # Cut
    /\ i = 1 => at = "body"
    /\ i # 1 => s[i - 1] = Dollar

Wire ==
  /\ Framed(server.at, net.toStub)
  /\ ~net.bitten => Whole(server.at, net.toStub)

Connected ==
  /\ gdb.at # "off" <=> net.peer = "open"
  /\ ~client_fd /\ ~net.held => net.toGdb = <<>>
  /\ net.held <=> ~client_fd /\ cpu.at = "ack"
  /\ net.held => ~halted
  /\ net.shut => ~running
  /\ main # "run" => ~running

Resumes(p) == p.op \in {"c", "s"}

\* A continue is among the bytes the server has not read.
OnItsWay(s) == \E i \in 1 .. Len(s) : Resumes(s[i])

\* A stop reply is among the packets GDB has not read.
StopReply(t) == \E i \in 1 .. Len(t) : t[i] \notin {"+", ""}

\* A continue that GDB waits on is on its way or being handled, or it has
\* cleared halted, or the stop that set halted again is on its way back.
Answered ==
  gdb.at = "resumed" /\ ~net.bitten /\ running =>
    \/ OnItsWay(net.toStub)
    \/ server.at = "handle" /\ Resumes(server.req)
    \/ ~halted
    \/ cpu.at = "send" /\ client_fd
    \/ StopReply(net.toGdb)

\* Before accept nothing is read.
Unread == ~client_fd /\ ~net.held /\ gdb.at = "resumed" => OnItsWay(net.toStub)

StubInv == StubTypes /\ Wire /\ Connected /\ Answered /\ Unread

(***************************************************************************)
(* Sequences and bytes.                                                    *)
(***************************************************************************)
LEMMA TailIs ==
  ASSUME NEW S, NEW s \in Seq(S), s # <<>>
  PROVE  /\ Tail(s) \in Seq(S) /\ Len(s) \in Nat \ {0} /\ Len(Tail(s)) = Len(s) - 1
         /\ Head(s) = s[1] /\ s[1] \in S
         /\ \A i \in 1 .. (Len(s) - 1) : Tail(s)[i] = s[i + 1]
  OBVIOUS

LEMMA NoneIs ==
  ASSUME NEW S PROVE <<>> \in Seq(S) /\ Len(<<>>) = 0
  OBVIOUS

LEMMA AppendIs ==
  ASSUME NEW S, NEW s \in Seq(S), NEW x \in S
  PROVE  /\ Append(s, x) \in Seq(S) /\ Len(s) \in Nat /\ Len(Append(s, x)) = Len(s) + 1
         /\ Append(s, x)[Len(s) + 1] = x
         /\ \A i \in 1 .. Len(s) : Append(s, x)[i] = s[i]
  OBVIOUS

LEMMA ByteKinds ==
  /\ Ack \notin Packets /\ Dollar \notin Packets /\ Ack # Dollar
  /\ ~Resumes(Ack) /\ ~Resumes(Dollar) /\ ~Resumes(Cut)
  /\ Cut \notin Requests
  /\ \A p \in Requests : p \in Packets /\ p # Cut /\ p # Ack /\ p # Dollar
  /\ \A p \in Bytes : Resumes(p) => p \in Packets
  BY DEF Ack, Dollar, Packets, Requests, Cut, P, Resumes, Bytes

LEMMA BittenIs ==
  ASSUME NEW p \in Packets, NEW r \in Bitten(p)
  PROVE  r \in Packets
  BY DEF Bitten, Packets, Requests, P, Cut

\* The first byte is taken.
LEMMA Pop ==
  ASSUME NEW at, NEW to, NEW s \in Seq(Bytes), s # <<>>, Framed(at, s),
         to = "body" => s[1] = Dollar
  PROVE  /\ Tail(s) \in Seq(Bytes)
         /\ Framed(to, Tail(s))
         /\ Whole(at, s) /\ (s[1] = Dollar => to = "body") => Whole(to, Tail(s))
         /\ OnItsWay(s) => OnItsWay(Tail(s)) \/ Resumes(s[1])
<1> PICK t : t = Tail(s)
  OBVIOUS
<1> PICK n \in Nat : n = Len(t)
  BY TailIs
<1>1. /\ t \in Seq(Bytes) /\ Len(s) = n + 1
      /\ \A i \in 1 .. n : t[i] = s[i + 1]
  BY TailIs
<1>2. /\ \A i \in 1 .. n : i + 1 \in 1 .. (n + 1) /\ (i + 1) - 1 = i /\ i + 1 # 1
      /\ \A i \in 1 .. (n + 1) : i = 1 \/ (i - 1 \in 1 .. n /\ (i - 1) + 1 = i)
      /\ 1 \in 1 .. (n + 1) /\ 1 + 1 = 2
  OBVIOUS
<1>3. Framed(to, t)
  <2>1. ASSUME NEW i \in 1 .. n, t[i] = Dollar
        PROVE  i + 1 \in 1 .. n /\ t[i + 1] \in Packets
    <3>1. s[i + 1] = Dollar /\ i + 1 \in 1 .. Len(s)
      BY <1>1, <1>2, <2>1
    <3>2. (i + 1) + 1 \in 1 .. Len(s) /\ s[(i + 1) + 1] \in Packets
      BY <3>1 DEF Framed
    <3>3. i + 1 \in 1 .. n
      BY ONLY <1>1, <3>2, n \in Nat, i \in 1 .. n
    <3> QED BY <1>1, <3>2, <3>3
  <2>2. ASSUME to = "body" PROVE 1 \in 1 .. n /\ t[1] \in Packets
    <3>1. 1 + 1 \in 1 .. Len(s) /\ s[1 + 1] \in Packets
      BY <1>1, <1>2, <2>2 DEF Framed
    <3>2. 1 \in 1 .. n
      BY ONLY <1>1, <3>1, n \in Nat
    <3> QED BY <1>1, <3>1, <3>2
  <2> QED BY <2>1, <2>2 DEF Framed
<1>4. ASSUME Whole(at, s), s[1] = Dollar => to = "body" PROVE Whole(to, t)
  <2> SUFFICES ASSUME NEW i \in 1 .. n, t[i] \in Packets
               PROVE  t[i] # Cut /\ (i = 1 => to = "body") /\ (i # 1 => t[i - 1] = Dollar)
    BY DEF Whole
  <2>1. s[i + 1] \in Packets /\ i + 1 \in 1 .. Len(s)
    BY <1>1, <1>2
  <2>2. s[i + 1] # Cut /\ s[(i + 1) - 1] = Dollar
    BY <1>2, <1>4, <2>1 DEF Whole
  <2>3. t[i] # Cut /\ s[i] = Dollar
    BY <1>1, <1>2, <2>2
  <2>4. ASSUME i # 1 PROVE t[i - 1] = Dollar
    <3>1. i - 1 \in 1 .. n /\ (i - 1) + 1 = i
      BY <2>4
    <3> QED BY <1>1, <2>3, <3>1
  <2> QED BY <1>4, <2>3, <2>4
<1>5. OnItsWay(s) => OnItsWay(t) \/ Resumes(s[1])
  <2> SUFFICES ASSUME NEW i \in 1 .. (n + 1), Resumes(s[i]), i # 1
               PROVE  OnItsWay(t)
    BY <1>1 DEF OnItsWay
  <2>1. i - 1 \in 1 .. n /\ t[i - 1] = s[i]
    BY <1>1, <1>2
  <2> QED BY <2>1 DEF OnItsWay
<1> QED BY <1>1, <1>3, <1>4, <1>5

\* An ack is sent.
LEMMA PushAck ==
  ASSUME NEW at, NEW s \in Seq(Bytes), Framed(at, s)
  PROVE  /\ Append(s, Ack) \in Seq(Bytes)
         /\ Framed(at, Append(s, Ack))
         /\ Whole(at, s) => Whole(at, Append(s, Ack))
         /\ OnItsWay(s) => OnItsWay(Append(s, Ack))
<1> PICK t : t = Append(s, Ack)
  OBVIOUS
<1> PICK n \in Nat : n = Len(s)
  OBVIOUS
<1>1. /\ t \in Seq(Bytes) /\ Len(t) = n + 1 /\ t[n + 1] = Ack
      /\ \A i \in 1 .. n : t[i] = s[i]
  BY AppendIs DEF Bytes
<1>2. /\ \A i \in 1 .. (n + 1) : i \in 1 .. n \/ i = n + 1
      /\ \A i \in 1 .. n : i \in 1 .. (n + 1) /\ (i # 1 => i - 1 \in 1 .. n)
  OBVIOUS
<1>3. Framed(at, t)
  BY <1>1, <1>2, ByteKinds DEF Framed
<1>4. Whole(at, s) => Whole(at, t)
  BY <1>1, <1>2, ByteKinds DEF Whole
<1>5. OnItsWay(s) => OnItsWay(t)
  BY <1>1, <1>2 DEF OnItsWay
<1> QED BY <1>1, <1>3, <1>4, <1>5

\* A packet is sent.
LEMMA PushPacket ==
  ASSUME NEW at, NEW s \in Seq(Bytes), Framed(at, s), NEW r \in Requests
  PROVE  /\ s \o <<Dollar, r>> \in Seq(Bytes)
         /\ Framed(at, s \o <<Dollar, r>>)
         /\ Whole(at, s) => Whole(at, s \o <<Dollar, r>>)
         /\ OnItsWay(s) \/ Resumes(r) => OnItsWay(s \o <<Dollar, r>>)
<1> PICK t : t = s \o <<Dollar, r>>
  OBVIOUS
<1> PICK n \in Nat : n = Len(s)
  OBVIOUS
<1>0. r \in Packets /\ r # Cut /\ r # Dollar /\ Dollar \notin Packets /\ r \in Bytes /\ Dollar \in Bytes
  BY ByteKinds DEF Bytes
<1>1. /\ t \in Seq(Bytes) /\ Len(t) = n + 2 /\ t[n + 1] = Dollar /\ t[n + 2] = r
      /\ \A i \in 1 .. n : t[i] = s[i]
  BY <1>0
<1>2. /\ \A i \in 1 .. (n + 2) : i \in 1 .. n \/ i = n + 1 \/ i = n + 2
      /\ \A i \in 1 .. n : i \in 1 .. (n + 2) /\ (i # 1 => i - 1 \in 1 .. n)
      /\ n + 2 \in 1 .. (n + 2) /\ (n + 1) + 1 = n + 2 /\ (n + 2) - 1 = n + 1
      /\ n + 2 # 1
  OBVIOUS
<1>3. Framed(at, t)
  <2>1. ASSUME NEW i \in 1 .. (n + 2), t[i] = Dollar
        PROVE  i + 1 \in 1 .. (n + 2) /\ t[i + 1] \in Packets
    <3>1. CASE i \in 1 .. n
      <4>1. i + 1 \in 1 .. n /\ s[i + 1] \in Packets
        BY <1>1, <2>1, <3>1 DEF Framed
      <4> QED BY <1>1, <1>2, <4>1
    <3>2. CASE i = n + 1
      BY <1>0, <1>1, <1>2, <3>2
    <3>3. CASE i = n + 2
      BY <1>0, <1>1, <2>1, <3>3
    <3> QED BY <1>2, <3>1, <3>2, <3>3
  <2>2. at = "body" => 1 \in 1 .. (n + 2) /\ t[1] \in Packets
    BY <1>1, <1>2 DEF Framed
  <2> QED BY <1>1, <2>1, <2>2 DEF Framed
<1>4. ASSUME Whole(at, s) PROVE Whole(at, t)
  <2> SUFFICES ASSUME NEW i \in 1 .. (n + 2), t[i] \in Packets
               PROVE  t[i] # Cut /\ (i = 1 => at = "body") /\ (i # 1 => t[i - 1] = Dollar)
    BY <1>1 DEF Whole
  <2>1. CASE i \in 1 .. n
    <3>1. s[i] # Cut /\ (i = 1 => at = "body") /\ (i # 1 => s[i - 1] = Dollar)
      BY <1>1, <1>4, <2>1 DEF Whole
    <3> QED BY <1>1, <1>2, <2>1, <3>1
  <2>2. CASE i = n + 1
    BY <1>0, <1>1, <2>2
  <2>3. CASE i = n + 2
    BY <1>0, <1>1, <1>2, <2>3
  <2> QED BY <1>2, <2>1, <2>2, <2>3
<1>5. OnItsWay(s) => OnItsWay(t)
  BY <1>1, <1>2 DEF OnItsWay
<1>6. Resumes(r) => OnItsWay(t)
  BY <1>1, <1>2 DEF OnItsWay
<1> QED BY <1>1, <1>3, <1>4, <1>5, <1>6

\* A byte is taken out of the packet in front.
LEMMA Bite ==
  ASSUME NEW at, NEW s \in Seq(Bytes), s # <<>>, Framed(at, s), s[1] \in Packets,
         NEW r \in Bitten(s[1])
  PROVE  /\ [s EXCEPT ![1] = r] \in Seq(Bytes)
         /\ Framed(at, [s EXCEPT ![1] = r])
<1> PICK t : t = [s EXCEPT ![1] = r]
  OBVIOUS
<1> PICK n \in Nat : n = Len(s) /\ 1 \in 1 .. n
  BY TailIs
<1>1. r \in Packets /\ r \in Bytes /\ r # Dollar
  BY BittenIs, ByteKinds DEF Bytes
<1>2. /\ t \in Seq(Bytes) /\ Len(t) = n /\ t[1] = r
      /\ \A i \in 1 .. n : i # 1 => t[i] = s[i]
  BY <1>1
<1>3. Framed(at, t)
  <2>1. ASSUME NEW i \in 1 .. n, t[i] = Dollar
        PROVE  i + 1 \in 1 .. n /\ t[i + 1] \in Packets
    <3>1. i # 1 /\ s[i] = Dollar
      BY <1>1, <1>2, <2>1
    <3>2. i + 1 \in 1 .. n /\ s[i + 1] \in Packets /\ i + 1 # 1
      BY <3>1 DEF Framed
    <3> QED BY <1>2, <3>2
  <2> QED BY <1>1, <1>2, <2>1 DEF Framed
<1> QED BY <1>2, <1>3

\* What send_pkt takes for its ack.
LEMMA Taken ==
  ASSUME StubInv, TakeOneByte, NEW to, (to = "body") <=> (server.at = "body")
  PROVE  /\ net' \in Nets
         /\ net'.peer = net.peer /\ net'.shut = net.shut /\ net'.held = net.held /\ net'.toGdb = net.toGdb
         /\ net'.lshut = net.lshut /\ (net.bitten => net'.bitten)
         /\ Framed(to, net'.toStub)
         /\ ~net'.bitten => Whole(to, net'.toStub)
         /\ ~net'.bitten => (OnItsWay(net.toStub) => OnItsWay(net'.toStub))
<1> PICK s \in Seq(Bytes) : s = net.toStub
  BY DEF StubInv, StubTypes, Nets
<1>0. net \in Nets /\ Framed(server.at, s) /\ (~net.bitten => Whole(server.at, s))
  BY DEF StubInv, StubTypes, Wire, Nets
<1>1. CASE Eof /\ UNCHANGED net
  <2>1. Framed(to, s) /\ (~net.bitten => Whole(to, s))
    BY <1>0 DEF Framed, Whole
  <2> QED BY <1>0, <1>1, <2>1
<1>2. CASE s # <<>> /\ s[1] = Ack /\ net' = [net EXCEPT !.toStub = Tail(s)]
  <2>1. to # "body" /\ s[1] # Dollar /\ ~Resumes(s[1])
    BY <1>0, <1>2, ByteKinds DEF Framed
  <2>2. /\ Tail(s) \in Seq(Bytes) /\ Framed(to, Tail(s))
        /\ Whole(server.at, s) => Whole(to, Tail(s))
        /\ OnItsWay(s) => OnItsWay(Tail(s))
    BY <1>0, <1>2, <2>1, Pop
  <2>3. /\ net'.toStub = Tail(s) /\ net'.peer = net.peer /\ net'.shut = net.shut /\ net'.held = net.held
        /\ net'.toGdb = net.toGdb /\ net'.lshut = net.lshut /\ net'.bitten = net.bitten
        /\ net' \in Nets
    BY <1>0, <1>2, <2>2 DEF Nets
  <2> QED BY <1>0, <1>2, <2>2, <2>3
<1>3. CASE /\ s # <<>> /\ s[1] = Dollar
           /\ net' = [net EXCEPT !.toStub = Tail(s), !.bitten = TRUE]
  <2>1. to # "body"
    BY <1>0, <1>3, ByteKinds DEF Framed
  <2>2. Tail(s) \in Seq(Bytes) /\ Framed(to, Tail(s))
    BY <1>0, <1>3, <2>1, Pop
  <2>3. /\ net'.toStub = Tail(s) /\ net'.peer = net.peer /\ net'.shut = net.shut /\ net'.held = net.held
        /\ net'.toGdb = net.toGdb /\ net'.lshut = net.lshut /\ net'.bitten = TRUE
        /\ net' \in Nets
    BY <1>0, <1>3, <2>2 DEF Nets
  <2> QED BY <1>3, <2>2, <2>3
<1>4. ASSUME s # <<>>, s[1] \notin {Ack, Dollar}, NEW r \in Bitten(s[1]),
             net' = [net EXCEPT !.toStub[1] = r, !.bitten = TRUE]
      PROVE  /\ net' \in Nets
             /\ net'.peer = net.peer /\ net'.shut = net.shut /\ net'.held = net.held /\ net'.toGdb = net.toGdb
             /\ net'.lshut = net.lshut /\ net'.bitten
             /\ Framed(to, net'.toStub)
  <2>1. s[1] \in Packets
    BY <1>4, TailIs DEF Bytes
  <2>2. [s EXCEPT ![1] = r] \in Seq(Bytes) /\ Framed(to, [s EXCEPT ![1] = r])
    <3>1. Framed(to, s)
      BY <1>0 DEF Framed
    <3> QED BY <1>4, <2>1, <3>1, Bite
  <2>3. /\ net'.toStub = [s EXCEPT ![1] = r] /\ net'.peer = net.peer /\ net'.shut = net.shut /\ net'.held = net.held
        /\ net'.toGdb = net.toGdb /\ net'.lshut = net.lshut /\ net'.bitten = TRUE
        /\ net' \in Nets
    BY <1>0, <1>4, <2>2 DEF Nets
  <2> QED BY <2>2, <2>3
<1>5. s # <<>> => Head(s) = s[1]
  BY TailIs
<1> QED BY <1>1, <1>2, <1>3, <1>4, <1>5 DEF TakeOneByte

\* What send_pkt writes.
LEMMA Sent ==
  ASSUME StubInv, NEW r \in Replies
  PROVE  /\ ToGdb(r) \in Nets
         /\ ToGdb(r).peer = net.peer /\ ToGdb(r).shut = net.shut /\ ToGdb(r).held = net.held
         /\ ToGdb(r).lshut = net.lshut /\ ToGdb(r).bitten = net.bitten
         /\ ToGdb(r).toStub = net.toStub
         /\ StopReply(net.toGdb) => StopReply(ToGdb(r).toGdb)
         /\ r \notin {"+", ""} /\ net.peer = "open" /\ ~net.shut => StopReply(ToGdb(r).toGdb)
<1> PICK t \in Seq(Replies) : t = net.toGdb
  BY DEF StubInv, StubTypes, Nets
<1>0. net \in Nets
  BY DEF StubInv, StubTypes, Nets
<1>1. /\ Append(t, r) \in Seq(Replies)
      /\ StopReply(t) => StopReply(Append(t, r))
      /\ r \notin {"+", ""} => StopReply(Append(t, r))
  <2>1. /\ Append(t, r) \in Seq(Replies) /\ Len(t) \in Nat /\ Len(Append(t, r)) = Len(t) + 1
        /\ Append(t, r)[Len(t) + 1] = r
        /\ \A i \in 1 .. Len(t) : Append(t, r)[i] = t[i]
    BY AppendIs
  <2>2. /\ Len(t) + 1 \in 1 .. (Len(t) + 1)
        /\ \A i \in 1 .. Len(t) : i \in 1 .. (Len(t) + 1)
    BY <2>1
  <2> QED BY <2>1, <2>2 DEF StopReply
<1>2. CASE net.peer = "open" /\ ~net.shut
  <2>1. ToGdb(r) = [net EXCEPT !.toGdb = Append(t, r)]
    BY <1>0, <1>2 DEF ToGdb, Nets
  <2> QED BY <1>0, <1>1, <1>2, <2>1 DEF Nets
<1>3. CASE ~(net.peer = "open" /\ ~net.shut)
  <2>1. ToGdb(r) = [net EXCEPT !.toGdb = t]
    BY <1>0, <1>3 DEF ToGdb, Nets
  <2> QED BY <1>0, <1>3, <2>1 DEF Nets
<1> QED BY <1>2, <1>3

\* handle_z0's compaction is a table of no more entries.
LEMMA WithoutIs ==
  ASSUME breaks \in Seq(Addrs), NEW a
  PROVE  Without(a) \in Seq(Addrs) /\ Len(Without(a)) <= Len(breaks)
<1> PICK n \in Nat : n = Len(breaks) /\ DOMAIN breaks = 1 .. n
  OBVIOUS
<1> DEFINE K == KeptBreaks(a)
           Upto(i) == {k \in K : k <= i}
<1>1. K \subseteq 1 .. n /\ K \subseteq Nat /\ \A i \in K : breaks[i] \in Addrs
  BY DEF KeptBreaks
<1>2. IsFiniteSet(1 .. n) /\ Cardinality(1 .. n) = n
  <2>1. 1 \in Int /\ n \in Int
    OBVIOUS
  <2>2. /\ IsFiniteSet(1 .. n)
        /\ Cardinality(1 .. n) = IF 1 > n THEN 0 ELSE n - 1 + 1
    BY ONLY <2>1, FS_Interval, Zenon
  <2> QED BY <2>2
<1> HIDE DEF K
<1>3. IsFiniteSet(K) /\ Cardinality(K) \in Nat /\ Cardinality(K) <= n
  <2>1. K \in SUBSET (1 .. n)
    BY <1>1
  <2>2. IsFiniteSet(K) /\ Cardinality(K) <= Cardinality(1 .. n)
    BY ONLY <1>2, <2>1, FS_Subset, Zenon
  <2> QED BY <1>2, <2>2, FS_CardinalityType
<1>4. \A i : IsFiniteSet(Upto(i)) /\ Cardinality(Upto(i)) \in Nat
             /\ Cardinality(Upto(i)) <= Cardinality(K)
  <2> TAKE i
  <2>1. Upto(i) \in SUBSET K
    OBVIOUS
  <2> HIDE DEF Upto
  <2> QED BY <1>3, <2>1, FS_Subset, FS_CardinalityType
<1>5. \A i \in K : Cardinality(Upto(i)) >= 1
  <2> TAKE i \in K
  <2>1. i \in Upto(i)
    BY <1>1
  <2> HIDE DEF Upto
  <2> QED BY <1>4, <2>1, FS_EmptySet
<1>6. \A i, j \in K : i < j => Cardinality(Upto(i)) < Cardinality(Upto(j))
  <2> SUFFICES ASSUME NEW i \in K, NEW j \in K, i < j
               PROVE  Cardinality(Upto(i)) < Cardinality(Upto(j))
    OBVIOUS
  <2>1. Upto(i) \cup {j} \in SUBSET Upto(j) /\ j \notin Upto(i)
    <3>1. j \notin Upto(i) /\ j \in Upto(j)
      BY <1>1
    <3>2. \A k \in Upto(i) : k \in Upto(j)
      BY <1>1
    <3> QED BY <3>1, <3>2
  <2> HIDE DEF Upto
  <2>2. Cardinality(Upto(i) \cup {j}) = Cardinality(Upto(i)) + 1
    BY <1>4, <2>1, FS_AddElement
  <2>3. Cardinality(Upto(i) \cup {j}) <= Cardinality(Upto(j))
    BY <1>4, <2>1, FS_Subset
  <2> QED BY <1>4, <2>2, <2>3
<1>7. \A i : kept(a, i) = Cardinality(Upto(i))
  BY DEF kept, K
<1> HIDE DEF Upto
<1>8. /\ \A i, j \in K : kept(a, i) = kept(a, j) => i = j
      /\ \A i \in K : kept(a, i) \in 1 .. Cardinality(K)
  BY <1>1, <1>3, <1>4, <1>5, <1>6, <1>7
<1>9. \A m \in 1 .. Cardinality(K) : \E i \in K : kept(a, i) = m
  <2> DEFINE f == [i \in K |-> kept(a, i)]
  <2>1. f \in Injection(K, 1 .. Cardinality(K))
    BY <1>8 DEF Injection, IsInjective
  <2>2. IsFiniteSet(1 .. Cardinality(K))
        /\ Cardinality(1 .. Cardinality(K)) = Cardinality(K)
    <3>1. 1 \in Int /\ Cardinality(K) \in Int
      BY <1>3
    <3>2. /\ IsFiniteSet(1 .. Cardinality(K))
          /\ Cardinality(1 .. Cardinality(K))
               = IF 1 > Cardinality(K) THEN 0 ELSE Cardinality(K) - 1 + 1
      BY ONLY <3>1, FS_Interval, Zenon
    <3> QED BY <1>3, <3>2
  <2>3. f \in Surjection(K, 1 .. Cardinality(K))
    BY <2>1, <2>2, FS_Injection
  <2> QED BY <2>3 DEF Surjection
<1>10. \A m \in 1 .. Cardinality(K) : breaks[CHOOSE i \in K : kept(a, i) = m] \in Addrs
  BY <1>1, <1>9
<1>11. Without(a) = [m \in 1 .. Cardinality(K) |-> breaks[CHOOSE i \in K : kept(a, i) = m]]
  BY DEF Without, K
<1> QED BY <1>3, <1>10, <1>11

\* Only whether the server is in the middle of a packet matters.
LEMMA SameFrame ==
  ASSUME NEW at, NEW to, (to = "body") <=> (at = "body"), NEW s
  PROVE  (Framed(at, s) => Framed(to, s)) /\ (Whole(at, s) => Whole(to, s))
  BY DEF Framed, Whole

LEMMA ReplyTaken ==
  ASSUME NEW t \in Seq(Replies), t # <<>>
  PROVE  /\ Tail(t) \in Seq(Replies) /\ Head(t) \in Replies
         /\ StopReply(t) /\ Head(t) \in {"+", ""} => StopReply(Tail(t))
<1>1. /\ Tail(t) \in Seq(Replies) /\ Len(t) \in Nat \ {0} /\ Len(Tail(t)) = Len(t) - 1
      /\ Head(t) = t[1] /\ t[1] \in Replies
      /\ \A i \in 1 .. (Len(t) - 1) : Tail(t)[i] = t[i + 1]
  BY TailIs
<1>2. ASSUME NEW i \in 1 .. Len(t), t[i] \notin {"+", ""}, t[1] \in {"+", ""}
      PROVE  StopReply(Tail(t))
  <2>1. i # 1
    BY <1>2
  <2>2. i - 1 \in 1 .. (Len(t) - 1) /\ (i - 1) + 1 = i
    BY <1>1, <2>1
  <2>3. Tail(t)[i - 1] = t[i]
    BY <1>1, <2>2
  <2> QED BY <1>1, <1>2, <2>2, <2>3 DEF StopReply
<1> QED BY <1>1, <1>2 DEF StopReply

LEMMA PacketIs ==
  /\ \A p \in Packets : p.op = "cut" => p = Cut
  /\ \A p \in Packets : p.op # "cut" => p \in Requests
  /\ \A p \in Requests \cup {Dollar} : p.op \in {"Z0", "z0"} => p.a \in Addrs
  BY DEF Packets, Requests, Cut, P, Dollar

(***************************************************************************)
(* The steps of the server thread that leave the socket alone.             *)
(***************************************************************************)
LEMMA ServerMoves ==
  ASSUME StubInv, SvTop \/ SvAccept \/ SvAcceptFails \/ SvLoop
  PROVE  StubInv'
<1>0. StubTypes /\ Wire /\ Connected /\ Answered /\ Unread
  BY DEF StubInv
<1>1. /\ server.at \in {"top", "accept", "loop"}
      /\ UNCHANGED <<running, pending, reload_pending, breaks, cpu, main, net, gdb>>
      /\ halted' \in BOOLEAN
  BY <1>0 DEF SvTop, SvAccept, SvAcceptFails, SvLoop, StubTypes, state
<1>a. PICK to \in ServerAts \ {"body", "handle"} :
        /\ server' = [server EXCEPT !.at = to]
        /\ client_fd' <=> to \notin {"top", "accept", "done"}
        /\ client_fd' \in BOOLEAN
  <2>0. client_fd \in BOOLEAN /\ (client_fd <=> server.at \notin {"top", "accept", "done"})
    BY <1>0 DEF StubTypes
  <2>1. CASE SvTop
    BY <2>0, <2>1 DEF SvTop, ServerAts, state
  <2>2. CASE SvAccept
    BY <2>2 DEF SvAccept, ServerAts
  <2>3. CASE SvAcceptFails
    BY <2>0, <2>3 DEF SvAcceptFails, ServerAts, state
  <2>4. CASE SvLoop
    BY <2>0, <2>4 DEF SvLoop, ServerAts, state
  <2> QED BY <2>1, <2>2, <2>3, <2>4
<1>b. server' \in Servers /\ server'.at = to
  BY <1>0, <1>a DEF StubTypes, Servers
<1>2. StubTypes'
  BY <1>0, <1>1, <1>a, <1>b DEF StubTypes
<1>3. Wire'
  <2>1. /\ Framed(server.at, net.toStub) => Framed(server'.at, net.toStub)
        /\ Whole(server.at, net.toStub) => Whole(server'.at, net.toStub)
    BY ONLY <1>1, <1>a, <1>b, SameFrame
  <2> QED BY <1>0, <1>1, <2>1 DEF Wire
<1>4. Connected'
  BY <1>0, <1>1 DEF Connected, SvTop, SvAccept, SvAcceptFails, SvLoop, state
<1>5. Answered'
  <2>1. CASE SvAccept
    BY <1>0, <1>1, <1>b, <2>1 DEF SvAccept, Answered, Unread, StubTypes
  <2>2. CASE SvTop \/ SvAcceptFails \/ SvLoop
    BY <1>0, <1>1, <1>b, <2>2 DEF SvTop, SvAcceptFails, SvLoop, Answered, state
  <2> QED BY <2>1, <2>2
<1>6. Unread'
  BY <1>0, <1>1 DEF Unread, SvTop, SvAccept, SvAcceptFails, SvLoop, state
<1> QED BY <1>2, <1>3, <1>4, <1>5, <1>6 DEF StubInv

LEMMA ServerReads ==
  ASSUME StubInv, SvRead
  PROVE  StubInv'
<1>0. StubTypes /\ Wire /\ Connected /\ Answered /\ Unread /\ net \in Nets
  BY DEF StubInv, StubTypes, Nets
<1> PICK s \in Seq(Bytes) : s = net.toStub
  BY <1>0 DEF Nets
<1>1. /\ server.at = "read" /\ client_fd /\ Framed("read", s) /\ (~net.bitten => Whole("read", s))
      /\ UNCHANGED <<running, halted, pending, reload_pending, breaks, client_fd, cpu, main, gdb>>
  BY <1>0 DEF SvRead, StubTypes, Wire, state
<1>2. CASE /\ s # <<>> /\ net' = [net EXCEPT !.toStub = Tail(s)]
           /\ server' = [server EXCEPT !.at = IF s[1] = Dollar THEN "body" ELSE "read"]
  <2> PICK to \in {"body", "read"} : to = server'.at /\ ((to = "body") <=> (s[1] = Dollar))
    BY <1>0, <1>2 DEF StubTypes, Servers
  <2>1. /\ Tail(s) \in Seq(Bytes) /\ Framed(to, Tail(s))
        /\ Whole("read", s) => Whole(to, Tail(s))
        /\ OnItsWay(s) => OnItsWay(Tail(s)) \/ Resumes(s[1])
    BY <1>1, <1>2, Pop
  <2>2. /\ net'.toStub = Tail(s) /\ net'.peer = net.peer /\ net'.shut = net.shut /\ net'.held = net.held
        /\ net'.toGdb = net.toGdb /\ net'.lshut = net.lshut /\ net'.bitten = net.bitten
        /\ net' \in Nets
    BY <1>0, <1>2, <2>1 DEF Nets
  <2>a. server' \in Servers
    BY <1>0, <1>2 DEF StubTypes, Servers, ServerAts
  <2>3. StubTypes'
    BY <1>0, <1>1, <2>2, <2>a DEF StubTypes
  <2>4. Wire'
    BY <1>1, <2>1, <2>2 DEF Wire
  <2>5. Connected' /\ Unread'
    BY <1>0, <1>1, <2>2 DEF Connected, Unread
  <2>6. Whole("read", s) => ~Resumes(s[1])
    <3>1. s[1] \in Bytes /\ 1 \in 1 .. Len(s)
      BY <1>2, TailIs
    <3>2. Whole("read", s) => s[1] \notin Packets
      BY <3>1 DEF Whole
    <3> QED BY <3>1, <3>2, ByteKinds
  <2>7. Answered'
    BY <1>0, <1>1, <2>1, <2>2, <2>6 DEF Answered
  <2> QED BY <2>3, <2>4, <2>5, <2>7 DEF StubInv
<1>3. CASE server' = [server EXCEPT !.at = "close"] /\ UNCHANGED net
  <2>2. server'.at = "close" /\ server' \in Servers
    BY <1>0, <1>3 DEF StubTypes, Servers, ServerAts
  <2>1. StubTypes'
    BY <1>0, <1>1, <1>3, <2>2 DEF StubTypes
  <2>3. Wire'
    BY <1>1, <1>3, <2>2 DEF Wire, Framed, Whole
  <2>4. Connected' /\ Unread' /\ Answered'
    BY <1>0, <1>1, <1>3, <2>2 DEF Connected, Unread, Answered
  <2> QED BY <2>1, <2>3, <2>4 DEF StubInv
<1>4. s # <<>> => Head(s) = s[1]
  BY TailIs
<1> QED BY <1>2, <1>3, <1>4 DEF SvRead

LEMMA ServerReadsBody ==
  ASSUME StubInv, SvBody
  PROVE  StubInv'
<1>0. StubTypes /\ Wire /\ Connected /\ Answered /\ Unread /\ net \in Nets
  BY DEF StubInv, StubTypes, Nets
<1> PICK s \in Seq(Bytes) : s = net.toStub
  BY <1>0 DEF Nets
<1>1. /\ server.at = "body" /\ client_fd /\ Framed("body", s) /\ (~net.bitten => Whole("body", s))
      /\ s # <<>> /\ Head(s) = s[1]
      /\ UNCHANGED <<running, halted, pending, reload_pending, breaks, client_fd, cpu, main, gdb>>
  BY <1>0, TailIs DEF SvBody, StubTypes, Wire, state
<1>2. s[1] \in Packets /\ 1 \in 1 .. Len(s) /\ s[1] # Dollar
  BY <1>1, ByteKinds DEF Framed
<1>3. /\ Tail(s) \in Seq(Bytes)
      /\ Framed("close", Tail(s)) /\ Framed("handle", Tail(s))
      /\ Whole("body", s) => Whole("close", Tail(s)) /\ Whole("handle", Tail(s))
      /\ OnItsWay(s) => OnItsWay(Tail(s)) \/ Resumes(s[1])
  <2>1. /\ Tail(s) \in Seq(Bytes) /\ Framed("close", Tail(s))
        /\ Whole("body", s) => Whole("close", Tail(s))
        /\ OnItsWay(s) => OnItsWay(Tail(s)) \/ Resumes(s[1])
    <3> PICK to : to = "close"
      OBVIOUS
    <3> PICK at : at = "body"
      OBVIOUS
    <3>1. s # <<>> /\ Framed(at, s) /\ (to = "body" => s[1] = Dollar) /\ s[1] # Dollar
      BY <1>1, <1>2
    <3>2. /\ Tail(s) \in Seq(Bytes) /\ Framed(to, Tail(s))
          /\ Whole(at, s) => Whole(to, Tail(s))
          /\ OnItsWay(s) => OnItsWay(Tail(s)) \/ Resumes(s[1])
      BY ONLY <3>1, s \in Seq(Bytes), Pop
    <3> QED BY <3>2
  <2>2. /\ Framed("close", Tail(s)) => Framed("handle", Tail(s))
        /\ Whole("close", Tail(s)) => Whole("handle", Tail(s))
    BY ONLY SameFrame
  <2> QED BY <2>1, <2>2
<1>4. CASE s[1].op = "cut"
  <2>0. server' = [server EXCEPT !.at = "close"] /\ net' = [net EXCEPT !.toStub = Tail(s)]
    BY <1>1, <1>4 DEF SvBody
  <2>1. net.bitten
    BY <1>1, <1>2, <1>4, PacketIs DEF Whole
  <2>2. /\ net'.toStub = Tail(s) /\ net'.peer = net.peer /\ net'.shut = net.shut /\ net'.held = net.held
        /\ net'.toGdb = net.toGdb /\ net'.lshut = net.lshut /\ net'.bitten = net.bitten
        /\ net' \in Nets
    BY <1>0, <1>3, <2>0 DEF Nets
  <2>a. server'.at = "close" /\ server' \in Servers
    BY <1>0, <2>0 DEF StubTypes, Servers, ServerAts
  <2>3. StubTypes'
    BY <1>0, <1>1, <2>2, <2>a DEF StubTypes
  <2>4. Wire' /\ Connected' /\ Unread' /\ Answered'
    BY <1>0, <1>1, <1>3, <2>1, <2>2, <2>a DEF Wire, Connected, Unread, Answered
  <2> QED BY <2>3, <2>4 DEF StubInv
<1>5. CASE s[1].op # "cut"
  <2>0. /\ server' = [server EXCEPT !.at = "handle", !.req = s[1]]
        /\ net' = [ToGdb("+") EXCEPT !.toStub = Tail(@)]
    BY <1>1, <1>5 DEF SvBody
  <2>1. s[1] \in Requests
    BY <1>2, <1>5, PacketIs
  <2>2. "+" \in Replies
    BY DEF Replies
  <2>3. /\ ToGdb("+") \in Nets
        /\ ToGdb("+").peer = net.peer /\ ToGdb("+").shut = net.shut /\ ToGdb("+").held = net.held
        /\ ToGdb("+").lshut = net.lshut /\ ToGdb("+").bitten = net.bitten
        /\ ToGdb("+").toStub = net.toStub
        /\ StopReply(net.toGdb) => StopReply(ToGdb("+").toGdb)
    BY <2>2, Sent
  <2>4. /\ net'.toStub = Tail(s) /\ net'.peer = net.peer /\ net'.shut = net.shut /\ net'.held = net.held
        /\ net'.lshut = net.lshut /\ net'.bitten = net.bitten
        /\ StopReply(net.toGdb) => StopReply(net'.toGdb)
        /\ net' \in Nets
    BY <1>3, <2>0, <2>3 DEF Nets
  <2>5. server'.at = "handle" /\ server'.req = s[1] /\ server' \in Servers
    BY <1>0, <2>0, <2>1 DEF StubTypes, Servers, ServerAts
  <2>6. StubTypes'
    BY <1>0, <1>1, <2>4, <2>5 DEF StubTypes
  <2>7. Wire' /\ Connected' /\ Unread'
    BY <1>0, <1>1, <1>3, <2>4, <2>5 DEF Wire, Connected, Unread
  <2>8. Answered'
    BY <1>0, <1>1, <1>3, <2>4, <2>5 DEF Answered
  <2> QED BY <2>6, <2>7, <2>8 DEF StubInv
<1> QED BY <1>4, <1>5

LEMMA ServerHandles ==
  ASSUME StubInv, SvHandle
  PROVE  StubInv'
<1>0. StubTypes /\ Wire /\ Connected /\ Answered /\ Unread
  BY DEF StubInv
<1>1. /\ server.at = "handle" /\ client_fd
      /\ UNCHANGED <<running, client_fd, cpu, main, net, gdb>>
  BY <1>0 DEF SvHandle, StubTypes, handle_Z0, handle_z0, handle_vCont, handle_qFc32_reload, state
<1>2. \E r \in Replies : server' = [server EXCEPT !.at = "send", !.out = r]
  BY DEF SvHandle, handle_Z0, handle_z0, handle_vCont, handle_qFc32_reload, Out, Replies
<1>3. server'.at = "send" /\ server' \in Servers
  BY <1>0, <1>2 DEF StubTypes, Servers, ServerAts
<1>4. breaks' \in Seq(Addrs) /\ Len(breaks') <= MaxBreaks
  <2>1. CASE server.req.op = "Z0" /\ handle_Z0(server.req.a)
    <3>1. server.req.a \in Addrs
      BY <1>0, <2>1, PacketIs DEF StubTypes, Servers
    <3>2. breaks' = breaks \/ (Len(breaks) < MaxBreaks /\ breaks' = Append(breaks, server.req.a))
      BY <2>1 DEF handle_Z0
    <3>3. breaks \in Seq(Addrs) /\ Len(breaks) <= MaxBreaks
      BY <1>0 DEF StubTypes
    <3>4. /\ Append(breaks, server.req.a) \in Seq(Addrs) /\ Len(breaks) \in Nat
          /\ Len(Append(breaks, server.req.a)) = Len(breaks) + 1
      BY ONLY <3>1, <3>3, AppendIs
    <3> QED BY <3>2, <3>3, <3>4, StubAssumption
  <2>2. CASE server.req.op = "z0" /\ handle_z0(server.req.a)
    <3>1. breaks' = Without(server.req.a)
      BY <2>2 DEF handle_z0
    <3>2. Without(server.req.a) \in Seq(Addrs) /\ Len(Without(server.req.a)) <= Len(breaks)
      BY <1>0, WithoutIs DEF StubTypes
    <3>3. Len(breaks) \in Nat /\ Len(breaks) <= MaxBreaks /\ Len(Without(server.req.a)) \in Nat
      BY <1>0, <3>2 DEF StubTypes
    <3> QED BY <3>1, <3>2, <3>3, StubAssumption
  <2>3. CASE UNCHANGED breaks
    BY <1>0, <2>3 DEF StubTypes
  <2> QED BY <2>1, <2>2, <2>3 DEF SvHandle, handle_vCont, handle_qFc32_reload, state
<1>5. halted' \in BOOLEAN /\ reload_pending' \in BOOLEAN /\ pending' \in {"c", "s"}
  BY <1>0 DEF StubTypes, SvHandle, handle_Z0, handle_z0, handle_vCont, handle_qFc32_reload, state
<1>6. IF Resumes(server.req) THEN halted' = FALSE ELSE halted' = halted
  BY DEF SvHandle, handle_Z0, handle_z0, handle_vCont, handle_qFc32_reload, Resumes, state
<1>7. StubTypes'
  BY <1>0, <1>1, <1>3, <1>4, <1>5 DEF StubTypes
<1>8. Wire'
  <2>1. /\ Framed(server.at, net.toStub) => Framed(server'.at, net.toStub)
        /\ Whole(server.at, net.toStub) => Whole(server'.at, net.toStub)
    BY ONLY <1>1, <1>3, SameFrame
  <2> QED BY <1>0, <1>1, <2>1 DEF Wire
<1>9. Connected' /\ Unread'
  BY <1>0, <1>1 DEF Connected, Unread
<1>10. Answered'
  BY <1>0, <1>1, <1>3, <1>6 DEF Answered
<1> QED BY <1>7, <1>8, <1>9, <1>10 DEF StubInv

LEMMA ServerSends ==
  ASSUME StubInv, SvSend
  PROVE  StubInv'
<1>0. StubTypes /\ Wire /\ Connected /\ Answered /\ Unread
  BY DEF StubInv
<1>1. /\ server.at \in {"send", "sendlib"} /\ client_fd
      /\ UNCHANGED <<running, halted, pending, reload_pending, breaks, client_fd, cpu, main, gdb>>
  BY <1>0 DEF SvSend, StubTypes, state
<1>2. PICK r \in Replies : net' = ToGdb(r)
  BY <1>0 DEF SvSend, StubTypes, Servers, Replies
<1>3. /\ net' \in Nets /\ net'.peer = net.peer /\ net'.shut = net.shut /\ net'.held = net.held
      /\ net'.lshut = net.lshut /\ net'.bitten = net.bitten /\ net'.toStub = net.toStub
      /\ StopReply(net.toGdb) => StopReply(net'.toGdb)
  BY <1>2, Sent
<1>4. server'.at \in {"ack", "acklib"} /\ server' \in Servers
  BY <1>0 DEF SvSend, StubTypes, Servers, ServerAts, Replies
<1>5. StubTypes'
  BY <1>0, <1>1, <1>3, <1>4 DEF StubTypes
<1>6. Wire'
  <2>1. /\ Framed(server.at, net.toStub) => Framed(server'.at, net.toStub)
        /\ Whole(server.at, net.toStub) => Whole(server'.at, net.toStub)
    BY ONLY <1>1, <1>4, SameFrame
  <2> QED BY <1>0, <1>3, <2>1 DEF Wire
<1>7. Connected' /\ Unread'
  BY <1>0, <1>1, <1>3 DEF Connected, Unread
<1>8. Answered'
  BY <1>0, <1>1, <1>3, <1>4 DEF Answered
<1> QED BY <1>5, <1>6, <1>7, <1>8 DEF StubInv

LEMMA ServerTakesAck ==
  ASSUME StubInv, SvAck
  PROVE  StubInv'
<1>0. StubTypes /\ Wire /\ Connected /\ Answered /\ Unread
  BY DEF StubInv
<1>1. /\ server.at \in {"ack", "acklib"} /\ client_fd /\ TakeOneByte
      /\ UNCHANGED <<running, halted, pending, breaks, client_fd, cpu, main, gdb>>
      /\ reload_pending' \in BOOLEAN
  BY <1>0 DEF SvAck, StubTypes
<1>2. PICK to \in {"sendlib", "loop"} : server' = [server EXCEPT !.at = to, !.req = Dollar]
  BY DEF SvAck
<1>3. server'.at = to /\ server' \in Servers
  BY <1>0, <1>2 DEF StubTypes, Servers, ServerAts
<1>4. /\ net' \in Nets
      /\ net'.peer = net.peer /\ net'.shut = net.shut /\ net'.held = net.held /\ net'.toGdb = net.toGdb
      /\ net.bitten => net'.bitten
      /\ Framed(to, net'.toStub)
      /\ ~net'.bitten => Whole(to, net'.toStub)
      /\ ~net'.bitten => (OnItsWay(net.toStub) => OnItsWay(net'.toStub))
  BY <1>1, Taken
<1>5. StubTypes'
  BY <1>0, <1>1, <1>3, <1>4 DEF StubTypes
<1>6. Wire' /\ Connected' /\ Unread'
  BY <1>0, <1>1, <1>3, <1>4 DEF Wire, Connected, Unread
<1>7. Answered'
  BY <1>0, <1>1, <1>3, <1>4 DEF Answered
<1> QED BY <1>5, <1>6, <1>7 DEF StubInv

LEMMA NothingThere ==
  ASSUME NEW at, at # "body" PROVE Framed(at, <<>>) /\ Whole(at, <<>>)
  BY DEF Framed, Whole

\* The socket is gone.
LEMMA GoneIs ==
  ASSUME StubInv, Gone
  PROVE  /\ net' \in Nets /\ net'.peer = "none" /\ net'.shut = FALSE /\ net'.held = FALSE
         /\ net'.toStub = <<>> /\ net'.toGdb = <<>>
         /\ gdb' \in Clients /\ gdb'.at = "off"
<1>1. net.lshut \in BOOLEAN /\ gdb \in Clients
  BY DEF StubInv, StubTypes, Nets
<1>2. <<>> \in Seq(Bytes) /\ <<>> \in Seq(Replies)
  BY NoneIs
<1>3. net' = [NoNet EXCEPT !.lshut = net.lshut] /\ gdb' = [gdb EXCEPT !.at = "off", !.req = Dollar]
  BY DEF Gone
<1> QED BY <1>1, <1>2, <1>3 DEF NoNet, Nets, Clients

LEMMA ServerCloses ==
  ASSUME StubInv, SvClose
  PROVE  StubInv'
<1>0. StubTypes /\ Wire /\ Connected
  BY DEF StubInv
<1>1. /\ client_fd' = FALSE /\ halted' = FALSE /\ server.at = "close" /\ CloseFd
      /\ UNCHANGED <<running, pending, reload_pending, breaks, cpu, main>>
  BY DEF SvClose
<1>2. server'.at = "top" /\ server' \in Servers
  BY <1>0 DEF SvClose, StubTypes, Servers, ServerAts
<1>3. CASE cpu.at # "ack" /\ Gone
  <2>1. /\ net'.peer = "none" /\ net'.shut = FALSE /\ net'.held = FALSE /\ net'.toStub = <<>>
        /\ net'.toGdb = <<>> /\ net' \in Nets /\ gdb' \in Clients /\ gdb'.at = "off"
    BY <1>3, GoneIs
  <2>2. StubTypes'
    BY <1>0, <1>1, <1>2, <2>1 DEF StubTypes
  <2>3. Wire'
    BY <1>2, <2>1, NothingThere DEF Wire
  <2>4. Connected' /\ Answered' /\ Unread'
    BY <1>0, <1>1, <1>2, <1>3, <2>1 DEF Connected, Answered, Unread
  <2> QED BY <2>2, <2>3, <2>4 DEF StubInv
<1>4. CASE cpu.at = "ack" /\ net' = [net EXCEPT !.held = TRUE] /\ UNCHANGED gdb
  <2>1. /\ net'.peer = net.peer /\ net'.shut = net.shut /\ net'.held = TRUE
        /\ net'.bitten = net.bitten /\ net'.toStub = net.toStub /\ net'.toGdb = net.toGdb
        /\ net' \in Nets
    BY <1>0, <1>4 DEF StubTypes, Nets
  <2>2. StubTypes'
    BY <1>0, <1>1, <1>2, <1>4, <2>1 DEF StubTypes
  <2>3. Wire'
    <3>1. /\ Framed(server.at, net.toStub) => Framed(server'.at, net.toStub)
          /\ Whole(server.at, net.toStub) => Whole(server'.at, net.toStub)
      BY ONLY <1>1, <1>2, SameFrame
    <3> QED BY <1>0, <2>1, <3>1 DEF Wire
  <2>4. Connected' /\ Answered' /\ Unread'
    BY <1>0, <1>1, <1>4, <2>1 DEF Connected, Answered, Unread
  <2> QED BY <2>2, <2>3, <2>4 DEF StubInv
<1> QED BY <1>1, <1>3, <1>4 DEF CloseFd

(***************************************************************************)
(* The steps of the CPU thread.                                            *)
(***************************************************************************)
LEMMA CpuMoves ==
  ASSUME StubInv, CpuRun \/ CpuStop \/ CpuRecv \/ CpuResume
  PROVE  StubInv'
<1>0. StubTypes /\ Wire /\ Connected /\ Answered /\ Unread
  BY DEF StubInv
<1>1. /\ UNCHANGED <<running, pending, reload_pending, breaks, client_fd, server, main, net, gdb>>
      /\ halted' \in BOOLEAN /\ cpu.at # "ack"
  BY <1>0 DEF CpuRun, CpuStop, CpuRecv, CpuResume, StubTypes, state
<1>2. Following(cpu.pc) \in Addrs
  BY StubAssumption DEF Following
<1>3. /\ cpu' \in [at : {"run", "send", "recv", "ack", "wait"}, pc : Addrs, action : {"c", "s"}]
      /\ cpu'.at = "ack" => client_fd
  BY <1>0, <1>2 DEF CpuRun, CpuStop, CpuRecv, CpuResume, StubTypes
<1>4. StubTypes' /\ Wire' /\ Connected' /\ Unread'
  BY <1>0, <1>1, <1>3 DEF StubTypes, Wire, Connected, Unread
<1>5. Answered'
  <2>1. CASE CpuStop
    <3>1. cpu'.at = "send"
      BY <1>0, <2>1 DEF CpuStop, StubTypes
    <3> QED BY <1>0, <1>1, <3>1 DEF Answered, Connected, Unread, StubTypes
  <2>2. CASE CpuRun \/ CpuRecv \/ CpuResume
    <3>1. halted' = halted /\ cpu.at # "send"
      BY <2>2 DEF CpuRun, CpuRecv, CpuResume, state
    <3> QED BY <1>0, <1>1, <3>1 DEF Answered
  <2> QED BY <2>1, <2>2
<1> QED BY <1>4, <1>5 DEF StubInv

LEMMA CpuSends ==
  ASSUME StubInv, CpuSend
  PROVE  StubInv'
<1>0. StubTypes /\ Wire /\ Connected /\ Answered /\ Unread
  BY DEF StubInv
<1>1. /\ UNCHANGED <<running, halted, pending, reload_pending, breaks, client_fd, server, main, gdb>>
      /\ cpu.at = "send"
  BY DEF CpuSend, state
<1>2. /\ cpu' \in [at : {"run", "send", "recv", "ack", "wait"}, pc : Addrs, action : {"c", "s"}]
      /\ cpu'.at \in {"recv", "wait"}
  BY <1>0 DEF CpuSend, StubTypes
<1>3. CASE client_fd /\ net' = ToGdb("T05swbreak")
  <2>1. "T05swbreak" \in Replies /\ "T05swbreak" \notin {"+", ""}
    BY DEF Replies
  <2>2. /\ net' \in Nets /\ net'.peer = net.peer /\ net'.shut = net.shut /\ net'.held = net.held
        /\ net'.bitten = net.bitten /\ net'.toStub = net.toStub
        /\ StopReply(net.toGdb) => StopReply(net'.toGdb)
        /\ net.peer = "open" /\ ~net.shut => StopReply(net'.toGdb)
    BY <1>3, <2>1, Sent
  <2>3. StubTypes' /\ Wire' /\ Connected' /\ Unread'
    BY <1>0, <1>1, <1>2, <1>3, <2>2 DEF StubTypes, Wire, Connected, Unread
  <2>4. Answered'
    BY <1>0, <1>1, <2>2 DEF Answered, Connected
  <2> QED BY <2>3, <2>4 DEF StubInv
<1>4. CASE ~client_fd /\ UNCHANGED net
  BY <1>0, <1>1, <1>2, <1>4 DEF StubInv, StubTypes, Wire, Connected, Unread, Answered
<1> QED BY <1>3, <1>4 DEF CpuSend

LEMMA CpuTakesAck ==
  ASSUME StubInv, CpuAck
  PROVE  StubInv'
<1>0. StubTypes /\ Wire /\ Connected /\ Answered /\ Unread
  BY DEF StubInv
<1>1. /\ UNCHANGED <<running, halted, pending, reload_pending, breaks, client_fd, server, main>>
      /\ cpu.at = "ack" /\ CpuTakes
  BY DEF CpuAck, state
<1>2. /\ cpu' \in [at : {"run", "send", "recv", "ack", "wait"}, pc : Addrs, action : {"c", "s"}]
      /\ cpu'.at = "wait"
  BY <1>0 DEF CpuAck, StubTypes
<1>3. CASE ~net.held /\ TakeOneByte /\ UNCHANGED gdb
  <2>1. /\ net' \in Nets
        /\ net'.peer = net.peer /\ net'.shut = net.shut /\ net'.held = net.held
        /\ net'.toGdb = net.toGdb /\ (net.bitten => net'.bitten)
        /\ Framed(server.at, net'.toStub)
        /\ ~net'.bitten => Whole(server.at, net'.toStub)
        /\ ~net'.bitten => (OnItsWay(net.toStub) => OnItsWay(net'.toStub))
    BY <1>3, Taken
  <2>2. StubTypes' /\ Wire' /\ Connected'
    BY <1>0, <1>1, <1>2, <1>3, <2>1 DEF StubTypes, Wire, Connected
  <2>3. Unread' /\ Answered'
    BY <1>0, <1>1, <1>3, <2>1 DEF Connected, Unread, Answered
  <2> QED BY <2>2, <2>3 DEF StubInv
<1>4. CASE net.held /\ Gone
  <2>1. /\ net'.peer = "none" /\ net'.shut = FALSE /\ net'.held = FALSE /\ net'.toStub = <<>>
        /\ net'.toGdb = <<>> /\ net' \in Nets /\ gdb' \in Clients /\ gdb'.at = "off"
    BY <1>4, GoneIs
  <2>2. StubTypes'
    BY <1>0, <1>1, <1>2, <2>1 DEF StubTypes
  <2>3. Wire'
    <3>1. server'.at # "body"
      BY <1>0, <1>1, <1>4 DEF Connected, StubTypes
    <3> QED BY <2>1, <3>1, NothingThere DEF Wire
  <2>4. Connected' /\ Answered' /\ Unread'
    BY <1>0, <1>1, <1>2, <2>1 DEF Connected, Answered, Unread
  <2> QED BY <2>2, <2>3, <2>4 DEF StubInv
<1> QED BY <1>1, <1>3, <1>4 DEF CpuTakes

(***************************************************************************)
(* The steps of the thread that shuts the stub down.                       *)
(***************************************************************************)
LEMMA MainMoves ==
  ASSUME StubInv, Main
  PROVE  StubInv'
<1>0. StubTypes /\ Wire /\ Connected /\ Answered /\ Unread
  BY DEF StubInv
<1>1. CASE MainStop \/ MainJoin
  <2>1. /\ UNCHANGED <<halted, pending, reload_pending, breaks, client_fd, server, cpu, net, gdb>>
        /\ running' \in BOOLEAN /\ (running' => running)
        /\ main' \in {"client", "done"} /\ ~running'
    <3>1. CASE MainStop
      BY <3>1 DEF MainStop
    <3>2. CASE MainJoin
      BY <1>0, <3>2 DEF MainJoin, state, Connected, StubTypes
    <3> QED BY <1>1, <3>1, <3>2
  <2>2. StubTypes' /\ Wire' /\ Connected' /\ Unread' /\ Answered'
    BY <1>0, <2>1 DEF StubTypes, Wire, Connected, Unread, Answered
  <2> QED BY <2>2 DEF StubInv
<1>2. CASE MainShutClient \/ MainShutListen
  <2>1. /\ UNCHANGED <<running, halted, pending, reload_pending, breaks, client_fd, server, cpu, gdb>>
        /\ main # "run" /\ main' \in {"listen", "join"}
    BY <1>2 DEF MainShutClient, MainShutListen, state
  <2>2. /\ net' \in Nets /\ net'.peer = net.peer /\ net'.held = net.held /\ net'.bitten = net.bitten
        /\ net'.toStub = net.toStub /\ net'.toGdb = net.toGdb
    BY <1>0, <1>2 DEF MainShutClient, MainShutListen, StubTypes, Nets
  <2>3. StubTypes' /\ Wire' /\ Connected' /\ Unread' /\ Answered'
    BY <1>0, <2>1, <2>2 DEF StubTypes, Wire, Connected, Unread, Answered
  <2> QED BY <2>3 DEF StubInv
<1> QED BY <1>1, <1>2 DEF Main

(***************************************************************************)
(* The debugger's steps.                                                   *)
(***************************************************************************)
LEMMA GdbConnects ==
  ASSUME StubInv, Connect \/ Disconnect
  PROVE  StubInv'
<1>0. StubTypes /\ Wire /\ Connected /\ Answered /\ Unread
  BY DEF StubInv
<1>1. UNCHANGED <<running, halted, pending, reload_pending, breaks, client_fd, server, cpu, main>>
  BY DEF Connect, Disconnect, state
<1>2. /\ net' \in Nets /\ net'.shut = net.shut /\ net'.held = net.held /\ net'.bitten = net.bitten
      /\ net'.toStub = net.toStub
      /\ net'.toGdb = net.toGdb \/ net'.toGdb = <<>>
      /\ net'.peer = IF Connect THEN "open" ELSE "closed"
  <2>0. net \in Nets /\ <<>> \in Seq(Replies)
    BY <1>0, NoneIs DEF StubTypes
  <2>1. CASE Connect
    <3>1. net' = [net EXCEPT !.peer = "open"]
      BY <2>1 DEF Connect
    <3> QED BY <2>0, <2>1, <3>1 DEF Nets
  <2>2. CASE ~Connect /\ Disconnect
    <3>1. net' = [net EXCEPT !.peer = "closed", !.toGdb = <<>>]
      BY <2>2 DEF Disconnect
    <3> QED BY <2>0, <2>2, <3>1 DEF Nets
  <2> QED BY <2>1, <2>2
<1>3. gdb' \in Clients /\ gdb'.at = IF Connect THEN "idle" ELSE "off"
  <2>0. gdb \in Clients
    BY <1>0 DEF StubTypes
  <2>1. CASE Connect
    <3>1. gdb' = [gdb EXCEPT !.at = "idle", !.sessions = gdb.sessions + 1]
      BY <2>0, <2>1 DEF Connect, Clients
    <3>2. gdb.sessions + 1 \in Nat
      BY <2>0 DEF Clients
    <3> QED BY ONLY <2>0, <2>1, <3>1, <3>2 DEF Clients
  <2>2. CASE ~Connect /\ Disconnect
    <3>1. gdb' = [gdb EXCEPT !.at = "off", !.req = Dollar]
      BY <2>2 DEF Disconnect
    <3> QED BY <2>0, <2>2, <3>1 DEF Clients
  <2> QED BY <2>1, <2>2
<1>4. StubTypes' /\ Wire' /\ Connected' /\ Unread' /\ Answered'
  BY <1>0, <1>1, <1>2, <1>3 DEF StubTypes, Wire, Connected, Unread, Answered
<1> QED BY <1>4 DEF StubInv

LEMMA GdbRequests ==
  ASSUME StubInv, NEW r \in Asked, Request(r)
  PROVE  StubInv'
<1>0. StubTypes /\ Wire /\ Connected /\ Answered /\ Unread /\ r \in Requests
  BY StubAssumption DEF StubInv
<1> PICK s \in Seq(Bytes) : s = net.toStub
  BY <1>0 DEF StubTypes, Nets
<1> PICK t \in Seq(Bytes) : t = s \o <<Dollar, r>>
  BY <1>0, PushPacket DEF Wire
<1>1. UNCHANGED <<running, halted, pending, reload_pending, breaks, client_fd, server, cpu, main>>
  BY DEF Request, state
<1>2. /\ Framed(server.at, t)
      /\ Whole(server.at, s) => Whole(server.at, t)
      /\ OnItsWay(s) \/ Resumes(r) => OnItsWay(t)
  BY <1>0, PushPacket DEF Wire
<1>3. net' = [net EXCEPT !.toStub = t] /\ gdb.at = "idle"
  BY DEF Request
<1>4. /\ net' \in Nets /\ net'.peer = net.peer /\ net'.shut = net.shut /\ net'.held = net.held /\ net'.bitten = net.bitten
      /\ net'.toStub = t /\ net'.toGdb = net.toGdb
  BY <1>0, <1>3 DEF StubTypes, Nets
<1>5. gdb' \in Clients /\ gdb'.at # "off" /\ (gdb'.at = "resumed" => Resumes(r))
  <2>1. gdb \in Clients /\ r \in Requests
    BY <1>0 DEF StubTypes
  <2>2. PICK at \in {"resumed", "reply"} :
          /\ gdb' = [gdb EXCEPT !.at = at, !.req = r, !.sent = gdb.sent + 1]
          /\ at = "resumed" => Resumes(r)
    BY <2>1 DEF Request, Resumes, Clients
  <2>3. gdb.sent + 1 \in Nat
    BY <2>1 DEF Clients
  <2> QED BY ONLY <2>1, <2>2, <2>3 DEF Clients
<1>6. StubTypes' /\ Wire' /\ Connected' /\ Unread' /\ Answered'
  BY <1>0, <1>1, <1>2, <1>3, <1>4, <1>5 DEF StubTypes, Wire, Connected, Unread, Answered
<1> QED BY <1>6 DEF StubInv

LEMMA GdbReceives ==
  ASSUME StubInv, Receive
  PROVE  StubInv'
<1>0. StubTypes /\ Wire /\ Connected /\ Answered /\ Unread /\ net \in Nets
  BY DEF StubInv, StubTypes
<1> PICK s \in Seq(Bytes) : s = net.toStub
  BY <1>0 DEF Nets
<1> PICK t \in Seq(Replies) : t = net.toGdb
  BY <1>0 DEF Nets
<1>1. /\ UNCHANGED <<running, halted, pending, reload_pending, breaks, client_fd, server, cpu, main>>
      /\ t # <<>> /\ (client_fd \/ net.held) /\ gdb.at # "off"
  BY <1>0 DEF Receive, Connected, state
<1>2. /\ Tail(t) \in Seq(Replies) /\ Head(t) \in Replies
      /\ StopReply(t) /\ Head(t) \in {"+", ""} => StopReply(Tail(t))
  BY <1>1, ReplyTaken
<1>3. CASE Head(t) = "+"
  <2>1. gdb' = [gdb EXCEPT !.req = Dollar] /\ net' = [net EXCEPT !.toGdb = Tail(t)]
    BY <1>3 DEF Receive
  <2>2. gdb' \in Clients /\ gdb'.at = gdb.at
    BY <1>0, <2>1 DEF StubTypes, Clients
  <2>3. /\ net' \in Nets /\ net'.peer = net.peer /\ net'.shut = net.shut /\ net'.held = net.held
        /\ net'.bitten = net.bitten /\ net'.toStub = s /\ net'.toGdb = Tail(t)
    BY <1>0, <1>2, <2>1 DEF Nets
  <2>4. StubTypes' /\ Wire' /\ Connected' /\ Unread'
    BY <1>0, <1>1, <2>2, <2>3 DEF StubTypes, Wire, Connected, Unread
  <2>5. Answered'
    BY <1>0, <1>1, <1>2, <1>3, <2>2, <2>3 DEF Answered
  <2> QED BY <2>4, <2>5 DEF StubInv
<1>4. CASE Head(t) # "+"
  <2>1. /\ gdb' = [gdb EXCEPT !.at = IF @ = "resumed" /\ Head(t) = "" THEN @ ELSE "idle"]
        /\ net' = [net EXCEPT !.toGdb = Tail(t), !.toStub = Append(s, Ack)]
    BY <1>4 DEF Receive
  <2>2. gdb' \in Clients /\ gdb'.at # "off" /\ (gdb'.at = "resumed" => gdb.at = "resumed" /\ Head(t) = "")
    BY <1>0, <2>1 DEF StubTypes, Clients
  <2>3. /\ Append(s, Ack) \in Seq(Bytes) /\ Framed(server.at, Append(s, Ack))
        /\ Whole(server.at, s) => Whole(server.at, Append(s, Ack))
        /\ OnItsWay(s) => OnItsWay(Append(s, Ack))
    BY <1>0, PushAck DEF Wire
  <2>4. /\ net' \in Nets /\ net'.peer = net.peer /\ net'.shut = net.shut /\ net'.held = net.held
        /\ net'.bitten = net.bitten /\ net'.toStub = Append(s, Ack) /\ net'.toGdb = Tail(t)
    BY <1>0, <1>2, <2>1, <2>3 DEF Nets
  <2>a. StubTypes'
    BY <1>0, <1>1, <2>2, <2>4 DEF StubTypes
  <2>b. Wire'
    BY <1>0, <1>1, <2>3, <2>4 DEF Wire
  <2>5. Connected' /\ Unread'
    BY <1>0, <1>1, <2>2, <2>4 DEF Connected, Unread
  <2>6. Answered'
    BY <1>0, <1>1, <1>2, <2>2, <2>3, <2>4 DEF Answered
  <2> QED BY <2>a, <2>b, <2>5, <2>6 DEF StubInv
<1> QED BY <1>3, <1>4

LEMMA GdbRetransmits ==
  ASSUME StubInv, Retransmit
  PROVE  StubInv'
<1>0. StubTypes /\ Wire /\ Connected /\ Answered /\ Unread /\ net \in Nets
  BY DEF StubInv, StubTypes
<1> PICK r \in Requests : r = gdb.req
  BY <1>0 DEF Retransmit, StubTypes, Clients
<1> PICK s \in Seq(Bytes) : s = <<>>
  BY NoneIs
<1>1. /\ UNCHANGED <<running, halted, pending, reload_pending, breaks, client_fd, server, cpu, main, gdb>>
      /\ server.at = "read" /\ client_fd /\ net.toStub = s /\ net' = [net EXCEPT !.toStub = <<Dollar, r>>]
  BY <1>0 DEF Retransmit, StubTypes, state
<1> PICK t \in Seq(Bytes) : t = s \o <<Dollar, r>>
  BY <1>0, <1>1, PushPacket DEF Wire
<1>2. /\ Framed(server.at, t)
      /\ Whole(server.at, s) => Whole(server.at, t)
      /\ OnItsWay(s) => OnItsWay(t)
  BY <1>0, <1>1, PushPacket DEF Wire
<1>3. t = <<Dollar, r>>
  <2>1. Dollar \in Bytes /\ r \in Bytes
    BY DEF Bytes, Packets
  <2>2. <<Dollar, r>> \in Seq(Bytes)
    BY <2>1
  <2> QED BY ONLY <2>2, t = s \o <<Dollar, r>>, s = <<>>
<1>4. /\ net' \in Nets /\ net'.peer = net.peer /\ net'.shut = net.shut /\ net'.held = net.held /\ net'.bitten = net.bitten
      /\ net'.toStub = t /\ net'.toGdb = net.toGdb
  BY <1>0, <1>1, <1>3 DEF Nets
<1>5. StubTypes' /\ Wire' /\ Connected' /\ Unread' /\ Answered'
  BY <1>0, <1>1, <1>2, <1>4 DEF StubTypes, Wire, Connected, Unread, Answered
<1> QED BY <1>5 DEF StubInv

(***************************************************************************)
(* The invariant, and what it says.                                        *)
(***************************************************************************)
LEMMA StubStarts == StubInit => StubInv
<1> SUFFICES ASSUME StubInit PROVE StubInv
  OBVIOUS
<1>1. server \in Servers /\ server.at = "top"
  BY DEF StubInit, Servers, ServerAts, Replies
<1>2. /\ net \in Nets /\ net.toStub = <<>> /\ net.toGdb = <<>> /\ net.shut = FALSE
      /\ net.peer = "none" /\ net.held = FALSE
  <2>1. <<>> \in Seq(Bytes) /\ <<>> \in Seq(Replies)
    BY NoneIs
  <2> QED BY <2>1 DEF StubInit, NoNet, Nets
<1>3. gdb \in Clients /\ gdb.at = "off"
  BY DEF StubInit, Clients
<1>4. breaks \in Seq(Addrs) /\ Len(breaks) <= MaxBreaks
  <2>1. <<>> \in Seq(Addrs) /\ Len(<<>>) = 0
    BY NoneIs
  <2>2. breaks = <<>> /\ MaxBreaks \in Nat
    BY StubAssumption DEF StubInit
  <2> QED BY ONLY <2>1, <2>2
<1>5. StubTypes
  BY <1>1, <1>2, <1>3, <1>4, StubAssumption DEF StubInit, StubTypes
<1>6. Wire
  BY <1>1, <1>2, NothingThere DEF Wire
<1> QED BY <1>1, <1>2, <1>3, <1>5, <1>6 DEF StubInit, StubInv, Connected, Answered, Unread

LEMMA StubSteps == StubInv /\ [StubNext]_stubVars => StubInv'
<1> SUFFICES ASSUME StubInv, [StubNext]_stubVars PROVE StubInv'
  OBVIOUS
<1>1. CASE Server
  BY <1>1, ServerMoves, ServerReads, ServerReadsBody, ServerHandles, ServerSends, ServerTakesAck,
     ServerCloses DEF Server
<1>2. CASE Cpu
  BY <1>2, CpuMoves, CpuSends, CpuTakesAck DEF Cpu
<1>3. CASE Main
  BY <1>3, MainMoves
<1>4. CASE Gdb
  BY <1>4, GdbConnects, GdbRequests, GdbReceives, GdbRetransmits DEF Gdb
<1>5. CASE UNCHANGED stubVars
  BY <1>5 DEF stubVars, state, StubInv, StubTypes, Wire, Connected, Answered, Unread
<1> QED BY <1>1, <1>2, <1>3, <1>4, <1>5 DEF StubNext

LEMMA StubMeans == StubInv => StubSound
<1> SUFFICES ASSUME StubInv PROVE StubSound
  OBVIOUS
<1>0. StubTypes /\ Connected /\ Answered
  BY DEF StubInv
<1>1. StubTypeOK
  <2>1. /\ server.at \in ServerAts /\ server.req \in Requests \cup {Dollar} /\ server.out \in Replies
        /\ gdb.at \in {"off", "idle", "reply", "resumed"}
    BY <1>0 DEF StubTypes, Servers, Clients
  <2>2. /\ \A i \in DOMAIN net.toStub : net.toStub[i] \in Bytes
        /\ \A i \in DOMAIN net.toGdb : net.toGdb[i] \in Replies
    BY <1>0 DEF StubTypes, Nets
  <2> QED BY <1>0, <2>1, <2>2 DEF StubTypes, Connected, StubTypeOK, ServerAts, Bytes, Packets, Cut
<1>2. NoStandoff
  <2>1. ~OnItsWay(<<>>) /\ ~StopReply(<<>>)
    BY DEF OnItsWay, StopReply
  <2> QED BY <1>0, <2>1 DEF Answered, NoStandoff
<1> QED BY <1>1, <1>2 DEF StubSound

(* However the server thread, the CPU thread, the thread that shuts the    *)
(* stub down and GDB interleave on the one socket, and whatever bytes are  *)
(* taken for acks: the threads stay in their protocol's states, the break  *)
(* table within its array (handle_Z0, handle_z0), and as long as no byte   *)
(* of a packet was taken for an ack, the CPU that polls in fc_gdb_stub_step*)
(* and the GDB that continued it do not wait for each other.               *)
THEOREM StubIsSound == StubSpec => []StubSound
<1>1. StubInit => StubInv
  BY StubStarts
<1>2. StubInv /\ [StubNext]_stubVars => StubInv'
  BY StubSteps
<1>3. StubInv => StubSound
  BY StubMeans
<1> QED BY <1>1, <1>2, <1>3, PTL DEF StubSpec
=============================================================================
