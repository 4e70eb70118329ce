-------------------------- MODULE LuaRuntimeProofs --------------------------
(***************************************************************************)
(* Proofs about the freestanding Lua runtime and the hosts that meter it.  *)
(*                                                                         *)
(*   LuaHeap    For every heap size, alignment and set of objects: the     *)
(*              allocator never hands out a cell twice, never loses a      *)
(*              block, and never disturbs what the VM wrote.               *)
(*   HookHosts  For every clock resolution, delay, budget, number of tics  *)
(*              and of lines, and every cost of a line or a pause: a       *)
(*              throttled tic keeps its pace and the budget stops overruns,*)
(*              all of them and only them.                                 *)
(*                                                                         *)
(* The two share no variable.                                              *)
(***************************************************************************)
EXTENDS LuaHeap, HookHosts, WellFoundedInduction, TLAPS

---------------------------------------------------------------------------
(* LuaHeap *)

(***************************************************************************)
(* The inductive invariant, as predicates of the values so that the heap   *)
(* malloc returns can be described before it is assigned.                  *)
(***************************************************************************)
BlocksIn(h) == {b \in Cells : h[b] > 0}
LiveIn(ob) == {o \in Objs : ob[o] # NoObj}

(* Blocks have room for a header and a cell, end before brk and are        *)
(* disjoint.                                                               *)
HeapShape(bk, h) ==
    /\ bk \in 0..HEAP_SIZE
    /\ h \in [Cells -> 0..HEAP_SIZE]
    /\ \A b \in BlocksIn(h) : HDR < h[b] /\ b + h[b] <= bk
    /\ \A b, c \in BlocksIn(h) : b < c => b + h[b] <= c

(* They leave no gap below brk. *)
Tiled(bk, h) ==
    \A a \in 0..(bk - 1) : \E b \in BlocksIn(h) : b <= a /\ a < b + h[b]

(* The free list names blocks, none of them twice. *)
FreeShape(h, f) ==
    /\ f \in Seq(Cells)
    /\ \A i \in 1..Len(f) : f[i] \in BlocksIn(h)
    /\ \A i, j \in 1..Len(f) : f[i] = f[j] => i = j

(* Every object fits the block it points into. *)
ObjShape(h, ob) ==
    /\ ob \in [Objs -> Object \cup {NoObj}]
    /\ \A o \in LiveIn(ob) : /\ ob[o].ptr - HDR \in BlocksIn(h)
                             /\ ob[o].size <= h[ob[o].ptr - HDR] - HDR
                             /\ ob[o].init <= ob[o].size

(* A block has one owner: an object or the free list. *)
OneOwner(f, ob) ==
    /\ \A o, q \in LiveIn(ob) : ob[o].ptr = ob[q].ptr => o = q
    /\ \A o \in LiveIn(ob), i \in 1..Len(f) : f[i] # ob[o].ptr - HDR

Owned(b, f, ob) ==
    \/ \E o \in LiveIn(ob) : ob[o].ptr - HDR = b
    \/ \E i \in 1..Len(f) : f[i] = b

AllOwned(h, f, ob) == \A b \in BlocksIn(h) : Owned(b, f, ob)

(* The initialised cells of every object hold its value. *)
DataShape(d, ob) ==
    /\ d \in [Cells -> Words]
    /\ \A o \in LiveIn(ob) : \A i \in 0..(ob[o].init - 1) :
          d[ob[o].ptr + i] = ob[o].val

Sound(bk, h, f, d, ob) ==
    /\ HeapShape(bk, h)
    /\ Tiled(bk, h)
    /\ FreeShape(h, f)
    /\ ObjShape(h, ob)
    /\ OneOwner(f, ob)
    /\ AllOwned(h, f, ob)
    /\ DataShape(d, ob)

HInv == Sound(brk, hdr, freelist, data, obj)

-----------------------------------------------------------------------------
(* Arithmetic. *)

(* A size below SIZE_MOD does not wrap. *)
LEMMA ModSmall ==
    ASSUME NEW x \in Nat, NEW m \in Nat \ {0}, x < m
    PROVE  x % m = x
  BY SMT

(* Rounding a small size up loses nothing and adds less than ALIGN. *)
LEMMA AlignUpBounds ==
    ASSUME NEW n \in Nat, n + ALIGN < SIZE_MOD
    PROVE  AlignUp(n) \in Nat /\ n <= AlignUp(n) /\ AlignUp(n) < n + ALIGN
<1> DEFINE m == n + ALIGN - 1
<1>1. m \in Nat /\ SIZE_MOD \in Nat \ {0} /\ m < SIZE_MOD
  BY HeapAssumption
<1>2. m % SIZE_MOD = m
  BY <1>1, ModSmall
<1>3. m % ALIGN \in 0..(ALIGN - 1)
  BY <1>1, HeapAssumption
<1>4. m % ALIGN <= m
  BY <1>1, <1>3, HeapAssumption
<1>5. AlignUp(n) = m - (m % ALIGN)
  BY <1>2 DEF AlignUp
<1>6. PICK k \in 0..(ALIGN - 1) : k = m % ALIGN
  BY <1>3
<1>7. AlignUp(n) = m - k /\ k <= m
  BY <1>4, <1>5, <1>6, Zenon
<1>8. QED
  BY <1>7, HeapAssumption

(* malloc asks for the header and the size, and no request wraps. *)
LEMMA NeedBounds ==
    ASSUME NEW n \in 1..MAX_REQUEST
    PROVE  Need(n) \in Nat /\ n + HDR <= Need(n) /\ Need(n) < n + HDR + ALIGN
<1>1. n + HDR \in Nat /\ n + HDR < SIZE_MOD /\ SIZE_MOD \in Nat \ {0} /\ n # 0
  BY HeapAssumption
<1>2. (n + HDR) % SIZE_MOD = n + HDR
  BY <1>1, ModSmall
<1>3. Need(n) = AlignUp(n + HDR)
  BY <1>1, <1>2 DEF Need
<1>4. n + HDR + ALIGN < SIZE_MOD
  BY HeapAssumption
<1>5. QED
  BY <1>1, <1>3, <1>4, AlignUpBounds

-----------------------------------------------------------------------------
(* The free list. *)

(* free: the pushed block is first, the others follow. *)
LEMMA PushShape ==
    ASSUME NEW s \in Seq(Cells), NEW b \in Cells
    PROVE  /\ Push(b, s) \in Seq(Cells)
           /\ Len(Push(b, s)) = Len(s) + 1
           /\ Push(b, s)[1] = b
           /\ \A i \in 1..Len(s) : Push(b, s)[i + 1] = s[i]
           /\ \A j \in 1..Len(Push(b, s)) : j = 1 \/ (j - 1 \in 1..Len(s) /\ Push(b, s)[j] = s[j - 1])
<1>1. Len(s) \in Nat /\ \A i \in 1..Len(s) : s[i] \in Cells
  OBVIOUS
<1>2. Push(b, s) \in [1..(Len(s) + 1) -> Cells]
  BY <1>1 DEF Push
<1>3. Push(b, s) \in Seq(Cells) /\ Len(Push(b, s)) = Len(s) + 1
  BY <1>1, <1>2
<1>4. QED
  BY <1>1, <1>3 DEF Push

(* malloc: the list without the block at i, in the order it had. *)
LEMMA UnlinkShape ==
    ASSUME NEW s \in Seq(Cells), NEW i \in 1..Len(s)
    PROVE  /\ Unlink(s, i) \in Seq(Cells)
           /\ Len(Unlink(s, i)) = Len(s) - 1
           /\ \A j \in 1..(Len(s) - 1) :
                 Unlink(s, i)[j] = IF j < i THEN s[j] ELSE s[j + 1]
<1>1. Len(s) \in Nat /\ \A j \in 1..Len(s) : s[j] \in Cells
  OBVIOUS
<1>2. Len(s) - 1 \in Nat /\ i \in Nat
  BY <1>1
<1>3. Unlink(s, i) \in [1..(Len(s) - 1) -> Cells]
  BY <1>1, <1>2 DEF Unlink
<1>4. Unlink(s, i) \in Seq(Cells) /\ Len(Unlink(s, i)) = Len(s) - 1
  BY <1>2, <1>3
<1>5. QED
  BY <1>2, <1>4 DEF Unlink

-----------------------------------------------------------------------------
(* malloc. *)

(* What malloc promises with a pointer p: the heap it leaves is well       *)
(* formed and holds every old block as it was, and p's block fits the      *)
(* request, has no owner, and is the only block without one.               *)
Serves(p, bk, h, f, n) ==
    /\ HeapShape(bk, h) /\ Tiled(bk, h) /\ FreeShape(h, f)
    /\ p \in Nat
    /\ p - HDR \in BlocksIn(h) /\ n <= h[p - HDR] - HDR
    /\ \A c \in BlocksIn(hdr) : c \in BlocksIn(h) /\ h[c] = hdr[c]
    /\ \A o \in LiveIn(obj) : obj[o].ptr - HDR # p - HDR
    /\ \A i \in 1..Len(f) : /\ f[i] # p - HDR
                            /\ \A o \in LiveIn(obj) : f[i] # obj[o].ptr - HDR
    /\ \A c \in BlocksIn(h) : c = p - HDR \/ Owned(c, f, obj)

(* The first fit is a fitting place of the list. *)
LEMMA FirstFitFits ==
    ASSUME NEW need, freelist \in Seq(Cells), Fitting(need) # {}
    PROVE  FirstFit(need) \in 1..Len(freelist) /\ hdr[freelist[FirstFit(need)]] >= need
<1>1. Fitting(need) \in SUBSET Nat
  BY DEF Fitting
<1>2. PICK i \in Fitting(need) :
         \A j \in Fitting(need) : ~(<<j, i>> \in OpToRel(<, Nat))
  BY <1>1, WFMin, NatLessThanWellFounded, Zenon
<1>3. \A j \in Fitting(need) : i <= j
  <2> TAKE j \in Fitting(need)
  <2>1. i \in Nat /\ j \in Nat
    BY <1>1
  <2>2. <<j, i>> \in Nat \X Nat /\ <<j, i>>[1] = j /\ <<j, i>>[2] = i
    BY <2>1
  <2>3. ~(j < i)
    BY <1>2, <2>2, Zenon DEF OpToRel
  <2>4. QED
    BY <2>1, <2>3
<1>4. FirstFit(need) \in Fitting(need)
  BY <1>3, Zenon DEF FirstFit
<1>5. QED
  BY <1>4 DEF Fitting

(* A block of the free list is served. *)
LEMMA ReuseServes ==
    ASSUME HInv, NEW n \in 1..MAX_REQUEST, Fitting(Need(n)) # {}
    PROVE  Serves(freelist[FirstFit(Need(n))] + HDR, brk, hdr,
                  Unlink(freelist, FirstFit(Need(n))), n)
<1> DEFINE k == FirstFit(Need(n))
           b == freelist[k]
           f == Unlink(freelist, k)
<1>1. /\ HeapShape(brk, hdr) /\ Tiled(brk, hdr) /\ FreeShape(hdr, freelist)
      /\ OneOwner(freelist, obj) /\ AllOwned(hdr, freelist, obj)
  BY DEF HInv, Sound
<1>2. freelist \in Seq(Cells)
  BY <1>1 DEF FreeShape
<1>3. k \in 1..Len(freelist) /\ hdr[b] >= Need(n)
  BY <1>2, FirstFitFits
<1> HIDE DEF k
<1>4. b \in BlocksIn(hdr) /\ b \in Cells /\ b \in Nat /\ hdr[b] \in Nat
  BY <1>1, <1>2, <1>3 DEF FreeShape, HeapShape, BlocksIn, Cells
<1>5. b + HDR \in Nat /\ (b + HDR) - HDR = b /\ n <= hdr[b] - HDR
  BY <1>3, <1>4, NeedBounds, HeapAssumption, SMTT(30)
<1>6. f \in Seq(Cells) /\ Len(f) = Len(freelist) - 1
      /\ \A j \in 1..Len(f) : f[j] = IF j < k THEN freelist[j] ELSE freelist[j + 1]
  BY <1>2, <1>3, UnlinkShape
<1>7. \A j \in 1..Len(f) : \E i \in 1..Len(freelist) : i # k /\ f[j] = freelist[i]
  <2> TAKE j \in 1..Len(f)
  <2>1. CASE j < k
    BY <2>1, <1>2, <1>3, <1>6
  <2>2. CASE ~(j < k)
    <3>1. j + 1 \in 1..Len(freelist) /\ j + 1 # k /\ f[j] = freelist[j + 1]
      BY <2>2, <1>2, <1>3, <1>6
    <3>2. QED
      BY <3>1
  <2>3. QED
    BY <2>1, <2>2
<1>8. \A i \in 1..Len(freelist) : i # k => \E j \in 1..Len(f) : f[j] = freelist[i]
  <2> SUFFICES ASSUME NEW i \in 1..Len(freelist), i # k
               PROVE  \E j \in 1..Len(f) : f[j] = freelist[i]
    OBVIOUS
  <2>1. CASE i < k
    BY <2>1, <1>2, <1>3, <1>6
  <2>2. CASE ~(i < k)
    <3>1. i - 1 \in 1..Len(f) /\ f[i - 1] = freelist[i]
      BY <2>2, <1>2, <1>3, <1>6
    <3>2. QED
      BY <3>1
  <2>3. QED
    BY <2>1, <2>2
<1> HIDE DEF f
<1>9. FreeShape(hdr, f)
  <2>1. \A i \in 1..Len(f) : f[i] \in BlocksIn(hdr)
    BY <1>1, <1>7 DEF FreeShape
  <2>2. ASSUME NEW i \in 1..Len(f), NEW j \in 1..Len(f), f[i] = f[j]
        PROVE  i = j
    <3>1. \A x, y \in 1..Len(freelist) : freelist[x] = freelist[y] => x = y
      BY <1>1 DEF FreeShape
    <3>2. Len(f) \in Nat /\ Len(freelist) \in Nat /\ k \in Nat
      BY <1>2, <1>3, <1>6
    <3>3. CASE i < k /\ j < k
      BY <3>1, <3>2, <3>3, <2>2, <1>6
    <3>4. CASE i < k /\ ~(j < k)
      <4>1. i \in 1..Len(freelist) /\ j + 1 \in 1..Len(freelist) /\ freelist[i] = freelist[j + 1]
        BY <3>2, <3>4, <2>2, <1>6
      <4>2. QED
        BY <3>1, <3>2, <3>4, <4>1
    <3>5. CASE ~(i < k) /\ j < k
      <4>1. j \in 1..Len(freelist) /\ i + 1 \in 1..Len(freelist) /\ freelist[i + 1] = freelist[j]
        BY <3>2, <3>5, <2>2, <1>6
      <4>2. QED
        BY <3>1, <3>2, <3>5, <4>1
    <3>6. CASE ~(i < k) /\ ~(j < k)
      <4>1. i + 1 \in 1..Len(freelist) /\ j + 1 \in 1..Len(freelist)
            /\ freelist[i + 1] = freelist[j + 1]
        BY <3>2, <3>6, <2>2, <1>6
      <4>2. i + 1 = j + 1
        BY <3>1, <4>1
      <4>3. QED
        BY <4>2
    <3>7. QED
      BY <3>3, <3>4, <3>5, <3>6
  <2>3. QED
    BY <1>6, <2>1, <2>2 DEF FreeShape
<1>10. \A o \in LiveIn(obj) : obj[o].ptr - HDR # b
  BY <1>1, <1>3 DEF OneOwner
<1>11. \A i \in 1..Len(f) : f[i] # b /\ \A o \in LiveIn(obj) : f[i] # obj[o].ptr - HDR
  BY <1>1, <1>3, <1>7 DEF OneOwner, FreeShape
<1>12. \A c \in BlocksIn(hdr) : c = b \/ Owned(c, f, obj)
  <2> SUFFICES ASSUME NEW c \in BlocksIn(hdr), c # b
               PROVE  Owned(c, f, obj)
    OBVIOUS
  <2>1. Owned(c, freelist, obj)
    BY <1>1 DEF AllOwned
  <2>2. CASE \E o \in LiveIn(obj) : obj[o].ptr - HDR = c
    BY <2>2 DEF Owned
  <2>3. CASE \E i \in 1..Len(freelist) : freelist[i] = c
    BY <2>3, <1>8 DEF Owned
  <2>4. QED
    BY <2>1, <2>2, <2>3 DEF Owned
<1> HIDE DEF b
<1>13. Serves(b + HDR, brk, hdr, f, n)
  BY <1>1, <1>4, <1>5, <1>9, <1>10, <1>11, <1>12 DEF Serves
<1>14. QED
  BY <1>13 DEF b, k, f

(* A block carved at brk is served. *)
LEMMA CarveServes ==
    ASSUME HInv, NEW n \in 1..MAX_REQUEST, ~Full(Need(n))
    PROVE  Serves(brk + HDR, brk + Need(n), [hdr EXCEPT ![brk] = Need(n)], freelist, n)
<1> DEFINE h == [hdr EXCEPT ![brk] = Need(n)]
           bk == brk + Need(n)
<1>1. /\ HeapShape(brk, hdr) /\ Tiled(brk, hdr) /\ FreeShape(hdr, freelist)
      /\ ObjShape(hdr, obj) /\ OneOwner(freelist, obj) /\ AllOwned(hdr, freelist, obj)
  BY DEF HInv, Sound
<1>2. brk \in 0..HEAP_SIZE /\ hdr \in [Cells -> 0..HEAP_SIZE]
  BY <1>1 DEF HeapShape
<1>3. PICK need \in Nat : need = Need(n) /\ n + HDR <= need /\ need < n + HDR + ALIGN
  BY NeedBounds
<1>4. brk + need \in Nat /\ brk + need < SIZE_MOD /\ SIZE_MOD \in Nat \ {0}
  BY <1>2, <1>3, HeapAssumption
<1>5. (brk + need) % SIZE_MOD = brk + need
  BY <1>4, ModSmall
<1>6. brk + need <= HEAP_SIZE
  BY <1>2, <1>3, <1>4, <1>5, HeapAssumption DEF Full
<1>7. brk \in Cells /\ need \in 0..HEAP_SIZE /\ need > HDR /\ HDR \in Nat
  BY <1>2, <1>3, <1>6, HeapAssumption DEF Cells
<1>8. h \in [Cells -> 0..HEAP_SIZE] /\ h[brk] = need /\ \A c \in Cells : c # brk => h[c] = hdr[c]
  BY <1>2, <1>3, <1>7
<1>9. bk = brk + need /\ bk \in 0..HEAP_SIZE
  BY <1>2, <1>3, <1>4, <1>6, HeapAssumption
<1> HIDE DEF h, bk
<1>10. \A c \in BlocksIn(hdr) : /\ c \in Cells /\ c \in Nat /\ hdr[c] \in Nat
                                /\ HDR < hdr[c] /\ c + hdr[c] <= brk /\ c < brk
  BY <1>1, <1>2, <1>7 DEF HeapShape, BlocksIn, Cells
<1>11. BlocksIn(h) = BlocksIn(hdr) \cup {brk}
  BY <1>7, <1>8 DEF BlocksIn
<1>12. \A c \in BlocksIn(hdr) : c \in BlocksIn(h) /\ h[c] = hdr[c]
  BY <1>2, <1>8, <1>10, <1>11
<1>13. HeapShape(bk, h)
  <2>1. \A b \in BlocksIn(h) : HDR < h[b] /\ b + h[b] <= bk
    BY <1>2, <1>3, <1>7, <1>8, <1>9, <1>10, <1>11, <1>12
  <2>2. ASSUME NEW b \in BlocksIn(h), NEW c \in BlocksIn(h), b < c
        PROVE  b + h[b] <= c
    <3>1. CASE c = brk
      <4>1. b \in BlocksIn(hdr)
        BY <3>1, <2>2, <1>2, <1>11
      <4>2. QED
        BY <3>1, <4>1, <1>10, <1>12
    <3>2. CASE b = brk
      <4>1. c \in BlocksIn(hdr)
        BY <3>2, <2>2, <1>2, <1>11
      <4>2. QED
        BY <3>2, <4>1, <2>2, <1>2, <1>10
    <3>3. CASE b \in BlocksIn(hdr) /\ c \in BlocksIn(hdr)
      BY <3>3, <2>2, <1>1, <1>12 DEF HeapShape
    <3>4. QED
      BY <3>1, <3>2, <3>3, <1>11
  <2>3. QED
    BY <1>8, <1>9, <2>1, <2>2 DEF HeapShape
<1>14. Tiled(bk, h)
  <2> SUFFICES ASSUME NEW a \in 0..(bk - 1)
               PROVE  \E b \in BlocksIn(h) : b <= a /\ a < b + h[b]
    BY DEF Tiled
  <2>1. CASE a < brk
    <3>1. a \in 0..(brk - 1)
      BY <2>1, <1>2
    <3>2. PICK b \in BlocksIn(hdr) : b <= a /\ a < b + hdr[b]
      BY <3>1, <1>1 DEF Tiled
    <3>3. QED
      BY <3>2, <1>12
  <2>2. CASE ~(a < brk)
    <3>1. brk <= a /\ a < brk + h[brk]
      BY <2>2, <1>2, <1>8, <1>9
    <3>2. QED
      BY <3>1, <1>11
  <2>3. QED
    BY <2>1, <2>2
<1>15. FreeShape(h, freelist)
  BY <1>1, <1>12 DEF FreeShape
<1>16. brk + HDR \in Nat /\ (brk + HDR) - HDR = brk /\ n <= h[brk] - HDR /\ brk \in BlocksIn(h)
  BY <1>2, <1>3, <1>7, <1>8, <1>11
<1>17. \A o \in LiveIn(obj) : obj[o].ptr - HDR # brk
  BY <1>1, <1>10 DEF ObjShape
<1>18. \A i \in 1..Len(freelist) : /\ freelist[i] # brk
                                   /\ \A o \in LiveIn(obj) : freelist[i] # obj[o].ptr - HDR
  BY <1>1, <1>2, <1>10 DEF FreeShape, OneOwner
<1>19. \A c \in BlocksIn(h) : c = brk \/ Owned(c, freelist, obj)
  BY <1>1, <1>11 DEF AllOwned
<1>20. Serves(brk + HDR, bk, h, freelist, n)
  BY <1>12, <1>13, <1>14, <1>15, <1>16, <1>17, <1>18, <1>19 DEF Serves
<1>21. QED
  BY <1>20 DEF h, bk

(* malloc either serves the request or returns NULL and leaves the heap    *)
(* as it was.                                                              *)
LEMMA MallocServes ==
    ASSUME HInv, NEW n \in 1..MAX_REQUEST
    PROVE  IF Malloc(n).p = 0
           THEN Malloc(n).brk = brk /\ Malloc(n).hdr = hdr /\ Malloc(n).free = freelist
           ELSE Serves(Malloc(n).p, Malloc(n).brk, Malloc(n).hdr, Malloc(n).free, n)
<1>1. CASE Fitting(Need(n)) # {}
  <2>1. Serves(Malloc(n).p, Malloc(n).brk, Malloc(n).hdr, Malloc(n).free, n)
    BY <1>1, ReuseServes DEF Malloc
  <2>2. Malloc(n).p # 0
    <3>1. Malloc(n).p \in Nat /\ Malloc(n).p - HDR \in Nat
      BY <2>1 DEF Serves, BlocksIn, Cells
    <3>2. QED
      BY <3>1, HeapAssumption
  <2>3. QED
    BY <2>1, <2>2
<1>2. CASE Fitting(Need(n)) = {} /\ Full(Need(n))
  BY <1>2 DEF Malloc
<1>3. CASE Fitting(Need(n)) = {} /\ ~Full(Need(n))
  <2>1. Serves(Malloc(n).p, Malloc(n).brk, Malloc(n).hdr, Malloc(n).free, n)
    BY <1>3, CarveServes DEF Malloc
  <2>2. Malloc(n).p # 0
    <3>1. Malloc(n).p \in Nat /\ Malloc(n).p - HDR \in Nat
      BY <2>1 DEF Serves, BlocksIn, Cells
    <3>2. QED
      BY <3>1, HeapAssumption
  <2>3. QED
    BY <2>1, <2>2
<1>4. QED
  BY <1>1, <1>2, <1>3

-----------------------------------------------------------------------------
(* Cells. *)

(* A cell of one block is no cell of another. *)
LEMMA Apart ==
    ASSUME NEW bk, NEW h, HeapShape(bk, h),
           NEW b \in BlocksIn(h), NEW c \in BlocksIn(h), b # c,
           NEW a \in Int, b <= a, a < b + h[b]
    PROVE  ~(c <= a /\ a < c + h[c])
<1>1. b \in Nat /\ c \in Nat /\ h[b] \in Nat /\ h[c] \in Nat
  BY DEF HeapShape, BlocksIn, Cells
<1>2. (b < c => b + h[b] <= c) /\ (c < b => c + h[c] <= b)
  BY DEF HeapShape
<1>3. QED
  BY <1>1, <1>2

(* The fields of an object, and where its cells are. *)
LEMMA LiveObject ==
    ASSUME NEW bk, NEW h, NEW ob, HeapShape(bk, h), ObjShape(h, ob), NEW o \in LiveIn(ob)
    PROVE  /\ ob[o] \in Object /\ o \in Objs
           /\ ob[o].ptr \in Nat /\ ob[o].size \in Nat /\ ob[o].init \in Nat
           /\ ob[o].val \in Words
           /\ ob[o].ptr - HDR \in BlocksIn(h) /\ ob[o].ptr - HDR \in Nat
           /\ h[ob[o].ptr - HDR] \in Nat /\ HDR < h[ob[o].ptr - HDR]
           /\ ob[o].ptr - HDR + h[ob[o].ptr - HDR] <= bk
           /\ bk \in Nat /\ bk <= HEAP_SIZE
           /\ ob[o].size <= h[ob[o].ptr - HDR] - HDR
           /\ ob[o].init <= ob[o].size
           /\ ob[o].ptr \in Cells
<1>1. o \in Objs /\ ob[o] \in Object
  BY DEF ObjShape, LiveIn
<1>2. /\ ob[o].ptr \in Nat /\ ob[o].size \in Nat /\ ob[o].init \in Nat
      /\ ob[o].val \in Words
  BY <1>1 DEF Object
<1>3. /\ ob[o].ptr - HDR \in BlocksIn(h)
      /\ ob[o].size <= h[ob[o].ptr - HDR] - HDR
      /\ ob[o].init <= ob[o].size
  BY DEF ObjShape
<1>4. /\ ob[o].ptr - HDR \in Nat /\ h[ob[o].ptr - HDR] \in Nat
      /\ HDR < h[ob[o].ptr - HDR]
      /\ ob[o].ptr - HDR + h[ob[o].ptr - HDR] <= bk /\ bk \in Nat /\ bk <= HEAP_SIZE
  BY <1>3 DEF HeapShape, BlocksIn, Cells
<1>5. ob[o].ptr \in Cells
  BY <1>2, <1>4, HeapAssumption DEF Cells
<1>6. QED
  BY <1>1, <1>2, <1>3, <1>4, <1>5

(* e is d but for cells of block b. *)
DiffersIn(b, h, d, e) ==
    \A a \in Cells : ~(b <= a /\ a < b + h[b]) => e[a] = d[a]

(* Writing inside one block leaves the initialised cells of an object in   *)
(* another block alone.                                                    *)
LEMMA OthersKept ==
    ASSUME NEW bk, NEW h, NEW ob, HeapShape(bk, h), ObjShape(h, ob),
           NEW d, NEW e, NEW b \in BlocksIn(h), DiffersIn(b, h, d, e)
    PROVE  \A q \in LiveIn(ob) : ob[q].ptr - HDR # b =>
              \A i \in 0..(ob[q].init - 1) : e[ob[q].ptr + i] = d[ob[q].ptr + i]
<1> SUFFICES ASSUME NEW q \in LiveIn(ob), ob[q].ptr - HDR # b,
                    NEW i \in 0..(ob[q].init - 1)
             PROVE  e[ob[q].ptr + i] = d[ob[q].ptr + i]
  OBVIOUS
<1> DEFINE c == ob[q].ptr - HDR
           a == ob[q].ptr + i
<1>1. /\ c \in BlocksIn(h) /\ c # b /\ a \in Int /\ c <= a /\ a < c + h[c] /\ a \in Cells
  BY LiveObject, HeapAssumption DEF Cells
<1> HIDE DEF a, c
<1>2. ~(b <= a /\ a < b + h[b])
  BY <1>1, Apart
<1>3. QED
  BY <1>1, <1>2 DEF a, DiffersIn

-----------------------------------------------------------------------------
(* ob is obj with o set to x. *)
Given(o, x, ob) ==
    /\ ob \in [Objs -> Object \cup {NoObj}] /\ ob[o] = x
    /\ \A q \in Objs : q # o => ob[q] = obj[q]

(* What assigning one element of obj does. *)
LEMMA ExceptGives ==
    ASSUME ObjShape(hdr, obj), NEW o \in Objs, NEW x \in Object
    PROVE  Given(o, x, [obj EXCEPT ![o] = x])
  BY DEF ObjShape, Given

(* Giving a served block to an object that had none, when the cells differ *)
(* from the old ones in the new block only.                                *)
LEMMA GrantKeeps ==
    ASSUME HInv, NEW o \in Objs, obj[o] = NoObj, NEW n \in Nat,
           NEW bk, NEW h, NEW f, NEW x \in Object, Serves(x.ptr, bk, h, f, n),
           x.size <= n, x.init <= x.size,
           NEW ob, Given(o, x, ob),
           NEW d \in [Cells -> Words],
           DiffersIn(x.ptr - HDR, h, data, d),
           \A i \in 0..(x.init - 1) : d[x.ptr + i] = x.val
    PROVE  Sound(bk, h, f, d, ob)
<1>1. /\ ObjShape(hdr, obj) /\ OneOwner(freelist, obj) /\ HeapShape(brk, hdr)
  BY DEF HInv, Sound
<1>2. x # NoObj
  BY NoObjAssumption
<1>3. ob \in [Objs -> Object \cup {NoObj}] /\ ob[o] = x /\ \A q \in Objs : q # o => ob[q] = obj[q]
  BY DEF Given
<1>4. LiveIn(ob) = LiveIn(obj) \cup {o} /\ o \notin LiveIn(obj)
  BY <1>2, <1>3 DEF LiveIn
<1>5. \A q \in LiveIn(obj) : ob[q] = obj[q] /\ q \in Objs
  BY <1>3, <1>4 DEF LiveIn
<1>6. /\ x.ptr \in Nat /\ x.ptr - HDR \in BlocksIn(h) /\ n <= h[x.ptr - HDR] - HDR
      /\ \A c \in BlocksIn(hdr) : c \in BlocksIn(h) /\ h[c] = hdr[c]
      /\ HeapShape(bk, h)
  BY DEF Serves
<1>7. ObjShape(h, ob)
  <2>1. ob[o].ptr - HDR \in BlocksIn(h) /\ ob[o].size <= h[ob[o].ptr - HDR] - HDR
        /\ ob[o].init <= ob[o].size
    <3>1. x.size \in Nat /\ h[x.ptr - HDR] \in Nat
      BY <1>6 DEF Object, HeapShape, BlocksIn, Cells
    <3>2. QED
      BY <1>3, <1>6, <3>1, HeapAssumption
  <2>2. ASSUME NEW q \in LiveIn(obj)
        PROVE  /\ ob[q].ptr - HDR \in BlocksIn(h)
               /\ ob[q].size <= h[ob[q].ptr - HDR] - HDR
               /\ ob[q].init <= ob[q].size
    BY <1>1, <1>5, <1>6 DEF ObjShape
  <2>3. QED
    BY <1>3, <1>4, <2>1, <2>2 DEF ObjShape
<1>8. OneOwner(f, ob)
  <2>1. \A q \in LiveIn(obj) : obj[q].ptr # x.ptr
    BY DEF Serves
  <2>2. \A q, r \in LiveIn(obj) : obj[q].ptr = obj[r].ptr => q = r
    BY <1>1 DEF OneOwner
  <2>3. \A q, r \in LiveIn(ob) : ob[q].ptr = ob[r].ptr => q = r
    BY <1>3, <1>4, <1>5, <2>1, <2>2
  <2>4. \A i \in 1..Len(f) : f[i] # x.ptr - HDR /\ \A q \in LiveIn(obj) : f[i] # obj[q].ptr - HDR
    BY DEF Serves
  <2>5. QED
    BY <1>3, <1>4, <1>5, <2>3, <2>4 DEF OneOwner
<1>9. AllOwned(h, f, ob)
  <2>1. \A c \in BlocksIn(h) : c = x.ptr - HDR \/ Owned(c, f, obj)
    BY DEF Serves
  <2>2. Owned(x.ptr - HDR, f, ob)
    BY <1>3, <1>4 DEF Owned
  <2>3. \A c \in BlocksIn(h) : Owned(c, f, obj) => Owned(c, f, ob)
    BY <1>4, <1>5 DEF Owned
  <2>4. QED
    BY <2>1, <2>2, <2>3 DEF AllOwned
<1>10. /\ HeapShape(bk, h) /\ Tiled(bk, h) /\ FreeShape(h, f)
       /\ \A q \in LiveIn(obj) : obj[q].ptr - HDR # x.ptr - HDR
  BY DEF Serves
<1>11. DataShape(data, obj)
  BY DEF HInv, Sound
<1>12. \A q \in LiveIn(ob) : ob[q].ptr - HDR # x.ptr - HDR =>
          \A i \in 0..(ob[q].init - 1) : d[ob[q].ptr + i] = data[ob[q].ptr + i]
  BY <1>6, <1>7, OthersKept
<1>13. ASSUME NEW q \in LiveIn(obj), NEW i \in 0..(ob[q].init - 1)
      PROVE  d[ob[q].ptr + i] = ob[q].val
  <2>1. q \in LiveIn(ob) /\ ob[q] = obj[q] /\ ob[q].ptr - HDR # x.ptr - HDR
    BY <1>4, <1>5, <1>10
  <2>2. d[ob[q].ptr + i] = data[ob[q].ptr + i]
    BY <1>12, <2>1
  <2>3. data[obj[q].ptr + i] = obj[q].val
    BY <1>11, <2>1 DEF DataShape
  <2>4. QED
    BY <2>1, <2>2, <2>3
<1>14. ASSUME NEW q \in LiveIn(ob), NEW i \in 0..(ob[q].init - 1)
      PROVE  d[ob[q].ptr + i] = ob[q].val
  <2>1. CASE q = o
    BY <1>3, <2>1
  <2>2. CASE q # o
    BY <1>4, <1>13, <2>2
  <2>3. QED
    BY <2>1, <2>2
<1>15. DataShape(d, ob)
  BY <1>14 DEF DataShape
<1>16. QED
  BY <1>7, <1>8, <1>9, <1>10, <1>15 DEF Sound

(* A served block lies in the heap. *)
LEMMA ServedRange ==
    ASSUME NEW p, NEW bk, NEW h, NEW f, NEW n, Serves(p, bk, h, f, n)
    PROVE  /\ p \in Nat /\ p - HDR \in Nat /\ h[p - HDR] \in Nat
           /\ p - HDR + h[p - HDR] <= HEAP_SIZE /\ bk \in Nat
<1>1. p \in Nat /\ p - HDR \in BlocksIn(h) /\ HeapShape(bk, h)
  BY DEF Serves
<1>2. QED
  BY <1>1, HeapAssumption DEF HeapShape, BlocksIn, Cells

(* malloc for a new object. *)
LEMMA AllocStep ==
    ASSUME HInv, NEW o \in Objs, NEW n \in Requests, Alloc(o, n)
    PROVE  HInv'
<1>1. n \in 1..MAX_REQUEST /\ n \in Nat
  BY HeapAssumption
<1>2. /\ obj[o] = NoObj /\ data' = data
      /\ brk' = Malloc(n).brk /\ hdr' = Malloc(n).hdr /\ freelist' = Malloc(n).free
      /\ obj' = IF Malloc(n).p = 0 THEN obj ELSE [obj EXCEPT
                    ![o] = [ptr |-> Malloc(n).p, size |-> n, init |-> 0, val |-> Unset]]
  BY DEF Alloc
<1>3. CASE Malloc(n).p = 0
  <2>1. brk' = brk /\ hdr' = hdr /\ freelist' = freelist /\ obj' = obj
    BY <1>1, <1>2, <1>3, MallocServes
  <2>2. QED
    BY <1>2, <2>1 DEF HInv, Sound
<1>4. CASE Malloc(n).p # 0
  <2> DEFINE x == [ptr |-> Malloc(n).p, size |-> n, init |-> 0, val |-> Unset]
  <2>1. Serves(Malloc(n).p, Malloc(n).brk, Malloc(n).hdr, Malloc(n).free, n)
    BY <1>1, <1>4, MallocServes
  <2>2. Malloc(n).p \in Nat
    BY <2>1 DEF Serves
  <2>3. x \in Object /\ x.ptr = Malloc(n).p /\ x.size = n /\ x.init = 0
    BY <1>1, <2>2 DEF Object, Words
  <2>4. Given(o, x, obj')
    BY <1>2, <1>4, <2>3, ExceptGives DEF HInv, Sound
  <2>5. data' \in [Cells -> Words]
    BY <1>2 DEF HInv, Sound, DataShape
  <2> HIDE DEF x
  <2>6. 0..(x.init - 1) = {} /\ x.size <= n /\ x.init <= x.size
    BY <1>1, <2>3
  <2>7. Serves(x.ptr, brk', hdr', freelist', n)
    BY <1>2, <2>1, <2>3
  <2>8. Sound(brk', hdr', freelist', data', obj')
    <3>1. DiffersIn(x.ptr - HDR, hdr', data, data')
      BY <1>2 DEF DiffersIn
    <3>2. \A i \in 0..(x.init - 1) : data'[x.ptr + i] = x.val
      BY <2>6
    <3>3. QED
      BY <1>1, <1>2, <2>3, <2>4, <2>5, <2>6, <2>7, <3>1, <3>2, GrantKeeps, Zenon
  <2>9. QED
    BY <2>8 DEF HInv
<1>5. QED
  BY <1>3, <1>4

(* calloc: the product of its arguments does not wrap, and it clears cells of
the new block only. *)
LEMMA CallocStep ==
    ASSUME HInv, NEW o \in Objs, NEW n \in Requests, NEW sz \in Requests,
           n * sz <= MAX_REQUEST, Calloc(o, n, sz)
    PROVE  HInv'
<1>1. PICK t \in 1..MAX_REQUEST : t = n * sz
  <2>1. n \in Nat /\ sz \in Nat /\ n >= 1 /\ sz >= 1
    BY HeapAssumption
  <2>2. n * sz \in Nat /\ n * sz >= 1
    BY <2>1
  <2>3. QED
    BY <2>2, HeapAssumption
<1>2. t \in Nat /\ t < SIZE_MOD /\ SIZE_MOD \in Nat \ {0}
  BY HeapAssumption
<1>3. (n * sz) % SIZE_MOD = t
  BY <1>1, <1>2, ModSmall
<1>4. /\ obj[o] = NoObj
      /\ brk' = Malloc(t).brk /\ hdr' = Malloc(t).hdr /\ freelist' = Malloc(t).free
      /\ IF Malloc(t).p = 0 THEN data' = data /\ obj' = obj
         ELSE /\ data' = Fill(data, Malloc(t).p, t, Zero)
              /\ obj' = [obj EXCEPT ![o] =
                    [ptr |-> Malloc(t).p, size |-> t, init |-> t, val |-> Zero]]
  BY <1>1, <1>3, Zenon DEF Calloc
<1>5. CASE Malloc(t).p = 0
  <2>1. brk' = brk /\ hdr' = hdr /\ freelist' = freelist /\ obj' = obj /\ data' = data
    BY <1>4, <1>5, MallocServes
  <2>2. QED
    BY <2>1 DEF HInv, Sound
<1>6. CASE Malloc(t).p # 0
  <2> DEFINE x == [ptr |-> Malloc(t).p, size |-> t, init |-> t, val |-> Zero]
  <2>1. Serves(Malloc(t).p, Malloc(t).brk, Malloc(t).hdr, Malloc(t).free, t)
    BY <1>6, MallocServes
  <2>2. Malloc(t).p \in Nat
    BY <2>1 DEF Serves
  <2>3. x \in Object /\ x.ptr = Malloc(t).p /\ x.size = t /\ x.init = t /\ x.val = Zero
    BY <2>2 DEF Object, Words
  <2>4. Given(o, x, obj') /\ data' = Fill(data, x.ptr, t, Zero)
    BY <1>4, <1>6, <2>3, ExceptGives DEF HInv, Sound
  <2> HIDE DEF x
  <2>5. Serves(x.ptr, brk', hdr', freelist', t)
    BY <1>4, <2>1, <2>3
  <2>6. x.ptr - HDR \in BlocksIn(hdr') /\ t <= hdr'[x.ptr - HDR] - HDR
    BY <2>5 DEF Serves
  <2>7. x.ptr - HDR \in Nat /\ hdr'[x.ptr - HDR] \in Nat /\ x.ptr \in Nat
        /\ x.ptr - HDR + hdr'[x.ptr - HDR] <= HEAP_SIZE
    BY <2>5, ServedRange
  <2>8. data \in [Cells -> Words] /\ Zero \in Words
    BY DEF HInv, Sound, DataShape, Words
  <2>9. data' \in [Cells -> Words]
    BY <2>4, <2>8 DEF Fill
  <2>10. DiffersIn(x.ptr - HDR, hdr', data, data')
    <3> SUFFICES ASSUME NEW a \in Cells,
                        ~(x.ptr - HDR <= a /\ a < x.ptr - HDR + hdr'[x.ptr - HDR])
                 PROVE  data'[a] = data[a]
      BY DEF DiffersIn
    <3>1. ~(a >= x.ptr /\ a < x.ptr + t)
      BY <2>6, <2>7, HeapAssumption DEF Cells
    <3>2. QED
      BY <3>1, <2>4 DEF Fill
  <2>11. ASSUME NEW i \in 0..(t - 1)
         PROVE  data'[x.ptr + i] = Zero
    <3>1. x.ptr + i \in Cells /\ x.ptr + i >= x.ptr /\ x.ptr + i < x.ptr + t
      BY <2>6, <2>7, HeapAssumption DEF Cells
    <3>2. QED
      BY <3>1, <2>4 DEF Fill
  <2>12. x.size <= t /\ x.init <= x.size /\ t \in Nat
    BY <1>2, <2>3
  <2>13. Sound(brk', hdr', freelist', data', obj')
    BY <1>4, <2>3, <2>4, <2>9, <2>10, <2>11, <2>12, <2>5, GrantKeeps, Zenon
  <2>14. QED
    BY <2>13 DEF HInv
<1>7. QED
  BY <1>5, <1>6

(* An object that stays in its block, with a new size, initialised length  *)
(* or value.                                                               *)
LEMMA InPlace ==
    ASSUME HInv, NEW o \in LiveIn(obj), NEW x \in Object, NEW ob, Given(o, x, ob),
           x.ptr = obj[o].ptr, x.size <= hdr[x.ptr - HDR] - HDR, x.init <= x.size,
           NEW d \in [Cells -> Words], DiffersIn(x.ptr - HDR, hdr, data, d),
           \A i \in 0..(x.init - 1) : d[x.ptr + i] = x.val
    PROVE  Sound(brk, hdr, freelist, d, ob)
<1>1. /\ HeapShape(brk, hdr) /\ Tiled(brk, hdr) /\ FreeShape(hdr, freelist)
      /\ ObjShape(hdr, obj) /\ OneOwner(freelist, obj) /\ AllOwned(hdr, freelist, obj)
      /\ DataShape(data, obj)
  BY DEF HInv, Sound
<1>2. x # NoObj /\ o \in Objs
  BY NoObjAssumption DEF LiveIn
<1>3. /\ ob \in [Objs -> Object \cup {NoObj}] /\ ob[o] = x
      /\ \A q \in Objs : q # o => ob[q] = obj[q]
  BY DEF Given
<1>4. LiveIn(ob) = LiveIn(obj)
  BY <1>2, <1>3 DEF LiveIn
<1>5. \A q \in LiveIn(obj) : ob[q].ptr = obj[q].ptr /\ (q # o => ob[q] = obj[q])
  BY <1>2, <1>3 DEF LiveIn
<1>6. ObjShape(hdr, ob)
  BY <1>1, <1>3, <1>4, <1>5 DEF ObjShape
<1>7. OneOwner(freelist, ob)
  BY <1>1, <1>4, <1>5 DEF OneOwner
<1>8. AllOwned(hdr, freelist, ob)
  BY <1>1, <1>4, <1>5 DEF AllOwned, Owned
<1>9. x.ptr - HDR \in BlocksIn(hdr)
  BY <1>1 DEF ObjShape
<1>10. \A q \in LiveIn(ob) : ob[q].ptr - HDR # x.ptr - HDR =>
          \A i \in 0..(ob[q].init - 1) : d[ob[q].ptr + i] = data[ob[q].ptr + i]
  BY <1>1, <1>6, <1>9, OthersKept
<1>11. ASSUME NEW q \in LiveIn(ob), NEW i \in 0..(ob[q].init - 1)
       PROVE  d[ob[q].ptr + i] = ob[q].val
  <2>1. CASE q = o
    BY <1>3, <2>1
  <2>2. CASE q # o
    <3>1. ob[q] = obj[q] /\ q \in LiveIn(obj)
      BY <1>4, <1>5, <2>2
    <3>2. ob[q].ptr # x.ptr /\ ob[q].ptr \in Nat /\ x.ptr \in Nat
      <4>1. obj[q].ptr \in Nat /\ obj[o].ptr \in Nat
        BY <1>1, <3>1, LiveObject
      <4>2. QED
        BY <1>1, <2>2, <3>1, <4>1 DEF OneOwner
    <3>3. ob[q].ptr - HDR # x.ptr - HDR
      BY <3>2, HeapAssumption
    <3>4. d[ob[q].ptr + i] = data[ob[q].ptr + i]
      BY <1>10, <3>3
    <3>5. QED
      BY <1>1, <3>1, <3>4 DEF DataShape
  <2>3. QED
    BY <2>1, <2>2
<1>12. DataShape(d, ob)
  BY <1>11 DEF DataShape
<1>13. QED
  BY <1>1, <1>6, <1>7, <1>8, <1>12 DEF Sound

(* The VM writes its own cells only. *)
LEMMA WriteStep ==
    ASSUME HInv, NEW o \in Objs, NEW v \in Values, Write(o, v)
    PROVE  HInv'
<1>1. /\ HeapShape(brk, hdr) /\ ObjShape(hdr, obj) /\ data \in [Cells -> Words]
  BY DEF HInv, Sound, DataShape
<1>2. /\ o \in LiveIn(obj) /\ brk' = brk /\ hdr' = hdr /\ freelist' = freelist
      /\ data' = Fill(data, obj[o].ptr, obj[o].size, v)
      /\ obj' = [obj EXCEPT ![o] = [obj[o] EXCEPT !.init = obj[o].size, !.val = v]]
  BY DEF Write, LiveIn
<1>3. /\ obj[o] \in Object /\ obj[o].ptr \in Nat /\ obj[o].size \in Nat
      /\ obj[o].ptr - HDR \in Nat /\ hdr[obj[o].ptr - HDR] \in Nat
      /\ obj[o].size <= hdr[obj[o].ptr - HDR] - HDR
      /\ obj[o].ptr - HDR + hdr[obj[o].ptr - HDR] <= HEAP_SIZE
  <2> HIDE DEF HInv
  <2>1. QED
    BY <1>1, <1>2, LiveObject, HeapAssumption
<1> DEFINE x == [obj[o] EXCEPT !.init = obj[o].size, !.val = v]
<1>4. x \in Object /\ x.ptr = obj[o].ptr /\ x.size = obj[o].size /\ x.init = obj[o].size
      /\ x.val = v
  BY <1>3 DEF Object, Words
<1>5. obj' = [obj EXCEPT ![o] = x]
  BY <1>2
<1>6. Given(o, x, obj')
  BY <1>1, <1>4, <1>5, ExceptGives
<1> HIDE DEF x
<1>7. data' \in [Cells -> Words]
  BY <1>1, <1>2 DEF Fill, Words
<1>8. DiffersIn(x.ptr - HDR, hdr, data, data')
  <2> SUFFICES ASSUME NEW a \in Cells,
                      ~(x.ptr - HDR <= a /\ a < x.ptr - HDR + hdr[x.ptr - HDR])
               PROVE  data'[a] = data[a]
    BY DEF DiffersIn
  <2>1. ~(a >= obj[o].ptr /\ a < obj[o].ptr + obj[o].size)
    BY <1>3, <1>4, HeapAssumption DEF Cells
  <2>2. QED
    BY <1>2, <2>1 DEF Fill
<1>9. \A i \in 0..(x.init - 1) : data'[x.ptr + i] = x.val
  <2> TAKE i \in 0..(x.init - 1)
  <2>1. x.ptr + i \in Cells /\ x.ptr + i >= obj[o].ptr /\ x.ptr + i < obj[o].ptr + obj[o].size
    BY <1>3, <1>4, HeapAssumption DEF Cells
  <2>2. QED
    BY <1>2, <1>4, <2>1 DEF Fill
<1>10. x.size <= hdr[x.ptr - HDR] - HDR /\ x.init <= x.size
  BY <1>3, <1>4
<1>11. Sound(brk, hdr, freelist, data', obj')
  BY <1>2, <1>4, <1>6, <1>7, <1>8, <1>9, <1>10, InPlace, Zenon
<1>12. QED
  BY <1>2, <1>11 DEF HInv

(* Pushing a block that is not on the list keeps the list well formed and  *)
(* adds that block only.                                                   *)
LEMMA PushKeeps ==
    ASSUME NEW h, NEW f, FreeShape(h, f), NEW b \in BlocksIn(h),
           \A i \in 1..Len(f) : f[i] # b
    PROVE  /\ FreeShape(h, Push(b, f))
           /\ \A j \in 1..Len(Push(b, f)) :
                 Push(b, f)[j] = b \/ \E i \in 1..Len(f) : Push(b, f)[j] = f[i]
           /\ \E j \in 1..Len(Push(b, f)) : Push(b, f)[j] = b
           /\ \A i \in 1..Len(f) : \E j \in 1..Len(Push(b, f)) : Push(b, f)[j] = f[i]
<1> DEFINE g == Push(b, f)
<1>1. f \in Seq(Cells) /\ b \in Cells
  BY DEF FreeShape, BlocksIn
<1>2. /\ g \in Seq(Cells) /\ Len(g) = Len(f) + 1 /\ g[1] = b
      /\ \A i \in 1..Len(f) : g[i + 1] = f[i]
      /\ \A j \in 1..Len(g) : j = 1 \/ (j - 1 \in 1..Len(f) /\ g[j] = f[j - 1])
  BY <1>1, PushShape
<1>3. Len(f) \in Nat
  BY <1>1
<1> HIDE DEF g
<1>4. \A j \in 1..Len(g) : g[j] = b \/ \E i \in 1..Len(f) : g[j] = f[i]
  BY <1>2
<1>5. \E j \in 1..Len(g) : g[j] = b
  BY <1>2, <1>3
<1>6. \A i \in 1..Len(f) : \E j \in 1..Len(g) : g[j] = f[i]
  <2> TAKE i \in 1..Len(f)
  <2>1. i + 1 \in 1..Len(g) /\ g[i + 1] = f[i]
    BY <1>2, <1>3
  <2>2. QED
    BY <2>1
<1>7. \A j \in 1..Len(g) : g[j] \in BlocksIn(h)
  BY <1>4 DEF FreeShape
<1>8. ASSUME NEW i \in 1..Len(g), NEW j \in 1..Len(g), g[i] = g[j]
      PROVE  i = j
  <2>1. \A x, y \in 1..Len(f) : f[x] = f[y] => x = y
    BY DEF FreeShape
  <2>2. CASE i = 1 \/ j = 1
    BY <1>2, <1>8, <2>2
  <2>3. CASE i # 1 /\ j # 1
    <3>1. i - 1 \in 1..Len(f) /\ j - 1 \in 1..Len(f) /\ f[i - 1] = f[j - 1]
      BY <1>2, <1>8, <2>3
    <3>2. i - 1 = j - 1
      BY <2>1, <3>1
    <3>3. QED
      BY <3>2
  <2>4. QED
    BY <2>2, <2>3
<1>9. FreeShape(h, g)
  BY <1>2, <1>7, <1>8 DEF FreeShape
<1>10. QED
  BY <1>4, <1>5, <1>6, <1>9 DEF g

(* free: the block changes its owner, and the link is written inside it. *)
LEMMA FreeStep ==
    ASSUME HInv, NEW o \in Objs, Free(o)
    PROVE  HInv'
<1>1. /\ HeapShape(brk, hdr) /\ Tiled(brk, hdr) /\ FreeShape(hdr, freelist)
      /\ ObjShape(hdr, obj) /\ OneOwner(freelist, obj) /\ AllOwned(hdr, freelist, obj)
      /\ DataShape(data, obj)
  BY DEF HInv, Sound
<1> DEFINE b == obj[o].ptr - HDR
<1>2. /\ o \in LiveIn(obj) /\ brk' = brk /\ hdr' = hdr
      /\ freelist' = Push(b, freelist)
      /\ data' = [data EXCEPT ![obj[o].ptr] = Link]
      /\ obj' = [obj EXCEPT ![o] = NoObj]
  BY DEF Free, LiveIn, BlockOf, Linked
<1>3. /\ obj[o].ptr \in Nat /\ obj[o].ptr \in Cells /\ b \in BlocksIn(hdr) /\ b \in Nat
      /\ hdr[b] \in Nat /\ HDR < hdr[b]
  BY <1>1, <1>2, LiveObject
<1>4. /\ obj' \in [Objs -> Object \cup {NoObj}] /\ LiveIn(obj') = LiveIn(obj) \ {o}
      /\ \A q \in LiveIn(obj') : obj'[q] = obj[q]
  BY <1>1, <1>2 DEF ObjShape, LiveIn
<1>5. \A q \in LiveIn(obj') : obj[q].ptr - HDR # b
  <2> TAKE q \in LiveIn(obj')
  <2>1. q \in LiveIn(obj) /\ q # o
    BY <1>4
  <2>2. obj[q].ptr # obj[o].ptr
    BY <1>1, <1>2, <2>1 DEF OneOwner
  <2>3. obj[q].ptr \in Nat
    BY <1>1, <2>1, LiveObject
  <2>4. QED
    BY <1>3, <2>2, <2>3, HeapAssumption
<1>6. \A i \in 1..Len(freelist) : freelist[i] # b
  BY <1>1, <1>2 DEF OneOwner
<1> HIDE DEF b
<1>7. /\ FreeShape(hdr, freelist')
      /\ \A j \in 1..Len(freelist') :
            freelist'[j] = b \/ \E i \in 1..Len(freelist) : freelist'[j] = freelist[i]
      /\ \E j \in 1..Len(freelist') : freelist'[j] = b
      /\ \A i \in 1..Len(freelist) : \E j \in 1..Len(freelist') : freelist'[j] = freelist[i]
  BY <1>1, <1>2, <1>3, <1>6, PushKeeps
<1>8. ObjShape(hdr, obj')
  BY <1>1, <1>4 DEF ObjShape
<1>9. OneOwner(freelist', obj')
  <2>1. \A q, r \in LiveIn(obj') : obj'[q].ptr = obj'[r].ptr => q = r
    BY <1>1, <1>4 DEF OneOwner
  <2>2. \A q \in LiveIn(obj') : \A i \in 1..Len(freelist) : freelist[i] # obj'[q].ptr - HDR
    BY <1>1, <1>4 DEF OneOwner
  <2>3. ASSUME NEW q \in LiveIn(obj'), NEW j \in 1..Len(freelist')
        PROVE  freelist'[j] # obj'[q].ptr - HDR
    BY <1>4, <1>5, <1>7, <2>2
  <2>4. QED
    BY <2>1, <2>3 DEF OneOwner
<1>10. AllOwned(hdr, freelist', obj')
  <2> SUFFICES ASSUME NEW c \in BlocksIn(hdr)
               PROVE  Owned(c, freelist', obj')
    BY DEF AllOwned
  <2>1. Owned(c, freelist, obj)
    BY <1>1 DEF AllOwned
  <2>2. CASE c = b
    BY <1>7, <2>2 DEF Owned
  <2>3. CASE c # b /\ \E q \in LiveIn(obj) : obj[q].ptr - HDR = c
    <3>1. PICK q \in LiveIn(obj) : obj[q].ptr - HDR = c
      BY <2>3
    <3>2. q # o
      BY <2>3, <3>1 DEF b
    <3>3. QED
      BY <1>4, <3>1, <3>2 DEF Owned
  <2>4. CASE \E i \in 1..Len(freelist) : freelist[i] = c
    BY <1>7, <2>4 DEF Owned
  <2>5. QED
    BY <2>1, <2>2, <2>3, <2>4 DEF Owned
<1>11. data' \in [Cells -> Words]
  BY <1>1, <1>2 DEF DataShape, Words
<1>12. DiffersIn(b, hdr, data, data')
  <2> SUFFICES ASSUME NEW a \in Cells, ~(b <= a /\ a < b + hdr[b])
               PROVE  data'[a] = data[a]
    BY DEF DiffersIn
  <2>1. a # obj[o].ptr
    BY <1>3, HeapAssumption DEF b, Cells
  <2>2. QED
    BY <1>1, <1>2, <2>1 DEF DataShape
<1>13. \A q \in LiveIn(obj') : obj'[q].ptr - HDR # b =>
          \A i \in 0..(obj'[q].init - 1) : data'[obj'[q].ptr + i] = data[obj'[q].ptr + i]
  BY <1>1, <1>3, <1>8, <1>12, OthersKept
<1>14. \A q \in LiveIn(obj') : \A i \in 0..(obj'[q].init - 1) :
          data'[obj'[q].ptr + i] = obj'[q].val
  BY <1>1, <1>4, <1>5, <1>13 DEF DataShape
<1>15. DataShape(data', obj')
  BY <1>11, <1>14 DEF DataShape
<1>16. QED
  BY <1>1, <1>2, <1>7, <1>8, <1>9, <1>10, <1>15 DEF HInv, Sound

(* realloc's move of o to x: the cells of the old block are copied and its  *)
(* first cell then takes the link.                                         *)
Moves(o, x, n, d) ==
    /\ x.size = n /\ x.init = obj[o].init /\ x.val = obj[o].val
    /\ hdr[obj[o].ptr - HDR] - HDR < n
    /\ d = Linked(Copy(data, x.ptr, obj[o].ptr, hdr[obj[o].ptr - HDR] - HDR), obj[o].ptr)

(* An object that moves to a served block: its old block is pushed on the  *)
(* list malloc left, after its cells were copied.                          *)
LEMMA Moved ==
    ASSUME HInv, NEW o \in LiveIn(obj), NEW n \in Nat,
           NEW bk, NEW h, NEW f, NEW x \in Object, Serves(x.ptr, bk, h, f, n),
           NEW ob, Given(o, x, ob), NEW d, Moves(o, x, n, d)
    PROVE  Sound(bk, h, Push(obj[o].ptr - HDR, f), d, ob)
<1> DEFINE p == obj[o].ptr
           b == p - HDR
           old == hdr[b] - HDR
           c == x.ptr - HDR
           e == Copy(data, x.ptr, p, old)
           g == Push(b, f)
<1>1. /\ HeapShape(brk, hdr) /\ ObjShape(hdr, obj) /\ OneOwner(freelist, obj)
      /\ DataShape(data, obj)
  BY DEF HInv, Sound
<1>2. /\ p \in Nat /\ b \in BlocksIn(hdr) /\ b \in Nat /\ hdr[b] \in Nat
      /\ obj[o].size \in Nat /\ obj[o].init \in Nat /\ obj[o].size <= old
      /\ obj[o].init <= obj[o].size /\ p \in Cells /\ o \in Objs
      /\ HDR < hdr[b] /\ b + hdr[b] <= brk /\ brk \in Nat /\ brk <= HEAP_SIZE
  BY <1>1, LiveObject
<1>3. /\ HeapShape(bk, h) /\ Tiled(bk, h) /\ FreeShape(h, f)
      /\ c \in BlocksIn(h) /\ n <= h[c] - HDR
      /\ \A k \in BlocksIn(hdr) : k \in BlocksIn(h) /\ h[k] = hdr[k]
      /\ \A q \in LiveIn(obj) : obj[q].ptr - HDR # c
      /\ \A i \in 1..Len(f) : f[i] # c /\ \A q \in LiveIn(obj) : f[i] # obj[q].ptr - HDR
      /\ \A k \in BlocksIn(h) : k = c \/ Owned(k, f, obj)
  BY DEF Serves
<1>4. x.ptr \in Nat /\ c \in Nat /\ h[c] \in Nat /\ c + h[c] <= HEAP_SIZE
  BY ServedRange
<1>5. b \in BlocksIn(h) /\ h[b] = hdr[b] /\ b # c
  BY <1>2, <1>3
<1>6. /\ ob \in [Objs -> Object \cup {NoObj}] /\ ob[o] = x
      /\ \A q \in Objs : q # o => ob[q] = obj[q]
  BY DEF Given
<1>7. LiveIn(ob) = LiveIn(obj)
  BY <1>2, <1>6, NoObjAssumption DEF LiveIn
<1>8. \A q \in LiveIn(obj) : q # o =>
          /\ ob[q] = obj[q] /\ obj[q].ptr - HDR # b /\ obj[q].ptr # p
  <2> SUFFICES ASSUME NEW q \in LiveIn(obj), q # o
               PROVE  ob[q] = obj[q] /\ obj[q].ptr - HDR # b /\ obj[q].ptr # p
    OBVIOUS
  <2>1. obj[q].ptr # p
    BY <1>1 DEF OneOwner
  <2>2. obj[q].ptr \in Nat /\ q \in Objs
    BY <1>1, LiveObject
  <2>3. QED
    BY <1>2, <1>6, <2>1, <2>2, HeapAssumption
<1>9. d = Linked(e, p) /\ x.size = n /\ x.init = obj[o].init /\ x.val = obj[o].val
  BY DEF Moves
<1>10. e = Copy(data, x.ptr, p, old)
  OBVIOUS
<1>11. x.ptr = c + HDR /\ x.ptr - HDR = c /\ p = b + HDR /\ hdr[b] = old + HDR
  <2>1. HDR \in Nat
    BY HeapAssumption
  <2>2. \A u, v \in Nat : u = (u - v) + v
    OBVIOUS
  <2>3. QED
    BY <1>2, <1>4, <2>1, <2>2, Zenon
<1>12. hdr[b] - HDR < n
  BY DEF Moves
<1>13. old = hdr[b] - HDR /\ g = Push(b, f) /\ old < n
  BY <1>12, Zenon
<1> HIDE DEF p, b, old, c, e, g
<1>14. b + hdr[b] <= HEAP_SIZE
  BY <1>2, HeapAssumption
<1>15. /\ p \in Nat /\ b \in Nat /\ c \in Nat /\ old \in Nat /\ h[c] \in Nat /\ x.ptr \in Nat
      /\ HDR \in Nat /\ HDR > 0 /\ HEAP_SIZE \in Nat /\ HDR < hdr[b] /\ hdr[b] \in Nat
      /\ p = b + HDR /\ x.ptr = c + HDR /\ x.ptr - HDR = c /\ hdr[b] = old + HDR
      /\ old < n /\ n <= h[c] - HDR /\ c + h[c] <= HEAP_SIZE /\ b + hdr[b] <= HEAP_SIZE
  BY <1>2, <1>3, <1>4, <1>11, <1>14, <1>13, HeapAssumption
<1>16. /\ FreeShape(h, g)
       /\ \A j \in 1..Len(g) : g[j] = b \/ \E i \in 1..Len(f) : g[j] = f[i]
       /\ \E j \in 1..Len(g) : g[j] = b
       /\ \A i \in 1..Len(f) : \E j \in 1..Len(g) : g[j] = f[i]
  <2>1. \A i \in 1..Len(f) : f[i] # b
    BY <1>3 DEF b, p
  <2>2. FreeShape(h, f) /\ b \in BlocksIn(h)
    BY <1>3, <1>5
  <2>3. /\ FreeShape(h, Push(b, f))
        /\ \A j \in 1..Len(Push(b, f)) :
              Push(b, f)[j] = b \/ \E i \in 1..Len(f) : Push(b, f)[j] = f[i]
        /\ \E j \in 1..Len(Push(b, f)) : Push(b, f)[j] = b
        /\ \A i \in 1..Len(f) : \E j \in 1..Len(Push(b, f)) : Push(b, f)[j] = f[i]
    BY <2>1, <2>2, PushKeeps, SMTT(30)
  <2>4. g = Push(b, f)
    BY <1>13
  <2>5. QED
    BY <2>3, <2>4, Zenon
<1>17. ObjShape(h, ob)
  <2>1. ASSUME NEW q \in LiveIn(ob)
        PROVE  /\ ob[q].ptr - HDR \in BlocksIn(h)
               /\ ob[q].size <= h[ob[q].ptr - HDR] - HDR
               /\ ob[q].init <= ob[q].size
    <3>1. CASE q = o
      <4>1. x.ptr - HDR \in BlocksIn(h) /\ x.size <= h[x.ptr - HDR] - HDR
        BY <1>3, <1>9, <1>11
      <4>2. x.init <= x.size
        BY <1>2, <1>15, <1>9
      <4>3. QED
        BY <1>6, <3>1, <4>1, <4>2
    <3>2. CASE q # o
      BY <1>1, <1>3, <1>7, <1>8, <3>2 DEF ObjShape
    <3>3. QED
      BY <3>1, <3>2
  <2>2. QED
    BY <1>6, <2>1 DEF ObjShape
<1>18. OneOwner(g, ob)
  <2>1. ASSUME NEW q \in LiveIn(ob), NEW r \in LiveIn(ob), ob[q].ptr = ob[r].ptr
        PROVE  q = r
    <3>1. \A k \in LiveIn(obj) : obj[k].ptr # x.ptr
      BY <1>3 DEF c
    <3>2. QED
      BY <1>1, <1>6, <1>7, <1>8, <2>1, <3>1 DEF OneOwner
  <2>2. ASSUME NEW q \in LiveIn(ob), NEW j \in 1..Len(g)
        PROVE  g[j] # ob[q].ptr - HDR
    <3>1. CASE q = o
      <4>1. ob[q].ptr - HDR = c
        BY <1>6, <1>11, <3>1
      <4>2. QED
        BY <1>3, <1>5, <1>16, <4>1
    <3>2. CASE q # o
      <4>1. q \in LiveIn(obj) /\ ob[q] = obj[q] /\ obj[q].ptr - HDR # b
        BY <1>7, <1>8, <3>2
      <4>2. \A i \in 1..Len(f) : f[i] # obj[q].ptr - HDR
        BY <1>3, <4>1
      <4>3. QED
        BY <1>16, <4>1, <4>2
    <3>3. QED
      BY <3>1, <3>2
  <2>3. QED
    BY <2>1, <2>2 DEF OneOwner
<1>19. AllOwned(h, g, ob)
  <2> SUFFICES ASSUME NEW k \in BlocksIn(h)
               PROVE  Owned(k, g, ob)
    BY DEF AllOwned
  <2>1. CASE k = c
    BY <1>6, <1>7, <1>15, <2>1 DEF Owned
  <2>2. CASE k = b
    BY <1>16, <2>2 DEF Owned
  <2>3. CASE k # c /\ k # b
    <3>1. CASE \E i \in 1..Len(f) : f[i] = k
      BY <1>16, <3>1 DEF Owned
    <3>2. CASE \E q \in LiveIn(obj) : obj[q].ptr - HDR = k
      <4>1. PICK q \in LiveIn(obj) : obj[q].ptr - HDR = k
        BY <3>2
      <4>2. q # o
        BY <2>3, <4>1 DEF b, p
      <4>3. QED
        BY <1>7, <1>8, <4>1, <4>2 DEF Owned
    <3>3. QED
      BY <1>3, <2>3, <3>1, <3>2 DEF Owned
  <2>4. QED
    BY <2>1, <2>2, <2>3
<1>20. e \in [Cells -> Words]
  <2>1. data \in [Cells -> Words]
    BY <1>1 DEF DataShape
  <2>2. ASSUME NEW a \in Cells, a >= x.ptr, a < x.ptr + old
        PROVE  p + (a - x.ptr) \in Cells
    BY <1>15, <2>2 DEF Cells
  <2>3. QED
    BY <1>10, <2>1, <2>2 DEF Copy
<1>21. DiffersIn(c, h, data, e)
  <2> SUFFICES ASSUME NEW a \in Cells, ~(c <= a /\ a < c + h[c])
               PROVE  e[a] = data[a]
    BY DEF DiffersIn
  <2>1. ~(a >= x.ptr /\ a < x.ptr + old)
    BY <1>15 DEF Cells
  <2>2. QED
    BY <1>10, <2>1 DEF Copy
<1>22. DiffersIn(b, h, e, d) /\ d \in [Cells -> Words]
  <2>1. d \in [Cells -> Words] /\ \A a \in Cells : a # p => d[a] = e[a]
    BY <1>20, <1>9 DEF Linked, Words
  <2>2. \A a \in Cells : ~(b <= a /\ a < b + h[b]) => a # p
    BY <1>5, <1>15 DEF Cells
  <2>3. QED
    BY <2>1, <2>2 DEF DiffersIn
<1>23. \A q \in LiveIn(ob) : ob[q].ptr - HDR # c =>
          \A i \in 0..(ob[q].init - 1) : e[ob[q].ptr + i] = data[ob[q].ptr + i]
  BY <1>3, <1>17, <1>21, OthersKept
<1>24. \A q \in LiveIn(ob) : ob[q].ptr - HDR # b =>
          \A i \in 0..(ob[q].init - 1) : d[ob[q].ptr + i] = e[ob[q].ptr + i]
  BY <1>3, <1>5, <1>17, <1>22, OthersKept
<1>25. ASSUME NEW q \in LiveIn(ob), NEW i \in 0..(ob[q].init - 1)
       PROVE  d[ob[q].ptr + i] = ob[q].val
  <2>1. CASE q = o
    <3>1. d[x.ptr + i] = e[x.ptr + i]
      BY <1>5, <1>6, <1>15, <1>24, <2>1
    <3>2. i \in 0..(obj[o].init - 1) /\ i \in Nat /\ i < old
      BY <1>2, <1>6, <1>15, <1>9, <2>1
    <3>3. x.ptr + i \in Cells /\ x.ptr + i >= x.ptr /\ x.ptr + i < x.ptr + old
          /\ (x.ptr + i) - x.ptr = i
      BY <1>15, <3>2 DEF Cells
    <3>4. e[x.ptr + i] = data[p + i]
      BY <1>10, <3>3 DEF Copy
    <3>5. data[p + i] = obj[o].val
      BY <1>1, <3>2 DEF DataShape, p
    <3>6. QED
      BY <1>6, <1>9, <2>1, <3>1, <3>4, <3>5
  <2>2. CASE q # o
    <3>1. ob[q] = obj[q] /\ q \in LiveIn(obj) /\ ob[q].ptr - HDR # b /\ ob[q].ptr - HDR # c
      BY <1>3, <1>7, <1>8, <2>2
    <3>2. d[ob[q].ptr + i] = data[ob[q].ptr + i]
      BY <1>23, <1>24, <3>1
    <3>3. QED
      BY <1>1, <3>1, <3>2 DEF DataShape
  <2>3. QED
    BY <2>1, <2>2
<1>26. DataShape(d, ob)
  BY <1>22, <1>25 DEF DataShape
<1>27. Sound(bk, h, g, d, ob)
  BY <1>3, <1>16, <1>17, <1>18, <1>19, <1>26 DEF Sound
<1>28. QED
  BY <1>27 DEF g, b, p

(* realloc: in place, refused, or moved. *)
LEMMA ReallocStep ==
    ASSUME HInv, NEW o \in Objs, NEW n \in Requests, Realloc(o, n)
    PROVE  HInv'
<1> DEFINE b == obj[o].ptr - HDR
           r == Malloc(n)
<1>1. n \in 1..MAX_REQUEST /\ n \in Nat
  BY HeapAssumption
<1>2. HeapShape(brk, hdr) /\ ObjShape(hdr, obj) /\ data \in [Cells -> Words] /\ DataShape(data, obj)
  BY DEF HInv, Sound, DataShape
<1>3. o \in LiveIn(obj)
  BY DEF Realloc, LiveIn
<1>4. /\ obj[o] \in Object /\ hdr[b] \in Nat /\ obj[o].size \in Nat /\ obj[o].init \in Nat
      /\ obj[o].init <= obj[o].size
  BY <1>2, <1>3, LiveObject
<1>5. CASE n <= hdr[b] - HDR
  <2> DEFINE x == [obj[o] EXCEPT !.size = n, !.init = Smaller(obj[o].init, n)]
  <2>1. /\ obj' = [obj EXCEPT ![o] = x]
        /\ brk' = brk /\ hdr' = hdr /\ freelist' = freelist /\ data' = data
    BY <1>5 DEF Realloc, BlockOf
  <2>2. Smaller(obj[o].init, n) \in Nat /\ Smaller(obj[o].init, n) <= n
        /\ Smaller(obj[o].init, n) <= obj[o].init
    BY <1>1, <1>4 DEF Smaller
  <2>3. /\ x \in Object /\ x.ptr = obj[o].ptr /\ x.size = n /\ x.val = obj[o].val
        /\ x.init = Smaller(obj[o].init, n)
    BY <1>1, <1>4, <2>2 DEF Object
  <2>4. Given(o, x, obj')
    BY <1>2, <2>1, <2>3, ExceptGives
  <2> HIDE DEF x
  <2>5. DiffersIn(x.ptr - HDR, hdr, data, data)
    BY DEF DiffersIn
  <2>6. \A i \in 0..(x.init - 1) : data[x.ptr + i] = x.val
    BY <1>2, <1>3, <1>4, <2>2, <2>3 DEF DataShape
  <2>7. x.size <= hdr[x.ptr - HDR] - HDR /\ x.init <= x.size
    BY <1>5, <2>2, <2>3
  <2>8. Sound(brk, hdr, freelist, data, obj')
    BY <1>2, <1>3, <2>3, <2>4, <2>5, <2>6, <2>7, InPlace, Zenon
  <2>9. QED
    BY <2>1, <2>8 DEF HInv
<1>6. CASE ~(n <= hdr[b] - HDR) /\ r.p = 0
  <2>1. UNCHANGED vars
    BY <1>6 DEF Realloc, BlockOf
  <2>2. QED
    BY <2>1 DEF HInv, Sound, vars
<1>7. CASE ~(n <= hdr[b] - HDR) /\ r.p # 0
  <2> DEFINE x == [obj[o] EXCEPT !.ptr = r.p, !.size = n]
  <2>1. /\ brk' = r.brk /\ hdr' = r.hdr /\ freelist' = Push(b, r.free)
        /\ data' = Linked(Copy(data, r.p, obj[o].ptr, hdr[b] - HDR), obj[o].ptr)
        /\ obj' = [obj EXCEPT ![o] = x]
    BY <1>7 DEF Realloc, BlockOf, Copied
  <2>2. Serves(r.p, r.brk, r.hdr, r.free, n)
    BY <1>1, <1>7, MallocServes
  <2> HIDE DEF r
  <2>3. r.p \in Nat
    BY <2>2 DEF Serves
  <2>4. /\ x \in Object /\ x.ptr = r.p /\ x.size = n /\ x.val = obj[o].val
        /\ x.init = obj[o].init
    BY <1>1, <1>4, <2>3 DEF Object
  <2>5. Given(o, x, obj')
    BY <1>2, <2>1, <2>4, ExceptGives
  <2> HIDE DEF x
  <2>6. Moves(o, x, n, data')
    <3>1. hdr[b] - HDR < n
      BY <1>1, <1>4, <1>7, HeapAssumption
    <3>2. QED
      BY <2>1, <2>4, <3>1 DEF Moves
  <2>7. Serves(x.ptr, r.brk, r.hdr, r.free, n)
    BY <2>2, <2>4
  <2>8. Sound(r.brk, r.hdr, Push(b, r.free), data', obj')
    BY <1>1, <1>3, <2>4, <2>5, <2>6, <2>7, Moved, Zenon
  <2>9. QED
    BY <2>1, <2>8 DEF HInv
<1>8. QED
  BY <1>5, <1>6, <1>7

-----------------------------------------------------------------------------
(* The inductive invariant holds, and implies what the runs check. *)

(* The empty heap. *)
LEMMA InitSound == Init => HInv
<1> SUFFICES ASSUME Init PROVE HInv
  OBVIOUS
<1>1. /\ brk = 0 /\ hdr = [a \in Cells |-> 0] /\ freelist = <<>>
      /\ data = [a \in Cells |-> Unset] /\ obj = [o \in Objs |-> NoObj]
  BY DEF Init
<1>2. BlocksIn(hdr) = {} /\ LiveIn(obj) = {}
  BY <1>1 DEF BlocksIn, LiveIn
<1>3. HeapShape(brk, hdr)
  BY <1>1, <1>2, HeapAssumption DEF HeapShape
<1>4. Tiled(brk, hdr)
  BY <1>1 DEF Tiled
<1>5. FreeShape(hdr, freelist)
  BY <1>1 DEF FreeShape
<1>6. ObjShape(hdr, obj) /\ OneOwner(freelist, obj) /\ AllOwned(hdr, freelist, obj)
  BY <1>1, <1>2 DEF ObjShape, OneOwner, AllOwned
<1>7. DataShape(data, obj)
  BY <1>1, <1>2 DEF DataShape, Words
<1>8. QED
  BY <1>3, <1>4, <1>5, <1>6, <1>7 DEF HInv, Sound

(* One lemma per action. *)
LEMMA NextSound == HInv /\ [Next]_vars => HInv'
<1> SUFFICES ASSUME HInv, [Next]_vars PROVE HInv'
  OBVIOUS
<1>1. ASSUME NEW o \in Objs, NEW n \in Requests, Alloc(o, n) PROVE HInv'
  BY <1>1, AllocStep
<1>2. ASSUME NEW o \in Objs, NEW n \in Requests, NEW sz \in Requests,
             n * sz <= MAX_REQUEST, Calloc(o, n, sz)
      PROVE  HInv'
  BY <1>2, CallocStep
<1>3. ASSUME NEW o \in Objs, NEW v \in Values, Write(o, v) PROVE HInv'
  BY <1>3, WriteStep
<1>4. ASSUME NEW o \in Objs, Free(o) PROVE HInv'
  BY <1>4, FreeStep
<1>5. ASSUME NEW o \in Objs, NEW n \in Requests, Realloc(o, n) PROVE HInv'
  BY <1>5, ReallocStep
<1>6. CASE UNCHANGED vars
  BY <1>6 DEF HInv, Sound, vars
<1>7. QED
  BY <1>1, <1>2, <1>3, <1>4, <1>5, <1>6 DEF Next

(* The invariant has the types. *)
LEMMA SoundTypes == HInv => TypeOK
  BY DEF HInv, Sound, HeapShape, FreeShape, ObjShape, DataShape, TypeOK

(* Blocks are disjoint and objects stay behind their headers. *)
LEMMA SoundNoOverlap == HInv => NoOverlap
<1> SUFFICES ASSUME HInv PROVE NoOverlap
  OBVIOUS
<1>1. /\ HeapShape(brk, hdr) /\ FreeShape(hdr, freelist)
      /\ ObjShape(hdr, obj) /\ OneOwner(freelist, obj)
  BY DEF HInv, Sound
<1>2. Live = LiveIn(obj) /\ Blocks = BlocksIn(hdr)
  BY DEF Live, LiveIn, Blocks, BlocksIn
<1>3. \A o \in Live :
         /\ obj[o].ptr \in Nat /\ obj[o].size \in Nat
         /\ obj[o].ptr - HDR \in BlocksIn(hdr) /\ obj[o].ptr - HDR \in Nat
         /\ hdr[obj[o].ptr - HDR] \in Nat
         /\ obj[o].size <= hdr[obj[o].ptr - HDR] - HDR
         /\ obj[o].ptr - HDR + hdr[obj[o].ptr - HDR] <= brk /\ brk \in Nat
  BY <1>1, <1>2, LiveObject
<1>4. \A o \in Live : obj[o].ptr >= HDR /\ obj[o].ptr + obj[o].size <= brk
  BY <1>3, HeapAssumption
<1>5. ASSUME NEW o \in Live, NEW a \in UserCells(o)
      PROVE  /\ a \in Int /\ obj[o].ptr - HDR + HDR <= a
             /\ a < obj[o].ptr - HDR + hdr[obj[o].ptr - HDR]
  BY <1>3, HeapAssumption DEF UserCells
<1>6. ASSUME NEW o \in Live, NEW b \in BlocksIn(hdr), b # obj[o].ptr - HDR
      PROVE  UserCells(o) \cap BlockCells(b) = {}
  <2> SUFFICES ASSUME NEW a \in UserCells(o), a \in BlockCells(b) PROVE FALSE
    OBVIOUS
  <2>1. /\ a \in Int /\ obj[o].ptr - HDR <= a
        /\ a < obj[o].ptr - HDR + hdr[obj[o].ptr - HDR]
    BY <1>3, <1>5, HeapAssumption
  <2>2. ~(b <= a /\ a < b + hdr[b])
    BY <1>1, <1>3, <1>6, <2>1, Apart
  <2>3. b \in Nat /\ hdr[b] \in Nat
    BY <1>1 DEF HeapShape, BlocksIn, Cells
  <2>4. QED
    BY <2>1, <2>2, <2>3 DEF BlockCells
<1>7. ASSUME NEW o \in Live, NEW q \in Live, o # q
      PROVE  UserCells(o) \cap UserCells(q) = {}
  <2> DEFINE c == obj[q].ptr - HDR
  <2>1. c \in BlocksIn(hdr) /\ c # obj[o].ptr - HDR
    <3>1. obj[o].ptr # obj[q].ptr
      BY <1>1, <1>2, <1>7 DEF OneOwner
    <3>2. QED
      BY <1>3, <3>1, HeapAssumption
  <2>2. UserCells(o) \cap BlockCells(c) = {}
    BY <1>6, <2>1
  <2>3. UserCells(q) \subseteq BlockCells(c)
    BY <1>3, HeapAssumption DEF UserCells, BlockCells
  <2>4. QED
    BY <2>2, <2>3
<1>8. ASSUME NEW o \in Live, NEW i \in 1..Len(freelist)
      PROVE  UserCells(o) \cap BlockCells(freelist[i]) = {}
  BY <1>1, <1>2, <1>6 DEF FreeShape, OneOwner
<1>9. ASSUME NEW o \in Live, NEW b \in Blocks
      PROVE  UserCells(o) \cap (b .. (b + HDR - 1)) = {}
  <2>1. b \in BlocksIn(hdr) /\ b \in Nat /\ hdr[b] \in Nat /\ HDR < hdr[b]
    BY <1>1, <1>2 DEF HeapShape, BlocksIn, Cells
  <2>2. CASE b = obj[o].ptr - HDR
    <3> SUFFICES ASSUME NEW a \in UserCells(o), a \in b .. (b + HDR - 1) PROVE FALSE
      OBVIOUS
    <3>1. a \in Int /\ b + HDR <= a
      BY <1>5, <2>2
    <3>2. QED
      BY <2>1, <3>1, HeapAssumption
  <2>3. CASE b # obj[o].ptr - HDR
    <3>1. (b .. (b + HDR - 1)) \subseteq BlockCells(b)
      BY <2>1, HeapAssumption DEF BlockCells
    <3>2. QED
      BY <1>6, <2>1, <2>3, <3>1
  <2>4. QED
    BY <2>2, <2>3
<1>10. QED
  BY <1>4, <1>7, <1>8, <1>9 DEF NoOverlap

(* Tiling, and the one owner of each block. *)
LEMMA SoundNothingLost == HInv => NothingLost
<1> SUFFICES ASSUME HInv PROVE NothingLost
  OBVIOUS
<1>1. /\ HeapShape(brk, hdr) /\ Tiled(brk, hdr) /\ FreeShape(hdr, freelist)
      /\ OneOwner(freelist, obj) /\ AllOwned(hdr, freelist, obj)
  BY DEF HInv, Sound
<1>2. Live = LiveIn(obj) /\ Blocks = BlocksIn(hdr)
  BY DEF Live, LiveIn, Blocks, BlocksIn
<1>3. ASSUME NEW b \in Blocks
      PROVE  \/ /\ \E o \in Live : BlockOf(obj[o].ptr) = b
                /\ \A i \in 1..Len(freelist) : freelist[i] # b
             \/ /\ \A o \in Live : BlockOf(obj[o].ptr) # b
                /\ \E i \in 1..Len(freelist) :
                      /\ freelist[i] = b
                      /\ \A j \in 1..Len(freelist) : freelist[j] = b => j = i
  <2>1. CASE \E o \in LiveIn(obj) : obj[o].ptr - HDR = b
    BY <1>1, <1>2, <2>1 DEF OneOwner, BlockOf
  <2>2. CASE \E i \in 1..Len(freelist) : freelist[i] = b
    BY <1>1, <1>2, <2>2 DEF OneOwner, FreeShape, BlockOf
  <2>3. QED
    BY <1>1, <1>2, <2>1, <2>2 DEF AllOwned, Owned
<1>4. ASSUME NEW a \in 0..(brk - 1)
      PROVE  \E b \in Blocks : a \in BlockCells(b)
  <2>1. PICK b \in BlocksIn(hdr) : b <= a /\ a < b + hdr[b]
    BY <1>1 DEF Tiled
  <2>2. b \in Nat /\ hdr[b] \in Nat /\ a \in Int
    BY <1>1 DEF HeapShape, BlocksIn, Cells
  <2>3. a \in BlockCells(b)
    BY <2>1, <2>2 DEF BlockCells
  <2>4. QED
    BY <1>2, <2>3
<1>5. QED
  BY <1>3, <1>4 DEF NothingLost

(* The contents. *)
LEMMA SoundData == HInv => DataIntact
  BY DEF HInv, Sound, DataShape, DataIntact, Live, LiveIn

(* The induction. *)
LEMMA AlwaysSound == Spec => []HInv
  BY InitSound, NextSound, PTL DEF Spec

(* The heap's variables keep their types: brk stays inside the array,      *)
(* headers and links name cells, whatever the VM asks for.                 *)
THEOREM TypeCorrect == Spec => []TypeOK
  BY AlwaysSound, SoundTypes, PTL

(* malloc, calloc, realloc and free never let two objects, a header or a   *)
(* free block share a cell, for every heap size, alignment and number of   *)
(* objects.                                                                *)
THEOREM ObjectsNeverOverlap == Spec => []NoOverlap
  BY AlwaysSound, SoundNoOverlap, PTL

(* Every block stays with its one object or once on the free list, and the *)
(* blocks tile the heap: malloc's unlink, realloc's move and free lose     *)
(* nothing.                                                                *)
THEOREM BlocksNeverLost == Spec => []NothingLost
  BY AlwaysSound, SoundNothingLost, PTL

(* What the VM wrote is what it reads: realloc's memcpy and the links free *)
(* writes into user cells never reach a live object's contents.            *)
THEOREM ContentsIntact == Spec => []DataIntact
  BY AlwaysSound, SoundData, PTL

(* All of it together, as the run of the small heap checks it: for every   *)
(* heap size, alignment, header and set of objects the allocator of        *)
(* lua_runtime.c keeps the objects apart and intact and loses no block.    *)
THEOREM HeapAlwaysSound == Spec => []HeapSound
<1>1. TypeOK /\ NoOverlap /\ DataIntact /\ NothingLost => HeapSound
  BY DEF HeapSound
<1> QED
  BY <1>1, TypeCorrect, ObjectsNeverOverlap, ContentsIntact, BlocksNeverLost, PTL

---------------------------------------------------------------------------
(* HookHosts *)

InTic == mpc \in {"chunk", "spin", "line", "over"}

\* The clock has left its first quantum, a tic lies after its begin, and has
\* waited no longer than it has lasted.
Timely ==
    /\ now >= QUANTUM
    /\ mpc = "boot" => tic = 0
    /\ mpc = "spin" => events > 0
    /\ InTic => /\ QUANTUM <= first /\ first <= now
                /\ t0 <= now_ns(first)
                /\ waited <= now - first
                /\ events = 0 => waited = 0

\* What the clock shows after n lines; in the spin, what it will show.
Paced ==
    meter \in ThrottleMeters =>
        /\ mpc # "over"
        /\ mpc \in {"chunk", "line"} => now_ns(now) >= now_ns(first) + events * DELAY
        /\ mpc = "spin" => deadline >= now_ns(first) + events * DELAY
        /\ (mpc = "between" /\ tic > 0) => took >= (events * DELAY) \div MICRO

\* The debt is the tic's own: it starts at the first line's reading and grows
\* by one delay a line.
InDebt ==
    meter = "debt" =>
        /\ target = events * DELAY
        /\ (InTic /\ events = 0) => since = 0
        /\ (InTic /\ events > 0) => since = now_ns(first)
        /\ mpc = "spin" => deadline = since + target
        /\ waited < target + QUANTUM

\* The budget's window is the tic's own, and instructions past it are those
\* since the last count event.
Budgeted ==
    meter \in BudgetMeters =>
        /\ mpc \notin {"spin", "line"}
        /\ InTic => since = (IF meter = "stub" THEN 0 ELSE now_ns(first))
        /\ mpc = "over" => meter # "stub" /\ now_ns(now) - since > BUDGET
        /\ (InTic /\ overdue > 0) => now - first >= BUDGET + QUANTUM
        /\ (mpc = "chunk" /\ meter # "stub") => overdue <= events % HOOK_COUNT

HookInv == HookTypeOK /\ Timely /\ Paced /\ InDebt /\ Budgeted

-----------------------------------------------------------------------------
(* The clock, and arithmetic *)

\* A quotient rounds down.
LEMMA Floor ==
  ASSUME NEW a \in Nat, NEW b \in Nat \ {0}
  PROVE  /\ a \div b \in Nat
         /\ b * (a \div b) <= a
         /\ a < b * (a \div b) + b
  OBVIOUS

\* Quotients are monotone.
LEMMA FloorMonotone ==
  ASSUME NEW a \in Nat, NEW c \in Nat, NEW b \in Nat \ {0}, a <= c
  PROVE  a \div b <= c \div b
<1> DEFINE p == a \div b
           q == c \div b
<1>1. p \in Nat /\ q \in Nat /\ b * p <= a /\ c < b * q + b
  BY Floor
<1> HIDE DEF p, q
<1>2. b * p < b * (q + 1)
  BY <1>1
<1>3. p < q + 1
  BY <1>1, <1>2
<1>4. p <= q
  BY <1>1, <1>3
<1> QED
  BY <1>4 DEF p, q

\* now_ns shows real time to within a quantum.
LEMMA ClockReads ==
  ASSUME NEW t \in Nat
  PROVE  /\ now_ns(t) \in Nat
         /\ now_ns(t) <= t
         /\ t < now_ns(t) + QUANTUM
  BY Floor, HookAssumption DEF now_ns

\* It never runs backwards.
LEMMA ClockMonotone ==
  ASSUME NEW s \in Nat, NEW t \in Nat, s <= t
  PROVE  now_ns(s) <= now_ns(t)
<1> DEFINE p == s \div QUANTUM
           q == t \div QUANTUM
<1>1. p \in Nat /\ q \in Nat /\ p <= q
  BY Floor, FloorMonotone, HookAssumption
<1> HIDE DEF p, q
<1>2. QUANTUM * p <= QUANTUM * q
  BY <1>1, HookAssumption
<1> QED
  BY <1>2 DEF now_ns, p, q

\* One more line owes one more delay.
LEMMA OneMoreLine ==
  ASSUME NEW n \in Nat
  PROVE  /\ n * DELAY \in Nat
         /\ (n + 1) * DELAY = n * DELAY + DELAY
         /\ 0 * DELAY = 0
  BY HookAssumption

\* Quotient and remainder are unique.
LEMMA Remainder ==
  ASSUME NEW h \in Nat \ {0}, NEW q \in Nat, NEW r \in Nat, r < h
  PROVE  (h * q + r) % h = r
<1> DEFINE a == h * q + r
           p == a \div h
           s == a % h
<1>1. a \in Nat /\ p \in Nat /\ s \in Nat /\ s < h /\ a = h * p + s
  OBVIOUS
<1>2. a = h * q + r
  OBVIOUS
<1> HIDE DEF a, p, s
<1>3. h * p + s = h * q + r
  BY <1>1, <1>2
<1>4. ~ (p < q)
  <2> SUFFICES ASSUME p < q PROVE FALSE
    OBVIOUS
  <2>1. h * (p + 1) <= h * q
    BY <1>1
  <2>2. h * (p + 1) = h * p + h
    BY <1>1
  <2> QED BY <1>1, <1>3, <2>1, <2>2
<1>5. ~ (q < p)
  <2> SUFFICES ASSUME q < p PROVE FALSE
    OBVIOUS
  <2>1. h * (q + 1) <= h * p
    BY <1>1
  <2>2. h * (q + 1) = h * q + h
    BY <1>1
  <2> QED BY <1>1, <1>3, <2>1, <2>2
<1>6. p = q
  BY <1>1, <1>4, <1>5
<1>7. s = r
  BY <1>1, <1>3, <1>6
<1> QED
  BY <1>7 DEF a, s

\* A count event comes when the remainder wraps.
LEMMA Wraps ==
  ASSUME NEW n \in Nat
  PROVE  /\ n % HOOK_COUNT \in Nat
         /\ n % HOOK_COUNT < HOOK_COUNT
         /\ 0 % HOOK_COUNT = 0
         /\ (n + 1) % HOOK_COUNT # 0 => (n + 1) % HOOK_COUNT = (n % HOOK_COUNT) + 1
<1> DEFINE q == n \div HOOK_COUNT
           r == n % HOOK_COUNT
<1>1. /\ q \in Nat /\ r \in Nat /\ r < HOOK_COUNT
      /\ n = HOOK_COUNT * q + r
  BY HookAssumption
<1>2. 0 % HOOK_COUNT = 0
  BY HookAssumption
<1> HIDE DEF q
<1>3. ASSUME r + 1 < HOOK_COUNT
      PROVE  (n + 1) % HOOK_COUNT = r + 1
  <2> HIDE DEF r
  <2>1. n + 1 = HOOK_COUNT * q + (r + 1)
    BY <1>1, HookAssumption
  <2>2. (HOOK_COUNT * q + (r + 1)) % HOOK_COUNT = r + 1
    BY <1>1, <1>3, Remainder, HookAssumption
  <2> QED BY <2>1, <2>2
<1>4. ASSUME ~ (r + 1 < HOOK_COUNT)
      PROVE  (n + 1) % HOOK_COUNT = 0
  <2> HIDE DEF r
  <2>1. r + 1 = HOOK_COUNT
    BY <1>1, <1>4, HookAssumption
  <2>2. n + 1 = HOOK_COUNT * (q + 1) + 0
    BY <1>1, <2>1, HookAssumption
  <2>3. (HOOK_COUNT * (q + 1) + 0) % HOOK_COUNT = 0
    BY <1>1, Remainder, HookAssumption
  <2> QED BY <2>2, <2>3
<1> QED
  BY <1>1, <1>2, <1>3, <1>4

-----------------------------------------------------------------------------
(* The invariant is inductive: one lemma per kind of step *)

LEMMA InitHolds == HookInit => HookInv
<1> SUFFICES ASSUME HookInit PROVE HookInv
  OBVIOUS
<1>1. HookTypeOK /\ Timely
  BY HookAssumption, EpochAssumption DEF HookInit, HookTypeOK, Timely, InTic
<1>2. Paced
  BY DEF HookInit, Paced
<1>3. InDebt
  BY OneMoreLine, HookAssumption DEF HookInit, InDebt, InTic
<1>4. Budgeted
  BY DEF HookInit, Budgeted, InTic
<1> QED
  BY <1>1, <1>2, <1>3, <1>4 DEF HookInv

LEMMA LaunchKeeps == HookInv /\ Launch => HookInv'
<1> SUFFICES ASSUME HookInv, Launch PROVE HookInv'
  OBVIOUS
<1>1. HookTypeOK' /\ Timely'
  BY HookAssumption, EpochAssumption DEF Launch, HookTypeOK, Timely, InTic
<1>2. Paced'
  BY DEF Launch, Paced
<1>3. InDebt'
  BY OneMoreLine, HookAssumption DEF Launch, InDebt, InTic
<1>4. Budgeted'
  BY DEF Launch, Budgeted, InTic
<1> QED
  BY <1>1, <1>2, <1>3, <1>4 DEF HookInv

\* Ending touches nothing but the program point.
LEMMA ExitKeeps ==
  ASSUME HookInv, NEW status \in {0, 1}, Exit(status)
  PROVE  HookInv'
<1>1. HookTypeOK' /\ Timely'
  BY DEF HookInv, Exit, HookTypeOK, Timely, InTic
<1>2. Paced'
  BY DEF HookInv, Exit, Paced
<1>3. InDebt'
  BY DEF HookInv, Exit, InDebt, InTic
<1>4. Budgeted'
  BY DEF HookInv, Exit, Budgeted, InTic
<1> QED
  BY <1>1, <1>2, <1>3, <1>4 DEF HookInv

LEMMA LoadChunkKeeps == HookInv /\ LoadChunk => HookInv'
<1> SUFFICES ASSUME HookInv, LoadChunk PROVE HookInv'
  OBVIOUS
<1>1. HookTypeOK' /\ Timely'
  BY DEF HookInv, LoadChunk, HookTypeOK, Timely, InTic
<1>2. Paced'
  BY DEF HookInv, LoadChunk, Paced, Timely, HookTypeOK
<1>3. InDebt'
  BY DEF HookInv, LoadChunk, InDebt, InTic
<1>4. Budgeted'
  BY DEF HookInv, LoadChunk, Budgeted, InTic
<1> QED
  BY <1>1, <1>2, <1>3, <1>4 DEF HookInv

LEMMA BeginTicKeeps ==
  ASSUME HookInv, NEW pause \in Pauses, BeginTic(pause)
  PROVE  HookInv'
<1>1. /\ now \in Nat /\ tic \in Nat /\ pause \in Nat /\ now' = now + pause
      /\ now' \in Nat /\ now' >= QUANTUM /\ tic' \in Nat
  BY HookAssumption DEF HookInv, HookTypeOK, Timely, BeginTic
<1>2. now_ns(now') \in Nat /\ now_ns(now') <= now'
  BY <1>1, ClockReads
<1>3. Armed(now') = IF meter \in {"budget", "fire"} THEN now_ns(now') ELSE 0
  BY HookAssumption DEF Armed, hook_now_ns, BudgetMeters, ThrottleMeters, HookInv,
     HookTypeOK
<1>4. /\ meter' = meter /\ rc' = rc /\ deadline' = deadline /\ took' = took
      /\ since' = IF meter \in {"budget", "fire"} THEN now_ns(now') ELSE 0
      /\ target' = 0 /\ t0' = now_ns(now') /\ events' = 0 /\ first' = now'
      /\ waited' = 0 /\ overdue' = 0 /\ mpc' = "chunk"
  BY <1>3 DEF BeginTic
<1>5. HookTypeOK'
  BY <1>1, <1>2, <1>4 DEF HookInv, HookTypeOK
<1>6. Timely'
  BY <1>1, <1>2, <1>4 DEF Timely, InTic
<1>7. Paced'
  BY <1>2, <1>4, OneMoreLine DEF Paced
<1>8. InDebt'
  BY <1>4, OneMoreLine, HookAssumption DEF InDebt, InTic
<1>9. Budgeted'
  BY <1>4, Wraps DEF Budgeted, InTic, BudgetMeters
<1> QED
  BY <1>5, <1>6, <1>7, <1>8, <1>9 DEF HookInv

\* A returning chunk is reported with at least what its lines owe.
LEMMA ChunkReturnsKeeps == HookInv /\ ChunkReturns => HookInv'
<1> SUFFICES ASSUME HookInv, ChunkReturns PROVE HookInv'
  OBVIOUS
<1>1. /\ now \in Nat /\ first \in Nat /\ t0 \in Nat /\ events \in Nat /\ first <= now
      /\ t0 <= now_ns(first)
  BY DEF HookInv, HookTypeOK, Timely, ChunkReturns, InTic
<1>2. /\ now_ns(now) \in Nat /\ now_ns(first) \in Nat /\ now_ns(first) <= now_ns(now)
      /\ events * DELAY \in Nat
  BY <1>1, ClockReads, ClockMonotone, OneMoreLine
<1>3. now_ns(now) - t0 \in Nat
  BY <1>1, <1>2
<1>4. took' \in Nat /\ took' = (now_ns(now) - t0) \div MICRO
  BY <1>3, Floor, HookAssumption DEF ChunkReturns, FrameTime
<1>5. HookTypeOK' /\ Timely'
  BY <1>4 DEF HookInv, ChunkReturns, HookTypeOK, Timely, InTic
<1>6. Paced'
  <2> SUFFICES ASSUME meter \in ThrottleMeters
               PROVE  took' >= (events * DELAY) \div MICRO
    BY DEF ChunkReturns, Paced, ThrottleMeters
  <2>1. events * DELAY <= now_ns(now) - t0
    BY <1>1, <1>2 DEF HookInv, Paced, ChunkReturns
  <2>2. (events * DELAY) \div MICRO <= (now_ns(now) - t0) \div MICRO
    BY <1>2, <1>3, <2>1, FloorMonotone, HookAssumption
  <2> QED
    BY <1>2, <1>3, <1>4, <2>2, Floor, HookAssumption
<1>7. InDebt'
  BY DEF HookInv, ChunkReturns, InDebt, InTic
<1>8. Budgeted'
  BY DEF HookInv, ChunkReturns, Budgeted, InTic, BudgetMeters
<1> QED
  BY <1>5, <1>6, <1>7, <1>8 DEF HookInv

\* The first line of a tic takes its own reading, which is not zero; later
\* lines find it.
LEMMA DebtLineKeeps == HookInv /\ DebtLine => HookInv'
<1> SUFFICES ASSUME HookInv, DebtLine PROVE HookInv'
  OBVIOUS
<1>1. /\ now \in Nat /\ first \in Nat /\ events \in Nat /\ since \in Nat /\ target \in Nat
      /\ waited \in Nat /\ QUANTUM <= first /\ first <= now /\ mpc = "chunk"
      /\ meter = "debt" /\ t0 \in Nat /\ t0 <= now_ns(first) /\ waited <= now - first
  BY DEF HookInv, HookTypeOK, Timely, DebtLine, InTic
<1>2. /\ now_ns(now) \in Nat /\ now_ns(first) \in Nat /\ now_ns(first) <= now_ns(now)
      /\ now_ns(first) > 0 /\ now_ns(now) > 0
  BY <1>1, ClockReads, ClockMonotone, HookAssumption
<1>3. /\ target = events * DELAY
      /\ events = 0 => since = 0 /\ waited = 0
      /\ events > 0 => since = now_ns(first)
      /\ waited < target + QUANTUM
  BY <1>1 DEF HookInv, InDebt, Timely, InTic
<1>4. first' \in Nat /\ first' <= now /\ QUANTUM <= first' /\ now_ns(first) <= now_ns(first')
  <2>1. first' = first \/ first' = now
    BY DEF DebtLine
  <2> QED BY <1>1, <1>2, <2>1, HookAssumption
<1>5. since' = now_ns(first') /\ since' \in Nat
  BY <1>1, <1>2, <1>3 DEF DebtLine
<1>6. /\ target' = (events + 1) * DELAY /\ target' \in Nat /\ target' >= target
      /\ events' = events + 1
  BY <1>1, <1>3, OneMoreLine, HookAssumption DEF DebtLine
<1>7. waited <= now - first'
  BY <1>1, <1>3 DEF DebtLine
<1>8. HookTypeOK'
  BY <1>1, <1>4, <1>5, <1>6 DEF HookInv, HookTypeOK, DebtLine
<1>9. Timely'
  BY <1>1, <1>2, <1>4, <1>5, <1>6, <1>7 DEF HookInv, Timely, DebtLine
<1>10. Paced'
  BY <1>1, <1>5, <1>6 DEF Paced, DebtLine
<1>11. InDebt'
  BY <1>1, <1>3, <1>5, <1>6, HookAssumption DEF InDebt, DebtLine, InTic
<1>12. Budgeted'
  BY <1>1 DEF Budgeted, DebtLine, BudgetMeters
<1> QED
  BY <1>8, <1>9, <1>10, <1>11, <1>12 DEF HookInv

LEMMA DelayLineKeeps == HookInv /\ DelayLine => HookInv'
<1> SUFFICES ASSUME HookInv, DelayLine PROVE HookInv'
  OBVIOUS
<1>1. /\ now \in Nat /\ first \in Nat /\ events \in Nat /\ waited \in Nat
      /\ QUANTUM <= first /\ first <= now /\ mpc = "chunk"
      /\ meter = "delay" /\ t0 \in Nat /\ t0 <= now_ns(first) /\ waited <= now - first
  BY DEF HookInv, HookTypeOK, Timely, DelayLine, InTic
<1>2. /\ now_ns(now) \in Nat /\ now_ns(first) \in Nat /\ now_ns(first) <= now_ns(now)
      /\ now_ns(now) >= now_ns(first) + events * DELAY
  BY <1>1, ClockReads, ClockMonotone DEF HookInv, Paced, ThrottleMeters
<1>3. /\ events' = events + 1 /\ events' * DELAY = events * DELAY + DELAY
      /\ events * DELAY \in Nat
  BY <1>1, OneMoreLine DEF DelayLine
<1>4. deadline' = now_ns(now) + DELAY /\ deadline' \in Nat
  BY <1>2, HookAssumption DEF DelayLine
<1>5. HookTypeOK'
  BY <1>1, <1>3, <1>4 DEF HookInv, HookTypeOK, DelayLine
<1>6. /\ now' = now /\ t0' = t0 /\ waited' = waited /\ tic' = tic /\ mpc' = "spin"
      /\ meter' = "delay" /\ first' = IF events = 0 THEN now ELSE first
  BY <1>1 DEF DelayLine
<1>7. now_ns(first') + events * DELAY <= now_ns(now) /\ now_ns(first') \in Nat
  BY <1>1, <1>2, <1>6, OneMoreLine
<1>8. Paced'
  BY <1>2, <1>3, <1>4, <1>6, <1>7, HookAssumption DEF Paced
<1>9. Timely'
  <2>1. first' \in Nat /\ QUANTUM <= first' /\ first' <= now /\ waited <= now - first'
    BY <1>1, <1>6, HookAssumption DEF HookInv, Timely, InTic
  <2>2. t0 <= now_ns(first')
    BY <1>1, <1>2, <1>6
  <2> QED
    BY <1>1, <1>3, <1>6, <2>1, <2>2 DEF HookInv, Timely
<1>10. InDebt' /\ Budgeted'
  BY <1>6 DEF InDebt, Budgeted, BudgetMeters
<1> QED
  BY <1>5, <1>8, <1>9, <1>10 DEF HookInv

\* Spinning ends within a quantum of the deadline, so the wait stays below the
\* debt and a quantum.
LEMMA SpinKeeps == HookInv /\ Spin => HookInv'
<1> SUFFICES ASSUME HookInv, Spin PROVE HookInv'
  OBVIOUS
<1>1. /\ now \in Nat /\ first \in Nat /\ events \in Nat /\ waited \in Nat
      /\ deadline \in Nat /\ target \in Nat /\ since \in Nat
      /\ QUANTUM <= first /\ first <= now /\ mpc = "spin" /\ waited <= now - first
      /\ now' = now + 1 /\ waited' = waited + 1 /\ now_ns(now) < deadline
  BY DEF HookInv, HookTypeOK, Timely, Spin, Lags, InTic
<1>2. /\ meter' = meter /\ mpc' = mpc /\ rc' = rc /\ tic' = tic /\ since' = since
      /\ target' = target /\ deadline' = deadline /\ t0' = t0 /\ took' = took
      /\ events' = events /\ first' = first /\ overdue' = overdue
  BY DEF Spin
<1>3. meter \in ThrottleMeters
  BY <1>1, HookAssumption DEF HookInv, HookTypeOK, Budgeted
<1>4. HookTypeOK'
  BY <1>1, <1>2 DEF HookInv, HookTypeOK
<1>5. events > 0
  BY <1>1 DEF HookInv, Timely
<1>6. Timely'
  BY <1>1, <1>2, <1>5, HookAssumption DEF HookInv, Timely, InTic
<1>7. Paced'
  BY <1>1, <1>2 DEF HookInv, Paced
<1>8. InDebt'
  <2> SUFFICES ASSUME meter = "debt" PROVE waited + 1 < target + QUANTUM
    BY <1>1, <1>2 DEF HookInv, InDebt, InTic
  <2>1. deadline = since + target /\ since = now_ns(first)
    BY <1>1, <1>5 DEF HookInv, InDebt, InTic
  <2>2. now_ns(first) \in Nat /\ now_ns(first) <= first /\ now_ns(now) \in Nat
        /\ now < now_ns(now) + QUANTUM
    BY <1>1, ClockReads
  <2> QED
    BY <1>1, <2>1, <2>2, HookAssumption
<1>9. Budgeted'
  BY <1>2, <1>3 DEF Budgeted, BudgetMeters, ThrottleMeters
<1> QED
  BY <1>4, <1>6, <1>7, <1>8, <1>9 DEF HookInv

LEMMA HookReturnsKeeps == HookInv /\ HookReturns => HookInv'
<1> SUFFICES ASSUME HookInv, HookReturns PROVE HookInv'
  OBVIOUS
<1>1. /\ now \in Nat /\ first \in Nat /\ events \in Nat /\ deadline \in Nat
      /\ mpc = "spin" /\ mpc' = "line" /\ ~ (now_ns(now) < deadline)
  BY DEF HookInv, HookTypeOK, HookReturns, Lags
<1>2. now_ns(now) \in Nat /\ now_ns(first) \in Nat /\ events * DELAY \in Nat
  BY <1>1, ClockReads, OneMoreLine
<1>3. HookTypeOK' /\ Timely'
  BY <1>1 DEF HookInv, HookReturns, HookTypeOK, Timely, InTic
<1>4. Paced'
  BY <1>1, <1>2 DEF HookInv, HookReturns, Paced
<1>5. InDebt'
  BY <1>1 DEF HookInv, HookReturns, InDebt, InTic
<1>6. Budgeted'
  BY <1>1 DEF HookInv, HookReturns, Budgeted
<1> QED
  BY <1>3, <1>4, <1>5, <1>6 DEF HookInv

LEMMA RunLineKeeps ==
  ASSUME HookInv, NEW cost \in Costs, RunLine(cost)
  PROVE  HookInv'
<1>1. /\ now \in Nat /\ first \in Nat /\ events \in Nat /\ waited \in Nat /\ cost \in Nat
      /\ now' = now + cost /\ now' \in Nat /\ now <= now'
      /\ mpc = "line" /\ mpc' = "chunk"
      /\ QUANTUM <= first /\ first <= now /\ waited <= now - first
  BY HookAssumption DEF HookInv, HookTypeOK, Timely, RunLine, InTic
<1>2. /\ meter' = meter /\ rc' = rc /\ tic' = tic /\ since' = since
      /\ target' = target /\ deadline' = deadline /\ t0' = t0 /\ took' = took
      /\ events' = events /\ first' = first /\ waited' = waited /\ overdue' = overdue
  BY DEF RunLine
<1>3. /\ now_ns(now) \in Nat /\ now_ns(now') \in Nat /\ now_ns(now) <= now_ns(now')
      /\ now_ns(first) \in Nat /\ events * DELAY \in Nat
  BY <1>1, ClockReads, ClockMonotone, OneMoreLine
<1>4. HookTypeOK'
  BY <1>1, <1>2 DEF HookInv, HookTypeOK
<1>5. Timely'
  BY <1>1, <1>2, HookAssumption DEF HookInv, Timely, InTic
<1>6. Paced'
  BY <1>1, <1>2, <1>3 DEF HookInv, Paced
<1>7. InDebt'
  BY <1>1, <1>2 DEF HookInv, InDebt, InTic
<1>8. Budgeted'
  BY <1>1, <1>2 DEF HookInv, Budgeted
<1> QED
  BY <1>4, <1>5, <1>6, <1>7, <1>8 DEF HookInv

\* An instruction that ends past the budget is counted until the next count
\* event, which raises the error.
LEMMA RunInstructionKeeps ==
  ASSUME HookInv, NEW cost \in Costs, RunInstruction(cost)
  PROVE  HookInv'
<1>1. /\ now \in Nat /\ first \in Nat /\ events \in Nat /\ waited \in Nat /\ cost \in Nat
      /\ overdue \in Nat /\ since \in Nat /\ BUDGET \in Nat /\ QUANTUM \in Nat
      /\ now' = now + cost /\ now' \in Nat /\ now <= now'
      /\ mpc = "chunk" /\ meter \in BudgetMeters /\ mpc' \in {"chunk", "over"}
      /\ QUANTUM <= first /\ first <= now /\ waited <= now - first
      /\ events' = events + 1
      /\ events = 0 => waited = 0
  BY HookAssumption DEF HookInv, HookTypeOK, Timely, RunInstruction, InTic
<1>2. /\ meter' = meter /\ rc' = rc /\ tic' = tic /\ since' = since
      /\ target' = target /\ deadline' = deadline /\ t0' = t0 /\ took' = took
      /\ first' = first /\ waited' = waited
      /\ overdue' = IF now' - first >= BUDGET + QUANTUM THEN overdue + 1 ELSE overdue
      /\ mpc' = IF CountEvent /\ Exceeds(now') THEN "over" ELSE "chunk"
  BY DEF RunInstruction
<1>3. /\ now_ns(now') \in Nat /\ now' < now_ns(now') + QUANTUM
      /\ now_ns(first) \in Nat /\ now_ns(first) <= first
  BY <1>1, ClockReads
<1>4. since = (IF meter = "stub" THEN 0 ELSE now_ns(first))
      /\ (overdue > 0 => now - first >= BUDGET + QUANTUM)
      /\ (meter # "stub" => overdue <= events % HOOK_COUNT)
  BY <1>1 DEF HookInv, Budgeted, InTic
<1>5. Exceeds(now') <=> meter # "stub" /\ now_ns(now') - since > BUDGET
  BY <1>1, <1>3, <1>4 DEF Exceeds, hook_now_ns
<1>6. overdue' \in Nat /\ (overdue' > 0 => now' - first >= BUDGET + QUANTUM)
  BY <1>1, <1>2, <1>4
<1>7. HookTypeOK'
  BY <1>1, <1>2, <1>6 DEF HookInv, HookTypeOK
<1>8. Timely'
  BY <1>1, <1>2 DEF HookInv, Timely, InTic
<1>9. Paced' /\ InDebt'
  BY <1>1, <1>2 DEF Paced, InDebt, BudgetMeters, ThrottleMeters
<1>10. (mpc' = "chunk" /\ meter # "stub") => overdue' <= events' % HOOK_COUNT
  <2> SUFFICES ASSUME mpc' = "chunk", meter # "stub"
               PROVE  overdue' <= events' % HOOK_COUNT
    OBVIOUS
  <2>1. /\ events % HOOK_COUNT \in Nat
        /\ (events + 1) % HOOK_COUNT \in Nat
        /\ (events + 1) % HOOK_COUNT # 0 =>
               (events + 1) % HOOK_COUNT = (events % HOOK_COUNT) + 1
    BY <1>1, Wraps
  <2>2. CASE CountEvent
    <3>1. ~ Exceeds(now')
      BY <1>2, <2>2
    <3>2. ~ (overdue' > 0)
      <4> SUFFICES ASSUME overdue' > 0 PROVE FALSE
        OBVIOUS
      <4>1. now' - first >= BUDGET + QUANTUM
        BY <1>6
      <4>2. now_ns(now') - now_ns(first) > BUDGET
        BY <1>1, <1>3, <4>1
      <4> QED BY <1>4, <1>5, <3>1, <4>2
    <3> QED BY <1>1, <1>6, <2>1, <3>2
  <2>3. CASE ~CountEvent
    <3>1. (events + 1) % HOOK_COUNT = (events % HOOK_COUNT) + 1
      BY <2>1, <2>3 DEF CountEvent
    <3>2. overdue' <= overdue + 1
      BY <1>1, <1>2
    <3> HIDE DEF CountEvent
    <3> QED BY <1>1, <1>4, <1>6, <2>1, <3>1, <3>2
  <2> QED BY <2>2, <2>3
<1>11. Budgeted'
  BY <1>1, <1>2, <1>4, <1>5, <1>6, <1>10 DEF Budgeted, InTic
<1> QED
  BY <1>7, <1>8, <1>9, <1>11 DEF HookInv

\* The count event is over, so the next instruction is the first of its count.
LEMMA ChunkCatchesKeeps ==
  ASSUME HookInv, ChunkCatches
  PROVE  HookInv'
<1>1. /\ mpc = "over" /\ mpc' = "chunk" /\ overdue' = 0
      /\ meter' = meter /\ rc' = rc /\ tic' = tic /\ since' = since /\ now' = now
      /\ target' = target /\ deadline' = deadline /\ t0' = t0 /\ took' = took
      /\ first' = first /\ waited' = waited /\ events' = events
  BY DEF ChunkCatches
<1>2. HookTypeOK'
  BY <1>1 DEF HookInv, HookTypeOK
<1>3. Timely'
  BY <1>1 DEF HookInv, Timely, InTic
<1>4. Paced' /\ InDebt'
  BY <1>1 DEF HookInv, Paced, InDebt, InTic, ThrottleMeters
<1>5. Budgeted'
  <2>1. events \in Nat /\ 0 <= events % HOOK_COUNT
    BY Wraps DEF HookInv, HookTypeOK
  <2> QED BY <1>1, <2>1 DEF HookInv, Budgeted, InTic
<1> QED
  BY <1>2, <1>3, <1>4, <1>5 DEF HookInv

LEMMA StepKeeps == HookInv /\ [HookNext]_hookVars => HookInv'
<1> SUFFICES ASSUME HookInv, [HookNext]_hookVars PROVE HookInv'
  OBVIOUS
<1>1. CASE LoadChunkFails \/ ChunkFails \/ BudgetError \/ Finish
  <2>1. PICK status \in {0, 1} : Exit(status)
    BY <1>1 DEF LoadChunkFails, ChunkFails, BudgetError, Finish
  <2> QED BY <2>1, ExitKeeps
<1>2. CASE Launch \/ LoadChunk \/ ChunkReturns
  BY <1>2, LaunchKeeps, LoadChunkKeeps, ChunkReturnsKeeps
<1>3. CASE \E p \in Pauses : BeginTic(p)
  BY <1>3, BeginTicKeeps
<1>4. CASE DebtLine \/ DelayLine \/ Spin \/ HookReturns
  BY <1>4, DebtLineKeeps, DelayLineKeeps, SpinKeeps, HookReturnsKeeps
<1>5. CASE \E c \in Costs : RunLine(c) \/ RunInstruction(c)
  BY <1>5, RunLineKeeps, RunInstructionKeeps
<1>6. CASE ChunkCatches
  BY <1>6, ChunkCatchesKeeps
<1>7. CASE UNCHANGED hookVars
  <2>1. HookTypeOK' /\ Timely'
    BY <1>7 DEF HookInv, hookVars, HookTypeOK, Timely, InTic
  <2>2. Paced' /\ InDebt' /\ Budgeted'
    BY <1>7 DEF HookInv, hookVars, Paced, InDebt, Budgeted, InTic
  <2> QED BY <2>1, <2>2 DEF HookInv
<1> QED
  BY <1>1, <1>2, <1>3, <1>4, <1>5, <1>6, <1>7 DEF HookNext

\* The inductive invariant holds of every behaviour of a metering host.
THEOREM Metered == HookSpec => []HookInv
  BY InitHolds, StepKeeps, PTL DEF HookSpec

\* The host's readings and counters keep their types: no difference of two
\* readings of the clock is negative.
THEOREM HookTypeCorrect == HookSpec => []HookTypeOK
<1>1. HookInv => HookTypeOK
  BY DEF HookInv
<1> QED
  BY <1>1, Metered, PTL

\* A throttled tic keeps its pace under a clock of any resolution and after a
\* pause of any length (throttle_hook of spike-g.2 and spike-g.3).
THEOREM PaceIsKept == HookSpec => []PaceKept
<1>1. HookInv => PaceKept
  <2> SUFFICES ASSUME HookInv, meter \in ThrottleMeters, mpc \in {"line", "chunk"}
               PROVE  now - first > events * DELAY - QUANTUM
    BY DEF PaceKept
  <2>1. /\ now \in Nat /\ first \in Nat /\ events \in Nat
        /\ now_ns(now) >= now_ns(first) + events * DELAY
    BY DEF HookInv, HookTypeOK, Paced
  <2>2. /\ now_ns(now) \in Nat /\ now_ns(now) <= now /\ events * DELAY \in Nat
        /\ now_ns(first) \in Nat /\ first < now_ns(first) + QUANTUM
    BY <2>1, ClockReads, OneMoreLine
  <2> QED BY <2>1, <2>2, HookAssumption
<1> QED
  BY <1>1, Metered, PTL

\* However many lines a tic has, the debt of spike-g.3 makes it wait less than
\* one quantum longer than they are worth.
THEOREM QuantumOncePerTic == HookSpec => []OneQuantumPerTic
<1>1. HookInv => OneQuantumPerTic
  BY DEF HookInv, InDebt, OneQuantumPerTic
<1> QED
  BY <1>1, Metered, PTL

\* A throttled host never prints a frame time below what the lines were to
\* cost.
THEOREM ReportCovers == HookSpec => []ReportCoversTheDelays
<1>1. HookInv => ReportCoversTheDelays
  BY DEF HookInv, Paced, ReportCoversTheDelays
<1> QED
  BY <1>1, Metered, PTL

\* hook_fn of spike-g stops only tics that used up their budget, to within a
\* quantum of the clock.
THEOREM OverrunsOnly == HookSpec => []OnlyOverrunsStopped
<1>1. HookInv => OnlyOverrunsStopped
  <2> SUFFICES ASSUME HookInv, mpc = "over"
               PROVE  now - first + QUANTUM > BUDGET
    BY DEF OnlyOverrunsStopped
  <2>1. now \in Nat /\ first \in Nat /\ meter \in BudgetMeters
    BY HookAssumption DEF HookInv, HookTypeOK, Paced
  <2>2. now_ns(now) - now_ns(first) > BUDGET
    BY <2>1 DEF HookInv, Budgeted, InTic
  <2>3. /\ now_ns(now) \in Nat /\ now_ns(now) <= now
        /\ now_ns(first) \in Nat /\ first < now_ns(first) + QUANTUM
    BY <2>1, ClockReads
  <2> QED BY <2>1, <2>2, <2>3, HookAssumption
<1> QED
  BY <1>1, Metered, PTL

\* And it stops each of them within HOOK_COUNT instructions.
THEOREM OverrunsCaught == HookSpec => []OverrunsAreCaught
<1>1. HookInv => OverrunsAreCaught
  <2> SUFFICES ASSUME HookInv, meter \in {"budget", "fire"}, mpc = "chunk"
               PROVE  overdue < HOOK_COUNT
    BY DEF OverrunsAreCaught
  <2>1. overdue \in Nat /\ events \in Nat /\ overdue <= events % HOOK_COUNT
    BY DEF HookInv, HookTypeOK, Budgeted, BudgetMeters
  <2>2. events % HOOK_COUNT \in Nat /\ events % HOOK_COUNT < HOOK_COUNT
    BY <2>1, Wraps
  <2> QED BY <2>1, <2>2, HookAssumption
<1> QED
  BY <1>1, Metered, PTL

\* The throttles of spikes g.2 and g.3, for every clock, delay and number of
\* lines: on pace, with at most one quantum of waiting added, and reported.
THEOREM ThrottleAlwaysOnPace == HookSpec => []ThrottleOnPace
<1>1. PaceKept /\ OneQuantumPerTic /\ ReportCoversTheDelays => ThrottleOnPace
  BY DEF ThrottleOnPace
<1> QED
  BY <1>1, PaceIsKept, QuantumOncePerTic, ReportCovers, PTL

\* The budget hook of spike-g, for every budget, count and clock: overruns are
\* stopped, soon, and nothing else is.
THEOREM BudgetAlwaysExact == HookSpec => []BudgetExact
<1>1. HookTypeOK /\ OnlyOverrunsStopped /\ OverrunsAreCaught => BudgetExact
  BY DEF BudgetExact
<1> QED
  BY <1>1, HookTypeCorrect, OverrunsOnly, OverrunsCaught, PTL

\* Both uses of the debug hook, for every value of their parameters.
THEOREM MetersAlwaysExact == HookSpec => []MetersExact
<1>1. ThrottleOnPace /\ BudgetExact => MetersExact
  BY DEF MetersExact
<1> QED
  BY <1>1, ThrottleAlwaysOnPace, BudgetAlwaysExact, PTL
=============================================================================
