------------------------------ MODULE LuaHeap ------------------------------
(***************************************************************************)
(* The heap of the freestanding Lua runtime                                *)
(* (spike-b/ports/rv32emu/lua_runtime.c, and the same allocator in the     *)
(* lua_lib_runtime.c of spike-c, spike-i and spike-j) as the Lua VM uses   *)
(* it through l_alloc.                                                     *)
(*                                                                         *)
(* malloc takes the first block of the free list that is large enough and  *)
(* hands it out whole, or carves a new block at brk; free pushes the block *)
(* on the list; nothing is split, merged or given back.  Memory is counted *)
(* in cells, the four bytes of a size_t: a block starts with its header    *)
(* cell, and free writes the link of the list over the first user cell.    *)
(* Sizes are size_t values: sums wrap at SIZE_MOD.                         *)
(***************************************************************************)
EXTENDS Integers, Sequences

CONSTANTS
    HEAP_SIZE,      \* cells of the heap array
    ALIGN,          \* block sizes are multiples of it
    HDR,            \* sizeof(size_t), the cells of a header
    SIZE_MOD,       \* size_t counts modulo this
    MAX_REQUEST,    \* the largest size Lua asks for (its MAX_SIZE)
    Objs,           \* what the VM keeps in the heap
    Requests,       \* the sizes the VM asks for
    Values,         \* what it writes
    Zero,           \* a cell memset cleared
    Link,           \* a cell that holds a free-list link
    Unset,          \* a cell nobody wrote
    NoObj           \* no object

ASSUME HeapAssumption ==
    /\ HEAP_SIZE \in Nat /\ ALIGN \in Nat \ {0} /\ HDR \in Nat \ {0}
    /\ SIZE_MOD \in Nat /\ MAX_REQUEST \in Nat \ {0}
    /\ HEAP_SIZE + MAX_REQUEST + HDR + ALIGN < SIZE_MOD
    /\ Requests \subseteq 1..MAX_REQUEST

VARIABLES
    brk,        \* cells handed to blocks so far
    hdr,        \* cell -> the size in the header there, 0 where no block starts
    freelist,   \* the free blocks, most recently freed first
    data,       \* what each cell of the heap holds
    obj         \* the VM's view: object -> its pointer, size and contents

vars == <<brk, hdr, freelist, data, obj>>

Cells == 0..(HEAP_SIZE - 1)
Words == Values \cup {Zero, Link, Unset}

(* An object: where it is, the size asked for, and its first `init` cells  *)
(* hold `val`.                                                             *)
Object == [ptr : Nat, size : Nat, init : Nat, val : Words]

ASSUME NoObjAssumption == NoObj \notin Object

Blocks == {b \in Cells : hdr[b] > 0}
Live == {o \in Objs : obj[o] # NoObj}
BlockOf(p) == p - HDR

AlignUp(n) == LET m == (n + ALIGN - 1) % SIZE_MOD IN m - (m % ALIGN)

(* The slip of forgetting the header. *)
NeedNoHeader(n) == AlignUp((IF n = 0 THEN 1 ELSE n) % SIZE_MOD)

Need(n) == AlignUp(((IF n = 0 THEN 1 ELSE n) + HDR) % SIZE_MOD)

-----------------------------------------------------------------------------
(* The free list. *)

Push(b, s) == [j \in 1..(Len(s) + 1) |-> IF j = 1 THEN b ELSE s[j - 1]]

(* The slip of leaving the block on the list it is taken from. *)
UnlinkNothing(s, i) == s

Unlink(s, i) == [j \in 1..(Len(s) - 1) |-> IF j < i THEN s[j] ELSE s[j + 1]]

Fitting(need) == {i \in 1..Len(freelist) : hdr[freelist[i]] >= need}

FirstFit(need) ==
    CHOOSE i \in Fitting(need) : \A j \in Fitting(need) : i <= j

(* The slip of checking the heap's end against the old brk. *)
FullBefore(need) == brk > HEAP_SIZE

Full(need) == (brk + need) % SIZE_MOD > HEAP_SIZE

(* malloc: the pointer it returns (0 for NULL, which no user pointer is)   *)
(* and the heap it leaves.                                                 *)
Malloc(n) ==
    LET need == Need(n) IN
    IF Fitting(need) # {} THEN
        [p |-> freelist[FirstFit(need)] + HDR, brk |-> brk, hdr |-> hdr,
         free |-> Unlink(freelist, FirstFit(need))]
    ELSE IF Full(need) THEN
        [p |-> 0, brk |-> brk, hdr |-> hdr, free |-> freelist]
    ELSE
        [p |-> brk + HDR, brk |-> brk + need,
         hdr |-> [hdr EXCEPT ![brk] = need], free |-> freelist]

(* memset(p, c, n) *)
Fill(d, p, n, c) ==
    [a \in Cells |-> IF a >= p /\ a < p + n THEN c ELSE d[a]]

(* memcpy(q, p, n) *)
Copy(d, q, p, n) ==
    [a \in Cells |-> IF a >= q /\ a < q + n THEN d[p + (a - q)] ELSE d[a]]

(* What free leaves in memory: the link, over the first user cell. *)
Linked(d, p) == [d EXCEPT ![p] = Link]

Smaller(a, b) == IF a < b THEN a ELSE b

-----------------------------------------------------------------------------
(* l_alloc with a null pointer: realloc is malloc. *)
Alloc(o, n) ==
    /\ obj[o] = NoObj
    /\ LET r == Malloc(n) IN
       /\ brk' = r.brk /\ hdr' = r.hdr /\ freelist' = r.free
       /\ obj' = IF r.p = 0 THEN obj ELSE [obj EXCEPT
                    ![o] = [ptr |-> r.p, size |-> n, init |-> 0, val |-> Unset]]
    /\ UNCHANGED data

(* calloc: n elements of sz cells, cleared. *)
Calloc(o, n, sz) ==
    /\ obj[o] = NoObj
    /\ LET total == (n * sz) % SIZE_MOD
           r == Malloc(total)
       IN /\ brk' = r.brk /\ hdr' = r.hdr /\ freelist' = r.free
          /\ IF r.p = 0 THEN UNCHANGED <<data, obj>>
             ELSE /\ data' = Fill(data, r.p, total, Zero)
                  /\ obj' = [obj EXCEPT ![o] =
                        [ptr |-> r.p, size |-> n * sz, init |-> n * sz, val |-> Zero]]

(* The VM writes its object. *)
Write(o, v) ==
    /\ obj[o] # NoObj
    /\ data' = Fill(data, obj[o].ptr, obj[o].size, v)
    /\ obj' = [obj EXCEPT ![o] = [@ EXCEPT !.init = obj[o].size, !.val = v]]
    /\ UNCHANGED <<brk, hdr, freelist>>

(* l_alloc with size 0: free. *)
Free(o) ==
    /\ obj[o] # NoObj
    /\ freelist' = Push(BlockOf(obj[o].ptr), freelist)
    /\ data' = Linked(data, obj[o].ptr)
    /\ obj' = [obj EXCEPT ![o] = NoObj]
    /\ UNCHANGED <<brk, hdr>>

(* The slip of copying the header's worth too little. *)
CopiesShort(old, n) == old - HDR

(* What realloc copies: the old block's capacity. *)
Copied(old, n) == old

(* l_alloc with a pointer and a size: realloc.  It stays in place when the *)
(* block is large enough, and leaves the object alone when malloc fails.   *)
Realloc(o, n) ==
    /\ obj[o] # NoObj
    /\ LET p   == obj[o].ptr
           old == hdr[BlockOf(p)] - HDR
           r   == Malloc(n)
       IN IF n <= old THEN
              /\ obj' = [obj EXCEPT ![o] = [@ EXCEPT !.size = n, !.init = Smaller(obj[o].init, n)]]
              /\ UNCHANGED <<brk, hdr, freelist, data>>
          ELSE IF r.p = 0 THEN UNCHANGED vars
          ELSE /\ brk' = r.brk /\ hdr' = r.hdr
               /\ freelist' = Push(BlockOf(p), r.free)
               /\ data' = Linked(Copy(data, r.p, p, Copied(old, n)), p)
               /\ obj' = [obj EXCEPT ![o] = [@ EXCEPT !.ptr = r.p, !.size = n]]

-----------------------------------------------------------------------------
Init ==
    /\ brk = 0
    /\ hdr = [a \in Cells |-> 0]
    /\ freelist = <<>>
    /\ data = [a \in Cells |-> Unset]
    /\ obj = [o \in Objs |-> NoObj]

Next == \E o \in Objs :
    \/ \E n \in Requests : Alloc(o, n)
    \/ \E n, sz \in Requests : n * sz <= MAX_REQUEST /\ Calloc(o, n, sz)
    \/ \E v \in Values : Write(o, v)
    \/ Free(o)
    \/ \E n \in Requests : Realloc(o, n)

Spec == Init /\ [][Next]_vars

-----------------------------------------------------------------------------
TypeOK ==
    /\ brk \in 0..HEAP_SIZE
    /\ hdr \in [Cells -> 0..HEAP_SIZE]
    /\ freelist \in Seq(Cells)
    /\ data \in [Cells -> Words]
    /\ obj \in [Objs -> Object \cup {NoObj}]

(* No two objects of the VM share a cell, none reaches into a header or    *)
(* past brk, and no free block lies under an object: through every         *)
(* sequence of malloc, calloc, realloc and free, although blocks are       *)
(* reused whole and the free list lives inside them.                       *)
UserCells(o) == obj[o].ptr .. (obj[o].ptr + obj[o].size - 1)
BlockCells(b) == b .. (b + hdr[b] - 1)

NoOverlap ==
    /\ \A o \in Live : /\ obj[o].ptr >= HDR
                       /\ obj[o].ptr + obj[o].size <= brk
    /\ \A o, q \in Live : o # q => UserCells(o) \cap UserCells(q) = {}
    /\ \A o \in Live, i \in 1..Len(freelist) :
          UserCells(o) \cap BlockCells(freelist[i]) = {}
    /\ \A o \in Live, b \in Blocks : UserCells(o) \cap (b .. (b + HDR - 1)) = {}

(* What the VM wrote to an object is what it reads back, whatever the      *)
(* allocator did for other objects in between and through every move of    *)
(* the object itself (realloc) and every failed one; calloc's cells read   *)
(* as zero, also in a reused block.                                        *)
DataIntact ==
    \A o \in Live : \A i \in 0..(obj[o].init - 1) :
        data[obj[o].ptr + i] = obj[o].val

(* Nothing is lost: the blocks tile the heap up to brk, and each of them   *)
(* is either under exactly one object or on the free list exactly once, so *)
(* memory the VM gave back can be handed out again.                        *)
NothingLost ==
    /\ \A b \in Blocks :
          \/ /\ \E o \in Live : BlockOf(obj[o].ptr) = b
             /\ \A i \in 1..Len(freelist) : freelist[i] # b
          \/ /\ \A o \in Live : BlockOf(obj[o].ptr) # b
             /\ \E i \in 1..Len(freelist) :
                   /\ freelist[i] = b
                   /\ \A j \in 1..Len(freelist) : freelist[j] = b => j = i
    /\ \A a \in 0..(brk - 1) : \E b \in Blocks : a \in BlockCells(b)

(* What the VM may take for granted of its allocator: objects that stay    *)
(* apart and keep their contents, in a heap that loses no block.           *)
HeapSound == TypeOK /\ NoOverlap /\ DataIntact /\ NothingLost
=============================================================================
