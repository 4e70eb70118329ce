------------------------------ MODULE LuaLibc ------------------------------
(***************************************************************************)
(* The C library the guest's Lua is linked with: the loops of              *)
(* lua_lib_runtime.c (three identical copies, in spike-c, spike-i and      *)
(* spike-j) that move and compare memory, sort, parse and print numbers,   *)
(* and divide 64-bit integers, each against what the C standard asks.      *)
(*                                                                         *)
(* `call` is the last call with its arguments and result.  A string is a   *)
(* sequence of character codes without its NUL.  A long has LONG_BITS      *)
(* bits, the operands of the divide DIV_BITS.  A format is one directive,  *)
(* already split into its fields, between literal characters.  A float or  *)
(* double is exact: what its own rounding adds is left out.                *)
(***************************************************************************)
EXTENDS Integers, Sequences, SequencesExt

CONSTANTS
    LONG_BITS,      \* of long
    DIV_BITS,       \* of long long
    STDIO_BUF,      \* the buffer of vprintf and fprintf
    FRAC,           \* a double is a multiple of 1/FRAC
    Strings,        \* the strings the calls are made with
    Arrays,         \* the arrays qsort is called with
    Formats,        \* the directives
    MEM             \* cells of the memory the mem* calls work on

\* emit_uint's tmp, which it fills up to the precision without a test: what a
\* longer precision prints is undefined.  emit_int's num is one longer.
TMP_BUF == 33

ASSUME LibcAssumption ==
    /\ LONG_BITS \in Nat \ {0} /\ DIV_BITS \in Nat \ {0}
    /\ STDIO_BUF \in Nat \ {0} /\ FRAC \in Nat \ {0} /\ MEM \in Nat
    /\ Formats \subseteq
         [conv : {"d", "u", "x", "X", "o", "p", "c", "s"}, width : Nat, prec : -1..TMP_BUF,
          zero : BOOLEAN, left : BOOLEAN, plus : BOOLEAN, space : BOOLEAN,
          hash : BOOLEAN]

VARIABLE call

NUL == 0
Tab == 9
Space == 32
Plus == 43
Minus == 45
Dot == 46
Digit0 == 48
Letter_x == 120
Letter_X == 88
Junk == 63          \* a byte the call did not write

LongMod == 2 ^ LONG_BITS
Signed(u, m) == IF u % m >= m \div 2 THEN (u % m) - m ELSE u % m

AtMost(a, b) == IF a < b THEN a ELSE b
AtLeast(a, b) == IF a > b THEN a ELSE b
Repeat(c, n) == [i \in 1..AtLeast(n, 0) |-> c]
CharAt(s, i) == IF i <= Len(s) THEN s[i] ELSE NUL

-----------------------------------------------------------------------------
(* Memory and strings. *)

RECURSIVE CopyUp(_, _, _, _)
CopyUp(m, d, s, n) ==
    IF n = 0 THEN m ELSE CopyUp([m EXCEPT ![d] = m[s]], d + 1, s + 1, n - 1)

RECURSIVE CopyDown(_, _, _, _)
CopyDown(m, d, s, n) ==
    IF n = 0 THEN m
    ELSE CopyDown([m EXCEPT ![d + n - 1] = m[s + n - 1]], d, s, n - 1)

(* The slip of always copying upwards. *)
MemmoveUp(m, d, s, n) == CopyUp(m, d, s, n)

Memmove(m, d, s, n) ==
    IF d < s \/ d >= s + n THEN CopyUp(m, d, s, n) ELSE CopyDown(m, d, s, n)

(* The slip of padding one cell too many. *)
PadOver(left) == left

(* strncpy's second loop: the NUL that ended the first one is counted. *)
Pad(left) == AtLeast(left - 1, 0)

Strncpy(m, d, s, n) ==
    LET chars == AtMost(n, Len(s))
        nul   == IF chars < n THEN 1 ELSE 0
        upto  == d + chars + nul + Pad(n - chars)
    IN [a \in DOMAIN m |-> IF a < d \/ a >= upto THEN m[a]
                           ELSE CharAt(s, a - d + 1)]

(* The slip of testing the count before it is decremented. *)
StopsLate(n) == n = 0

(* strncmp's loop test on the count, which it decrements first. *)
Stops(n) == n = 1

RECURSIVE StrncmpFrom(_, _, _, _)
StrncmpFrom(a, b, i, n) ==
    IF ~Stops(n) /\ CharAt(a, i) # NUL /\ CharAt(a, i) = CharAt(b, i)
    THEN StrncmpFrom(a, b, i + 1, n - 1)
    ELSE CharAt(a, i) - CharAt(b, i)

Strncmp(a, b, n) == IF n = 0 THEN 0 ELSE StrncmpFrom(a, b, 1, n)

(* strstr: the index in hay, 0 for a null pointer. *)
RECURSIVE StrstrFrom(_, _, _)
StrstrFrom(hay, nee, i) ==
    IF i > Len(hay) THEN 0
    ELSE IF Strncmp(SubSeq(hay, i, Len(hay)), nee, Len(nee)) = 0 THEN i
    ELSE StrstrFrom(hay, nee, i + 1)

Strstr(hay, nee) == IF nee = <<>> THEN 1 ELSE StrstrFrom(hay, nee, 1)

(* The scans: the index they stop at, 0 for a null pointer. *)
RECURSIVE MemchrFrom(_, _, _, _)
MemchrFrom(s, c, i, n) ==
    IF n = 0 THEN 0 ELSE IF CharAt(s, i) = c THEN i ELSE MemchrFrom(s, c, i + 1, n - 1)

Memchr(s, c, n) == MemchrFrom(s, c, 1, n)

RECURSIVE MemcmpFrom(_, _, _, _)
MemcmpFrom(a, b, i, n) ==
    IF n = 0 THEN 0
    ELSE IF CharAt(a, i) # CharAt(b, i) THEN CharAt(a, i) - CharAt(b, i)
    ELSE MemcmpFrom(a, b, i + 1, n - 1)

Memcmp(a, b, n) == MemcmpFrom(a, b, 1, n)

RECURSIVE StrchrFrom(_, _, _)
StrchrFrom(s, c, i) ==
    IF i > Len(s) THEN (IF c = NUL THEN i ELSE 0)
    ELSE IF s[i] = c THEN i ELSE StrchrFrom(s, c, i + 1)

Strchr(s, c) == StrchrFrom(s, c, 1)

RECURSIVE StrrchrFrom(_, _, _, _)
StrrchrFrom(s, c, i, last) ==
    IF i > Len(s) THEN (IF c = NUL THEN i ELSE last)
    ELSE StrrchrFrom(s, c, i + 1, IF s[i] = c THEN i ELSE last)

Strrchr(s, c) == StrrchrFrom(s, c, 1, 0)

(* The inner loops of strspn, strcspn and strpbrk: the set's terminator    *)
(* is never a member.                                                      *)
Accepts(set, c) == Strchr(set, c) \notin {0, Len(set) + 1}

(* The slip of counting the character that ended the span. *)
SpanPast(s, set, n) == n + 1

SpanEnd(s, set, n) == n

RECURSIVE StrspnFrom(_, _, _)
StrspnFrom(s, set, n) ==
    IF n < Len(s) /\ Accepts(set, s[n + 1]) THEN StrspnFrom(s, set, n + 1)
    ELSE SpanEnd(s, set, n)

Strspn(s, set) == StrspnFrom(s, set, 0)

RECURSIVE StrcspnFrom(_, _, _)
StrcspnFrom(s, set, n) ==
    IF n < Len(s) /\ ~Accepts(set, s[n + 1]) THEN StrcspnFrom(s, set, n + 1) ELSE n

Strcspn(s, set) == StrcspnFrom(s, set, 0)

RECURSIVE StrpbrkFrom(_, _, _)
StrpbrkFrom(s, set, i) ==
    IF i > Len(s) THEN 0 ELSE IF Accepts(set, s[i]) THEN i
    ELSE StrpbrkFrom(s, set, i + 1)

Strpbrk(s, set) == StrpbrkFrom(s, set, 1)

(* strcpy: up to and including the NUL. *)
Strcpy(m, d, s) == [a \in DOMAIN m |-> IF a \in d .. (d + Len(s))
                                       THEN CharAt(s, a - d + 1) ELSE m[a]]

(* strcat: from the first NUL at or after d. *)
RECURSIVE Strcat(_, _, _)
Strcat(m, d, s) == IF m[d] = NUL THEN Strcpy(m, d, s) ELSE Strcat(m, d + 1, s)

-----------------------------------------------------------------------------
(* qsort: the comparison of two elements, and the insertion sort. *)

(* The slip of moving past an equal element. *)
SwapsEqual(x, y) == x.key >= y.key

Swaps(x, y) == x.key > y.key

RECURSIVE Sink(_, _)
Sink(a, j) ==
    IF j > 1 /\ Swaps(a[j - 1], a[j])
    THEN Sink([a EXCEPT ![j - 1] = a[j], ![j] = a[j - 1]], j - 1)
    ELSE a

RECURSIVE QsortFrom(_, _)
QsortFrom(a, i) == IF i > Len(a) THEN a ELSE QsortFrom(Sink(a, i), i + 1)

Qsort(a) == QsortFrom(a, 2)

-----------------------------------------------------------------------------
(* Formatting. *)

(* The slip of counting the letters from A. *)
DigitCharOff(d, upper) == IF d < 10 THEN Digit0 + d
                          ELSE (IF upper THEN 65 ELSE 97) + d

DigitChar(d, upper) == IF d < 10 THEN Digit0 + d
                       ELSE (IF upper THEN 65 ELSE 97) + d - 10

RECURSIVE Digits(_, _, _)
Digits(v, base, upper) ==
    IF v = 0 THEN <<>>
    ELSE Append(Digits(v \div base, base, upper), DigitChar(v % base, upper))

(* The digits of a number as both emitters write them: nothing for a zero  *)
(* with precision zero.                                                    *)
Number(v, base, upper, prec) ==
    IF v = 0 /\ prec # 0 THEN <<Digit0>> ELSE Digits(v, base, upper)

EmitUint(v, base, upper, width, prec, zero, left) ==
    LET num  == Number(v, base, upper, prec)
        full == Repeat(Digit0, prec - Len(num)) \o num
        npad == width - Len(full)
    IN (IF left THEN <<>>
        ELSE IF ~zero THEN Repeat(Space, npad)
        ELSE IF prec < 0 THEN Repeat(Digit0, npad) ELSE <<>>)
       \o full \o (IF left THEN Repeat(Space, npad) ELSE <<>>)

Sign(neg, plus, space) ==
    IF neg THEN <<Minus>> ELSE IF plus THEN <<Plus>>
    ELSE IF space THEN <<Space>> ELSE <<>>

(* emit_int's zeros: its loop counts i up to prec - n while n grows with   *)
(* every zero, so it stops half way.                                       *)
PrecisionZeros(prec, n) == (AtLeast(prec - n, 0) + 1) \div 2

(* The slip of not counting the sign in the width. *)
SignIsFree(sign) == 0

SignWidth(sign) == Len(sign)

EmitInt(v, width, prec, zero, left, plus, space) ==
    LET u    == (IF v < 0 THEN -v ELSE v) % LongMod
        sign == Sign(v < 0, plus, space)
        num  == Number(u, 10, FALSE, prec)
        full == Repeat(Digit0, PrecisionZeros(prec, Len(num))) \o num
        pad  == Repeat(Space, width - Len(full) - SignWidth(sign))
    IN IF zero /\ ~left /\ prec < 0
       THEN sign \o EmitUint(u, 10, FALSE, AtLeast(width - SignWidth(sign), 0),
                             prec, TRUE, FALSE)
       ELSE (IF left THEN <<>> ELSE pad) \o sign \o full
            \o (IF left THEN pad ELSE <<>>)

(* %s and %c. *)
Padded(s, width, left) ==
    LET pad == Repeat(Space, width - Len(s))
    IN IF left THEN s \o pad ELSE pad \o s

(* One directive of vsnprintf. *)
Emit(f, v) ==
    LET u == v % LongMod
        prefix == IF f.hash /\ u # 0
                  THEN <<Digit0, IF f.conv = "X" THEN Letter_X ELSE Letter_x>>
                  ELSE <<>>
    IN CASE f.conv = "d" ->
              EmitInt(v, f.width, f.prec, f.zero, f.left, f.plus, f.space)
         [] f.conv = "u" ->
              EmitUint(u, 10, FALSE, f.width, f.prec, f.zero, f.left)
         [] f.conv \in {"x", "X"} -> prefix \o
              EmitUint(u, 16, f.conv = "X", f.width, f.prec, f.zero, f.left)
         [] f.conv = "o" -> EmitUint(u, 8, FALSE, f.width, f.prec, f.zero, f.left)
         [] f.conv = "p" -> <<Digit0, Letter_x>> \o
              EmitUint(u, 16, FALSE, 0, 8, TRUE, FALSE)
         [] f.conv = "c" -> Padded(<<Digit0 + u>>, f.width, f.left)
         [] f.conv = "s" -> LET s == Digits(u, 2, FALSE) IN
              Padded(SubSeq(s, 1, IF f.prec < 0 THEN Len(s)
                                  ELSE AtMost(f.prec, Len(s))), f.width, f.left)

(* The slip of ending the text where it ended, not where the buffer does. *)
TerminatorAt(pos, cap) == pos

(* Where vsnprintf puts the NUL. *)
Terminator(pos, cap) == IF pos < cap THEN pos ELSE cap - 1

(* vsnprintf into buf, an array of any size: pput stores what fits and     *)
(* counts everything.                                                      *)
Vsnprintf(buf, cap, text) ==
    [a \in DOMAIN buf |->
        IF cap > 0 /\ a = Terminator(Len(text), cap) THEN NUL
        ELSE IF a + 1 < cap /\ a < Len(text) THEN text[a + 1]
        ELSE buf[a]]

(* The slip of writing as many bytes as the text has. *)
Unclamped(n) == n

(* vprintf and fprintf: the length that goes to rv_write. *)
Clamped(n) == IF n > STDIO_BUF - 1 THEN STDIO_BUF - 1 ELSE n

(* What reaches the descriptor. *)
Vprintf(text) ==
    LET buf == Vsnprintf([a \in 0..(STDIO_BUF + Len(text)) |-> Junk],
                         STDIO_BUF, text)
    IN [i \in 1..Clamped(Len(text)) |-> buf[i - 1]]

(* emit_double_fixed of num / FRAC, a finite number whose whole part, and   *)
(* whose fraction to the places asked for, fit an unsigned long: the digits *)
(* before and after the point.                                              *)
RECURSIVE LastDigits(_, _)
LastDigits(v, n) == IF n = 0 THEN <<>>
                    ELSE Append(LastDigits(v \div 10, n - 1), Digit0 + (v % 10))

(* The slip of not carrying a fraction that rounds up to one. *)
NoCarry(fpart, pow) == FALSE

Carries(fpart, pow) == fpart >= pow

EmitDoubleFixed(num, prec, plus, space) ==
    LET p      == IF prec < 0 THEN 6 ELSE prec
        v      == IF num < 0 THEN -num ELSE num
        pow    == 10 ^ p
        ipart  == v \div FRAC
        fpart  == ((v % FRAC) * pow * 2 + FRAC) \div (2 * FRAC)
        up     == Carries(fpart, pow)
    IN Sign(num < 0, plus, space)
       \o Number(IF up THEN ipart + 1 ELSE ipart, 10, FALSE, 1)
       \o (IF p = 0 THEN <<>>
           ELSE <<Dot>> \o LastDigits(IF up THEN fpart - pow ELSE fpart, p))

(* emit_double_g: the fixed form without its trailing zeros. *)
RECURSIVE Strip(_)
Strip(s) == IF Last(s) = Digit0 THEN Strip(Front(s))
            ELSE IF Last(s) = Dot THEN Front(s) ELSE s

EmitDoubleG(num, prec, plus, space) ==
    LET s == EmitDoubleFixed(num, (IF prec <= 0 THEN 6 ELSE prec) - 1, plus, space)
    IN IF \E i \in DOMAIN s : s[i] = Dot THEN Strip(s) ELSE s

-----------------------------------------------------------------------------
(* Parsing. *)

DigitOf(c) == IF c \in 48..57 THEN c - 48
              ELSE IF c \in 97..122 THEN c - 87
              ELSE IF c \in 65..90 THEN c - 55 ELSE 99

RECURSIVE SkipBlanks(_, _)
SkipBlanks(s, i) == IF CharAt(s, i) \in {Space, Tab} THEN SkipBlanks(s, i + 1) ELSE i

RECURSIVE ParseDigits(_, _, _, _)
ParseDigits(s, i, base, v) ==
    IF DigitOf(CharAt(s, i)) < base
    THEN ParseDigits(s, i + 1, base, (v * base + DigitOf(s[i])) % LongMod)
    ELSE [v |-> v, end |-> i]

(* The slip of taking 0x as an octal zero. *)
OctalFirst(base, zero, hex) ==
    IF base = 0 THEN (IF zero THEN 8 ELSE 10) ELSE IF hex THEN 16 ELSE base

(* The base strtol goes on with. *)
BaseOf(base, zero, hex) ==
    IF hex THEN 16 ELSE IF base = 0 THEN (IF zero THEN 8 ELSE 10) ELSE base

(* strtol: the value and the index of the first character not used. *)
Strtol(s, base) ==
    LET i    == SkipBlanks(s, 1)
        neg  == CharAt(s, i) = Minus
        j    == IF CharAt(s, i) \in {Minus, Plus} THEN i + 1 ELSE i
        zero == CharAt(s, j) = Digit0
        hex  == /\ base \in {0, 16} /\ zero
                /\ CharAt(s, j + 1) \in {Letter_x, Letter_X}
        from == IF hex THEN j + 2 ELSE IF base = 0 /\ zero THEN j + 1 ELSE j
        r    == ParseDigits(s, from, BaseOf(base, zero, hex), 0)
    IN [v |-> Signed(IF neg THEN -r.v ELSE r.v, LongMod), end |-> r.end]

(* atoi and atol *)
Atoi(s) ==
    LET i == SkipBlanks(s, 1)
        j == IF CharAt(s, i) \in {Minus, Plus} THEN i + 1 ELSE i
        v == ParseDigits(s, j, 10, 0).v
    IN Signed(IF CharAt(s, i) = Minus THEN -v ELSE v, LongMod)

RECURSIVE Decimals(_, _, _)
Decimals(s, i, v) == IF CharAt(s, i) \in 48..57
                     THEN Decimals(s, i + 1, v * 10 + (s[i] - Digit0))
                     ELSE [v |-> v, end |-> i]

(* strtof: the value is mant * 10 ^ (exp - frac), before any rounding. *)
Strtof(s) ==
    LET i     == SkipBlanks(s, 1)
        signed(j) == IF CharAt(s, j) \in {Minus, Plus} THEN j + 1 ELSE j
        whole == Decimals(s, signed(i), 0)
        point == CharAt(s, whole.end) = Dot
        m     == IF point THEN Decimals(s, whole.end + 1, whole.v) ELSE whole
        hasE  == CharAt(s, m.end) \in {69, 101}
        e     == IF hasE THEN Decimals(s, signed(m.end + 1), 0) ELSE [v |-> 0, end |-> m.end]
    IN [mant |-> IF CharAt(s, i) = Minus THEN -m.v ELSE m.v,
        frac |-> IF point THEN m.end - whole.end - 1 ELSE 0,
        exp  |-> IF hasE /\ CharAt(s, m.end + 1) = Minus THEN -e.v ELSE e.v,
        end  |-> e.end]

-----------------------------------------------------------------------------
(* Rounding.  A float is a number of 1/FRAC; n / d becomes an int towards  *)
(* zero, and the largest one where it does not fit (fcvt.w.s).             *)

Magnify(n) == IF n < 0 THEN -n ELSE n
Truncated(n, d) == LET q == Magnify(n) \div Magnify(d)
                   IN IF (n < 0) # (d < 0) THEN -q ELSE q
ToInt(n, d) == AtLeast(-(LongMod \div 2), AtMost(LongMod \div 2 - 1, Truncated(n, d)))

(* The slip of rounding a whole negative number down. *)
FloorDown(i, v) == v < 0

OneBelow(i, v) == i * FRAC > v

Floorf(v) == LET i == ToInt(v, FRAC) IN IF OneBelow(i, v) THEN i - 1 ELSE i
Ceilf(v)  == LET i == ToInt(v, FRAC) IN IF i * FRAC < v THEN i + 1 ELSE i
Fmodf(x, y) == IF y = 0 THEN 0 ELSE x - ToInt(x, y) * y

-----------------------------------------------------------------------------
(* The 64-bit divide. *)

DivMod == 2 ^ DIV_BITS

(* The slip of shifting the divisor's top bit out. *)
KeepsNoTop(d) == d > 0

KeepsTop(d) == ((d * 2) % DivMod) \div 2 = d

RECURSIVE Shifts(_, _)
Shifts(n, d) == IF (d * 2) % DivMod <= n /\ KeepsTop(d)
                THEN 1 + Shifts(n, (d * 2) % DivMod) ELSE 0

RECURSIVE Subtract(_, _, _, _)
Subtract(n, d, shift, q) ==
    IF shift < 0 THEN [q |-> q, r |-> n]
    ELSE LET take == n >= d IN
         Subtract(IF take THEN n - d ELSE n, d \div 2, shift - 1,
                  IF take THEN q + 2 ^ shift ELSE q)

Udivmoddi4(n, d) ==
    IF d = 0 THEN [q |-> 0, r |-> 0]
    ELSE IF d > n THEN [q |-> 0, r |-> n]
    ELSE LET s == Shifts(n, d) IN Subtract(n, (d * 2 ^ s) % DivMod, s, 0)

Magnitude(a) == (IF a < 0 THEN -a ELSE a) % DivMod

Divdi3(a, b) ==
    LET q == Udivmoddi4(Magnitude(a), Magnitude(b)).q
    IN Signed(IF (a < 0) # (b < 0) THEN -q ELSE q, DivMod)

Moddi3(a, b) ==
    LET r == Udivmoddi4(Magnitude(a), Magnitude(b)).r
    IN Signed(IF a < 0 THEN -r ELSE r, DivMod)

-----------------------------------------------------------------------------
NoCall == [fn |-> "none"]
Memory == [a \in 0..(MEM - 1) |-> Junk + a + 1]
Longs == -(LongMod \div 2) .. (LongMod \div 2 - 1)

CallMemmove == \E d, s, n \in 0..MEM :
    /\ d + n <= MEM /\ s + n <= MEM
    /\ call' = [fn |-> "memmove", d |-> d, s |-> s, n |-> n,
                out |-> Memmove(Memory, d, s, n)]

CallStrncpy == \E s \in Strings, d, n \in 0..MEM :
    /\ d + n <= MEM
    /\ call' = [fn |-> "strncpy", s |-> s, d |-> d, n |-> n,
                out |-> Strncpy(Memory, d, s, n)]

CallStrncmp == \E a, b \in Strings, n \in 0..MEM :
    call' = [fn |-> "strncmp", a |-> a, b |-> b, n |-> n, out |-> Strncmp(a, b, n)]

CallStrstr == \E a, b \in Strings :
    call' = [fn |-> "strstr", a |-> a, b |-> b, out |-> Strstr(a, b)]

\* An element larger than qsort's tmp ends the guest, with 99.
CallQsort == \E a \in Arrays, fits \in BOOLEAN :
    call' = IF fits THEN [fn |-> "qsort", a |-> a, out |-> Qsort(a)]
            ELSE [fn |-> "exit", code |-> 99]

CallSnprintf == \E f \in Formats, v \in Longs, cap \in 0..MEM :
    LET text == Emit(f, v) IN
    call' = [fn |-> "snprintf", f |-> f, v |-> v, cap |-> cap, text |-> text,
             buf |-> Vsnprintf(Memory, cap, text), ret |-> Len(text)]

CallPrintf == \E f \in Formats, v \in Longs :
    LET text == Emit(f, v) IN
    call' = [fn |-> "printf", text |-> text, out |-> Vprintf(text)]

CallFixed == \E v \in Longs, prec \in -1..3, g, plus, space \in BOOLEAN :
    call' = [fn |-> IF g THEN "%g" ELSE "%f", v |-> v, prec |-> prec,
             out |-> IF g THEN EmitDoubleG(v, prec, plus, space)
                     ELSE EmitDoubleFixed(v, prec, plus, space)]

CallDivide == \E a, b \in -(DivMod \div 2) .. (DivMod \div 2 - 1) :
    call' = [fn |-> "divide", a |-> a, b |-> b,
             u |-> Udivmoddi4(a % DivMod, b % DivMod),
             q |-> Divdi3(a, b), r |-> Moddi3(a, b)]

CallScan == \E a, b \in Strings, c \in {NUL, Digit0, Letter_x}, n \in 0..MEM :
    call' = [fn |-> "scan", a |-> a, b |-> b, c |-> c, n |-> n,
             memchr |-> Memchr(a, c, n), memcmp |-> Memcmp(a, b, n),
             strchr |-> Strchr(a, c), strrchr |-> Strrchr(a, c),
             strspn |-> Strspn(a, b), strcspn |-> Strcspn(a, b),
             strpbrk |-> Strpbrk(a, b), atoi |-> Atoi(a)]

CallStrcat == \E a, b \in Strings, d \in 0..MEM :
    /\ d + Len(a) + Len(b) < MEM
    /\ call' = [fn |-> "strcat", a |-> a, b |-> b, d |-> d,
                out |-> Strcat(Strcpy(Memory, d, a), d, b)]

CallRound == \E v, y \in Longs :
    call' = [fn |-> "round", v |-> v * LongMod + y, floor |-> Floorf(v * LongMod + y),
             ceil |-> Ceilf(v * LongMod + y), x |-> v, y |-> y, fmod |-> Fmodf(v, y)]

Call == \/ CallMemmove \/ CallStrncpy \/ CallStrncmp \/ CallStrstr \/ CallQsort
        \/ CallSnprintf \/ CallPrintf \/ CallFixed \/ CallDivide
        \/ CallScan \/ CallStrcat \/ CallRound

-----------------------------------------------------------------------------
(* What the C standard asks of the calls. *)

(* memmove copies as if through a buffer of its own, whichever way the two *)
(* ranges overlap, and strncpy writes exactly n cells: the string, then    *)
(* zeros.  Lua moves overlapping stack and string ranges.                  *)
MovesAsIfBuffered ==
    /\ call.fn = "memmove" =>
         call.out = [a \in DOMAIN Memory |->
                        IF a \in call.d .. (call.d + call.n - 1)
                        THEN Memory[call.s + (a - call.d)] ELSE Memory[a]]
    /\ call.fn = "strncpy" =>
         call.out = [a \in DOMAIN Memory |->
                        IF a \in call.d .. (call.d + call.n - 1)
                        THEN CharAt(call.s, a - call.d + 1) ELSE Memory[a]]

(* strncmp orders two strings by the first of their first n characters     *)
(* that differs, the shorter one first, and never looks further; strstr    *)
(* finds the first occurrence, also one that ends with the string.         *)
ComparesThePrefix ==
    /\ call.fn = "strncmp" =>
         LET diff == {i \in 1..call.n : CharAt(call.a, i) # CharAt(call.b, i)}
             i    == CHOOSE x \in diff : \A y \in diff : x <= y
         IN IF diff = {} THEN call.out = 0
            ELSE IF CharAt(call.a, i) < CharAt(call.b, i) THEN call.out < 0
            ELSE call.out > 0
    /\ call.fn = "strstr" =>
         LET at == {i \in 1..Len(call.a) + 1 :
                       /\ i + Len(call.b) - 1 <= Len(call.a)
                       /\ SubSeq(call.a, i, i + Len(call.b) - 1) = call.b}
         IN IF at = {} THEN call.out = 0
            ELSE call.out \in at /\ \A i \in at : call.out <= i

(* The scans stop at the first (strrchr: the last) character asked for,    *)
(* within their count and including the NUL where C says so; the spans are *)
(* the longest; strcpy and strcat write the strings end to end, one NUL    *)
(* after them and nothing else; atoi reads what strtol reads in base ten.  *)
ScansAsSpecified ==
    /\ call.fn = "scan" =>
         LET First(S) == IF S = {} THEN 0 ELSE CHOOSE i \in S : \A k \in S : i <= k
             Final(S) == IF S = {} THEN 0 ELSE CHOOSE i \in S : \A k \in S : i >= k
             at   == {i \in 1..Len(call.a) + 1 : CharAt(call.a, i) = call.c}
             diff == {i \in 1..call.n : CharAt(call.a, i) # CharAt(call.b, i)}
             in   == {i \in DOMAIN call.a : call.a[i] \in ToSet(call.b)}
         IN /\ call.memchr = First({i \in 1..call.n : CharAt(call.a, i) = call.c})
            /\ IF diff = {} THEN call.memcmp = 0
               ELSE (call.memcmp < 0) = (CharAt(call.a, First(diff)) < CharAt(call.b, First(diff)))
            /\ call.strchr = First(at) /\ call.strrchr = Final(at)
            /\ call.strspn = First((1..Len(call.a) + 1) \ in) - 1
            /\ call.strpbrk = First(in)
            /\ call.strcspn = First(in \cup {Len(call.a) + 1}) - 1
            /\ call.atoi = Strtol(call.a, 10).v
    /\ call.fn = "strcat" =>
         call.out = [i \in DOMAIN Memory |->
                        IF i \in call.d .. (call.d + Len(call.a) + Len(call.b))
                        THEN CharAt(call.a \o call.b, i - call.d + 1) ELSE Memory[i]]

(* qsort leaves a sorted permutation, equal elements in their old order.   *)
SortedPermutation ==
    call.fn = "qsort" =>
        /\ IsInjective(call.out)
        /\ ToSet(call.out) = ToSet(call.a)
        /\ \A i, j \in DOMAIN call.out : i < j =>
              \/ call.out[i].key < call.out[j].key
              \/ /\ call.out[i].key = call.out[j].key
                 /\ call.out[i].id < call.out[j].id

(* The text C gives an integer directive. *)
CText(f, v) ==
    LET base == CASE f.conv \in {"d", "u"} -> 10 [] f.conv = "o" -> 8 [] OTHER -> 16
        u    == IF f.conv = "d" THEN (IF v < 0 THEN -v ELSE v) ELSE v % LongMod
        sign == IF f.conv = "d" THEN Sign(v < 0, f.plus, f.space) ELSE <<>>
        pre  == IF f.hash /\ u # 0 /\ f.conv \in {"x", "X"}
                THEN <<Digit0, IF f.conv = "X" THEN Letter_X ELSE Letter_x>> ELSE sign
        d    == Digits(u, base, f.conv = "X")
        num  == Repeat(Digit0, (IF f.prec < 0 THEN 1 ELSE f.prec) - Len(d)) \o d
        fill == f.width - Len(pre) - Len(num)
    IN IF f.left THEN pre \o num \o Repeat(Space, fill)
       ELSE IF f.zero /\ f.prec < 0 THEN pre \o Repeat(Digit0, fill) \o num
       ELSE Repeat(Space, fill) \o pre \o num

(* Where the emitters part from C: a precision more than one digit longer  *)
(* than a %d number; a zero flag with a precision in an unsigned directive;*)
(* a # prefix in a field wider than the number.                            *)
Departs(f, v) ==
    LET digits(b) == Len(Number((IF f.conv = "d" /\ v < 0 THEN -v ELSE v) % LongMod,
                                b, FALSE, f.prec))
    IN \/ f.conv = "d" /\ f.prec > digits(10) + 1
       \/ f.conv # "d" /\ f.zero /\ ~f.left /\ f.prec >= 0
       \/ f.conv \in {"x", "X"} /\ f.hash /\ f.width > digits(16)

(* snprintf prints an integer as C does (outside Departs), returns the     *)
(* length of the whole text however small the buffer is, leaves the first  *)
(* cap - 1 characters and a NUL in it, and touches nothing past them.      *)
(* Lua sizes its buffers from these results.                               *)
FormatMatchesC ==
    call.fn = "snprintf" =>
        /\ ~Departs(call.f, call.v) /\ call.f.conv \in {"d", "u", "x", "X", "o"}
              => call.text = CText(call.f, call.v)
        /\ call.ret = Len(call.text)
        /\ \A a \in DOMAIN call.buf :
              call.buf[a] = IF a < AtMost(call.ret, call.cap - 1) THEN call.text[a + 1]
                            ELSE IF call.cap > 0 /\ a = AtMost(call.ret, call.cap - 1) THEN NUL
                            ELSE Memory[a]

(* printf and fprintf send the text, cut at their buffer, and no other     *)
(* byte.                                                                   *)
PrintsTheTextOnly ==
    call.fn = "printf" =>
        call.out = SubSeq(call.text, 1, AtMost(Len(call.text), STDIO_BUF - 1))

(* strtol reads back every number %d, %x, %X, %o and %p print, whatever    *)
(* the flags, width and precision (a # prefix in a wider field excepted),  *)
(* and up to the last digit: in the base it was printed in and, with a 0x  *)
(* prefix, in base 0 too.                                                  *)
ReadsBack ==
    LET bases == CASE call.f.conv = "d" -> {10} [] call.f.conv = "o" -> {8}
                   [] call.f.conv = "p" -> {0, 16}
                   [] OTHER -> IF call.f.hash /\ call.v # 0 THEN {0, 16} ELSE {16}
    IN /\ call.fn = "snprintf" /\ call.f.conv \in {"d", "x", "X", "o", "p"}
       /\ ~(call.f.hash /\ Departs(call.f, call.v))
       => \A base \in bases :
             LET r == Strtol(call.text, base)
             IN /\ r.v = call.v
                /\ \A i \in r.end .. Len(call.text) : call.text[i] = Space

(* %f prints the multiple of a unit of the last place nearest to the       *)
(* number, carrying into the integer part; %g prints the same number.      *)
ValueOf(s, p) ==
    LET point == IF Dot \in ToSet(s) THEN CHOOSE i \in DOMAIN s : s[i] = Dot
                 ELSE Len(s) + 1
        digits == SelectSeq(s, LAMBDA c : c \in 48..57)
        after == AtLeast(Len(s) - point, 0)
        mag == FoldLeft(LAMBDA acc, c : acc * 10 + (c - Digit0), 0, digits)
    IN (IF s[1] = Minus THEN -mag ELSE mag) * 10 ^ (p - after)

NearestFraction ==
    call.fn \in {"%f", "%g"} =>
        LET p == IF call.fn = "%f" THEN (IF call.prec < 0 THEN 6 ELSE call.prec)
                 ELSE (IF call.prec <= 0 THEN 6 ELSE call.prec) - 1
            diff == ValueOf(call.out, p) * FRAC - call.v * 10 ^ p
        IN /\ 2 * (IF diff < 0 THEN -diff ELSE diff) <= FRAC
           /\ call.fn = "%g" => Last(call.out) # Dot
           /\ call.fn = "%g" /\ Dot \in ToSet(call.out) => Last(call.out) # Digit0

(* strtof reads back what %f and %g print, to the last character; and      *)
(* where the whole part fits an int, floorf, ceilf and fmodf are the       *)
(* mathematical ones: fmodf's result has the dividend's sign and is        *)
(* smaller than the divisor.  Beyond an int they are not: the conversion   *)
(* saturates.                                                              *)
RoundsAsSpecified ==
    /\ call.fn \in {"%f", "%g"} =>
         LET r == Strtof(call.out) IN
         /\ r.end = Len(call.out) + 1
         /\ r.mant * 10 ^ (6 - r.frac + r.exp) = ValueOf(call.out, 6)
    /\ call.fn = "round" =>
         /\ Truncated(call.v, FRAC) \in Longs =>
              /\ call.floor = call.v \div FRAC
              /\ call.ceil = -((-call.v) \div FRAC)
         /\ call.y # 0 /\ Truncated(call.x, call.y) \in Longs =>
              /\ Magnify(call.fmod) < Magnify(call.y)
              /\ (call.x - call.fmod) % Magnify(call.y) = 0
              /\ call.fmod = 0 \/ (call.fmod < 0) = (call.x < 0)

(* The divide is Euclid's on unsigned operands and truncates on signed     *)
(* ones, up to the largest divisor, whose top bit the shift must not lose; *)
(* dividing by zero gives zero.                                            *)
DividesExactly ==
    call.fn = "divide" =>
        LET n == call.a % DivMod
            d == call.b % DivMod
        IN IF d = 0 THEN call.u = [q |-> 0, r |-> 0]
           ELSE /\ n = call.u.q * d + call.u.r /\ call.u.r < d
                /\ (call.q * call.b + call.r - call.a) % DivMod = 0
                /\ Magnitude(call.r) < Magnitude(call.b)
                /\ call.r = 0 \/ (call.r < 0) = (call.a < 0)

(* The calls answer as the C functions they stand for: memory, strings and *)
(* sorting, printing and reading integers and exact decimals, division and *)
(* rounding.  Outside are the directives of Departs, precisions past the   *)
(* emitters' fixed buffers, and what floats lose to rounding.              *)
LibraryAsSpecified ==
    /\ MovesAsIfBuffered /\ ComparesThePrefix /\ SortedPermutation
    /\ FormatMatchesC /\ PrintsTheTextOnly /\ ReadsBack
    /\ NearestFraction /\ DividesExactly /\ ScansAsSpecified /\ RoundsAsSpecified
=============================================================================
