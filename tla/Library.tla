------------------------------ MODULE Library ------------------------------
(***************************************************************************)
(* The algorithms of the system that have no state of their own: memmove() *)
(* and strtol() of lib/string.c, vprintfmt() of lib/printfmt.c, the buffer *)
(* of lib/printf.c, stab_binsearch() of kern/kdebug.c, runcmd() of         *)
(* kern/monitor.c and readseg() of boot/main.c.                            *)
(*                                                                         *)
(* A behavior is one call: an argument is chosen and the result recorded.  *)
(* A character is a string of length 1, a C string the sequence of its     *)
(* characters before the NUL.                                              *)
(***************************************************************************)
EXTENDS Integers, Sequences, FiniteSets, SequencesExt

CONSTANTS WORD,               \* bytes that "rep movsl" moves at a time
          INTBITS, LLBITS,    \* bits of int and long, of long long
          BUFSIZE,            \* characters in a struct printbuf
          MAXARGS, SECTSIZE,
          Moves,              \* arguments of memmove(): [m, dst, src, n]
          Prints,             \* arguments of cprintf(): [fmt, args]
          Searches,           \* [stabs, l, r, addr]
          Lines, Commands,    \* sequences of characters
          Images              \* sequences of segments [pa, memsz, offset]

ASSUME LibraryAssumption ==
    /\ {WORD, INTBITS, LLBITS, BUFSIZE, MAXARGS, SECTSIZE} \subseteq Nat \ {0}
    /\ BUFSIZE > 1 /\ MAXARGS > 1 /\ INTBITS <= LLBITS

(* What memmove() is given lies in memory. *)
ASSUME MovesAssumption ==
    \A a \in Moves :
        /\ a.m = [i \in DOMAIN a.m |-> a.m[i]]
        /\ a.dst \in Int /\ a.src \in Int /\ a.n \in Nat
        /\ a.dst..a.dst + a.n - 1 \subseteq DOMAIN a.m
        /\ a.src..a.src + a.n - 1 \subseteq DOMAIN a.m

ASSUME LinesAssumption == \A s \in Lines : s \in Seq(STRING)

(* The segments of a kernel are in the order of their addresses, agree with *)
(* their offsets within a sector, and are as far apart in the file as in    *)
(* memory where they share a sector.                                        *)
ASSUME ImagesAssumption ==
    \A image \in Images :
        /\ image \in Seq([pa : Nat, memsz : Nat, offset : Nat])
        /\ \A n \in DOMAIN image : image[n].pa % SECTSIZE = image[n].offset % SECTSIZE
        /\ \A i, j \in DOMAIN image :
              i < j /\ image[i].memsz > 0 =>
                  /\ image[i].pa + image[i].memsz <= image[j].pa
                  /\ (image[i].pa + image[i].memsz - 1) \div SECTSIZE = image[j].pa \div SECTSIZE =>
                        image[j].pa - image[i].pa = image[j].offset - image[i].offset

VARIABLE call      \* the call made: its function, argument and result

Repeat(c, n) == [i \in 1..(IF n > 0 THEN n ELSE 0) |-> c]
NUL == "NUL"
CString(s) == LET z == SelectInSeq(s, LAMBDA c : c = NUL)
              IN  IF z = 0 THEN s ELSE SubSeq(s, 1, z - 1)
LeastOf(S) == CHOOSE x \in S : \A y \in S : x <= y
GreatestOf(S) == CHOOSE x \in S : \A y \in S : x >= y

-----------------------------------------------------------------------------
(* lib/string.c *)

(* The areas overlap and the source is the lower one. *)
Backward(dst, src, n) == src < dst /\ src + n > dst

(* What one step of "rep movs" moves, and the moves it makes of n bytes.    *)
Unit(dst, src, n) == IF \A a \in {src, dst, n} : a % WORD = 0 THEN WORD ELSE 1
Copy(m, dst, src, unit) ==
    [a \in DOMAIN m |-> IF a \in dst..dst + unit - 1 THEN m[a - dst + src] ELSE m[a]]

memmove(m, dst, src, n) ==
    LET unit == Unit(dst, src, n)
        count == n \div unit
        Offset(k) == (IF Backward(dst, src, n) THEN count - k ELSE k - 1) * unit
        after[k \in 0..count] ==
            IF k = 0 THEN m
            ELSE Copy(after[k - 1], dst + Offset(k), src + Offset(k), unit)
    IN  after[count]

Numerals == <<"0", "1", "2", "3", "4", "5", "6", "7", "8", "9", "a", "b", "c", "d", "e", "f">>
IsNumeral(c) == \E n \in DOMAIN Numerals : Numerals[n] = c
ValueOf(c) == (CHOOSE n \in DOMAIN Numerals : Numerals[n] = c) - 1
IsDigit(c, base) == IsNumeral(c) /\ ValueOf(c) < base

(* What a register of the given width can hold, and its value taken as      *)
(* signed.                                                                  *)
Pow2(bits) == LET power[n \in 0..bits] == IF n = 0 THEN 1 ELSE 2 * power[n - 1]
              IN  power[bits]
Signed(v, bits) == LET w == v % Pow2(bits)
                   IN  IF w >= Pow2(bits - 1) THEN w - Pow2(bits) ELSE w

(* What strtol() takes off the front of s: blanks, a sign, a base prefix.   *)
Blank == {" ", "\t"}
AfterBlanks(s) == SubSeq(s, SelectInSeq(Append(s, NUL), LAMBDA c : c \notin Blank), Len(s))
AfterSign(s) == IF s # <<>> /\ s[1] \in {"+", "-"} THEN Tail(s) ELSE s
HasPrefix(s, base) == base \in {0, 16} /\ IsPrefix(<<"0", "x">>, s)
BaseOf(s, base) ==
    IF HasPrefix(s, base) THEN 16
    ELSE IF base # 0 THEN base
    ELSE IF IsPrefix(<<"0">>, s) THEN 8 ELSE 10

AfterPrefix(s, base) == IF HasPrefix(s, base) THEN SubSeq(s, 3, Len(s)) ELSE s

(* Digits in upper case, which strtol() also takes and vprintfmt() does not *)
(* write, are left out; values wrap around.                                 *)
ReadDigits(s, base) ==
    LET stop == SelectInSeq(Append(s, NUL), LAMBDA c : ~IsDigit(c, base))
        val[n \in 0..stop - 1] ==
            IF n = 0 THEN 0 ELSE Signed(val[n - 1] * base + ValueOf(s[n]), INTBITS)
    IN  val[stop - 1]

strtol(s, base) ==
    LET t == AfterBlanks(s)
        u == AfterSign(t)
        val == ReadDigits(AfterPrefix(u, base), BaseOf(u, base))
    IN  IF t # u /\ t[1] = "-" THEN Signed(-val, INTBITS) ELSE val

-----------------------------------------------------------------------------
(* lib/printfmt.c.  A format is read character by character; f is the state *)
(* of vprintfmt(): mode is "text" outside an escape sequence, "flags" at    *)
(* the switch, "width" in the loop over the digits of a number; esc is what *)
(* was read since the '%'.                                                  *)

printnum(num, base, width, padc) ==
    LET digits[n \in 0..num] == (IF n >= base THEN digits[n \div base] ELSE <<>>)
                                   \o <<Numerals[(n % base) + 1]>>
    IN  Repeat(padc, width - Len(digits[num])) \o digits[num]

getuint(v, lflag) == v % Pow2(IF lflag >= 2 THEN LLBITS ELSE INTBITS)

getint(v, lflag) == Signed(v, IF lflag >= 2 THEN LLBITS ELSE INTBITS)

Number(f, v, base) == printnum(v % Pow2(LLBITS), base, f.width, f.padc)
Decimal(f, v) == (IF v < 0 THEN <<"-">> ELSE <<>>) \o Number(f, IF v < 0 THEN -v ELSE v, 10)

Unprintable == {"\n", "\t"}
StringField(f, p) ==
    LET n == IF f.precision < 0 \/ f.precision > Len(p) THEN Len(p) ELSE f.precision
        left == f.width > 0 /\ f.padc # "-"
        Shown(c) == IF f.altflag /\ c \in Unprintable THEN "?" ELSE c
    IN  (IF left THEN Repeat(f.padc, f.width - n) ELSE <<>>)
        \o [i \in 1..n |-> Shown(p[i])]
        \o (IF left THEN <<>> ELSE Repeat(" ", f.width - n))

(* The messages are opaque here, each a character; E_NO_SYS has none.  The  *)
(* one value whose negation is negative, and an index outside the array, is *)
(* not among the arguments.                                                 *)
error_string == [err \in (1..6) \cup {8, 9} |-> "message"]
ErrorField(f, v) ==
    LET err == IF v < 0 THEN Signed(-v, INTBITS) ELSE v
    IN  IF err \in DOMAIN error_string THEN <<error_string[err]>>
        ELSE <<"error ">> \o Decimal([f EXCEPT !.width = -1, !.padc = " "], err)

(* What a conversion prints; it takes the next argument. *)
Conversions == {"c", "e", "s", "d", "u", "o", "p", "x", "%"}
Converted(f, c) ==
    LET v == Head(f.args) IN
    CASE c = "c" -> <<v>>
      [] c = "e" -> ErrorField(f, getint(v, 0))
      [] c = "s" -> StringField(f, CString(v))
      [] c = "d" -> Decimal(f, getint(v, f.lflag))
      [] c = "u" -> Number(f, getuint(v, f.lflag), 10)
      [] c = "o" -> <<"X", "X", "X">>
      [] c = "p" -> <<"0", "x">> \o Number(f, getuint(v, 0), 16)
      [] c = "x" -> Number(f, getuint(v, f.lflag), 16)
      [] c = "%" -> <<"%">>
Convert(f, c) == [f EXCEPT !.mode = "text", !.out = @ \o Converted(f, c),
                           !.args = IF c \in {"o", "%"} THEN @ ELSE Tail(@)]

(* The number just read is the width if there is none yet. *)
process_precision(f) ==
    IF f.width < 0 THEN [f EXCEPT !.mode = "flags", !.width = f.precision, !.precision = -1]
    ELSE [f EXCEPT !.mode = "flags"]

(* Mutant: a dot alone leaves the width open. *)
Dot_NoWidth(f) == f

Dot(f) == IF f.width < 0 THEN [f EXCEPT !.width = 0] ELSE f

Escape(f, c) ==
    LET g == [f EXCEPT !.esc = Append(@, c)] IN
    CASE c \in {"-", "0"} -> [g EXCEPT !.padc = c]
      [] IsNumeral(c) /\ ValueOf(c) \in 1..9 -> [g EXCEPT !.mode = "width", !.precision = ValueOf(c)]
      [] c = "*" -> process_precision([g EXCEPT !.precision = Head(g.args), !.args = Tail(@)])
      [] c = "." -> Dot(g)
      [] c = "#" -> [g EXCEPT !.altflag = TRUE]
      [] c = "l" -> [g EXCEPT !.lflag = @ + 1]
      [] c \in Conversions -> Convert(f, c)
      [] OTHER -> [g EXCEPT !.mode = "text", !.out = @ \o <<"%">> \o g.esc]

Char(f, c) ==
    CASE f.mode = "text" /\ c # "%" -> [f EXCEPT !.out = Append(@, c)]
      [] f.mode = "text" /\ c = "%" ->
            [f EXCEPT !.mode = "flags", !.esc = <<>>, !.padc = " ", !.width = -1,
                      !.precision = -1, !.lflag = 0, !.altflag = FALSE]
      [] f.mode = "width" /\ IsDigit(c, 10) ->
            [f EXCEPT !.precision = 10 * @ + ValueOf(c), !.esc = Append(@, c)]
      [] f.mode = "width" /\ ~IsDigit(c, 10) -> Escape(process_precision(f), c)
      [] f.mode = "flags" -> Escape(f, c)

Started(args) == [mode |-> "text", out |-> <<>>, esc |-> <<>>, padc |-> " ", width |-> -1,
                  precision |-> -1, lflag |-> 0, altflag |-> FALSE, args |-> args]
Printed(f) == IF f.mode = "text" THEN f.out ELSE f.out \o <<"%">> \o f.esc

vprintfmt(fmt, args) ==
    LET after[n \in 0..Len(fmt)] == IF n = 0 THEN Started(args) ELSE Char(after[n - 1], fmt[n])
    IN  Printed(after[Len(fmt)])

-----------------------------------------------------------------------------
(* lib/printf.c, down to the console.  The kernel's sys_cputs() prints the  *)
(* buffer with the format "%.*s"; what the buffer held before stays in it.  *)

sys_cputs(b) == [b EXCEPT !.console = @ \o vprintfmt(<<"%", ".", "*", "s">>, <<b.idx, b.buf>>)]

putch(b, ch) ==
    LET w == [b EXCEPT !.buf[b.idx + 1] = ch, !.idx = @ + 1, !.cnt = @ + 1]
    IN  IF w.idx = BUFSIZE - 1 THEN [sys_cputs(w) EXCEPT !.idx = 0] ELSE w

vcprintf(text) ==
    LET start == [idx |-> 0, cnt |-> 0, buf |-> Repeat("?", BUFSIZE), console |-> <<>>]
        after[n \in 0..Len(text)] == IF n = 0 THEN start ELSE putch(after[n - 1], text[n])
    IN  sys_cputs(after[Len(text)])

-----------------------------------------------------------------------------
(* kern/kdebug.c: the search for the stabs of type N_SO *)

IsSo(stabs, m) == stabs[m].n_type = "N_SO"

(* The stabs of one type are in increasing order of their addresses. *)
ASSUME SearchesAssumption ==
    \A a \in Searches :
        /\ a.l \in Nat /\ a.r \in Int /\ a.l <= a.r + 1 /\ a.addr \in Nat
        /\ \A m \in a.l..a.r : a.stabs[m].n_value \in Nat
        /\ \A i, j \in a.l..a.r : i < j /\ IsSo(a.stabs, i) /\ IsSo(a.stabs, j)
                                    => a.stabs[i].n_value < a.stabs[j].n_value

(* Mutant: the search ends at an exact match. *)
Exact_Stops(s, m) == [s EXCEPT !.any = TRUE, !.left = m, !.l = s.r + 1]

(* An exact match, after which the search is for the next address. *)
Exact(s, m) == [s EXCEPT !.any = TRUE, !.left = m, !.l = m, !.addr = @ + 1]

(* One round of the search, which is over when l > r. *)
Probe(stabs, s) ==
    LET true_m == (s.l + s.r) \div 2
        found == {m \in s.l..true_m : IsSo(stabs, m)}
        m == GreatestOf(found)
    IN  IF s.l > s.r THEN s
        ELSE IF found = {} THEN [s EXCEPT !.l = true_m + 1]
        ELSE IF stabs[m].n_value < s.addr THEN [s EXCEPT !.any = TRUE, !.left = m, !.l = true_m + 1]
        ELSE IF stabs[m].n_value > s.addr THEN [s EXCEPT !.any = TRUE, !.right = m - 1, !.r = m - 1]
        ELSE Exact(s, m)

(* As many rounds as a search can take: one may leave l and r as they are.  *)
Search(stabs, s) ==
    LET rounds == 2 * (s.r - s.l + 1) + 1
        after[n \in 0..rounds] == IF n = 0 THEN s ELSE Probe(stabs, after[n - 1])
    IN  after[rounds]

stab_binsearch(stabs, l, r, addr) ==
    LET s == Search(stabs, [l |-> l, r |-> r, left |-> l, right |-> r,
                            any |-> FALSE, addr |-> addr])
        last == {m \in s.left + 1..s.right : IsSo(stabs, m)}
    IN  IF ~s.any THEN [left |-> s.left, right |-> s.left - 1]
        ELSE [left |-> IF last # {} THEN GreatestOf(last)
                       ELSE IF s.right < s.left THEN s.right ELSE s.left,
              right |-> s.right]

-----------------------------------------------------------------------------
(* kern/monitor.c *)

WHITESPACE == {"\t", "\r", "\n", " "}

Full(argv) == Len(argv) = MAXARGS - 1

(* w says that the last character was white; a full argv ends the parsing. *)
Parse(a, c) ==
    CASE a.full \/ c \in WHITESPACE -> [a EXCEPT !.w = TRUE]
      [] ~a.full /\ c \notin WHITESPACE /\ a.w /\ Full(a.argv) -> [a EXCEPT !.full = TRUE]
      [] ~a.full /\ c \notin WHITESPACE /\ a.w /\ ~Full(a.argv) ->
            [a EXCEPT !.argv = Append(@, <<c>>), !.w = FALSE]
      [] ~a.full /\ c \notin WHITESPACE /\ ~a.w ->
            [a EXCEPT !.argv[Len(a.argv)] = Append(@, c)]

(* The arguments, and what is done with them. *)
runcmd(buf) ==
    LET after[n \in 0..Len(buf)] == IF n = 0 THEN [argv |-> <<>>, w |-> TRUE, full |-> FALSE]
                                    ELSE Parse(after[n - 1], buf[n])
        a == after[Len(buf)]
    IN  [argv |-> a.argv,
         does |-> IF a.full THEN "too many"
                  ELSE IF a.argv = <<>> THEN "nothing"
                  ELSE IF a.argv[1] \in Commands THEN "command" ELSE "unknown"]

-----------------------------------------------------------------------------
(* boot/main.c.  The disk holds the boot sector and then the kernel, whose  *)
(* byte at offset n is n.                                                   *)

readsect(sector, n) == (sector - 1) * SECTSIZE + n

FirstSector(offset) == offset \div SECTSIZE + 1

readseg(mem, seg) ==
    LET low == seg.pa - (seg.pa % SECTSIZE)
        sectors == (seg.pa + seg.memsz - low + SECTSIZE - 1) \div SECTSIZE
    IN  [a \in DOMAIN mem |->
            IF a \in low..low + sectors * SECTSIZE - 1
            THEN readsect(FirstSector(seg.offset) + (a - low) \div SECTSIZE, (a - low) % SECTSIZE)
            ELSE mem[a]]

(* The segments of a kernel whose header has been read and found good. *)
bootmain(image) ==
    LET top == GreatestOf({s.pa + s.memsz : s \in {image[n] : n \in DOMAIN image}}) + SECTSIZE
        after[n \in 0..Len(image)] == IF n = 0 THEN [a \in 0..top |-> -1]
                                      ELSE readseg(after[n - 1], image[n])
    IN  after[Len(image)]

-----------------------------------------------------------------------------

None == [fn |-> "none"]
CallInit == call = None

Returns(fn, in, out) == call = None /\ call' = [fn |-> fn, in |-> in, out |-> out]

Move == \E a \in Moves : Returns("memmove", a, memmove(a.m, a.dst, a.src, a.n))
Format == \E a \in Prints :
            LET text == vprintfmt(a.fmt, a.args)
            IN  Returns("cprintf", a, [text |-> text, b |-> vcprintf(text)])
Lookup == \E a \in Searches : Returns("stab", a, stab_binsearch(a.stabs, a.l, a.r, a.addr))
Command == \E a \in Lines : Returns("runcmd", a, runcmd(a))
Load == \E a \in Images : Returns("bootmain", a, bootmain(a))

CallNext == Move \/ Format \/ Lookup \/ Command \/ Load
CallSpec == CallInit /\ [][CallNext]_call

-----------------------------------------------------------------------------
(* Properties: what is to hold of a call c. *)

(* memmove() leaves at dst what was at src before, also when the areas      *)
(* overlap and when it moves words, and changes nothing else.               *)
MoveExact(c) ==
    c.fn = "memmove" =>
        LET a == c.in IN
        c.out = [i \in DOMAIN a.m |-> IF i \in a.dst..a.dst + a.n - 1
                                         THEN a.m[i - a.dst + a.src] ELSE a.m[i]]

(* A number that vprintfmt() prints reads back as itself, by its digits and *)
(* by strtol() modulo the width of a long, up to the extreme values, unless *)
(* blanks come between the sign or "0x" and the digits.  The format is a    *)
(* conversion with a width, zero-padded or not, and any number of l's.      *)
Conversion(fmt) == fmt[Len(fmt)]
NumberPrinted(fmt) ==
    /\ Len(fmt) > 1 /\ fmt[1] = "%" /\ Conversion(fmt) \in {"d", "u", "x", "p"}
    /\ \E k \in 2..Len(fmt) : /\ \A i \in 2..k - 1 : IsDigit(fmt[i], 10)
                             /\ \A i \in k..Len(fmt) - 1 : fmt[i] = "l"

(* The arguments of cprintf() are those its conversions take: what comes    *)
(* out is text, and the argument of a number is one.                        *)
ASSUME PrintsAssumption ==
    \A a \in Prints :
        /\ a.fmt \in Seq(STRING) /\ vprintfmt(a.fmt, a.args) \in Seq(STRING)
        /\ NumberPrinted(a.fmt) => a.args \in Seq(Int) /\ a.args # <<>>

LongLong(fmt) == /\ Len(fmt) > 3 /\ fmt[Len(fmt) - 1] = "l" /\ fmt[Len(fmt) - 2] = "l"
                 /\ Conversion(fmt) # "p"
Value(s, base) ==
    LET value[n \in 0..Len(s)] == IF n = 0 THEN 0
                                  ELSE IF IsNumeral(s[n]) THEN value[n - 1] * base + ValueOf(s[n])
                                  ELSE value[n - 1]
    IN  value[Len(s)]
NumberReadsBack(c) ==
    c.fn = "cprintf" /\ NumberPrinted(c.in.fmt) =>
        LET fmt == c.in.fmt
            arg == c.in.args[1]
            text == c.out.text
            base == IF Conversion(fmt) \in {"x", "p"} THEN 16 ELSE 10
            bits == IF LongLong(fmt) THEN LLBITS ELSE INTBITS
            abs == Value(text, base)
        IN  /\ IF Conversion(fmt) # "d" THEN abs = arg % Pow2(bits)
               ELSE Signed(arg, bits) = IF text[1] = "-" THEN -abs ELSE abs
            /\ \/ strtol(text, base) = Signed(arg, INTBITS)
               \/ /\ text[1] = "-" \/ Conversion(fmt) = "p"
                  /\ " " \in {text[n] : n \in DOMAIN text}

(* What a program prints with cprintf() arrives on the console in full, in  *)
(* order and once, whatever its length, through the buffer of putch() and   *)
(* the "%.*s" of sys_cputs(); and the count returned is its length.         *)
ConsoleGetsText(c) ==
    c.fn = "cprintf" /\ NUL \notin {c.out.text[n] : n \in DOMAIN c.out.text} =>
        /\ c.out.b.console = c.out.text
        /\ c.out.b.cnt = Len(c.out.text)

(* stab_binsearch() finds the last N_SO stab at or below the address, and   *)
(* the stabs up to the next one.  Left out are tables with stabs at the     *)
(* address and at the one after it: addr++ then makes the search take the   *)
(* second for the first.  Without an N_SO stab the range is empty.  Where   *)
(* the address is below every N_SO stab it is not, against what kdebug.c    *)
(* says at lines 39-43: the range starts where the search did, with a stab  *)
(* of another type, and ends before the first N_SO stab, or is the one      *)
(* index before the search when that stab is the first of all.              *)
StabFound(c) ==
    c.fn = "stab" =>
        LET a == c.in
            so == {m \in a.l..a.r : IsSo(a.stabs, m)}
            below == {m \in so : a.stabs[m].n_value <= a.addr}
            next == {m \in so : a.stabs[m].n_value > a.addr}
            At(x) == \E m \in so : a.stabs[m].n_value = x
        IN  /\ below # {} /\ ~(At(a.addr) /\ At(a.addr + 1)) =>
                  /\ c.out.left = GreatestOf(below)
                  /\ c.out.right = IF next = {} THEN a.r ELSE LeastOf(next) - 1
            /\ so = {} => c.out.left > c.out.right
            /\ so # {} /\ below = {} =>
                  /\ c.out.left = IF a.l < LeastOf(so) THEN a.l ELSE a.l - 1
                  /\ c.out.right = LeastOf(so) - 1

(* The arguments of a command are the words of the line, and there is room  *)
(* for the NULL that ends argv (runcmd()).                                  *)
ArgsSplit(c) ==
    c.fn = "runcmd" =>
        LET s == c.in
            White(n) == n \in {0, Len(s) + 1} \/ s[n] \in WHITESPACE
            starts == {n \in DOMAIN s : ~White(n) /\ White(n - 1)}
            Word(n) == SubSeq(s, n, LeastOf({e \in n..Len(s) : White(e + 1)}))
            argv == c.out.argv
        IN  /\ Len(argv) < MAXARGS
            /\ c.out.does = "too many" <=> Cardinality(starts) >= MAXARGS
            /\ c.out.does # "too many" =>
                  /\ Len(argv) = Cardinality(starts)
                  /\ \A n \in starts :
                        argv[Cardinality({k \in starts : k <= n})] = Word(n)

(* After bootmain() every byte of every segment of the kernel is where the  *)
(* headers say, although whole sectors are written around it.               *)
SegmentsLoaded(c) ==
    c.fn = "bootmain" =>
        \A n \in DOMAIN c.in :
            LET seg == c.in[n] IN
            \A i \in 0..seg.memsz - 1 : c.out[seg.pa + i] = seg.offset + i

(***************************************************************************)
(* Output is faithful: a printed number is the number, and all that        *)
(* cprintf() formats reaches the console (vprintfmt(), lib/printf.c).      *)
(***************************************************************************)
OutputFaithful == NumberReadsBack(call) /\ ConsoleGetsText(call)

(***************************************************************************)
(* memmove(), stab_binsearch(), runcmd() and bootmain() compute what they  *)
(* are for on every small input, as defined without their loops.           *)
(***************************************************************************)
ResultsExact == MoveExact(call) /\ StabFound(call) /\ ArgsSplit(call) /\ SegmentsLoaded(call)
=============================================================================
