------------------------------ MODULE Console ------------------------------
(***************************************************************************)
(* The console: the serial port and the keyboard, which deliver bytes at   *)
(* any time, the ring that cons_intr() fills and cons_getc() empties, the  *)
(* text screen (kern/console.c), the system calls that use them, and the   *)
(* line editor readline() (lib/readline.c) below the kernel monitor.       *)
(*                                                                         *)
(* The kernel runs with interrupts off and under the big kernel lock, so   *)
(* there is one caller at a time; what interleaves with it is the devices. *)
(* Each byte taken from a device is a step.                                *)
(***************************************************************************)
EXTENDS Integers, Sequences, FiniteSetsExt

CONSTANTS CONSBUFSIZE, BUFLEN, CRT_COLS, CRT_SIZE,
          Prompt,       \* what monitor() prints before it reads a line
          Keys,         \* the keys of the keyboard that are used
          SerialChars,  \* the bytes that come over the line
          UserChars,    \* what programs print
          KBDQ,         \* bytes the keyboard controller holds
          MAXSER, MAXKEY,  \* bounds: bytes over the line, keys pressed
          MAXOUT        \* bound: characters printed by programs

(* A line that fills buf stays on the screen: 1023 characters at most where *)
(* scrolling leaves 1920 cells.                                             *)
ASSUME ConsoleAssumption ==
    /\ CONSBUFSIZE \in Nat \ {0} /\ BUFLEN \in Nat \ {0}
    /\ CRT_COLS \in Nat \ {0} /\ CRT_SIZE \in Nat
    /\ CRT_SIZE % CRT_COLS = 0 /\ CRT_SIZE > CRT_COLS
    /\ BUFLEN - 1 <= CRT_SIZE - CRT_COLS
    /\ Prompt \in Seq(STRING)
    /\ MAXSER \in Nat /\ MAXKEY \in Nat /\ MAXOUT \in Nat /\ KBDQ \in Nat

NONE == "none"
NO == "NO"

(***************************************************************************)
(* The keyboard.  A key sends its scan code when it goes down and the code *)
(* with bit 7 set when it goes up, after the byte 0xE0 if it is one of the *)
(* keys in Extended.  A byte is a pair: its low 7 bits, and whether bit 7  *)
(* is set.                                                                 *)
(***************************************************************************)
Code == [lshift |-> "2A", rshift |-> "36", lctl |-> "1D", rctl |-> "1D",
         lalt |-> "38", ralt |-> "38", caps |-> "3A", a |-> "1E",
         enter |-> "1C", bs |-> "0E", del |-> "53"]
ASSUME KeysAssumption == Keys \subseteq DOMAIN Code

Extended == {"rctl", "ralt", "del"}
E0 == <<"60", TRUE>>
Bytes(k, up) == IF k \in Extended THEN <<E0, <<Code[k], up>>>> ELSE <<<<Code[k], up>>>>

(* The flag of shift that a key stands for. *)
Holds == [lshift |-> "SHIFT", rshift |-> "SHIFT", lctl |-> "CTL", rctl |-> "CTL",
          lalt |-> "ALT", ralt |-> "ALT"]

VARIABLES
    rx,         \* the serial receive buffer: one byte, the FIFO is off
    kbd,        \* bytes in the keyboard controller
    down,       \* keys that are held down
    shift,      \* the flags of kbd_proc_data()
    rebooted,   \* kbd_proc_data() has reset the machine
    asked,      \* history: DEL was pressed with Control and Alt held
    cons,       \* the ring: buf, rpos, wpos
    crt_buf, crt_pos,
    caller,     \* who called cons_getc(): a program, readline(), or NONE
    at,         \* where in cons_getc() it is
    i, buf,     \* readline()
    nser, nkey, nout,  \* for MAXSER, MAXKEY and MAXOUT
    produced,   \* history: characters put in the ring
    last,       \* history: number of the last one taken out of it
    lost,       \* history: the ring has overflown
    lines       \* history: lines readline() has returned

devVars == <<rx, kbd, down, asked>>
crtVars == <<crt_buf, crt_pos>>
lineVars == <<i, buf, lines>>
ringHistory == <<produced, last, lost>>
vars == <<devVars, shift, rebooted, cons, crtVars, caller, at, lineVars, nser, nkey, nout, ringHistory>>

Cell == 0..CRT_SIZE - 1
Flags == {"SHIFT", "CTL", "ALT", "CAPSLOCK", "E0ESC"}
Chars == {"a", "A", "^A", "KEY_DEL", "DEL", "NL", "CR", "BS", "TAB", " "}
            \cup SerialChars \cup UserChars \cup {Prompt[j] : j \in DOMAIN Prompt}

(* Positions stay inside the three buffers, whatever is typed and printed. *)
TypeOK ==
    /\ rx \in SerialChars \cup {NONE}
    /\ Len(kbd) <= KBDQ
    /\ down \subseteq Keys
    /\ shift \subseteq Flags
    /\ rebooted \in BOOLEAN /\ asked \in BOOLEAN
    /\ cons.rpos \in 0..CONSBUFSIZE - 1 /\ cons.wpos \in 0..CONSBUFSIZE - 1
    /\ DOMAIN cons.buf = 0..CONSBUFSIZE - 1
    /\ crt_buf \in [Cell -> Chars]
    /\ crt_pos \in Cell
    /\ caller \in {NONE, "sys_cgetc", "readline"}
    /\ at \in {"serial", "kbd", "take"}
    /\ i \in 0..BUFLEN - 1
    /\ buf \in [0..BUFLEN - 1 -> Chars \cup {NO}]
    /\ produced \in Nat /\ last \in 0..produced /\ lines \in Nat /\ lost \in BOOLEAN

(* cons_init() drains the devices; the cursor is where the BIOS left it,    *)
(* taken to be the first cell of an empty screen.                           *)
cga_init == crt_buf = [n \in Cell |-> " "] /\ crt_pos = 0
kbd_init == kbd = <<>> /\ down = {} /\ shift = {}
serial_init == rx = NONE

Init ==
    /\ cga_init /\ kbd_init /\ serial_init
    /\ rebooted = FALSE /\ asked = FALSE
    /\ cons = [buf |-> [n \in 0..CONSBUFSIZE - 1 |-> [c |-> NO, n |-> 0]], rpos |-> 0, wpos |-> 0]
    /\ caller = NONE /\ at = "serial"
    /\ i = 0 /\ buf = [n \in 0..BUFLEN - 1 |-> NO]
    /\ nser = 0 /\ nkey = 0 /\ nout = 0
    /\ produced = 0 /\ last = 0 /\ lost = FALSE /\ lines = 0

-----------------------------------------------------------------------------
(* The devices *)

(* A byte that comes before the previous one is read replaces it. *)
SerialArrives(c) ==
    /\ nser < MAXSER
    /\ rx' = c
    /\ nser' = nser + 1
    /\ UNCHANGED <<kbd, down, asked, shift, rebooted, cons, crtVars, caller, at, lineVars, nkey, nout, ringHistory>>

(* The flags that should be up: those of the keys that are held. *)
Held == {Holds[k] : k \in down \cap DOMAIN Holds}

KeyDown(k) ==
    /\ nkey < MAXKEY
    /\ k \notin down
    /\ Len(kbd \o Bytes(k, FALSE)) <= KBDQ
    /\ kbd' = kbd \o Bytes(k, FALSE)
    /\ down' = down \cup {k}
    /\ asked' = (asked \/ (k = "del" /\ {"CTL", "ALT"} \subseteq Held))
    /\ nkey' = nkey + 1
    /\ UNCHANGED <<rx, shift, rebooted, cons, crtVars, caller, at, lineVars, nser, nout, ringHistory>>

KeyUp(k) ==
    /\ k \in down
    /\ Len(kbd \o Bytes(k, TRUE)) <= KBDQ
    /\ kbd' = kbd \o Bytes(k, TRUE)
    /\ down' = down \ {k}
    /\ UNCHANGED <<rx, asked, shift, rebooted, cons, crtVars, caller, at, lineVars, nser, nkey, nout, ringHistory>>

-----------------------------------------------------------------------------
(* kbd_proc_data() on one byte.  Scan codes index the tables with bit 7 set *)
(* when the byte E0 came before.                                            *)

shiftcode(code, ext) ==
    CASE code = "1D" -> {"CTL"}
      [] code = "38" -> {"ALT"}
      [] code \in {"2A", "36"} /\ ~ext -> {"SHIFT"}
      [] OTHER -> {}

togglecode(code, ext) == IF code = "3A" /\ ~ext THEN {"CAPSLOCK"} ELSE {}

(* normalmap, shiftmap and ctlmap at the keys that are used. *)
charcode(flags, code, ext) ==
    CASE code = "1E" /\ ~ext -> IF "CTL" \in flags THEN "^A"
                                ELSE IF "SHIFT" \in flags THEN "A" ELSE "a"
      [] code = "1C" /\ ~ext -> IF "CTL" \in flags THEN "CR" ELSE "NL"
      [] code = "0E" /\ ~ext -> IF "CTL" \in flags THEN NO ELSE "BS"
      [] code = "53" /\ ext  -> "KEY_DEL"
      [] OTHER -> NO

Capitals(flags, c) ==
    IF "CAPSLOCK" \notin flags THEN c
    ELSE CASE c = "a" -> "A" [] c = "A" -> "a" [] OTHER -> c

(* Mutant: only the left of two keys clears its flag. *)
Released_LeftOnly(flags, code) ==
    flags \ ((IF "E0ESC" \in flags THEN {} ELSE shiftcode(code, FALSE)) \cup {"E0ESC"})

(* The byte has bit 7: a key was released.  Its flag goes, and the escape. *)
Released(flags, code) == flags \ (shiftcode(code, "E0ESC" \in flags) \cup {"E0ESC"})

(* The flags and the character after a key was pressed. *)
Pressed(flags, code) ==
    LET ext == "E0ESC" \in flags
        held == (flags \ {"E0ESC"}) \cup shiftcode(code, ext)
        new == SymDiff(held, togglecode(code, ext))
    IN  [shift |-> new, c |-> Capitals(new, charcode(new, code, ext))]

(* What one byte does: the new flags, and the character it finishes or NO. *)
kbd_proc_data(flags, byte) ==
    IF byte = E0 THEN [shift |-> flags \cup {"E0ESC"}, c |-> NO]
    ELSE IF byte[2] THEN [shift |-> Released(flags, byte[1]), c |-> NO]
    ELSE Pressed(flags, byte[1])

AsksReboot(r) == {"CTL", "ALT"} \subseteq r.shift /\ r.c = "KEY_DEL"

-----------------------------------------------------------------------------
(* The ring *)

(* Mutant: the position wraps one cell early. *)
Advance_Early(pos) == (pos + 1) % (IF pos = cons.wpos THEN CONSBUFSIZE - 1 ELSE CONSBUFSIZE)

(* cons.wpos++ and cons.rpos++, back to 0 at the end of the buffer. *)
Advance(pos) == IF pos + 1 = CONSBUFSIZE THEN 0 ELSE pos + 1

(* cons_intr(): NO, the character 0, is dropped; any other is stored at     *)
(* wpos whether or not the cell has been read.  The ring has overflown when *)
(* it then looks empty.                                                     *)
cons_intr(c) ==
    IF c = NO THEN UNCHANGED <<cons, ringHistory>>
    ELSE /\ cons' = [cons EXCEPT !.buf[cons.wpos] = [c |-> c, n |-> produced + 1],
                                 !.wpos = Advance(@)]
         /\ produced' = produced + 1
         /\ lost' = (lost \/ Advance(cons.wpos) = cons.rpos)
         /\ UNCHANGED last

(* serial_intr(): as long as there is a byte. *)
serial_intr ==
    /\ caller # NONE /\ at = "serial"
    /\ \/ rx # NONE /\ rx' = NONE /\ cons_intr(rx) /\ UNCHANGED at
       \/ rx = NONE /\ at' = "kbd" /\ UNCHANGED <<rx, cons, ringHistory>>
    /\ UNCHANGED <<kbd, down, asked, shift, rebooted, crtVars, caller, lineVars, nser, nkey, nout>>

(* kbd_intr(): as long as there is a byte. *)
kbd_intr ==
    /\ caller # NONE /\ at = "kbd"
    /\ \/ /\ kbd # <<>>
          /\ kbd' = Tail(kbd)
          /\ LET r == kbd_proc_data(shift, Head(kbd)) IN
                /\ shift' = r.shift
                /\ rebooted' = (rebooted \/ AsksReboot(r))
                /\ cons_intr(r.c)
          /\ UNCHANGED at
       \/ kbd = <<>> /\ at' = "take" /\ UNCHANGED <<kbd, shift, rebooted, cons, ringHistory>>
    /\ UNCHANGED <<rx, down, asked, crtVars, caller, lineVars, nser, nkey, nout>>

(* The end of cons_getc(): the character at rpos, or NO. *)
Empty == cons.rpos = cons.wpos
Taken == IF Empty THEN NO ELSE cons.buf[cons.rpos].c
Take == IF Empty THEN UNCHANGED <<cons, ringHistory>>
        ELSE /\ cons' = [cons EXCEPT !.rpos = Advance(@)]
             /\ last' = cons.buf[cons.rpos].n
             /\ UNCHANGED <<produced, lost>>

-----------------------------------------------------------------------------
(* The screen: what cga_putc() makes of [buf, pos]. *)

(* Mutant: source and destination of the memmove() swapped. *)
Scroll_Down(s) ==
    IF s.pos < CRT_SIZE THEN s
    ELSE [buf |-> [n \in Cell |-> IF n >= CRT_SIZE - CRT_COLS THEN " "
                                 ELSE s.buf[IF n < CRT_COLS THEN n ELSE n - CRT_COLS]],
          pos |-> s.pos - CRT_COLS]

(* At the end of the screen every row moves up, and the cursor with it. *)
Scroll(s) ==
    IF s.pos < CRT_SIZE THEN s
    ELSE [buf |-> [n \in Cell |-> IF n < CRT_SIZE - CRT_COLS THEN s.buf[n + CRT_COLS] ELSE " "],
          pos |-> s.pos - CRT_COLS]

PutPlain(s, c) ==
    CASE c = "BS" -> IF s.pos > 0 THEN [buf |-> [s.buf EXCEPT ![s.pos - 1] = " "], pos |-> s.pos - 1]
                     ELSE s
      [] c = "NL" -> Scroll([s EXCEPT !.pos = (@ + CRT_COLS) - ((@ + CRT_COLS) % CRT_COLS)])
      [] c = "CR" -> [s EXCEPT !.pos = @ - (@ % CRT_COLS)]
      [] OTHER    -> Scroll([buf |-> [s.buf EXCEPT ![s.pos] = c], pos |-> s.pos + 1])

(* A tab is five spaces, each with its own scrolling. *)
Space(s) == PutPlain(s, " ")
cga_putc(s, c) == IF c = "TAB" THEN Space(Space(Space(Space(Space(s)))))
                  ELSE PutPlain(s, c)

(* One character, and the characters of str one after the other. *)
Becomes(s) == crt_buf' = s.buf /\ crt_pos' = s.pos
cputchar(c) == Becomes(cga_putc([buf |-> crt_buf, pos |-> crt_pos], c))

Shown(s, str) ==
    LET after[n \in 0..Len(str)] == IF n = 0 THEN s ELSE cga_putc(after[n - 1], str[n])
    IN  after[Len(str)]
cprintf(str) == Becomes(Shown([buf |-> crt_buf, pos |-> crt_pos], str))

-----------------------------------------------------------------------------
(* The callers *)

(* A program calls sys_cgetc(), once for each round of its getchar(). *)
sys_cgetc ==
    /\ caller = NONE
    /\ caller' = "sys_cgetc" /\ at' = "serial"
    /\ UNCHANGED <<devVars, shift, rebooted, cons, crtVars, lineVars, nser, nkey, nout, ringHistory>>

CgetcReturn ==
    /\ caller = "sys_cgetc" /\ at = "take"
    /\ Take
    /\ caller' = NONE /\ at' = "serial"
    /\ UNCHANGED <<devVars, shift, rebooted, crtVars, lineVars, nser, nkey, nout>>

sys_cputs(c) ==
    /\ caller = NONE
    /\ nout < MAXOUT
    /\ nout' = nout + 1
    /\ cputchar(c)
    /\ UNCHANGED <<devVars, shift, rebooted, cons, caller, at, lineVars, nser, nkey, ringHistory>>

(* monitor() is entered; no command of it makes it return. *)
monitor ==
    /\ caller = NONE
    /\ caller' = "readline" /\ at' = "serial"
    /\ i' = 0
    /\ cprintf(Prompt)
    /\ UNCHANGED <<devVars, shift, rebooted, cons, buf, lines, nser, nkey, nout, ringHistory>>

Printable(c) == c \notin {NO, "^A", "NL", "CR", "BS", "TAB"}

(* getchar() polls again after 0. *)
Poll ==
    /\ caller = "readline" /\ at = "take"
    /\ Taken = NO
    /\ at' = "serial"
    /\ UNCHANGED <<devVars, shift, rebooted, cons, crtVars, caller, lineVars, nser, nkey, nout, ringHistory>>

GotChar == caller = "readline" /\ at = "take" /\ Taken # NO /\ Take /\ at' = "serial"
lineRest == <<devVars, shift, rebooted, caller, nser, nkey, nout>>

Erases(c) == c \in {"BS", "DEL"} /\ i > 0

Erase ==
    /\ GotChar
    /\ Erases(Taken)
    /\ cputchar("BS")
    /\ i' = i - 1
    /\ UNCHANGED <<lineRest, buf, lines>>

(* Note that DEL at the start of a line is a character like another. *)
Inserts(c) == ~Erases(c) /\ Printable(c) /\ i < BUFLEN - 1

Insert ==
    /\ GotChar
    /\ Inserts(Taken)
    /\ cputchar(Taken)
    /\ buf' = [buf EXCEPT ![i] = Taken]
    /\ i' = i + 1
    /\ UNCHANGED <<lineRest, lines>>

(* Mutant: when the buffer is full nothing but an erasure is looked at. *)
Ends_Full(c) == c \in {"NL", "CR"} /\ i < BUFLEN - 1

Ends(c) == c \in {"NL", "CR"}

(* The line is returned, the command run, and the next prompt printed. *)
Return ==
    /\ GotChar
    /\ Ends(Taken)
    /\ buf' = [buf EXCEPT ![i] = NO]
    /\ cprintf(<<"NL">> \o Prompt)
    /\ i' = 0
    /\ lines' = lines + 1
    /\ UNCHANGED lineRest

(* Anything else is ignored. *)
Ignore ==
    /\ GotChar
    /\ ~Erases(Taken) /\ ~Inserts(Taken) /\ ~Ends(Taken)
    /\ UNCHANGED <<lineRest, crtVars, lineVars>>

Kernel ==
    serial_intr \/ kbd_intr \/ CgetcReturn \/ Poll \/ Erase \/ Insert \/ Return \/ Ignore

Next ==
    \/ \E c \in SerialChars : SerialArrives(c)
    \/ \E k \in Keys : KeyDown(k) \/ KeyUp(k)
    \/ \E c \in UserChars : sys_cputs(c)
    \/ sys_cgetc \/ monitor
    \/ Kernel

(* A CPU in the kernel keeps running.  Nothing is assumed of the devices    *)
(* nor of when programs call.                                               *)
Spec == Init /\ [][Next]_vars /\ WF_vars(Kernel)

-----------------------------------------------------------------------------
(* Properties *)

Unread == [n \in 1..((cons.wpos - cons.rpos + CONSBUFSIZE) % CONSBUFSIZE) |->
              cons.buf[(cons.rpos + n - 1) % CONSBUFSIZE]]

(* Characters come out in the order they went in, none twice, whichever of  *)
(* the two callers takes them; and none is missing as long as CONSBUFSIZE   *)
(* of them were never waiting at once.  Even after that what waits is the   *)
(* newest (cons_intr(), cons_getc()).                                       *)
InputOrder ==
    /\ \A n \in DOMAIN Unread : /\ Unread[n].n = produced - Len(Unread) + n
                                /\ Unread[n].n > last
    /\ ~lost => Len(Unread) = produced - last

(* When every byte of the keyboard has been read, a flag of shift is set    *)
(* only if a key that stands for it is held, on either side, and no escape  *)
(* is left over (kbd_proc_data(): keys that differ only in the E0 byte).    *)
NoStuckModifier ==
    kbd = <<>> => /\ "E0ESC" \notin shift
                  /\ shift \ {"CAPSLOCK"} \subseteq Held

(* While a line is edited, the cells before the cursor show what readline() *)
(* has of it: echo, erasing across a row and scrolling keep pace with buf.  *)
EchoMatches ==
    caller = "readline" =>
        \A j \in 1..i : crt_pos - j \in Cell /\ crt_buf[crt_pos - j] = buf[i - j]

(* The machine is reset only if DEL went down while a Control and an Alt    *)
(* key were held, however late its bytes are read (kbd_proc_data()).        *)
ResetOnlyAsked == rebooted => asked

(* A line that has been ended is returned to the monitor, whatever its      *)
(* length, unless the ring overflows meanwhile (readline()).                *)
LineDelivered ==
    \A n \in {0, 1} :
        (/\ caller = "readline" /\ lines = n
         /\ \E m \in DOMAIN Unread : Unread[m].c \in {"NL", "CR"})
            ~> (lost \/ lines > n)

(***************************************************************************)
(* The ring keeps its bounds and the order of what came in, through        *)
(* overflow and two readers (cons_intr(), cons_getc(), readline()).        *)
(***************************************************************************)
InputSafe == TypeOK /\ InputOrder

(***************************************************************************)
(* What the keyboard driver believes of the keys is what was pressed:      *)
(* modifiers do not stick, and only a held Control and Alt make DEL reset  *)
(* the machine (kbd_proc_data()).                                          *)
(***************************************************************************)
KeysFollowed == NoStuckModifier /\ ResetOnlyAsked
=============================================================================
