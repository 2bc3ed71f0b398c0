--------------------------- MODULE ConsoleProofs ---------------------------
(***************************************************************************)
(* Proofs about the console (Console), for buffers, screens and keyboards  *)
(* of any size: modifiers do not stick and only a held Control and Alt     *)
(* make DEL reset the machine; the ring keeps its bounds and its order     *)
(* through overflow; and the screen shows the line that is edited.         *)
(***************************************************************************)
EXTENDS Console, SequenceTheorems, WellFoundedInduction, TLAPS

-----------------------------------------------------------------------------
(* The keyboard *)

Codes == {"2A", "36", "1D", "38", "3A", "1E", "1C", "0E", "53"}
ExtCodes == {"1D", "38", "53"}
ScanBytes == (Codes \X BOOLEAN) \cup {E0}
Modifiers == {"SHIFT", "CTL", "ALT"}

(* What a byte will do to a modifier when it is read. *)
Sets(b, F) == ~b[2] /\ F \in shiftcode(b[1], FALSE)
Clears(b, F) == b[2] /\ F \in shiftcode(b[1], FALSE)

(* The modifier F will be up when the first j - 1 bytes of q have been read *)
(* in a state with these flags.                                             *)
NoClear(q, F, from, j) == \A n \in from..(j - 1) : ~Clears(q[n], F)
On(flags, q, F, j) ==
    \/ F \in flags /\ NoClear(q, F, 1, j)
    \/ \E p \in 1..(j - 1) : Sets(q[p], F) /\ NoClear(q, F, p + 1, j)

KbdType == kbd \in Seq(ScanBytes) /\ shift \subseteq Flags /\ down \subseteq Keys
(* An escape comes before one of the codes that have one. *)
Escaped(q) ==
    \A n \in 1..Len(q) : q[n] = E0 => n + 1 \in 1..Len(q) /\ q[n + 1][1] \in ExtCodes
EscapeRead(flags, q) == "E0ESC" \in flags => Len(q) > 0 /\ q[1][1] \in ExtCodes
ModifiersHeld == \A F \in Modifiers : On(shift, kbd, F, Len(kbd) + 1) => F \in Held
ResetsAsked ==
    \A n \in 1..Len(kbd) :
        kbd[n] = <<"53", FALSE>> /\ On(shift, kbd, "CTL", n) /\ On(shift, kbd, "ALT", n) => asked

KeysInv ==
    /\ KbdType
    /\ Escaped(kbd) /\ EscapeRead(shift, kbd)
    /\ ModifiersHeld /\ ResetsAsked
    /\ rebooted => asked

LEMMA KeyFacts ==
    ASSUME NEW k \in Keys
    PROVE  /\ Code[k] \in Codes
           /\ k \in Extended => Code[k] \in ExtCodes
           /\ \A F \in Modifiers :
                 F \in shiftcode(Code[k], FALSE) <=> k \in DOMAIN Holds /\ Holds[k] = F
           /\ Code[k] = "53" <=> k = "del"
  <1>1. Code[k] \in Codes /\ (k \in Extended => Code[k] \in ExtCodes)
    BY KeysAssumption DEF Code, Codes, Extended, ExtCodes
  <1>2. Code[k] = "53" <=> k = "del"
    BY KeysAssumption DEF Code
  <1>3. /\ Code[k] = "1D" <=> k \in DOMAIN Holds /\ Holds[k] = "CTL"
        /\ Code[k] = "38" <=> k \in DOMAIN Holds /\ Holds[k] = "ALT"
        /\ Code[k] \in {"2A", "36"} <=> k \in DOMAIN Holds /\ Holds[k] = "SHIFT"
    BY KeysAssumption DEF Code, Holds
  <1>4. \A F \in Modifiers :
            F \in shiftcode(Code[k], FALSE) <=> k \in DOMAIN Holds /\ Holds[k] = F
    BY <1>3 DEF Modifiers, shiftcode
  <1> QED BY <1>1, <1>2, <1>4

LEMMA ScanByte ==
    ASSUME NEW b \in ScanBytes
    PROVE  /\ b[2] \in BOOLEAN
           /\ b = E0 <=> b[1] = "60"
           /\ b = E0 => b[2] /\ \A F \in Modifiers : F \notin shiftcode(b[1], FALSE)
           /\ b # E0 => b[1] \in Codes /\ b = <<b[1], b[2]>>
  <1>1. CASE b = E0
    <2>1. b[1] = "60" /\ b[2] = TRUE
      BY <1>1 DEF E0
    <2>2. shiftcode("60", FALSE) = {}
      BY DEF shiftcode
    <2> QED BY <1>1, <2>1, <2>2
  <1>2. CASE b # E0
    <2>1. b \in Codes \X BOOLEAN
      BY <1>2 DEF ScanBytes
    <2>2. b[1] \in Codes /\ b[2] \in BOOLEAN /\ b = <<b[1], b[2]>>
      BY <2>1
    <2> QED BY <1>2, <2>2 DEF Codes
  <1> QED BY <1>1, <1>2

LEMMA KeyByte ==
    ASSUME NEW c, NEW up \in BOOLEAN, NEW b, b = <<c, up>>, NEW F
    PROVE  /\ Sets(b, F) <=> ~up /\ F \in shiftcode(c, FALSE)
           /\ Clears(b, F) <=> up /\ F \in shiftcode(c, FALSE)
  <1>1. b[1] = c /\ b[2] = up
    OBVIOUS
  <1> QED BY <1>1 DEF Sets, Clears

(* What kbd_proc_data() makes of a byte. *)
LEMMA ByteRead ==
    ASSUME NEW flags, flags \subseteq Flags, NEW b \in ScanBytes,
           "E0ESC" \in flags => b[1] \in ExtCodes,
           NEW r, r = kbd_proc_data(flags, b)
    PROVE  /\ r.shift \subseteq Flags
           /\ \A F \in Modifiers :
                 F \in r.shift <=> Sets(b, F) \/ (F \in flags /\ ~Clears(b, F))
           /\ "E0ESC" \in r.shift <=> b = E0
           /\ r.c \in Chars \cup {NO}
           /\ r.c = "KEY_DEL" => b = <<"53", FALSE>>
  <1>1. CASE b = E0
    BY <1>1, ScanByte DEF kbd_proc_data, Sets, Clears, Flags, Modifiers, NO
  <1>2. CASE b # E0 /\ b[2]
    <2>1. r.shift = Released(flags, b[1]) /\ r.c = NO
      BY <1>2 DEF kbd_proc_data
    <2>2. \A F \in Modifiers :
              F \in shiftcode(b[1], "E0ESC" \in flags) <=> F \in shiftcode(b[1], FALSE)
      BY DEF shiftcode, ExtCodes, Modifiers
    <2> QED BY <1>2, <2>1, <2>2 DEF Released, Sets, Clears, Flags, Modifiers, NO
  <1>3. CASE b # E0 /\ ~b[2]
    <2> DEFINE ext == "E0ESC" \in flags
               held == (flags \ {"E0ESC"}) \cup shiftcode(b[1], ext)
               new == SymDiff(held, togglecode(b[1], ext))
    <2>1. r = [shift |-> new, c |-> Capitals(new, charcode(new, b[1], ext))]
      BY <1>3 DEF kbd_proc_data, Pressed
    <2>2. \A F \in Modifiers : F \in shiftcode(b[1], ext) <=> F \in shiftcode(b[1], FALSE)
      BY DEF shiftcode, ExtCodes, Modifiers
    <2>3. shiftcode(b[1], ext) \subseteq Modifiers /\ togglecode(b[1], ext) \subseteq {"CAPSLOCK"}
      BY DEF shiftcode, togglecode, Modifiers
    <2>5. /\ \A F \in Modifiers : F \in new <=> F \in flags \/ F \in shiftcode(b[1], FALSE)
          /\ "E0ESC" \notin new /\ new \subseteq Flags
      <3>1. PICK sc : sc = shiftcode(b[1], ext)
        OBVIOUS
      <3>2. PICK tg : tg = togglecode(b[1], ext)
        OBVIOUS
      <3>3. PICK sf : sf = shiftcode(b[1], FALSE)
        OBVIOUS
      <3>4. /\ \A F \in Modifiers : F \in sc <=> F \in sf
            /\ sc \subseteq Modifiers /\ tg \subseteq {"CAPSLOCK"}
        BY <2>2, <2>3, <3>1, <3>2, <3>3
      <3>5. new = (((flags \ {"E0ESC"}) \cup sc) \ tg) \cup (tg \ ((flags \ {"E0ESC"}) \cup sc))
        BY <3>1, <3>2 DEF SymDiff
      <3> HIDE DEF new
      <3>6. /\ \A F \in Modifiers : F \in new <=> F \in flags \/ F \in sf
            /\ "E0ESC" \notin new /\ new \subseteq Flags
        BY ONLY <3>4, <3>5, flags \subseteq Flags DEF Flags, Modifiers
      <3> QED BY <3>3, <3>6
    <2> HIDE DEF new
    <2>6. \E ch : ch = charcode(new, b[1], ext)
      OBVIOUS
    <2>7. PICK ch : ch = charcode(new, b[1], ext)
      BY <2>6
    <2>8. ch \in {"a", "A", "^A", "NL", "CR", "BS", "KEY_DEL", NO} /\ (ch = "KEY_DEL" => b[1] = "53")
      BY <2>7 DEF charcode, NO
    <2>9. /\ Capitals(new, ch) \in {"a", "A", "^A", "NL", "CR", "BS", "KEY_DEL", NO}
          /\ Capitals(new, ch) = "KEY_DEL" => ch = "KEY_DEL"
      BY <2>8 DEF Capitals, NO
    <2>10. r.shift = new /\ r.c = Capitals(new, ch)
      BY <2>1, <2>7
    <2>11. r.c = "KEY_DEL" => b = <<"53", FALSE>>
      BY <1>3, <2>8, <2>9, <2>10, ScanByte
    <2>12. r.c \in Chars \cup {NO}
      BY <2>9, <2>10 DEF Chars
    <2> QED BY <1>3, <2>5, <2>10, <2>11, <2>12 DEF Sets, Clears
  <1> QED BY <1>1, <1>2, <1>3

(* The first byte is read. *)
LEMMA OnRead ==
    ASSUME NEW q \in Seq(ScanBytes), Len(q) > 0, NEW flags, NEW new, NEW F,
           F \in new => Sets(q[1], F) \/ (F \in flags /\ ~Clears(q[1], F)),
           NEW n \in 1..Len(q), On(new, Tail(q), F, n)
    PROVE  On(flags, q, F, n + 1)
  <1>0. Len(q) \in Nat /\ n \in Nat /\ \A m \in 1..(n - 1) : Tail(q)[m] = q[m + 1]
    <2>1. q # <<>> /\ Len(q) \in Nat
      BY LenProperties
    <2>2. Len(Tail(q)) = Len(q) - 1 /\ \A m \in 1..Len(Tail(q)) : Tail(q)[m] = q[m + 1]
      BY <2>1, HeadTailProperties
    <2> QED BY <2>1, <2>2
  <1>1. CASE F \in new /\ NoClear(Tail(q), F, 1, n)
    <2>1. \A m \in 2..n : ~Clears(q[m], F)
      <3> SUFFICES ASSUME NEW m \in 2..n PROVE ~Clears(q[m], F)
        OBVIOUS
      <3>1. m - 1 \in 1..(n - 1) /\ (m - 1) + 1 = m
        BY <1>0
      <3> QED BY <1>0, <1>1, <3>1 DEF NoClear
    <2>2. CASE Sets(q[1], F)
      <3>1. 1 \in 1..((n + 1) - 1) /\ (n + 1) - 1 = n /\ 1 + 1 = 2
        BY <1>0
      <3>2. NoClear(q, F, 1 + 1, n + 1)
        BY <2>1, <3>1 DEF NoClear
      <3> QED BY <2>2, <3>1, <3>2 DEF On
    <2>3. CASE F \in flags /\ ~Clears(q[1], F)
      <3>1. NoClear(q, F, 1, n + 1)
        BY <1>0, <2>1, <2>3 DEF NoClear
      <3> QED BY <2>3, <3>1 DEF On
    <2> QED BY <1>1, <2>2, <2>3
  <1>2. CASE \E p \in 1..(n - 1) : Sets(Tail(q)[p], F) /\ NoClear(Tail(q), F, p + 1, n)
    <2>1. PICK p \in 1..(n - 1) : Sets(Tail(q)[p], F) /\ NoClear(Tail(q), F, p + 1, n)
      BY <1>2
    <2>2. PICK t \in 1..((n + 1) - 1) : t = p + 1
      BY <1>0
    <2>3. Sets(q[t], F)
      BY <1>0, <2>1, <2>2
    <2>4. NoClear(q, F, t + 1, n + 1)
      <3> SUFFICES ASSUME NEW m \in (t + 1)..((n + 1) - 1) PROVE ~Clears(q[m], F)
        BY DEF NoClear
      <3>1. m - 1 \in 1..(n - 1) /\ m - 1 \in (p + 1)..(n - 1) /\ (m - 1) + 1 = m
        BY <1>0, <2>2
      <3> QED BY <1>0, <2>1, <3>1 DEF NoClear
    <2> QED BY <2>3, <2>4 DEF On
  <1> QED BY <1>1, <1>2 DEF On

(* q2 is q and the bytes of a key after it. *)
Longer(q, q2) == Len(q) <= Len(q2) /\ \A m \in 1..Len(q) : q2[m] = q[m]

LEMMA OnPrefix ==
    ASSUME NEW q \in Seq(ScanBytes), NEW q2, Longer(q, q2), NEW flags, NEW F,
           NEW n \in 1..(Len(q) + 1), On(flags, q2, F, n)
    PROVE  On(flags, q, F, n)
  <1>1. Len(q) \in Nat /\ n \in Nat /\ \A m \in 1..(n - 1) : q2[m] = q[m]
    BY LenProperties DEF Longer
  <1>2. ASSUME NEW f \in Nat, f > 0, NoClear(q2, F, f, n)
        PROVE  NoClear(q, F, f, n)
    BY <1>1, <1>2 DEF NoClear
  <1>3. CASE F \in flags /\ NoClear(q2, F, 1, n)
    BY <1>2, <1>3 DEF On
  <1>4. CASE \E p \in 1..(n - 1) : Sets(q2[p], F) /\ NoClear(q2, F, p + 1, n)
    <2>1. PICK p \in 1..(n - 1) : Sets(q2[p], F) /\ NoClear(q2, F, p + 1, n)
      BY <1>4
    <2>2. p + 1 \in Nat /\ p + 1 > 0
      BY <1>1
    <2>3. NoClear(q, F, p + 1, n)
      BY <1>2, <2>1, <2>2
    <2> QED BY <1>1, <2>1, <2>3 DEF On
  <1> QED BY <1>3, <1>4 DEF On

LEMMA OnLonger ==
    ASSUME NEW q \in Seq(ScanBytes), NEW q2, Longer(q, q2), NEW flags, NEW F,
           NEW n \in Nat, n > Len(q),
           \A m \in (Len(q) + 1)..(n - 1) : ~Sets(q2[m], F),
           On(flags, q2, F, n)
    PROVE  On(flags, q, F, Len(q) + 1)
  <1>1. Len(q) \in Nat /\ \A m \in 1..Len(q) : q2[m] = q[m]
    BY LenProperties DEF Longer
  <1>2. PICK k \in Nat : k = Len(q) + 1
    BY <1>1
  <1>3. ASSUME NEW f \in Nat, f > 0, NoClear(q2, F, f, n)
        PROVE  NoClear(q, F, f, k)
    BY <1>1, <1>2, <1>3 DEF NoClear
  <1>4. CASE F \in flags /\ NoClear(q2, F, 1, n)
    BY <1>2, <1>3, <1>4 DEF On
  <1>5. CASE \E p \in 1..(n - 1) : Sets(q2[p], F) /\ NoClear(q2, F, p + 1, n)
    <2>1. PICK p \in 1..(n - 1) : Sets(q2[p], F) /\ NoClear(q2, F, p + 1, n)
      BY <1>5
    <2>2. p + 1 \in Nat /\ p + 1 > 0 /\ p \in 1..(k - 1)
      BY <1>1, <1>2, <2>1
    <2>3. NoClear(q, F, p + 1, k)
      BY <1>3, <2>1, <2>2
    <2>4. Sets(q[p], F)
      BY <1>1, <1>2, <2>1, <2>2
    <2>5. On(flags, q, F, k)
      BY <2>2, <2>3, <2>4 DEF On
    <2> QED BY <1>2, <2>5
  <1> QED BY <1>4, <1>5 DEF On

(* A release that has not been read yet is the last word. *)
LEMMA OffAfterRelease ==
    ASSUME NEW q, NEW n \in Nat, n > 0, NEW flags, NEW F, Clears(q[n], F)
    PROVE  ~On(flags, q, F, n + 1)
  <1>1. (n + 1) - 1 = n
    OBVIOUS
  <1>2. ASSUME NEW f \in 1..n PROVE ~NoClear(q, F, f, n + 1)
    BY <1>1 DEF NoClear
  <1>3. ASSUME NEW p \in 1..n PROVE ~(Sets(q[p], F) /\ NoClear(q, F, p + 1, n + 1))
    <2>1. CASE p = n
      BY <2>1 DEF Sets, Clears
    <2>2. CASE p # n
      BY <1>2, <2>2
    <2> QED BY <2>1, <2>2
  <1> QED BY <1>1, <1>2, <1>3 DEF On

(* The bytes of a key at the end of the queue. *)
LEMMA KeyBytes ==
    ASSUME NEW q \in Seq(ScanBytes), NEW k \in Keys, NEW up \in BOOLEAN,
           NEW q2, q2 = q \o Bytes(k, up)
    PROVE  /\ q2 \in Seq(ScanBytes) /\ Longer(q, q2)
           /\ Len(q2) \in Nat /\ Len(q) \in Nat
           /\ Len(q2) = IF k \in Extended THEN Len(q) + 2 ELSE Len(q) + 1
           /\ Len(q2) > Len(q)
           /\ q2[Len(q2)] = <<Code[k], up>>
           /\ k \in Extended => q2[Len(q) + 1] = E0
           /\ \A m \in (Len(q) + 1)..Len(q2) : m # Len(q2) => q2[m] = E0
  <1>1. <<Code[k], up>> \in ScanBytes /\ E0 \in ScanBytes
    BY KeyFacts DEF ScanBytes
  <1>2. Bytes(k, up) \in Seq(ScanBytes) /\ Len(q) \in Nat
    BY <1>1, LenProperties DEF Bytes
  <1>3. CASE k \in Extended
    <2>1. PICK b \in Seq(ScanBytes) : b = Bytes(k, up)
      BY <1>2
    <2>2. Len(b) = 2 /\ b[1] = E0 /\ b[2] = <<Code[k], up>>
      BY <1>3, <2>1 DEF Bytes
    <2>3. /\ q2 \in Seq(ScanBytes) /\ Len(q2) = Len(q) + 2
          /\ \A n \in 1..(Len(q) + 2) : q2[n] = IF n <= Len(q) THEN q[n] ELSE b[n - Len(q)]
      <3>1. q2 = q \o b
        BY <2>1
      <3>2. /\ q \o b \in Seq(ScanBytes) /\ Len(q \o b) = Len(q) + Len(b)
            /\ \A n \in 1..(Len(q) + Len(b)) :
                  (q \o b)[n] = IF n <= Len(q) THEN q[n] ELSE b[n - Len(q)]
        BY ONLY q \in Seq(ScanBytes), b \in Seq(ScanBytes), ConcatProperties
      <3> QED BY ONLY <2>2, <3>1, <3>2
    <2>4. (Len(q) + 1) - Len(q) = 1 /\ (Len(q) + 2) - Len(q) = 2
      BY <1>2
    <2> QED BY <1>2, <1>3, <2>2, <2>3, <2>4 DEF Longer
  <1>4. CASE k \notin Extended
    <2>1. PICK b \in Seq(ScanBytes) : b = Bytes(k, up)
      BY <1>2
    <2>2. Len(b) = 1 /\ b[1] = <<Code[k], up>>
      BY <1>4, <2>1 DEF Bytes
    <2>3. /\ q2 \in Seq(ScanBytes) /\ Len(q2) = Len(q) + 1
          /\ \A n \in 1..(Len(q) + 1) : q2[n] = IF n <= Len(q) THEN q[n] ELSE b[n - Len(q)]
      <3>1. q2 = q \o b
        BY <2>1
      <3>2. /\ q \o b \in Seq(ScanBytes) /\ Len(q \o b) = Len(q) + Len(b)
            /\ \A n \in 1..(Len(q) + Len(b)) :
                  (q \o b)[n] = IF n <= Len(q) THEN q[n] ELSE b[n - Len(q)]
        BY ONLY q \in Seq(ScanBytes), b \in Seq(ScanBytes), ConcatProperties
      <3> QED BY ONLY <2>2, <3>1, <3>2
    <2>4. (Len(q) + 1) - Len(q) = 1
      BY <1>2
    <2> QED BY <1>2, <1>4, <2>2, <2>3, <2>4 DEF Longer
  <1> QED BY <1>3, <1>4

LEMMA KeysInit == Init => KeysInv
  <1> SUFFICES ASSUME Init PROVE KeysInv
    OBVIOUS
  <1>1. kbd = <<>> /\ down = {} /\ shift = {} /\ rebooted = FALSE /\ Len(kbd) = 0
    BY DEF Init, kbd_init
  <1>2. \A F \in Modifiers : ~On(shift, kbd, F, Len(kbd) + 1)
    BY <1>1 DEF On
  <1> QED BY <1>1, <1>2 DEF KeysInv, KbdType, Escaped, EscapeRead, ModifiersHeld, ResetsAsked

(* A key goes down or up: its bytes come last. *)
LEMMA EscapedKey ==
    ASSUME NEW q \in Seq(ScanBytes), NEW k \in Keys, NEW up \in BOOLEAN,
           NEW q2, q2 = q \o Bytes(k, up), Escaped(q), NEW flags, EscapeRead(flags, q)
    PROVE  Escaped(q2) /\ EscapeRead(flags, q2)
  <1>1. /\ Len(q2) \in Nat /\ Len(q) \in Nat /\ Longer(q, q2)
        /\ Len(q2) = IF k \in Extended THEN Len(q) + 2 ELSE Len(q) + 1
        /\ q2[Len(q2)] = <<Code[k], up>>
        /\ k \in Extended => q2[Len(q) + 1] = E0
    BY KeyBytes
  <1>2. Code[k] \in Codes /\ (k \in Extended => Code[k] \in ExtCodes)
    BY KeyFacts
  <1>3. <<Code[k], up>> # E0
    BY <1>2 DEF Codes, E0
  <1>4. ASSUME NEW n \in 1..Len(q2), q2[n] = E0
        PROVE  n + 1 \in 1..Len(q2) /\ q2[n + 1][1] \in ExtCodes
    <2>1. CASE n \in 1..Len(q)
      <3>1. q[n] = E0
        BY <1>4, <1>1, <2>1 DEF Longer
      <3>2. n + 1 \in 1..Len(q) /\ q[n + 1][1] \in ExtCodes
        BY <2>1, <3>1 DEF Escaped
      <3>3. q2[n + 1] = q[n + 1]
        BY <1>1, <3>2 DEF Longer
      <3> QED BY <1>1, <3>2, <3>3
    <2>2. CASE n \notin 1..Len(q)
      <3>1. n # Len(q2)
        BY <1>1, <1>3, <1>4
      <3>2. k \in Extended /\ n + 1 = Len(q2)
        BY <1>1, <2>2, <3>1
      <3> QED BY <1>1, <1>2, <3>2
    <2> QED BY <2>1, <2>2
  <1>5. EscapeRead(flags, q2)
    BY <1>1 DEF EscapeRead, Longer
  <1> QED BY <1>4, <1>5 DEF Escaped

LEMMA KeysDown ==
    ASSUME KeysInv, NEW k \in Keys, KeyDown(k)
    PROVE  KeysInv'
  <1>0. /\ kbd \in Seq(ScanBytes) /\ shift \subseteq Flags /\ down \subseteq Keys
        /\ kbd' = kbd \o Bytes(k, FALSE) /\ shift' = shift /\ down' = down \cup {k}
        /\ asked' = (asked \/ (k = "del" /\ {"CTL", "ALT"} \subseteq Held))
        /\ rebooted' = rebooted /\ (rebooted => asked)
    BY DEF KeysInv, KbdType, KeyDown
  <1>1. PICK q2 : q2 = kbd \o Bytes(k, FALSE)
    OBVIOUS
  <1>2. /\ q2 \in Seq(ScanBytes) /\ Longer(kbd, q2)
        /\ Len(q2) \in Nat /\ Len(kbd) \in Nat
        /\ Len(q2) > Len(kbd) /\ q2[Len(q2)] = <<Code[k], FALSE>>
        /\ \A m \in (Len(kbd) + 1)..Len(q2) : m # Len(q2) => q2[m] = E0
    BY <1>0, <1>1, KeyBytes
  <1>3. Escaped(q2) /\ EscapeRead(shift, q2)
    BY <1>0, <1>1, EscapedKey DEF KeysInv
  <1>4. \A F \in Modifiers : F \in Held => F \in Held'
    BY <1>0 DEF Held
  <1>5. \A F \in Modifiers : ~Sets(E0, F)
    BY DEF Sets, E0
  <1>6. ASSUME NEW F \in Modifiers, On(shift, q2, F, Len(q2) + 1)
        PROVE  F \in Held'
    <2>1. CASE F \in shiftcode(Code[k], FALSE)
      <3>1. k \in DOMAIN Holds /\ Holds[k] = F
        BY <2>1, KeyFacts
      <3> QED BY <1>0, <3>1 DEF Held
    <2>2. CASE F \notin shiftcode(Code[k], FALSE)
      <3>1. ~Sets(q2[Len(q2)], F)
        BY <1>2, <2>2, KeyByte
      <3>2. \A m \in (Len(kbd) + 1)..((Len(q2) + 1) - 1) : ~Sets(q2[m], F)
        <4>1. (Len(q2) + 1) - 1 = Len(q2)
          BY <1>2
        <4> QED BY <1>2, <1>5, <3>1, <4>1
      <3>3. Len(q2) + 1 \in Nat /\ Len(q2) + 1 > Len(kbd)
        BY <1>2
      <3>4. On(shift, kbd, F, Len(kbd) + 1)
        BY <1>0, <1>2, <1>6, <3>2, <3>3, OnLonger
      <3> QED BY <1>4, <3>4 DEF KeysInv, ModifiersHeld
    <2> QED BY <2>1, <2>2
  <1>7. ASSUME NEW n \in 1..Len(q2), q2[n] = <<"53", FALSE>>,
               On(shift, q2, "CTL", n), On(shift, q2, "ALT", n)
        PROVE  asked'
    <2>1. CASE n <= Len(kbd)
      <3>1. n \in 1..Len(kbd) /\ n \in 1..(Len(kbd) + 1)
        BY <1>2, <2>1
      <3>2. kbd[n] = <<"53", FALSE>>
        BY <1>2, <1>7, <3>1 DEF Longer
      <3>3. On(shift, kbd, "CTL", n) /\ On(shift, kbd, "ALT", n)
        BY <1>0, <1>2, <1>7, <3>1, OnPrefix
      <3> QED BY <1>0, <3>1, <3>2, <3>3 DEF KeysInv, ResetsAsked
    <2>2. CASE n > Len(kbd)
      <3>1. <<"53", FALSE>> # E0
        BY DEF E0
      <3>2. n = Len(q2)
        <4>1. n \in (Len(kbd) + 1)..Len(q2)
          BY ONLY <1>2, <2>2, n \in 1..Len(q2)
        <4>2. q2[n] # E0
          BY <1>7, <3>1
        <4> QED BY <1>2, <4>1, <4>2
      <3>3. Code[k] = "53"
        BY <1>2, <1>7, <3>2
      <3>4. k = "del"
        BY <3>3, KeyFacts
      <3>5. ASSUME NEW F \in {"CTL", "ALT"} PROVE F \in Held
        <4>1. F \in Modifiers /\ On(shift, q2, F, n)
          BY <1>7 DEF Modifiers
        <4>2. \A m \in (Len(kbd) + 1)..(n - 1) : ~Sets(q2[m], F)
          BY <1>2, <1>5, <3>2, <4>1
        <4>3. n \in Nat /\ n > Len(kbd)
          BY <1>2, <2>2
        <4>4. On(shift, kbd, F, Len(kbd) + 1)
          BY <1>0, <1>2, <4>1, <4>2, <4>3, OnLonger
        <4> QED BY <4>1, <4>4 DEF KeysInv, ModifiersHeld
      <3> QED BY <1>0, <3>4, <3>5
    <2> QED BY <1>2, <2>1, <2>2
  <1>8. ModifiersHeld'
    BY <1>0, <1>1, <1>6 DEF ModifiersHeld
  <1>9. ResetsAsked'
    BY <1>0, <1>1, <1>7 DEF ResetsAsked
  <1>10. KbdType'
    BY <1>0, <1>1, <1>2 DEF KbdType
  <1>11. Escaped(kbd') /\ EscapeRead(shift', kbd')
    BY <1>0, <1>1, <1>3
  <1> QED BY <1>0, <1>8, <1>9, <1>10, <1>11 DEF KeysInv

LEMMA KeysUp ==
    ASSUME KeysInv, NEW k \in Keys, KeyUp(k)
    PROVE  KeysInv'
  <1>0. /\ kbd \in Seq(ScanBytes) /\ shift \subseteq Flags /\ down \subseteq Keys
        /\ kbd' = kbd \o Bytes(k, TRUE) /\ shift' = shift /\ down' = down \ {k}
        /\ asked' = asked /\ rebooted' = rebooted /\ (rebooted => asked)
    BY DEF KeysInv, KbdType, KeyUp
  <1>1. PICK q2 : q2 = kbd \o Bytes(k, TRUE)
    OBVIOUS
  <1>2. /\ q2 \in Seq(ScanBytes) /\ Longer(kbd, q2)
        /\ Len(q2) \in Nat /\ Len(kbd) \in Nat
        /\ Len(q2) > Len(kbd) /\ q2[Len(q2)] = <<Code[k], TRUE>>
        /\ \A m \in (Len(kbd) + 1)..Len(q2) : m # Len(q2) => q2[m] = E0
    BY <1>0, <1>1, KeyBytes
  <1>3. Escaped(q2) /\ EscapeRead(shift, q2)
    BY <1>0, <1>1, EscapedKey DEF KeysInv
  <1>5. \A F \in Modifiers : ~Sets(E0, F) /\ ~Sets(q2[Len(q2)], F)
    BY <1>2 DEF Sets, E0
  <1>6. ASSUME NEW F \in Modifiers, On(shift, q2, F, Len(q2) + 1)
        PROVE  F \in Held'
    <2>1. CASE F \in shiftcode(Code[k], FALSE)
      <3>1. Clears(q2[Len(q2)], F) /\ Len(q2) > 0
        <4>1. Clears(q2[Len(q2)], F)
          BY <1>2, <2>1, KeyByte
        <4> QED BY <1>2, <4>1
      <3> QED BY <1>2, <1>6, <3>1, OffAfterRelease
    <2>2. CASE F \notin shiftcode(Code[k], FALSE)
      <3>2. \A m \in (Len(kbd) + 1)..((Len(q2) + 1) - 1) : ~Sets(q2[m], F)
        <4>1. (Len(q2) + 1) - 1 = Len(q2)
          BY <1>2
        <4> QED BY <1>2, <1>5, <4>1
      <3>3. Len(q2) + 1 \in Nat /\ Len(q2) + 1 > Len(kbd)
        BY <1>2
      <3>4. On(shift, kbd, F, Len(kbd) + 1)
        BY <1>0, <1>2, <1>6, <3>2, <3>3, OnLonger
      <3>5. F \in Held
        BY <3>4 DEF KeysInv, ModifiersHeld
      <3>6. PICK h \in down \cap DOMAIN Holds : F = Holds[h]
        BY <3>5 DEF Held
      <3>7. h # k
        BY <2>2, <3>6, KeyFacts
      <3> QED BY <1>0, <3>6, <3>7 DEF Held
    <2> QED BY <2>1, <2>2
  <1>7. ASSUME NEW n \in 1..Len(q2), q2[n] = <<"53", FALSE>>,
               On(shift, q2, "CTL", n), On(shift, q2, "ALT", n)
        PROVE  asked
    <2>1. <<"53", FALSE>> # E0 /\ <<"53", FALSE>> # <<Code[k], TRUE>>
      BY DEF E0
    <2>2. n \in 1..Len(kbd) /\ n \in 1..(Len(kbd) + 1)
      <3>1. q2[n] # E0 /\ n # Len(q2)
        BY <1>2, <1>7, <2>1
      <3>2. n \notin (Len(kbd) + 1)..Len(q2)
        BY <1>2, <3>1
      <3> QED BY <1>2, <3>2
    <2>3. kbd[n] = <<"53", FALSE>>
      BY <1>2, <1>7, <2>2 DEF Longer
    <2>4. On(shift, kbd, "CTL", n) /\ On(shift, kbd, "ALT", n)
      BY <1>0, <1>2, <1>7, <2>2, OnPrefix
    <2> QED BY <2>2, <2>3, <2>4 DEF KeysInv, ResetsAsked
  <1>8. ModifiersHeld'
    BY <1>0, <1>1, <1>6 DEF ModifiersHeld
  <1>9. ResetsAsked'
    BY <1>0, <1>1, <1>7 DEF ResetsAsked
  <1>10. KbdType'
    BY <1>0, <1>1, <1>2 DEF KbdType
  <1>11. Escaped(kbd') /\ EscapeRead(shift', kbd')
    BY <1>0, <1>1, <1>3
  <1> QED BY <1>0, <1>8, <1>9, <1>10, <1>11 DEF KeysInv

LEMMA KeysRead ==
    ASSUME KeysInv, kbd_intr
    PROVE  KeysInv'
  <1>0. /\ kbd \in Seq(ScanBytes) /\ shift \subseteq Flags /\ down \subseteq Keys
        /\ down' = down /\ asked' = asked /\ (rebooted => asked)
    BY DEF KeysInv, KbdType, kbd_intr
  <1>1. CASE kbd = <<>>
    <2>1. kbd' = kbd /\ shift' = shift /\ rebooted' = rebooted
      BY <1>1 DEF kbd_intr
    <2> QED BY <1>0, <2>1 DEF KeysInv, KbdType, ModifiersHeld, ResetsAsked, Held
  <1>2. CASE kbd # <<>>
    <2>1. PICK b : b = Head(kbd)
      OBVIOUS
    <2>2. PICK r : r = kbd_proc_data(shift, b)
      OBVIOUS
    <2>3. kbd' = Tail(kbd) /\ shift' = r.shift /\ rebooted' = (rebooted \/ AsksReboot(r))
      BY <1>2, <2>1, <2>2 DEF kbd_intr
    <2>4. PICK q : q = Tail(kbd)
      OBVIOUS
    <2>5. /\ b \in ScanBytes /\ b = kbd[1] /\ Len(kbd) > 0 /\ Len(kbd) \in Nat
          /\ q \in Seq(ScanBytes) /\ Len(q) = Len(kbd) - 1
          /\ \A n \in 1..Len(q) : q[n] = kbd[n + 1]
      BY <1>0, <1>2, <2>1, <2>4, HeadTailProperties, LenProperties, EmptySeq
    <2>6. "E0ESC" \in shift => b[1] \in ExtCodes
      BY <2>5 DEF KeysInv, EscapeRead
    <2>7. /\ r.shift \subseteq Flags
          /\ \A F \in Modifiers : F \in r.shift <=> Sets(b, F) \/ (F \in shift /\ ~Clears(b, F))
          /\ "E0ESC" \in r.shift <=> b = E0
          /\ r.c = "KEY_DEL" => b = <<"53", FALSE>>
      <3>1. shift \subseteq Flags /\ b \in ScanBytes
        BY <1>0, <2>5
      <3> QED BY ONLY <2>2, <2>6, <3>1, ByteRead
    <2>8. Escaped(q)
      <3> SUFFICES ASSUME NEW n \in 1..Len(q), q[n] = E0
                   PROVE  n + 1 \in 1..Len(q) /\ q[n + 1][1] \in ExtCodes
        BY DEF Escaped
      <3>1. PICK m \in 1..Len(kbd) : m = n + 1
        BY <2>5
      <3>2. kbd[m] = E0
        BY <2>5, <3>1
      <3>3. m + 1 \in 1..Len(kbd) /\ kbd[m + 1][1] \in ExtCodes
        BY <3>2 DEF KeysInv, Escaped
      <3>4. n + 1 \in 1..Len(q)
        BY <2>5, <3>1, <3>3
      <3> QED BY <2>5, <3>1, <3>3, <3>4
    <2>9. EscapeRead(r.shift, q)
      <3> SUFFICES ASSUME b = E0 PROVE Len(q) > 0 /\ q[1][1] \in ExtCodes
        BY <2>7 DEF EscapeRead
      <3>1. 1 \in 1..Len(kbd) /\ kbd[1] = E0
        BY <2>5
      <3>2. 1 + 1 \in 1..Len(kbd) /\ kbd[1 + 1][1] \in ExtCodes
        BY <3>1 DEF KeysInv, Escaped
      <3>3. 1 \in 1..Len(q) /\ Len(q) > 0
        BY <2>5, <3>2
      <3> QED BY <2>5, <3>2, <3>3
    <2>10. ASSUME NEW F \in Modifiers, NEW n \in 1..Len(kbd), On(r.shift, q, F, n)
           PROVE  On(shift, kbd, F, n + 1)
      <3>1. F \in r.shift => Sets(kbd[1], F) \/ (F \in shift /\ ~Clears(kbd[1], F))
        BY <2>5, <2>7
      <3> QED BY <1>0, <2>4, <2>5, <2>10, <3>1, OnRead
    <2>11. ASSUME NEW F \in Modifiers, On(r.shift, q, F, Len(q) + 1)
           PROVE  F \in Held
      <3>1. Len(q) + 1 = Len(kbd) /\ Len(kbd) \in 1..Len(kbd)
        BY <2>5
      <3>2. On(shift, kbd, F, Len(kbd) + 1)
        BY <2>10, <2>11, <3>1
      <3> QED BY <3>2 DEF KeysInv, ModifiersHeld
    <2>12. ASSUME NEW n \in 1..Len(q), q[n] = <<"53", FALSE>>,
                  On(r.shift, q, "CTL", n), On(r.shift, q, "ALT", n)
           PROVE  asked
      <3>1. PICK m \in 1..Len(kbd) : m = n + 1
        BY <2>5
      <3>2. n \in 1..Len(kbd) /\ "CTL" \in Modifiers /\ "ALT" \in Modifiers
        BY <2>5 DEF Modifiers
      <3>3. On(shift, kbd, "CTL", m) /\ On(shift, kbd, "ALT", m)
        BY <2>10, <2>12, <3>1, <3>2
      <3>4. kbd[m] = <<"53", FALSE>>
        BY <2>5, <2>12, <3>1
      <3> QED BY <3>3, <3>4 DEF KeysInv, ResetsAsked
    <2>13. AsksReboot(r) => asked
      <3> SUFFICES ASSUME "CTL" \in r.shift, "ALT" \in r.shift, r.c = "KEY_DEL" PROVE asked
        BY DEF AsksReboot
      <3>1. b = <<"53", FALSE>>
        BY <2>7
      <3>2. "CTL" \in Modifiers /\ "ALT" \in Modifiers
        BY DEF Modifiers
      <3>3. ~("CTL" \in shiftcode("53", FALSE)) /\ ~("ALT" \in shiftcode("53", FALSE))
        BY DEF shiftcode
      <3>4. ~Sets(b, "CTL") /\ ~Sets(b, "ALT")
        BY <3>1, <3>3, KeyByte
      <3>5. "CTL" \in shift /\ "ALT" \in shift
        BY <2>7, <3>2, <3>4
      <3>6. On(shift, kbd, "CTL", 1) /\ On(shift, kbd, "ALT", 1)
        BY <3>5 DEF On, NoClear
      <3>7. 1 \in 1..Len(kbd) /\ kbd[1] = <<"53", FALSE>>
        BY <2>5, <3>1
      <3> QED BY <3>6, <3>7 DEF KeysInv, ResetsAsked
    <2>14. ModifiersHeld'
      BY <1>0, <2>3, <2>4, <2>11 DEF ModifiersHeld, Held
    <2>15. ResetsAsked'
      BY <1>0, <2>3, <2>4, <2>12 DEF ResetsAsked
    <2>16. KbdType'
      BY <1>0, <2>3, <2>4, <2>5, <2>7 DEF KbdType
    <2>17. Escaped(kbd') /\ EscapeRead(shift', kbd')
      BY <2>3, <2>4, <2>8, <2>9
    <2>18. rebooted' => asked'
      BY <1>0, <2>3, <2>13
    <2> QED BY <2>14, <2>15, <2>16, <2>17, <2>18 DEF KeysInv
  <1> QED BY <1>1, <1>2

(* Whatever else happens, the keyboard is left alone. *)
keyVars == <<kbd, down, asked, shift, rebooted>>

LEMMA KeysSame == ASSUME KeysInv, UNCHANGED keyVars PROVE KeysInv'
  BY DEF KeysInv, keyVars, KbdType, ModifiersHeld, ResetsAsked, Held

LEMMA KeysNext ==
    ASSUME KeysInv, [Next]_vars
    PROVE  KeysInv'
  <1>1. ASSUME NEW c \in SerialChars, SerialArrives(c) PROVE UNCHANGED keyVars
    BY <1>1 DEF SerialArrives, keyVars
  <1>2. ASSUME NEW c \in UserChars, sys_cputs(c) PROVE UNCHANGED keyVars
    BY <1>2 DEF sys_cputs, keyVars, devVars
  <1>3. CASE sys_cgetc \/ monitor
    BY <1>3, KeysSame DEF sys_cgetc, monitor, keyVars, devVars
  <1>4. CASE serial_intr \/ CgetcReturn \/ Poll
    BY <1>4, KeysSame DEF serial_intr, CgetcReturn, Poll, keyVars, devVars
  <1>5. CASE Erase \/ Insert \/ Return \/ Ignore
    BY <1>5, KeysSame DEF Erase, Insert, Return, Ignore, keyVars, devVars, lineRest
  <1>6. CASE UNCHANGED vars
    BY <1>6, KeysSame DEF vars, keyVars, devVars
  <1> QED BY <1>1, <1>2, <1>3, <1>4, <1>5, <1>6, KeysSame, KeysDown, KeysUp, KeysRead
          DEF Next, Kernel

(* What the flags of kbd_proc_data() will be once the bytes that wait have  *)
(* been read is what is held, and an E0 byte never waits on its own.        *)
THEOREM KeyboardInvariant == Spec => []KeysInv
  <1>1. KeysInv /\ [Next]_vars => KeysInv'
    BY KeysNext
  <1> QED BY <1>1, KeysInit, PTL DEF Spec

(* Modifiers do not stick, whichever of two keys was released and however   *)
(* late its bytes are read; DEL resets the machine only if Control and Alt  *)
(* were held when it went down (kbd_proc_data()).                           *)
THEOREM KeyboardFollowed == Spec => []KeysFollowed
  <1>1. KeysInv => KeysFollowed
    <2> SUFFICES ASSUME KeysInv PROVE KeysFollowed
      OBVIOUS
    <2>1. ASSUME kbd = <<>>
          PROVE  "E0ESC" \notin shift /\ shift \ {"CAPSLOCK"} \subseteq Held
      <3>1. Len(kbd) = 0
        BY <2>1
      <3>2. "E0ESC" \notin shift
        BY <3>1 DEF KeysInv, EscapeRead
      <3>3. ASSUME NEW F \in shift, F # "CAPSLOCK" PROVE F \in Held
        <4>1. F \in Modifiers
          BY <3>2, <3>3 DEF KeysInv, KbdType, Flags, Modifiers
        <4>2. On(shift, kbd, F, Len(kbd) + 1)
          BY <3>1, <3>3 DEF On, NoClear
        <4> QED BY <4>1, <4>2 DEF KeysInv, ModifiersHeld
      <3> QED BY <3>2, <3>3
    <2> QED BY <2>1 DEF KeysFollowed, NoStuckModifier, ResetOnlyAsked, KeysInv
  <1> QED BY <1>1, KeyboardInvariant, PTL

-----------------------------------------------------------------------------
(* The ring *)

Slots == 0..(CONSBUFSIZE - 1)
Entries == [c : Chars \cup {NO}, n : Nat]
Rings == [buf : [Slots -> Entries], rpos : Slots, wpos : Slots]

(* How many characters wait between the two positions, the slot of the n-th *)
(* of them and its number.                                                  *)
Waiting(r, w) == IF r <= w THEN w - r ELSE (w - r) + CONSBUFSIZE
Slot(r, n) == IF (r + n) - 1 < CONSBUFSIZE THEN (r + n) - 1 ELSE ((r + n) - 1) - CONSBUFSIZE
Number(b, x) == b[x].n

Ordered(ring, prod, taken, over) ==
    /\ \A n \in 1..Waiting(ring.rpos, ring.wpos) :
          /\ Number(ring.buf, Slot(ring.rpos, n)) = (prod - Waiting(ring.rpos, ring.wpos)) + n
          /\ (prod - Waiting(ring.rpos, ring.wpos)) + n > taken
    /\ ~over => Waiting(ring.rpos, ring.wpos) = prod - taken

RingInv ==
    /\ cons \in Rings
    /\ produced \in Nat /\ last \in 0..produced /\ lost \in BOOLEAN
    /\ Ordered(cons, produced, last, lost)

LEMMA RingInit == Init => RingInv
  <1> SUFFICES ASSUME Init PROVE RingInv
    OBVIOUS
  <1>1. CONSBUFSIZE \in Nat \ {0} /\ 0 \in Slots
    BY ConsoleAssumption DEF Slots
  <1>2. cons = [buf |-> [n \in Slots |-> [c |-> NO, n |-> 0]], rpos |-> 0, wpos |-> 0]
    BY DEF Init, Slots
  <1>3. [n \in Slots |-> [c |-> NO, n |-> 0]] \in [Slots -> Entries]
    BY DEF Entries
  <1>4. cons \in Rings
    BY <1>1, <1>2, <1>3 DEF Rings
  <1>5. cons.rpos = 0 /\ cons.wpos = 0 /\ Waiting(0, 0) = 0
    BY <1>2 DEF Waiting
  <1>6. produced = 0 /\ last = 0 /\ lost = FALSE
    BY DEF Init
  <1>7. Waiting(cons.rpos, cons.wpos) = 0
    BY <1>5
  <1>8. Ordered(cons, produced, last, lost)
    BY <1>6, <1>7 DEF Ordered
  <1>9. produced \in Nat /\ last \in 0..produced
    BY <1>6
  <1>10. lost \in BOOLEAN
    BY <1>6
  <1> QED BY <1>4, <1>8, <1>9, <1>10 DEF RingInv

(* cons_intr() *)
LEMMA RingPut ==
    ASSUME RingInv, NEW c \in Chars \cup {NO}, cons_intr(c)
    PROVE  RingInv'
  <1>1. CASE c = NO
    BY <1>1 DEF cons_intr, ringHistory, RingInv
  <1>2. CASE c # NO
    <2>0. CONSBUFSIZE \in Nat \ {0} /\ produced \in Nat /\ last \in 0..produced
      BY ConsoleAssumption DEF RingInv
    <2>1. PICK r \in Slots, w \in Slots, b \in [Slots -> Entries] :
             cons.rpos = r /\ cons.wpos = w /\ cons.buf = b
      BY DEF RingInv, Rings
    <2>2. PICK w2 \in Slots : w2 = Advance(w) /\ w2 = IF w + 1 = CONSBUFSIZE THEN 0 ELSE w + 1
      BY <2>0 DEF Advance, Slots
    <2>3. PICK e \in Entries : e = [c |-> c, n |-> produced + 1] /\ e.n = produced + 1
      <3>1. produced + 1 \in Nat
        BY <2>0
      <3>2. [c |-> c, n |-> produced + 1] \in Entries
        BY <3>1 DEF Entries
      <3> QED BY <3>2
    <2>4. PICK b2 \in [Slots -> Entries] : b2 = [b EXCEPT ![w] = e]
      OBVIOUS
    <2>5. /\ cons' = [cons EXCEPT !.buf[cons.wpos] = e, !.wpos = w2]
          /\ produced' = produced + 1 /\ last' = last
          /\ lost' = (lost \/ w2 = r)
      BY <1>2, <2>1, <2>2, <2>3 DEF cons_intr
    <2>6. cons' \in Rings /\ cons'.rpos = r /\ cons'.wpos = w2 /\ cons'.buf = b2
      BY <2>1, <2>4, <2>5 DEF RingInv, Rings
    <2>7. r \in Nat /\ w \in Nat /\ r < CONSBUFSIZE /\ w < CONSBUFSIZE
      BY <2>0 DEF Slots
    <2>8. PICK k \in Nat : k = Waiting(r, w)
      BY <2>0, <2>7 DEF Waiting
    <2>9. /\ \A n \in 1..k : Number(b, Slot(r, n)) = (produced - k) + n /\ (produced - k) + n > last
          /\ ~lost => k = produced - last
      BY <2>1, <2>8 DEF RingInv, Ordered
    <2>10. CASE w2 = r
      <3>1. Waiting(r, w2) = 0
        BY <2>7, <2>10 DEF Waiting
      <3>2. Ordered(cons', produced', last', lost')
        <4>1. lost'
          BY <2>5, <2>10
        <4>2. Waiting(cons'.rpos, cons'.wpos) = 0
          BY <2>6, <3>1
        <4> QED BY <4>1, <4>2 DEF Ordered
      <3> QED BY <2>0, <2>5, <2>6, <3>2 DEF RingInv
    <2>11. CASE w2 # r
      <3>1. Waiting(r, w2) = k + 1 /\ k < CONSBUFSIZE
        BY <2>0, <2>2, <2>7, <2>8, <2>11 DEF Waiting
      <3>2. Slot(r, k + 1) = w
        BY <2>0, <2>7, <2>8 DEF Waiting, Slot
      <3>3. Number(b2, w) = produced + 1
        BY <2>3, <2>4 DEF Number
      <3>4. ASSUME NEW n \in 1..k PROVE Number(b2, Slot(r, n)) = Number(b, Slot(r, n))
        <4>1. Slot(r, n) \in Slots /\ Slot(r, n) # w
          BY <2>0, <2>7, <2>8, <3>1 DEF Waiting, Slot, Slots
        <4> QED BY <2>4, <4>1 DEF Number
      <3>5. ASSUME NEW n \in 1..(k + 1)
            PROVE  /\ Number(b2, Slot(r, n)) = ((produced + 1) - (k + 1)) + n
                   /\ ((produced + 1) - (k + 1)) + n > last
        <4>1. CASE n = k + 1
          BY <2>0, <3>2, <3>3, <4>1
        <4>2. CASE n # k + 1
          <5>1. n \in 1..k
            BY <4>2
          <5>2. Number(b2, Slot(r, n)) = (produced - k) + n /\ (produced - k) + n > last
            BY <2>9, <3>4, <5>1
          <5> QED BY <2>0, <5>2
        <4> QED BY <4>1, <4>2
      <3>6. ~lost' => k + 1 = (produced + 1) - last
        <4>1. ~lost' => ~lost
          BY <2>5
        <4> QED BY <2>0, <2>9, <4>1
      <3>7. Ordered(cons', produced', last', lost')
        BY <2>5, <2>6, <3>1, <3>5, <3>6 DEF Ordered
      <3> QED BY <2>0, <2>5, <2>6, <3>7 DEF RingInv
    <2> QED BY <2>10, <2>11
  <1> QED BY <1>1, <1>2

(* The end of cons_getc() *)
LEMMA RingTake ==
    ASSUME RingInv, Take
    PROVE  RingInv'
  <1>1. CASE Empty
    BY <1>1 DEF Take, ringHistory, RingInv
  <1>2. CASE ~Empty
    <2>0. CONSBUFSIZE \in Nat \ {0} /\ produced \in Nat /\ last \in 0..produced
      BY ConsoleAssumption DEF RingInv
    <2>1. PICK r \in Slots, w \in Slots, b \in [Slots -> Entries] :
             cons.rpos = r /\ cons.wpos = w /\ cons.buf = b
      BY DEF RingInv, Rings
    <2>2. PICK r2 \in Slots : r2 = Advance(r) /\ r2 = IF r + 1 = CONSBUFSIZE THEN 0 ELSE r + 1
      BY <2>0 DEF Advance, Slots
    <2>3. /\ cons' = [cons EXCEPT !.rpos = r2] /\ last' = Number(b, r)
          /\ produced' = produced /\ lost' = lost
      BY <1>2, <2>1, <2>2 DEF Take, Number
    <2>4. cons' \in Rings /\ cons'.rpos = r2 /\ cons'.wpos = w /\ cons'.buf = b
      BY <2>1, <2>3 DEF RingInv, Rings
    <2>5. r \in Nat /\ w \in Nat /\ r < CONSBUFSIZE /\ w < CONSBUFSIZE /\ r # w
      BY <1>2, <2>0, <2>1 DEF Slots, Empty
    <2>6. PICK k \in Nat : k = Waiting(r, w) /\ k > 0
      BY <2>0, <2>5 DEF Waiting
    <2>7. /\ \A n \in 1..k : Number(b, Slot(r, n)) = (produced - k) + n /\ (produced - k) + n > last
          /\ ~lost => k = produced - last
      BY <2>1, <2>6 DEF RingInv, Ordered
    <2>8. Waiting(r2, w) = k - 1 /\ k < CONSBUFSIZE
      BY <2>0, <2>2, <2>5, <2>6 DEF Waiting
    <2>9. Slot(r, 1) = r
      BY <2>0, <2>5 DEF Slot
    <2>10. last' = (produced - k) + 1 /\ (produced - k) + 1 > last
      BY <2>3, <2>6, <2>7, <2>9
    <2>11. ASSUME NEW n \in 1..(k - 1)
           PROVE  /\ Number(b, Slot(r2, n)) = (produced - (k - 1)) + n
                  /\ (produced - (k - 1)) + n > last'
      <3>1. n + 1 \in 1..k
        BY <2>6
      <3>2. Slot(r2, n) = Slot(r, n + 1)
        BY <2>0, <2>2, <2>5, <2>8, <3>1 DEF Slot
      <3>3. Number(b, Slot(r, n + 1)) = (produced - k) + (n + 1)
        BY <2>7, <3>1
      <3> QED BY <2>0, <2>6, <2>10, <3>2, <3>3
    <2>12. ~lost' => k - 1 = produced' - last'
      BY <2>0, <2>3, <2>6, <2>7, <2>10
    <2>13. Ordered(cons', produced', last', lost')
      BY <2>3, <2>4, <2>8, <2>11, <2>12 DEF Ordered
    <2>14. last' \in 0..produced'
      BY <2>0, <2>3, <2>6, <2>10
    <2> QED BY <2>0, <2>3, <2>4, <2>13, <2>14 DEF RingInv
  <1> QED BY <1>1, <1>2

(* What the inductive form says of Unread. *)
LEMMA Remainder ==
    ASSUME NEW m \in Nat \ {0}, NEW x \in Nat, x < m + m
    PROVE  x % m = IF x < m THEN x ELSE x - m
  OBVIOUS

LEMMA RingOrdered == RingInv => InputOrder
  <1> SUFFICES ASSUME RingInv PROVE InputOrder
    OBVIOUS
  <1>0. CONSBUFSIZE \in Nat \ {0} /\ produced \in Nat /\ last \in 0..produced
    BY ConsoleAssumption DEF RingInv
  <1>1. PICK r \in Slots, w \in Slots, b \in [Slots -> Entries] :
           cons.rpos = r /\ cons.wpos = w /\ cons.buf = b
    BY DEF RingInv, Rings
  <1>2. r \in Nat /\ w \in Nat /\ r < CONSBUFSIZE /\ w < CONSBUFSIZE
    BY <1>0 DEF Slots
  <1>3. PICK k \in Nat : k = Waiting(r, w) /\ k < CONSBUFSIZE
    BY <1>0, <1>2 DEF Waiting
  <1>4. (w - r + CONSBUFSIZE) % CONSBUFSIZE = k
    <2>1. w - r + CONSBUFSIZE \in Nat /\ w - r + CONSBUFSIZE < CONSBUFSIZE + CONSBUFSIZE
      BY <1>0, <1>2
    <2>2. (w - r + CONSBUFSIZE) % CONSBUFSIZE =
             IF w - r + CONSBUFSIZE < CONSBUFSIZE THEN w - r + CONSBUFSIZE
             ELSE (w - r + CONSBUFSIZE) - CONSBUFSIZE
      BY <1>0, <2>1, Remainder
    <2> QED BY <1>0, <1>2, <1>3, <2>2 DEF Waiting
  <1>5. ASSUME NEW n \in 1..k PROVE (r + n - 1) % CONSBUFSIZE = Slot(r, n)
    <2>1. r + n - 1 \in Nat /\ r + n - 1 < CONSBUFSIZE + CONSBUFSIZE
      BY <1>0, <1>2, <1>3
    <2>2. (r + n - 1) % CONSBUFSIZE =
             IF r + n - 1 < CONSBUFSIZE THEN r + n - 1 ELSE (r + n - 1) - CONSBUFSIZE
      BY <1>0, <2>1, Remainder
    <2> QED BY <1>0, <1>2, <2>2 DEF Slot
  <1>6. Unread = [n \in 1..k |-> b[(r + n - 1) % CONSBUFSIZE]]
    BY <1>1, <1>4 DEF Unread
  <1>7. PICK u : u = Unread
    OBVIOUS
  <1>8. DOMAIN u = 1..k /\ Len(u) = k
    BY <1>6, <1>7
  <1>9. \A n \in 1..k : u[n].n = Number(b, Slot(r, n))
    BY <1>5, <1>6, <1>7 DEF Number
  <1>10. /\ \A n \in 1..k : Number(b, Slot(r, n)) = (produced - k) + n /\ (produced - k) + n > last
         /\ ~lost => k = produced - last
    BY <1>1, <1>3 DEF RingInv, Ordered
  <1> QED BY <1>7, <1>8, <1>9, <1>10 DEF InputOrder

-----------------------------------------------------------------------------
(* The screen *)

Screens == [buf : [Cell -> Chars], pos : Cell]

LEMMA Sizes ==
    /\ CRT_COLS \in Nat /\ CRT_COLS > 0 /\ CRT_SIZE \in Nat /\ CRT_SIZE > CRT_COLS
    /\ BUFLEN \in Nat /\ BUFLEN > 0 /\ BUFLEN - 1 <= CRT_SIZE - CRT_COLS
  BY ConsoleAssumption

LEMMA Known == " " \in Chars /\ "BS" \in Chars /\ "NL" \in Chars
  BY DEF Chars

LEMMA IsScreen ==
    ASSUME NEW b \in [Cell -> Chars], NEW p \in Cell, NEW s, s = [buf |-> b, pos |-> p]
    PROVE  s \in Screens /\ s.buf = b /\ s.pos = p
  BY DEF Screens

(* The cursor has left the screen by a row at most. *)
LEMMA ScrollScreen ==
    ASSUME NEW b \in [Cell -> Chars], NEW p \in Nat, p < CRT_SIZE + CRT_COLS,
           NEW s, s = Scroll([buf |-> b, pos |-> p])
    PROVE  /\ s \in Screens
           /\ p < CRT_SIZE => s.buf = b /\ s.pos = p
           /\ p >= CRT_SIZE =>
                 /\ s.pos = p - CRT_COLS
                 /\ \A n \in Cell : n < CRT_SIZE - CRT_COLS => s.buf[n] = b[n + CRT_COLS]
  <1>0. PICK t : t = [buf |-> b, pos |-> p]
    OBVIOUS
  <1>1. t.buf = b /\ t.pos = p /\ s = Scroll(t)
    BY <1>0
  <1>2. CASE p < CRT_SIZE
    <2>1. s = t
      BY <1>1, <1>2 DEF Scroll
    <2>2. p \in Cell
      BY <1>2, Sizes DEF Cell
    <2>3. s \in Screens /\ s.buf = b /\ s.pos = p
      BY <1>0, <2>1, <2>2, IsScreen
    <2> QED BY <1>2, <2>3, Sizes
  <1>3. CASE p >= CRT_SIZE
    <2>1. PICK f : f = [n \in Cell |-> IF n < CRT_SIZE - CRT_COLS THEN b[n + CRT_COLS] ELSE " "]
      OBVIOUS
    <2>2. ~(p < CRT_SIZE)
      BY <1>3, Sizes
    <2>3. s = [buf |-> f, pos |-> p - CRT_COLS]
      BY <1>1, <2>1, <2>2 DEF Scroll
    <2>4. \A n \in Cell : n < CRT_SIZE - CRT_COLS => n + CRT_COLS \in Cell
      BY Sizes DEF Cell
    <2>5. f \in [Cell -> Chars]
      BY <2>1, <2>4, Known
    <2>6. p - CRT_COLS \in Cell
      BY <1>3, Sizes DEF Cell
    <2>7. s \in Screens /\ s.buf = f /\ s.pos = p - CRT_COLS
      BY <2>3, <2>5, <2>6, IsScreen
    <2>8. \A n \in Cell : n < CRT_SIZE - CRT_COLS => f[n] = b[n + CRT_COLS]
      BY <2>1
    <2> QED BY <2>2, <2>7, <2>8
  <1> QED BY <1>2, <1>3, Sizes

(* A character in the cell under the cursor. *)
Plain(c) == c \notin {"BS", "NL", "CR"}

LEMMA PutShown ==
    ASSUME NEW b \in [Cell -> Chars], NEW p \in Cell, NEW s, s = [buf |-> b, pos |-> p],
           NEW c, Plain(c)
    PROVE  PutPlain(s, c) = Scroll([buf |-> [b EXCEPT ![p] = c], pos |-> p + 1])
  <1>1. s.buf = b /\ s.pos = p
    BY IsScreen
  <1> QED BY <1>1 DEF PutPlain, Plain

LEMMA PutErased ==
    ASSUME NEW b \in [Cell -> Chars], NEW p \in Cell, NEW s, s = [buf |-> b, pos |-> p], p > 0
    PROVE  PutPlain(s, "BS") = [buf |-> [b EXCEPT ![p - 1] = " "], pos |-> p - 1]
  <1>1. s.buf = b /\ s.pos = p
    BY IsScreen
  <1> QED BY <1>1 DEF PutPlain

LEMMA PutScreen ==
    ASSUME NEW s \in Screens, NEW c \in Chars
    PROVE  PutPlain(s, c) \in Screens
  <1>1. PICK b \in [Cell -> Chars], p \in Cell : s = [buf |-> b, pos |-> p]
    BY DEF Screens
  <1>2. s.buf = b /\ s.pos = p
    BY <1>1, IsScreen
  <1>3. p \in Nat /\ p < CRT_SIZE
    BY Sizes DEF Cell
  <1>4. CASE c = "BS"
    <2>1. CASE p > 0
      <3>1. PICK p2 \in Cell : p2 = p - 1
        BY <1>3, <2>1, Sizes DEF Cell
      <3>2. PICK b2 \in [Cell -> Chars] : b2 = [b EXCEPT ![p2] = " "]
        BY Known
      <3>3. PutPlain(s, c) = [buf |-> b2, pos |-> p2]
        BY <1>1, <1>4, <2>1, <3>1, <3>2, PutErased
      <3> QED BY <3>3, IsScreen
    <2>2. CASE ~(p > 0)
      BY <1>2, <1>4, <2>2 DEF PutPlain
    <2> QED BY <2>1, <2>2
  <1>5. CASE c = "NL"
    <2>1. PICK y \in Nat : y = p + CRT_COLS
      BY <1>3, Sizes
    <2>2. PICK m : m = y % CRT_COLS
      OBVIOUS
    <2>3. m \in 0..(CRT_COLS - 1)
      BY <2>2, Sizes
    <2>4. PICK x \in Nat : x = y - m /\ x < CRT_SIZE + CRT_COLS
      BY <1>3, <2>1, <2>3, Sizes
    <2>5. (p + CRT_COLS) - ((p + CRT_COLS) % CRT_COLS) = x
      BY <2>1, <2>2, <2>4
    <2>6. [s EXCEPT !.pos = x] = [buf |-> b, pos |-> x]
      BY <1>1
    <2>7. PutPlain(s, c) = Scroll([s EXCEPT !.pos = x])
      BY <1>2, <1>5, <2>5 DEF PutPlain
    <2> QED BY <2>4, <2>6, <2>7, ScrollScreen
  <1>6. CASE c = "CR"
    <2>1. PICK m : m = p % CRT_COLS
      OBVIOUS
    <2>2. m \in Nat /\ m <= p
      BY <1>3, <2>1, Sizes
    <2>3. PICK p2 \in Cell : p2 = p - m
      BY <1>3, <2>2, Sizes DEF Cell
    <2>4. [s EXCEPT !.pos = p2] = [buf |-> b, pos |-> p2]
      BY <1>1
    <2>5. PutPlain(s, c) = [s EXCEPT !.pos = p2]
      BY <1>2, <1>6, <2>1, <2>3 DEF PutPlain
    <2> QED BY <2>4, <2>5, IsScreen
  <1>7. CASE Plain(c)
    <2>1. PICK b2 \in [Cell -> Chars] : b2 = [b EXCEPT ![p] = c]
      OBVIOUS
    <2>2. PICK x \in Nat : x = p + 1 /\ x < CRT_SIZE + CRT_COLS
      BY <1>3, Sizes
    <2>3. PutPlain(s, c) = Scroll([buf |-> b2, pos |-> x])
      BY <1>1, <1>7, <2>1, <2>2, PutShown
    <2> QED BY <2>2, <2>3, ScrollScreen
  <1> QED BY <1>4, <1>5, <1>6, <1>7 DEF Plain

LEMMA PutcScreen ==
    ASSUME NEW s \in Screens, NEW c \in Chars
    PROVE  cga_putc(s, c) \in Screens
  <1>1. \A t \in Screens : Space(t) \in Screens
    BY PutScreen, Known DEF Space
  <1>2. CASE c = "TAB"
    <2>1. cga_putc(s, c) = Space(Space(Space(Space(Space(s)))))
      BY <1>2 DEF cga_putc
    <2> QED BY <1>1, <2>1
  <1>3. CASE c # "TAB"
    BY <1>3, PutScreen DEF cga_putc
  <1> QED BY <1>2, <1>3

(* Induction over the characters of a string: the natural numbers are well  *)
(* founded.                                                                 *)
Less == {x \in Nat \X Nat : x[1] < x[2]}

LEMMA LessWellFounded == IsWellFoundedOn(Less, Nat)
  <1>1. OpToRel(<, Nat) = Less
    BY DEF OpToRel, Less
  <1> QED BY <1>1, NatLessThanWellFounded

LEMMA Rounds ==
    ASSUME NEW S, NEW N \in Nat, 0 \in S,
           \A n \in 0..(N - 1) : n \in S => n + 1 \in S
    PROVE  N \in S
  <1> DEFINE T == {n \in 0..N : n \notin S}
  <1> SUFFICES ASSUME N \notin S PROVE FALSE
    OBVIOUS
  <1>1. T # {} /\ T \subseteq Nat
    OBVIOUS
  <1>2. PICK x \in T : \A y \in T : <<y, x>> \notin Less
    BY ONLY <1>1, LessWellFounded, WFMin
  <1>3. x \in Nat /\ x # 0 /\ x - 1 \in Nat /\ x - 1 \in 0..(N - 1) /\ (x - 1) + 1 = x
    BY <1>2
  <1>4. <<x - 1, x>> \in Less
    BY <1>3 DEF Less
  <1>5. x - 1 \in S
    <2> SUFFICES ASSUME x - 1 \notin S PROVE FALSE
      OBVIOUS
    <2>1. x - 1 \in T
      BY <1>3
    <2> QED BY <1>2, <1>4, <2>1
  <1> QED BY <1>2, <1>3, <1>5

LEMMA ShownRounds ==
    ASSUME NEW s, NEW str, Len(str) \in Nat
    PROVE  \E a : /\ a[0] = s /\ a[Len(str)] = Shown(s, str)
                  /\ \A n \in 0..(Len(str) - 1) : a[n + 1] = cga_putc(a[n], str[n + 1])
  <1>0. PICK N \in Nat : N = Len(str)
    OBVIOUS
  <1> DEFINE F(g, k) == [n \in 0..k |-> IF n = 0 THEN s ELSE cga_putc(g[n - 1], str[n])]
             S == {k \in 0..N : \E g : g = F(g, k)}
  <1>1. 0 \in S
    <2>1. PICK g : g = [n \in 0..0 |-> s]
      OBVIOUS
    <2>2. g = F(g, 0)
      BY <2>1
    <2> QED BY <1>0, <2>2
  <1>2. ASSUME NEW k \in 0..(N - 1), k \in S
        PROVE  k + 1 \in S
    <2>1. PICK g : g = F(g, k)
      BY <1>2
    <2>2. PICK h : h = [n \in 0..(k + 1) |-> IF n = k + 1 THEN cga_putc(g[k], str[n]) ELSE g[n]]
      OBVIOUS
    <2>3. k \in Nat /\ k + 1 \in 0..N
      BY <1>0
    <2>4. \A n \in 0..k : h[n] = g[n]
      BY <2>2, <2>3
    <2>5. ASSUME NEW n \in 0..(k + 1)
          PROVE  h[n] = IF n = 0 THEN s ELSE cga_putc(h[n - 1], str[n])
      <3>1. CASE n = k + 1
        <4>1. h[n] = cga_putc(g[k], str[n])
          BY <2>2, <3>1
        <4>2. n # 0 /\ n - 1 = k /\ k \in 0..k
          BY <2>3, <3>1
        <4> QED BY <2>4, <4>1, <4>2
      <3>2. CASE n # k + 1
        <4>1. n \in 0..k /\ (n # 0 => n - 1 \in 0..k)
          BY <2>3, <3>2
        <4>2. g[n] = IF n = 0 THEN s ELSE cga_putc(g[n - 1], str[n])
          BY <2>1, <4>1
        <4> QED BY <2>4, <4>1, <4>2
      <3> QED BY <3>1, <3>2
    <2>6. h = [n \in 0..(k + 1) |-> h[n]]
      BY <2>2
    <2>7. h = F(h, k + 1)
      BY <2>5, <2>6
    <2> QED BY <2>3, <2>7
  <1>3. N \in S
    <2> HIDE DEF S
    <2> QED BY <1>0, <1>1, <1>2, Rounds
  <1>4. \E g : g = F(g, N)
    BY <1>3
  <1>5. PICK a : a = CHOOSE g : g = F(g, N)
    OBVIOUS
  <1>6. a = F(a, N)
    BY <1>4, <1>5
  <1>7. Shown(s, str) = a[N]
    BY <1>0, <1>5 DEF Shown
  <1>8. a[0] = s
    BY <1>0, <1>6
  <1>9. ASSUME NEW n \in 0..(N - 1)
        PROVE  a[n + 1] = cga_putc(a[n], str[n + 1])
    <2>1. n + 1 \in 0..N /\ n + 1 # 0 /\ (n + 1) - 1 = n
      BY <1>0
    <2> QED BY <1>6, <2>1
  <1> QED BY <1>0, <1>7, <1>8, <1>9

LEMMA ShownScreen ==
    ASSUME NEW s \in Screens, NEW str \in Seq(Chars)
    PROVE  Shown(s, str) \in Screens
  <1>1. PICK N \in Nat : N = Len(str)
    BY LenProperties
  <1>2. PICK a : /\ a[0] = s /\ a[N] = Shown(s, str)
                 /\ \A n \in 0..(N - 1) : a[n + 1] = cga_putc(a[n], str[n + 1])
    BY <1>1, ShownRounds
  <1> DEFINE S == {n \in 0..N : a[n] \in Screens}
  <1>3. 0 \in S
    BY <1>1, <1>2
  <1>4. ASSUME NEW n \in 0..(N - 1), n \in S
        PROVE  n + 1 \in S
    <2>1. n + 1 \in 0..N /\ n + 1 \in 1..N
      BY <1>1
    <2>2. str[n + 1] \in Chars
      BY <1>1, <2>1, ElementOfSeq
    <2>3. a[n] \in Screens
      BY <1>4
    <2>4. a[n + 1] \in Screens
      BY <1>2, <2>2, <2>3, PutcScreen
    <2> QED BY <2>1, <2>4
  <1>5. N \in S
    <2> HIDE DEF S
    <2> QED BY <1>1, <1>3, <1>4, Rounds
  <1> QED BY <1>2, <1>5

ScreenOK == crt_buf \in [Cell -> Chars] /\ crt_pos \in Cell

LEMMA PromptChars == Prompt \in Seq(Chars) /\ <<"NL">> \o Prompt \in Seq(Chars)
  <1>1. PICK L \in Nat : L = Len(Prompt) /\ Prompt \in [1..L -> STRING]
    BY ConsoleAssumption, LenProperties, SeqDef
  <1>2. \A j \in 1..L : Prompt[j] \in Chars
    BY <1>1 DEF Chars
  <1>3. Prompt \in [1..L -> Chars]
    BY <1>1, <1>2
  <1>4. Prompt \in Seq(Chars)
    BY <1>1, <1>3, SeqDef
  <1>5. \A c \in Chars : <<c>> \in Seq(Chars)
    OBVIOUS
  <1>6. <<"NL">> \in Seq(Chars)
    BY <1>5, Known
  <1> QED BY <1>4, <1>6, ConcatProperties

LEMMA CputcharScreen ==
    ASSUME ScreenOK, NEW c \in Chars, cputchar(c)
    PROVE  ScreenOK'
  <1>1. PICK s : s = [buf |-> crt_buf, pos |-> crt_pos]
    OBVIOUS
  <1>2. s \in Screens
    BY <1>1, IsScreen DEF ScreenOK
  <1>3. PICK t \in Screens : t = cga_putc(s, c)
    BY <1>2, PutcScreen
  <1>4. crt_buf' = t.buf /\ crt_pos' = t.pos
    BY <1>1, <1>3 DEF cputchar, Becomes
  <1> QED BY <1>4 DEF ScreenOK, Screens

LEMMA CprintfScreen ==
    ASSUME ScreenOK, NEW str \in Seq(Chars), cprintf(str)
    PROVE  ScreenOK'
  <1>1. PICK s : s = [buf |-> crt_buf, pos |-> crt_pos]
    OBVIOUS
  <1>2. s \in Screens
    BY <1>1, IsScreen DEF ScreenOK
  <1>3. PICK t \in Screens : t = Shown(s, str)
    BY <1>2, ShownScreen
  <1>4. crt_buf' = t.buf /\ crt_pos' = t.pos
    BY <1>1, <1>3 DEF cprintf, Becomes
  <1> QED BY <1>4 DEF ScreenOK, Screens

-----------------------------------------------------------------------------
(* The callers *)

BufOK == i \in 0..(BUFLEN - 1) /\ buf \in [0..(BUFLEN - 1) -> Chars \cup {NO}]
RestOK ==
    /\ rx \in SerialChars \cup {NONE}
    /\ Len(kbd) <= KBDQ
    /\ caller \in {NONE, "sys_cgetc", "readline"}
    /\ at \in {"serial", "kbd", "take"}
    /\ lines \in Nat

BoolOK == rebooted \in BOOLEAN /\ asked \in BOOLEAN

ConsoleInv == KeysInv /\ RingInv /\ ScreenOK /\ BufOK /\ RestOK /\ BoolOK /\ EchoMatches

LEMMA TakenChar == RingInv => Taken \in Chars \cup {NO}
  <1> SUFFICES ASSUME RingInv PROVE Taken \in Chars \cup {NO}
    OBVIOUS
  <1>1. PICK e \in Entries : e = cons.buf[cons.rpos]
    BY DEF RingInv, Rings
  <1>2. e.c \in Chars \cup {NO}
    BY DEF Entries
  <1> QED BY <1>1, <1>2 DEF Taken

LEMMA RingNext ==
    ASSUME KeysInv, RingInv, RestOK, [Next]_vars
    PROVE  RingInv'
  <1>1. CASE serial_intr
    <2>1. CASE rx # NONE
      <3>1. cons_intr(rx) /\ rx \in Chars \cup {NO}
        BY <1>1, <2>1 DEF serial_intr, RestOK, Chars
      <3> QED BY <3>1, RingPut
    <2>2. CASE rx = NONE
      BY <1>1, <2>2 DEF serial_intr, ringHistory, RingInv
    <2> QED BY <2>1, <2>2
  <1>2. CASE kbd_intr
    <2>1. CASE kbd # <<>>
      <3>1. PICK r : r = kbd_proc_data(shift, Head(kbd))
        OBVIOUS
      <3>2. cons_intr(r.c)
        BY <1>2, <2>1, <3>1 DEF kbd_intr
      <3>3. kbd \in Seq(ScanBytes) /\ shift \subseteq Flags
        BY DEF KeysInv, KbdType
      <3>4. Head(kbd) \in ScanBytes /\ Head(kbd) = kbd[1]
        BY <2>1, <3>3, HeadTailProperties
      <3>5. "E0ESC" \in shift => Head(kbd)[1] \in ExtCodes
        BY <3>4 DEF KeysInv, EscapeRead
      <3>6. r.c \in Chars \cup {NO}
        BY ONLY <3>1, <3>3, <3>4, <3>5, ByteRead
      <3> QED BY <3>2, <3>6, RingPut
    <2>2. CASE kbd = <<>>
      BY <1>2, <2>2 DEF kbd_intr, ringHistory, RingInv
    <2> QED BY <2>1, <2>2
  <1>3. CASE CgetcReturn \/ GotChar
    BY <1>3, RingTake DEF CgetcReturn, GotChar
  <1>4. CASE UNCHANGED <<cons, ringHistory>>
    BY <1>4 DEF ringHistory, RingInv
  <1>5. ASSUME NEW c \in SerialChars, SerialArrives(c) PROVE UNCHANGED <<cons, ringHistory>>
    BY <1>5 DEF SerialArrives
  <1>6. ASSUME NEW k \in Keys, KeyDown(k) \/ KeyUp(k) PROVE UNCHANGED <<cons, ringHistory>>
    BY <1>6 DEF KeyDown, KeyUp
  <1>7. ASSUME NEW c \in UserChars, sys_cputs(c) PROVE UNCHANGED <<cons, ringHistory>>
    BY <1>7 DEF sys_cputs
  <1>8. CASE sys_cgetc \/ monitor \/ Poll
    BY <1>4, <1>8 DEF sys_cgetc, monitor, Poll
  <1>9. CASE Erase \/ Insert \/ Return \/ Ignore
    BY <1>3, <1>9 DEF Erase, Insert, Return, Ignore
  <1>10. CASE UNCHANGED vars
    BY <1>4, <1>10 DEF vars
  <1> QED BY <1>1, <1>2, <1>3, <1>4, <1>5, <1>6, <1>7, <1>8, <1>9, <1>10 DEF Next, Kernel

LEMMA ScreenNext ==
    ASSUME RingInv, ScreenOK, [Next]_vars
    PROVE  ScreenOK'
  <1>1. ASSUME NEW c \in UserChars, sys_cputs(c) PROVE ScreenOK'
    BY <1>1, CputcharScreen DEF sys_cputs, Chars
  <1>2. CASE monitor
    BY <1>2, CprintfScreen, PromptChars DEF monitor
  <1>3. CASE Erase
    BY <1>3, CputcharScreen, Known DEF Erase
  <1>4. CASE Insert
    <2>1. Taken \in Chars
      BY <1>4, TakenChar DEF Insert, GotChar
    <2> QED BY <1>4, <2>1, CputcharScreen DEF Insert
  <1>5. CASE Return
    BY <1>5, CprintfScreen, PromptChars DEF Return
  <1>6. CASE UNCHANGED crtVars
    BY <1>6 DEF crtVars, ScreenOK
  <1>7. ASSUME NEW c \in SerialChars, SerialArrives(c) PROVE UNCHANGED crtVars
    BY <1>7 DEF SerialArrives
  <1>8. ASSUME NEW k \in Keys, KeyDown(k) \/ KeyUp(k) PROVE UNCHANGED crtVars
    BY <1>8 DEF KeyDown, KeyUp
  <1>9. CASE sys_cgetc \/ Poll \/ Ignore \/ serial_intr \/ kbd_intr \/ CgetcReturn
    BY <1>6, <1>9 DEF sys_cgetc, Poll, Ignore, serial_intr, kbd_intr, CgetcReturn
  <1>10. CASE UNCHANGED vars
    BY <1>6, <1>10 DEF vars
  <1> QED BY <1>1, <1>2, <1>3, <1>4, <1>5, <1>6, <1>7, <1>8, <1>9, <1>10 DEF Next, Kernel

LEMMA BufNext ==
    ASSUME RingInv, BufOK, [Next]_vars
    PROVE  BufOK'
  <1>0. BUFLEN \in Nat /\ BUFLEN > 0
    BY Sizes
  <1>1. CASE monitor
    <2>1. i' = 0 /\ buf' = buf
      BY <1>1 DEF monitor
    <2> QED BY <1>0, <2>1 DEF BufOK
  <1>2. CASE Erase
    <2>1. i' = i - 1 /\ i > 0 /\ buf' = buf
      BY <1>2 DEF Erase, Erases
    <2> QED BY <1>0, <2>1 DEF BufOK
  <1>3. CASE Insert
    <2>1. Taken \in Chars
      BY <1>3, TakenChar DEF Insert, GotChar
    <2>2. i' = i + 1 /\ i < BUFLEN - 1 /\ buf' = [buf EXCEPT ![i] = Taken]
      BY <1>3 DEF Insert, Inserts
    <2> QED BY <1>0, <2>1, <2>2 DEF BufOK
  <1>4. CASE Return
    <2>1. i' = 0 /\ buf' = [buf EXCEPT ![i] = NO]
      BY <1>4 DEF Return
    <2> QED BY <1>0, <2>1 DEF BufOK
  <1>5. CASE UNCHANGED <<i, buf>>
    BY <1>5 DEF BufOK
  <1>6. ASSUME NEW c \in SerialChars, SerialArrives(c) PROVE UNCHANGED <<i, buf>>
    BY <1>6 DEF SerialArrives, lineVars
  <1>7. ASSUME NEW k \in Keys, KeyDown(k) \/ KeyUp(k) PROVE UNCHANGED <<i, buf>>
    BY <1>7 DEF KeyDown, KeyUp, lineVars
  <1>8. ASSUME NEW c \in UserChars, sys_cputs(c) PROVE UNCHANGED <<i, buf>>
    BY <1>8 DEF sys_cputs, lineVars
  <1>9. CASE sys_cgetc \/ Poll \/ Ignore \/ serial_intr \/ kbd_intr \/ CgetcReturn
    BY <1>5, <1>9 DEF sys_cgetc, Poll, Ignore, serial_intr, kbd_intr, CgetcReturn, lineVars
  <1>10. CASE UNCHANGED vars
    BY <1>5, <1>10 DEF vars, lineVars
  <1> QED BY <1>1, <1>2, <1>3, <1>4, <1>5, <1>6, <1>7, <1>8, <1>9, <1>10 DEF Next, Kernel

LEMMA RestNext ==
    ASSUME KeysInv, RestOK, [Next]_vars
    PROVE  RestOK'
  <1>0. lines + 1 \in Nat /\ lines \in Nat
    BY DEF RestOK
  <1>1. ASSUME NEW c \in SerialChars, SerialArrives(c) PROVE RestOK'
    BY <1>1 DEF SerialArrives, RestOK, lineVars
  <1>2. ASSUME NEW k \in Keys, KeyDown(k) PROVE RestOK'
    <2>1. /\ Len(kbd') <= KBDQ
          /\ UNCHANGED <<rx, caller, at, lines>>
      BY <1>2 DEF KeyDown, lineVars
    <2> QED BY <2>1 DEF RestOK
  <1>3. ASSUME NEW k \in Keys, KeyUp(k) PROVE RestOK'
    <2>1. /\ Len(kbd') <= KBDQ
          /\ UNCHANGED <<rx, caller, at, lines>>
      BY <1>3 DEF KeyUp, lineVars
    <2> QED BY <2>1 DEF RestOK
  <1>4. CASE kbd_intr
    <2>1. rx' = rx /\ caller' = caller /\ lines' = lines /\ at' \in {at, "take"}
      BY <1>4 DEF kbd_intr, lineVars
    <2>2. Len(kbd') <= KBDQ
      <3>1. CASE kbd = <<>>
        BY <1>4, <3>1 DEF kbd_intr, RestOK
      <3>2. CASE kbd # <<>>
        <4>1. kbd' = Tail(kbd) /\ kbd \in Seq(ScanBytes)
          BY <1>4, <3>2 DEF kbd_intr, KeysInv, KbdType
        <4>2. Len(Tail(kbd)) = Len(kbd) - 1 /\ Len(kbd) \in Nat
          BY <3>2, <4>1, HeadTailProperties, LenProperties
        <4> QED BY <4>1, <4>2, ConsoleAssumption DEF RestOK
      <3> QED BY <3>1, <3>2
    <2> QED BY <2>1, <2>2 DEF RestOK
  <1>5. CASE serial_intr
    <2>1. rx' \in {rx, NONE} /\ at' \in {at, "kbd"} /\ UNCHANGED <<kbd, caller, lines>>
      BY <1>5 DEF serial_intr, lineVars
    <2> QED BY <2>1 DEF RestOK
  <1>6. ASSUME NEW c \in UserChars, sys_cputs(c) PROVE RestOK'
    BY <1>6 DEF sys_cputs, devVars, lineVars, RestOK
  <1>7. CASE sys_cgetc \/ monitor \/ CgetcReturn \/ Poll
    BY <1>7 DEF sys_cgetc, monitor, CgetcReturn, Poll, devVars, lineVars, RestOK, NONE
  <1>8. CASE Erase \/ Insert \/ Ignore
    BY <1>8 DEF Erase, Insert, Ignore, GotChar, lineRest, devVars, lineVars, RestOK
  <1>9. CASE Return
    <2>1. UNCHANGED <<rx, kbd, caller>> /\ at' = "serial" /\ lines' = lines + 1
      BY <1>9 DEF Return, GotChar, lineRest, devVars
    <2> QED BY <1>0, <2>1 DEF RestOK
  <1>10. CASE UNCHANGED vars
    BY <1>10 DEF vars, devVars, lineVars, RestOK
  <1> QED BY <1>1, <1>2, <1>3, <1>4, <1>5, <1>6, <1>7, <1>8, <1>9, <1>10 DEF Next, Kernel

LEMMA BoolNext ==
    ASSUME BoolOK, [Next]_vars
    PROVE  BoolOK'
  <1>1. CASE kbd_intr
    BY <1>1 DEF kbd_intr, BoolOK
  <1>2. ASSUME NEW k \in Keys, KeyDown(k) PROVE BoolOK'
    BY <1>2 DEF KeyDown, BoolOK
  <1>3. CASE UNCHANGED <<asked, rebooted>>
    BY <1>3 DEF BoolOK
  <1>4. ASSUME NEW k \in Keys, KeyUp(k) PROVE UNCHANGED <<asked, rebooted>>
    BY <1>4 DEF KeyUp
  <1>5. ASSUME NEW c \in SerialChars, SerialArrives(c) PROVE UNCHANGED <<asked, rebooted>>
    BY <1>5 DEF SerialArrives
  <1>6. ASSUME NEW c \in UserChars, sys_cputs(c) PROVE UNCHANGED <<asked, rebooted>>
    BY <1>6 DEF sys_cputs, devVars
  <1>7. CASE sys_cgetc \/ monitor \/ serial_intr \/ CgetcReturn \/ Poll
    BY <1>3, <1>7 DEF sys_cgetc, monitor, serial_intr, CgetcReturn, Poll, devVars
  <1>8. CASE Erase \/ Insert \/ Return \/ Ignore
    BY <1>3, <1>8 DEF Erase, Insert, Return, Ignore, lineRest, devVars
  <1>9. CASE UNCHANGED vars
    BY <1>3, <1>9 DEF vars, devVars
  <1> QED BY <1>1, <1>2, <1>3, <1>4, <1>5, <1>6, <1>7, <1>8, <1>9 DEF Next, Kernel

(* A character is echoed: the screen may scroll, but not so far that a      *)
(* character of the line leaves it.                                         *)
LEMMA EchoInsert ==
    ASSUME RingInv, ScreenOK, BufOK, EchoMatches, Insert
    PROVE  EchoMatches'
  <1>1. PICK c \in Chars : c = Taken
    BY TakenChar DEF Insert, GotChar
  <1>2. PICK b \in [Cell -> Chars], p \in Cell : b = crt_buf /\ p = crt_pos
    BY DEF ScreenOK
  <1>3. p \in Nat /\ p < CRT_SIZE
    BY Sizes DEF Cell
  <1>4. PICK k \in Nat : k = i
    BY Sizes DEF BufOK
  <1>5. /\ i' = k + 1 /\ k < BUFLEN - 1 /\ buf' = [buf EXCEPT ![k] = c]
        /\ caller = "readline" /\ k \in 0..(BUFLEN - 1) /\ Printable(c)
    BY <1>1, <1>4, Sizes DEF Insert, Inserts, GotChar, BufOK
  <1>6. PICK line : line = buf /\ DOMAIN line = 0..(BUFLEN - 1)
    BY DEF BufOK
  <1>7. \A j \in 1..k : p - j \in Cell /\ b[p - j] = line[k - j]
    BY <1>2, <1>4, <1>5, <1>6 DEF EchoMatches
  <1>8. PICK line2 : line2 = [line EXCEPT ![k] = c]
    OBVIOUS
  <1>9. line2[k] = c /\ \A j \in 1..k : line2[k - j] = line[k - j]
    BY <1>5, <1>6, <1>8, Sizes
  <1>10. PICK b2 \in [Cell -> Chars] : b2 = [b EXCEPT ![p] = c]
    OBVIOUS
  <1>11. b2[p] = c /\ \A x \in Cell : x # p => b2[x] = b[x]
    BY <1>10
  <1>12. PICK x \in Nat : x = p + 1 /\ x < CRT_SIZE + CRT_COLS
    BY <1>3, Sizes
  <1>13. PICK s : s = Scroll([buf |-> b2, pos |-> x])
    OBVIOUS
  <1>14. crt_buf' = s.buf /\ crt_pos' = s.pos
    <2>1. c # "TAB" /\ Plain(c)
      BY <1>5 DEF Printable, Plain
    <2>2. cputchar(c)
      BY <1>1 DEF Insert
    <2>3. cga_putc([buf |-> b, pos |-> p], c) = s
      BY <1>10, <1>12, <1>13, <2>1, PutShown DEF cga_putc
    <2> QED BY <1>2, <2>2, <2>3 DEF cputchar, Becomes
  (* before the screen is scrolled *)
  <1>15. ASSUME NEW j \in 1..(k + 1)
         PROVE  x - j \in Cell /\ b2[x - j] = line2[(k + 1) - j]
    <2>1. CASE j = 1
      <3>1. x - j = p /\ (k + 1) - j = k
        BY <1>12, <2>1, <1>3
      <3> QED BY <1>9, <1>11, <3>1
    <2>2. CASE j # 1
      <3>1. PICK h \in 1..k : j = h + 1
        BY <2>2
      <3>2. x - j = p - h /\ (k + 1) - j = k - h /\ p - h # p
        BY <1>3, <1>12, <3>1
      <3>3. p - h \in Cell /\ b[p - h] = line[k - h] /\ line2[k - h] = line[k - h]
        BY <1>7, <1>9
      <3>4. b2[p - h] = b[p - h]
        BY <1>11, <3>2, <3>3
      <3> QED BY <3>2, <3>3, <3>4
    <2> QED BY <2>1, <2>2
  <1>16. CASE x < CRT_SIZE
    <2>1. crt_buf' = b2 /\ crt_pos' = x
      BY <1>12, <1>13, <1>14, <1>16, ScrollScreen
    <2> QED BY <1>5, <1>6, <1>8, <1>15, <2>1 DEF EchoMatches
  <1>17. CASE x >= CRT_SIZE
    <2>1. /\ s.pos = x - CRT_COLS
          /\ \A n \in Cell : n < CRT_SIZE - CRT_COLS => s.buf[n] = b2[n + CRT_COLS]
      BY <1>12, <1>13, <1>17, ScrollScreen
    <2>2. ASSUME NEW j \in 1..(k + 1)
          PROVE  /\ (x - CRT_COLS) - j \in Cell
                 /\ s.buf[(x - CRT_COLS) - j] = line2[(k + 1) - j]
      <3>1. PICK n \in Cell : n = (x - CRT_COLS) - j /\ n < CRT_SIZE - CRT_COLS
        BY <1>3, <1>5, <1>12, <1>17, Sizes DEF Cell
      <3>2. n + CRT_COLS = x - j
        BY <1>12, <3>1, Sizes
      <3>3. s.buf[n] = b2[x - j]
        BY <2>1, <3>1, <3>2
      <3> QED BY <1>15, <3>1, <3>3
    <2> QED BY <1>5, <1>6, <1>8, <1>14, <2>1, <2>2 DEF EchoMatches
  <1> QED BY <1>12, <1>16, <1>17, Sizes

(* The cell before the cursor is the line's, so the cursor can go back. *)
LEMMA EchoErase ==
    ASSUME ScreenOK, BufOK, EchoMatches, Erase
    PROVE  EchoMatches'
  <1>1. PICK b \in [Cell -> Chars], p \in Cell : b = crt_buf /\ p = crt_pos
    BY DEF ScreenOK
  <1>2. p \in Nat /\ p < CRT_SIZE
    BY Sizes DEF Cell
  <1>3. PICK k \in Nat : k = i
    BY Sizes DEF BufOK
  <1>4. i' = k - 1 /\ k > 0 /\ buf' = buf /\ caller = "readline"
    BY <1>3 DEF Erase, Erases, GotChar
  <1>5. \A j \in 1..k : p - j \in Cell /\ b[p - j] = buf[k - j]
    BY <1>1, <1>3, <1>4 DEF EchoMatches
  <1>6. p > 0
    <2>1. 1 \in 1..k
      BY <1>4
    <2>2. p - 1 \in Cell
      BY <1>5, <2>1
    <2> QED BY <1>2, <2>2, Sizes DEF Cell
  <1>7. PICK b2 : b2 = [b EXCEPT ![p - 1] = " "]
    OBVIOUS
  <1>8. crt_buf' = b2 /\ crt_pos' = p - 1
    <2>1. cga_putc([buf |-> b, pos |-> p], "BS") = [buf |-> b2, pos |-> p - 1]
      BY <1>6, <1>7, PutErased DEF cga_putc
    <2>2. cputchar("BS")
      BY DEF Erase
    <2> QED BY <1>1, <2>1, <2>2 DEF cputchar, Becomes
  <1>9. ASSUME NEW j \in 1..(k - 1)
        PROVE  (p - 1) - j \in Cell /\ b2[(p - 1) - j] = buf[(k - 1) - j]
    <2>1. PICK h \in 1..k : h = j + 1
      BY <1>4
    <2>2. (p - 1) - j = p - h /\ (k - 1) - j = k - h /\ p - h # p - 1
      BY <1>2, <2>1
    <2>3. p - h \in Cell /\ b[p - h] = buf[k - h]
      BY <1>5
    <2>4. b2[p - h] = b[p - h]
      BY <1>7, <2>2, <2>3
    <2> QED BY <2>2, <2>3, <2>4
  <1> QED BY <1>4, <1>8, <1>9 DEF EchoMatches

LEMMA EchoNext ==
    ASSUME RingInv, ScreenOK, BufOK, EchoMatches, [Next]_vars
    PROVE  EchoMatches'
  <1>1. CASE UNCHANGED <<caller, crt_buf, crt_pos, i, buf>>
    BY <1>1 DEF EchoMatches
  <1>2. CASE caller' # "readline"
    BY <1>2 DEF EchoMatches
  <1>3. CASE i' = 0
    BY <1>3 DEF EchoMatches
  <1>4. ASSUME NEW c \in SerialChars, SerialArrives(c)
        PROVE  UNCHANGED <<caller, crt_buf, crt_pos, i, buf>>
    BY <1>4 DEF SerialArrives, crtVars, lineVars
  <1>5. ASSUME NEW k \in Keys, KeyDown(k) \/ KeyUp(k)
        PROVE  UNCHANGED <<caller, crt_buf, crt_pos, i, buf>>
    BY <1>5 DEF KeyDown, KeyUp, crtVars, lineVars
  <1>6. CASE serial_intr \/ kbd_intr \/ Poll \/ Ignore
    BY <1>1, <1>6 DEF serial_intr, kbd_intr, Poll, Ignore, crtVars, lineVars, lineRest
  <1>7. ASSUME NEW c \in UserChars, sys_cputs(c) PROVE caller' # "readline"
    BY <1>7 DEF sys_cputs, NONE
  <1>8. CASE sys_cgetc \/ CgetcReturn
    BY <1>2, <1>8 DEF sys_cgetc, CgetcReturn, NONE
  <1>9. CASE monitor \/ Return
    BY <1>3, <1>9 DEF monitor, Return
  <1>10. CASE UNCHANGED vars
    BY <1>1, <1>10 DEF vars, crtVars, lineVars
  <1> QED BY <1>1, <1>2, <1>4, <1>5, <1>6, <1>7, <1>8, <1>9, <1>10, EchoInsert, EchoErase
          DEF Next, Kernel

LEMMA ConsoleInit == Init => ConsoleInv
  <1> SUFFICES ASSUME Init PROVE ConsoleInv
    OBVIOUS
  <1>1. KeysInv /\ RingInv
    BY KeysInit, RingInit
  <1>2. ScreenOK
    <2>1. crt_buf = [n \in Cell |-> " "] /\ crt_pos = 0
      BY DEF Init, cga_init
    <2>2. 0 \in Cell
      BY Sizes DEF Cell
    <2> QED BY <2>1, <2>2, Known DEF ScreenOK
  <1>3. BufOK
    BY Sizes DEF Init, BufOK
  <1>4. RestOK
    <2>1. Len(kbd) = 0 /\ rx = NONE /\ caller = NONE /\ at = "serial" /\ lines = 0
      BY DEF Init, kbd_init, serial_init
    <2> QED BY <2>1, ConsoleAssumption DEF RestOK
  <1>5. BoolOK
    BY DEF Init, BoolOK
  <1>6. EchoMatches
    BY DEF Init, EchoMatches, NONE
  <1> QED BY <1>1, <1>2, <1>3, <1>4, <1>5, <1>6 DEF ConsoleInv

(* The inductive invariant of the console: keyboard, ring, screen and line. *)
THEOREM ConsoleInvariant == Spec => []ConsoleInv
  <1>1. ConsoleInv /\ [Next]_vars => ConsoleInv'
    BY KeysNext, RingNext, ScreenNext, BufNext, RestNext, BoolNext, EchoNext DEF ConsoleInv
  <1> QED BY <1>1, ConsoleInit, PTL DEF Spec

(* Positions stay inside the ring, the screen and the line buffer, and      *)
(* characters come out of the ring in the order they went in, none twice,   *)
(* and none missing unless it overflowed (cons_intr(), cons_getc()).        *)
THEOREM InputSound == Spec => []InputSafe
  <1>1. ConsoleInv => InputSafe
    <2> SUFFICES ASSUME ConsoleInv PROVE InputSafe
      OBVIOUS
    <2>1. InputOrder
      BY RingOrdered DEF ConsoleInv
    <2>2. /\ cons.rpos \in 0..CONSBUFSIZE - 1 /\ cons.wpos \in 0..CONSBUFSIZE - 1
          /\ DOMAIN cons.buf = 0..CONSBUFSIZE - 1
      BY DEF ConsoleInv, RingInv, Rings, Slots
    <2>3. TypeOK
      BY <2>2 DEF TypeOK, ConsoleInv, KeysInv, KbdType, RingInv, ScreenOK, BufOK, RestOK, BoolOK
    <2> QED BY <2>1, <2>3 DEF InputSafe
  <1> QED BY <1>1, ConsoleInvariant, PTL

(* The cells before the cursor show the line that readline() holds, through *)
(* erasing across rows and scrolling (readline(), cga_putc()).              *)
THEOREM EchoFaithful == Spec => []EchoMatches
  <1>1. ConsoleInv => EchoMatches
    BY DEF ConsoleInv
  <1> QED BY <1>1, ConsoleInvariant, PTL
=============================================================================
