----------------------------- MODULE LoopProofs -----------------------------
(***************************************************************************)
(* What is proved about loops that run any number of times.  Each loop of  *)
(* Library and Boot is a recursive function over its rounds; a statement   *)
(* about all rounds is proved once, in LoopInvariant, from the             *)
(* well-foundedness of the natural numbers, with the states a round may    *)
(* begin in given as a set I[n].                                           *)
(*                                                                         *)
(* First the algorithms of Library, which compute what they are for on     *)
(* inputs of every size; in the last part Boot, whose early writes are     *)
(* all mapped, on machines of every size.                                  *)
(***************************************************************************)
EXTENDS Library, Boot, FiniteSetTheorems, SequenceTheorems, WellFoundedInduction, TLAPS

(* Induction over the rounds of a loop: the natural numbers are well        *)
(* founded.                                                                 *)
Less == {x \in Nat \X Nat : x[1] < x[2]}

LEMMA LessWellFounded == IsWellFoundedOn(Less, Nat)
  <1>1. OpToRel(<, Nat) = Less
    BY DEF OpToRel, Less
  <1> QED BY <1>1, NatLessThanWellFounded

LEMMA LeastNat ==
    ASSUME NEW T, T \subseteq Nat, T # {}
    PROVE  \E x \in T : \A y \in T : x <= y
  <1>1. PICK x \in T : \A y \in T : <<y, x>> \notin Less
    BY ONLY T \subseteq Nat, T # {}, LessWellFounded, WFMin
  <1>2. ASSUME NEW y \in T PROVE x <= y
    <2>1. x \in Nat /\ y \in Nat
      OBVIOUS
    <2>2. y < x => <<y, x>> \in Less
      BY <2>1 DEF Less
    <2>3. ~(y < x)
      BY <1>1, <2>2
    <2> QED BY <2>1, <2>3
  <1> QED BY <1>2

LEMMA Rounds ==
    ASSUME NEW S, NEW N \in Nat, 0 \in S,
           \A n \in 0..(N - 1) : n \in S => n + 1 \in S
    PROVE  \A n \in 0..N : n \in S
  <1> DEFINE T == {n \in 0..N : n \notin S}
  <1> SUFFICES ASSUME T # {} PROVE FALSE
    OBVIOUS
  <1>1. T \subseteq Nat
    OBVIOUS
  <1>2. PICK x \in T : \A y \in T : x <= y
    BY ONLY T # {}, <1>1, LeastNat
  <1>3. x \in Nat /\ x # 0 /\ x - 1 \in 0..(N - 1) /\ (x - 1) + 1 = x /\ ~(x <= x - 1)
    BY <1>2
  <1>4. x - 1 \in S
    BY <1>2, <1>3
  <1> QED BY <1>2, <1>3, <1>4

(***************************************************************************)
(* A loop of N rounds whose state after n rounds is in I[n]: the function  *)
(* by which Library writes it exists, and is as its definition says.  What *)
(* round n does to a state x is f[n][x].                                   *)
(***************************************************************************)
IsLoop(a, N, s, f) == a = [n \in 0..N |-> IF n = 0 THEN s ELSE f[n][a[n - 1]]]

LEMMA LoopExists ==
    ASSUME NEW N \in Nat, NEW I, NEW f, NEW s, s \in I[0],
           \A n \in 0..(N - 1) : \A x \in I[n] : f[n + 1][x] \in I[n + 1]
    PROVE  \E a : /\ IsLoop(a, N, s, f)
                  /\ \A n \in 0..N : a[n] \in I[n]
  <1> DEFINE F(g, k) == [n \in 0..k |-> IF n = 0 THEN s ELSE f[n][g[n - 1]]]
             S == {k \in 0..N : \E g : g = F(g, k) /\ \A n \in 0..k : g[n] \in I[n]}
  <1>1. 0 \in S
    <2>1. PICK g : g = [n \in 0..0 |-> s]
      OBVIOUS
    <2>2. g = F(g, 0) /\ \A n \in 0..0 : g[n] \in I[n]
      BY <2>1
    <2> QED BY <2>2
  <1>2. ASSUME NEW k \in 0..(N - 1), k \in S
        PROVE  k + 1 \in S
    <2>1. PICK g : g = F(g, k) /\ \A n \in 0..k : g[n] \in I[n]
      BY <1>2
    <2>2. PICK h : h = [n \in 0..(k + 1) |-> IF n = k + 1 THEN f[k + 1][g[k]] ELSE g[n]]
      OBVIOUS
    <2>3. k \in Nat /\ k + 1 \in 0..N /\ k \in 0..k
      OBVIOUS
    <2>4. \A n \in 0..k : h[n] = g[n]
      BY <2>2, <2>3
    <2>5. h[k + 1] = f[k + 1][g[k]]
      BY <2>2, <2>3
    <2>6. ASSUME NEW n \in 0..(k + 1)
          PROVE  h[n] = (IF n = 0 THEN s ELSE f[n][h[n - 1]]) /\ h[n] \in I[n]
      <3>1. CASE n = k + 1
        <4>1. n # 0 /\ n - 1 = k
          BY <2>3, <3>1
        <4>2. g[k] \in I[k] /\ h[k] = g[k]
          BY <2>1, <2>3, <2>4
        <4>3. f[k + 1][g[k]] \in I[k + 1]
          BY <4>2
        <4> QED BY <2>5, <3>1, <4>1, <4>2, <4>3
      <3>2. CASE n # k + 1
        <4>1. n \in 0..k /\ (n # 0 => n - 1 \in 0..k)
          BY <2>3, <3>2
        <4>2. g[n] = (IF n = 0 THEN s ELSE f[n][g[n - 1]]) /\ g[n] \in I[n]
          BY <2>1, <4>1
        <4> QED BY <2>4, <4>1, <4>2
      <3> QED BY <3>1, <3>2
    <2>7. h = [n \in 0..(k + 1) |-> h[n]]
      BY <2>2
    <2>8. h = F(h, k + 1)
      BY <2>6, <2>7
    <2> QED BY <2>3, <2>6, <2>8
  <1>3. N \in S
    <2> HIDE DEF S
    <2>1. \A n \in 0..N : n \in S
      BY <1>1, <1>2, Rounds
    <2> QED BY <2>1
  <1> QED BY <1>3 DEF IsLoop

LEMMA LoopInvariant ==
    ASSUME NEW N \in Nat, NEW I, NEW a, a[0] \in I[0],
           \A n \in 0..(N - 1) : a[n] \in I[n] => a[n + 1] \in I[n + 1]
    PROVE  \A n \in 0..N : a[n] \in I[n]
  <1> DEFINE S == {n \in 0..N : a[n] \in I[n]}
  <1>1. 0 \in S /\ \A n \in 0..(N - 1) : n \in S => n + 1 \in S
    OBVIOUS
  <1>2. \A n \in 0..N : n \in S
    <2> HIDE DEF S
    <2> QED BY <1>1, Rounds
  <1> QED BY <1>2

-----------------------------------------------------------------------------
(* The greatest and the least of a set of numbers between two bounds.       *)

LEMMA LeastInt ==
    ASSUME NEW lo \in Int, NEW S \in SUBSET Int, S # {}, \A x \in S : lo <= x
    PROVE  /\ LeastOf(S) \in S
           /\ \A y \in S : LeastOf(S) <= y
  <1> DEFINE T == {x - lo : x \in S}
  <1>1. T \subseteq Nat /\ T # {}
    <2>1. PICK z \in S : TRUE
      OBVIOUS
    <2>2. z - lo \in T
      OBVIOUS
    <2> QED BY <2>2
  <1>2. PICK t \in T : \A y \in T : t <= y
    BY ONLY <1>1, LeastNat
  <1>3. PICK x \in S : t = x - lo
    BY <1>2
  <1>4. ASSUME NEW y \in S PROVE x <= y
    <2>1. y - lo \in T
      OBVIOUS
    <2>2. t <= y - lo
      BY <1>2, <2>1
    <2> QED BY <1>3, <2>2
  <1> QED BY <1>4 DEF LeastOf

LEMMA GreatestInt ==
    ASSUME NEW hi \in Int, NEW S \in SUBSET Int, S # {}, \A x \in S : x <= hi
    PROVE  /\ GreatestOf(S) \in S
           /\ \A y \in S : y <= GreatestOf(S)
  <1> DEFINE T == {hi - x : x \in S}
  <1>1. T \subseteq Nat /\ T # {}
    <2>1. PICK z \in S : TRUE
      OBVIOUS
    <2>2. hi - z \in T
      OBVIOUS
    <2> QED BY <2>2
  <1>2. PICK t \in T : \A y \in T : t <= y
    BY ONLY <1>1, LeastNat
  <1>3. PICK x \in S : t = hi - x
    BY <1>2
  <1>4. ASSUME NEW y \in S PROVE x >= y
    <2>1. hi - y \in T
      OBVIOUS
    <2>2. t <= hi - y
      BY <1>2, <2>1
    <2> QED BY <1>3, <2>2
  <1>5. GreatestOf(S) \in S /\ \A y \in S : GreatestOf(S) >= y
    BY <1>4 DEF GreatestOf
  <1> QED BY <1>5

-----------------------------------------------------------------------------
(* memmove() *)

Moved(m, dst, src, lo, hi) ==
    [a \in DOMAIN m |-> IF a \in dst + lo..dst + hi - 1 THEN m[a - dst + src] ELSE m[a]]

LEMMA CopyForward ==
    ASSUME NEW m, NEW dst \in Int, NEW src \in Int, NEW n \in Nat,
           NEW unit \in Nat, NEW p \in Nat, p + unit <= n,
           dst..dst + n - 1 \subseteq DOMAIN m, src..src + n - 1 \subseteq DOMAIN m,
           ~Backward(dst, src, n)
    PROVE  Copy(Moved(m, dst, src, 0, p), dst + p, src + p, unit) = Moved(m, dst, src, 0, p + unit)
  <1>1. PICK x : x = Moved(m, dst, src, 0, p)
    OBVIOUS
  <1>2. DOMAIN x = DOMAIN m
    BY <1>1 DEF Moved
  <1>3. ASSUME NEW a \in DOMAIN m, a \in dst + p..dst + p + unit - 1
        PROVE  x[a - (dst + p) + (src + p)] = m[a - dst + src]
    <2>1. PICK j \in Int : j = a - dst + src /\ j = a - (dst + p) + (src + p)
      BY <1>3
    <2>2. j \in src..src + n - 1
      BY <1>3, <2>1
    <2>3. j \in DOMAIN m
      BY <2>2
    <2>4. j \notin dst + 0..dst + p - 1
      BY <1>3, <2>1 DEF Backward
    <2>5. x[j] = m[j]
      BY <1>1, <2>3, <2>4 DEF Moved
    <2> QED BY <2>1, <2>5
  <1>4. ASSUME NEW a \in DOMAIN m
        PROVE  (IF a \in dst + p..dst + p + unit - 1 THEN x[a - (dst + p) + (src + p)] ELSE x[a])
                 = (IF a \in dst + 0..dst + (p + unit) - 1 THEN m[a - dst + src] ELSE m[a])
    <2>1. x[a] = IF a \in dst + 0..dst + p - 1 THEN m[a - dst + src] ELSE m[a]
      BY <1>1 DEF Moved
    <2>2. a \in dst + 0..dst + (p + unit) - 1
            <=> a \in dst + p..dst + p + unit - 1 \/ a \in dst + 0..dst + p - 1
      OBVIOUS
    <2> QED BY <1>3, <2>1, <2>2
  <1>5. Copy(x, dst + p, src + p, unit)
          = [a \in DOMAIN m |-> IF a \in dst + p..dst + p + unit - 1
                                THEN x[a - (dst + p) + (src + p)] ELSE x[a]]
    BY <1>2 DEF Copy
  <1> QED BY <1>1, <1>4, <1>5 DEF Moved

LEMMA CopyBackward ==
    ASSUME NEW m, NEW dst \in Int, NEW src \in Int, NEW n \in Nat,
           NEW unit \in Nat, NEW p \in Nat, p + unit <= n,
           dst..dst + n - 1 \subseteq DOMAIN m, src..src + n - 1 \subseteq DOMAIN m,
           Backward(dst, src, n)
    PROVE  Copy(Moved(m, dst, src, p + unit, n), dst + p, src + p, unit) = Moved(m, dst, src, p, n)
  <1>1. PICK x : x = Moved(m, dst, src, p + unit, n)
    OBVIOUS
  <1>2. DOMAIN x = DOMAIN m
    BY <1>1 DEF Moved
  <1>3. ASSUME NEW a \in DOMAIN m, a \in dst + p..dst + p + unit - 1
        PROVE  x[a - (dst + p) + (src + p)] = m[a - dst + src]
    <2>1. PICK j \in Int : j = a - dst + src /\ j = a - (dst + p) + (src + p)
      BY <1>3
    <2>2. j \in src..src + n - 1
      BY <1>3, <2>1
    <2>3. j \in DOMAIN m
      BY <2>2
    <2>4. j \notin dst + (p + unit)..dst + n - 1
      BY <1>3, <2>1 DEF Backward
    <2>5. x[j] = m[j]
      BY <1>1, <2>3, <2>4 DEF Moved
    <2> QED BY <2>1, <2>5
  <1>4. ASSUME NEW a \in DOMAIN m
        PROVE  (IF a \in dst + p..dst + p + unit - 1 THEN x[a - (dst + p) + (src + p)] ELSE x[a])
                 = (IF a \in dst + p..dst + n - 1 THEN m[a - dst + src] ELSE m[a])
    <2>1. x[a] = IF a \in dst + (p + unit)..dst + n - 1 THEN m[a - dst + src] ELSE m[a]
      BY <1>1 DEF Moved
    <2>2. a \in dst + p..dst + n - 1
            <=> a \in dst + p..dst + p + unit - 1 \/ a \in dst + (p + unit)..dst + n - 1
      OBVIOUS
    <2> QED BY <1>3, <2>1, <2>2
  <1>5. Copy(x, dst + p, src + p, unit)
          = [a \in DOMAIN m |-> IF a \in dst + p..dst + p + unit - 1
                                THEN x[a - (dst + p) + (src + p)] ELSE x[a]]
    BY <1>2 DEF Copy
  <1> QED BY <1>1, <1>4, <1>5 DEF Moved

LEMMA Whole ==
    ASSUME NEW n \in Nat, NEW u \in Nat, u # 0, n % u = 0
    PROVE  n \div u \in Nat /\ (n \div u) * u = n
  OBVIOUS

LEMMA UnitDivides ==
    ASSUME NEW dst \in Int, NEW src \in Int, NEW n \in Nat
    PROVE  /\ Unit(dst, src, n) \in Nat \ {0}
           /\ n \div Unit(dst, src, n) \in Nat
           /\ (n \div Unit(dst, src, n)) * Unit(dst, src, n) = n
  <1>1. WORD \in Nat \ {0}
    BY LibraryAssumption
  <1>2. CASE \A a \in {src, dst, n} : a % WORD = 0
    BY <1>1, <1>2, Whole DEF Unit
  <1>3. CASE ~(\A a \in {src, dst, n} : a % WORD = 0)
    <2>1. Unit(dst, src, n) = 1
      BY <1>3 DEF Unit
    <2>2. n \div 1 = n /\ n * 1 = n
      OBVIOUS
    <2> QED BY <2>1, <2>2
  <1> QED BY <1>2, <1>3

(* Where the moves stand after k steps. *)
LEMMA MemmoveMoves ==
    ASSUME NEW m, m = [a \in DOMAIN m |-> m[a]],
           NEW dst \in Int, NEW src \in Int, NEW n \in Nat,
           dst..dst + n - 1 \subseteq DOMAIN m, src..src + n - 1 \subseteq DOMAIN m
    PROVE  memmove(m, dst, src, n) = Moved(m, dst, src, 0, n)
  <1>1. PICK u \in Nat \ {0} : u = Unit(dst, src, n)
    BY UnitDivides
  <1>2. PICK N \in Nat : N = n \div u /\ N * u = n
    BY <1>1, UnitDivides
  <1> DEFINE Off(k) == (IF Backward(dst, src, n) THEN N - k ELSE k - 1) * u
             V(k) == IF Backward(dst, src, n) THEN Moved(m, dst, src, (N - k) * u, n)
                     ELSE Moved(m, dst, src, 0, k * u)
             St(x, k) == Copy(x, dst + Off(k), src + Off(k), u)
             F(g) == [k \in 0..N |-> IF k = 0 THEN m ELSE St(g[k - 1], k)]
  <1>3. V(0) = m
    <2>1. Moved(m, dst, src, n, n) = m
      BY DEF Moved
    <2>2. Moved(m, dst, src, 0, 0) = m
      BY DEF Moved
    <2>3. (N - 0) * u = n /\ 0 * u = 0
      BY <1>2
    <2> QED BY <2>1, <2>2, <2>3
  <1>4. ASSUME NEW k \in 0..(N - 1)
        PROVE  St(V(k), k + 1) = V(k + 1)
    <2>1. CASE Backward(dst, src, n)
      <3>1. PICK p \in Nat : p = (N - (k + 1)) * u
        OBVIOUS
      <3>2. (N - k) * u = p + u /\ p + u <= n
        BY <1>2, <3>1
      <3>3. V(k) = Moved(m, dst, src, p + u, n) /\ V(k + 1) = Moved(m, dst, src, p, n)
        BY <2>1, <3>1, <3>2
      <3>4. Off(k + 1) = p
        BY <2>1, <3>1
      <3>5. Copy(Moved(m, dst, src, p + u, n), dst + p, src + p, u) = Moved(m, dst, src, p, n)
        BY <2>1, <3>2, CopyBackward
      <3> QED BY <3>3, <3>4, <3>5
    <2>2. CASE ~Backward(dst, src, n)
      <3>1. PICK p \in Nat : p = k * u
        OBVIOUS
      <3>2. (k + 1) * u = p + u /\ p + u <= n
        BY <1>2, <3>1
      <3>3. V(k) = Moved(m, dst, src, 0, p) /\ V(k + 1) = Moved(m, dst, src, 0, p + u)
        BY <2>2, <3>1, <3>2
      <3>4. Off(k + 1) = p
        BY <2>2, <3>1
      <3>5. Copy(Moved(m, dst, src, 0, p), dst + p, src + p, u) = Moved(m, dst, src, 0, p + u)
        BY <2>2, <3>2, CopyForward, SMTT(30)
      <3> QED BY <3>3, <3>4, <3>5
    <2> QED BY <2>1, <2>2
  <1>5. V(N) = Moved(m, dst, src, 0, n)
    <2>1. (N - N) * u = 0
      OBVIOUS
    <2> QED BY <1>2, <2>1
  <1>6. memmove(m, dst, src, n) = (CHOOSE g : g = F(g))[N]
    BY <1>1, <1>2 DEF memmove
  <1> HIDE DEF V, St
  <1>7. \E g : g = F(g)
    <2>1. PICK I : I = [k \in 0..N |-> {V(k)}]
      OBVIOUS
    <2>2. PICK f : f = [k \in 1..N |-> [x \in {V(k - 1)} |-> St(x, k)]]
      OBVIOUS
    <2>3. m \in I[0]
      BY <1>3, <2>1
    <2>4. ASSUME NEW k \in 0..(N - 1), NEW x \in I[k]
          PROVE  f[k + 1][x] \in I[k + 1]
      <3>1. k + 1 \in 1..N /\ (k + 1) - 1 = k /\ k \in 0..N /\ k + 1 \in 0..N
        OBVIOUS
      <3>2. x = V(k)
        BY <2>1, <3>1
      <3>3. f[k + 1][x] = St(x, k + 1)
        BY <2>2, <3>1, <3>2
      <3>4. f[k + 1][x] = V(k + 1)
        BY <1>4, <3>2, <3>3
      <3> QED BY <2>1, <3>1, <3>4
    <2>5. PICK g : /\ IsLoop(g, N, m, f)
                   /\ \A k \in 0..N : g[k] \in I[k]
      <3>1. \A k \in 0..(N - 1) : \A x \in I[k] : f[k + 1][x] \in I[k + 1]
        BY <2>4
      <3> QED BY ONLY N \in Nat, <2>3, <3>1, LoopExists
    <2>6. ASSUME NEW k \in 0..N
          PROVE  (IF k = 0 THEN m ELSE f[k][g[k - 1]]) = (IF k = 0 THEN m ELSE St(g[k - 1], k))
      <3>1. CASE k # 0
        <4>1. k \in 1..N /\ k - 1 \in 0..N
          BY <3>1
        <4>2. g[k - 1] = V(k - 1)
          BY <2>1, <2>5, <4>1
        <4> QED BY <2>2, <4>1, <4>2
      <3> QED BY <3>1
    <2>7. g = F(g)
      BY <2>5, <2>6 DEF IsLoop
    <2> QED BY <2>7
  <1>8. PICK a : a = CHOOSE g : g = F(g)
    OBVIOUS
  <1>9. a = F(a)
    BY <1>7, <1>8
  <1>10. \A k \in 0..N : a[k] = V(k)
    <2>1. PICK I : I = [k \in 0..N |-> {V(k)}]
      OBVIOUS
    <2>2. a[0] = m
      BY <1>9
    <2>3. ASSUME NEW k \in 0..(N - 1), a[k] \in I[k]
          PROVE  a[k + 1] \in I[k + 1]
      <3>1. k + 1 \in 0..N /\ k + 1 # 0 /\ (k + 1) - 1 = k /\ k \in 0..N
        OBVIOUS
      <3>2. a[k + 1] = St(a[k], k + 1)
        BY <1>9, <3>1
      <3>3. a[k] = V(k)
        BY <2>1, <2>3, <3>1
      <3> QED BY <1>4, <2>1, <3>1, <3>2, <3>3
    <2>4. a[0] \in I[0]
      BY <1>3, <2>1, <2>2
    <2>5. \A k \in 0..N : a[k] \in I[k]
      BY ONLY N \in Nat, <2>3, <2>4, LoopInvariant
    <2> QED BY <2>1, <2>5
  <1>11. a[N] = V(N)
    BY <1>10
  <1> QED BY <1>5, <1>6, <1>8, <1>11

-----------------------------------------------------------------------------
(* stab_binsearch().  L and R are the bounds of the search, A the address;  *)
(* So are the stabs of the type and v is their addresses.                   *)

SearchState == [l : Int, r : Int, left : Int, right : Int, any : BOOLEAN, addr : Nat]

StabAt(So, v, x) == \E i \in So : v[i] = x
Sorted(So, v) == \A i, j \in So : i < j => v[i] < v[j]
Addresses(stabs, L, R, So, v) ==
    /\ So = {m \in L..R : IsSo(stabs, m)}
    /\ \A i \in So : v[i] \in Nat /\ stabs[i].n_value = v[i]

Before(A, So, v, l) == \A i \in So : i < l => v[i] <= A
After(A, So, v, r) == \A i \in So : i > r => v[i] > A
Inside(So, l, r) == \A i \in So : l <= i /\ i <= r
Hit(A, So, v, m) == m \in So /\ v[m] <= A

(* What holds before each round: to the left of l all stabs are at or below *)
(* the address, to the right of r all are above.                            *)
SearchInv(L, R, A, So, v, s) ==
    /\ L <= s.l /\ s.l <= R + 1 /\ L - 1 <= s.r /\ s.r <= R
    /\ s.right = s.r
    /\ Before(A, So, v, s.l)
    /\ After(A, So, v, s.r)
    /\ s.r = R \/ s.r + 1 \in So
    /\ s.left = L \/ Hit(A, So, v, s.left)
    /\ s.any => So # {}
    /\ ~s.any => Inside(So, s.l, s.r)
    /\ s.addr = A \/ (s.addr = A + 1 /\ StabAt(So, v, A))

(* The rounds that are left: an exact match may leave l where it is, but    *)
(* not twice.                                                               *)
Passed(So, v, l, addr) == l \in So /\ v[l] < addr
Variant(So, v, s) == 2 * (s.r - s.l + 1) + (IF Passed(So, v, s.l, s.addr) THEN 0 ELSE 1)

LEMMA Middle ==
    ASSUME NEW l \in Int, NEW r \in Int, l <= r
    PROVE  (l + r) \div 2 \in Int /\ l <= (l + r) \div 2 /\ (l + r) \div 2 <= r
  OBVIOUS

LEMMA ProbeStep ==
    ASSUME NEW stabs, NEW L \in Int, NEW R \in Int, NEW A \in Nat, NEW So, NEW v,
           Addresses(stabs, L, R, So, v), Sorted(So, v),
           ~(StabAt(So, v, A) /\ StabAt(So, v, A + 1)),
           NEW s \in SearchState, SearchInv(L, R, A, So, v, s), s.l <= s.r
    PROVE  /\ Probe(stabs, s) \in SearchState
           /\ SearchInv(L, R, A, So, v, Probe(stabs, s))
           /\ Variant(So, v, Probe(stabs, s)) < Variant(So, v, s)
  <1>1. PICK l \in Int, r \in Int, left \in Int, any \in BOOLEAN, addr \in Nat :
            s = [l |-> l, r |-> r, left |-> left, right |-> r, any |-> any, addr |-> addr]
    BY DEF SearchState, SearchInv
  <1>2. /\ s.l = l /\ s.r = r /\ s.left = left /\ s.right = r /\ s.any = any /\ s.addr = addr
        /\ l <= r
    BY <1>1
  <1>3. /\ L <= l /\ l <= R + 1 /\ L - 1 <= r /\ r <= R
        /\ Before(A, So, v, l) /\ After(A, So, v, r)
        /\ r = R \/ r + 1 \in So
        /\ left = L \/ Hit(A, So, v, left)
        /\ any => So # {}
        /\ ~any => Inside(So, l, r)
        /\ addr = A \/ (addr = A + 1 /\ StabAt(So, v, A))
    BY <1>2 DEF SearchInv
  <1>4. So \subseteq L..R /\ \A i \in So : v[i] \in Nat /\ stabs[i].n_value = v[i]
    BY DEF Addresses
  <1>5. PICK t \in Int : t = (l + r) \div 2 /\ l <= t /\ t <= r
    BY <1>2, Middle
  <1>6. PICK found : found = {m \in l..t : IsSo(stabs, m)}
    OBVIOUS
  <1>7. found = {m \in So : l <= m /\ m <= t}
    BY <1>3, <1>5, <1>6 DEF Addresses
  <1>8. CASE found = {}
    <2>1. PICK q : q = [l |-> t + 1, r |-> r, left |-> left, right |-> r, any |-> any, addr |-> addr]
      OBVIOUS
    <2>2. Probe(stabs, s) = q
      BY <1>1, <1>2, <1>5, <1>6, <1>8, <2>1 DEF Probe
    <2>3. q \in SearchState /\ q.l = t + 1 /\ q.r = r /\ q.left = left /\ q.right = r
          /\ q.any = any /\ q.addr = addr
      BY <2>1 DEF SearchState
    <2>4. Before(A, So, v, t + 1)
      BY <1>3, <1>4, <1>7, <1>8 DEF Before
    <2>5. ~any => Inside(So, t + 1, r)
      BY <1>3, <1>4, <1>7, <1>8 DEF Inside
    <2>6. SearchInv(L, R, A, So, v, q)
      BY <1>3, <1>5, <2>3, <2>4, <2>5 DEF SearchInv
    <2>7. Variant(So, v, q) < Variant(So, v, s)
      BY <1>2, <1>5, <2>3 DEF Variant
    <2> QED BY <2>2, <2>3, <2>6, <2>7
  <1>9. CASE found # {}
    <2>1. PICK m : m = GreatestOf(found)
      OBVIOUS
    <2>2. m \in found /\ \A i \in found : i <= m
      <3>1. found \in SUBSET Int /\ \A x \in found : x <= t
        BY <1>5, <1>6
      <3> QED BY <1>9, <2>1, <3>1, GreatestInt
    <2>3. m \in So /\ m \in Int /\ l <= m /\ m <= t /\ \A i \in So : i <= t => i <= m
      <3>1. \A i \in So : i <= t => i <= m
        BY <1>4, <1>7, <2>2
      <3> QED BY <1>4, <1>7, <2>2, <3>1
    <2>4. v[m] \in Nat /\ stabs[m].n_value = v[m]
      BY <1>4, <2>3
    <2>5. \A i \in So : (i < m => v[i] < v[m]) /\ (m < i => v[m] < v[i])
      BY <2>3 DEF Sorted
    <2>6. CASE v[m] < addr
      <3>1. PICK q : q = [l |-> t + 1, r |-> r, left |-> m, right |-> r, any |-> TRUE, addr |-> addr]
        OBVIOUS
      <3>2. Probe(stabs, s) = q
        <4>1. Probe(stabs, s) = [s EXCEPT !.any = TRUE, !.left = m, !.l = t + 1]
          BY <1>2, <1>5, <1>6, <1>9, <2>1, <2>3, <2>4, <2>6 DEF Probe
        <4> QED BY <1>1, <3>1, <4>1
      <3>3. q \in SearchState /\ q.l = t + 1 /\ q.r = r /\ q.left = m /\ q.right = r
            /\ q.any = TRUE /\ q.addr = addr
        BY <2>3, <3>1 DEF SearchState
      <3>4. v[m] <= A
        BY <1>3, <2>4, <2>6
      <3>5. Before(A, So, v, t + 1)
        <4> SUFFICES ASSUME NEW i \in So, i < t + 1 PROVE v[i] <= A
          BY DEF Before
        <4>1. i <= m /\ i \in Int /\ v[i] \in Nat
          BY <1>4, <2>3
        <4> QED BY <2>3, <2>4, <2>5, <3>4, <4>1
      <3>6. Hit(A, So, v, m) /\ So # {}
        BY <2>3, <3>4 DEF Hit
      <3>7. SearchInv(L, R, A, So, v, q)
        BY <1>3, <1>5, <3>3, <3>5, <3>6 DEF SearchInv
      <3>8. Variant(So, v, q) < Variant(So, v, s)
        BY <1>2, <1>5, <3>3 DEF Variant
      <3> QED BY <3>2, <3>3, <3>7, <3>8
    <2>7. CASE v[m] > addr
      <3>1. PICK q : q = [l |-> l, r |-> m - 1, left |-> left, right |-> m - 1, any |-> TRUE,
                          addr |-> addr]
        OBVIOUS
      <3>2. Probe(stabs, s) = q
        <4>1. Probe(stabs, s) = [s EXCEPT !.any = TRUE, !.right = m - 1, !.r = m - 1]
          BY <1>2, <1>5, <1>6, <1>9, <2>1, <2>3, <2>4, <2>7 DEF Probe
        <4> QED BY <1>1, <3>1, <4>1
      <3>3. q \in SearchState /\ q.l = l /\ q.r = m - 1 /\ q.left = left /\ q.right = m - 1
            /\ q.any = TRUE /\ q.addr = addr
        BY <2>3, <3>1 DEF SearchState
      <3>4. v[m] > A
        BY <1>3, <2>4, <2>7
      <3>5. After(A, So, v, m - 1)
        <4> SUFFICES ASSUME NEW i \in So, i > m - 1 PROVE v[i] > A
          BY DEF After
        <4>1. i \in Int /\ v[i] \in Nat
          BY <1>4
        <4> QED BY <2>3, <2>4, <2>5, <3>4, <4>1
      <3>6. (m - 1) + 1 \in So /\ So # {}
        BY <2>3
      <3>7. SearchInv(L, R, A, So, v, q)
        BY <1>3, <1>5, <2>3, <3>3, <3>5, <3>6 DEF SearchInv
      <3>8. Variant(So, v, q) < Variant(So, v, s)
        BY <1>2, <1>5, <2>3, <3>3 DEF Variant
      <3> QED BY <3>2, <3>3, <3>7, <3>8
    <2>8. CASE v[m] = addr
      <3>1. PICK q : q = [l |-> m, r |-> r, left |-> m, right |-> r, any |-> TRUE,
                          addr |-> addr + 1]
        OBVIOUS
      <3>2. Probe(stabs, s) = q
        <4>1. Probe(stabs, s) = [s EXCEPT !.any = TRUE, !.left = m, !.l = m, !.addr = @ + 1]
          BY <1>2, <1>5, <1>6, <1>9, <2>1, <2>3, <2>4, <2>8 DEF Probe, Exact
        <4> QED BY <1>1, <3>1, <4>1
      <3>3. q \in SearchState /\ q.l = m /\ q.r = r /\ q.left = m /\ q.right = r
            /\ q.any = TRUE /\ q.addr = addr + 1
        BY <2>3, <3>1 DEF SearchState
      <3>4. addr = A /\ StabAt(So, v, A)
        <4>1. StabAt(So, v, addr)
          BY <2>3, <2>8 DEF StabAt
        <4> QED BY <1>3, <4>1
      <3>5. Before(A, So, v, m)
        <4> SUFFICES ASSUME NEW i \in So, i < m PROVE v[i] <= A
          BY DEF Before
        <4>1. v[i] \in Nat /\ v[i] < v[m]
          BY <1>4, <2>5
        <4> QED BY <2>4, <2>8, <3>4, <4>1
      <3>6. Hit(A, So, v, m) /\ So # {}
        BY <2>3, <2>8, <3>4 DEF Hit
      <3>7. SearchInv(L, R, A, So, v, q)
        BY <1>3, <1>5, <2>3, <3>3, <3>4, <3>5, <3>6 DEF SearchInv
      <3>8. Variant(So, v, q) < Variant(So, v, s)
        <4>1. Passed(So, v, m, addr + 1)
          BY <2>3, <2>4, <2>8 DEF Passed
        <4>2. m = l => ~Passed(So, v, l, addr)
          BY <2>4, <2>8 DEF Passed
        <4> QED BY <1>2, <2>3, <3>3, <4>1, <4>2 DEF Variant
      <3> QED BY <3>2, <3>3, <3>7, <3>8
    <2> QED BY <2>4, <2>6, <2>7, <2>8
  <1> QED BY <1>8, <1>9

(* The search ends. *)
LEMMA SearchEnds ==
    ASSUME NEW stabs, NEW L \in Int, NEW R \in Int, NEW A \in Nat, NEW So, NEW v,
           L <= R + 1,
           Addresses(stabs, L, R, So, v), Sorted(So, v),
           ~(StabAt(So, v, A) /\ StabAt(So, v, A + 1)),
           NEW s, s = [l |-> L, r |-> R, left |-> L, right |-> R, any |-> FALSE, addr |-> A]
    PROVE  /\ Search(stabs, s) \in SearchState
           /\ SearchInv(L, R, A, So, v, Search(stabs, s))
           /\ Search(stabs, s).l > Search(stabs, s).r
  <1>1. PICK N \in Nat : N = 2 * (R - L + 1) + 1
    OBVIOUS
  <1>2. s.l = L /\ s.r = R /\ s.left = L /\ s.right = R /\ s.any = FALSE /\ s.addr = A
    OBVIOUS
  <1> DEFINE F(g) == [n \in 0..N |-> IF n = 0 THEN s ELSE Probe(stabs, g[n - 1])]
             Ok(x, n) == /\ x \in SearchState /\ SearchInv(L, R, A, So, v, x)
                         /\ x.l <= x.r => Variant(So, v, x) <= N - n
  <1>3. Search(stabs, s) = (CHOOSE g : g = F(g))[N]
    BY <1>1, <1>2 DEF Search
  <1>4. Ok(s, 0)
    <2>1. s \in SearchState
      BY DEF SearchState
    <2>2. So \subseteq L..R
      BY DEF Addresses
    <2>3. Before(A, So, v, L) /\ After(A, So, v, R) /\ Inside(So, L, R)
      BY <2>2 DEF Before, After, Inside
    <2>4. SearchInv(L, R, A, So, v, s)
      BY <1>2, <2>3 DEF SearchInv
    <2>5. Variant(So, v, s) <= N - 0
      BY <1>1, <1>2 DEF Variant
    <2> QED BY <2>1, <2>4, <2>5
  <1>5. ASSUME NEW x, NEW n \in 0..(N - 1), Ok(x, n)
        PROVE  Ok(Probe(stabs, x), n + 1)
    <2>1. x.l \in Int /\ x.r \in Int
      BY <1>5 DEF SearchState
    <2>2. CASE x.l > x.r
      <3>1. Probe(stabs, x) = x /\ ~(x.l <= x.r)
        BY <2>1, <2>2 DEF Probe
      <3> QED BY <1>5, <3>1
    <2>3. CASE x.l <= x.r
      <3>1. PICK q : q = Probe(stabs, x)
        OBVIOUS
      <3>2. q \in SearchState /\ SearchInv(L, R, A, So, v, q)
            /\ Variant(So, v, q) < Variant(So, v, x)
        BY <1>5, <2>3, <3>1, ProbeStep
      <3>3. Variant(So, v, q) \in Int /\ Variant(So, v, x) \in Int
        BY <1>5, <3>2 DEF Variant, SearchState
      <3>4. Variant(So, v, x) <= N - n
        BY <1>5, <2>3
      <3>5. Variant(So, v, q) <= N - (n + 1)
        BY <3>2, <3>3, <3>4
      <3> QED BY <3>1, <3>2, <3>5
    <2> QED BY <2>1, <2>2, <2>3
  <1> HIDE DEF Ok
  <1>6. PICK I : I = [n \in 0..N |-> {x \in SearchState : Ok(x, n)}]
    OBVIOUS
  <1>7. ASSUME NEW x, NEW n \in 0..N
        PROVE  x \in I[n] <=> Ok(x, n)
    BY <1>6 DEF Ok
  <1>8. \E g : g = F(g)
    <2>1. PICK f : f = [n \in 1..N |-> [x \in SearchState |-> Probe(stabs, x)]]
      OBVIOUS
    <2>2. s \in I[0]
      BY <1>4, <1>7
    <2>3. ASSUME NEW n \in 0..(N - 1), NEW x \in I[n]
          PROVE  f[n + 1][x] \in I[n + 1]
      <3>1. n + 1 \in 1..N /\ n \in 0..N /\ n + 1 \in 0..N
        OBVIOUS
      <3>2. Ok(x, n) /\ x \in SearchState
        BY <1>6, <1>7, <3>1
      <3>3. f[n + 1][x] = Probe(stabs, x)
        BY <2>1, <3>1, <3>2
      <3>4. Ok(Probe(stabs, x), n + 1)
        BY <1>5, <3>2
      <3> QED BY <1>7, <3>1, <3>3, <3>4
    <2>4. PICK g : IsLoop(g, N, s, f) /\ \A n \in 0..N : g[n] \in I[n]
      <3>1. \A n \in 0..(N - 1) : \A x \in I[n] : f[n + 1][x] \in I[n + 1]
        BY <2>3
      <3> QED BY ONLY N \in Nat, <2>2, <3>1, LoopExists
    <2>5. ASSUME NEW n \in 0..N
          PROVE  (IF n = 0 THEN s ELSE f[n][g[n - 1]]) = (IF n = 0 THEN s ELSE Probe(stabs, g[n - 1]))
      <3>1. CASE n # 0
        <4>1. n \in 1..N /\ n - 1 \in 0..N
          BY <3>1
        <4>2. g[n - 1] \in SearchState
          BY <1>6, <2>4, <4>1
        <4> QED BY <2>1, <4>1, <4>2
      <3> QED BY <3>1
    <2>6. g = F(g)
      BY <2>4, <2>5 DEF IsLoop
    <2> QED BY <2>6
  <1>9. PICK a : a = CHOOSE g : g = F(g)
    OBVIOUS
  <1>10. a = F(a)
    BY <1>8, <1>9
  <1>11. \A n \in 0..N : a[n] \in I[n]
    <2>1. a[0] \in I[0]
      BY <1>4, <1>7, <1>10
    <2>2. ASSUME NEW n \in 0..(N - 1), a[n] \in I[n]
          PROVE  a[n + 1] \in I[n + 1]
      <3>1. n + 1 \in 0..N /\ n + 1 # 0 /\ (n + 1) - 1 = n /\ n \in 0..N
        OBVIOUS
      <3>2. a[n + 1] = Probe(stabs, a[n])
        BY <1>10, <3>1
      <3>3. Ok(a[n], n)
        BY <1>7, <2>2, <3>1
      <3> QED BY <1>5, <1>7, <3>1, <3>2, <3>3
    <2> QED BY ONLY N \in Nat, <2>1, <2>2, LoopInvariant
  <1>12. Ok(a[N], N)
    BY <1>7, <1>11
  <1>13. PICK q \in SearchState : q = a[N]
    BY <1>12 DEF Ok
  <1>14. SearchInv(L, R, A, So, v, q) /\ (q.l <= q.r => Variant(So, v, q) <= N - N)
    BY <1>12, <1>13 DEF Ok
  <1>15. q.l > q.r
    <2>1. q.l \in Int /\ q.r \in Int
      BY DEF SearchState
    <2>2. q.l <= q.r => Variant(So, v, q) > 0
      BY <2>1 DEF Variant
    <2>3. Variant(So, v, q) \in Int
      BY <2>1 DEF Variant
    <2> QED BY <1>14, <2>1, <2>2, <2>3
  <1> QED BY <1>3, <1>9, <1>13, <1>14, <1>15

(* What StabFound says of a search, with its sets named. *)
Below(So, v, A) == {m \in So : v[m] <= A}
Above(So, v, A) == {m \in So : v[m] > A}
Finds(L, R, So, below, next, out) ==
    /\ below # {} => /\ out.left = GreatestOf(below)
                     /\ out.right = IF next = {} THEN R ELSE LeastOf(next) - 1
    /\ So = {} => out.left > out.right
    /\ So # {} /\ below = {} => /\ out.left = IF L < LeastOf(So) THEN L ELSE L - 1
                                /\ out.right = LeastOf(So) - 1

LEMMA SearchFinds ==
    ASSUME NEW stabs, NEW L \in Int, NEW R \in Int, NEW A \in Nat, NEW So, NEW v,
           L <= R + 1,
           Addresses(stabs, L, R, So, v), Sorted(So, v),
           NEW below, below = Below(So, v, A),
           NEW next, next = Above(So, v, A),
           NEW out, out = stab_binsearch(stabs, L, R, A),
           ~(StabAt(So, v, A) /\ StabAt(So, v, A + 1))
    PROVE  Finds(L, R, So, below, next, out)
  <1>0. below = {m \in So : v[m] <= A} /\ next = {m \in So : v[m] > A}
    BY DEF Below, Above
  <1>1. PICK s : s = [l |-> L, r |-> R, left |-> L, right |-> R, any |-> FALSE, addr |-> A]
    OBVIOUS
  <1>2. PICK q \in SearchState : q = Search(stabs, s) /\ SearchInv(L, R, A, So, v, q) /\ q.l > q.r
    BY <1>1, SearchEnds
  <1>3. PICK l \in Int, r \in Int, left \in Int, any \in BOOLEAN :
            q.l = l /\ q.r = r /\ q.right = r /\ q.left = left /\ q.any = any
    BY <1>2 DEF SearchState, SearchInv
  <1>4. /\ l > r /\ L <= l /\ r <= R /\ L - 1 <= r
        /\ Before(A, So, v, l) /\ After(A, So, v, r)
        /\ r = R \/ r + 1 \in So
        /\ left = L \/ Hit(A, So, v, left)
        /\ any => So # {}
        /\ ~any => Inside(So, l, r)
    BY <1>2, <1>3 DEF SearchInv
  <1>5. So \subseteq L..R /\ \A i \in So : v[i] \in Nat
    BY DEF Addresses
  <1>5a. \A i \in So : i \in Int /\ L <= i /\ i <= R
    BY <1>5
  <1>6. any <=> So # {}
    <2> SUFFICES ASSUME ~any, So # {} PROVE FALSE
      BY <1>4
    <2>1. PICK i \in So : i \in Int
      BY <1>5a
    <2>2. l <= i /\ i <= r
      BY <1>4, <2>1 DEF Inside
    <2> QED BY <1>4, <2>1, <2>2
  <1>7. below = {i \in So : i <= r} /\ next = {i \in So : i > r}
    <2>1. \A i \in So : (i <= r => v[i] <= A) /\ (i > r => v[i] > A)
      BY <1>4, <1>5 DEF Before, After
    <2>2. \A i \in So : (i <= r <=> v[i] <= A) /\ (i > r <=> v[i] > A)
      <3> SUFFICES ASSUME NEW i \in So PROVE (i <= r <=> v[i] <= A) /\ (i > r <=> v[i] > A)
        OBVIOUS
      <3> QED BY <1>5, <1>5a, <2>1
    <2> QED BY <1>0, <2>2
  <1>8. PICK last : last = {m \in left + 1..r : IsSo(stabs, m)}
    OBVIOUS
  <1>9. out = IF ~any THEN [left |-> left, right |-> left - 1]
              ELSE [left |-> IF last # {} THEN GreatestOf(last)
                             ELSE IF r < left THEN r ELSE left,
                    right |-> r]
    BY <1>1, <1>2, <1>3, <1>8 DEF stab_binsearch
  <1>10. last = {i \in So : left < i /\ i <= r}
    <2>1. L <= left
      BY <1>4, <1>5 DEF Hit
    <2> QED BY <1>3, <1>4, <1>8, <2>1 DEF Addresses
  <1>11. ASSUME below # {}
         PROVE  /\ out.left = GreatestOf(below)
                /\ out.right = IF next = {} THEN R ELSE LeastOf(next) - 1
    <2>1. any
      BY <1>6, <1>7, <1>11
    <2>2. out.right = r /\ out.left = IF last # {} THEN GreatestOf(last)
                                      ELSE IF r < left THEN r ELSE left
      BY <1>9, <2>1
    <2>3. PICK b \in Int : b = GreatestOf(below) /\ b \in So /\ b <= r /\ \A i \in below : i <= b
      <3>1. below \in SUBSET Int /\ \A x \in below : x <= r
        BY <1>5a, <1>7
      <3>2. GreatestOf(below) \in below /\ \A i \in below : i <= GreatestOf(below)
        BY <1>11, <3>1, GreatestInt
      <3>3. GreatestOf(below) \in So /\ GreatestOf(below) <= r
        BY <1>7, <3>2
      <3> QED BY <1>5a, <3>2, <3>3
    <2>4. left = L \/ left \in below
      BY <1>0, <1>4 DEF Hit
    <2>5. out.left = b
      <3>1. CASE last # {}
        <4>1. PICK g : g = GreatestOf(last)
          OBVIOUS
        <4>2. g \in last /\ \A i \in last : i <= g
          <5>1. last \in SUBSET Int /\ \A x \in last : x <= r
            BY <1>8
          <5> QED BY <3>1, <4>1, <5>1, GreatestInt
        <4>3. g \in Int /\ g \in below /\ left < g
          BY <1>5, <1>7, <1>10, <4>2
        <4>4. g <= b
          BY <2>3, <4>3
        <4>5. b \in last
          BY <1>10, <2>3, <4>3, <4>4
        <4>6. b <= g
          BY <4>2, <4>5
        <4> QED BY <2>2, <2>3, <3>1, <4>1, <4>3, <4>4, <4>6
      <3>2. CASE last = {}
        <4>1. ~(left < b)
          BY <1>10, <2>3, <3>2
        <4>2. b >= L
          BY <1>5, <2>3
        <4>3. left = b
          BY <2>3, <2>4, <4>1, <4>2
        <4> QED BY <2>2, <2>3, <3>2, <4>3
      <3> QED BY <3>1, <3>2
    <2>6. r = IF next = {} THEN R ELSE LeastOf(next) - 1
      <3>1. CASE next = {}
        <4>1. ~(r + 1 \in So)
          BY <1>7, <3>1
        <4> QED BY <1>4, <3>1, <4>1
      <3>2. CASE next # {}
        <4>1. PICK g : g = LeastOf(next)
          OBVIOUS
        <4>2. g \in next /\ \A i \in next : g <= i
          <5>1. next \in SUBSET Int /\ \A x \in next : r <= x
            BY <1>5a, <1>7
          <5> QED BY <3>2, <4>1, <5>1, LeastInt
        <4>3. g \in Int /\ g > r /\ g <= R
          BY <1>5, <1>7, <4>2
        <4>4. r + 1 \in next
          BY <1>4, <1>7, <4>3
        <4>5. g <= r + 1
          BY <4>2, <4>4
        <4>6. r = g - 1
          BY <4>3, <4>5
        <4> QED BY <3>2, <4>1, <4>6
      <3> QED BY <3>1, <3>2
    <2> QED BY <2>2, <2>3, <2>5, <2>6
  <1>12. ASSUME So = {}
         PROVE  out.left > out.right
    <2>1. out.left = left /\ out.right = left - 1
      BY <1>6, <1>9, <1>12
    <2> QED BY <2>1
  <1>13. ASSUME So # {}, below = {}
         PROVE  /\ out.left = IF L < LeastOf(So) THEN L ELSE L - 1
                /\ out.right = LeastOf(So) - 1
    <2>1. left = L /\ last = {}
      <3>1. ~Hit(A, So, v, left)
        BY <1>0, <1>13 DEF Hit
      <3> QED BY <1>4, <1>7, <1>10, <1>13, <3>1
    <2>2. out.right = r /\ out.left = IF r < L THEN r ELSE L
      BY <1>6, <1>9, <1>13, <2>1
    <2>3. PICK g : g = LeastOf(So)
      OBVIOUS
    <2>4. g \in So /\ \A i \in So : g <= i
      <3>1. So \in SUBSET Int /\ \A x \in So : L <= x
        BY <1>5
      <3> QED BY <1>13, <2>3, <3>1, LeastInt
    <2>5. g \in Int /\ L <= g /\ g <= R /\ ~(g <= r)
      BY <1>5a, <1>7, <1>13, <2>4
    <2>6. g <= r + 1
      BY <1>4, <2>4, <2>5
    <2>7. r = g - 1
      BY <2>5, <2>6
    <2> QED BY <1>4, <2>2, <2>3, <2>5, <2>7
  <1> QED BY <1>11, <1>12, <1>13 DEF Finds

-----------------------------------------------------------------------------
(* bootmain() *)

Segments == [pa : Nat, memsz : Nat, offset : Nat]

LEMMA DivMod ==
    ASSUME NEW x \in Nat, NEW u \in Nat, u # 0
    PROVE  /\ x \div u \in Nat /\ x % u \in Nat
           /\ x % u < u
           /\ x = (x \div u) * u + (x % u)
  OBVIOUS

LEMMA DivModPair ==
    ASSUME NEW x \in Nat, NEW u \in Nat, u # 0
    PROVE  \E q, r \in Nat : q = x \div u /\ r = x % u /\ r < u /\ x = q * u + r
  BY DivMod

LEMMA SameQuotient ==
    ASSUME NEW x \in Nat, NEW y \in Nat, NEW u \in Nat, u # 0, x <= y, y - (y % u) <= x
    PROVE  x \div u = y \div u
  <1>1. PICK q \in Nat, r \in Nat : q = y \div u /\ r = y % u /\ r < u /\ y = q * u + r
    BY DivMod
  <1>2. PICK p \in Nat, t \in Nat : p = x \div u /\ t = x % u /\ t < u /\ x = p * u + t
    BY DivMod
  <1>3. q * u <= x
    BY <1>1
  <1>4. PICK d \in Int : d = q - p
    BY <1>1, <1>2
  <1>5. d * u = q * u - p * u
    BY <1>4
  <1>6. d * u <= t /\ d * u > t - u - u
    BY <1>1, <1>2, <1>3, <1>5
  <1>7. ~(d >= 1)
    <2> SUFFICES ASSUME d >= 1 PROVE FALSE
      OBVIOUS
    <2>1. d * u >= u
      BY <1>4
    <2> QED BY <1>2, <1>6, <2>1
  <1>8. ~(d <= -1)
    <2> SUFFICES ASSUME d <= -1 PROVE FALSE
      OBVIOUS
    <2>1. d * u <= -u
      BY <1>4
    <2>2. q * u - p * u <= -u
      BY <1>5, <2>1
    <2>3. x - y = p * u - q * u + t - r
      BY <1>1, <1>2
    <2> QED BY <1>1, <1>2, <2>2, <2>3
  <1> QED BY <1>1, <1>2, <1>4, <1>7, <1>8

(* What one segment's sectors hold, and which addresses they fill. *)
LEMMA ReadsegHolds ==
    ASSUME NEW top \in Int, NEW bytes \in [0..top -> Int], NEW seg \in Segments,
           seg.pa % SECTSIZE = seg.offset % SECTSIZE
    PROVE  /\ readseg(bytes, seg) \in [0..top -> Int]
           /\ \A a \in 0..top :
                 /\ seg.pa <= a /\ a < seg.pa + seg.memsz
                       => readseg(bytes, seg)[a] = a - seg.pa + seg.offset
                 /\ \/ readseg(bytes, seg)[a] = bytes[a]
                    \/ /\ readseg(bytes, seg)[a] = a - seg.pa + seg.offset
                       /\ seg.pa - (seg.pa % SECTSIZE) <= a
  <1>1. PICK S \in Nat : S = SECTSIZE /\ S # 0
    BY LibraryAssumption
  <1>2. PICK pa \in Nat, n \in Nat, off \in Nat : pa = seg.pa /\ n = seg.memsz /\ off = seg.offset
    BY DEF Segments
  <1>3. PICK r \in Nat, q \in Nat, o \in Nat :
            /\ r = pa % S /\ r = off % S /\ r < S
            /\ q = pa \div S /\ pa = q * S + r
            /\ o = off \div S /\ off = o * S + r
    <2>1. PICK q, r \in Nat : q = pa \div S /\ r = pa % S /\ r < S /\ pa = q * S + r
      BY <1>1, DivModPair
    <2>2. PICK o, t \in Nat : o = off \div S /\ t = off % S /\ t < S /\ off = o * S + t
      BY <1>1, DivModPair, ZenonT(40)
    <2>3. r = t
      BY <1>1, <1>2, <2>1, <2>2
    <2> QED BY <2>1, <2>2, <2>3
  <1>4. PICK low \in Nat : low = pa - r
    BY <1>3
  <1>5. PICK len \in Nat : len = pa + n - low + S - 1
    BY <1>1, <1>3, <1>4, SMTT(40)
  <1>6. PICK c \in Nat, e \in Nat : c = len \div S /\ len = c * S + e /\ e < S
    BY <1>1, DivMod
  <1>7. PICK hi \in Int : hi = low + c * S - 1
    BY <1>1, <1>4, <1>6
  <1>8. hi + 1 >= pa + n
    BY <1>1, <1>4, <1>5, <1>6, <1>7, SMTT(30)
  <1>9. readseg(bytes, seg) = [a \in 0..top |->
            IF a \in low..hi
            THEN readsect(FirstSector(off) + (a - low) \div S, (a - low) % S)
            ELSE bytes[a]]
    BY <1>1, <1>2, <1>3, <1>4, <1>5, <1>6, <1>7 DEF readseg
  <1>10. ASSUME NEW a \in Nat, low <= a
         PROVE  readsect(FirstSector(off) + (a - low) \div S, (a - low) % S) = a - pa + off
    <2>1. PICK x \in Nat : x = a - low
      BY <1>10
    <2>2. PICK y, z \in Nat : y = x \div S /\ z = x % S /\ z < S /\ x = y * S + z
      BY <1>1, DivModPair
    <2>3. FirstSector(off) = o + 1
      BY <1>1, <1>3 DEF FirstSector
    <2>4. readsect((o + 1) + y, z) = ((o + 1) + y - 1) * S + z
      BY <1>1 DEF readsect
    <2>5. ((o + 1) + y - 1) * S + z = o * S + y * S + z
      BY <1>1, <1>3, <2>2, SMTT(30)
    <2>6. o * S + y * S + z = a - pa + off
      <3>1. \A g, h \in Nat : g * h \in Int
        OBVIOUS
      <3>2. o * S \in Int /\ y * S \in Int
        BY <1>1, <1>3, <2>2, <3>1
      <3>3. PICK g \in Int, h \in Int : g = o * S /\ h = y * S
        BY <3>2
      <3>4. off = g + r /\ low = pa - r /\ a = low + h + z
        <4>1. off = g + r
          BY <1>3, <3>3
        <4>2. low = pa - r
          BY <1>4
        <4>3. a - low = h + z
          BY <2>1, <2>2, <3>3
        <4> QED BY <4>1, <4>2, <4>3
      <3>5. g + h + z = a - pa + off
        BY ONLY <3>4, g \in Int, h \in Int, z \in Nat, r \in Nat, pa \in Nat
      <3> QED BY <3>3, <3>5
    <2> QED BY <2>1, <2>2, <2>3, <2>4, <2>5, <2>6
  <1>11. ASSUME NEW a \in 0..top
         PROVE  /\ a \in low..hi => readseg(bytes, seg)[a] = a - pa + off /\ low <= a
                /\ a \notin low..hi => readseg(bytes, seg)[a] = bytes[a]
    <2>1. a \in Nat
      OBVIOUS
    <2>2. a \in low..hi => low <= a
      OBVIOUS
    <2> QED BY <1>9, <1>10, <2>1, <2>2
  <1>12. readseg(bytes, seg) \in [0..top -> Int]
    <2>1. ASSUME NEW a \in 0..top PROVE readseg(bytes, seg)[a] \in Int
      <3>1. bytes[a] \in Int /\ a - pa + off \in Int
        OBVIOUS
      <3> QED BY <1>11, <3>1
    <2>2. readseg(bytes, seg) = [a \in 0..top |-> readseg(bytes, seg)[a]]
      BY <1>9
    <2> QED BY <2>1, <2>2
  <1>13. ASSUME NEW a \in 0..top, pa <= a, a < pa + n
         PROVE  a \in low..hi
    <2>1. low <= a
      BY <1>3, <1>4, <1>13, SMTT(30)
    <2>2. a <= hi
      BY <1>7, <1>8, <1>13
    <2> QED BY <2>1, <2>2
  <1>14. seg.pa - (seg.pa % SECTSIZE) = low
    BY <1>1, <1>2, <1>3, <1>4
  <1> QED BY <1>2, <1>11, <1>12, <1>13, <1>14

(* The segments an image may have, and what is loaded after k of them. *)
Loadable(image) ==
    /\ image \in Seq(Segments)
    /\ \A n \in DOMAIN image : image[n].pa % SECTSIZE = image[n].offset % SECTSIZE
    /\ \A i, j \in DOMAIN image :
          i < j /\ image[i].memsz > 0 =>
              /\ image[i].pa + image[i].memsz <= image[j].pa
              /\ (image[i].pa + image[i].memsz - 1) \div SECTSIZE = image[j].pa \div SECTSIZE =>
                    image[j].pa - image[i].pa = image[j].offset - image[i].offset
Covers(seg, a) == seg.pa <= a /\ a < seg.pa + seg.memsz
LoadedTo(image, top, k, bytes) ==
    \A i \in 1..k : \A a \in 0..top : Covers(image[i], a) => bytes[a] = a - image[i].pa + image[i].offset

LEMMA ReadsegLoads ==
    ASSUME NEW image, Loadable(image), NEW top \in Int, NEW k \in Nat, k + 1 \in DOMAIN image,
           NEW bytes \in [0..top -> Int], LoadedTo(image, top, k, bytes)
    PROVE  /\ readseg(bytes, image[k + 1]) \in [0..top -> Int]
           /\ LoadedTo(image, top, k + 1, readseg(bytes, image[k + 1]))
  <1>1. PICK seg \in Segments : seg = image[k + 1]
    BY ElementOfSeq DEF Loadable
  <1>2. seg.pa % SECTSIZE = seg.offset % SECTSIZE
    BY <1>1 DEF Loadable
  <1>3. PICK x : x = readseg(bytes, seg)
    OBVIOUS
  <1>4. x \in [0..top -> Int]
        /\ \A a \in 0..top :
                 /\ seg.pa <= a /\ a < seg.pa + seg.memsz => x[a] = a - seg.pa + seg.offset
                 /\ x[a] = bytes[a] \/ (x[a] = a - seg.pa + seg.offset
                                      /\ seg.pa - (seg.pa % SECTSIZE) <= a)
    BY <1>2, <1>3, ReadsegHolds
  <1>5. ASSUME NEW i \in 1..(k + 1), NEW a \in 0..top, Covers(image[i], a)
        PROVE  x[a] = a - image[i].pa + image[i].offset
    <2>1. CASE i = k + 1
      BY <1>1, <1>4, <1>5, <2>1 DEF Covers
    <2>2. CASE i # k + 1
      <3>1. i \in 1..k /\ i < k + 1 /\ i \in DOMAIN image
        BY <2>2, LenProperties DEF Loadable
      <3>2. PICK t \in Segments : t = image[i]
        BY <3>1, ElementOfSeq DEF Loadable
      <3>3. bytes[a] = a - t.pa + t.offset
        BY <1>5, <3>1, <3>2 DEF LoadedTo
      <3>4. PICK p \in Nat, n \in Nat, o \in Nat : p = t.pa /\ n = t.memsz /\ o = t.offset
        BY DEF Segments
      <3>5. PICK pa \in Nat, off \in Nat : pa = seg.pa /\ off = seg.offset
        BY DEF Segments
      <3>6. p <= a /\ a < p + n /\ n > 0
        BY <1>5, <3>2, <3>4 DEF Covers
      <3>7. p + n <= pa /\ ((p + n - 1) \div SECTSIZE = pa \div SECTSIZE => pa - p = off - o)
        BY <1>1, <3>1, <3>2, <3>4, <3>5, <3>6 DEF Loadable
      <3>8. CASE x[a] = bytes[a]
        BY <3>2, <3>3, <3>8
      <3>9. CASE x[a] = a - seg.pa + seg.offset /\ seg.pa - (seg.pa % SECTSIZE) <= a
        <4>1. p + n - 1 \in Nat /\ p + n - 1 <= pa /\ a <= p + n - 1
          BY <3>4, <3>6, <3>7, SMTT(40)
        <4>2. pa % SECTSIZE \in Int
          BY <3>5, LibraryAssumption, DivMod, SMTT(30)
        <4>3. pa - (pa % SECTSIZE) <= p + n - 1
          BY <3>5, <3>9, <4>1, <4>2
        <4>4. (p + n - 1) \div SECTSIZE = pa \div SECTSIZE
          BY <4>1, <4>3, LibraryAssumption, SameQuotient
        <4>5. pa - p = off - o
          BY <3>7, <4>4
        <4>6. x[a] = a - pa + off
          BY <3>5, <3>9
        <4>7. a \in Int /\ a - pa + off = a - p + o
          BY <4>5
        <4> QED BY <3>2, <3>4, <4>6, <4>7
      <3> QED BY <1>4, <3>8, <3>9
    <2> QED BY <2>1, <2>2
  <1> QED BY <1>1, <1>3, <1>4, <1>5 DEF LoadedTo

EndOf(image, n) == image[n].pa + image[n].memsz

LEMMA ImageEnd ==
    ASSUME NEW image \in Seq(Segments)
    PROVE  \E b \in Nat : \A n \in DOMAIN image : EndOf(image, n) <= b
  <1>1. PICK N \in Nat : N = Len(image) /\ DOMAIN image = 1..N
    BY LenProperties
  <1>2. \A n \in 1..N : EndOf(image, n) \in Nat
    <2> SUFFICES ASSUME NEW n \in 1..N PROVE EndOf(image, n) \in Nat
      OBVIOUS
    <2>1. image[n] \in Segments
      BY <1>1, ElementOfSeq
    <2> QED BY <2>1 DEF Segments, EndOf
  <1> DEFINE S == {k \in 0..N : \E b \in Nat : \A n \in 1..k : EndOf(image, n) <= b}
  <1>3. 0 \in S
    OBVIOUS
  <1>4. ASSUME NEW k \in 0..(N - 1), k \in S
        PROVE  k + 1 \in S
    <2>1. PICK b \in Nat : \A n \in 1..k : EndOf(image, n) <= b
      BY <1>4
    <2>2. PICK e \in Nat : e = EndOf(image, k + 1)
      BY <1>2
    <2>3. ASSUME NEW n \in 1..(k + 1) PROVE EndOf(image, n) <= b + e
      <3>1. CASE n = k + 1
        BY <2>2, <3>1
      <3>2. CASE n # k + 1
        <4>1. n \in 1..k /\ n \in 1..N
          BY <3>2
        <4>2. EndOf(image, n) <= b /\ EndOf(image, n) \in Nat
          BY <1>2, <2>1, <4>1
        <4> QED BY <4>2
      <3> QED BY <3>1, <3>2
    <2>4. b + e \in Nat /\ k + 1 \in 0..N
      OBVIOUS
    <2> QED BY <2>3, <2>4
  <1>5. N \in S
    <2> HIDE DEF S
    <2>1. \A n \in 0..N : n \in S
      BY <1>3, <1>4, Rounds
    <2> QED BY <2>1
  <1> QED BY <1>1, <1>5

LEMMA BootmainLoads ==
    ASSUME NEW image, Loadable(image),
           NEW n \in DOMAIN image, NEW i \in 0..(image[n].memsz - 1)
    PROVE  bootmain(image)[image[n].pa + i] = image[n].offset + i
  <1>1. PICK N \in Nat : N = Len(image) /\ DOMAIN image = 1..N
    BY LenProperties DEF Loadable
  <1>2. PICK ends : ends = {s.pa + s.memsz : s \in {image[k] : k \in DOMAIN image}}
    OBVIOUS
  <1>3. ends = {EndOf(image, k) : k \in DOMAIN image}
    BY <1>2 DEF EndOf
  <1>4. \A k \in DOMAIN image : EndOf(image, k) \in Nat
    <2> SUFFICES ASSUME NEW k \in DOMAIN image PROVE EndOf(image, k) \in Nat
      OBVIOUS
    <2>1. image[k] \in Segments
      BY ElementOfSeq, <1>1 DEF Loadable
    <2> QED BY <2>1 DEF Segments, EndOf
  <1>5. GreatestOf(ends) \in Nat /\ EndOf(image, n) <= GreatestOf(ends)
    <2>1. PICK b \in Nat : \A k \in DOMAIN image : EndOf(image, k) <= b
      BY ImageEnd DEF Loadable
    <2>2. ends \in SUBSET Int /\ ends # {} /\ EndOf(image, n) \in ends /\ \A x \in ends : x \in Nat /\ x <= b
      BY <1>3, <1>4, <2>1
    <2>3. b \in Int
      BY <2>1
    <2>4. GreatestOf(ends) \in ends /\ \A y \in ends : y <= GreatestOf(ends)
      BY ONLY <2>2, <2>3, GreatestInt
    <2> QED BY <2>2, <2>4
  <1>6. PICK top \in Int : top = GreatestOf(ends) + SECTSIZE /\ EndOf(image, n) <= top
    BY <1>4, <1>5, LibraryAssumption
  <1>7. PICK zero : zero = [a \in 0..top |-> -1]
    OBVIOUS
  <1> DEFINE F(g) == [k \in 0..N |-> IF k = 0 THEN zero ELSE readseg(g[k - 1], image[k])]
             Mem == [0..top -> Int]
  <1>8. bootmain(image) = (CHOOSE g : g = F(g))[N]
    BY <1>1, <1>2, <1>6, <1>7 DEF bootmain
  <1>9. zero \in Mem /\ LoadedTo(image, top, 0, zero)
    BY <1>7 DEF LoadedTo
  <1>10. ASSUME NEW k \in 0..(N - 1), NEW x \in Mem, LoadedTo(image, top, k, x)
         PROVE  /\ readseg(x, image[k + 1]) \in Mem
                /\ LoadedTo(image, top, k + 1, readseg(x, image[k + 1]))
    <2>1. k \in Nat /\ k + 1 \in DOMAIN image
      BY <1>1
    <2> QED BY <1>10, <2>1, ReadsegLoads
  <1> HIDE DEF Mem
  <1>11. PICK I : I = [k \in 0..N |-> {x \in Mem : LoadedTo(image, top, k, x)}]
    OBVIOUS
  <1>12. ASSUME NEW x, NEW k \in 0..N
         PROVE  x \in I[k] <=> x \in Mem /\ LoadedTo(image, top, k, x)
    BY <1>11
  <1>13. \E g : g = F(g)
    <2>1. PICK f : f = [k \in 1..N |-> [x \in Mem |-> readseg(x, image[k])]]
      OBVIOUS
    <2>2. zero \in I[0]
      BY <1>9, <1>12
    <2>3. ASSUME NEW k \in 0..(N - 1), NEW x \in I[k]
          PROVE  f[k + 1][x] \in I[k + 1]
      <3>1. k + 1 \in 1..N /\ k \in 0..N /\ k + 1 \in 0..N
        OBVIOUS
      <3>2. x \in Mem /\ LoadedTo(image, top, k, x)
        BY <1>12, <3>1
      <3>3. f[k + 1][x] = readseg(x, image[k + 1])
        BY <2>1, <3>1, <3>2
      <3> QED BY <1>10, <1>12, <3>1, <3>2, <3>3
    <2>4. PICK g : IsLoop(g, N, zero, f) /\ \A k \in 0..N : g[k] \in I[k]
      <3>1. \A k \in 0..(N - 1) : \A x \in I[k] : f[k + 1][x] \in I[k + 1]
        BY <2>3
      <3> QED BY ONLY N \in Nat, <2>2, <3>1, LoopExists
    <2>5. ASSUME NEW k \in 0..N
          PROVE  (IF k = 0 THEN zero ELSE f[k][g[k - 1]])
                   = (IF k = 0 THEN zero ELSE readseg(g[k - 1], image[k]))
      <3>1. CASE k # 0
        <4>1. k \in 1..N /\ k - 1 \in 0..N
          BY <3>1
        <4>2. g[k - 1] \in Mem
          BY <1>12, <2>4, <4>1
        <4> QED BY <2>1, <4>1, <4>2
      <3> QED BY <3>1
    <2>6. g = F(g)
      BY <2>4, <2>5 DEF IsLoop
    <2> QED BY <2>6
  <1>14. PICK m : m = CHOOSE g : g = F(g)
    OBVIOUS
  <1>15. m = F(m)
    BY <1>13, <1>14
  <1>16. \A k \in 0..N : m[k] \in I[k]
    <2>1. m[0] \in I[0]
      BY <1>9, <1>12, <1>15
    <2>2. ASSUME NEW k \in 0..(N - 1), m[k] \in I[k]
          PROVE  m[k + 1] \in I[k + 1]
      <3>1. k + 1 \in 0..N /\ k + 1 # 0 /\ (k + 1) - 1 = k /\ k \in 0..N
        OBVIOUS
      <3>2. m[k + 1] = readseg(m[k], image[k + 1])
        BY <1>15, <3>1
      <3>3. m[k] \in Mem /\ LoadedTo(image, top, k, m[k])
        BY <1>12, <2>2, <3>1
      <3> QED BY <1>10, <1>12, <3>1, <3>2, <3>3
    <2> QED BY ONLY N \in Nat, <2>1, <2>2, LoopInvariant
  <1>17. LoadedTo(image, top, N, m[N])
    BY <1>12, <1>16
  <1>18. PICK seg \in Segments : seg = image[n]
    BY <1>1, ElementOfSeq DEF Loadable
  <1>19. PICK p \in Nat, z \in Nat, o \in Nat : p = seg.pa /\ z = seg.memsz /\ o = seg.offset
    BY DEF Segments
  <1>20. i \in Nat /\ i < z /\ p + z <= top
    BY <1>6, <1>18, <1>19 DEF EndOf
  <1>21. p + i \in 0..top /\ p <= p + i /\ p + i < p + z
    BY <1>20
  <1>22. Covers(image[n], p + i)
    BY <1>18, <1>19, <1>21 DEF Covers
  <1>23. m[N][p + i] = (p + i) - p + o
    BY <1>1, <1>17, <1>18, <1>19, <1>21, <1>22 DEF LoadedTo
  <1>24. (p + i) - p + o = o + i
    BY <1>20
  <1> QED BY <1>8, <1>14, <1>18, <1>19, <1>23, <1>24

-----------------------------------------------------------------------------
(* runcmd().  A word of the line s starts where a character that is not     *)
(* white follows one that is, or the beginning.                             *)

White(s, n) == n \in {0, Len(s) + 1} \/ s[n] \in WHITESPACE
Starts(s) == {n \in DOMAIN s : ~White(s, n) /\ White(s, n - 1)}
StartsTo(s, n) == {k \in Starts(s) : k <= n}
Count(s, n) == Cardinality(StartsTo(s, n))

LEMMA StartsFinite ==
    ASSUME NEW s \in Seq(STRING), NEW n \in Nat
    PROVE  /\ StartsTo(s, n) \in SUBSET Nat
           /\ IsFiniteSet(StartsTo(s, n))
           /\ Count(s, n) \in Nat
  <1>1. \A k \in StartsTo(s, n) : k \in Nat /\ k <= n
    BY LenProperties DEF StartsTo, Starts
  <1>2. IsFiniteSet(StartsTo(s, n))
    BY <1>1, FS_BoundedSetOfNaturals
  <1> QED BY <1>1, <1>2, FS_CardinalityType DEF Count

LEMMA CountStep ==
    ASSUME NEW s \in Seq(STRING), NEW n \in 0..(Len(s) - 1)
    PROVE  /\ StartsTo(s, n + 1) = StartsTo(s, n) \cup ({n + 1} \cap Starts(s))
           /\ Count(s, n + 1) = IF n + 1 \in Starts(s) THEN Count(s, n) + 1 ELSE Count(s, n)
  <1>1. n \in Nat /\ Len(s) \in Nat
    BY LenProperties
  <1>2. \A k \in Starts(s) : k \in Nat
    BY LenProperties DEF Starts
  <1>3. StartsTo(s, n + 1) = StartsTo(s, n) \cup ({n + 1} \cap Starts(s))
    BY <1>1, <1>2 DEF StartsTo
  <1>4. IsFiniteSet(StartsTo(s, n)) /\ n + 1 \notin StartsTo(s, n)
    BY <1>1, StartsFinite DEF StartsTo
  <1>5. CASE n + 1 \in Starts(s)
    <2>1. StartsTo(s, n + 1) = StartsTo(s, n) \cup {n + 1}
      BY <1>3, <1>5
    <2> QED BY <1>3, <1>4, <1>5, <2>1, FS_AddElement DEF Count
  <1>6. CASE n + 1 \notin Starts(s)
    <2>1. StartsTo(s, n + 1) = StartsTo(s, n)
      BY <1>3, <1>6
    <2> QED BY <1>3, <1>6, <2>1 DEF Count
  <1> QED BY <1>5, <1>6

LEMMA CountGrows ==
    ASSUME NEW s \in Seq(STRING), NEW m \in Nat, NEW n \in Nat, m <= n
    PROVE  /\ Count(s, m) <= Count(s, n)
           /\ m < n /\ n \in Starts(s) => Count(s, m) < Count(s, n)
           /\ n \in Starts(s) => Count(s, n) >= 1
  <1>1. StartsTo(s, m) \in SUBSET StartsTo(s, n)
    <2>1. \A k \in Starts(s) : k \in Nat
      BY LenProperties DEF Starts
    <2> QED BY <2>1 DEF StartsTo
  <1>2. /\ IsFiniteSet(StartsTo(s, n)) /\ IsFiniteSet(StartsTo(s, m))
        /\ Count(s, n) \in Nat /\ Count(s, m) \in Nat
    BY StartsFinite
  <1>3. /\ Count(s, m) <= Count(s, n)
        /\ Count(s, m) = Count(s, n) => StartsTo(s, m) = StartsTo(s, n)
    BY <1>1, <1>2, FS_Subset DEF Count
  <1>4. m < n /\ n \in Starts(s) => StartsTo(s, m) # StartsTo(s, n)
    BY DEF StartsTo
  <1>5. n \in Starts(s) => StartsTo(s, n) # {}
    BY DEF StartsTo
  <1>6. n \in Starts(s) => Count(s, n) # 0
    BY <1>2, <1>5, FS_EmptySet DEF Count
  <1>7. m < n /\ n \in Starts(s) => Count(s, m) < Count(s, n)
    BY <1>2, <1>3, <1>4
  <1> QED BY <1>2, <1>3, <1>6, <1>7

Words == Seq(STRING)
ParseState == [argv : Seq(Words), w : BOOLEAN, full : BOOLEAN]

NoneWhite(s, k, e) == \A i \in k..e : ~White(s, i)

(* The part of the word at k that lies within the first n characters. *)
WordTo(s, k, n, word) ==
    \E e \in k..n : NoneWhite(s, k, e) /\ (e = n \/ White(s, e + 1)) /\ word = SubSeq(s, k, e)
WordsTo(s, n, argv) == \A k \in StartsTo(s, n) : WordTo(s, k, n, argv[Count(s, k)])
InWord(s, n, k) == k \in StartsTo(s, n) /\ NoneWhite(s, k, n) /\ Count(s, k) = Count(s, n)

(* What the parser has after n characters: the words so far, the last one   *)
(* as far as it has come, until there are too many.                         *)
ParseInv(s, n, a) ==
    /\ Len(a.argv) < MAXARGS
    /\ a.full => Count(s, n) >= MAXARGS
    /\ ~a.full => /\ Len(a.argv) = Count(s, n)
                  /\ a.w <=> White(s, n)
                  /\ WordsTo(s, n, a.argv)
                  /\ ~a.w => \E k \in Nat : InWord(s, n, k)

LEMMA OneElement ==
    ASSUME NEW S, NEW x \in S
    PROVE  <<x>> \in Seq(S)
  OBVIOUS

LEMMA StartNat ==
    ASSUME NEW s \in Seq(STRING), NEW n \in Nat, NEW k \in StartsTo(s, n)
    PROVE  /\ k \in Nat /\ 1 <= k /\ k <= n /\ k \in Starts(s)
           /\ k <= Len(s) /\ White(s, k - 1) /\ ~White(s, k)
  BY LenProperties DEF StartsTo, Starts

(* A word that has ended before n, or ends there, is the same one character *)
(* later.                                                                   *)
LEMMA WordStays ==
    ASSUME NEW s \in Seq(STRING), NEW n \in Nat, NEW k \in StartsTo(s, n), NEW word,
           WordTo(s, k, n, word), White(s, n + 1) \/ ~NoneWhite(s, k, n)
    PROVE  WordTo(s, k, n + 1, word)
  <1>1. PICK e \in k..n :
            NoneWhite(s, k, e) /\ (e = n \/ White(s, e + 1)) /\ word = SubSeq(s, k, e)
    BY DEF WordTo
  <1>2. k \in Nat
    BY StartNat
  <1>3. e \in k..(n + 1) /\ White(s, e + 1)
    BY <1>1, <1>2
  <1> QED BY <1>1, <1>3 DEF WordTo

LEMMA WordGrows ==
    ASSUME NEW s \in Seq(STRING), NEW n \in 0..(Len(s) - 1), NEW k \in StartsTo(s, n), NEW word,
           WordTo(s, k, n, word), NoneWhite(s, k, n), ~White(s, n + 1)
    PROVE  WordTo(s, k, n + 1, Append(word, s[n + 1]))
  <1>1. PICK e \in k..n :
            NoneWhite(s, k, e) /\ (e = n \/ White(s, e + 1)) /\ word = SubSeq(s, k, e)
    BY DEF WordTo
  <1>2. Len(s) \in Nat /\ n \in Nat /\ n + 1 \in 1..Len(s)
    BY LenProperties
  <1>3. k \in Nat /\ 1 <= k /\ k <= n
    BY <1>2, StartNat
  <1>4. e = n
    <2> SUFFICES ASSUME e # n PROVE FALSE
      OBVIOUS
    <2>1. White(s, e + 1) /\ e + 1 \in k..n
      BY <1>1, <1>2, <1>3
    <2> QED BY <2>1 DEF NoneWhite
  <1>5. k \in 1..Len(s) /\ n + 1 \in k..Len(s) /\ (n + 1) - 1 = n
    BY <1>2, <1>3
  <1>6. SubSeq(s, k, n + 1) = SubSeq(s, k, n) \o <<s[n + 1]>>
    BY <1>5, SubSeqRecursiveSecond
  <1>7. SubSeq(s, k, n) \in Seq(STRING) /\ s[n + 1] \in STRING
    <2>1. \A i \in k..n : s[i] \in STRING
      <3> SUFFICES ASSUME NEW i \in k..n PROVE s[i] \in STRING
        OBVIOUS
      <3>1. i \in 1..Len(s)
        BY <1>2, <1>3
      <3> QED BY <3>1, ElementOfSeq
    <2> QED BY <1>2, <1>3, <2>1, SubSeqProperties, ElementOfSeq
  <1>8. Append(word, s[n + 1]) = SubSeq(s, k, n + 1)
    BY <1>1, <1>4, <1>6, <1>7, AppendIsConcat
  <1>9. NoneWhite(s, k, n + 1)
    <2> SUFFICES ASSUME NEW i \in k..(n + 1) PROVE ~White(s, i)
      BY DEF NoneWhite
    <2>1. i = n + 1 \/ i \in k..n
      BY <1>2, <1>3
    <2> QED BY <2>1 DEF NoneWhite
  <1>10. n + 1 \in k..(n + 1)
    BY <1>2, <1>3
  <1> QED BY <1>8, <1>9, <1>10 DEF WordTo

LEMMA ParseStep ==
    ASSUME NEW s \in Seq(STRING), NEW n \in 0..(Len(s) - 1),
           NEW a \in ParseState, ParseInv(s, n, a)
    PROVE  /\ Parse(a, s[n + 1]) \in ParseState
           /\ ParseInv(s, n + 1, Parse(a, s[n + 1]))
  <1>1. PICK argv \in Seq(Words), w \in BOOLEAN, full \in BOOLEAN :
            a = [argv |-> argv, w |-> w, full |-> full]
    BY DEF ParseState
  <1>2. a.argv = argv /\ a.w = w /\ a.full = full
    BY <1>1
  <1>3. PICK c \in STRING : c = s[n + 1]
    <2>1. n + 1 \in 1..Len(s)
      BY LenProperties
    <2> QED BY <2>1, ElementOfSeq
  <1>4. n \in Nat /\ Len(s) \in Nat /\ n + 1 \in 1..Len(s) /\ n + 1 \in DOMAIN s /\ Len(argv) \in Nat
        /\ n + 1 \in Nat /\ n + 1 # 0 /\ n + 1 # Len(s) + 1 /\ (n + 1) - 1 = n /\ n <= n + 1
    BY LenProperties
  <1>5. Count(s, n) \in Nat /\ Count(s, n + 1) \in Nat /\ MAXARGS \in Nat
    BY <1>4, StartsFinite, LibraryAssumption
  <1>6. White(s, n + 1) <=> c \in WHITESPACE
    BY <1>3, <1>4 DEF White
  <1>7. n + 1 \in Starts(s) <=> c \notin WHITESPACE /\ White(s, n)
    BY <1>4, <1>6 DEF Starts
  <1>8. /\ Len(argv) < MAXARGS
        /\ full => Count(s, n) >= MAXARGS
        /\ ~full => /\ Len(argv) = Count(s, n)
                    /\ w <=> White(s, n)
                    /\ WordsTo(s, n, argv)
                    /\ ~w => \E k \in Nat : InWord(s, n, k)
    BY <1>2 DEF ParseInv
  <1>9. CASE full
    <2>1. PICK q : q = [argv |-> argv, w |-> TRUE, full |-> full]
      OBVIOUS
    <2>2. Parse(a, c) = q
      BY <1>1, <1>2, <1>9, <2>1 DEF Parse
    <2>3. Count(s, n + 1) >= MAXARGS
      BY <1>4, <1>5, <1>8, <1>9, CountGrows
    <2>4. q \in ParseState /\ q.argv = argv /\ q.full
      BY <1>9, <2>1 DEF ParseState
    <2> QED BY <1>3, <1>8, <2>2, <2>3, <2>4 DEF ParseInv
  <1>10. CASE ~full /\ c \in WHITESPACE
    <2>1. PICK q : q = [argv |-> argv, w |-> TRUE, full |-> full]
      OBVIOUS
    <2>2. Parse(a, c) = q
      BY <1>1, <1>2, <1>10, <2>1 DEF Parse
    <2>3. q \in ParseState /\ q.argv = argv /\ q.full = full /\ q.w
      BY <2>1 DEF ParseState
    <2>4. StartsTo(s, n + 1) = StartsTo(s, n) /\ Count(s, n + 1) = Count(s, n)
      <3>1. {n + 1} \cap Starts(s) = {} /\ n + 1 \notin Starts(s)
        BY <1>7, <1>10
      <3> QED BY <3>1, CountStep
    <2>5. WordsTo(s, n + 1, argv)
      <3> SUFFICES ASSUME NEW k \in StartsTo(s, n)
                   PROVE  WordTo(s, k, n + 1, argv[Count(s, k)])
        BY <2>4 DEF WordsTo
      <3>1. WordTo(s, k, n, argv[Count(s, k)])
        BY <1>8, <1>10 DEF WordsTo
      <3> QED BY <1>4, <1>6, <1>10, <3>1, WordStays
    <2> QED BY <1>3, <1>6, <1>8, <1>10, <2>2, <2>3, <2>4, <2>5 DEF ParseInv
  <1>11. CASE ~full /\ c \notin WHITESPACE /\ w /\ Full(argv)
    <2>1. PICK q : q = [argv |-> argv, w |-> w, full |-> TRUE]
      OBVIOUS
    <2>2. Parse(a, c) = q
      BY <1>1, <1>2, <1>11, <2>1 DEF Parse
    <2>3. q \in ParseState /\ q.argv = argv /\ q.full
      BY <2>1 DEF ParseState
    <2>4. n + 1 \in Starts(s)
      BY <1>7, <1>8, <1>11
    <2>5. Count(s, n + 1) = Count(s, n) + 1
      BY <2>4, CountStep
    <2>6. Count(s, n) = MAXARGS - 1
      BY <1>8, <1>11 DEF Full
    <2>7. Count(s, n + 1) >= MAXARGS
      BY <1>5, <2>5, <2>6
    <2> QED BY <1>3, <1>8, <2>2, <2>3, <2>7 DEF ParseInv
  <1>12. CASE ~full /\ c \notin WHITESPACE /\ w /\ ~Full(argv)
    <2>1. PICK more : more = Append(argv, <<c>>)
      OBVIOUS
    <2>2. <<c>> \in Seq(STRING) /\ <<c>> \in Words
      BY OneElement DEF Words
    <2>3. /\ more \in Seq(Words) /\ Len(more) = Len(argv) + 1
          /\ \A i \in 1..Len(argv) : more[i] = argv[i]
          /\ more[Len(argv) + 1] = <<c>>
      <3>1. PICK word \in Words : word = <<c>>
        BY <2>2
      <3>2. /\ Append(argv, word) \in Seq(Words) /\ Len(Append(argv, word)) = Len(argv) + 1
            /\ \A i \in 1..Len(argv) : Append(argv, word)[i] = argv[i]
            /\ Append(argv, word)[Len(argv) + 1] = word
        BY ONLY argv \in Seq(Words), word \in Words, AppendProperties
      <3> QED BY ONLY <2>1, <3>1, <3>2
    <2>4. PICK q : q = [argv |-> more, w |-> FALSE, full |-> full]
      OBVIOUS
    <2>5. Parse(a, c) = q
      BY <1>1, <1>2, <1>12, <2>1, <2>4 DEF Parse
    <2>6. q \in ParseState /\ q.argv = more /\ q.full = full /\ q.w = FALSE
      BY <2>3, <2>4 DEF ParseState
    <2>7. n + 1 \in Starts(s) /\ White(s, n)
      BY <1>7, <1>8, <1>12
    <2>8. /\ StartsTo(s, n + 1) = StartsTo(s, n) \cup {n + 1}
          /\ Count(s, n + 1) = Count(s, n) + 1
      BY <2>7, CountStep
    <2>9. Len(more) < MAXARGS /\ Len(more) = Count(s, n + 1)
      BY <1>4, <1>5, <1>8, <1>12, <2>3, <2>8 DEF Full
    <2>10. NoneWhite(s, n + 1, n + 1)
      <3>1. ~White(s, n + 1)
        BY <1>6, <1>12
      <3>2. \A i \in (n + 1)..(n + 1) : i = n + 1
        BY <1>4
      <3> QED BY <3>1, <3>2 DEF NoneWhite
    <2>11. WordTo(s, n + 1, n + 1, <<c>>)
      <3>1. SubSeq(s, n + 1, n + 1) = <<c>>
        <4>1. n + 1 \in (n + 1)..Len(s)
          BY <1>4
        <4>2. SubSeq(s, n + 1, n + 1) = SubSeq(s, n + 1, (n + 1) - 1) \o <<s[n + 1]>>
          BY <1>4, <4>1, SubSeqRecursiveSecond
        <4>3. SubSeq(s, n + 1, (n + 1) - 1) = <<>>
          BY <1>4, SubSeqEmpty
        <4>4. <<>> \o <<c>> = <<c>>
          BY <2>2, ConcatEmptySeq
        <4> QED BY <1>3, <4>2, <4>3, <4>4
      <3>2. n + 1 \in (n + 1)..(n + 1)
        BY <1>4
      <3> QED BY <2>10, <3>1, <3>2 DEF WordTo
    <2>12. WordsTo(s, n + 1, more)
      <3> SUFFICES ASSUME NEW k \in StartsTo(s, n + 1)
                   PROVE  WordTo(s, k, n + 1, more[Count(s, k)])
        BY DEF WordsTo
      <3>1. CASE k = n + 1
        <4>1. more[Count(s, n + 1)] = <<c>>
          BY <2>3, <2>9
        <4> QED BY <2>11, <3>1, <4>1
      <3>2. CASE k \in StartsTo(s, n)
        <4>1. k \in Nat /\ 1 <= k /\ k <= n /\ k \in Starts(s)
          BY <1>4, <3>2, StartNat
        <4>2. Count(s, k) \in Nat /\ Count(s, k) >= 1 /\ Count(s, k) <= Count(s, n)
          <5>1. Count(s, k) \in Nat
            BY <4>1, StartsFinite
          <5>2. Count(s, k) <= Count(s, n)
            BY <1>4, <4>1, CountGrows
          <5>3. Count(s, k) >= 1
            BY <4>1, CountGrows
          <5> QED BY <5>1, <5>2, <5>3
        <4>3. Count(s, k) \in 1..Len(argv)
          BY <1>4, <1>8, <1>12, <4>2
        <4>4. more[Count(s, k)] = argv[Count(s, k)]
          BY <2>3, <4>3
        <4>5. WordTo(s, k, n, argv[Count(s, k)])
          BY <1>8, <1>12, <3>2 DEF WordsTo
        <4>6. ~NoneWhite(s, k, n)
          BY <1>4, <2>7, <4>1 DEF NoneWhite
        <4> QED BY <1>4, <3>2, <4>4, <4>5, <4>6, WordStays
      <3> QED BY <2>8, <3>1, <3>2
    <2>13. InWord(s, n + 1, n + 1)
      BY <2>8, <2>10 DEF InWord
    <2>14. ~White(s, n + 1)
      BY <1>6, <1>12
    <2> QED BY <1>3, <1>4, <1>12, <2>5, <2>6, <2>9, <2>12, <2>13, <2>14 DEF ParseInv
  <1>13. CASE ~full /\ c \notin WHITESPACE /\ ~w
    <2>1. PICK p \in Nat : InWord(s, n, p)
      BY <1>8, <1>13
    <2>2. p \in StartsTo(s, n) /\ NoneWhite(s, p, n) /\ Count(s, p) = Count(s, n)
      BY <2>1 DEF InWord
    <2>3. /\ p \in Nat /\ 1 <= p /\ p <= n /\ p \in Starts(s) /\ White(s, p - 1)
      BY <1>4, <2>2, StartNat
    <2>4. PICK N \in Nat : N = Len(argv) /\ N = Count(s, n) /\ N >= 1
      BY <1>4, <1>5, <1>8, <1>13, <2>2, <2>3, CountGrows
    <2>5. PICK word : word = argv[N]
      OBVIOUS
    <2>6. word \in Seq(STRING) /\ Append(word, c) \in Seq(STRING)
      <3>1. word \in Seq(STRING)
        <4>1. N \in 1..Len(argv)
          BY <2>4
        <4>2. word \in Words
          BY ONLY argv \in Seq(Words), <2>5, <4>1, ElementOfSeq
        <4> QED BY <4>2 DEF Words
      <3> QED BY <3>1, AppendProperties
    <2>7. PICK more : more = [argv EXCEPT ![N] = Append(word, c)]
      OBVIOUS
    <2>8. /\ more \in Seq(Words) /\ Len(more) = Len(argv)
          /\ \A i \in 1..Len(argv) : more[i] = IF i = N THEN Append(word, c) ELSE argv[i]
      <3>1. N \in 1..Len(argv)
        BY <2>4
      <3>2. PICK longer \in Words : longer = Append(word, c)
        BY <2>6 DEF Words
      <3>3. more = [argv EXCEPT ![N] = longer]
        BY <2>7, <3>2
      <3>4. /\ [argv EXCEPT ![N] = longer] \in Seq(Words)
            /\ Len([argv EXCEPT ![N] = longer]) = Len(argv)
            /\ \A i \in 1..Len(argv) : [argv EXCEPT ![N] = longer][i] = IF i = N THEN longer ELSE argv[i]
        BY ONLY argv \in Seq(Words), longer \in Words, <3>1, ExceptSeq
      <3> QED BY ONLY <3>2, <3>3, <3>4, Zenon
    <2>9. PICK q : q = [argv |-> more, w |-> w, full |-> full]
      OBVIOUS
    <2>10. Parse(a, c) = q
      <3>1. Parse(a, c) = [a EXCEPT !.argv[Len(a.argv)] = Append(@, c)]
        BY <1>2, <1>13 DEF Parse
      <3> QED BY <1>1, <1>2, <2>4, <2>5, <2>7, <2>9, <3>1
    <2>11. q \in ParseState /\ q.argv = more /\ q.full = full /\ q.w = w
      BY <2>8, <2>9 DEF ParseState
    <2>12. ~White(s, n) /\ ~White(s, n + 1)
      BY <1>6, <1>8, <1>13
    <2>13. StartsTo(s, n + 1) = StartsTo(s, n) /\ Count(s, n + 1) = Count(s, n)
      <3>1. {n + 1} \cap Starts(s) = {} /\ n + 1 \notin Starts(s)
        BY <2>12 DEF Starts
      <3> QED BY <3>1, CountStep
    <2>14. WordsTo(s, n + 1, more)
      <3> SUFFICES ASSUME NEW k \in StartsTo(s, n)
                   PROVE  WordTo(s, k, n + 1, more[Count(s, k)])
        BY <2>13 DEF WordsTo
      <3>1. WordTo(s, k, n, argv[Count(s, k)])
        BY <1>8, <1>13 DEF WordsTo
      <3>2. k \in Nat /\ 1 <= k /\ k <= n /\ k \in Starts(s) /\ White(s, k - 1)
        BY <1>4, StartNat
      <3>3. CASE k = p
        <4>1. more[Count(s, k)] = Append(word, c) /\ argv[Count(s, k)] = word
          <5>1. Count(s, k) = N /\ N \in 1..Len(argv)
            BY <2>2, <2>4, <3>3
          <5> QED BY <2>5, <2>8, <5>1
        <4> QED BY <1>3, <2>2, <2>12, <3>1, <3>3, <4>1, WordGrows
      <3>4. CASE k # p
        <4>1. ~NoneWhite(s, k, n) /\ ~(k > p)
          <5>1. ~(k > p)
            <6> SUFFICES ASSUME k > p PROVE FALSE
              OBVIOUS
            <6>1. k - 1 \in p..n
              BY <1>4, <2>3, <3>2
            <6> QED BY <2>2, <3>2, <6>1 DEF NoneWhite
          <5>2. p - 1 \in k..n
            BY <1>4, <2>3, <3>2, <3>4, <5>1
          <5> QED BY <2>3, <5>1, <5>2 DEF NoneWhite
        <4>2. Count(s, k) \in Nat /\ Count(s, k) >= 1 /\ Count(s, k) < Count(s, p)
          <5>1. Count(s, k) \in Nat
            BY <3>2, StartsFinite
          <5>2. k < p
            BY <2>3, <3>2, <3>4, <4>1
          <5>3. Count(s, k) < Count(s, p)
            BY <2>3, <3>2, <5>2, CountGrows
          <5>4. Count(s, k) >= 1
            BY <3>2, CountGrows
          <5> QED BY <5>1, <5>3, <5>4
        <4>3. Count(s, k) \in 1..Len(argv) /\ Count(s, k) # N
          BY <2>2, <2>4, <4>2
        <4>4. more[Count(s, k)] = argv[Count(s, k)]
          BY <2>8, <4>3
        <4> QED BY <1>4, <3>1, <4>1, <4>4, WordStays
      <3> QED BY <3>3, <3>4
    <2>15. InWord(s, n + 1, p)
      <3>1. NoneWhite(s, p, n + 1)
        <4> SUFFICES ASSUME NEW i \in p..(n + 1) PROVE ~White(s, i)
          BY DEF NoneWhite
        <4>1. i = n + 1 \/ i \in p..n
          BY <1>4, <2>3
        <4> QED BY <2>2, <2>12, <4>1 DEF NoneWhite
      <3> QED BY <2>2, <2>13, <3>1 DEF InWord
    <2> QED BY <1>3, <1>8, <1>13, <2>3, <2>8, <2>10, <2>11, <2>12, <2>13, <2>14, <2>15
               DEF ParseInv
  <1> QED BY <1>9, <1>10, <1>11, <1>12, <1>13

LEMMA RuncmdParses ==
    ASSUME NEW s \in Seq(STRING)
    PROVE  \E a \in ParseState :
              /\ ParseInv(s, Len(s), a)
              /\ runcmd(s).argv = a.argv
              /\ runcmd(s).does = "too many" <=> a.full
  <1>1. PICK N \in Nat : N = Len(s)
    BY LenProperties
  <1>2. PICK init : init = [argv |-> <<>>, w |-> TRUE, full |-> FALSE]
    OBVIOUS
  <1> DEFINE F(g) == [n \in 0..N |-> IF n = 0 THEN init ELSE Parse(g[n - 1], s[n])]
  <1>3. init \in ParseState /\ ParseInv(s, 0, init)
    <2>1. init \in ParseState /\ init.argv = <<>> /\ Len(<<>>) = 0 /\ init.w /\ ~init.full
      BY <1>2, EmptySeq DEF ParseState
    <2>2. StartsTo(s, 0) = {}
      BY LenProperties DEF StartsTo, Starts
    <2>3. Count(s, 0) = 0 /\ White(s, 0) /\ WordsTo(s, 0, <<>>)
      BY <2>2, FS_EmptySet DEF Count, White, WordsTo
    <2> QED BY <2>1, <2>3, LibraryAssumption DEF ParseInv
  <1>4. ASSUME NEW n \in 0..(N - 1), NEW x \in ParseState, ParseInv(s, n, x)
        PROVE  Parse(x, s[n + 1]) \in ParseState /\ ParseInv(s, n + 1, Parse(x, s[n + 1]))
    BY <1>1, <1>4, ParseStep
  <1>5. PICK I : I = [n \in 0..N |-> {x \in ParseState : ParseInv(s, n, x)}]
    OBVIOUS
  <1>6. ASSUME NEW x, NEW n \in 0..N
        PROVE  x \in I[n] <=> x \in ParseState /\ ParseInv(s, n, x)
    BY <1>5
  <1>7. \E g : g = F(g)
    <2>1. PICK f : f = [n \in 1..N |-> [x \in ParseState |-> Parse(x, s[n])]]
      OBVIOUS
    <2>2. init \in I[0]
      BY <1>3, <1>6
    <2>3. ASSUME NEW n \in 0..(N - 1), NEW x \in I[n]
          PROVE  f[n + 1][x] \in I[n + 1]
      <3>1. n + 1 \in 1..N /\ n \in 0..N /\ n + 1 \in 0..N
        OBVIOUS
      <3>2. x \in ParseState /\ ParseInv(s, n, x)
        BY <1>6, <3>1
      <3>3. f[n + 1][x] = Parse(x, s[n + 1])
        BY <2>1, <3>1, <3>2
      <3> QED BY <1>4, <1>6, <3>1, <3>2, <3>3
    <2>4. PICK g : IsLoop(g, N, init, f) /\ \A n \in 0..N : g[n] \in I[n]
      <3>1. \A n \in 0..(N - 1) : \A x \in I[n] : f[n + 1][x] \in I[n + 1]
        BY <2>3
      <3> QED BY ONLY N \in Nat, <2>2, <3>1, LoopExists
    <2>5. ASSUME NEW n \in 0..N
          PROVE  (IF n = 0 THEN init ELSE f[n][g[n - 1]])
                   = (IF n = 0 THEN init ELSE Parse(g[n - 1], s[n]))
      <3>1. CASE n # 0
        <4>1. n \in 1..N /\ n - 1 \in 0..N
          BY <3>1
        <4>2. g[n - 1] \in ParseState
          BY <1>6, <2>4, <4>1
        <4> QED BY <2>1, <4>1, <4>2
      <3> QED BY <3>1
    <2>6. g = F(g)
      BY <2>4, <2>5 DEF IsLoop
    <2> QED BY <2>6
  <1>8. PICK m : m = CHOOSE g : g = F(g)
    OBVIOUS
  <1>9. m = F(m)
    BY <1>7, <1>8
  <1>10. \A n \in 0..N : m[n] \in I[n]
    <2>1. m[0] \in I[0]
      BY <1>3, <1>6, <1>9
    <2>2. ASSUME NEW n \in 0..(N - 1), m[n] \in I[n]
          PROVE  m[n + 1] \in I[n + 1]
      <3>1. n + 1 \in 0..N /\ n + 1 # 0 /\ (n + 1) - 1 = n /\ n \in 0..N
        OBVIOUS
      <3>2. m[n + 1] = Parse(m[n], s[n + 1])
        BY <1>9, <3>1
      <3>3. m[n] \in ParseState /\ ParseInv(s, n, m[n])
        BY <1>6, <2>2, <3>1
      <3> QED BY <1>4, <1>6, <3>1, <3>2, <3>3
    <2> QED BY ONLY N \in Nat, <2>1, <2>2, LoopInvariant
  <1>11. PICK a : a = m[N]
    OBVIOUS
  <1>12. a \in ParseState /\ ParseInv(s, N, a)
    BY <1>6, <1>10, <1>11
  <1>13. runcmd(s) = [argv |-> a.argv,
                      does |-> IF a.full THEN "too many"
                               ELSE IF a.argv = <<>> THEN "nothing"
                               ELSE IF a.argv[1] \in Commands THEN "command" ELSE "unknown"]
    BY <1>1, <1>2, <1>8, <1>11 DEF runcmd
  <1> DEFINE Does == IF a.full THEN "too many"
                    ELSE IF a.argv = <<>> THEN "nothing"
                    ELSE IF a.argv[1] \in Commands THEN "command" ELSE "unknown"
  <1>14. runcmd(s).argv = a.argv /\ runcmd(s).does = Does
    <2>1. PICK argv, does : argv = a.argv /\ does = Does
      OBVIOUS
    <2>2. runcmd(s) = [argv |-> argv, does |-> does]
      BY ONLY <1>13, <2>1, Zenon
    <2>3. runcmd(s).argv = argv /\ runcmd(s).does = does
      BY ONLY <2>2
    <2> QED BY ONLY <2>1, <2>3, Zenon
  <1>15. runcmd(s).does = "too many" <=> a.full
    <2>1. a.full \in BOOLEAN
      BY <1>12 DEF ParseState
    <2>2. runcmd(s).does = IF a.full THEN "too many"
                           ELSE IF a.argv = <<>> THEN "nothing"
                           ELSE IF a.argv[1] \in Commands THEN "command" ELSE "unknown"
      BY <1>14
    <2>3. CASE a.full
      BY <2>2, <2>3
    <2>4. CASE ~a.full
      <3>1. runcmd(s).does \in {"nothing", "command", "unknown"}
        BY <2>2, <2>4
      <3>2. runcmd(s).does # "too many"
        BY <3>1
      <3> QED BY <2>4, <3>2
    <2> QED BY <2>3, <2>4
  <1> QED BY <1>1, <1>12, <1>14, <1>15

LEMMA RuncmdSplits ==
    ASSUME NEW s \in Seq(STRING)
    PROVE  /\ Len(runcmd(s).argv) < MAXARGS
           /\ runcmd(s).does = "too many" <=> Count(s, Len(s)) >= MAXARGS
           /\ runcmd(s).does # "too many" =>
                 /\ Len(runcmd(s).argv) = Count(s, Len(s))
                 /\ \A n \in Starts(s) :
                       runcmd(s).argv[Count(s, n)]
                         = SubSeq(s, n, LeastOf({e \in n..Len(s) : White(s, e + 1)}))
  <1>1. PICK a \in ParseState : /\ ParseInv(s, Len(s), a)
                                /\ runcmd(s).argv = a.argv
                                /\ runcmd(s).does = "too many" <=> a.full
    BY RuncmdParses
  <1>2. Len(s) \in Nat /\ Count(s, Len(s)) \in Nat /\ MAXARGS \in Nat
    BY LenProperties, StartsFinite, LibraryAssumption
  <1>3. a.full \in BOOLEAN
    BY DEF ParseState
  <1>4. /\ Len(a.argv) < MAXARGS
        /\ a.full => Count(s, Len(s)) >= MAXARGS
        /\ ~a.full => Len(a.argv) = Count(s, Len(s)) /\ WordsTo(s, Len(s), a.argv)
    BY <1>1 DEF ParseInv
  <1>5. a.full <=> Count(s, Len(s)) >= MAXARGS
    BY <1>2, <1>3, <1>4
  <1>6. ASSUME NEW n \in Starts(s), ~a.full
        PROVE  a.argv[Count(s, n)] = SubSeq(s, n, LeastOf({e \in n..Len(s) : White(s, e + 1)}))
    <2>1. n \in StartsTo(s, Len(s))
      BY LenProperties DEF StartsTo, Starts
    <2>2. n \in Nat
      BY <1>2, <2>1, StartNat
    <2>3. WordTo(s, n, Len(s), a.argv[Count(s, n)])
      BY <1>4, <1>6, <2>1 DEF WordsTo
    <2>4. PICK e \in n..Len(s) : /\ NoneWhite(s, n, e) /\ (e = Len(s) \/ White(s, e + 1))
                                 /\ a.argv[Count(s, n)] = SubSeq(s, n, e)
      BY <2>3 DEF WordTo
    <2>5. White(s, e + 1)
      BY <2>4 DEF White
    <2>6. PICK S : S = {x \in n..Len(s) : White(s, x + 1)}
      OBVIOUS
    <2>7. S \in SUBSET Int /\ S # {} /\ e \in S /\ \A x \in S : n <= x
      <3>1. n..Len(s) \subseteq Int /\ \A x \in n..Len(s) : n <= x
        BY <1>2, <2>2
      <3>2. e \in S /\ S \subseteq n..Len(s)
        BY <2>4, <2>5, <2>6
      <3> QED BY ONLY <3>1, <3>2
    <2>8. LeastOf(S) \in S /\ \A y \in S : LeastOf(S) <= y
      <3>1. n \in Int
        BY <2>2
      <3> QED BY ONLY <2>7, <3>1, LeastInt
    <2>9. PICK l \in Int : l = LeastOf(S) /\ l \in n..Len(s) /\ White(s, l + 1) /\ l <= e
      BY <1>2, <2>2, <2>6, <2>7, <2>8
    <2>10. ~(l < e)
      <3> SUFFICES ASSUME l < e PROVE FALSE
        OBVIOUS
      <3>1. l + 1 \in n..e
        BY <1>2, <2>2, <2>9
      <3> QED BY <2>4, <2>9, <3>1 DEF NoneWhite
    <2>11. l = e
      BY <1>2, <2>2, <2>9, <2>10
    <2> QED BY <2>4, <2>6, <2>9, <2>11
  <1> QED BY <1>1, <1>4, <1>5, <1>6

-----------------------------------------------------------------------------
(* The results of the calls *)

LEMMA MoveResult ==
    ASSUME NEW a \in Moves,
           NEW c, c = [fn |-> "memmove", in |-> a, out |-> memmove(a.m, a.dst, a.src, a.n)]
    PROVE  MoveExact(c)
  <1>1. c.in = a /\ c.out = memmove(a.m, a.dst, a.src, a.n)
    OBVIOUS
  <1>2. PICK m, dst, src, n : m = a.m /\ dst = a.dst /\ src = a.src /\ n = a.n
    OBVIOUS
  <1>3. /\ m = [i \in DOMAIN m |-> m[i]]
        /\ dst \in Int /\ src \in Int /\ n \in Nat
        /\ dst..dst + n - 1 \subseteq DOMAIN m
        /\ src..src + n - 1 \subseteq DOMAIN m
    BY ONLY a \in Moves, <1>2, MovesAssumption, Zenon
  <1>4. memmove(m, dst, src, n) = Moved(m, dst, src, 0, n)
    BY ONLY <1>3, MemmoveMoves
  <1>5. dst + 0 = dst
    BY <1>3
  <1>6. c.out = [i \in DOMAIN m |-> IF i \in dst..dst + n - 1 THEN m[i - dst + src] ELSE m[i]]
    BY ONLY <1>1, <1>2, <1>4, <1>5, Zenon DEF Moved
  <1> QED BY ONLY <1>1, <1>2, <1>6, Zenon DEF MoveExact

LEMMA StabResult ==
    ASSUME NEW a \in Searches,
           NEW c, c = [fn |-> "stab", in |-> a, out |-> stab_binsearch(a.stabs, a.l, a.r, a.addr)]
    PROVE  StabFound(c)
  <1>1. c.in = a
    OBVIOUS
  <1>2. PICK out : out = c.out /\ out = stab_binsearch(a.stabs, a.l, a.r, a.addr)
    OBVIOUS
  <1>3. PICK stabs, L, R, A : stabs = a.stabs /\ L = a.l /\ R = a.r /\ A = a.addr
    OBVIOUS
  <1>0. /\ L \in Nat /\ R \in Int /\ L <= R + 1 /\ A \in Nat
        /\ \A m \in L..R : stabs[m].n_value \in Nat
        /\ \A i, j \in L..R : i < j /\ IsSo(stabs, i) /\ IsSo(stabs, j)
                              => stabs[i].n_value < stabs[j].n_value
    BY ONLY a \in Searches, <1>3, SearchesAssumption, Zenon
  <1>4. PICK So : So = {m \in L..R : IsSo(stabs, m)}
    OBVIOUS
  <1>5. PICK v : v = [i \in So |-> stabs[i].n_value]
    OBVIOUS
  <1>6. Addresses(stabs, L, R, So, v) /\ Sorted(So, v)
    <2>1. \A i \in So : v[i] = stabs[i].n_value
      BY <1>5
    <2>2. \A i \in So : stabs[i].n_value \in Nat
      BY <1>0, <1>4
    <2>3. ASSUME NEW i \in So, NEW j \in So, i < j
          PROVE  stabs[i].n_value < stabs[j].n_value
      BY <1>0, <1>4, <2>3
    <2> QED BY <1>4, <2>1, <2>2, <2>3 DEF Addresses, Sorted
  <1>7. PICK below : below = Below(So, v, A)
    OBVIOUS
  <1>8. PICK next : next = Above(So, v, A)
    OBVIOUS
  <1>8a. below = {m \in So : stabs[m].n_value <= A} /\ next = {m \in So : stabs[m].n_value > A}
    BY <1>5, <1>7, <1>8 DEF Below, Above
  <1>9. \A x : StabAt(So, v, x) <=> \E m \in So : stabs[m].n_value = x
    BY <1>5 DEF StabAt
  <1>10. ASSUME ~(StabAt(So, v, A) /\ StabAt(So, v, A + 1))
         PROVE  Finds(L, R, So, below, next, out)
    <2>1. L \in Int
      BY <1>0
    <2>2. out = stab_binsearch(stabs, L, R, A)
      BY <1>2, <1>3
    <2> QED BY ONLY <1>0, <1>6, <1>7, <1>8, <1>10, <2>1, <2>2, SearchFinds
  <1>11. (So = {} \/ below = {}) => ~StabAt(So, v, A)
    BY <1>0, <1>5, <1>8a DEF StabAt
  <1>12. /\ below # {} /\ ~(StabAt(So, v, A) /\ StabAt(So, v, A + 1)) =>
              /\ out.left = GreatestOf(below)
              /\ out.right = IF next = {} THEN R ELSE LeastOf(next) - 1
         /\ So = {} => out.left > out.right
         /\ So # {} /\ below = {} => /\ out.left = IF L < LeastOf(So) THEN L ELSE L - 1
                                     /\ out.right = LeastOf(So) - 1
    BY ONLY <1>10, <1>11, Zenon DEF Finds
  <1>13. (\E m \in So : stabs[m].n_value = A) /\ (\E m \in So : stabs[m].n_value = A + 1)
           <=> StabAt(So, v, A) /\ StabAt(So, v, A + 1)
    BY ONLY <1>9, Zenon
  <1> QED BY ONLY <1>1, <1>2, <1>3, <1>4, <1>8a, <1>12, <1>13, Zenon DEF StabFound

LEMMA RuncmdResult ==
    ASSUME NEW s \in Lines, NEW c, c = [fn |-> "runcmd", in |-> s, out |-> runcmd(s)]
    PROVE  ArgsSplit(c)
  <1>1. c.in = s /\ c.out = runcmd(s)
    OBVIOUS
  <1>2. s \in Seq(STRING)
    BY LinesAssumption
  <1>3. StartsTo(s, Len(s)) = Starts(s)
    BY <1>2, LenProperties DEF StartsTo, Starts
  <1>4. /\ Len(runcmd(s).argv) < MAXARGS
        /\ runcmd(s).does = "too many" <=> Cardinality(Starts(s)) >= MAXARGS
        /\ runcmd(s).does # "too many" =>
              /\ Len(runcmd(s).argv) = Cardinality(Starts(s))
              /\ \A n \in Starts(s) :
                    runcmd(s).argv[Cardinality({k \in Starts(s) : k <= n})]
                      = SubSeq(s, n, LeastOf({e \in n..Len(s) : White(s, e + 1)}))
    BY <1>2, <1>3, RuncmdSplits DEF Count, StartsTo
  <1> QED BY <1>1, <1>4, ZenonT(60) DEF ArgsSplit, Starts, White

LEMMA LoadResult ==
    ASSUME NEW a \in Images, NEW c, c = [fn |-> "bootmain", in |-> a, out |-> bootmain(a)]
    PROVE  SegmentsLoaded(c)
  <1>1. c.in = a /\ c.out = bootmain(a)
    OBVIOUS
  <1>2. Loadable(a)
    BY ImagesAssumption DEF Loadable, Segments
  <1>3. \A n \in DOMAIN a : \A i \in 0..a[n].memsz - 1 :
            bootmain(a)[a[n].pa + i] = a[n].offset + i
    BY <1>2, BootmainLoads
  <1> QED BY <1>1, <1>3 DEF SegmentsLoaded

(***************************************************************************)
(* memmove(), stab_binsearch(), runcmd() and bootmain() compute what they  *)
(* are for, on memories, symbol tables, lines and kernels of every size    *)
(* (lib/string.c, kern/kdebug.c, kern/monitor.c, boot/main.c).             *)
(***************************************************************************)
THEOREM AlgorithmsExact == CallSpec => []ResultsExact
  <1> DEFINE Exactly(c) == MoveExact(c) /\ StabFound(c) /\ ArgsSplit(c) /\ SegmentsLoaded(c)
  <1>1. ASSUME NEW c, c.fn \notin {"memmove", "stab", "runcmd", "bootmain"}
        PROVE  Exactly(c)
    BY <1>1 DEF MoveExact, StabFound, ArgsSplit, SegmentsLoaded
  <1>2. CallInit => ResultsExact
    <2>1. None.fn = "none"
      BY DEF None
    <2>2. Exactly(None)
      BY <1>1, <2>1
    <2> QED BY <2>2 DEF CallInit, ResultsExact
  <1>3. ASSUME ResultsExact, [CallNext]_call
        PROVE  ResultsExact'
    <2>1. CASE Move
      <3>1. PICK a \in Moves :
                call' = [fn |-> "memmove", in |-> a, out |-> memmove(a.m, a.dst, a.src, a.n)]
        BY <2>1 DEF Move, Returns
      <3>2. MoveExact(call')
        BY <3>1, MoveResult
      <3>3. StabFound(call') /\ ArgsSplit(call') /\ SegmentsLoaded(call')
        BY <3>1 DEF StabFound, ArgsSplit, SegmentsLoaded
      <3> QED BY <3>2, <3>3 DEF ResultsExact
    <2>2. CASE Format
      <3>1. call'.fn = "cprintf"
        BY <2>2 DEF Format, Returns
      <3>2. Exactly(call')
        BY <1>1, <3>1
      <3> QED BY <3>2 DEF ResultsExact
    <2>3. CASE Lookup
      <3>1. PICK a \in Searches :
                call' = [fn |-> "stab", in |-> a, out |-> stab_binsearch(a.stabs, a.l, a.r, a.addr)]
        BY <2>3 DEF Lookup, Returns
      <3>2. StabFound(call')
        BY <3>1, StabResult
      <3>3. MoveExact(call') /\ ArgsSplit(call') /\ SegmentsLoaded(call')
        BY <3>1 DEF MoveExact, ArgsSplit, SegmentsLoaded
      <3> QED BY <3>2, <3>3 DEF ResultsExact
    <2>4. CASE Command
      <3>1. PICK a \in Lines : call' = [fn |-> "runcmd", in |-> a, out |-> runcmd(a)]
        BY <2>4 DEF Command, Returns
      <3>2. ArgsSplit(call')
        BY <3>1, RuncmdResult
      <3>3. MoveExact(call') /\ StabFound(call') /\ SegmentsLoaded(call')
        BY <3>1 DEF MoveExact, StabFound, SegmentsLoaded
      <3> QED BY <3>2, <3>3 DEF ResultsExact
    <2>5. CASE Load
      <3>1. PICK a \in Images : call' = [fn |-> "bootmain", in |-> a, out |-> bootmain(a)]
        BY <2>5 DEF Load, Returns
      <3>2. SegmentsLoaded(call')
        BY <3>1, LoadResult
      <3>3. MoveExact(call') /\ StabFound(call') /\ ArgsSplit(call')
        BY <3>1 DEF MoveExact, StabFound, ArgsSplit
      <3> QED BY <3>2, <3>3 DEF ResultsExact
    <2>6. CASE UNCHANGED call
      BY <1>3, <2>6 DEF ResultsExact
    <2> QED BY <1>3, <2>1, <2>2, <2>3, <2>4, <2>5, <2>6 DEF CallNext
  <1> QED BY <1>2, <1>3, PTL DEF CallSpec

-----------------------------------------------------------------------------
(* vprintfmt() and vcprintf() *)

Symbols == {"NUL", "%", ".", "*", "?", " ", "-", "0", "x", "l", "s", "d", "u", "p"}
Chars == STRING \cup Symbols \cup {Numerals[n] : n \in 1..16}

LEMMA FormatLoop ==
    ASSUME NEW fmt \in Seq(Chars), NEW args, NEW I, Started(args) \in I[0],
           \A n \in 0..(Len(fmt) - 1) : \A x \in I[n] : Char(x, fmt[n + 1]) \in I[n + 1]
    PROVE  \E f \in I[Len(fmt)] : vprintfmt(fmt, args) = Printed(f)
  <1>1. PICK N \in Nat : N = Len(fmt)
    BY LenProperties
  <1>2. PICK start : start = Started(args)
    OBVIOUS
  <1> DEFINE F(g) == [n \in 0..N |-> IF n = 0 THEN start ELSE Char(g[n - 1], fmt[n])]
  <1>3. PICK f : f = [n \in 1..N |-> [x \in I[n - 1] |-> Char(x, fmt[n])]]
    OBVIOUS
  <1>4. ASSUME NEW n \in 0..(N - 1), NEW x \in I[n]
        PROVE  f[n + 1][x] \in I[n + 1]
    <2>1. n + 1 \in 1..N /\ (n + 1) - 1 = n
      OBVIOUS
    <2>2. f[n + 1][x] = Char(x, fmt[n + 1])
      BY <1>3, <2>1
    <2> QED BY <1>1, <2>2
  <1>5. PICK g : IsLoop(g, N, start, f) /\ \A n \in 0..N : g[n] \in I[n]
    <2>1. \A n \in 0..(N - 1) : \A x \in I[n] : f[n + 1][x] \in I[n + 1]
      BY <1>4
    <2>2. start \in I[0]
      BY <1>2
    <2> QED BY ONLY N \in Nat, <2>1, <2>2, LoopExists
  <1>6. ASSUME NEW n \in 0..N
        PROVE  (IF n = 0 THEN start ELSE f[n][g[n - 1]])
                 = (IF n = 0 THEN start ELSE Char(g[n - 1], fmt[n]))
    <2>1. CASE n # 0
      <3>1. n \in 1..N /\ n - 1 \in 0..N
        BY <2>1
      <3> QED BY <1>3, <1>5, <3>1
    <2> QED BY <2>1
  <1>7. g = F(g)
    BY <1>5, <1>6 DEF IsLoop
  <1>8. PICK m : m = CHOOSE h : h = F(h)
    OBVIOUS
  <1>9. m = F(m)
    BY <1>7, <1>8
  <1>10. \A n \in 0..N : m[n] \in I[n]
    <2>1. m[0] \in I[0]
      BY <1>2, <1>9
    <2>2. ASSUME NEW n \in 0..(N - 1), m[n] \in I[n]
          PROVE  m[n + 1] \in I[n + 1]
      <3>1. n + 1 \in 0..N /\ n + 1 # 0 /\ (n + 1) - 1 = n
        OBVIOUS
      <3>2. m[n + 1] = Char(m[n], fmt[n + 1])
        BY <1>9, <3>1
      <3> QED BY <1>1, <2>2, <3>2
    <2> QED BY ONLY N \in Nat, <2>1, <2>2, LoopInvariant
  <1>11. PICK a : a = m[N]
    OBVIOUS
  <1>12. vprintfmt(fmt, args) = Printed(a)
    BY <1>1, <1>2, <1>8, <1>11 DEF vprintfmt
  <1> QED BY <1>1, <1>10, <1>11, <1>12

LEMMA NumeralsAre == DOMAIN Numerals = 1..16
  BY DEF Numerals

LEMMA NumeralSet ==
    ASSUME NEW c, IsNumeral(c)
    PROVE  c \in {"0", "1", "2", "3", "4", "5", "6", "7", "8", "9", "a", "b", "c", "d", "e", "f"}
  <1>1. PICK n \in 1..16 : c = Numerals[n]
    BY NumeralsAre DEF IsNumeral
  <1>2. n = 1 \/ n = 2 \/ n = 3 \/ n = 4 \/ n = 5 \/ n = 6 \/ n = 7 \/ n = 8
          \/ n = 9 \/ n = 10 \/ n = 11 \/ n = 12 \/ n = 13 \/ n = 14 \/ n = 15 \/ n = 16
    OBVIOUS
  <1> QED BY <1>1, <1>2 DEF Numerals

LEMMA NotNumerals ==
    ASSUME NEW c \in {"NUL", ".", "*", "s", "%", "l", "u", "x", "p", "-", " ", "+"}
    PROVE  ~IsNumeral(c)
  BY NumeralSet

LEMMA NotBlank ==
    ASSUME NEW c, IsNumeral(c) \/ c = "-"
    PROVE  c \notin Blank
  <1>1. c \in {"0", "1", "2", "3", "4", "5", "6", "7", "8", "9", "a", "b", "c", "d", "e", "f", "-"}
    BY NumeralSet
  <1> QED BY ONLY <1>1, Zenon DEF Blank

(* The states of vprintfmt() with its arguments in A. *)
FmtState(A) == [mode : {"text", "flags", "width"}, out : Seq(Chars), esc : Seq(Chars),
                padc : Chars, width : Int, precision : Int, lflag : Nat, altflag : BOOLEAN,
                args : A]

LEMMA FmtRecord ==
    ASSUME NEW A, NEW args \in A, NEW s \in Seq(Chars), NEW m \in Int, NEW z \in Nat,
           NEW c \in Chars, NEW alt \in BOOLEAN, NEW mode \in {"text", "flags", "width"}
    PROVE  [mode |-> mode, out |-> s, esc |-> s, padc |-> c, width |-> m, precision |-> m,
            lflag |-> z, altflag |-> alt, args |-> args] \in FmtState(A)
  BY DEF FmtState

LEMMA StartedState ==
    ASSUME NEW A, NEW args \in A
    PROVE  Started(args) \in FmtState(A)
  <1>1. " " \in Chars /\ <<>> \in Seq(Chars) /\ -1 \in Int /\ 0 \in Nat
    BY EmptySeq DEF Chars, Symbols
  <1>2. FALSE \in BOOLEAN /\ "text" \in {"text", "flags", "width"}
    OBVIOUS
  <1> QED BY ONLY args \in A, <1>1, <1>2, FmtRecord, Zenon DEF Started

(* g is as f but for mode, width, precision, arguments and flags of type l. *)
SameField(f, g) == g.out = f.out /\ g.padc = f.padc /\ g.altflag = f.altflag

LEMMA ReadPercent ==
    ASSUME NEW A, NEW f \in FmtState(A), f.mode = "text"
    PROVE  /\ Char(f, "%") \in FmtState(A)
           /\ Char(f, "%").mode = "flags" /\ Char(f, "%").padc = " "
           /\ Char(f, "%").width = -1 /\ Char(f, "%").precision = -1
           /\ Char(f, "%").lflag = 0 /\ ~Char(f, "%").altflag
           /\ Char(f, "%").out = f.out /\ Char(f, "%").args = f.args
  <1>1. PICK g : g = [f EXCEPT !.mode = "flags", !.esc = <<>>, !.padc = " ", !.width = -1,
                               !.precision = -1, !.lflag = 0, !.altflag = FALSE]
    OBVIOUS
  <1>2. Char(f, "%") = g
    BY <1>1 DEF Char
  <1>3. PICK e \in Seq(Chars) : e = <<>>
    BY EmptySeq
  <1>3a. PICK m \in Int, z \in Nat : m = -1 /\ z = 0
    OBVIOUS
  <1>4. g \in FmtState(A)
    <2>1. PICK k : k = [f EXCEPT !.altflag = FALSE]
      OBVIOUS
    <2>2. k \in FmtState(A)
      BY <2>1 DEF FmtState
    <2>3. g = [k EXCEPT !.mode = "flags", !.esc = e, !.padc = " ", !.width = m,
                        !.precision = m, !.lflag = z]
      BY <1>1, <1>3, <1>3a, <2>1 DEF FmtState
    <2>4. " " \in Chars
      BY DEF Chars, Symbols
    <2> QED BY ONLY <2>4, e \in Seq(Chars), m \in Int, z \in Nat, <2>2, <2>3 DEF FmtState
  <1>5. /\ g.mode = "flags" /\ g.padc = " " /\ g.width = -1 /\ g.precision = -1 /\ g.lflag = 0
        /\ g.out = f.out /\ g.args = f.args
    BY <1>1 DEF FmtState
  <1>6. ~g.altflag
    BY <1>1 DEF FmtState
  <1> QED BY <1>2, <1>4, <1>5, <1>6

(* In an escape sequence every character is added to esc. *)
Added(f, c) == [f EXCEPT !.esc = Append(@, c)]

LEMMA AddEsc ==
    ASSUME NEW A, NEW f \in FmtState(A), NEW c \in Chars, NEW g, g = Added(f, c)
    PROVE  /\ g \in FmtState(A) /\ SameField(f, g)
           /\ g.mode = f.mode /\ g.width = f.width /\ g.precision = f.precision
           /\ g.lflag = f.lflag /\ g.args = f.args
  <1>1. PICK e : e = Append(f.esc, c)
    OBVIOUS
  <1>2. e \in Seq(Chars)
    BY <1>1, AppendProperties DEF FmtState
  <1>3. g = [f EXCEPT !.esc = e]
    BY <1>1 DEF Added
  <1> QED BY ONLY f \in FmtState(A), <1>2, <1>3 DEF FmtState, SameField

LEMMA ReadDot ==
    ASSUME NEW A, NEW f \in FmtState(A), f.mode = "flags", f.width < 0
    PROVE  /\ Char(f, ".") \in FmtState(A) /\ SameField(f, Char(f, "."))
           /\ Char(f, ".").mode = "flags" /\ Char(f, ".").width = 0
           /\ Char(f, ".").lflag = f.lflag /\ Char(f, ".").args = f.args
  <1>1. Char(f, ".") = Escape(f, ".")
    BY DEF Char
  <1>2. PICK g : g = Added(f, ".")
    OBVIOUS
  <1>3. /\ g \in FmtState(A) /\ SameField(f, g)
        /\ g.mode = f.mode /\ g.width = f.width /\ g.lflag = f.lflag /\ g.args = f.args
    <2>1. "." \in Chars
      BY DEF Chars, Symbols
    <2> QED BY ONLY f \in FmtState(A), <1>2, <2>1, AddEsc, ZenonT(60)
  <1>4. Escape(f, ".") = Dot(g)
    BY <1>2, NotNumerals DEF Added, Escape, Conversions
  <1>5. PICK h : h = [g EXCEPT !.width = 0]
    OBVIOUS
  <1>6. Dot(g) = h
    BY <1>3, <1>5 DEF Dot
  <1>7. /\ h \in FmtState(A) /\ SameField(g, h)
        /\ h.mode = g.mode /\ h.width = 0 /\ h.lflag = g.lflag /\ h.args = g.args
    <2>1. h \in FmtState(A)
      <3>1. g \in FmtState(A)
        BY <1>3
      <3>2. PICK z \in Int : z = 0
        OBVIOUS
      <3>3. h = [g EXCEPT !.width = z]
        BY <1>5, <3>2
      <3> QED BY ONLY z \in Int, <3>1, <3>3 DEF FmtState
    <2>2. h.mode = g.mode /\ h.width = 0 /\ h.lflag = g.lflag /\ h.args = g.args
      BY ONLY <1>3, <1>5 DEF FmtState
    <2>3. h.out = g.out /\ h.padc = g.padc /\ h.altflag = g.altflag
      BY ONLY <1>3, <1>5 DEF FmtState
    <2> QED BY <2>1, <2>2, <2>3 DEF SameField
  <1> QED BY ONLY f.mode = "flags", <1>1, <1>3, <1>4, <1>6, <1>7 DEF SameField

LEMMA ReadStar ==
    ASSUME NEW A, NEW f \in FmtState(A), f.mode = "flags", f.width = 0,
           Head(f.args) \in Int, Tail(f.args) \in A
    PROVE  /\ Char(f, "*") \in FmtState(A) /\ SameField(f, Char(f, "*"))
           /\ Char(f, "*").mode = "flags" /\ Char(f, "*").width = 0
           /\ Char(f, "*").precision = Head(f.args) /\ Char(f, "*").args = Tail(f.args)
  <1>1. Char(f, "*") = Escape(f, "*")
    BY DEF Char
  <1>2. PICK g : g = Added(f, "*")
    OBVIOUS
  <1>3. /\ g \in FmtState(A) /\ SameField(f, g)
        /\ g.mode = f.mode /\ g.width = f.width /\ g.args = f.args
    <2>1. "*" \in Chars
      BY DEF Chars, Symbols
    <2> QED BY ONLY f \in FmtState(A), <1>2, <2>1, AddEsc, ZenonT(60)
  <1>4. PICK n, b : n = Head(f.args) /\ b = Tail(f.args)
    OBVIOUS
  <1>5. PICK h : h = [g EXCEPT !.precision = n, !.args = b]
    OBVIOUS
  <1>6. [g EXCEPT !.precision = Head(g.args), !.args = Tail(@)] = h
    BY ONLY <1>3, <1>4, <1>5
  <1>7. Escape(f, "*") = process_precision(h)
    BY <1>2, <1>6, NotNumerals DEF Added, Escape, Conversions
  <1>8. n \in Int /\ b \in A
    BY <1>4
  <1>9. /\ h \in FmtState(A) /\ SameField(g, h)
        /\ h.mode = g.mode /\ h.width = g.width /\ h.precision = n /\ h.args = b
    BY ONLY <1>3, <1>5, <1>8 DEF FmtState, SameField
  <1>10. h.width = 0 /\ h.mode = "flags"
    BY <1>3, <1>9
  <1>11. process_precision(h) = [h EXCEPT !.mode = "flags"]
    BY ONLY <1>10 DEF process_precision
  <1>12. [h EXCEPT !.mode = "flags"] = h
    BY ONLY <1>9, <1>10 DEF FmtState
  <1> QED BY ONLY <1>1, <1>3, <1>4, <1>7, <1>9, <1>10, <1>11, <1>12 DEF SameField

LEMMA ReadString ==
    ASSUME NEW A, NEW f \in FmtState(A), f.mode = "flags"
    PROVE  /\ Char(f, "s").mode = "text"
           /\ Char(f, "s").out = f.out \o StringField(f, CString(Head(f.args)))
  <1>1. Char(f, "s") = Escape(f, "s")
    BY DEF Char
  <1>2. Escape(f, "s") = Convert(f, "s")
    BY NotNumerals DEF Escape, Conversions
  <1>3. PICK c, a : c = f.out \o Converted(f, "s") /\ a = Tail(f.args)
    OBVIOUS
  <1>4. Convert(f, "s") = [f EXCEPT !.mode = "text", !.out = c, !.args = a]
    BY <1>3 DEF Convert
  <1>5. Convert(f, "s").mode = "text" /\ Convert(f, "s").out = c
    BY <1>4 DEF FmtState
  <1>6. Converted(f, "s") = StringField(f, CString(Head(f.args)))
    BY DEF Converted
  <1> QED BY <1>1, <1>2, <1>3, <1>5, <1>6

LEMMA NoNul ==
    ASSUME NEW s \in Seq(Chars), \A i \in 1..Len(s) : s[i] # NUL
    PROVE  CString(s) = s
  <1>1. {i \in 1..Len(s) : s[i] = NUL} = {}
    OBVIOUS
  <1> QED BY <1>1 DEF CString, SelectInSeq

LEMMA EmptyRepeat ==
    ASSUME NEW c, NEW n \in Int, n <= 0
    PROVE  Repeat(c, n) = <<>>
  BY DEF Repeat

LEMMA FieldCut ==
    ASSUME NEW A, NEW f \in FmtState(A), NEW p \in Seq(Chars),
           f.width = 0, ~f.altflag, f.precision \in 0..Len(p)
    PROVE  StringField(f, p) = SubSeq(p, 1, f.precision)
  <1>1. PICK n \in Nat : n = f.precision /\ n <= Len(p)
    BY LenProperties
  <1>2. n = IF f.precision < 0 \/ f.precision > Len(p) THEN Len(p) ELSE f.precision
    BY <1>1, LenProperties
  <1>3. ~(f.width > 0 /\ f.padc # "-")
    OBVIOUS
  <1>4. PICK q : q = [i \in 1..n |-> p[i]]
    OBVIOUS
  <1>5. q = [i \in 1..n |-> IF f.altflag /\ p[i] \in Unprintable THEN "?" ELSE p[i]]
    BY <1>4
  <1>6. Repeat(" ", f.width - n) = <<>>
    <2>1. f.width - n \in Int /\ f.width - n <= 0
      BY <1>1
    <2> QED BY ONLY <2>1, EmptyRepeat
  <1>7. StringField(f, p) = <<>> \o q \o <<>>
    BY <1>2, <1>3, <1>5, <1>6 DEF StringField
  <1>8. q \in Seq(Chars) /\ q = SubSeq(p, 1, n)
    BY <1>1, <1>4, SubSeqProperties, LenProperties, SMTT(30)
  <1>9. <<>> \o q \o <<>> = q
    BY <1>8, ConcatEmptySeq, EmptySeq
  <1> QED BY <1>1, <1>7, <1>8, <1>9

LEMMA FormatOfCputs ==
    ASSUME NEW n \in Nat, NEW b \in Seq(Chars), n <= Len(b), \A i \in 1..Len(b) : b[i] # NUL
    PROVE  vprintfmt(<<"%", ".", "*", "s">>, <<n, b>>) = SubSeq(b, 1, n)
  <1>1. PICK args, rest : args = <<n, b>> /\ rest = <<b>>
    OBVIOUS
  <1>2. Head(args) = n /\ Tail(args) = rest /\ Head(rest) = b
    BY ONLY <1>1
  <1>3. PICK A : A = {args, rest}
    OBVIOUS
  <1>4. PICK nil \in Seq(Chars) : nil = <<>>
    BY EmptySeq
  <1>5. PICK I0 : I0 = {x \in FmtState(A) : x.mode = "text" /\ x.out = nil /\ x.args = args}
    OBVIOUS
  <1> DEFINE Plain(x) == x.mode = "flags" /\ x.out = nil /\ ~x.altflag
  <1>6. PICK I1 : I1 = {x \in FmtState(A) : Plain(x) /\ x.args = args /\ x.width = -1}
    OBVIOUS
  <1>7. PICK I2 : I2 = {x \in FmtState(A) : Plain(x) /\ x.args = args /\ x.width = 0}
    OBVIOUS
  <1>8. PICK I3 : I3 = {x \in FmtState(A) : /\ Plain(x) /\ x.args = rest /\ x.width = 0
                                            /\ x.precision = n}
    OBVIOUS
  <1>9. PICK I4 : I4 = {Char(x, "s") : x \in I3}
    OBVIOUS
  <1>10. ASSUME NEW x \in I0 PROVE Char(x, "%") \in I1
    <2>1. x \in FmtState(A) /\ x.mode = "text" /\ x.out = nil /\ x.args = args
      BY <1>5
    <2> QED BY ONLY <1>6, <2>1, ReadPercent
  <1>11. ASSUME NEW x \in I1 PROVE Char(x, ".") \in I2
    <2>1. x \in FmtState(A) /\ Plain(x) /\ x.args = args /\ x.width < 0
      BY <1>6
    <2> QED BY ONLY <1>7, <2>1, ReadDot DEF SameField
  <1>12. ASSUME NEW x \in I2 PROVE Char(x, "*") \in I3
    <2>1. x \in FmtState(A) /\ Plain(x) /\ x.args = args /\ x.width = 0
      BY <1>7
    <2>2. Head(x.args) = n /\ n \in Int /\ Tail(x.args) = rest /\ rest \in A
      BY <1>2, <1>3, <2>1
    <2> QED BY ONLY <1>8, <2>1, <2>2, ReadStar DEF SameField
  <1>13. ASSUME NEW x \in I3 PROVE Char(x, "s").mode = "text" /\ Char(x, "s").out = SubSeq(b, 1, n)
    <2>1. x \in FmtState(A) /\ Plain(x) /\ x.args = rest /\ x.width = 0 /\ x.precision = n
      BY <1>8
    <2>2. /\ Char(x, "s").mode = "text"
          /\ Char(x, "s").out = x.out \o StringField(x, CString(Head(x.args)))
      BY <2>1, ReadString
    <2>3. CString(Head(x.args)) = b
      BY <1>2, <2>1, NoNul
    <2>4. n \in 0..Len(b)
      BY LenProperties
    <2>5. StringField(x, b) = SubSeq(b, 1, n)
      BY <2>1, <2>4, FieldCut
    <2>6. SubSeq(b, 1, n) \in Seq(Chars)
      BY <2>4, LenProperties, SubSeqProperties
    <2>7. nil \o SubSeq(b, 1, n) = SubSeq(b, 1, n)
      BY <1>4, <2>6, ConcatEmptySeq
    <2> QED BY <2>1, <2>2, <2>3, <2>5, <2>7
  <1>14. PICK I : I = [k \in 0..4 |-> IF k = 0 THEN I0 ELSE IF k = 1 THEN I1
                                     ELSE IF k = 2 THEN I2 ELSE IF k = 3 THEN I3 ELSE I4]
    OBVIOUS
  <1>15. I[0] = I0 /\ I[1] = I1 /\ I[2] = I2 /\ I[3] = I3 /\ I[4] = I4
    BY <1>14
  <1>16. PICK fmt : fmt = <<"%", ".", "*", "s">>
    OBVIOUS
  <1>17. /\ fmt \in Seq(Chars) /\ Len(fmt) = 4
         /\ fmt[1] = "%" /\ fmt[2] = "." /\ fmt[3] = "*" /\ fmt[4] = "s"
    <2>1. "%" \in Chars /\ "." \in Chars /\ "*" \in Chars /\ "s" \in Chars
      BY DEF Chars, Symbols
    <2>2. fmt \in Seq(Chars)
      BY ONLY <1>16, <2>1
    <2>3. Len(fmt) = 4 /\ fmt[1] = "%" /\ fmt[2] = "." /\ fmt[3] = "*" /\ fmt[4] = "s"
      BY ONLY <1>16
    <2> QED BY <2>2, <2>3
  <1>18. Started(args) \in I[0]
    <2>1. Started(args) \in FmtState(A)
      BY <1>3, StartedState
    <2>2. Started(args).mode = "text" /\ Started(args).out = nil /\ Started(args).args = args
      BY <1>4 DEF Started
    <2> QED BY <1>5, <1>15, <2>1, <2>2
  <1>19. ASSUME NEW k \in 0..(Len(fmt) - 1), NEW x \in I[k]
         PROVE  Char(x, fmt[k + 1]) \in I[k + 1]
    <2>1. k = 0 \/ k = 1 \/ k = 2 \/ k = 3
      BY <1>17
    <2>2. CASE k = 0
      BY <1>10, <1>15, <1>17, <2>2
    <2>3. CASE k = 1
      BY <1>11, <1>15, <1>17, <2>3
    <2>4. CASE k = 2
      BY <1>12, <1>15, <1>17, <2>4
    <2>5. CASE k = 3
      BY <1>9, <1>15, <1>17, <2>5
    <2> QED BY <2>1, <2>2, <2>3, <2>4, <2>5
  <1>20. PICK f \in I4 : vprintfmt(fmt, args) = Printed(f)
    <2>1. \A k \in 0..(Len(fmt) - 1) : \A x \in I[k] : Char(x, fmt[k + 1]) \in I[k + 1]
      BY <1>19
    <2>2. \E f \in I[Len(fmt)] : vprintfmt(fmt, args) = Printed(f)
      BY ONLY <1>17, <1>18, <2>1, FormatLoop
    <2> QED BY <1>15, <1>17, <2>2
  <1>21. Printed(f) = SubSeq(b, 1, n)
    BY <1>9, <1>13, <1>20 DEF Printed
  <1> QED BY <1>1, <1>16, <1>20, <1>21

-----------------------------------------------------------------------------
(* vcprintf() *)

LEMMA SubSeqNext ==
    ASSUME NEW S, NEW s \in Seq(S), NEW n \in 0..(Len(s) - 1)
    PROVE  /\ SubSeq(s, 1, n) \in Seq(S) /\ SubSeq(s, 1, n + 1) \in Seq(S)
           /\ SubSeq(s, 1, n + 1) = Append(SubSeq(s, 1, n), s[n + 1])
  <1>1. Len(s) \in Nat /\ n \in Nat /\ n + 1 \in 1..Len(s) /\ s \in [1..Len(s) -> S]
    BY LenProperties
  <1>2. PICK t : t = SubSeq(s, 1, n)
    OBVIOUS
  <1>3. PICK u : u = SubSeq(s, 1, n + 1)
    OBVIOUS
  <1>4. t \in Seq(S) /\ Len(t) = n /\ \A i \in 1..n : t[i] = s[i]
    <2>1. \A i \in 1..n : s[i] \in S
      BY <1>1
    <2> QED BY <1>1, <1>2, <2>1, SubSeqProperties
  <1>5. u \in Seq(S) /\ Len(u) = n + 1 /\ \A i \in 1..n + 1 : u[i] = s[i]
    <2>1. \A i \in 1..n + 1 : s[i] \in S
      BY <1>1
    <2> QED BY <1>1, <1>3, <2>1, SubSeqProperties
  <1>6. s[n + 1] \in S
    BY <1>1
  <1>7. PICK v : v = Append(t, s[n + 1])
    OBVIOUS
  <1>8. v \in Seq(S) /\ Len(v) = n + 1 /\ v[n + 1] = s[n + 1] /\ \A i \in 1..n : v[i] = t[i]
    BY <1>4, <1>6, <1>7, AppendProperties
  <1>9. \A i \in 1..Len(u) : u[i] = v[i]
    BY <1>1, <1>4, <1>5, <1>8
  <1>10. u = v
    BY ONLY <1>5, <1>8, <1>9, SeqEqual
  <1> QED BY <1>2, <1>3, <1>4, <1>5, <1>7, <1>10

LEMMA ConcatAppend ==
    ASSUME NEW S, NEW s \in Seq(S), NEW t \in Seq(S), NEW c \in S
    PROVE  s \o Append(t, c) = Append(s \o t, c)
  <1>1. PICK u : u = <<c>> /\ u \in Seq(S)
    BY OneElement
  <1>2. Append(t, c) = t \o u
    BY <1>1, AppendIsConcat
  <1>3. s \o t \in Seq(S)
    BY ConcatProperties
  <1>4. Append(s \o t, c) = (s \o t) \o u
    BY <1>1, <1>3, AppendIsConcat
  <1> QED BY <1>1, <1>2, <1>4, ConcatAssociative

(* A state of vcprintf() after the first n characters of a text. *)
PrintState == [idx : Nat, cnt : Nat, buf : Seq(Chars), console : Seq(Chars)]
Held(b) == SubSeq(b.buf, 1, b.idx)
NoneNul(s) == \A i \in 1..Len(s) : s[i] # NUL
PrintInv(text, n, b) ==
    /\ Len(b.buf) = BUFSIZE /\ NoneNul(b.buf)
    /\ b.idx < BUFSIZE - 1 /\ b.cnt = n
    /\ b.console \o Held(b) = SubSeq(text, 1, n)

LEMMA CputsPrints ==
    ASSUME NEW b \in PrintState, b.idx <= Len(b.buf), NoneNul(b.buf)
    PROVE  /\ sys_cputs(b) \in PrintState
           /\ sys_cputs(b).console = b.console \o Held(b)
           /\ sys_cputs(b).idx = b.idx /\ sys_cputs(b).cnt = b.cnt /\ sys_cputs(b).buf = b.buf
  <1>1. b.idx \in Nat /\ b.buf \in Seq(Chars) /\ b.console \in Seq(Chars)
    BY DEF PrintState
  <1>2. vprintfmt(<<"%", ".", "*", "s">>, <<b.idx, b.buf>>) = Held(b)
    BY <1>1, FormatOfCputs DEF Held, NoneNul
  <1>3. PICK c : c = b.console \o Held(b)
    OBVIOUS
  <1>4. c \in Seq(Chars)
    <2>1. Len(b.buf) \in Nat /\ \A i \in 1..b.idx : b.buf[i] \in Chars
      BY <1>1, LenProperties
    <2>2. Held(b) \in Seq(Chars)
      BY <1>1, <2>1, SubSeqProperties DEF Held
    <2> QED BY <1>1, <1>3, <2>2, ConcatProperties
  <1>5. sys_cputs(b) = [b EXCEPT !.console = c]
    BY <1>2, <1>3 DEF sys_cputs
  <1> QED BY <1>3, <1>4, <1>5 DEF PrintState


LEMMA PutchStep ==
    ASSUME NEW text \in Seq(Chars), NoneNul(text), NEW n \in 0..(Len(text) - 1),
           NEW b \in PrintState, PrintInv(text, n, b)
    PROVE  /\ putch(b, text[n + 1]) \in PrintState
           /\ PrintInv(text, n + 1, putch(b, text[n + 1]))
  <1>1. Len(text) \in Nat /\ n \in Nat /\ n + 1 \in 1..Len(text)
    BY LenProperties
  <1>2. PICK ch \in Chars : ch = text[n + 1] /\ ch # NUL
    BY <1>1, ElementOfSeq DEF NoneNul
  <1>3. PICK idx \in Nat, buf \in Seq(Chars), con \in Seq(Chars) :
            b.idx = idx /\ b.buf = buf /\ b.console = con
    BY DEF PrintState
  <1>4. /\ Len(buf) = BUFSIZE /\ NoneNul(buf) /\ idx < BUFSIZE - 1 /\ b.cnt = n
        /\ con \o SubSeq(buf, 1, idx) = SubSeq(text, 1, n)
    BY <1>3 DEF PrintInv, Held
  <1>5. BUFSIZE \in Nat /\ BUFSIZE > 1
    BY LibraryAssumption
  <1>6. idx + 1 \in 1..Len(buf) /\ idx \in 0..(Len(buf) - 1) /\ idx + 1 <= Len(buf)
    BY <1>4, <1>5
  <1>7. PICK new : new = [buf EXCEPT ![idx + 1] = ch]
    OBVIOUS
  <1>8. /\ new \in Seq(Chars) /\ Len(new) = Len(buf)
        /\ \A j \in 1..Len(buf) : new[j] = IF j = idx + 1 THEN ch ELSE buf[j]
    BY <1>6, <1>7, ExceptSeq
  <1>9. NoneNul(new)
    BY <1>2, <1>4, <1>8 DEF NoneNul
  <1>10. SubSeq(new, 1, idx) = SubSeq(buf, 1, idx)
    <2>1. \A i \in 1..idx : new[i] = buf[i] /\ buf[i] \in Chars
      <3> SUFFICES ASSUME NEW i \in 1..idx PROVE new[i] = buf[i] /\ buf[i] \in Chars
        OBVIOUS
      <3>1. i \in 1..Len(buf) /\ i # idx + 1
        BY <1>6
      <3> QED BY <1>8, <3>1, ElementOfSeq
    <2>2. PICK s, t : s = SubSeq(new, 1, idx) /\ t = SubSeq(buf, 1, idx)
      OBVIOUS
    <2>3. s \in Seq(Chars) /\ Len(s) = idx /\ \A i \in 1..idx : s[i] = new[i]
      <3>1. \A i \in 1..idx : new[i] \in Chars
        BY <2>1
      <3> QED BY <2>2, <3>1, SubSeqProperties
    <2>4. t \in Seq(Chars) /\ Len(t) = idx /\ \A i \in 1..idx : t[i] = buf[i]
      BY <2>1, <2>2, SubSeqProperties
    <2>5. s = t
      BY <2>1, <2>3, <2>4, SeqEqual
    <2> QED BY <2>2, <2>5
  <1>11. /\ SubSeq(new, 1, idx) \in Seq(Chars)
         /\ SubSeq(new, 1, idx + 1) = Append(SubSeq(new, 1, idx), ch)
    <2>1. new[idx + 1] = ch /\ idx \in 0..(Len(new) - 1)
      BY <1>6, <1>8
    <2> QED BY <1>8, <2>1, SubSeqNext
  <1>12. con \o SubSeq(new, 1, idx + 1) = SubSeq(text, 1, n + 1)
    <2>1. con \o Append(SubSeq(new, 1, idx), ch) = Append(con \o SubSeq(new, 1, idx), ch)
      BY <1>11, ConcatAppend
    <2>2. SubSeq(text, 1, n + 1) = Append(SubSeq(text, 1, n), ch)
      BY <1>2, SubSeqNext
    <2> QED BY <1>4, <1>10, <1>11, <2>1, <2>2
  <1>13. PICK w : w = [b EXCEPT !.buf = new, !.idx = idx + 1, !.cnt = n + 1]
    OBVIOUS
  <1>14. w = [b EXCEPT !.buf[b.idx + 1] = ch, !.idx = @ + 1, !.cnt = @ + 1]
    BY <1>3, <1>4, <1>7, <1>13
  <1>15. /\ w \in PrintState /\ w.buf = new /\ w.idx = idx + 1 /\ w.cnt = n + 1
         /\ w.console = con
    <2>1. PICK i \in Nat, m \in Nat : i = idx + 1 /\ m = n + 1
      BY <1>1
    <2>2. w = [b EXCEPT !.buf = new, !.idx = i, !.cnt = m]
      BY <1>13, <2>1
    <2>3. new \in Seq(Chars)
      BY <1>8
    <2>4. w \in PrintState /\ w.buf = new /\ w.idx = i /\ w.cnt = m /\ w.console = b.console
      BY ONLY b \in PrintState, i \in Nat, m \in Nat, <2>2, <2>3 DEF PrintState
    <2> QED BY <1>3, <2>1, <2>4
  <1>16. putch(b, ch) = IF w.idx = BUFSIZE - 1 THEN [sys_cputs(w) EXCEPT !.idx = 0] ELSE w
    BY <1>14 DEF putch
  <1>17. CASE idx + 1 # BUFSIZE - 1
    <2>1. putch(b, ch) = w
      BY <1>15, <1>16, <1>17
    <2>2. PrintInv(text, n + 1, w)
      BY <1>4, <1>5, <1>8, <1>9, <1>12, <1>15, <1>17, SMTT(30) DEF PrintInv, Held
    <2> QED BY <1>2, <1>15, <2>1, <2>2
  <1>18. CASE idx + 1 = BUFSIZE - 1
    <2>1. PICK v : v = sys_cputs(w)
      OBVIOUS
    <2>2. v \in PrintState /\ v.console = con \o Held(w) /\ v.cnt = n + 1 /\ v.buf = new
      BY <1>6, <1>8, <1>9, <1>15, <2>1, CputsPrints
    <2>3. Held(w) = SubSeq(new, 1, idx + 1)
      BY <1>15 DEF Held
    <2>4. PICK u : u = [v EXCEPT !.idx = 0]
      OBVIOUS
    <2>5. /\ u \in PrintState /\ u.console = SubSeq(text, 1, n + 1) /\ u.cnt = n + 1
          /\ u.buf = new /\ u.idx = 0
      BY <1>12, <2>2, <2>3, <2>4 DEF PrintState
    <2>6. putch(b, ch) = u
      BY <1>15, <1>16, <1>18, <2>1, <2>4
    <2>7. Held(u) = <<>>
      BY <2>5, SubSeqEmpty DEF Held
    <2>8. u.console \o Held(u) = SubSeq(text, 1, n + 1)
      BY <2>5, <2>7, ConcatEmptySeq DEF PrintState
    <2>9. PrintInv(text, n + 1, u)
      BY <1>4, <1>5, <1>8, <1>9, <2>5, <2>8 DEF PrintInv
    <2> QED BY <1>2, <2>5, <2>6, <2>9
  <1> QED BY <1>17, <1>18


LEMMA VcprintfDelivers ==
    ASSUME NEW text \in Seq(Chars), NoneNul(text)
    PROVE  vcprintf(text).console = text /\ vcprintf(text).cnt = Len(text)
  <1>1. PICK N \in Nat : N = Len(text)
    BY LenProperties
  <1>2. PICK start : start = [idx |-> 0, cnt |-> 0, buf |-> Repeat("?", BUFSIZE), console |-> <<>>]
    OBVIOUS
  <1>3. start \in PrintState /\ PrintInv(text, 0, start)
    <2>1. BUFSIZE \in Nat /\ BUFSIZE > 1
      BY LibraryAssumption
    <2>2. PICK buf : buf = Repeat("?", BUFSIZE)
      OBVIOUS
    <2>3. buf = [i \in 1..BUFSIZE |-> "?"]
      BY <2>1, <2>2 DEF Repeat
    <2>4. "?" \in Chars /\ "?" # NUL
      BY DEF Chars, Symbols, NUL
    <2>5. buf \in Seq(Chars) /\ Len(buf) = BUFSIZE
      BY <2>1, <2>3, <2>4
    <2>6. NoneNul(buf)
      BY <2>3, <2>4, <2>5 DEF NoneNul
    <2>7. PICK nil \in Seq(Chars) : nil = <<>>
      BY EmptySeq
    <2>8. start = [idx |-> 0, cnt |-> 0, buf |-> buf, console |-> nil]
      BY <1>2, <2>2, <2>7
    <2>9. start \in PrintState
      BY <2>5, <2>8 DEF PrintState
    <2>10. start.idx = 0 /\ start.cnt = 0 /\ start.buf = buf /\ start.console = nil
      BY <2>8
    <2>11. SubSeq(buf, 1, 0) = nil /\ SubSeq(text, 1, 0) = nil
      BY <2>7, SubSeqEmpty
    <2>12. nil \o nil = nil
      BY <2>7, ConcatEmptySeq
    <2>13. start.console \o Held(start) = SubSeq(text, 1, 0)
      BY <2>10, <2>11, <2>12 DEF Held
    <2>14. start.idx < BUFSIZE - 1
      BY <2>1, <2>10
    <2> QED BY <2>5, <2>6, <2>9, <2>10, <2>13, <2>14 DEF PrintInv
  <1> DEFINE F(g) == [n \in 0..N |-> IF n = 0 THEN start ELSE putch(g[n - 1], text[n])]
  <1>4. ASSUME NEW n \in 0..(N - 1), NEW x \in PrintState, PrintInv(text, n, x)
        PROVE  putch(x, text[n + 1]) \in PrintState /\ PrintInv(text, n + 1, putch(x, text[n + 1]))
    BY <1>1, <1>4, PutchStep
  <1>5. PICK I : I = [n \in 0..N |-> {x \in PrintState : PrintInv(text, n, x)}]
    OBVIOUS
  <1>6. ASSUME NEW x, NEW n \in 0..N
        PROVE  x \in I[n] <=> x \in PrintState /\ PrintInv(text, n, x)
    BY <1>5
  <1>7. \E g : g = F(g)
    <2>1. PICK f : f = [n \in 1..N |-> [x \in PrintState |-> putch(x, text[n])]]
      OBVIOUS
    <2>2. start \in I[0]
      BY <1>3, <1>6
    <2>3. ASSUME NEW n \in 0..(N - 1), NEW x \in I[n]
          PROVE  f[n + 1][x] \in I[n + 1]
      <3>1. n + 1 \in 1..N /\ n \in 0..N /\ n + 1 \in 0..N
        OBVIOUS
      <3>2. x \in PrintState /\ PrintInv(text, n, x)
        BY <1>6, <3>1
      <3>3. f[n + 1][x] = putch(x, text[n + 1])
        BY <2>1, <3>1, <3>2
      <3> QED BY <1>4, <1>6, <3>1, <3>2, <3>3
    <2>4. PICK g : IsLoop(g, N, start, f) /\ \A n \in 0..N : g[n] \in I[n]
      <3>1. \A n \in 0..(N - 1) : \A x \in I[n] : f[n + 1][x] \in I[n + 1]
        BY <2>3
      <3> QED BY ONLY N \in Nat, <2>2, <3>1, LoopExists
    <2>5. ASSUME NEW n \in 0..N
          PROVE  (IF n = 0 THEN start ELSE f[n][g[n - 1]])
                   = (IF n = 0 THEN start ELSE putch(g[n - 1], text[n]))
      <3>1. CASE n # 0
        <4>1. n \in 1..N /\ n - 1 \in 0..N
          BY <3>1
        <4>2. g[n - 1] \in PrintState
          BY <1>6, <2>4, <4>1
        <4> QED BY <2>1, <4>1, <4>2
      <3> QED BY <3>1
    <2>6. g = F(g)
      BY <2>4, <2>5 DEF IsLoop
    <2> QED BY <2>6
  <1>8. PICK m : m = CHOOSE g : g = F(g)
    OBVIOUS
  <1>9. m = F(m)
    BY <1>7, <1>8
  <1>10. \A n \in 0..N : m[n] \in I[n]
    <2>1. m[0] \in I[0]
      BY <1>3, <1>6, <1>9
    <2>2. ASSUME NEW n \in 0..(N - 1), m[n] \in I[n]
          PROVE  m[n + 1] \in I[n + 1]
      <3>1. n + 1 \in 0..N /\ n + 1 # 0 /\ (n + 1) - 1 = n /\ n \in 0..N
        OBVIOUS
      <3>2. m[n + 1] = putch(m[n], text[n + 1])
        BY <1>9, <3>1
      <3>3. m[n] \in PrintState /\ PrintInv(text, n, m[n])
        BY <1>6, <2>2, <3>1
      <3> QED BY <1>4, <1>6, <3>1, <3>2, <3>3
    <2> QED BY ONLY N \in Nat, <2>1, <2>2, LoopInvariant
  <1>11. PICK b : b = m[N]
    OBVIOUS
  <1>12. b \in PrintState /\ PrintInv(text, N, b)
    BY <1>6, <1>10, <1>11
  <1>13. vcprintf(text) = sys_cputs(b)
    BY <1>1, <1>2, <1>8, <1>11 DEF vcprintf
  <1>14. b.idx <= Len(b.buf) /\ NoneNul(b.buf)
    BY <1>12, LibraryAssumption DEF PrintInv, PrintState
  <1>15. sys_cputs(b).console = SubSeq(text, 1, N) /\ sys_cputs(b).cnt = N
    BY <1>12, <1>14, CputsPrints DEF PrintInv
  <1>16. SubSeq(text, 1, N) = text
    BY <1>1, SubSeqFull
  <1> QED BY <1>1, <1>13, <1>15, <1>16

-----------------------------------------------------------------------------
(* Registers: arithmetic modulo a power of two *)

Positive == Nat \ {0}

LEMMA Pow2Loop ==
    ASSUME NEW bits \in Nat
    PROVE  \E g : /\ g = [n \in 0..bits |-> IF n = 0 THEN 1 ELSE 2 * g[n - 1]]
                  /\ Pow2(bits) = g[bits]
                  /\ \A n \in 0..bits : g[n] \in Positive
  <1> DEFINE F(g) == [n \in 0..bits |-> IF n = 0 THEN 1 ELSE 2 * g[n - 1]]
  <1>1. PICK I : I = [n \in 0..bits |-> Positive]
    OBVIOUS
  <1>2. PICK f : f = [n \in 1..bits |-> [x \in Positive |-> 2 * x]]
    OBVIOUS
  <1>3. PICK h : IsLoop(h, bits, 1, f) /\ \A n \in 0..bits : h[n] \in I[n]
    <2>1. 1 \in I[0]
      BY <1>1 DEF Positive
    <2>2. \A n \in 0..(bits - 1) : \A x \in I[n] : f[n + 1][x] \in I[n + 1]
      <3> SUFFICES ASSUME NEW n \in 0..(bits - 1), NEW x \in I[n] PROVE f[n + 1][x] \in I[n + 1]
        OBVIOUS
      <3>1. n + 1 \in 1..bits /\ n \in 0..bits /\ n + 1 \in 0..bits
        OBVIOUS
      <3>2. x \in Positive /\ 2 * x \in Positive
        BY <1>1, <3>1 DEF Positive
      <3> QED BY <1>1, <1>2, <3>1, <3>2
    <2> QED BY ONLY bits \in Nat, <2>1, <2>2, LoopExists
  <1>4. ASSUME NEW n \in 0..bits
        PROVE  (IF n = 0 THEN 1 ELSE f[n][h[n - 1]]) = (IF n = 0 THEN 1 ELSE 2 * h[n - 1])
    <2>1. CASE n # 0
      <3>1. n \in 1..bits /\ n - 1 \in 0..bits
        BY <2>1
      <3>2. h[n - 1] \in Positive
        BY <1>1, <1>3, <3>1
      <3> QED BY <1>2, <3>1, <3>2
    <2> QED BY <2>1
  <1>5. h = F(h)
    BY <1>3, <1>4 DEF IsLoop
  <1>6. PICK g : g = CHOOSE k : k = F(k)
    OBVIOUS
  <1>7. g = F(g)
    BY <1>5, <1>6
  <1>8. \A n \in 0..bits : g[n] \in I[n]
    <2>1. g[0] \in I[0]
      BY <1>1, <1>7 DEF Positive
    <2>2. ASSUME NEW n \in 0..(bits - 1), g[n] \in I[n]
          PROVE  g[n + 1] \in I[n + 1]
      <3>1. n + 1 \in 0..bits /\ n + 1 # 0 /\ (n + 1) - 1 = n /\ n \in 0..bits
        OBVIOUS
      <3>2. g[n + 1] = 2 * g[n] /\ g[n] \in Positive
        BY <1>1, <1>7, <2>2, <3>1
      <3> QED BY <1>1, <3>1, <3>2 DEF Positive
    <2> QED BY ONLY bits \in Nat, <2>1, <2>2, LoopInvariant
  <1>9. Pow2(bits) = g[bits]
    BY <1>6 DEF Pow2
  <1> QED BY <1>1, <1>7, <1>8, <1>9

LEMMA Pow2Positive ==
    ASSUME NEW bits \in Nat
    PROVE  Pow2(bits) \in Positive
  BY Pow2Loop

LEMMA Pow2Step ==
    ASSUME NEW bits \in Nat
    PROVE  Pow2(bits + 1) = 2 * Pow2(bits)
  <1>1. PICK g : /\ g = [n \in 0..bits |-> IF n = 0 THEN 1 ELSE 2 * g[n - 1]]
                 /\ Pow2(bits) = g[bits]
    BY Pow2Loop
  <1>2. PICK h : /\ h = [n \in 0..(bits + 1) |-> IF n = 0 THEN 1 ELSE 2 * h[n - 1]]
                 /\ Pow2(bits + 1) = h[bits + 1]
    <2>1. bits + 1 \in Nat
      OBVIOUS
    <2> QED BY ONLY <2>1, Pow2Loop
  <1>3. PICK I : I = [n \in 0..bits |-> {h[n]}]
    OBVIOUS
  <1>4. \A n \in 0..bits : g[n] \in I[n]
    <2>1. g[0] \in I[0]
      BY <1>1, <1>2, <1>3
    <2>2. ASSUME NEW n \in 0..(bits - 1), g[n] \in I[n]
          PROVE  g[n + 1] \in I[n + 1]
      <3>1. n + 1 \in 0..bits /\ n + 1 # 0 /\ (n + 1) - 1 = n /\ n \in 0..bits /\ n + 1 \in 0..(bits + 1)
        OBVIOUS
      <3>2. g[n + 1] = 2 * g[n] /\ h[n + 1] = 2 * h[n]
        BY <1>1, <1>2, <3>1
      <3> QED BY <1>3, <2>2, <3>1, <3>2
    <2> QED BY ONLY bits \in Nat, <2>1, <2>2, LoopInvariant
  <1>5. g[bits] = h[bits]
    BY <1>3, <1>4
  <1>6. bits + 1 \in 0..(bits + 1) /\ bits + 1 # 0 /\ (bits + 1) - 1 = bits
    OBVIOUS
  <1> QED BY <1>1, <1>2, <1>5, <1>6

LEMMA Pow2Half ==
    ASSUME NEW bits \in Positive
    PROVE  Pow2(bits) = 2 * Pow2(bits - 1) /\ Pow2(bits - 1) \in Positive
  <1>1. bits - 1 \in Nat /\ (bits - 1) + 1 = bits
    BY DEF Positive
  <1> QED BY <1>1, Pow2Step, Pow2Positive

LEMMA Pow2Divides ==
    ASSUME NEW a \in Nat, NEW b \in Nat, a <= b
    PROVE  \E q \in Positive : Pow2(b) = q * Pow2(a)
  <1>1. PICK D \in Nat : b = a + D
    <2>1. b - a \in Nat /\ b = a + (b - a)
      OBVIOUS
    <2> QED BY <2>1
  <1> DEFINE S == {d \in 0..D : \E q \in Positive : Pow2(a + d) = q * Pow2(a)}
  <1>2. 0 \in S
    <2>1. Pow2(a + 0) = 1 * Pow2(a)
      BY Pow2Positive DEF Positive
    <2> QED BY <2>1 DEF Positive
  <1>3. ASSUME NEW d \in 0..(D - 1), d \in S
        PROVE  d + 1 \in S
    <2>1. PICK q \in Positive : Pow2(a + d) = q * Pow2(a)
      BY <1>3
    <2>2. a + d \in Nat /\ a + (d + 1) = (a + d) + 1 /\ d + 1 \in 0..D
      OBVIOUS
    <2>3. Pow2(a + (d + 1)) = 2 * (q * Pow2(a))
      BY <2>1, <2>2, Pow2Step
    <2>4. PICK p \in Positive : p = Pow2(a)
      BY Pow2Positive
    <2>5. 2 * (q * p) = (2 * q) * p /\ 2 * q \in Positive
      BY DEF Positive
    <2> QED BY <2>2, <2>3, <2>4, <2>5
  <1>4. D \in S
    <2> HIDE DEF S
    <2>1. \A d \in 0..D : d \in S
      BY <1>2, <1>3, Rounds
    <2> QED BY <2>1
  <1> QED BY <1>1, <1>4

Cong(a, b, M) == \E k \in Int : a = b + k * M

LEMMA CongMod ==
    ASSUME NEW a \in Int, NEW b \in Int, NEW M \in Positive, Cong(a, b, M)
    PROVE  a % M = b % M
  <1>1. PICK k \in Int : a = b + k * M
    BY DEF Cong
  <1>2. M \in Nat \ {0}
    BY DEF Positive
  <1>3. PICK q \in Int, r \in 0..(M - 1) : b = q * M + r
    <2>1. b \div M \in Int /\ b % M \in 0..(M - 1) /\ b = (b \div M) * M + (b % M)
      BY <1>2
    <2> QED BY <2>1
  <1>4. a = (q + k) * M + r /\ q + k \in Int
    <2>1. (q + k) * M = q * M + k * M
      BY <1>2
    <2> QED BY <1>1, <1>2, <1>3, <2>1
  <1>5. b % M = r
    BY <1>2, <1>3
  <1>6. a % M = r
    BY <1>2, <1>3, <1>4
  <1> QED BY <1>5, <1>6

LEMMA ModCong ==
    ASSUME NEW v \in Int, NEW M \in Positive
    PROVE  v % M \in 0..(M - 1) /\ Cong(v % M, v, M)
  <1>1. M \in Nat \ {0}
    BY DEF Positive
  <1>2. v \div M \in Int /\ v % M \in 0..(M - 1) /\ v = (v \div M) * M + (v % M)
    BY <1>1
  <1>3. PICK q \in Int, r \in Int : q = v \div M /\ r = v % M
    BY <1>1, <1>2
  <1>4. -q \in Int /\ r = v + (-q) * M
    <2>1. v = q * M + r
      BY <1>2, <1>3
    <2>2. (-q) * M = -(q * M)
      BY <1>1
    <2> QED BY ONLY v \in Int, q \in Int, r \in Int, <1>1, <2>1, <2>2
  <1> QED BY <1>2, <1>3, <1>4 DEF Cong

LEMMA CongTrans ==
    ASSUME NEW a \in Int, NEW b \in Int, NEW c \in Int, NEW M \in Positive,
           Cong(a, b, M), Cong(b, c, M)
    PROVE  Cong(a, c, M)
  <1>1. PICK k \in Int : a = b + k * M
    BY DEF Cong
  <1>2. PICK l \in Int : b = c + l * M
    BY DEF Cong
  <1>3. (k + l) * M = k * M + l * M /\ k + l \in Int /\ M \in Int
    BY DEF Positive
  <1>4. a = c + (k + l) * M
    BY <1>1, <1>2, <1>3
  <1> QED BY <1>3, <1>4 DEF Cong

LEMMA CongAffine ==
    ASSUME NEW a \in Int, NEW b \in Int, NEW c \in Int, NEW d \in Int, NEW M \in Positive,
           Cong(a, b, M)
    PROVE  Cong(a * c + d, b * c + d, M)
  <1>1. PICK k \in Int : a = b + k * M
    BY DEF Cong
  <1>2. (b + k * M) * c + d = (b * c + d) + (k * c) * M /\ k * c \in Int
    BY DEF Positive
  <1> QED BY <1>1, <1>2 DEF Cong

LEMMA CongDown ==
    ASSUME NEW a \in Int, NEW b \in Int, NEW M \in Positive, NEW q \in Positive,
           Cong(a, b, q * M)
    PROVE  Cong(a, b, M)
  <1>1. PICK k \in Int : a = b + k * (q * M)
    BY DEF Cong
  <1>2. k * (q * M) = (k * q) * M /\ k * q \in Int
    BY DEF Positive
  <1> QED BY <1>1, <1>2 DEF Cong

LEMMA SignedCong ==
    ASSUME NEW v \in Int, NEW bits \in Positive
    PROVE  /\ Signed(v, bits) \in Int /\ Cong(Signed(v, bits), v, Pow2(bits))
           /\ -Pow2(bits - 1) <= Signed(v, bits) /\ Signed(v, bits) < Pow2(bits - 1)
  <1>1. PICK M \in Positive, H \in Positive : M = Pow2(bits) /\ H = Pow2(bits - 1) /\ M = 2 * H
    <2>1. bits \in Nat
      BY DEF Positive
    <2>2. Pow2(bits) = 2 * Pow2(bits - 1) /\ Pow2(bits - 1) \in Positive
      BY Pow2Half
    <2>3. Pow2(bits) \in Positive
      BY <2>1, Pow2Positive
    <2> QED BY ONLY <2>2, <2>3
  <1>2. PICK w : w = v % M
    OBVIOUS
  <1>3. w \in 0..(M - 1) /\ Cong(w, v, M)
    BY <1>2, ModCong
  <1>4. Signed(v, bits) = IF w >= H THEN w - M ELSE w
    BY <1>1, <1>2 DEF Signed
  <1>5. w \in Int /\ w - M \in Int /\ -H <= (IF w >= H THEN w - M ELSE w)
          /\ (IF w >= H THEN w - M ELSE w) < H
    BY <1>1, <1>3 DEF Positive
  <1>6. Cong(w - M, v, M)
    <2>1. PICK k \in Int : w = v + k * M
      BY <1>3 DEF Cong
    <2>2. (k - 1) * M = k * M - M /\ k - 1 \in Int
      BY DEF Positive
    <2>3. w - M = v + (k - 1) * M
      BY <2>1, <2>2 DEF Positive
    <2> QED BY <2>2, <2>3 DEF Cong
  <1> QED BY <1>1, <1>3, <1>4, <1>5, <1>6

LEMMA SignedSame ==
    ASSUME NEW a \in Int, NEW b \in Int, NEW bits \in Nat, Cong(a, b, Pow2(bits))
    PROVE  Signed(a, bits) = Signed(b, bits)
  <1>1. a % Pow2(bits) = b % Pow2(bits)
    BY CongMod, Pow2Positive
  <1> QED BY <1>1 DEF Signed

-----------------------------------------------------------------------------
(* Numerals *)

LEMMA NumeralsDistinct ==
    ASSUME NEW i \in 1..16, NEW j \in 1..16, Numerals[i] = Numerals[j]
    PROVE  i = j
  <1>1. i = 1 \/ i = 2 \/ i = 3 \/ i = 4 \/ i = 5 \/ i = 6 \/ i = 7 \/ i = 8
          \/ i = 9 \/ i = 10 \/ i = 11 \/ i = 12 \/ i = 13 \/ i = 14 \/ i = 15 \/ i = 16
    OBVIOUS
  <1>2. j = 1 \/ j = 2 \/ j = 3 \/ j = 4 \/ j = 5 \/ j = 6 \/ j = 7 \/ j = 8
          \/ j = 9 \/ j = 10 \/ j = 11 \/ j = 12 \/ j = 13 \/ j = 14 \/ j = 15 \/ j = 16
    OBVIOUS
  <1> QED BY <1>1, <1>2 DEF Numerals

LEMMA NumeralValue ==
    ASSUME NEW n \in 0..15
    PROVE  IsNumeral(Numerals[n + 1]) /\ ValueOf(Numerals[n + 1]) = n
  <1>1. n + 1 \in 1..16
    OBVIOUS
  <1>2. PICK k : k = CHOOSE m \in 1..16 : Numerals[m] = Numerals[n + 1]
    OBVIOUS
  <1>3. k \in 1..16 /\ Numerals[k] = Numerals[n + 1]
    BY <1>1, <1>2
  <1>4. k = n + 1
    BY <1>1, <1>3, NumeralsDistinct
  <1>5. ValueOf(Numerals[n + 1]) = k - 1
    BY <1>2, NumeralsAre DEF ValueOf
  <1> QED BY <1>1, <1>4, <1>5, NumeralsAre DEF IsNumeral

LEMMA ValueRange ==
    ASSUME NEW c, IsNumeral(c)
    PROVE  ValueOf(c) \in 0..15 /\ c = Numerals[ValueOf(c) + 1]
  <1>1. PICK n \in 1..16 : Numerals[n] = c
    BY NumeralsAre DEF IsNumeral
  <1>2. n - 1 \in 0..15 /\ (n - 1) + 1 = n
    OBVIOUS
  <1>3. ValueOf(c) = n - 1
    BY <1>1, <1>2, NumeralValue
  <1> QED BY <1>1, <1>2, <1>3

(* Conversions are no digits of a width. *)
LEMMA NoDigits ==
    ASSUME NEW c \in {"d", "l", "u", "x", "p", "s"}
    PROVE  ~IsDigit(c, 10)
  <1>1. CASE c = "d"
    <2>1. "d" = Numerals[13 + 1] /\ 13 \in 0..15
      BY DEF Numerals
    <2>2. ValueOf("d") = 13
      BY <2>1, NumeralValue
    <2> QED BY <1>1, <2>2 DEF IsDigit
  <1>2. CASE c # "d"
    BY <1>2, NotNumerals DEF IsDigit
  <1> QED BY <1>1, <1>2

-----------------------------------------------------------------------------
(* The number that the numerals of a text stand for *)

ValueStep(v, c, base) == IF IsNumeral(c) THEN v * base + ValueOf(c) ELSE v

LEMMA ValueStepNat ==
    ASSUME NEW v \in Nat, NEW c, NEW base \in Nat
    PROVE  ValueStep(v, c, base) \in Nat
  <1>1. CASE IsNumeral(c)
    <2>1. ValueOf(c) \in Nat
      BY <1>1, ValueRange
    <2> QED BY <1>1, <2>1 DEF ValueStep
  <1>2. CASE ~IsNumeral(c)
    BY <1>2 DEF ValueStep
  <1> QED BY <1>1, <1>2

LEMMA ValueLoop ==
    ASSUME NEW s \in Seq(Chars), NEW base \in Nat
    PROVE  \E g : /\ g = [n \in 0..Len(s) |-> IF n = 0 THEN 0 ELSE ValueStep(g[n - 1], s[n], base)]
                  /\ Value(s, base) = g[Len(s)]
                  /\ \A n \in 0..Len(s) : g[n] \in Nat
  <1>1. PICK N \in Nat : N = Len(s)
    BY LenProperties
  <1> DEFINE F(g) == [n \in 0..N |-> IF n = 0 THEN 0 ELSE ValueStep(g[n - 1], s[n], base)]
  <1>2. PICK I : I = [n \in 0..N |-> Nat]
    OBVIOUS
  <1>3. PICK f : f = [n \in 1..N |-> [x \in Nat |-> ValueStep(x, s[n], base)]]
    OBVIOUS
  <1>4. PICK h : IsLoop(h, N, 0, f) /\ \A n \in 0..N : h[n] \in I[n]
    <2>1. 0 \in I[0]
      BY <1>2
    <2>2. \A n \in 0..(N - 1) : \A x \in I[n] : f[n + 1][x] \in I[n + 1]
      <3> SUFFICES ASSUME NEW n \in 0..(N - 1), NEW x \in I[n] PROVE f[n + 1][x] \in I[n + 1]
        OBVIOUS
      <3>1. n + 1 \in 1..N /\ n \in 0..N /\ n + 1 \in 0..N
        OBVIOUS
      <3>2. x \in Nat
        BY <1>2, <3>1
      <3>3. f[n + 1][x] = ValueStep(x, s[n + 1], base)
        BY <1>3, <3>1, <3>2
      <3>4. ValueStep(x, s[n + 1], base) \in Nat
        BY <3>2, ValueStepNat
      <3> QED BY <1>2, <3>1, <3>3, <3>4
    <2> QED BY ONLY N \in Nat, <2>1, <2>2, LoopExists
  <1>5. ASSUME NEW n \in 0..N
        PROVE  (IF n = 0 THEN 0 ELSE f[n][h[n - 1]])
                 = (IF n = 0 THEN 0 ELSE ValueStep(h[n - 1], s[n], base))
    <2>1. CASE n # 0
      <3>1. n \in 1..N /\ n - 1 \in 0..N
        BY <2>1
      <3>2. h[n - 1] \in Nat
        BY <1>2, <1>4, <3>1
      <3> QED BY <1>3, <3>1, <3>2
    <2> QED BY <2>1
  <1>6. h = F(h)
    BY <1>4, <1>5 DEF IsLoop
  <1>7. PICK g : g = CHOOSE k : k = F(k)
    OBVIOUS
  <1>8. g = F(g)
    BY <1>6, <1>7
  <1>9. \A n \in 0..N : g[n] \in I[n]
    <2>1. g[0] \in I[0]
      BY <1>2, <1>8
    <2>2. ASSUME NEW n \in 0..(N - 1), g[n] \in I[n]
          PROVE  g[n + 1] \in I[n + 1]
      <3>1. n + 1 \in 0..N /\ n + 1 # 0 /\ (n + 1) - 1 = n /\ n \in 0..N
        OBVIOUS
      <3>2. g[n + 1] = ValueStep(g[n], s[n + 1], base) /\ g[n] \in Nat
        BY <1>2, <1>8, <2>2, <3>1
      <3>3. ValueStep(g[n], s[n + 1], base) \in Nat
        BY <3>2, ValueStepNat
      <3> QED BY <1>2, <3>1, <3>2, <3>3
    <2> QED BY ONLY N \in Nat, <2>1, <2>2, LoopInvariant
  <1>10. Value(s, base) = g[N]
    BY <1>1, <1>7 DEF Value, ValueStep
  <1>11. \A n \in 0..N : g[n] \in Nat
    BY <1>2, <1>9
  <1> QED BY <1>1, <1>8, <1>10, <1>11

LEMMA ValueNat ==
    ASSUME NEW s \in Seq(Chars), NEW base \in Nat
    PROVE  Value(s, base) \in Nat
  <1>1. PICK g : Value(s, base) = g[Len(s)] /\ \A n \in 0..Len(s) : g[n] \in Nat
    BY ValueLoop
  <1>2. Len(s) \in 0..Len(s)
    BY LenProperties
  <1> QED BY <1>1, <1>2

LEMMA ValueEmpty ==
    ASSUME NEW base \in Nat
    PROVE  Value(<<>>, base) = 0
  <1>1. PICK s \in Seq(Chars) : s = <<>> /\ Len(s) = 0
    BY EmptySeq
  <1>2. PICK g : /\ g = [n \in 0..Len(s) |-> IF n = 0 THEN 0 ELSE ValueStep(g[n - 1], s[n], base)]
                 /\ Value(s, base) = g[Len(s)]
    BY ValueLoop
  <1>3. Value(s, base) = 0
    BY <1>1, <1>2
  <1> QED BY <1>1, <1>3

LEMMA ValueAppend ==
    ASSUME NEW s \in Seq(Chars), NEW c \in Chars, NEW base \in Nat
    PROVE  Value(Append(s, c), base) = ValueStep(Value(s, base), c, base)
  <1>1. PICK N \in Nat : N = Len(s)
    BY LenProperties
  <1>2. PICK u : u = Append(s, c)
    OBVIOUS
  <1>3. u \in Seq(Chars) /\ Len(u) = N + 1 /\ u[N + 1] = c /\ \A i \in 1..N : u[i] = s[i]
    BY <1>1, <1>2, AppendProperties
  <1>4. PICK g : /\ g = [n \in 0..N |-> IF n = 0 THEN 0 ELSE ValueStep(g[n - 1], s[n], base)]
                 /\ Value(s, base) = g[N]
    BY <1>1, ValueLoop
  <1>5. PICK h : /\ h = [n \in 0..(N + 1) |-> IF n = 0 THEN 0 ELSE ValueStep(h[n - 1], u[n], base)]
                 /\ Value(u, base) = h[N + 1]
    <2>1. u \in Seq(Chars)
      BY <1>3
    <2>2. PICK h : /\ h = [n \in 0..Len(u) |-> IF n = 0 THEN 0 ELSE ValueStep(h[n - 1], u[n], base)]
                   /\ Value(u, base) = h[Len(u)]
      BY ONLY base \in Nat, <2>1, ValueLoop
    <2> QED BY <1>3, <2>2
  <1>6. PICK I : I = [n \in 0..N |-> {g[n]}]
    OBVIOUS
  <1>7. \A n \in 0..N : h[n] \in I[n]
    <2>1. h[0] \in I[0]
      BY <1>4, <1>5, <1>6
    <2>2. ASSUME NEW n \in 0..(N - 1), h[n] \in I[n]
          PROVE  h[n + 1] \in I[n + 1]
      <3>1. /\ n + 1 \in 0..N /\ n + 1 # 0 /\ (n + 1) - 1 = n /\ n \in 0..N
            /\ n + 1 \in 0..(N + 1) /\ n + 1 \in 1..N
        OBVIOUS
      <3>2. h[n + 1] = ValueStep(h[n], u[n + 1], base) /\ g[n + 1] = ValueStep(g[n], s[n + 1], base)
        BY <1>4, <1>5, <3>1
      <3> QED BY <1>3, <1>6, <2>2, <3>1, <3>2
    <2> QED BY ONLY N \in Nat, <2>1, <2>2, LoopInvariant
  <1>8. h[N] = g[N]
    BY <1>6, <1>7
  <1>9. N + 1 \in 0..(N + 1) /\ N + 1 # 0 /\ (N + 1) - 1 = N
    OBVIOUS
  <1>10. h[N + 1] = ValueStep(h[N], c, base)
    BY <1>3, <1>5, <1>9
  <1> QED BY <1>2, <1>4, <1>5, <1>8, <1>10

(* Padding counts nothing. *)
LEMMA ValuePad ==
    ASSUME NEW pre \in Seq(Chars), NEW s \in Seq(Chars), NEW base \in Nat,
           \A i \in 1..Len(pre) : ValueStep(0, pre[i], base) = 0
    PROVE  Value(pre \o s, base) = Value(s, base)
  <1>1. PICK P \in Nat, N \in Nat : P = Len(pre) /\ N = Len(s)
    BY LenProperties
  <1>2. PICK u : u = pre \o s
    OBVIOUS
  <1>3. /\ u \in Seq(Chars) /\ Len(u) = P + N
        /\ \A i \in 1..P + N : u[i] = IF i <= P THEN pre[i] ELSE s[i - P]
    BY <1>1, <1>2, ConcatProperties
  <1>4. PICK g : /\ g = [n \in 0..N |-> IF n = 0 THEN 0 ELSE ValueStep(g[n - 1], s[n], base)]
                 /\ Value(s, base) = g[N]
    BY <1>1, ValueLoop
  <1>5. PICK h : /\ h = [n \in 0..(P + N) |-> IF n = 0 THEN 0 ELSE ValueStep(h[n - 1], u[n], base)]
                 /\ Value(u, base) = h[P + N]
    <2>1. u \in Seq(Chars)
      BY <1>3
    <2>2. PICK h : /\ h = [n \in 0..Len(u) |-> IF n = 0 THEN 0 ELSE ValueStep(h[n - 1], u[n], base)]
                   /\ Value(u, base) = h[Len(u)]
      BY ONLY base \in Nat, <2>1, ValueLoop
    <2> QED BY <1>3, <2>2
  <1>6. PICK I : I = [n \in 0..(P + N) |-> {IF n <= P THEN 0 ELSE g[n - P]}]
    OBVIOUS
  <1>7. \A n \in 0..(P + N) : h[n] \in I[n]
    <2>1. h[0] \in I[0]
      BY <1>5, <1>6
    <2>2. ASSUME NEW n \in 0..(P + N - 1), h[n] \in I[n]
          PROVE  h[n + 1] \in I[n + 1]
      <3>1. /\ n + 1 \in 0..(P + N) /\ n + 1 # 0 /\ (n + 1) - 1 = n /\ n \in 0..(P + N)
            /\ n + 1 \in 1..(P + N)
        OBVIOUS
      <3>2. h[n + 1] = ValueStep(h[n], u[n + 1], base)
        BY <1>5, <3>1
      <3>3. CASE n + 1 <= P
        <4>1. h[n] = 0 /\ u[n + 1] = pre[n + 1] /\ n + 1 \in 1..Len(pre)
          BY <1>1, <1>3, <1>6, <2>2, <3>1, <3>3
        <4> QED BY <1>6, <3>1, <3>2, <3>3, <4>1
      <3>4. CASE ~(n + 1 <= P)
        <4>1. PICK m \in 0..N : m = (n + 1) - P /\ m # 0 /\ m - 1 = n - P /\ m - 1 \in 0..N
          BY <3>4
        <4>2. u[n + 1] = s[m]
          BY <1>3, <3>1, <3>4, <4>1
        <4>3. g[0] = 0 /\ 0 \in 0..N
          BY <1>4
        <4>4. h[n] = g[m - 1]
          <5>1. CASE n = P
            BY <1>6, <2>2, <3>1, <4>1, <4>3, <5>1
          <5>2. CASE n # P
            BY <1>6, <2>2, <3>1, <3>4, <4>1, <5>2
          <5> QED BY <5>1, <5>2
        <4>5. g[m] = ValueStep(g[m - 1], s[m], base)
          BY <1>4, <4>1
        <4>6. h[n + 1] = g[(n + 1) - P]
          BY <3>2, <4>1, <4>2, <4>4, <4>5
        <4> QED BY <1>6, <3>1, <3>4, <4>6
      <3> QED BY <3>3, <3>4
    <2>3. PICK K \in Nat : K = P + N
      OBVIOUS
    <2>4. \A n \in 0..(K - 1) : h[n] \in I[n] => h[n + 1] \in I[n + 1]
      BY <2>2, <2>3
    <2>5. \A n \in 0..K : h[n] \in I[n]
      BY ONLY K \in Nat, <2>1, <2>4, LoopInvariant
    <2> QED BY <2>3, <2>5
  <1>8. h[P + N] = g[N]
    <2>1. P + N \in 0..(P + N) /\ (P + N) - P = N /\ (P + N <= P => N = 0)
      OBVIOUS
    <2>2. g[0] = 0
      BY <1>4
    <2> QED BY <1>6, <1>7, <2>1, <2>2
  <1> QED BY <1>2, <1>4, <1>5, <1>8

-----------------------------------------------------------------------------
(* printnum() *)

IsDigits(d, base, num) ==
    /\ d \in Seq(Chars) /\ Len(d) > 0
    /\ \A i \in 1..Len(d) : IsDigit(d[i], base)
    /\ Value(d, base) = num

LEMMA Quotient ==
    ASSUME NEW n \in Nat, NEW base \in Nat, base > 1
    PROVE  /\ n \div base \in Nat /\ n % base \in 0..(base - 1)
           /\ n = (n \div base) * base + (n % base)
           /\ n >= base => n \div base > 0 /\ n \div base < n
           /\ n < base => n % base = n
  <1>1. PICK q \in Nat, r \in Nat : q = n \div base /\ r = n % base /\ r < base /\ n = q * base + r
    BY DivMod
  <1>2. q = 0 => n = r
    BY <1>1
  <1>3. q > 0 => q * base >= base
    BY <1>1
  <1>4. q > 0 => q * base > q
    BY <1>1
  <1> QED BY <1>1, <1>2, <1>3, <1>4

LEMMA LastDigit ==
    ASSUME NEW base \in 2..16, NEW r \in 0..(base - 1)
    PROVE  /\ Numerals[r + 1] \in Chars /\ IsNumeral(Numerals[r + 1])
           /\ ValueOf(Numerals[r + 1]) = r /\ IsDigit(Numerals[r + 1], base)
  <1>1. r \in 0..15 /\ r + 1 \in 1..16 /\ r < base
    OBVIOUS
  <1>2. Numerals[r + 1] \in Chars
    BY <1>1 DEF Chars
  <1> QED BY <1>1, <1>2, NumeralValue DEF IsDigit

LEMMA DigitsGrow ==
    ASSUME NEW base \in 2..16, NEW q \in Nat, NEW r \in 0..(base - 1),
           NEW d \in Seq(Chars), \A i \in 1..Len(d) : IsDigit(d[i], base), Value(d, base) = q
    PROVE  IsDigits(d \o <<Numerals[r + 1]>>, base, q * base + r)
  <1>1. PICK c \in Chars : c = Numerals[r + 1] /\ IsNumeral(c) /\ ValueOf(c) = r /\ IsDigit(c, base)
    BY LastDigit
  <1>2. PICK u : u = Append(d, c)
    OBVIOUS
  <1>3. u = d \o <<c>>
    BY <1>2, AppendIsConcat
  <1>4. /\ u \in Seq(Chars) /\ Len(u) = Len(d) + 1 /\ u[Len(d) + 1] = c
        /\ \A i \in 1..Len(d) : u[i] = d[i]
    BY <1>2, AppendProperties
  <1>5. Len(d) \in Nat
    BY LenProperties
  <1>6. \A i \in 1..Len(u) : IsDigit(u[i], base)
    <2> SUFFICES ASSUME NEW i \in 1..Len(u) PROVE IsDigit(u[i], base)
      OBVIOUS
    <2>1. i \in 1..Len(d) \/ i = Len(d) + 1
      BY <1>4, <1>5
    <2> QED BY <1>1, <1>4, <2>1
  <1>7. Value(u, base) = q * base + r
    <2>1. base \in Nat
      OBVIOUS
    <2>2. Value(u, base) = ValueStep(q, c, base)
      BY <1>2, <2>1, ValueAppend
    <2> QED BY <1>1, <2>2 DEF ValueStep
  <1>8. Len(u) > 0
    BY <1>4, <1>5
  <1> QED BY <1>1, <1>3, <1>4, <1>6, <1>7, <1>8, SMTT(30) DEF IsDigits

LEMMA PrintnumDigits ==
    ASSUME NEW num \in Nat, NEW base \in 2..16, NEW width \in Int, NEW padc
    PROVE  \E d : /\ IsDigits(d, base, num)
                  /\ printnum(num, base, width, padc) = Repeat(padc, width - Len(d)) \o d
  <1> DEFINE D(g, n) == (IF n >= base THEN g[n \div base] ELSE <<>>) \o <<Numerals[(n % base) + 1]>>
             F(g, k) == [n \in 0..k |-> D(g, n)]
             S == {k \in 0..num : \E g : g = F(g, k)}
  <1>1. base \in Nat /\ base > 1
    OBVIOUS
  <1>2. ASSUME NEW n \in Nat, n >= base
        PROVE  n \div base \in Nat /\ n \div base < n
    BY <1>1, <1>2, Quotient
  <1>3. 0 \in S
    <2>1. PICK g : g = [n \in 0..0 |-> <<>> \o <<Numerals[(n % base) + 1]>>]
      OBVIOUS
    <2>2. \A n \in 0..0 : ~(n >= base)
      BY <1>1
    <2>3. g = F(g, 0)
      BY <2>1, <2>2
    <2> QED BY <2>3
  <1>4. ASSUME NEW k \in 0..(num - 1), k \in S
        PROVE  k + 1 \in S
    <2>1. PICK g : g = F(g, k)
      BY <1>4
    <2>2. PICK h : h = [n \in 0..(k + 1) |-> IF n = k + 1 THEN D(g, k + 1) ELSE g[n]]
      OBVIOUS
    <2>3. k \in Nat /\ k + 1 \in 0..num
      OBVIOUS
    <2>4. \A n \in 0..k : h[n] = g[n]
      BY <2>2, <2>3
    <2>5. ASSUME NEW n \in 0..(k + 1)
          PROVE  h[n] = D(h, n)
      <3>1. D(h, n) = D(g, n)
        <4>1. CASE n >= base
          <5>1. n \div base \in 0..k
            BY <1>2, <2>3, <4>1
          <5> QED BY <2>4, <5>1
        <4>2. CASE ~(n >= base)
          BY <4>2
        <4> QED BY <4>1, <4>2
      <3>2. h[n] = D(g, n)
        <4>1. CASE n = k + 1
          BY <2>2, <4>1
        <4>2. CASE n # k + 1
          <5>1. n \in 0..k
            BY <2>3, <4>2
          <5> QED BY <2>1, <2>4, <5>1
        <4> QED BY <4>1, <4>2
      <3> QED BY <3>1, <3>2
    <2>6. h = [n \in 0..(k + 1) |-> h[n]]
      BY <2>2
    <2>7. h = F(h, k + 1)
      BY <2>5, <2>6
    <2> QED BY <2>3, <2>7
  <1>5. num \in S
    <2> HIDE DEF S
    <2>1. \A n \in 0..num : n \in S
      BY <1>3, <1>4, Rounds
    <2> QED BY <2>1
  <1>6. PICK m : m = CHOOSE g : g = F(g, num)
    BY Zenon
  <1>7. m = F(m, num)
    BY <1>5, <1>6
  <1>8. ASSUME NEW n \in 0..num, \A k \in 0..(n - 1) : IsDigits(m[k], base, k)
        PROVE  IsDigits(m[n], base, n)
    <2>1. PICK q \in Nat, r \in 0..(base - 1) :
              /\ q = n \div base /\ r = n % base /\ n = q * base + r
              /\ n >= base => q \in 0..(n - 1)
              /\ n < base => q = 0
      <3>1. /\ n \div base \in Nat /\ n % base \in 0..(base - 1)
            /\ n = (n \div base) * base + (n % base)
            /\ n >= base => n \div base > 0 /\ n \div base < n
        <4>1. n \in Nat
          OBVIOUS
        <4> QED BY ONLY <1>1, <4>1, Quotient
      <3>2. n < base => n \div base = 0
        BY <1>1
      <3>3. n >= base => n \div base \in 0..(n - 1)
        BY <3>1
      <3> QED BY ONLY <3>1, <3>2, <3>3
    <2>2. m[n] = (IF n >= base THEN m[q] ELSE <<>>) \o <<Numerals[r + 1]>>
      BY <1>7, <2>1
    <2>3. PICK d : d = IF n >= base THEN m[q] ELSE <<>>
      OBVIOUS
    <2>4. d \in Seq(Chars) /\ (\A i \in 1..Len(d) : IsDigit(d[i], base)) /\ Value(d, base) = q
      <3>1. CASE n >= base
        <4>1. IsDigits(m[q], base, q)
          BY <1>8, <2>1, <3>1
        <4> QED BY <2>3, <3>1, <4>1 DEF IsDigits
      <3>2. CASE ~(n >= base)
        <4>1. d = <<>> /\ q = 0
          BY <1>1, <2>1, <2>3, <3>2
        <4>2. d \in Seq(Chars) /\ Len(d) = 0
          BY <4>1, EmptySeq
        <4>3. Value(d, base) = 0
          BY <1>1, <4>1, ValueEmpty
        <4> QED BY <4>1, <4>2, <4>3
      <3> QED BY <3>1, <3>2
    <2>5. IsDigits(d \o <<Numerals[r + 1]>>, base, q * base + r)
      BY ONLY base \in 2..16, q \in Nat, r \in 0..(base - 1), <2>4, DigitsGrow
    <2> QED BY <2>1, <2>2, <2>3, <2>5
  <1>9. IsDigits(m[num], base, num)
    <2> DEFINE G == {n \in 0..num : \A k \in 0..n : IsDigits(m[k], base, k)}
    <2>1. 0 \in G
      BY <1>8
    <2>2. ASSUME NEW n \in 0..(num - 1), n \in G
          PROVE  n + 1 \in G
      <3>1. n + 1 \in 0..num /\ (n + 1) - 1 = n
        OBVIOUS
      <3>2. IsDigits(m[n + 1], base, n + 1)
        BY <1>8, <2>2, <3>1
      <3>3. \A k \in 0..(n + 1) : k \in 0..n \/ k = n + 1
        OBVIOUS
      <3> QED BY <2>2, <3>1, <3>2, <3>3
    <2>3. \A n \in 0..num : n \in G
      <3> HIDE DEF G
      <3> QED BY <2>1, <2>2, Rounds
    <2> QED BY <2>3
  <1>10. printnum(num, base, width, padc) = Repeat(padc, width - Len(m[num])) \o m[num]
    BY <1>6 DEF printnum
  <1> QED BY <1>9, <1>10

-----------------------------------------------------------------------------
(* strtol() *)

AllDigits(s, base) == \A i \in 1..Len(s) : IsDigit(s[i], base)

LEMMA SignedZero == Signed(0, INTBITS) = 0
  <1>1. INTBITS \in Positive
    BY LibraryAssumption DEF Positive
  <1>2. PICK M \in Positive, H \in Positive : M = Pow2(INTBITS) /\ H = Pow2(INTBITS - 1)
    BY <1>1, Pow2Half, Pow2Positive DEF Positive
  <1>3. 0 % M = 0 /\ ~(0 >= H)
    BY DEF Positive
  <1> QED BY <1>2, <1>3 DEF Signed

LEMMA SignedDigit ==
    ASSUME NEW a \in Int, NEW base \in Nat, NEW d \in Nat
    PROVE  Signed(Signed(a, INTBITS) * base + d, INTBITS) = Signed(a * base + d, INTBITS)
  <1>1. INTBITS \in Positive /\ INTBITS \in Nat
    BY LibraryAssumption DEF Positive
  <1>2. PICK s \in Int : s = Signed(a, INTBITS) /\ Cong(s, a, Pow2(INTBITS))
    BY <1>1, SignedCong
  <1>3. Pow2(INTBITS) \in Positive
    BY <1>1, Pow2Positive
  <1>4. Cong(s * base + d, a * base + d, Pow2(INTBITS))
    <2>1. base \in Int /\ d \in Int /\ Cong(s, a, Pow2(INTBITS))
      BY <1>2
    <2> QED BY ONLY a \in Int, s \in Int, <1>3, <2>1, CongAffine
  <1>5. s * base + d \in Int /\ a * base + d \in Int
    OBVIOUS
  <1>6. Signed(s * base + d, INTBITS) = Signed(a * base + d, INTBITS)
    BY ONLY <1>1, <1>4, <1>5, SignedSame
  <1> QED BY <1>2, <1>6

LEMMA SignedMinus ==
    ASSUME NEW a \in Int
    PROVE  Signed(-Signed(a, INTBITS), INTBITS) = Signed(-a, INTBITS)
  <1>1. INTBITS \in Positive /\ INTBITS \in Nat
    BY LibraryAssumption DEF Positive
  <1>2. PICK s \in Int : s = Signed(a, INTBITS) /\ Cong(s, a, Pow2(INTBITS))
    BY <1>1, SignedCong
  <1>3. Pow2(INTBITS) \in Positive
    BY <1>1, Pow2Positive
  <1>4. Cong(s * (-1) + 0, a * (-1) + 0, Pow2(INTBITS))
    <2>1. -1 \in Int /\ 0 \in Int /\ Cong(s, a, Pow2(INTBITS))
      BY <1>2
    <2> QED BY ONLY a \in Int, s \in Int, <1>3, <2>1, CongAffine
  <1>5. s * (-1) + 0 = -s /\ a * (-1) + 0 = -a /\ -s \in Int /\ -a \in Int
    OBVIOUS
  <1>6. Cong(-s, -a, Pow2(INTBITS))
    BY <1>4, <1>5
  <1>7. Signed(-s, INTBITS) = Signed(-a, INTBITS)
    BY ONLY <1>1, <1>5, <1>6, SignedSame
  <1> QED BY <1>2, <1>7

LEMMA StopAtEnd ==
    ASSUME NEW v \in Seq(Chars), NEW base \in Nat, AllDigits(v, base)
    PROVE  SelectInSeq(Append(v, NUL), LAMBDA c : ~IsDigit(c, base)) = Len(v) + 1
  <1>1. PICK w : w = Append(v, NUL)
    OBVIOUS
  <1>2. NUL \in Chars
    BY DEF NUL, Chars, Symbols
  <1>3. Len(w) = Len(v) + 1 /\ w[Len(v) + 1] = NUL /\ \A i \in 1..Len(v) : w[i] = v[i]
    BY <1>1, <1>2, AppendProperties
  <1>4. Len(v) \in Nat
    BY LenProperties
  <1>5. ~IsDigit(NUL, base)
    BY NotNumerals DEF NUL, IsDigit
  <1>6. PICK T : T = {i \in 1..Len(w) : ~IsDigit(w[i], base)}
    OBVIOUS
  <1>7. T = {Len(v) + 1}
    <2>1. Len(v) + 1 \in T
      BY <1>3, <1>4, <1>5, <1>6
    <2>2. ASSUME NEW i \in T PROVE i = Len(v) + 1
      <3>1. i \in 1..Len(v) \/ i = Len(v) + 1
        BY <1>3, <1>4, <1>6
      <3> QED BY <1>3, <1>6, <3>1 DEF AllDigits
    <2> QED BY <2>1, <2>2
  <1>8. Min(T) = Len(v) + 1
    BY <1>4, <1>7 DEF Min
  <1>9. T # {}
    BY <1>7
  <1> QED BY <1>1, <1>6, <1>8, <1>9 DEF SelectInSeq

LEMMA StrtolValue ==
    ASSUME NEW v \in Seq(Chars), NEW base \in Nat, AllDigits(v, base), NEW N \in Nat, N = Len(v),
           NEW w, w = CHOOSE val : val = [n \in 0..N |->
                          IF n = 0 THEN 0 ELSE Signed(val[n - 1] * base + ValueOf(v[n]), INTBITS)]
    PROVE  w[N] = Signed(Value(v, base), INTBITS)
  <1> DEFINE F(val) == [n \in 0..N |->
                          IF n = 0 THEN 0 ELSE Signed(val[n - 1] * base + ValueOf(v[n]), INTBITS)]
  <1>1. PICK g : /\ g = [n \in 0..N |-> IF n = 0 THEN 0 ELSE ValueStep(g[n - 1], v[n], base)]
                 /\ Value(v, base) = g[N]
                 /\ \A n \in 0..N : g[n] \in Nat
    BY ValueLoop
  <1>2. PICK h : h = [n \in 0..N |-> Signed(g[n], INTBITS)]
    OBVIOUS
  <1>3. ASSUME NEW n \in 0..N
        PROVE  h[n] = IF n = 0 THEN 0 ELSE Signed(h[n - 1] * base + ValueOf(v[n]), INTBITS)
    <2>1. CASE n = 0
      BY <1>1, <1>2, <2>1, SignedZero
    <2>2. CASE n # 0
      <3>1. n \in 1..N /\ n - 1 \in 0..N
        BY <2>2
      <3>2. IsNumeral(v[n])
        BY <3>1 DEF AllDigits, IsDigit
      <3>3. ValueOf(v[n]) \in Nat
        BY <3>2, ValueRange, SMTT(30)
      <3>4. g[n] = g[n - 1] * base + ValueOf(v[n]) /\ g[n - 1] \in Int
        BY <1>1, <2>2, <3>1, <3>2 DEF ValueStep
      <3>5. Signed(Signed(g[n - 1], INTBITS) * base + ValueOf(v[n]), INTBITS)
              = Signed(g[n - 1] * base + ValueOf(v[n]), INTBITS)
        BY <3>3, <3>4, SignedDigit
      <3> QED BY <1>2, <2>2, <3>1, <3>4, <3>5
    <2> QED BY <2>1, <2>2
  <1>4. h = [n \in 0..N |-> h[n]]
    BY <1>2
  <1>5. h = F(h)
    BY <1>3, <1>4
  <1>6. w = F(w)
    BY <1>5
  <1>7. PICK I : I = [n \in 0..N |-> {h[n]}]
    OBVIOUS
  <1>8. \A n \in 0..N : w[n] \in I[n]
    <2>1. w[0] \in I[0]
      <3>1. 0 \in 0..N
        OBVIOUS
      <3>2. w[0] = 0 /\ h[0] = 0
        BY <1>3, <1>6, <3>1
      <3> QED BY <1>7, <3>1, <3>2
    <2>2. ASSUME NEW n \in 0..(N - 1), w[n] \in I[n]
          PROVE  w[n + 1] \in I[n + 1]
      <3>1. n + 1 \in 0..N /\ n + 1 # 0 /\ (n + 1) - 1 = n /\ n \in 0..N
        OBVIOUS
      <3>2. w[n] = h[n]
        BY <1>7, <2>2, <3>1
      <3>3. w[n + 1] = Signed(w[n] * base + ValueOf(v[n + 1]), INTBITS)
        BY <1>6, <3>1
      <3>4. h[n + 1] = Signed(h[n] * base + ValueOf(v[n + 1]), INTBITS)
        BY <1>3, <3>1
      <3> QED BY <1>7, <3>1, <3>2, <3>3, <3>4
    <2> QED BY ONLY N \in Nat, <2>1, <2>2, LoopInvariant
  <1>9. w[N] = h[N]
    BY <1>7, <1>8
  <1> QED BY <1>1, <1>2, <1>9

LEMMA StrtolReads ==
    ASSUME NEW s, NEW base \in {10, 16}, NEW t, t = AfterBlanks(s), NEW u, u = AfterSign(t),
           NEW v \in Seq(Chars), v = AfterPrefix(u, base),
           AllDigits(v, base)
    PROVE  strtol(s, base) = IF t # u /\ t[1] = "-" THEN Signed(-Value(v, base), INTBITS)
                             ELSE Signed(Value(v, base), INTBITS)
  <1>1. BaseOf(u, base) = base
    BY DEF BaseOf, HasPrefix
  <1>2. PICK N \in Nat : N = Len(v)
    BY LenProperties
  <1>3. base \in Nat
    OBVIOUS
  <1>4. SelectInSeq(Append(v, NUL), LAMBDA c : ~IsDigit(c, base)) = N + 1
    BY <1>2, <1>3, StopAtEnd
  <1>5. (N + 1) - 1 = N
    OBVIOUS
  <1>6. PICK w : w = CHOOSE val : val = [n \in 0..N |->
                        IF n = 0 THEN 0 ELSE Signed(val[n - 1] * base + ValueOf(v[n]), INTBITS)]
    OBVIOUS
  <1>7. w[N] = Signed(Value(v, base), INTBITS)
    BY ONLY v \in Seq(Chars), AllDigits(v, base), N \in Nat, <1>2, <1>3, <1>6, StrtolValue, SMTT(30)
  <1>8. strtol(s, base) = IF t # u /\ t[1] = "-" THEN Signed(-w[N], INTBITS) ELSE w[N]
    <2>1. ReadDigits(v, base) = w[N]
      BY <1>4, <1>5, <1>6 DEF ReadDigits
    <2> QED BY <1>1, <2>1 DEF strtol
  <1>9. Value(v, base) \in Int
    BY <1>3, ValueNat
  <1>10. Signed(-w[N], INTBITS) = Signed(-Value(v, base), INTBITS)
    BY <1>7, <1>9, SignedMinus
  <1> QED BY <1>7, <1>8, <1>10

LEMMA Blanks ==
    ASSUME NEW s \in Seq(Chars), NEW K \in Nat, K < Len(s),
           \A i \in 1..K : s[i] \in Blank, s[K + 1] \notin Blank
    PROVE  AfterBlanks(s) = SubSeq(s, K + 1, Len(s))
  <1>1. PICK w : w = Append(s, NUL)
    OBVIOUS
  <1>2. NUL \in Chars
    BY DEF NUL, Chars, Symbols
  <1>3. Len(w) = Len(s) + 1 /\ \A i \in 1..Len(s) : w[i] = s[i]
    BY <1>1, <1>2, AppendProperties
  <1>4. Len(s) \in Nat
    BY LenProperties
  <1>5. PICK T : T = {i \in 1..Len(w) : w[i] \notin Blank}
    OBVIOUS
  <1>6. K + 1 \in T /\ \A i \in T : K + 1 <= i
    <2>1. K + 1 \in 1..Len(s) /\ K + 1 \in 1..Len(w)
      BY <1>3, <1>4
    <2>2. K + 1 \in T
      BY <1>3, <1>5, <2>1
    <2>3. ASSUME NEW i \in T PROVE K + 1 <= i
      <3>1. i \in 1..Len(w) /\ w[i] \notin Blank
        BY <1>5
      <3>2. i \in 1..K => i \in 1..Len(s)
        BY <1>4
      <3>3. ~(i \in 1..K)
        BY <1>3, <3>1, <3>2
      <3> QED BY <1>3, <1>4, <3>1, <3>3
    <2> QED BY <2>2, <2>3
  <1>7. T \in SUBSET Int
    BY <1>5
  <1>8. Min(T) = K + 1
    <2>1. Min(T) = LeastOf(T)
      BY DEF Min, LeastOf
    <2>2. T # {} /\ K + 1 \in Int
      BY <1>6
    <2>3. LeastOf(T) \in T /\ \A y \in T : LeastOf(T) <= y
      BY ONLY <1>6, <1>7, <2>2, LeastInt
    <2>4. PICK l \in Int : l = LeastOf(T) /\ l <= K + 1 /\ K + 1 <= l
      BY <1>6, <1>7, <2>3
    <2>5. l = K + 1
      BY <2>4
    <2> QED BY <2>1, <2>4, <2>5
  <1>9. SelectInSeq(w, LAMBDA c : c \notin Blank) = K + 1
    BY <1>5, <1>6, <1>8 DEF SelectInSeq
  <1> QED BY <1>1, <1>9 DEF AfterBlanks

LEMMA Dropped ==
    ASSUME NEW pre \in Seq(Chars), NEW u \in Seq(Chars)
    PROVE  SubSeq(pre \o u, Len(pre) + 1, Len(pre \o u)) = u
  <1>1. PICK P \in Nat, N \in Nat : P = Len(pre) /\ N = Len(u)
    BY LenProperties
  <1>2. PICK s : s = pre \o u
    OBVIOUS
  <1>3. /\ s \in Seq(Chars) /\ Len(s) = P + N
        /\ \A i \in 1..P + N : s[i] = IF i <= P THEN pre[i] ELSE u[i - P]
    BY <1>1, <1>2, ConcatProperties
  <1>4. PICK t : t = SubSeq(s, P + 1, P + N)
    OBVIOUS
  <1>5. t \in Seq(Chars) /\ Len(t) = N /\ \A i \in 1..N : t[i] = s[P + i]
    <2>1. \A i \in P + 1..P + N : s[i] \in Chars
      <3> SUFFICES ASSUME NEW i \in P + 1..P + N PROVE s[i] \in Chars
        OBVIOUS
      <3>1. i \in 1..Len(s)
        BY <1>3
      <3> QED BY <1>3, <3>1, ElementOfSeq
    <2>2. P + 1 \in Int /\ P + N \in Int
      OBVIOUS
    <2>3. /\ t \in Seq(Chars)
          /\ Len(t) = IF P + 1 <= P + N THEN P + N - (P + 1) + 1 ELSE 0
          /\ \A i \in 1..P + N - (P + 1) + 1 : t[i] = s[P + 1 + i - 1]
      BY ONLY <1>4, <2>1, <2>2, SubSeqProperties
    <2>4. P + N - (P + 1) + 1 = N /\ (P + 1 <= P + N <=> N # 0)
      OBVIOUS
    <2>5. \A i \in 1..N : P + 1 + i - 1 = P + i
      OBVIOUS
    <2> QED BY <2>3, <2>4, <2>5
  <1>6. \A i \in 1..N : t[i] = u[i]
    <2> SUFFICES ASSUME NEW i \in 1..N PROVE t[i] = u[i]
      OBVIOUS
    <2>1. P + i \in 1..P + N /\ ~(P + i <= P) /\ (P + i) - P = i
      OBVIOUS
    <2>2. s[P + i] = u[i]
      BY <1>3, <2>1
    <2> QED BY <1>5, <2>2
  <1>7. t = u
    BY <1>1, <1>5, <1>6, SeqEqual
  <1> QED BY <1>1, <1>2, <1>3, <1>4, <1>7

LEMMA DigitsPlain ==
    ASSUME NEW u \in Seq(Chars), NEW base \in {10, 16}, AllDigits(u, base), Len(u) > 0
    PROVE  /\ u[1] \notin Blank /\ u[1] # "-" /\ u[1] # "+"
           /\ ~HasPrefix(u, base)
  <1>1. Len(u) \in Nat
    BY LenProperties
  <1>2. IsNumeral(u[1])
    BY <1>1 DEF AllDigits, IsDigit
  <1>3. u[1] \notin Blank
    BY <1>2, NotBlank
  <1>4. u[1] # "-" /\ u[1] # "+"
    BY <1>2, NotNumerals
  <1>5. ~HasPrefix(u, base)
    <2> SUFFICES ASSUME HasPrefix(u, base) PROVE FALSE
      OBVIOUS
    <2>1. PICK p : p = <<"0", "x">>
      OBVIOUS
    <2>2. Len(p) = 2 /\ p[2] = "x" /\ p \in Seq({"0", "x"})
      BY <2>1
    <2>3. Len(p) <= Len(u) /\ SubSeq(p, 1, Len(p)) = SubSeq(u, 1, Len(p))
      BY <2>1 DEF HasPrefix, IsPrefix
    <2>4. SubSeq(p, 1, 2) = p
      BY <2>2, SubSeqFull
    <2>5. SubSeq(u, 1, 2)[2] = u[2]
      <3>1. \A i \in 1..2 : u[i] \in Chars
        <4> SUFFICES ASSUME NEW i \in 1..2 PROVE u[i] \in Chars
          OBVIOUS
        <4>1. i \in 1..Len(u)
          BY <1>1, <2>2, <2>3
        <4> QED BY <4>1, ElementOfSeq
      <3>2. \A i \in 1..2 - 1 + 1 : SubSeq(u, 1, 2)[i] = u[1 + i - 1]
        BY ONLY <3>1, SubSeqProperties
      <3> QED BY <3>2
    <2>6. u[2] = "x"
      BY <2>2, <2>3, <2>4, <2>5
    <2>7. 2 \in 1..Len(u)
      BY <1>1, <2>2, <2>3
    <2>8. IsNumeral("x")
      BY <2>6, <2>7 DEF AllDigits, IsDigit
    <2> QED BY <2>8, NotNumerals
  <1> QED BY <1>3, <1>4, <1>5

LEMMA RepeatSeq ==
    ASSUME NEW c \in Chars, NEW n \in Int
    PROVE  /\ Repeat(c, n) \in Seq(Chars)
           /\ Len(Repeat(c, n)) = IF n > 0 THEN n ELSE 0
           /\ \A i \in 1..Len(Repeat(c, n)) : Repeat(c, n)[i] = c
  <1>1. PICK k \in Nat : k = IF n > 0 THEN n ELSE 0
    OBVIOUS
  <1>2. Repeat(c, n) = [i \in 1..k |-> c]
    BY <1>1 DEF Repeat
  <1>3. PICK r : r = [i \in 1..k |-> c]
    OBVIOUS
  <1>4. r \in Seq(Chars) /\ Len(r) = k /\ \A i \in 1..k : r[i] = c
    BY <1>3
  <1> QED BY <1>1, <1>2, <1>3, <1>4

LEMMA StrtolBlanks ==
    ASSUME NEW n \in Int, NEW u \in Seq(Chars), NEW base \in {10, 16}, AllDigits(u, base), Len(u) > 0
    PROVE  strtol(Repeat(" ", n) \o u, base) = Signed(Value(u, base), INTBITS)
  <1>1. " " \in Chars
    BY DEF Chars, Symbols
  <1>2. PICK pre \in Seq(Chars) : pre = Repeat(" ", n) /\ \A i \in 1..Len(pre) : pre[i] = " "
    BY <1>1, RepeatSeq, ZenonT(60)
  <1>3. PICK P \in Nat, N \in Nat : P = Len(pre) /\ N = Len(u) /\ N > 0
    BY LenProperties
  <1>4. PICK s : s = pre \o u
    OBVIOUS
  <1>5. /\ s \in Seq(Chars) /\ Len(s) = P + N
        /\ \A i \in 1..P + N : s[i] = IF i <= P THEN pre[i] ELSE u[i - P]
    BY <1>3, <1>4, ConcatProperties
  <1>6. /\ u[1] \notin Blank /\ u[1] # "-" /\ u[1] # "+" /\ ~HasPrefix(u, base)
    BY DigitsPlain
  <1>7. AfterBlanks(s) = u
    <2>1. P < Len(s) /\ P + 1 \in 1..P + N /\ ~(P + 1 <= P) /\ (P + 1) - P = 1
      BY <1>3, <1>5
    <2>2. s[P + 1] \notin Blank
      BY <1>5, <1>6, <2>1
    <2>3. \A i \in 1..P : s[i] \in Blank
      <3>1. " " \in Blank
        BY Zenon DEF Blank
      <3>2. ASSUME NEW i \in 1..P PROVE s[i] = " "
        <4>1. i \in 1..P + N /\ i <= P /\ i \in 1..Len(pre)
          BY <1>3
        <4>2. pre[i] = " "
          BY <1>2, <4>1
        <4> QED BY <1>5, <4>1, <4>2
      <3> QED BY <3>1, <3>2
    <2>4. AfterBlanks(s) = SubSeq(s, P + 1, Len(s))
      BY <1>5, <2>1, <2>2, <2>3, Blanks
    <2> QED BY <1>3, <1>4, <2>4, Dropped
  <1>8. AfterSign(u) = u /\ AfterPrefix(u, base) = u
    BY <1>6 DEF AfterSign, AfterPrefix
  <1>9. strtol(s, base) = Signed(Value(u, base), INTBITS)
    BY ONLY u \in Seq(Chars), base \in {10, 16}, AllDigits(u, base), <1>7, <1>8, StrtolReads
  <1> QED BY <1>2, <1>4, <1>9

LEMMA StrtolMinus ==
    ASSUME NEW u \in Seq(Chars), NEW base \in {10, 16}, AllDigits(u, base), Len(u) > 0
    PROVE  strtol(<<"-">> \o u, base) = Signed(-Value(u, base), INTBITS)
  <1>1. "-" \in Chars
    BY DEF Chars, Symbols
  <1>2. PICK pre \in Seq(Chars) : pre = <<"-">> /\ Len(pre) = 1 /\ pre[1] = "-"
    <2>1. PICK pre : pre = <<"-">>
      OBVIOUS
    <2>2. pre \in Seq(Chars)
      BY ONLY <1>1, <2>1
    <2>3. Len(pre) = 1 /\ pre[1] = "-"
      BY ONLY <2>1
    <2> QED BY <2>1, <2>2, <2>3
  <1>3. PICK N \in Nat : N = Len(u) /\ N > 0
    BY LenProperties
  <1>4. PICK s : s = pre \o u
    OBVIOUS
  <1>5. s \in Seq(Chars) /\ Len(s) = 1 + N /\ s[1] = "-" /\ s # <<>>
    <2>1. /\ s \in Seq(Chars) /\ Len(s) = 1 + N
          /\ \A i \in 1..1 + N : s[i] = IF i <= 1 THEN pre[i] ELSE u[i - 1]
      BY <1>2, <1>3, <1>4, ConcatProperties
    <2>2. s[1] = pre[1]
      BY <2>1
    <2> QED BY <1>2, <2>1, <2>2, EmptySeq
  <1>6. SubSeq(s, 2, Len(s)) = u
    BY <1>2, <1>4, Dropped
  <1>7. AfterBlanks(s) = s
    <2>1. s[0 + 1] \notin Blank
      BY <1>5, NotBlank
    <2>2. \A i \in 1..0 : s[i] \in Blank
      OBVIOUS
    <2>3. AfterBlanks(s) = SubSeq(s, 0 + 1, Len(s))
      <3>1. 0 \in Nat /\ 0 < Len(s)
        BY <1>5
      <3> QED BY ONLY <1>5, <2>1, <2>2, <3>1, Blanks
    <2> QED BY <1>5, <2>3, SubSeqFull
  <1>8. AfterSign(s) = u
    <2>1. Tail(s) = SubSeq(s, 2, Len(s))
      BY <1>5
    <2> QED BY <1>5, <1>6, <2>1 DEF AfterSign
  <1>9. AfterPrefix(u, base) = u
    BY DigitsPlain DEF AfterPrefix
  <1>10. s # u
    BY <1>3, <1>5
  <1>11. strtol(s, base) = IF s # u /\ s[1] = "-" THEN Signed(-Value(u, base), INTBITS)
                           ELSE Signed(Value(u, base), INTBITS)
    BY ONLY u \in Seq(Chars), base \in {10, 16}, AllDigits(u, base), <1>7, <1>8, <1>9,
            StrtolReads
  <1> QED BY <1>2, <1>4, <1>5, <1>10, <1>11

LEMMA StrtolHex ==
    ASSUME NEW u \in Seq(Chars), AllDigits(u, 16), Len(u) > 0
    PROVE  strtol(<<"0", "x">> \o u, 16) = Signed(Value(u, 16), INTBITS)
  <1>1. "0" \in Chars /\ "x" \in Chars
    BY DEF Chars, Symbols
  <1>2. PICK pre \in Seq(Chars) : pre = <<"0", "x">> /\ Len(pre) = 2 /\ pre[1] = "0" /\ pre[2] = "x"
    <2>1. PICK pre : pre = <<"0", "x">>
      OBVIOUS
    <2>2. pre \in Seq(Chars)
      BY ONLY <1>1, <2>1
    <2>3. Len(pre) = 2 /\ pre[1] = "0" /\ pre[2] = "x"
      BY ONLY <2>1
    <2> QED BY <2>1, <2>2, <2>3
  <1>3. PICK N \in Nat : N = Len(u) /\ N > 0
    BY LenProperties
  <1>4. PICK s : s = pre \o u
    OBVIOUS
  <1>5. /\ s \in Seq(Chars) /\ Len(s) = 2 + N
        /\ \A i \in 1..2 + N : s[i] = IF i <= 2 THEN pre[i] ELSE u[i - 2]
    BY <1>2, <1>3, <1>4, ConcatProperties
  <1>6. s[1] = "0" /\ s[2] = "x"
    BY <1>2, <1>5
  <1>7. SubSeq(s, 3, Len(s)) = u
    BY <1>2, <1>4, Dropped
  <1>8. AfterBlanks(s) = s
    <2>1. IsNumeral("0")
      BY NumeralsAre DEF IsNumeral, Numerals
    <2>2. s[0 + 1] \notin Blank
      BY <1>6, <2>1, NotBlank
    <2>3. \A i \in 1..0 : s[i] \in Blank
      OBVIOUS
    <2>4. AfterBlanks(s) = SubSeq(s, 0 + 1, Len(s))
      <3>1. 0 \in Nat /\ 0 < Len(s)
        BY <1>5
      <3> QED BY ONLY <1>5, <2>2, <2>3, <3>1, Blanks
    <2> QED BY <1>5, <2>4, SubSeqFull
  <1>9. AfterSign(s) = s
    BY <1>6 DEF AfterSign
  <1>10. HasPrefix(s, 16)
    <2>1. SubSeq(s, 1, 2) = pre
      <3>1. PICK t : t = SubSeq(s, 1, 2)
        OBVIOUS
      <3>2. \A i \in 1..2 : s[i] \in Chars
        BY <1>1, <1>6
      <3>3. t \in Seq(Chars) /\ Len(t) = 2 /\ \A i \in 1..2 : t[i] = s[i]
        BY <3>1, <3>2, SubSeqProperties
      <3>4. \A i \in 1..2 : t[i] = pre[i]
        BY <1>2, <1>6, <3>3
      <3> QED BY <1>2, <3>1, <3>3, <3>4, SeqEqual
    <2>2. SubSeq(pre, 1, 2) = pre
      BY <1>2, SubSeqFull
    <2>3. Len(pre) <= Len(s) /\ SubSeq(pre, 1, Len(pre)) = SubSeq(s, 1, Len(pre))
      BY <1>2, <1>5, <2>1, <2>2
    <2> QED BY <1>2, <2>3 DEF HasPrefix, IsPrefix
  <1>11. AfterPrefix(s, 16) = u
    BY <1>7, <1>10 DEF AfterPrefix
  <1>12. strtol(s, 16) = IF s # s /\ s[1] = "-" THEN Signed(-Value(u, 16), INTBITS)
                         ELSE Signed(Value(u, 16), INTBITS)
    <2>1. 16 \in {10, 16}
      OBVIOUS
    <2> QED BY ONLY u \in Seq(Chars), AllDigits(u, 16), <1>8, <1>9, <1>11, <2>1, StrtolReads
  <1> QED BY <1>2, <1>4, <1>12

-----------------------------------------------------------------------------
(* The format of a number *)

NumState(args, l) ==
    {x \in FmtState({args}) : /\ x.mode \in {"flags", "width"} /\ x.out = <<>>
                              /\ x.padc \in {" ", "0"} /\ x.lflag = l}

LEMMA ProcessWidth ==
    ASSUME NEW args, NEW l \in Nat, NEW x \in NumState(args, l)
    PROVE  process_precision(x) \in NumState(args, l) /\ process_precision(x).mode = "flags"
  <1>0. x \in FmtState({args})
    BY DEF NumState
  <1>1. /\ x \in FmtState({args}) /\ x.mode \in {"flags", "width"} /\ x.out = <<>>
        /\ x.padc \in {" ", "0"} /\ x.lflag = l
    BY DEF NumState
  <1>2. CASE x.width < 0
    <2>0. x.precision \in Int
      BY ONLY <1>0 DEF FmtState
    <2>a. PICK w \in Int : w = x.precision
      BY <2>0
    <2>b. PICK m \in Int : m = -1
      OBVIOUS
    <2>1. w = x.precision /\ m = -1
      BY <2>a, <2>b
    <2>2. PICK y : y = [x EXCEPT !.mode = "flags", !.width = w, !.precision = m]
      OBVIOUS
    <2>3. process_precision(x) = y
      BY <1>2, <2>1, <2>2 DEF process_precision
    <2>4. y \in FmtState({args})
      BY ONLY <1>0, w \in Int, m \in Int, <2>2 DEF FmtState
    <2>5. y.mode = "flags" /\ y.out = x.out /\ y.padc = x.padc /\ y.lflag = x.lflag
      BY ONLY <1>1, <2>2 DEF FmtState
    <2> QED BY <1>1, <2>3, <2>4, <2>5 DEF NumState
  <1>3. CASE ~(x.width < 0)
    <2>1. PICK y : y = [x EXCEPT !.mode = "flags"]
      OBVIOUS
    <2>2. process_precision(x) = y
      BY <1>3, <2>1 DEF process_precision
    <2>3. y \in FmtState({args})
      BY ONLY <1>1, <2>1 DEF FmtState
    <2>4. y.mode = "flags" /\ y.out = x.out /\ y.padc = x.padc /\ y.lflag = x.lflag
      BY ONLY <1>1, <2>1 DEF FmtState
    <2> QED BY <1>1, <2>2, <2>3, <2>4 DEF NumState
  <1> QED BY <1>2, <1>3

(* In either mode a character that is no digit is one of the switch. *)
LEMMA ReadOther ==
    ASSUME NEW args, NEW l \in Nat, NEW x \in NumState(args, l), NEW c, ~IsDigit(c, 10)
    PROVE  \E y \in NumState(args, l) : y.mode = "flags" /\ Char(x, c) = Escape(y, c)
  <1>1. x.mode \in {"flags", "width"}
    BY DEF NumState
  <1>2. CASE x.mode = "flags"
    <2>1. Char(x, c) = Escape(x, c)
      BY <1>2 DEF Char
    <2> QED BY <1>2, <2>1
  <1>3. CASE x.mode = "width"
    <2>1. Char(x, c) = Escape(process_precision(x), c)
      BY <1>3 DEF Char
    <2> QED BY <2>1, ProcessWidth
  <1> QED BY <1>1, <1>2, <1>3

LEMMA AddEscNum ==
    ASSUME NEW args, NEW l \in Nat, NEW x \in NumState(args, l), NEW c \in Chars
    PROVE  Added(x, c) \in NumState(args, l) /\ Added(x, c).mode = x.mode
  <1>1. x \in FmtState({args})
    BY DEF NumState
  <1>2. PICK g : g = Added(x, c)
    OBVIOUS
  <1>3. /\ g \in FmtState({args}) /\ SameField(x, g) /\ g.mode = x.mode /\ g.lflag = x.lflag
    BY <1>1, <1>2, AddEsc
  <1> QED BY <1>2, <1>3 DEF NumState, SameField

LEMMA ReadLong ==
    ASSUME NEW args, NEW l \in Nat, NEW x \in NumState(args, l)
    PROVE  Char(x, "l") \in NumState(args, l + 1)
  <1>1. ~IsDigit("l", 10) /\ "l" \in Chars
    BY NoDigits DEF Chars, Symbols
  <1>2. PICK y \in NumState(args, l) : y.mode = "flags" /\ Char(x, "l") = Escape(y, "l")
    BY <1>1, ReadOther
  <1>3. PICK g : g = Added(y, "l")
    OBVIOUS
  <1>4. g \in NumState(args, l)
    BY <1>1, <1>3, AddEscNum
  <1>5. /\ g \in FmtState({args}) /\ g.mode \in {"flags", "width"} /\ g.out = <<>>
        /\ g.padc \in {" ", "0"} /\ g.lflag = l
    BY <1>4 DEF NumState
  <1>6. Escape(y, "l") = [g EXCEPT !.lflag = @ + 1]
    BY <1>3, NotNumerals DEF Escape, Added, Conversions
  <1>a. PICK k \in Nat : k = l + 1
    OBVIOUS
  <1>b. PICK h : h = [g EXCEPT !.lflag = k]
    OBVIOUS
  <1>7. k = l + 1 /\ h = [g EXCEPT !.lflag = k]
    BY <1>a, <1>b
  <1>8. h = [g EXCEPT !.lflag = @ + 1]
    BY <1>5, <1>7
  <1>9. h \in FmtState({args})
    BY ONLY <1>5, <1>7 DEF FmtState
  <1>10. h.mode = g.mode /\ h.out = g.out /\ h.padc = g.padc /\ h.lflag = k
    BY ONLY <1>5, <1>7 DEF FmtState
  <1>11. h \in NumState(args, k)
    BY ONLY <1>5, <1>9, <1>10 DEF NumState
  <1> QED BY <1>2, <1>6, <1>7, <1>8, <1>11

LEMMA ReadDigit ==
    ASSUME NEW args, NEW l \in Nat, NEW x \in NumState(args, l), NEW c \in Chars, IsDigit(c, 10)
    PROVE  Char(x, c) \in NumState(args, l)
  <1>0. x \in FmtState({args})
    BY DEF NumState
  <1>1. /\ x \in FmtState({args}) /\ x.mode \in {"flags", "width"} /\ x.out = <<>>
        /\ x.padc \in {" ", "0"} /\ x.lflag = l
    BY DEF NumState
  <1>2. IsNumeral(c) /\ ValueOf(c) \in 0..9
    BY ValueRange DEF IsDigit
  <1>3. PICK v \in Int : v = ValueOf(c)
    BY <1>2
  <1>4. PICK g : g = Added(x, c)
    OBVIOUS
  <1>5. g \in NumState(args, l) /\ g.mode = x.mode
    BY <1>4, AddEscNum
  <1>6. /\ g \in FmtState({args}) /\ g.mode \in {"flags", "width"} /\ g.out = <<>>
        /\ g.padc \in {" ", "0"} /\ g.lflag = l
    BY <1>5 DEF NumState
  <1>7. CASE x.mode = "width"
    <2>0. x.precision \in Int
      BY ONLY <1>0 DEF FmtState
    <2>1. PICK p \in Int : p = 10 * x.precision + v
      BY <2>0
    <2>2. PICK h : h = [g EXCEPT !.precision = p]
      OBVIOUS
    <2>3. Char(x, c) = [x EXCEPT !.precision = 10 * @ + ValueOf(c), !.esc = Append(@, c)]
      BY <1>7 DEF Char
    <2>4. [x EXCEPT !.precision = 10 * @ + ValueOf(c), !.esc = Append(@, c)] = h
      <3>1. PICK e : e = Append(x.esc, c)
        OBVIOUS
      <3>2. [x EXCEPT !.precision = 10 * @ + ValueOf(c), !.esc = Append(@, c)]
              = [x EXCEPT !.precision = p, !.esc = e]
        BY <1>3, <2>1, <3>1
      <3>3. h = [[x EXCEPT !.esc = e] EXCEPT !.precision = p]
        BY <1>4, <2>2, <3>1 DEF Added
      <3>4. [[x EXCEPT !.esc = e] EXCEPT !.precision = p] = [x EXCEPT !.precision = p, !.esc = e]
        BY ONLY <1>1 DEF FmtState
      <3> QED BY <3>2, <3>3, <3>4
    <2>5. h \in FmtState({args})
      BY ONLY p \in Int, <1>6, <2>2 DEF FmtState
    <2>6. h.mode = g.mode /\ h.out = g.out /\ h.padc = g.padc /\ h.lflag = g.lflag
      BY ONLY <1>6, <2>2 DEF FmtState
    <2> QED BY <1>6, <2>3, <2>4, <2>5, <2>6 DEF NumState
  <1>8. CASE x.mode = "flags" /\ c = "0"
    <2>1. Char(x, c) = Escape(x, c)
      BY <1>8 DEF Char
    <2>2. ValueOf("0") = 0
      <3>1. "0" = Numerals[0 + 1] /\ 0 \in 0..15
        BY DEF Numerals
      <3> QED BY <3>1, NumeralValue
    <2>3. Escape(x, "0") = [g EXCEPT !.padc = "0"]
      BY <1>4, <1>8, <2>2 DEF Escape, Added, Conversions
    <2>4. PICK h : h = [g EXCEPT !.padc = "0"]
      OBVIOUS
    <2>5. "0" \in Chars
      BY DEF Chars, Symbols
    <2>6. h \in FmtState({args})
      BY ONLY <1>6, <2>4, <2>5 DEF FmtState
    <2>7. h.mode = g.mode /\ h.out = g.out /\ h.padc = "0" /\ h.lflag = g.lflag
      BY ONLY <1>6, <2>4 DEF FmtState
    <2> QED BY <1>6, <1>8, <2>1, <2>3, <2>4, <2>6, <2>7 DEF NumState
  <1>9. CASE x.mode = "flags" /\ c # "0"
    <2>1. Char(x, c) = Escape(x, c)
      BY <1>9 DEF Char
    <2>2. ValueOf(c) \in 1..9
      <3>1. c = Numerals[ValueOf(c) + 1]
        BY <1>2, ValueRange
      <3>2. Numerals[0 + 1] = "0"
        BY DEF Numerals
      <3> QED BY <1>2, <1>9, <3>1, <3>2
    <2>3. c \notin {"-", "0", "*", ".", "#", "l", "c", "e", "s", "d", "u", "o", "p", "x", "%"}
      <3>1. c \in {"0", "1", "2", "3", "4", "5", "6", "7", "8", "9", "a", "b", "c", "d", "e", "f"}
        BY <1>2, NumeralSet
      <3>2. \A m \in {12, 13, 14} : c # Numerals[m + 1]
        <4>1. \A m \in {12, 13, 14} : ValueOf(Numerals[m + 1]) = m
          BY NumeralValue
        <4> QED BY <1>2, <4>1
      <3>3. c # "c" /\ c # "d" /\ c # "e"
        BY <3>2 DEF Numerals
      <3> QED BY <1>9, <3>1, <3>3
    <2>4. Escape(x, c) = [g EXCEPT !.mode = "width", !.precision = ValueOf(c)]
      BY <1>2, <1>4, <2>2, <2>3 DEF Escape, Added, Conversions
    <2>5. PICK h : h = [g EXCEPT !.mode = "width", !.precision = v]
      OBVIOUS
    <2>6. h \in FmtState({args})
      BY ONLY v \in Int, <1>6, <2>5 DEF FmtState
    <2>7. h.mode = "width" /\ h.out = g.out /\ h.padc = g.padc /\ h.lflag = g.lflag
      BY ONLY <1>6, <2>5 DEF FmtState
    <2> QED BY <1>3, <1>6, <2>1, <2>4, <2>5, <2>6, <2>7 DEF NumState
  <1> QED BY <1>1, <1>7, <1>8, <1>9

(* The conversion prints what it does with the width, padding and length    *)
(* read.                                                                    *)
LEMMA ReadConv ==
    ASSUME NEW args, NEW l \in Nat, NEW x \in NumState(args, l), NEW c \in {"d", "u", "x", "p"}
    PROVE  \E y \in NumState(args, l) :
              Char(x, c).mode = "text" /\ Char(x, c).out = <<>> \o Converted(y, c)
  <1>1. ~IsDigit(c, 10)
    BY NoDigits
  <1>2. PICK y \in NumState(args, l) : y.mode = "flags" /\ Char(x, c) = Escape(y, c)
    BY <1>1, ReadOther
  <1>3. y \in FmtState({args}) /\ y.out = <<>>
    BY DEF NumState
  <1>4. ~(IsNumeral(c) /\ ValueOf(c) \in 1..9)
    BY <1>1, ValueRange DEF IsDigit
  <1>5. Escape(y, c) = Convert(y, c)
    BY <1>4 DEF Escape, Conversions
  <1>6. PICK s : s = Converted(y, c)
    OBVIOUS
  <1>7. PICK a : a = Tail(y.args)
    OBVIOUS
  <1>8. PICK o : o = y.out \o s
    OBVIOUS
  <1>9. PICK h : h = [y EXCEPT !.mode = "text", !.out = o, !.args = a]
    OBVIOUS
  <1>10. Convert(y, c) = h
    BY <1>6, <1>7, <1>8, <1>9 DEF Convert
  <1>11. h.mode = "text" /\ h.out = o
    BY ONLY <1>3, <1>9 DEF FmtState
  <1>12. o = <<>> \o Converted(y, c)
    BY <1>3, <1>6, <1>8
  <1> QED BY <1>2, <1>5, <1>10, <1>11, <1>12

Longs(k, n) == IF n < k THEN 0 ELSE n - k + 1
LastStates(args, l, c) == {Char(x, c) : x \in NumState(args, l)}
NumLoop(args, k, L, c) ==
    [n \in 0..L |-> IF n = 0 THEN {Started(args)}
                    ELSE IF n < L THEN NumState(args, Longs(k, n))
                    ELSE LastStates(args, L - k, c)]

LEMMA NumberText ==
    ASSUME NEW fmt \in Seq(Chars), NumberPrinted(fmt), NEW args
    PROVE  \E l \in Nat : \E y \in NumState(args, l) :
              /\ vprintfmt(fmt, args) = <<>> \o Converted(y, Conversion(fmt))
              /\ Conversion(fmt) # "p" => (LongLong(fmt) <=> l >= 2)
  <1>1. PICK L \in Nat : L = Len(fmt) /\ L > 1
    BY LenProperties DEF NumberPrinted
  <1>2. PICK k \in 2..L : /\ \A i \in 2..k - 1 : IsDigit(fmt[i], 10)
                          /\ \A i \in k..L - 1 : fmt[i] = "l"
    BY <1>1 DEF NumberPrinted
  <1>3. fmt[1] = "%"
    BY DEF NumberPrinted
  <1>4. PICK c \in {"d", "u", "x", "p"} : c = Conversion(fmt) /\ c = fmt[L]
    BY <1>1 DEF NumberPrinted, Conversion
  <1>5. PICK I : I = NumLoop(args, k, L, c)
    OBVIOUS
  <1>6. /\ I[0] = {Started(args)} /\ I[L] = LastStates(args, L - k, c)
        /\ \A n \in 1..L - 1 : I[n] = NumState(args, Longs(k, n))
    BY <1>1, <1>5 DEF NumLoop
  <1>7. ASSUME NEW n \in 0..(L - 1), NEW x \in I[n]
        PROVE  Char(x, fmt[n + 1]) \in I[n + 1]
    <2>1. CASE n = 0
      <3>1. x = Started(args)
        BY <1>6, <2>1
      <3>2. PICK A : A = {args}
        OBVIOUS
      <3>3. x \in FmtState(A) /\ x.mode = "text" /\ x.out = <<>>
        <4>1. x \in FmtState(A)
          BY <3>1, <3>2, StartedState
        <4>2. x.mode = "text" /\ x.out = <<>>
          BY ONLY <3>1 DEF Started
        <4> QED BY <4>1, <4>2
      <3>4. PICK y : y = Char(x, "%")
        OBVIOUS
      <3>5. y \in FmtState(A) /\ y.mode = "flags" /\ y.padc = " " /\ y.lflag = 0 /\ y.out = <<>>
        BY <3>3, <3>4, ReadPercent
      <3>6. y \in NumState(args, 0)
        BY <3>2, <3>5 DEF NumState
      <3>7. n + 1 = 1 /\ 1 \in 1..L - 1 /\ Longs(k, 1) = 0
        BY <1>1, <1>2, <2>1 DEF Longs
      <3> QED BY <1>3, <1>6, <3>4, <3>6, <3>7
    <2>2. CASE n > 0 /\ n + 1 < k
      <3>1. n \in 1..L - 1 /\ n + 1 \in 1..L - 1 /\ n + 1 \in 2..k - 1
        BY <1>1, <1>2, <2>2
      <3>2. Longs(k, n) = 0 /\ Longs(k, n + 1) = 0
        BY <1>2, <2>2, <3>1 DEF Longs
      <3>3. x \in NumState(args, 0) /\ IsDigit(fmt[n + 1], 10) /\ fmt[n + 1] \in Chars
        BY <1>1, <1>2, <1>6, <3>1, <3>2
      <3> QED BY <1>6, <3>1, <3>2, <3>3, ReadDigit
    <2>3. CASE n > 0 /\ n + 1 >= k /\ n + 1 < L
      <3>1. n \in 1..L - 1 /\ n + 1 \in 1..L - 1 /\ n + 1 \in k..L - 1
        BY <1>1, <1>2, <2>3
      <3>2. PICK l \in Nat : l = Longs(k, n) /\ Longs(k, n + 1) = l + 1
        BY <1>2, <2>3, <3>1 DEF Longs
      <3>3. x \in NumState(args, l) /\ fmt[n + 1] = "l"
        BY <1>2, <1>6, <3>1, <3>2
      <3> QED BY <1>6, <3>1, <3>2, <3>3, ReadLong
    <2>4. CASE n > 0 /\ n + 1 = L
      <3>1. n \in 1..L - 1 /\ Longs(k, n) = L - k
        BY <1>1, <1>2, <2>4 DEF Longs
      <3>2. x \in NumState(args, L - k)
        BY <1>6, <3>1
      <3> QED BY <1>4, <1>6, <2>4, <3>2 DEF LastStates
    <2> QED BY <1>1, <1>2, <2>1, <2>2, <2>3, <2>4
  <1>8. PICK f \in I[L] : vprintfmt(fmt, args) = Printed(f)
    <2>1. Started(args) \in I[0]
      BY <1>6
    <2> QED BY ONLY fmt \in Seq(Chars), <1>1, <1>7, <2>1, FormatLoop
  <1>9. PICK l \in Nat : l = L - k
    BY <1>2
  <1>10. PICK x \in NumState(args, l) : f = Char(x, c)
    BY <1>6, <1>8, <1>9 DEF LastStates
  <1>11. PICK y \in NumState(args, l) : f.mode = "text" /\ f.out = <<>> \o Converted(y, c)
    <2>1. \E y \in NumState(args, l) :
              Char(x, c).mode = "text" /\ Char(x, c).out = <<>> \o Converted(y, c)
      BY ONLY l \in Nat, x \in NumState(args, l), c \in {"d", "u", "x", "p"}, ReadConv
    <2> QED BY ONLY <1>10, <2>1
  <1>12. vprintfmt(fmt, args) = <<>> \o Converted(y, c)
    BY <1>8, <1>11 DEF Printed
  <1>13. ASSUME c # "p" PROVE LongLong(fmt) <=> l >= 2
    <2>1. ASSUME l >= 2 PROVE LongLong(fmt)
      <3>1. L > 3 /\ L - 1 \in k..L - 1 /\ L - 2 \in k..L - 1
        BY <1>1, <1>2, <1>9, <2>1
      <3> QED BY <1>1, <1>2, <1>4, <1>13, <3>1 DEF LongLong
    <2>2. ASSUME LongLong(fmt) PROVE l >= 2
      <3>1. L > 3 /\ fmt[L - 2] = "l"
        BY <1>1, <2>2 DEF LongLong
      <3>2. ~IsDigit("l", 10)
        BY NoDigits
      <3>3. L - 2 \notin 2..k - 1
        BY <1>2, <3>1, <3>2
      <3> QED BY <1>1, <1>2, <1>9, <3>1, <3>3
    <2> QED BY <2>1, <2>2
  <1> QED BY <1>4, <1>11, <1>12, <1>13


-----------------------------------------------------------------------------
(* What printnum() leaves: digits, behind blanks if it pads with blanks *)

Space == " "
Pads == {" ", "0"}

LEMMA PadCases ==
    ASSUME NEW padc \in Pads
    PROVE  padc = Space \/ padc = "0"
  BY DEF Pads, Space

LEMMA SpaceChar == Space \in Chars /\ ~IsNumeral(Space) /\ Space # "-"
  <1>1. " " \in Chars
    BY DEF Chars, Symbols
  <1>2. ~IsNumeral(" ") /\ " " # "-"
    BY NotNumerals
  <1> QED BY <1>1, <1>2 DEF Space

LEMMA StrtolSpaces ==
    ASSUME NEW n \in Int, NEW u \in Seq(Chars), NEW base \in {10, 16}, AllDigits(u, base), Len(u) > 0
    PROVE  strtol(Repeat(Space, n) \o u, base) = Signed(Value(u, base), INTBITS)
  BY StrtolBlanks DEF Space

LEMMA NoPad ==
    ASSUME NEW u \in Seq(Chars), NEW n \in Int, n <= 0, NEW c
    PROVE  Repeat(c, n) \o u = u /\ <<>> \o u = u
  <1>1. <<>> \o u = u
    OBVIOUS
  <1>2. Repeat(c, n) = <<>>
    BY EmptyRepeat
  <1> QED BY <1>1, <1>2

LEMMA ZeroPad ==
    ASSUME NEW base \in {10, 16}
    PROVE  /\ ValueStep(0, "0", base) = 0 /\ IsDigit("0", base)
           /\ ValueStep(0, Space, base) = 0 /\ ValueStep(0, "-", base) = 0 /\ ValueStep(0, "x", base) = 0
  <1>1. Numerals[0 + 1] = "0" /\ 0 \in 0..15
    BY DEF Numerals
  <1>2. IsNumeral("0") /\ ValueOf("0") = 0
    BY <1>1, NumeralValue
  <1>3. ~IsNumeral(Space) /\ ~IsNumeral("-") /\ ~IsNumeral("x")
    BY NotNumerals, SpaceChar
  <1> QED BY <1>2, <1>3 DEF ValueStep, IsDigit

Padded(t, base, num) ==
    \E u : /\ IsDigits(u, base, num)
           /\ t = u \/ \E m \in Int : m > 0 /\ t = Repeat(Space, m) \o u

LEMMA PaddedDigits ==
    ASSUME NEW num \in Nat, NEW base \in {10, 16}, NEW width \in Int, NEW padc \in Pads,
           NEW t, t = printnum(num, base, width, padc)
    PROVE  Padded(t, base, num)
  <1>1. PICK d : IsDigits(d, base, num) /\ t = Repeat(padc, width - Len(d)) \o d
    <2>1. base \in 2..16
      OBVIOUS
    <2>2. PICK p : p = padc
      OBVIOUS
    <2>3. \E d : /\ IsDigits(d, base, num)
                /\ printnum(num, base, width, p) = Repeat(p, width - Len(d)) \o d
      BY ONLY num \in Nat, width \in Int, <2>1, PrintnumDigits, ZenonT(60)
    <2>4. t = printnum(num, base, width, p)
      BY <2>2
    <2> QED BY ONLY <2>2, <2>3, <2>4
  <1>2. d \in Seq(Chars) /\ AllDigits(d, base) /\ Value(d, base) = num /\ Len(d) > 0
    BY <1>1 DEF IsDigits, AllDigits
  <1>3. PICK m \in Int : m = width - Len(d)
    BY <1>2, LenProperties
  <1>4. t = Repeat(padc, m) \o d
    BY <1>1, <1>3
  <1>5. CASE m <= 0
    <2>1. t = d
      BY <1>2, <1>4, <1>5, NoPad
    <2> QED BY <1>1, <2>1 DEF Padded
  <1>6. CASE m > 0 /\ padc = Space
    BY <1>1, <1>4, <1>6 DEF Padded
  <1>7. CASE m > 0 /\ padc = "0"
    <2>1. "0" \in Chars
      BY DEF Chars, Symbols
    <2>2. PICK pre : pre = Repeat("0", m)
      OBVIOUS
    <2>3. PICK P \in Nat : P = Len(pre)
      BY <2>1, <2>2, RepeatSeq, LenProperties
    <2>4. pre \in Seq(Chars) /\ \A i \in 1..Len(pre) : pre[i] = "0"
      BY <2>1, <2>2, RepeatSeq
    <2>5. PICK N \in Nat : N = Len(d)
      BY <1>2, LenProperties
    <2>6. t = pre \o d
      BY <1>4, <1>7, <2>2
    <2>7. /\ t \in Seq(Chars) /\ Len(t) = P + N
          /\ \A i \in 1..P + N : t[i] = IF i <= P THEN pre[i] ELSE d[i - P]
      BY <1>2, <2>3, <2>4, <2>5, <2>6, ConcatProperties
    <2>8. Value(t, base) = num
      <3>1. \A i \in 1..Len(pre) : ValueStep(0, pre[i], base) = 0
        BY <2>4, ZeroPad
      <3>2. base \in Nat
        OBVIOUS
      <3> QED BY ONLY <1>2, <2>4, <2>6, <3>1, <3>2, ValuePad
    <2>9. AllDigits(t, base)
      <3>1. ASSUME NEW i \in 1..P + N PROVE IsDigit(t[i], base)
        <4>1. CASE i <= P
          BY <2>3, <2>4, <2>7, <4>1, ZeroPad
        <4>2. CASE i > P
          <5>1. i - P \in 1..N
            BY <4>2
          <5>2. IsDigit(d[i - P], base)
            BY <1>2, <2>5, <5>1 DEF AllDigits
          <5>3. t[i] = d[i - P]
            BY <2>7, <4>2
          <5> QED BY <5>2, <5>3
        <4> QED BY <4>1, <4>2
      <3> QED BY <2>7, <3>1 DEF AllDigits
    <2>10. IsDigits(t, base, num)
      BY <1>2, <2>5, <2>7, <2>8, <2>9 DEF IsDigits, AllDigits
    <2> QED BY <2>10 DEF Padded
  <1>8. padc = Space \/ padc = "0"
    BY PadCases
  <1>9. m <= 0 \/ m > 0
    OBVIOUS
  <1> QED BY <1>5, <1>6, <1>7, <1>8, <1>9


LEMMA DigitsRead ==
    ASSUME NEW u, NEW num \in Nat, NEW base \in {10, 16}, IsDigits(u, base, num)
    PROVE  /\ u \in Seq(Chars) /\ AllDigits(u, base) /\ Len(u) > 0 /\ Value(u, base) = num
           /\ strtol(u, base) = Signed(num, INTBITS) /\ u[1] # "-"
  <1>1. u \in Seq(Chars) /\ AllDigits(u, base) /\ Len(u) > 0 /\ Value(u, base) = num
    BY DEF IsDigits, AllDigits
  <1>2. PICK n \in Int : n = 0
    OBVIOUS
  <1>3. strtol(Repeat(Space, n) \o u, base) = Signed(Value(u, base), INTBITS)
    BY ONLY base \in {10, 16}, n \in Int, <1>1, StrtolSpaces
  <1>4. Repeat(Space, n) \o u = u
    BY <1>1, <1>2, NoPad
  <1>5. u[1] # "-"
    BY <1>1, DigitsPlain
  <1> QED BY <1>1, <1>3, <1>4, <1>5

(* What Number() prints for num. *)
LEMMA UnsignedText ==
    ASSUME NEW num \in Nat, NEW base \in {10, 16}, NEW width \in Int, NEW padc \in Pads,
           NEW t, t = printnum(num, base, width, padc)
    PROVE  /\ t \in Seq(Chars) /\ Len(t) > 0 /\ t[1] # "-"
           /\ Value(t, base) = num /\ strtol(t, base) = Signed(num, INTBITS)
           /\ IsDigits(t, base, num) \/ \E i \in 1..Len(t) : t[i] = Space
  <1>1. PICK u : /\ IsDigits(u, base, num)
                 /\ t = u \/ \E m \in Int : m > 0 /\ t = Repeat(Space, m) \o u
    <2>1. Padded(t, base, num)
      BY PaddedDigits
    <2> QED BY ONLY <2>1 DEF Padded
  <1>2. /\ u \in Seq(Chars) /\ AllDigits(u, base) /\ Len(u) > 0 /\ Value(u, base) = num
        /\ strtol(u, base) = Signed(num, INTBITS) /\ u[1] # "-"
    BY <1>1, DigitsRead
  <1>3. CASE t = u
    BY <1>1, <1>2, <1>3
  <1>4. CASE \E m \in Int : m > 0 /\ t = Repeat(Space, m) \o u
    <2>1. PICK m \in Int : m > 0 /\ t = Repeat(Space, m) \o u
      BY <1>4
    <2>2. PICK pre : pre = Repeat(Space, m)
      OBVIOUS
    <2>3. pre \in Seq(Chars) /\ Len(pre) = m /\ \A i \in 1..Len(pre) : pre[i] = Space
      BY <2>1, <2>2, SpaceChar, RepeatSeq
    <2>4. PICK N \in Nat : N = Len(u)
      BY <1>2, LenProperties
    <2>5. /\ t \in Seq(Chars) /\ Len(t) = m + N
          /\ \A i \in 1..m + N : t[i] = IF i <= m THEN pre[i] ELSE u[i - m]
      <3>1. pre \in Seq(Chars) /\ u \in Seq(Chars) /\ t = pre \o u /\ Len(pre) = m /\ Len(u) = N
        BY <1>2, <2>1, <2>2, <2>3, <2>4
      <3> QED BY ONLY <3>1, ConcatProperties
    <2>6. t[1] = Space /\ 1 \in 1..Len(t)
      BY <2>1, <2>3, <2>5
    <2>7. Value(t, base) = num
      <3>1. \A i \in 1..Len(pre) : ValueStep(0, pre[i], base) = 0
        BY <2>3, ZeroPad
      <3>2. base \in Nat
        OBVIOUS
      <3>3. t = pre \o u
        BY <2>1, <2>2
      <3> QED BY ONLY <1>2, <2>3, <3>1, <3>2, <3>3, ValuePad
    <2>8. strtol(t, base) = Signed(num, INTBITS)
      BY <1>2, <2>1, StrtolSpaces
    <2> QED BY <2>5, <2>6, <2>7, <2>8, SpaceChar
  <1> QED BY <1>1, <1>3, <1>4

(* A blank of the number is a blank of the text. *)
HasSpace(s) == \E i \in 1..Len(s) : s[i] = Space

Prefixed(s, pre, t, base) ==
    /\ s \in Seq(Chars) /\ s[1] = pre[1] /\ Value(s, base) = Value(t, base)
    /\ HasSpace(t) => HasSpace(s)

LEMMA PrefixedText ==
    ASSUME NEW pre \in Seq(Chars), NEW t \in Seq(Chars), NEW base \in {10, 16}, Len(t) > 0,
           Len(pre) > 0, \A i \in 1..Len(pre) : ValueStep(0, pre[i], base) = 0,
           NEW s, s = pre \o t
    PROVE  Prefixed(s, pre, t, base)
  <1>1. PICK P \in Nat : P = Len(pre)
    BY LenProperties
  <1>2. PICK N \in Nat : N = Len(t)
    BY LenProperties
  <1>3. /\ s \in Seq(Chars) /\ Len(s) = P + N
        /\ \A i \in 1..P + N : s[i] = IF i <= P THEN pre[i] ELSE t[i - P]
    BY <1>1, <1>2, ConcatProperties
  <1>4. s[1] = pre[1]
    BY <1>1, <1>2, <1>3
  <1>5. Value(s, base) = Value(t, base)
    BY ValuePad
  <1>6. ASSUME HasSpace(t) PROVE HasSpace(s)
    <2>1. PICK i \in 1..N : t[i] = Space
      BY <1>2, <1>6 DEF HasSpace
    <2>2. PICK j \in 1..P + N : j = P + i
      <3>1. P + i \in 1..P + N
        OBVIOUS
      <3> QED BY ONLY <3>1
    <2>3. s[j] = t[i]
      <3>1. ~(j <= P) /\ j - P = i
        BY <2>2
      <3> QED BY <1>3, <3>1
    <2> QED BY <1>3, <2>1, <2>3 DEF HasSpace
  <1> QED BY <1>3, <1>4, <1>5, <1>6 DEF Prefixed

MinusRead(s, num) ==
    /\ s \in Seq(Chars) /\ s[1] = "-" /\ Value(s, 10) = num
    /\ strtol(s, 10) = Signed(-num, INTBITS) \/ HasSpace(s)

HexRead(s, num) ==
    /\ s \in Seq(Chars) /\ Value(s, 16) = num
    /\ strtol(s, 16) = Signed(num, INTBITS) \/ HasSpace(s)

LEMMA MinusText ==
    ASSUME NEW num \in Nat, NEW width \in Int, NEW padc \in Pads, NEW s,
           s = <<"-">> \o printnum(num, 10, width, padc)
    PROVE  MinusRead(s, num)
  <1>1. PICK t : t = printnum(num, 10, width, padc)
    OBVIOUS
  <1>2. PICK base \in {10, 16} : base = 10
    OBVIOUS
  <1>3. /\ t \in Seq(Chars) /\ Len(t) > 0 /\ Value(t, base) = num
        /\ IsDigits(t, base, num) \/ HasSpace(t)
    BY <1>1, <1>2, UnsignedText DEF HasSpace
  <1>4. PICK pre : pre = <<"-">>
    OBVIOUS
  <1>5. pre \in Seq(Chars) /\ Len(pre) = 1 /\ pre[1] = "-"
    <2>1. "-" \in Chars
      BY DEF Chars, Symbols
    <2> QED BY ONLY <1>4, <2>1
  <1>6. \A i \in 1..Len(pre) : ValueStep(0, pre[i], base) = 0
    BY <1>5, ZeroPad
  <1>7. s = pre \o t
    BY <1>1, <1>4
  <1>8. Prefixed(s, pre, t, base)
    <2>1. Len(pre) > 0
      BY <1>5
    <2> QED BY ONLY base \in {10, 16}, <1>3, <1>5, <1>6, <1>7, <2>1, PrefixedText
  <1>9. ASSUME IsDigits(t, base, num) PROVE strtol(s, base) = Signed(-num, INTBITS)
    <2>1. AllDigits(t, base)
      BY <1>9 DEF IsDigits, AllDigits
    <2>2. strtol(<<"-">> \o t, base) = Signed(-Value(t, base), INTBITS)
      BY <1>3, <2>1, StrtolMinus
    <2> QED BY <1>3, <1>4, <1>7, <2>2
  <1> QED BY <1>2, <1>3, <1>5, <1>8, <1>9 DEF Prefixed, MinusRead

LEMMA HexText ==
    ASSUME NEW num \in Nat, NEW width \in Int, NEW padc \in Pads, NEW s,
           s = <<"0", "x">> \o printnum(num, 16, width, padc)
    PROVE  HexRead(s, num)
  <1>1. PICK t : t = printnum(num, 16, width, padc)
    OBVIOUS
  <1>2. PICK base \in {10, 16} : base = 16
    OBVIOUS
  <1>3. /\ t \in Seq(Chars) /\ Len(t) > 0 /\ Value(t, base) = num
        /\ IsDigits(t, base, num) \/ HasSpace(t)
    BY <1>1, <1>2, UnsignedText DEF HasSpace
  <1>4. PICK pre : pre = <<"0", "x">>
    OBVIOUS
  <1>5. pre \in Seq(Chars) /\ Len(pre) = 2 /\ pre[1] = "0" /\ pre[2] = "x"
    <2>1. "0" \in Chars /\ "x" \in Chars
      BY DEF Chars, Symbols
    <2>2. pre \in Seq(Chars)
      BY ONLY <1>4, <2>1
    <2>3. Len(pre) = 2 /\ pre[1] = "0" /\ pre[2] = "x"
      BY ONLY <1>4
    <2> QED BY <2>2, <2>3
  <1>6. \A i \in 1..Len(pre) : ValueStep(0, pre[i], base) = 0
    <2>1. \A i \in 1..2 : i = 1 \/ i = 2
      OBVIOUS
    <2>2. ValueStep(0, "0", base) = 0 /\ ValueStep(0, "x", base) = 0
      BY ZeroPad
    <2>3. \A i \in 1..2 : pre[i] = "0" \/ pre[i] = "x"
      BY <1>5, <2>1
    <2>4. \A i \in 1..2 : ValueStep(0, pre[i], base) = 0
      BY ONLY <2>2, <2>3
    <2> QED BY <1>5, <2>4
  <1>7. s = pre \o t
    BY <1>1, <1>4
  <1>8. Prefixed(s, pre, t, base)
    <2>1. pre \in Seq(Chars) /\ Len(pre) > 0
      BY <1>5
    <2>2. t \in Seq(Chars) /\ Len(t) > 0
      BY <1>3
    <2> QED BY ONLY base \in {10, 16}, <1>6, <1>7, <2>1, <2>2, PrefixedText
  <1>9. ASSUME IsDigits(t, base, num) PROVE strtol(s, base) = Signed(num, INTBITS)
    <2>1. AllDigits(t, 16)
      BY <1>2, <1>9 DEF IsDigits, AllDigits
    <2>2. strtol(<<"0", "x">> \o t, 16) = Signed(Value(t, 16), INTBITS)
      BY <1>3, <2>1, StrtolHex
    <2> QED BY <1>2, <1>3, <1>4, <1>7, <2>2
  <1> QED BY <1>2, <1>3, <1>8, <1>9 DEF Prefixed, HexRead


-----------------------------------------------------------------------------
(* The value of the argument and of what is printed for it *)

Bits(l) == IF l >= 2 THEN LLBITS ELSE INTBITS

LEMMA BitsFit ==
    ASSUME NEW l \in Nat
    PROVE  /\ Bits(l) \in Positive /\ Pow2(Bits(l)) \in Positive /\ Pow2(Bits(l)) <= Pow2(LLBITS)
           /\ Pow2(LLBITS) \in Positive /\ Pow2(LLBITS) > 1
           /\ Pow2(Bits(l) - 1) \in Positive /\ Pow2(Bits(l) - 1) < Pow2(Bits(l))
           /\ \E q \in Positive : Pow2(Bits(l)) = q * Pow2(INTBITS)
           /\ Pow2(INTBITS) \in Positive
  <1>1. PICK b : b = Bits(l)
    OBVIOUS
  <1>2. b \in Positive /\ LLBITS \in Positive /\ INTBITS \in Positive
    BY <1>1, LibraryAssumption DEF Bits, Positive
  <1>3. b <= LLBITS /\ INTBITS <= b
    BY <1>1, LibraryAssumption DEF Bits
  <1>4. b \in Nat /\ LLBITS \in Nat /\ INTBITS \in Nat
    BY <1>2 DEF Positive
  <1>5. Pow2(b) \in Positive /\ Pow2(LLBITS) \in Positive /\ Pow2(INTBITS) \in Positive
    BY <1>4, Pow2Positive
  <1>6. Pow2(b) <= Pow2(LLBITS)
    <2>1. PICK q \in Positive : Pow2(LLBITS) = q * Pow2(b)
      BY <1>3, <1>4, Pow2Divides
    <2>2. PICK p \in Nat : p = Pow2(b)
      BY <1>5 DEF Positive
    <2>3. p <= q * p
      <3>1. PICK r \in Nat : q = r + 1
        BY DEF Positive
      <3>2. q * p = r * p + p /\ r * p \in Nat
        BY <3>1
      <3> QED BY <3>2
    <2> QED BY <2>1, <2>2, <2>3
  <1>7. Pow2(LLBITS) > 1
    <2>1. Pow2(LLBITS) = 2 * Pow2(LLBITS - 1) /\ Pow2(LLBITS - 1) \in Positive
      BY <1>2, Pow2Half
    <2> QED BY <2>1 DEF Positive
  <1>8. Pow2(b - 1) \in Positive /\ Pow2(b - 1) < Pow2(b)
    <2>1. Pow2(b) = 2 * Pow2(b - 1) /\ Pow2(b - 1) \in Positive
      BY <1>2, Pow2Half
    <2> QED BY <2>1 DEF Positive
  <1>9. \E q \in Positive : Pow2(b) = q * Pow2(INTBITS)
    BY <1>3, <1>4, Pow2Divides
  <1> QED BY <1>1, <1>2, <1>5, <1>6, <1>7, <1>8, <1>9

LEMMA SignedAsInt ==
    ASSUME NEW a \in Int, NEW v \in Int, NEW l \in Nat, Cong(a, v, Pow2(Bits(l)))
    PROVE  Signed(a, INTBITS) = Signed(v, INTBITS)
  <1>1. PICK q \in Positive : Pow2(Bits(l)) = q * Pow2(INTBITS)
    BY BitsFit
  <1>2. PICK M \in Positive : M = Pow2(INTBITS)
    BY BitsFit
  <1>3. Cong(a, v, q * M)
    BY <1>1, <1>2
  <1>4. Cong(a, v, Pow2(INTBITS))
    BY <1>2, <1>3, CongDown
  <1>5. INTBITS \in Nat
    BY LibraryAssumption
  <1> QED BY <1>4, <1>5, SignedSame

(* Number() prints every value it is given in full. *)
LEMMA NumberFits ==
    ASSUME NEW f, NEW w \in Nat, NEW l \in Nat, w < Pow2(Bits(l)), NEW base
    PROVE  Number(f, w, base) = printnum(w, base, f.width, f.padc)
  <1>1. PICK M \in Nat : M = Pow2(LLBITS) /\ M > 1
    BY BitsFit DEF Positive
  <1>2. PICK p \in Nat : p = Pow2(Bits(l)) /\ p <= M
    BY <1>1, BitsFit DEF Positive
  <1>3. w < M
    BY <1>1, <1>2
  <1>4. w % M = w
    BY <1>1, <1>3, Quotient
  <1> QED BY <1>1, <1>4 DEF Number

LEMMA Unsigned ==
    ASSUME NEW v \in Int, NEW l \in Nat, NEW w, w = getuint(v, l)
    PROVE  /\ w \in Nat /\ w < Pow2(Bits(l)) /\ w = v % Pow2(Bits(l))
           /\ Signed(w, INTBITS) = Signed(v, INTBITS)
  <1>1. PICK M \in Positive : M = Pow2(Bits(l))
    BY BitsFit
  <1>2. w = v % M
    BY <1>1 DEF getuint, Bits
  <1>3. v % M \in 0..(M - 1) /\ Cong(v % M, v, M)
    BY <1>1, ModCong
  <1>4. w \in Nat /\ w < M /\ Cong(w, v, M)
    BY <1>2, <1>3 DEF Positive
  <1>5. Signed(w, INTBITS) = Signed(v, INTBITS)
    <2>1. w \in Int /\ Cong(w, v, Pow2(Bits(l)))
      BY <1>1, <1>4
    <2> QED BY <2>1, SignedAsInt
  <1> QED BY <1>1, <1>2, <1>4, <1>5


LEMMA NumFields ==
    ASSUME NEW args \in Seq(Int), args # <<>>, NEW l \in Nat, NEW y \in NumState(args, l)
    PROVE  /\ y.width \in Int /\ y.padc \in Pads /\ y.lflag = l
           /\ Head(y.args) = args[1] /\ args[1] \in Int
  <1>1. y \in FmtState({args}) /\ y.padc \in Pads /\ y.lflag = l
    BY DEF NumState, Pads
  <1>2. y \in FmtState({args})
    BY <1>1
  <1>3. y.width \in Int /\ y.args = args
    BY ONLY <1>2 DEF FmtState
  <1>4. Head(args) = args[1] /\ args[1] \in Int
    OBVIOUS
  <1> QED BY <1>1, <1>3, <1>4

LEMMA UnsignedConv ==
    ASSUME NEW args \in Seq(Int), args # <<>>, NEW l \in Nat, NEW y \in NumState(args, l),
           NEW c \in {"u", "x"}, NEW base \in {10, 16}, base = IF c = "x" THEN 16 ELSE 10,
           NEW s, s = <<>> \o Converted(y, c)
    PROVE  /\ s \in Seq(Chars) /\ Value(s, base) = args[1] % Pow2(Bits(l))
           /\ strtol(s, base) = Signed(args[1], INTBITS)
  <1>1. PICK v \in Int : v = args[1] /\ v = Head(y.args)
    BY NumFields
  <1>2. PICK width \in Int : width = y.width
    BY NumFields
  <1>3. PICK padc \in Pads : padc = y.padc
    BY NumFields
  <1>4. PICK w : w = getuint(v, l)
    OBVIOUS
  <1>5. /\ w \in Nat /\ w < Pow2(Bits(l)) /\ w = v % Pow2(Bits(l))
        /\ Signed(w, INTBITS) = Signed(v, INTBITS)
    BY <1>4, Unsigned
  <1>6. Converted(y, c) = Number(y, w, base)
    <2>1. y.lflag = l
      BY NumFields
    <2>2. CASE c = "u"
      <3>1. Converted(y, "u") = Number(y, getuint(Head(y.args), y.lflag), 10)
        BY DEF Converted
      <3> QED BY <1>1, <1>4, <2>1, <2>2, <3>1
    <2>3. CASE c = "x"
      <3>1. Converted(y, "x") = Number(y, getuint(Head(y.args), y.lflag), 16)
        BY DEF Converted
      <3> QED BY <1>1, <1>4, <2>1, <2>3, <3>1
    <2> QED BY <2>2, <2>3
  <1>7. PICK t : t = printnum(w, base, width, padc)
    OBVIOUS
  <1>8. Number(y, w, base) = t
    BY <1>2, <1>3, <1>5, <1>7, NumberFits
  <1>9. /\ t \in Seq(Chars) /\ Len(t) > 0 /\ t[1] # "-"
        /\ Value(t, base) = w /\ strtol(t, base) = Signed(w, INTBITS)
        /\ IsDigits(t, base, w) \/ \E i \in 1..Len(t) : t[i] = Space
    BY ONLY base \in {10, 16}, width \in Int, padc \in Pads, <1>5, <1>7, UnsignedText
  <1>10. s = t
    <2>1. s = <<>> \o t
      BY <1>6, <1>8
    <2>2. <<>> \o t = t
      BY ONLY <1>9
    <2> QED BY <2>1, <2>2
  <1> QED BY <1>1, <1>5, <1>9, <1>10

LEMMA PointerConv ==
    ASSUME NEW args \in Seq(Int), args # <<>>, NEW l \in Nat, NEW y \in NumState(args, l),
           NEW s, s = <<>> \o Converted(y, "p")
    PROVE  /\ s \in Seq(Chars) /\ Value(s, 16) = args[1] % Pow2(INTBITS)
           /\ strtol(s, 16) = Signed(args[1], INTBITS) \/ HasSpace(s)
  <1>1. PICK v \in Int : v = args[1] /\ v = Head(y.args)
    BY NumFields
  <1>2. PICK width \in Int : width = y.width
    BY NumFields
  <1>3. PICK padc \in Pads : padc = y.padc
    BY NumFields
  <1>4. PICK w : w = getuint(v, 0)
    OBVIOUS
  <1>a. PICK z \in Nat : z = 0
    OBVIOUS
  <1>5. /\ w \in Nat /\ w < Pow2(Bits(z)) /\ w = v % Pow2(Bits(z))
        /\ Signed(w, INTBITS) = Signed(v, INTBITS)
    BY <1>4, <1>a, Unsigned
  <1>b. Bits(z) = INTBITS
    BY <1>a DEF Bits
  <1>6. Converted(y, "p") = <<"0", "x">> \o Number(y, w, 16)
    <2>1. Converted(y, "p") = <<"0", "x">> \o Number(y, getuint(Head(y.args), 0), 16)
      BY DEF Converted
    <2> QED BY <1>1, <1>4, <2>1
  <1>7. PICK t : t = <<"0", "x">> \o printnum(w, 16, width, padc)
    OBVIOUS
  <1>8. Number(y, w, 16) = printnum(w, 16, width, padc)
    BY <1>2, <1>3, <1>5, NumberFits
  <1>9. /\ t \in Seq(Chars) /\ Value(t, 16) = w
        /\ strtol(t, 16) = Signed(w, INTBITS) \/ HasSpace(t)
    <2>1. w \in Nat
      BY <1>5
    <2>2. HexRead(t, w)
      BY ONLY width \in Int, padc \in Pads, <1>7, <2>1, HexText
    <2> QED BY <2>2 DEF HexRead
  <1>10. s = t
    <2>1. s = <<>> \o t
      BY <1>6, <1>7, <1>8
    <2>2. <<>> \o t = t
      BY ONLY <1>9
    <2> QED BY <2>1, <2>2
  <1> QED BY <1>1, <1>5, <1>b, <1>9, <1>10

LEMMA DecimalConv ==
    ASSUME NEW args \in Seq(Int), args # <<>>, NEW l \in Nat, NEW y \in NumState(args, l),
           NEW s, s = <<>> \o Converted(y, "d")
    PROVE  /\ s \in Seq(Chars)
           /\ Signed(args[1], Bits(l)) = IF s[1] = "-" THEN -Value(s, 10) ELSE Value(s, 10)
           /\ strtol(s, 10) = Signed(args[1], INTBITS) \/ (s[1] = "-" /\ HasSpace(s))
  <1>1. PICK v \in Int : v = args[1] /\ v = Head(y.args)
    BY NumFields
  <1>2. PICK width \in Int : width = y.width
    BY NumFields
  <1>3. PICK padc \in Pads : padc = y.padc
    BY NumFields
  <1>4. PICK w : w = Signed(v, Bits(l))
    OBVIOUS
  <1>5. /\ w \in Int /\ Cong(w, v, Pow2(Bits(l)))
        /\ -Pow2(Bits(l) - 1) <= w /\ w < Pow2(Bits(l) - 1)
    BY <1>4, BitsFit, SignedCong
  <1>6. Signed(w, INTBITS) = Signed(v, INTBITS)
    BY <1>5, SignedAsInt
  <1>7. PICK p \in Nat : p = Pow2(Bits(l)) /\ -p < w /\ w < p
    <2>1. PICK p \in Nat : p = Pow2(Bits(l))
      BY BitsFit DEF Positive
    <2>2. PICK h \in Nat : h = Pow2(Bits(l) - 1) /\ h < p
      BY <2>1, BitsFit DEF Positive
    <2>3. -h <= w /\ w < h /\ w \in Int
      BY <1>5, <2>2
    <2>4. -p < w /\ w < p
      BY ONLY h \in Nat, p \in Nat, <2>2, <2>3
    <2> QED BY <2>1, <2>4
  <1>8. Converted(y, "d") = Decimal(y, w)
    <2>1. Converted(y, "d") = Decimal(y, getint(Head(y.args), y.lflag))
      BY DEF Converted
    <2>2. y.lflag = l
      BY NumFields
    <2>3. getint(v, l) = w
      BY <1>4 DEF getint, Bits
    <2> QED BY <1>1, <2>1, <2>2, <2>3
  <1>9. CASE w < 0
    <2>1. PICK num \in Nat : num = -w /\ num < Pow2(Bits(l))
      BY <1>5, <1>7, <1>9
    <2>2. Number(y, num, 10) = printnum(num, 10, width, padc)
      BY <1>2, <1>3, <2>1, NumberFits
    <2>3. PICK t : t = <<"-">> \o printnum(num, 10, width, padc)
      OBVIOUS
    <2>4. Decimal(y, w) = t
      BY <1>9, <2>1, <2>2, <2>3 DEF Decimal
    <2>5. /\ t \in Seq(Chars) /\ t[1] = "-" /\ Value(t, 10) = num
          /\ strtol(t, 10) = Signed(-num, INTBITS) \/ HasSpace(t)
      <3>1. MinusRead(t, num)
        BY ONLY num \in Nat, width \in Int, padc \in Pads, <2>3, MinusText
      <3> QED BY <3>1 DEF MinusRead
    <2>6. s = t
      <3>1. s = <<>> \o t
        BY <1>8, <2>4
      <3>2. <<>> \o t = t
        BY ONLY <2>5
      <3> QED BY <3>1, <3>2
    <2>7. -num = w
      BY <1>5, <2>1
    <2> QED BY <1>1, <1>4, <1>6, <2>5, <2>6, <2>7
  <1>10. CASE w >= 0
    <2>1. w \in Nat /\ w < Pow2(Bits(l))
      BY <1>5, <1>7, <1>10
    <2>a. PICK base \in {10, 16} : base = 10
      OBVIOUS
    <2>2. Number(y, w, 10) = printnum(w, 10, width, padc)
      BY <1>2, <1>3, <2>1, NumberFits
    <2>3. PICK t : t = printnum(w, base, width, padc)
      OBVIOUS
    <2>5. /\ t \in Seq(Chars) /\ Len(t) > 0 /\ t[1] # "-"
          /\ Value(t, base) = w /\ strtol(t, base) = Signed(w, INTBITS)
          /\ IsDigits(t, base, w) \/ \E i \in 1..Len(t) : t[i] = Space
      BY ONLY base \in {10, 16}, width \in Int, padc \in Pads, <2>1, <2>3, UnsignedText
    <2>4. Decimal(y, w) = <<>> \o t
      <3>1. ~(w < 0)
        BY <1>10, <2>1
      <3> QED BY <2>a, <2>2, <2>3, <3>1 DEF Decimal
    <2>6. s = t
      <3>1. s = <<>> \o (<<>> \o t)
        BY <1>8, <2>4
      <3>2. <<>> \o t = t
        BY ONLY <2>5
      <3> QED BY <3>1, <3>2
    <2> QED BY <1>1, <1>4, <1>6, <2>a, <2>5, <2>6
  <1> QED BY <1>5, <1>9, <1>10


-----------------------------------------------------------------------------
(* The calls of cprintf() *)

LEMMA SpaceIn ==
    ASSUME NEW text \in Seq(Chars), HasSpace(text)
    PROVE  " " \in {text[n] : n \in DOMAIN text}
  <1>1. \E i \in DOMAIN text : text[i] = Space
    BY DEF HasSpace
  <1> QED BY ONLY <1>1 DEF Space

LEMMA StringChars ==
    ASSUME NEW s \in Seq(STRING)
    PROVE  s \in Seq(Chars)
  <1>1. PICK N \in Nat : N = Len(s)
    BY LenProperties
  <1>2. \A i \in 1..N : s[i] \in STRING
    BY <1>1
  <1>3. \A i \in 1..N : s[i] \in Chars
    BY <1>2 DEF Chars
  <1> QED BY <1>1, <1>3

BaseOfNumber(conv) == IF conv \in {"x", "p"} THEN 16 ELSE 10
ReadsBack(fmt, arg, text, base, bits) ==
    /\ IF Conversion(fmt) # "d" THEN Value(text, base) = arg % Pow2(bits)
       ELSE Signed(arg, bits) = IF text[1] = "-" THEN -Value(text, base) ELSE Value(text, base)
    /\ \/ strtol(text, base) = Signed(arg, INTBITS)
       \/ (text[1] = "-" \/ Conversion(fmt) = "p") /\ HasSpace(text)

LEMMA NumberExact ==
    ASSUME NEW fmt \in Seq(Chars), NumberPrinted(fmt), NEW args \in Seq(Int), args # <<>>,
           NEW text, text = vprintfmt(fmt, args)
    PROVE  /\ text \in Seq(Chars)
           /\ ReadsBack(fmt, args[1], text, BaseOfNumber(Conversion(fmt)),
                        IF LongLong(fmt) THEN LLBITS ELSE INTBITS)
  <1>1. PICK l \in Nat : \E y \in NumState(args, l) :
              /\ text = <<>> \o Converted(y, Conversion(fmt))
              /\ Conversion(fmt) # "p" => (LongLong(fmt) <=> l >= 2)
    BY NumberText
  <1>2. PICK y \in NumState(args, l) :
              /\ text = <<>> \o Converted(y, Conversion(fmt))
              /\ Conversion(fmt) # "p" => (LongLong(fmt) <=> l >= 2)
    BY <1>1
  <1>3. PICK c \in {"d", "u", "x", "p"} : c = Conversion(fmt)
    BY DEF NumberPrinted
  <1>4. PICK bits : bits = IF LongLong(fmt) THEN LLBITS ELSE INTBITS
    OBVIOUS
  <1>5. PICK base \in {10, 16} : base = BaseOfNumber(Conversion(fmt))
    BY DEF BaseOfNumber
  <1>6. text = <<>> \o Converted(y, c)
    BY <1>2, <1>3
  <1>7. text \in Seq(Chars) /\ ReadsBack(fmt, args[1], text, base, bits)
    <2>1. CASE c \in {"u", "x"}
      <3>1. bits = Bits(l) /\ base = IF c = "x" THEN 16 ELSE 10
        BY <1>2, <1>3, <1>4, <1>5, <2>1 DEF Bits, BaseOfNumber
      <3>2. /\ text \in Seq(Chars) /\ Value(text, base) = args[1] % Pow2(Bits(l))
            /\ strtol(text, base) = Signed(args[1], INTBITS)
        BY <1>6, <2>1, <3>1, UnsignedConv
      <3> QED BY <1>3, <2>1, <3>1, <3>2 DEF ReadsBack
    <2>2. CASE c = "p"
      <3>1. bits = INTBITS /\ base = 16
        BY <1>3, <1>4, <1>5, <2>2 DEF LongLong, BaseOfNumber
      <3>2. /\ text \in Seq(Chars) /\ Value(text, 16) = args[1] % Pow2(INTBITS)
            /\ strtol(text, 16) = Signed(args[1], INTBITS) \/ HasSpace(text)
        BY <1>6, <2>2, PointerConv
      <3> QED BY <1>3, <2>2, <3>1, <3>2 DEF ReadsBack
    <2>3. CASE c = "d"
      <3>1. bits = Bits(l) /\ base = 10
        BY <1>2, <1>3, <1>4, <1>5, <2>3 DEF Bits, BaseOfNumber
      <3>2. /\ text \in Seq(Chars)
            /\ Signed(args[1], Bits(l)) = IF text[1] = "-" THEN -Value(text, 10) ELSE Value(text, 10)
            /\ strtol(text, 10) = Signed(args[1], INTBITS) \/ (text[1] = "-" /\ HasSpace(text))
        BY <1>6, <2>3, DecimalConv
      <3> QED BY <1>3, <2>3, <3>1, <3>2 DEF ReadsBack
    <2> QED BY <2>1, <2>2, <2>3
  <1> QED BY <1>4, <1>5, <1>7

LEMMA FormatResult ==
    ASSUME NEW a \in Prints, NEW text, text = vprintfmt(a.fmt, a.args), NEW c,
           c = [fn |-> "cprintf", in |-> a, out |-> [text |-> text, b |-> vcprintf(text)]]
    PROVE  NumberReadsBack(c) /\ ConsoleGetsText(c)
  <1>1. c.in = a /\ c.out.text = text /\ c.out.b = vcprintf(text)
    OBVIOUS
  <1>2. /\ a.fmt \in Seq(STRING) /\ text \in Seq(STRING)
        /\ NumberPrinted(a.fmt) => a.args \in Seq(Int) /\ a.args # <<>>
    BY PrintsAssumption
  <1>3. a.fmt \in Seq(Chars) /\ text \in Seq(Chars)
    BY <1>2, StringChars
  <1>4. ASSUME NumberPrinted(a.fmt)
        PROVE  NumberReadsBack(c)
    <2>1. PICK fmt \in Seq(Chars) : fmt = a.fmt
      BY <1>3
    <2>2. PICK args \in Seq(Int) : args = a.args /\ args # <<>>
      BY <1>2, <1>4
    <2>3. NumberPrinted(fmt) /\ text = vprintfmt(fmt, args)
      BY <1>4, <2>1, <2>2
    <2>4. ReadsBack(fmt, args[1], text, BaseOfNumber(Conversion(fmt)),
                    IF LongLong(fmt) THEN LLBITS ELSE INTBITS)
      BY <2>2, <2>3, NumberExact
    <2>5. HasSpace(text) => " " \in {text[n] : n \in DOMAIN text}
      BY <1>3, SpaceIn
    <2> QED BY ONLY <1>1, <2>1, <2>2, <2>4, <2>5, Zenon
               DEF NumberReadsBack, ReadsBack, BaseOfNumber
  <1>5. ASSUME NUL \notin {c.out.text[n] : n \in DOMAIN c.out.text}
        PROVE  c.out.b.console = c.out.text /\ c.out.b.cnt = Len(c.out.text)
    <2>1. NoneNul(text)
      <3>1. \A n \in DOMAIN text : text[n] # NUL
        BY <1>1, <1>5
      <3>2. DOMAIN text = 1..Len(text)
        BY <1>3
      <3> QED BY <3>1, <3>2 DEF NoneNul
    <2> QED BY <1>1, <1>3, <2>1, VcprintfDelivers
  <1>6. ConsoleGetsText(c)
    BY <1>5 DEF ConsoleGetsText
  <1>7. NumberReadsBack(c)
    <2>1. CASE NumberPrinted(a.fmt)
      BY <1>4, <2>1
    <2>2. CASE ~NumberPrinted(a.fmt)
      BY <1>1, <2>2, Zenon DEF NumberReadsBack
    <2> QED BY <2>1, <2>2
  <1> QED BY <1>6, <1>7

(***************************************************************************)
(* What vprintfmt() prints for a number reads back as the number, for      *)
(* every width of the integers, every width and padding of the field and   *)
(* every argument; and what is printed reaches the console in full, in     *)
(* order and once, whatever the size of the buffer (lib/printfmt.c,        *)
(* lib/printf.c, lib/string.c).                                            *)
(***************************************************************************)
THEOREM OutputExact == CallSpec => []OutputFaithful
  <1>1. ASSUME NEW c, c.fn # "cprintf"
        PROVE  NumberReadsBack(c) /\ ConsoleGetsText(c)
    BY <1>1, Zenon DEF NumberReadsBack, ConsoleGetsText
  <1>2. CallInit => OutputFaithful
    <2>1. None.fn # "cprintf"
      BY DEF None
    <2>2. NumberReadsBack(None) /\ ConsoleGetsText(None)
      BY <1>1, <2>1
    <2> QED BY <2>2 DEF CallInit, OutputFaithful
  <1>3. ASSUME OutputFaithful, [CallNext]_call
        PROVE  OutputFaithful'
    <2>1. CASE Format
      <3>1. PICK a \in Prints :
                call' = [fn |-> "cprintf", in |-> a,
                         out |-> [text |-> vprintfmt(a.fmt, a.args),
                                  b |-> vcprintf(vprintfmt(a.fmt, a.args))]]
        BY <2>1 DEF Format, Returns
      <3>2. NumberReadsBack(call') /\ ConsoleGetsText(call')
        BY <3>1, FormatResult
      <3> QED BY <3>2 DEF OutputFaithful
    <2>2. CASE Move \/ Lookup \/ Command \/ Load
      <3>1. call'.fn # "cprintf"
        BY <2>2 DEF Move, Lookup, Command, Load, Returns
      <3>2. NumberReadsBack(call') /\ ConsoleGetsText(call')
        BY <1>1, <3>1
      <3> QED BY <3>2 DEF OutputFaithful
    <2>3. CASE UNCHANGED call
      BY <1>3, <2>3 DEF OutputFaithful
    <2> QED BY <1>3, <2>1, <2>2, <2>3 DEF CallNext
  <1> QED BY <1>2, <1>3, PTL DEF CallSpec

-----------------------------------------------------------------------------
(***************************************************************************)
(* Boot.  Until lcr3() the kernel runs on the page table of the entry      *)
(* code, which maps the pages of entry_pgtable and no others; the kernel   *)
(* writes to what boot_alloc() gave it and to every page table it makes.   *)
(*                                                                         *)
(* The invariant is Early: boot_alloc() is where the sizes of the arrays   *)
(* have put it; from check_page_free_list() on the free list begins with   *)
(* KERNTABLES + 4 pages of entry_pgtable, while check_page() has it put    *)
(* aside too; and once the mappings begin, with a page of entry_pgtable    *)
(* for each page table that kern_pgdir still lacks (Stocked).              *)
(***************************************************************************)
PteType == [pa : Int, perm : SUBSET {"W", "U"}]
DirType == [table : [0..NPDENTRIES - 1 -> Int],
            pte : [0..NPDENTRIES * NPTENTRIES - 1 -> PteType]]
MemType(N) == [free : Seq(Int), ref : [0..N - 1 -> Int], dir : [{"kern", "env"} -> DirType],
               base : Int, touched : SUBSET Int, ok : BOOLEAN]

(* The page tables of the kernel and what it has written to are as before. *)
Same(s, t) == /\ t.touched = s.touched /\ t.base = s.base
              /\ t.dir["kern"].table = s.dir["kern"].table

LEMMA SameTrans ==
    ASSUME NEW s, NEW t, NEW u, Same(s, t), Same(t, u)
    PROVE  Same(s, u)
  BY DEF Same

LEMMA RequireSame ==
    ASSUME NEW N \in Nat, NEW s \in MemType(N), NEW cond
    PROVE  /\ Require(s, cond) \in MemType(N) /\ Same(s, Require(s, cond))
           /\ Require(s, cond).free = s.free
           /\ Require(s, cond).ok => s.ok /\ cond
  <1>1. PICK b \in BOOLEAN : b = (s.ok /\ cond)
    OBVIOUS
  <1>2. PICK t : t = [s EXCEPT !.ok = b]
    OBVIOUS
  <1>3. Require(s, cond) = t
    BY <1>1, <1>2 DEF Require
  <1>4. t \in MemType(N)
    BY ONLY s \in MemType(N), b \in BOOLEAN, <1>2 DEF MemType
  <1>5. /\ t.touched = s.touched /\ t.base = s.base /\ t.dir = s.dir /\ t.free = s.free
        /\ t.ok = b
    BY ONLY s \in MemType(N), <1>2 DEF MemType
  <1> QED BY <1>1, <1>3, <1>4, <1>5 DEF Same

LEMMA FreeSame ==
    ASSUME NEW N \in Nat, NEW s \in MemType(N), NEW p \in Int
    PROVE  /\ page_free(s, p) \in MemType(N) /\ Same(s, page_free(s, p))
           /\ page_free(s, p).free = <<p>> \o s.free
           /\ page_free(s, p).ok => s.ok
  <1>1. PICK cond : cond = (s.ref[p] = 0 /\ p \notin {s.free[n] : n \in 1..Len(s.free) - 1})
    OBVIOUS
  <1>2. PICK t : t = Require(s, cond)
    OBVIOUS
  <1>3. t \in MemType(N) /\ Same(s, t) /\ t.free = s.free /\ (t.ok => s.ok)
    BY <1>2, RequireSame
  <1>4. PICK list \in Seq(Int) : list = <<p>> \o s.free
    <2>1. s.free \in Seq(Int)
      BY ONLY s \in MemType(N) DEF MemType
    <2>2. PICK one \in Seq(Int) : one = <<p>>
      BY OneElement
    <2> QED BY <2>1, <2>2, ConcatProperties
  <1>5. PICK u : u = [t EXCEPT !.free = list]
    OBVIOUS
  <1>6. page_free(s, p) = u
    BY <1>1, <1>2, <1>3, <1>4, <1>5 DEF page_free
  <1>7. t \in MemType(N)
    BY <1>3
  <1>8. u \in MemType(N)
    BY ONLY <1>7, list \in Seq(Int), <1>5 DEF MemType
  <1>9. /\ u.touched = t.touched /\ u.base = t.base /\ u.dir = t.dir /\ u.free = list
        /\ u.ok = t.ok
    BY ONLY <1>7, <1>5 DEF MemType
  <1> QED BY <1>3, <1>4, <1>6, <1>8, <1>9 DEF Same

LEMMA SetPteSame ==
    ASSUME NEW N \in Nat, NEW s \in MemType(N), NEW d \in {"kern", "env"}, NEW va, NEW pa \in Int,
           NEW perm \in SUBSET {"W", "U"}
    PROVE  /\ SetPte(s, d, va, pa, perm) \in MemType(N) /\ Same(s, SetPte(s, d, va, pa, perm))
           /\ SetPte(s, d, va, pa, perm).free = s.free
           /\ SetPte(s, d, va, pa, perm).ok = s.ok
  <1>1. PICK e \in PteType : e = [pa |-> pa, perm |-> perm]
    BY DEF PteType
  <1>2. PICK dir : dir = s.dir
    OBVIOUS
  <1>3. dir \in [{"kern", "env"} -> DirType]
    BY ONLY s \in MemType(N), <1>2 DEF MemType
  <1>4. PICK D \in DirType : D = dir[d]
    BY <1>3
  <1>5. PICK n : n = PGNUM(va)
    OBVIOUS
  <1>6. PICK pte : pte = [D.pte EXCEPT ![n] = e]
    OBVIOUS
  <1>7. pte \in [0..NPDENTRIES * NPTENTRIES - 1 -> PteType]
    <2>1. D.pte \in [0..NPDENTRIES * NPTENTRIES - 1 -> PteType]
      BY DEF DirType
    <2> QED BY ONLY e \in PteType, <1>6, <2>1
  <1>8. PICK E : E = [D EXCEPT !.pte = pte]
    OBVIOUS
  <1>9. E \in DirType /\ E.table = D.table
    BY ONLY D \in DirType, <1>7, <1>8 DEF DirType
  <1>10. PICK dir2 : dir2 = [dir EXCEPT ![d] = E]
    OBVIOUS
  <1>11. dir2 \in [{"kern", "env"} -> DirType] /\ dir2["kern"].table = dir["kern"].table
    <2>1. dir2 \in [{"kern", "env"} -> DirType]
      BY <1>3, <1>9, <1>10
    <2>2. dir2["kern"].table = dir["kern"].table
      BY <1>3, <1>4, <1>9, <1>10
    <2> QED BY <2>1, <2>2
  <1>12. PICK t : t = [s EXCEPT !.dir = dir2]
    OBVIOUS
  <1>13. SetPte(s, d, va, pa, perm) = t
    BY <1>1, <1>2, <1>4, <1>5, <1>6, <1>8, <1>10, <1>12 DEF SetPte
  <1>14. t \in MemType(N)
    BY ONLY s \in MemType(N), <1>11, <1>12 DEF MemType
  <1>15. /\ t.touched = s.touched /\ t.base = s.base /\ t.dir = dir2 /\ t.free = s.free
         /\ t.ok = s.ok
    BY ONLY s \in MemType(N), <1>12 DEF MemType
  <1> QED BY <1>2, <1>11, <1>13, <1>14, <1>15 DEF Same

LEMMA CountType ==
    ASSUME NEW N \in Nat, NEW ref \in [0..N - 1 -> Int], NEW p, NEW k \in Int
    PROVE  [ref EXCEPT ![p] = ref[p] + k] \in [0..N - 1 -> Int]
  <1>1. CASE p \in 0..N - 1
    <2>1. ref[p] + k \in Int
      BY <1>1
    <2> QED BY <2>1
  <1>2. CASE p \notin 0..N - 1
    BY <1>2
  <1> QED BY <1>1, <1>2

(* s with another count for the page p. *)
LEMMA CountSame ==
    ASSUME NEW N \in Nat, NEW s \in MemType(N), NEW p, NEW c, c \in Int \/ p \notin 0..N - 1
    PROVE  /\ [s EXCEPT !.ref[p] = c] \in MemType(N) /\ Same(s, [s EXCEPT !.ref[p] = c])
           /\ [s EXCEPT !.ref[p] = c].free = s.free
  <1>1. PICK ref \in [0..N - 1 -> Int] : ref = [s.ref EXCEPT ![p] = c]
    <2>1. s.ref \in [0..N - 1 -> Int]
      BY ONLY s \in MemType(N) DEF MemType
    <2>2. CASE p \notin 0..N - 1
      BY <2>1, <2>2
    <2>3. CASE c \in Int
      BY <2>1, <2>3
    <2> QED BY <2>2, <2>3
  <1>2. PICK t : t = [s EXCEPT !.ref = ref]
    OBVIOUS
  <1>3. [s EXCEPT !.ref[p] = c] = t
    BY <1>1, <1>2
  <1>4. t \in MemType(N)
    BY ONLY s \in MemType(N), ref \in [0..N - 1 -> Int], <1>2 DEF MemType
  <1>5. t.touched = s.touched /\ t.base = s.base /\ t.dir = s.dir /\ t.free = s.free
    BY ONLY s \in MemType(N), <1>2 DEF MemType
  <1> QED BY <1>3, <1>4, <1>5 DEF Same

LEMMA DecrefSame ==
    ASSUME NEW N \in Nat, NEW s \in MemType(N), NEW p \in Int
    PROVE  page_decref(s, p) \in MemType(N) /\ Same(s, page_decref(s, p))
  <1>1. PICK t : t = [s EXCEPT !.ref[p] = s.ref[p] - 1]
    OBVIOUS
  <1>2. s.ref[p] - 1 \in Int \/ p \notin 0..N - 1
    <2>1. s.ref \in [0..N - 1 -> Int]
      BY ONLY s \in MemType(N) DEF MemType
    <2> QED BY <2>1
  <1>3. t \in MemType(N) /\ Same(s, t)
    BY <1>1, <1>2, CountSame
  <1>4. page_free(t, p) \in MemType(N) /\ Same(t, page_free(t, p))
    BY <1>3, FreeSame
  <1>5. page_decref(s, p) = IF t.ref[p] = 0 THEN page_free(t, p) ELSE t
    BY <1>1 DEF page_decref
  <1> QED BY <1>3, <1>4, <1>5, SameTrans

LEMMA RemoveSame ==
    ASSUME NEW N \in Nat, NEW s \in MemType(N), NEW va, PGSIZE \in Nat, PGSIZE > 0,
           PGNUM(va) \in 0..NPDENTRIES * NPTENTRIES - 1
    PROVE  page_remove(s, "kern", va) \in MemType(N) /\ Same(s, page_remove(s, "kern", va))
  <1>1. PICK e \in PteType : e = s.dir["kern"].pte[PGNUM(va)]
    <2>1. s.dir \in [{"kern", "env"} -> DirType]
      BY ONLY s \in MemType(N) DEF MemType
    <2>2. s.dir["kern"] \in DirType
      BY <2>1
    <2>3. s.dir["kern"].pte \in [0..NPDENTRIES * NPTENTRIES - 1 -> PteType]
      BY <2>2 DEF DirType
    <2> QED BY <2>3
  <1>2. PICK p \in Int : p = PGNUM(e.pa)
    <2>1. e.pa \in Int
      BY DEF PteType
    <2> QED BY <2>1 DEF PGNUM
  <1>3. PICK t \in MemType(N) : t = page_decref(s, p) /\ Same(s, t)
    BY DecrefSame
  <1>4. PICK none \in Int : none = NONE
    BY DEF NONE
  <1>5. PICK perm \in SUBSET {"W", "U"} : perm = {}
    OBVIOUS
  <1>6. "kern" \in {"kern", "env"}
    OBVIOUS
  <1>7. SetPte(t, "kern", va, none, perm) \in MemType(N) /\ Same(t, SetPte(t, "kern", va, none, perm))
    BY <1>6, SetPteSame
  <1>8. page_remove(s, "kern", va) = SetPte(t, "kern", va, none, perm)
    BY <1>1, <1>2, <1>3, <1>4, <1>5 DEF page_remove
  <1> QED BY <1>3, <1>7, <1>8, SameTrans

(* page_insert() after pgdir_walk() has returned. *)
LEMMA InsertSame ==
    ASSUME NEW N \in Nat, NEW s, NEW p \in Int, NEW va, NEW perm \in SUBSET {"W", "U"},
           PGSIZE \in Nat, PGSIZE > 0,
           pgdir_walk(s, "kern", va) \in MemType(N),
           PGNUM(va) \in 0..NPDENTRIES * NPTENTRIES - 1
    PROVE  /\ page_insert(s, "kern", p, va, perm) \in MemType(N)
           /\ Same(pgdir_walk(s, "kern", va), page_insert(s, "kern", p, va, perm))
  <1>1. PICK t \in MemType(N) : t = pgdir_walk(s, "kern", va)
    OBVIOUS
  <1>2. PICK old : old = t.dir["kern"].pte[PGNUM(va)]
    OBVIOUS
  <1>3. PICK less : less = [t EXCEPT !.ref[p] = t.ref[p] - 1]
    OBVIOUS
  <1>4. less \in MemType(N) /\ Same(t, less)
    <2>1. t.ref[p] - 1 \in Int \/ p \notin 0..N - 1
      <3>1. t.ref \in [0..N - 1 -> Int]
        BY ONLY t \in MemType(N) DEF MemType
      <3> QED BY <3>1
    <2> QED BY <1>3, <2>1, CountSame
  <1>5. PICK gone : gone = page_remove(t, "kern", va)
    OBVIOUS
  <1>6. gone \in MemType(N) /\ Same(t, gone)
    BY <1>5, RemoveSame
  <1>7. PICK u : u = IF old = NoPte THEN t ELSE IF PGNUM(old.pa) = p THEN less ELSE gone
    OBVIOUS
  <1>8. u \in MemType(N) /\ Same(t, u)
    <2>1. Same(t, t)
      BY DEF Same
    <2> QED BY <1>4, <1>6, <1>7, <2>1
  <1>9. PICK pa \in Int : pa = p * PGSIZE
    OBVIOUS
  <1>10. PICK v : v = SetPte(u, "kern", va, pa, perm)
    OBVIOUS
  <1>11. v \in MemType(N) /\ Same(u, v)
    <2>1. "kern" \in {"kern", "env"}
      OBVIOUS
    <2> QED BY <1>8, <1>10, <2>1, SetPteSame
  <1>12. PICK w : w = [v EXCEPT !.ref[p] = v.ref[p] + 1]
    OBVIOUS
  <1>13. w \in MemType(N) /\ Same(v, w)
    <2>1. v.ref[p] + 1 \in Int \/ p \notin 0..N - 1
      <3>1. v.ref \in [0..N - 1 -> Int]
        BY ONLY <1>11 DEF MemType
      <3> QED BY <3>1
    <2> QED BY <1>11, <1>12, <2>1, CountSame
  <1>14. page_insert(s, "kern", p, va, perm) = w
    BY <1>1, <1>2, <1>3, <1>5, <1>7, <1>9, <1>10, <1>12, Zenon DEF page_insert
  <1> QED BY <1>1, <1>8, <1>11, <1>13, <1>14, SameTrans

(* t has a page table p in entry pd of the kernel's directory. *)
Retabled(s, t, pd, p) ==
    t.base = s.base /\ t.dir["kern"].table = [s.dir["kern"].table EXCEPT ![pd] = p]

LEMMA SetTableType ==
    ASSUME NEW dir \in [{"kern", "env"} -> DirType], NEW pd, NEW p \in Int
    PROVE  /\ SetTable(dir, "kern", pd, p) \in [{"kern", "env"} -> DirType]
           /\ SetTable(dir, "kern", pd, p)["kern"].table = [dir["kern"].table EXCEPT ![pd] = p]
  <1>1. PICK D \in DirType : D = dir["kern"]
    OBVIOUS
  <1>2. PICK table \in [0..NPDENTRIES - 1 -> Int] : table = [D.table EXCEPT ![pd] = p]
    <2>1. D.table \in [0..NPDENTRIES - 1 -> Int]
      BY DEF DirType
    <2> QED BY <2>1
  <1>3. PICK pte \in [0..NPDENTRIES * NPTENTRIES - 1 -> PteType] : pte = Cleared(D.pte, pd)
    <2>1. D.pte \in [0..NPDENTRIES * NPTENTRIES - 1 -> PteType]
      BY DEF DirType
    <2>2. NoPte \in PteType
      BY DEF NoPte, NONE, PteType
    <2> QED BY <2>1, <2>2 DEF Cleared
  <1>4. PICK E : E = [table |-> table, pte |-> pte]
    OBVIOUS
  <1>5. E \in DirType /\ E.table = table
    BY <1>4 DEF DirType
  <1>6. SetTable(dir, "kern", pd, p) = [dir EXCEPT !["kern"] = E]
    BY <1>1, <1>2, <1>3, <1>4 DEF SetTable
  <1> QED BY <1>1, <1>2, <1>5, <1>6

LEMMA WalkTakes ==
    ASSUME NEW N \in Nat, NEW s \in MemType(N), NEW va, s.free # <<>>,
           ~HasTable(s, "kern", va),
           NEW t, t = pgdir_walk(s, "kern", va)
    PROVE  /\ t \in MemType(N) /\ t.free = Tail(s.free)
           /\ t.touched = s.touched \cup {Head(s.free)}
           /\ Retabled(s, t, PDX(va), Head(s.free))
  <1>1. /\ s.free \in Seq(Int) /\ s.ref \in [0..N - 1 -> Int] /\ s.touched \in SUBSET Int
        /\ s.dir \in [{"kern", "env"} -> DirType]
    BY ONLY s \in MemType(N) DEF MemType
  <1>2. PICK p \in Int : p = Head(s.free)
    BY <1>1, HeadTailProperties
  <1>3. PICK free \in Seq(Int) : free = Tail(s.free)
    BY <1>1, HeadTailProperties
  <1>4. PICK ref \in [0..N - 1 -> Int] : ref = [s.ref EXCEPT ![p] = s.ref[p] + 1]
    <2>1. 1 \in Int
      OBVIOUS
    <2>2. [s.ref EXCEPT ![p] = s.ref[p] + 1] \in [0..N - 1 -> Int]
      BY ONLY N \in Nat, <1>1, <2>1, CountType
    <2> QED BY <2>2
  <1>5. PICK touched \in SUBSET Int : touched = s.touched \cup {p}
    BY <1>1
  <1>6. PICK dir \in [{"kern", "env"} -> DirType] :
            /\ dir = SetTable(s.dir, "kern", PDX(va), p)
            /\ dir["kern"].table = [s.dir["kern"].table EXCEPT ![PDX(va)] = p]
    <2>1. PICK pd : pd = PDX(va)
      OBVIOUS
    <2>2. PICK old \in [{"kern", "env"} -> DirType] : old = s.dir
      BY <1>1
    <2>3. /\ SetTable(old, "kern", pd, p) \in [{"kern", "env"} -> DirType]
          /\ SetTable(old, "kern", pd, p)["kern"].table = [old["kern"].table EXCEPT ![pd] = p]
      BY ONLY old \in [{"kern", "env"} -> DirType], p \in Int, SetTableType
    <2> QED BY <2>1, <2>2, <2>3
  <1>7. t = [s EXCEPT !.free = free, !.ref = ref, !.touched = touched, !.dir = dir]
    <2>1. PICK s1 : s1 = [s EXCEPT !.free = free]
      OBVIOUS
    <2>2. PICK s2 : s2 = [s1 EXCEPT !.ref = ref]
      OBVIOUS
    <2>3. PICK s3 : s3 = [s2 EXCEPT !.touched = touched]
      OBVIOUS
    <2>4. s1.ref = s.ref /\ s2.touched = s.touched /\ s3.dir = s.dir
      BY ONLY s \in MemType(N), <2>1, <2>2, <2>3 DEF MemType
    <2>5. s2 = [s1 EXCEPT !.ref = [s1.ref EXCEPT ![p] = s.ref[p] + 1]]
      BY <1>4, <2>2, <2>4
    <2>6. t = [s3 EXCEPT !.dir = dir]
      BY <1>2, <1>3, <1>5, <1>6, <2>1, <2>3, <2>4, <2>5 DEF pgdir_walk
    <2> QED BY <2>1, <2>2, <2>3, <2>6
  <1>8. t \in MemType(N)
    BY ONLY s \in MemType(N), free \in Seq(Int), ref \in [0..N - 1 -> Int],
            touched \in SUBSET Int,
            dir \in [{"kern", "env"} -> DirType], <1>7 DEF MemType
  <1>9. t.free = free /\ t.touched = touched /\ t.base = s.base /\ t.dir = dir
    BY ONLY s \in MemType(N), <1>7 DEF MemType
  <1> QED BY <1>2, <1>3, <1>5, <1>6, <1>8, <1>9 DEF Retabled

LEMMA TakeBackTable ==
    ASSUME NEW N \in Nat, NEW s \in MemType(N), NEW pd,
           NEW t, t = TakeBack(s, pd)
    PROVE  /\ t \in MemType(N) /\ t.free = s.free /\ t.touched = s.touched
           /\ Retabled(s, t, pd, NONE)
  <1>1. PICK p : p = s.dir["kern"].table[pd]
    OBVIOUS
  <1>2. PICK u \in MemType(N) : u = Require(s, s.ref[p] = 1) /\ Same(s, u) /\ u.free = s.free
    BY RequireSame
  <1>3. u.ref \in [0..N - 1 -> Int] /\ u.dir \in [{"kern", "env"} -> DirType]
    BY ONLY u \in MemType(N) DEF MemType
  <1>4. PICK ref \in [0..N - 1 -> Int] : ref = [u.ref EXCEPT ![p] = 0]
    <2>1. PICK D : D = 0..N - 1
      OBVIOUS
    <2>2. u.ref \in [D -> Int] /\ 0 \in Int
      BY <1>3, <2>1
    <2>3. [u.ref EXCEPT ![p] = 0] \in [D -> Int]
      BY ONLY <2>2
    <2> QED BY <2>1, <2>3
  <1>5. PICK none \in Int : none = NONE
    BY DEF NONE
  <1>6. PICK dir \in [{"kern", "env"} -> DirType] :
            /\ dir = SetTable(u.dir, "kern", pd, none)
            /\ dir["kern"].table = [u.dir["kern"].table EXCEPT ![pd] = none]
    <2>1. PICK old \in [{"kern", "env"} -> DirType] : old = u.dir
      BY <1>3
    <2>2. /\ SetTable(old, "kern", pd, none) \in [{"kern", "env"} -> DirType]
          /\ SetTable(old, "kern", pd, none)["kern"].table = [old["kern"].table EXCEPT ![pd] = none]
      BY ONLY old \in [{"kern", "env"} -> DirType], none \in Int, SetTableType
    <2> QED BY <2>1, <2>2
  <1>7. t = [u EXCEPT !.dir = dir, !.ref = ref]
    <2>1. PICK u1 : u1 = [u EXCEPT !.dir = dir]
      OBVIOUS
    <2>2. u1.ref = u.ref
      BY ONLY u \in MemType(N), <2>1 DEF MemType
    <2>3. t = [u1 EXCEPT !.ref = [u1.ref EXCEPT ![p] = 0]]
      BY <1>1, <1>2, <1>5, <1>6, <2>1, Zenon DEF TakeBack
    <2> QED BY <1>4, <2>1, <2>2, <2>3
  <1>8. t \in MemType(N)
    BY ONLY u \in MemType(N), ref \in [0..N - 1 -> Int],
            dir \in [{"kern", "env"} -> DirType], <1>7 DEF MemType
  <1>9. t.free = u.free /\ t.touched = u.touched /\ t.base = u.base /\ t.dir = dir
    BY ONLY u \in MemType(N), <1>7 DEF MemType
  <1> QED BY <1>2, <1>5, <1>6, <1>8, <1>9 DEF Same, Retabled

-----------------------------------------------------------------------------
(* The layout of the address space. *)

LEMMA DivBounds ==
    ASSUME NEW x \in Nat, NEW T \in Nat, T > 0, NEW a \in Nat, NEW b \in Nat,
           a * T <= x, x < b * T
    PROVE  x \div T \in a..b - 1
  <1>1. PICK q \in Nat, r \in Nat : q = x \div T /\ r = x % T /\ r < T /\ x = q * T + r
    BY DivMod
  <1>2. q >= a
    <2> SUFFICES ASSUME q < a PROVE FALSE
      BY <1>1
    <2>1. PICK d \in Nat : a = q + 1 + d
      <3>1. a - q - 1 \in Nat /\ a = q + 1 + (a - q - 1)
        BY <1>1
      <3> QED BY <3>1
    <2>2. a * T = q * T + T + d * T /\ d * T >= 0
      BY <1>1, <2>1
    <2>3. PICK u \in Int, v \in Int, w \in Int : u = a * T /\ v = q * T /\ w = d * T
      BY <1>1, <2>1
    <2> QED BY <1>1, <2>2, <2>3
  <1>3. q < b
    <2> SUFFICES ASSUME q >= b PROVE FALSE
      BY <1>1
    <2>1. PICK d \in Nat : q = b + d
      <3>1. q - b \in Nat /\ q = b + (q - b)
        BY <1>1
      <3> QED BY <3>1
    <2>2. q * T = b * T + d * T /\ d * T >= 0
      BY <1>1, <2>1
    <2>3. PICK u \in Int, v \in Int, w \in Int : u = b * T /\ v = q * T /\ w = d * T
      BY <1>1, <2>1
    <2> QED BY <1>1, <2>2, <2>3
  <1> QED BY <1>1, <1>2, <1>3

LEMMA DivMultiple ==
    ASSUME NEW a \in Nat, NEW T \in Nat, T > 0
    PROVE  (a * T) \div T = a
  <1>1. PICK x \in Nat : x = a * T
    OBVIOUS
  <1>2. (a + 1) * T = a * T + T
    OBVIOUS
  <1>3. x \div T \in a..(a + 1) - 1
    BY <1>1, <1>2, DivBounds
  <1> QED BY <1>1, <1>3

(* What Boot assumes of its constants. *)
Bootable == BootAssumption /\ MachinesAssumption

LEMMA Numbers ==
    ASSUME Bootable
    PROVE  /\ PGSIZE \in Nat /\ NPTENTRIES \in Nat /\ NPDENTRIES \in Nat /\ KERNTABLES \in Nat
           /\ NCPU \in Nat /\ PAGEINFO \in Nat /\ ENVS \in Nat
           /\ IOPHYSMEM \in Nat /\ EXTPHYSMEM \in Nat /\ MPENTRY_PADDR \in Nat
           /\ KSTKSIZE \in Nat /\ KSTKGAP \in Nat
           /\ PGSIZE > 0 /\ NPTENTRIES > 1 /\ KERNTABLES > 0 /\ NCPU > 0
           /\ Machines \subseteq Nat \X Nat /\ KernelEnds \subseteq Nat
  BY DEF Bootable, BootAssumption

(* K: the page tables below KERNBASE. *)
LEMMA Layout ==
    ASSUME Bootable
    PROVE  \E K, T \in Nat :
              /\ T = PTSIZE /\ T = NPTENTRIES * PGSIZE /\ T >= 2 * PGSIZE
              /\ K > 7 /\ K + KERNTABLES = NPDENTRIES
              /\ KERNBASE = K * T /\ KSTACKTOP = K * T /\ MMIOLIM = (K - 1) * T
              /\ MMIOBASE = (K - 2) * T
              /\ UVPT = (K - 3) * T /\ UPAGES = (K - 4) * T /\ UENVS = (K - 5) * T
              /\ NPDENTRIES * T = K * T + KERNTABLES * T
  <1>1. PICK T \in Nat : T = NPTENTRIES * PGSIZE
    BY Numbers
  <1>2. T >= 2 * PGSIZE
    <2>1. PICK d \in Nat : NPTENTRIES = d + 2
      <3>1. NPTENTRIES - 2 \in Nat /\ NPTENTRIES = (NPTENTRIES - 2) + 2
        BY Numbers
      <3> QED BY <3>1
    <2>2. NPTENTRIES * PGSIZE = d * PGSIZE + 2 * PGSIZE /\ d * PGSIZE >= 0
      BY <2>1, Numbers
    <2>3. PICK u \in Int, v \in Int : u = NPTENTRIES * PGSIZE /\ v = d * PGSIZE
      BY Numbers
    <2> QED BY <1>1, <2>2, <2>3, Numbers
  <1>3. T > 0
    BY <1>2, Numbers
  <1>4. T = PTSIZE
    BY <1>1 DEF PTSIZE
  <1>5. PICK K \in Int : K = NPDENTRIES - KERNTABLES
    BY Numbers
  <1>6. PICK X \in Int : X = K * T
    OBVIOUS
  <1>7. /\ KERNBASE = X /\ KSTACKTOP = X /\ MMIOLIM = X - T /\ MMIOBASE = X - T - T
        /\ UVPT = X - T - T - T /\ UPAGES = X - T - T - T - T
        /\ UENVS = X - T - T - T - T - T /\ UTOP = UENVS
    BY <1>4, <1>5, <1>6 DEF KERNBASE, KSTACKTOP, MMIOLIM, MMIOBASE, ULIM, UVPT,
       UPAGES,
       UENVS, UTOP
  <1>8. X > 7 * T
    BY <1>4, <1>7 DEF Bootable, BootAssumption
  <1>9. K > 7
    <2> SUFFICES ASSUME K <= 7 PROVE FALSE
      OBVIOUS
    <2>1. PICK d \in Nat : 7 = K + d
      <3>1. 7 - K \in Nat /\ 7 = K + (7 - K)
        OBVIOUS
      <3> QED BY <3>1
    <2>2. 7 * T = K * T + d * T /\ d * T >= 0
      BY <2>1
    <2>3. PICK w \in Int : w = d * T
      OBVIOUS
    <2> QED BY <1>6, <1>8, <2>2, <2>3
  <1>10. /\ (K - 1) * T = X - T /\ (K - 2) * T = X - T - T /\ (K - 3) * T = X - T - T - T
         /\ (K - 4) * T = X - T - T - T - T /\ (K - 5) * T = X - T - T - T - T - T
    BY <1>6
  <1>11. K + KERNTABLES = NPDENTRIES /\ NPDENTRIES * T = K * T + KERNTABLES * T
    BY <1>5, Numbers
  <1>12. K \in Nat
    BY <1>9
  <1> QED BY <1>1, <1>2, <1>4, <1>6, <1>7, <1>9, <1>10, <1>11, <1>12

-----------------------------------------------------------------------------
(* The free list begins with a page that the entry code maps for every page *)
(* table that the kernel's half of the address space does not have yet.     *)

KernelEntries == PDX(UENVS)..NPDENTRIES - 1
Missing(s) == {pd \in KernelEntries : s.dir["kern"].table[pd] = NONE}
LowStock(list, k) == k <= Len(list) /\ \A n \in 1..k : list[n] \in entry_pgtable
Stocked(s) == s.touched \subseteq entry_pgtable /\ LowStock(s.free, Cardinality(Missing(s)))

LEMMA Entries ==
    ASSUME Bootable
    PROVE  /\ KernelEntries \subseteq 3..NPDENTRIES - 1 /\ IsFiniteSet(KernelEntries)
           /\ KernelEntries \subseteq 0..NPDENTRIES - 1
           /\ Cardinality(KernelEntries) = KERNTABLES + 5
           /\ PDX(UVPT) \in KernelEntries
           /\ \A x \in Nat : UENVS <= x /\ x < NPDENTRIES * PTSIZE => PDX(x) \in KernelEntries
  <1>1. PICK K, T \in Nat :
            /\ T = PTSIZE /\ T = NPTENTRIES * PGSIZE /\ T >= 2 * PGSIZE
            /\ K > 7 /\ K + KERNTABLES = NPDENTRIES
            /\ UVPT = (K - 3) * T /\ UENVS = (K - 5) * T
    BY Layout
  <1>2. T > 0
    BY <1>1, Numbers
  <1>3. PICK a \in Nat : a = K - 5
    BY <1>1
  <1>4. PICK b \in Nat : b = K - 3
    BY <1>1
  <1>5. PDX(UENVS) = a
    BY <1>1, <1>2, <1>3, DivMultiple DEF PDX
  <1>6. PDX(UVPT) = b
    BY <1>1, <1>2, <1>4, DivMultiple DEF PDX
  <1>7. KernelEntries = a..NPDENTRIES - 1
    BY <1>5 DEF KernelEntries
  <1>8. a \in Int /\ NPDENTRIES - 1 \in Int /\ NPDENTRIES - 1 >= a /\ a >= 3
    BY <1>1, <1>3, Numbers
  <1>9. IsFiniteSet(KernelEntries) /\ Cardinality(KernelEntries) = (NPDENTRIES - 1) - a + 1
    BY ONLY <1>7, <1>8, FS_Interval
  <1>10. (NPDENTRIES - 1) - a + 1 = KERNTABLES + 5
    BY <1>1, <1>3, Numbers
  <1>11. b \in a..NPDENTRIES - 1
    BY <1>1, <1>3, <1>4, Numbers
  <1>12. ASSUME NEW x \in Nat, UENVS <= x, x < NPDENTRIES * PTSIZE
         PROVE  PDX(x) \in KernelEntries
    <2>1. x \div T \in a..NPDENTRIES - 1
      <3>1. a * T <= x /\ x < NPDENTRIES * T /\ NPDENTRIES \in Nat
        BY <1>1, <1>3, <1>12, Numbers
      <3> QED BY ONLY x \in Nat, T \in Nat, a \in Nat, <1>2, <3>1, DivBounds
    <2> QED BY <1>1, <1>7, <2>1 DEF PDX
  <1>13. KernelEntries \subseteq 3..NPDENTRIES - 1 /\ KernelEntries \subseteq 0..NPDENTRIES - 1
    <2>1. PICK b2 \in Int : b2 = NPDENTRIES - 1
      BY <1>8
    <2>2. \A e \in a..b2 : e \in 3..b2 /\ e \in 0..b2
      BY <1>8
    <2> QED BY ONLY <1>7, <2>1, <2>2
  <1> QED BY <1>6, <1>7, <1>9, <1>10, <1>11, <1>12, <1>13

LEMMA MissingFinite ==
    ASSUME Bootable, NEW s
    PROVE  IsFiniteSet(Missing(s)) /\ Cardinality(Missing(s)) \in Nat
  <1>1. IsFiniteSet(KernelEntries) /\ Missing(s) \subseteq KernelEntries
    BY Entries DEF Missing
  <1> QED BY <1>1, FS_Subset, FS_CardinalityType

LEMMA StockedSame ==
    ASSUME NEW s, NEW t, Same(s, t), t.free = s.free, Stocked(s)
    PROVE  Stocked(t)
  BY DEF Same, Stocked, Missing

LEMMA StockTail ==
    ASSUME NEW list \in Seq(Int), NEW k \in Nat, k > 0, LowStock(list, k)
    PROVE  /\ list # <<>> /\ Head(list) \in entry_pgtable
           /\ Tail(list) \in Seq(Int) /\ LowStock(Tail(list), k - 1)
  <1>1. Len(list) \in Nat /\ Len(list) > 0 /\ list # <<>>
    BY LenProperties, EmptySeq DEF LowStock
  <1>2. /\ Head(list) = list[1] /\ Tail(list) \in Seq(Int) /\ Len(Tail(list)) = Len(list) - 1
        /\ \A i \in 1..Len(Tail(list)) : Tail(list)[i] = list[i + 1]
    BY <1>1, HeadTailProperties
  <1>3. list[1] \in entry_pgtable
    BY <1>1 DEF LowStock
  <1>4. ASSUME NEW n \in 1..k - 1 PROVE Tail(list)[n] \in entry_pgtable
    <2>1. n \in 1..Len(Tail(list)) /\ n + 1 \in 1..k
      BY <1>1, <1>2 DEF LowStock
    <2> QED BY <1>2, <2>1 DEF LowStock
  <1>5. k - 1 <= Len(Tail(list))
    BY <1>1, <1>2 DEF LowStock
  <1> QED BY <1>1, <1>2, <1>3, <1>4, <1>5 DEF LowStock

LEMMA LowIsPage == Bootable => NONE \notin entry_pgtable /\ entry_pgtable \subseteq Int
  BY Numbers DEF entry_pgtable, NONE

(* One page of a mapping: a page table is made if there is none. *)
MapOne(s, x, pa, perm) ==
    IF ~CanWalk(s, "kern", x) THEN Require(s, FALSE)
    ELSE SetPte(pgdir_walk(s, "kern", x), "kern", x, pa, perm)

LEMMA WalkStocked ==
    ASSUME Bootable, NEW N \in Nat, NEW s \in MemType(N), Stocked(s),
           NEW x, PDX(x) \in KernelEntries, ~HasTable(s, "kern", x),
           NEW t, t = pgdir_walk(s, "kern", x)
    PROVE  t \in MemType(N) /\ Stocked(t) /\ t.base = s.base
  <1>1. PICK k \in Nat : k = Cardinality(Missing(s))
    BY MissingFinite
  <1>2. PICK pd \in KernelEntries : pd = PDX(x)
    OBVIOUS
  <1>3. pd \in Missing(s)
    BY <1>2 DEF Missing, HasTable
  <1>4. Cardinality(Missing(s) \ {pd}) = k - 1 /\ k > 0
    <2>1. IsFiniteSet(Missing(s)) /\ Missing(s) # {}
      BY <1>3, MissingFinite
    <2>2. Cardinality(Missing(s) \ {pd}) = Cardinality(Missing(s)) - 1
      BY ONLY <1>3, <2>1, FS_RemoveElement
    <2>3. k # 0
      BY ONLY <1>1, <2>1, FS_EmptySet
    <2> QED BY <1>1, <2>2, <2>3
  <1>5. PICK list \in Seq(Int) : list = s.free
    BY ONLY s \in MemType(N) DEF MemType
  <1>6. LowStock(list, k)
    BY <1>1, <1>5 DEF Stocked
  <1>7. /\ list # <<>> /\ Head(list) \in entry_pgtable /\ LowStock(Tail(list), k - 1)
    BY ONLY list \in Seq(Int), k \in Nat, <1>4, <1>6, StockTail
  <1>8. PICK p : p = Head(list)
    OBVIOUS
  <1>9. /\ t \in MemType(N) /\ t.free = Tail(s.free) /\ t.touched = s.touched \cup {Head(s.free)}
        /\ Retabled(s, t, PDX(x), Head(s.free))
    BY <1>5, <1>7, WalkTakes
  <1>10. Missing(t) = Missing(s) \ {pd}
    <2>1. PICK old \in [0..NPDENTRIES - 1 -> Int] : old = s.dir["kern"].table
      <3>1. s.dir \in [{"kern", "env"} -> DirType]
        BY ONLY s \in MemType(N) DEF MemType
      <3>2. s.dir["kern"] \in DirType
        BY <3>1
      <3> QED BY <3>2 DEF DirType
    <2>2. t.dir["kern"].table = [old EXCEPT ![pd] = p]
      BY <1>2, <1>5, <1>8, <1>9, <2>1 DEF Retabled
    <2>3. p # NONE
      BY <1>7, <1>8, LowIsPage
    <2>4. KernelEntries \subseteq 0..NPDENTRIES - 1
      BY Entries
    <2>5. ASSUME NEW e \in KernelEntries
          PROVE  t.dir["kern"].table[e] = NONE <=> old[e] = NONE /\ e # pd
      BY <2>2, <2>3, <2>4
    <2> QED BY <2>1, <2>5 DEF Missing
  <1>11. t.touched \subseteq entry_pgtable
    BY <1>5, <1>7, <1>9 DEF Stocked
  <1>12. LowStock(t.free, Cardinality(Missing(t)))
    BY <1>4, <1>5, <1>7, <1>9, <1>10
  <1> QED BY <1>9, <1>11, <1>12 DEF Stocked, Retabled

LEMMA MapOneStocked ==
    ASSUME Bootable, NEW N \in Nat, NEW s \in MemType(N), Stocked(s),
           NEW x, PDX(x) \in KernelEntries, NEW pa \in Int, NEW perm \in SUBSET {"W", "U"}
    PROVE  /\ MapOne(s, x, pa, perm) \in MemType(N) /\ Stocked(MapOne(s, x, pa, perm))
           /\ MapOne(s, x, pa, perm).base = s.base
  <1>1. CASE ~CanWalk(s, "kern", x)
    <2>1. MapOne(s, x, pa, perm) = Require(s, FALSE)
      BY <1>1 DEF MapOne
    <2>2. PICK t \in MemType(N) : t = Require(s, FALSE) /\ Same(s, t) /\ t.free = s.free
      BY RequireSame
    <2> QED BY <2>1, <2>2, StockedSame DEF Same
  <1>2. CASE CanWalk(s, "kern", x)
    <2>1. PICK t : t = pgdir_walk(s, "kern", x)
      OBVIOUS
    <2>2. t \in MemType(N) /\ Stocked(t) /\ t.base = s.base
      <3>1. CASE HasTable(s, "kern", x)
        BY <2>1, <3>1 DEF pgdir_walk
      <3>2. CASE ~HasTable(s, "kern", x)
        BY <2>1, <3>2, WalkStocked
      <3> QED BY <3>1, <3>2
    <2>3. "kern" \in {"kern", "env"}
      OBVIOUS
    <2>4. PICK u : u = SetPte(t, "kern", x, pa, perm)
      OBVIOUS
    <2>5. u \in MemType(N) /\ Same(t, u) /\ u.free = t.free
      BY <2>2, <2>3, <2>4, SetPteSame
    <2>6. Stocked(u) /\ u.base = t.base
      BY <2>2, <2>5, StockedSame DEF Same
    <2>7. MapOne(s, x, pa, perm) = u
      BY <1>2, <2>1, <2>4 DEF MapOne
    <2> QED BY <2>2, <2>5, <2>6, <2>7
  <1> QED BY <1>1, <1>2

LEMMA Rounding ==
    ASSUME Bootable, NEW n \in Nat
    PROVE  \E M \in Nat :
              /\ M = PGNUM(ROUNDUP(n)) /\ ROUNDUP(n) = M * PGSIZE /\ ROUNDUP(n) \in Nat
              /\ n <= ROUNDUP(n) /\ ROUNDUP(n) < n + PGSIZE
              /\ \A k \in 0..M - 1 : k * PGSIZE \in Nat /\ k * PGSIZE < n
  <1>1. PICK P \in Nat : P = PGSIZE /\ P > 0
    BY Numbers
  <1>2. PICK x \in Nat : x = n + P - 1
    BY <1>1
  <1>3. PICK q \in Nat, r \in Nat : q = x \div P /\ r = x % P /\ r < P /\ x = q * P + r
    BY <1>1, DivMod
  <1>4. PICK R \in Nat : R = q * P
    OBVIOUS
  <1>5. ROUNDUP(n) = R
    BY <1>1, <1>2, <1>3, <1>4 DEF ROUNDUP
  <1>6. PGNUM(R) = q
    BY <1>1, <1>4, DivMultiple DEF PGNUM
  <1>7. n <= R /\ R < n + P
    BY <1>1, <1>2, <1>3, <1>4
  <1>8. ASSUME NEW k \in 0..q - 1 PROVE k * P \in Nat /\ k * P < n
    <2>1. PICK d \in Nat : q = k + 1 + d
      <3>1. q - k - 1 \in Nat /\ q = k + 1 + (q - k - 1)
        OBVIOUS
      <3> QED BY <3>1
    <2>2. q * P = k * P + P + d * P /\ d * P \in Nat /\ k * P \in Nat
      BY <2>1
    <2>3. PICK u \in Nat, v \in Nat : u = k * P /\ v = d * P
      BY <2>2
    <2>4. R = u + P + v
      BY <1>4, <2>2, <2>3
    <2> QED BY <1>7, <2>3, <2>4
  <1> QED BY <1>1, <1>4, <1>5, <1>6, <1>7, <1>8

LEMMA MapStocked ==
    ASSUME Bootable, NEW N \in Nat, NEW s \in MemType(N), Stocked(s),
           NEW va \in Nat, NEW size \in Nat, NEW pa \in Int, NEW perm \in SUBSET {"W", "U"},
           UENVS <= va, va + size <= NPDENTRIES * PTSIZE,
           NEW t, t = boot_map_region(s, va, size, pa, perm)
    PROVE  t \in MemType(N) /\ Stocked(t) /\ t.base = s.base
  <1>1. PICK M \in Nat : /\ M = PGNUM(ROUNDUP(size))
                         /\ \A k \in 0..M - 1 : k * PGSIZE \in Nat /\ k * PGSIZE < size
    BY Rounding
  <1> DEFINE Map1(u, n) == MapOne(u, va + n * PGSIZE, pa + n * PGSIZE, perm)
             F(g) == [n \in 0..M |-> IF n = 0 THEN s ELSE Map1(g[n - 1], n - 1)]
             Good(u) == u \in MemType(N) /\ Stocked(u) /\ u.base = s.base
  <1>2. ASSUME NEW n \in 0..M - 1, NEW u, Good(u)
        PROVE  Good(Map1(u, n))
    <2>1. PICK x \in Nat : x = va + n * PGSIZE
      BY <1>1
    <2>2. PICK y \in Int : y = pa + n * PGSIZE
      BY <1>1
    <2>3. UENVS <= x /\ x < NPDENTRIES * PTSIZE
      <3>1. PICK K, T \in Nat : T = PTSIZE /\ K > 7 /\ UENVS = (K - 5) * T
        BY Layout
      <3>2. PICK k \in Nat : k = n * PGSIZE /\ k < size
        BY <1>1
      <3>3. PICK E \in Int, U \in Int : E = NPDENTRIES * PTSIZE /\ U = UENVS
        BY <3>1, Numbers
      <3> QED BY <2>1, <3>2, <3>3
    <2>4. PDX(x) \in KernelEntries
      BY <2>3, Entries
    <2>5. Good(MapOne(u, x, y, perm))
      BY <1>2, <2>4, MapOneStocked
    <2> QED BY <2>1, <2>2, <2>5
  <1>3. PICK I : I = [n \in 0..M |-> {u \in MemType(N) : Stocked(u) /\ u.base = s.base}]
    OBVIOUS
  <1>4. ASSUME NEW u, NEW n \in 0..M
        PROVE  u \in I[n] <=> Good(u)
    BY <1>3
  <1>5. Good(s)
    OBVIOUS
  <1> HIDE DEF Map1, Good
  <1>6. \E g : g = F(g)
    <2>1. PICK f : f = [n \in 1..M |-> [u \in MemType(N) |-> Map1(u, n - 1)]]
      OBVIOUS
    <2>2. s \in I[0]
      BY <1>4, <1>5
    <2>3. ASSUME NEW n \in 0..(M - 1), NEW u \in I[n]
          PROVE  f[n + 1][u] \in I[n + 1]
      <3>1. n + 1 \in 1..M /\ n \in 0..M /\ n + 1 \in 0..M /\ (n + 1) - 1 = n
        OBVIOUS
      <3>2. Good(u) /\ u \in MemType(N)
        BY <1>4, <3>1 DEF Good
      <3>3. f[n + 1][u] = Map1(u, n)
        BY <2>1, <3>1, <3>2
      <3> QED BY <1>2, <1>4, <3>1, <3>2, <3>3
    <2>4. PICK g : IsLoop(g, M, s, f) /\ \A n \in 0..M : g[n] \in I[n]
      <3>1. \A n \in 0..(M - 1) : \A u \in I[n] : f[n + 1][u] \in I[n + 1]
        BY <2>3
      <3> QED BY ONLY M \in Nat, <2>2, <3>1, LoopExists
    <2>5. ASSUME NEW n \in 0..M
          PROVE  (IF n = 0 THEN s ELSE f[n][g[n - 1]])
                   = (IF n = 0 THEN s ELSE Map1(g[n - 1], n - 1))
      <3>1. CASE n # 0
        <4>1. n \in 1..M /\ n - 1 \in 0..M
          BY <3>1
        <4>2. g[n - 1] \in MemType(N)
          BY <1>4, <2>4, <4>1 DEF Good
        <4> QED BY <2>1, <4>1, <4>2
      <3> QED BY <3>1
    <2>6. g = F(g)
      BY <2>4, <2>5 DEF IsLoop
    <2> QED BY <2>6
  <1>7. PICK m : m = CHOOSE g : g = F(g)
    OBVIOUS
  <1>8. m = F(m)
    BY <1>6, <1>7
  <1>9. \A n \in 0..M : m[n] \in I[n]
    <2>1. m[0] \in I[0]
      BY <1>4, <1>5, <1>8
    <2>2. ASSUME NEW n \in 0..(M - 1), m[n] \in I[n]
          PROVE  m[n + 1] \in I[n + 1]
      <3>1. n + 1 \in 0..M /\ n + 1 # 0 /\ (n + 1) - 1 = n /\ n \in 0..M
        OBVIOUS
      <3>2. m[n + 1] = Map1(m[n], n)
        BY <1>8, <3>1
      <3> QED BY <1>2, <1>4, <2>2, <3>1, <3>2
    <2> QED BY ONLY M \in Nat, <2>1, <2>2, LoopInvariant
  <1>10. t = m[M]
    BY <1>1, <1>7 DEF boot_map_region, Map1, MapOne
  <1> QED BY <1>4, <1>9, <1>10 DEF Good

(* mem_init_mp() maps the stacks in the page table below KSTACKTOP. *)
LEMMA StacksStocked ==
    ASSUME Bootable, NEW N \in Nat, mem \in MemType(N), Stocked(mem), mem_init_mp
    PROVE  mem' \in MemType(N) /\ Stocked(mem')
  <1>1. NCPU \in Nat /\ KSTKSIZE \in Nat
    BY Numbers
  <1> DEFINE Map1(u, i) == boot_map_region(u, kstack(i), KSTKSIZE, percpu_kstacks(i), {"W"})
             F(g) == [n \in 0..NCPU |-> IF n = 0 THEN mem ELSE Map1(g[n - 1], n - 1)]
             Good(u) == u \in MemType(N) /\ Stocked(u)
  <1>2. ASSUME NEW i \in 0..NCPU - 1, NEW u, Good(u)
        PROVE  Good(Map1(u, i))
    <2>1. PICK K, T \in Nat :
              /\ T = PTSIZE /\ K > 7 /\ KSTACKTOP = K * T /\ UENVS = (K - 5) * T
              /\ NPDENTRIES * T = K * T + KERNTABLES * T
      BY Layout
    <2>2. PICK S \in Nat : S = KSTKSIZE + KSTKGAP
      BY Numbers
    <2>3. PICK X \in Nat, Y \in Nat, Z \in Nat : X = K * T /\ Y = i * S /\ Z = KERNTABLES * T
      <3>1. i \in Nat /\ KERNTABLES \in Nat
        BY <1>1, Numbers
      <3>2. K * T \in Nat /\ i * S \in Nat /\ KERNTABLES * T \in Nat
        BY ONLY <3>1, K \in Nat, T \in Nat, S \in Nat
      <3> QED BY <3>2
    <2>4. Y + S <= T
      <3>1. NCPU * S <= T
        BY <2>1, <2>2 DEF Bootable, BootAssumption
      <3>2. PICK d \in Nat : NCPU = i + 1 + d
        <4>1. NCPU - i - 1 \in Nat /\ NCPU = i + 1 + (NCPU - i - 1)
          BY <1>1
        <4> QED BY <4>1
      <3>3. NCPU * S = i * S + S + d * S /\ d * S \in Nat
        BY <3>2
      <3>4. PICK v \in Nat : v = d * S
        BY <3>3
      <3>5. Y + S + v <= T
        BY <2>3, <3>1, <3>3, <3>4
      <3> QED BY <3>5
    <2>5. (K - 5) * T = X - 5 * T /\ 7 * T <= X
      <3>1. PICK d \in Nat : K = 7 + d
        <4>1. K - 7 \in Nat /\ K = 7 + (K - 7)
          BY <2>1
        <4> QED BY <4>1
      <3>2. K * T = 7 * T + d * T /\ d * T \in Nat
        BY <3>1
      <3> QED BY <2>3, <3>2
    <2>6. kstack(i) = X - KSTKSIZE - Y
      BY <2>1, <2>2, <2>3 DEF kstack
    <2>7. PICK va \in Nat : va = X - KSTKSIZE - Y
      <3>1. X - KSTKSIZE - Y \in Nat
        BY <2>2, <2>4, <2>5, Numbers
      <3> QED BY <3>1
    <2>8. UENVS <= va /\ va + KSTKSIZE <= NPDENTRIES * PTSIZE
      <3>1. X - 5 * T <= va /\ va + KSTKSIZE <= X + Z
        BY <2>2, <2>4, <2>7, Numbers
      <3> QED BY <2>1, <2>3, <2>5, <3>1
    <2>9. PICK pa \in Int : pa = percpu_kstacks(i)
      BY Numbers DEF percpu_kstacks, bootstack
    <2>10. PICK perm \in SUBSET {"W", "U"} : perm = {"W"}
      OBVIOUS
    <2>11. Good(boot_map_region(u, va, KSTKSIZE, pa, perm))
      BY <1>1, <1>2, <2>8, MapStocked
    <2> QED BY <2>6, <2>7, <2>9, <2>10, <2>11
  <1>3. PICK I : I = [n \in 0..NCPU |-> {u \in MemType(N) : Stocked(u)}]
    OBVIOUS
  <1>4. ASSUME NEW u, NEW n \in 0..NCPU
        PROVE  u \in I[n] <=> Good(u)
    BY <1>3
  <1>5. Good(mem)
    OBVIOUS
  <1> HIDE DEF Map1, Good
  <1>6. \E g : g = F(g)
    <2>1. PICK f : f = [n \in 1..NCPU |-> [u \in MemType(N) |-> Map1(u, n - 1)]]
      OBVIOUS
    <2>2. mem \in I[0]
      BY <1>1, <1>4, <1>5
    <2>3. ASSUME NEW n \in 0..(NCPU - 1), NEW u \in I[n]
          PROVE  f[n + 1][u] \in I[n + 1]
      <3>1. n + 1 \in 1..NCPU /\ n \in 0..NCPU /\ n + 1 \in 0..NCPU /\ (n + 1) - 1 = n
        BY <1>1
      <3>2. Good(u) /\ u \in MemType(N)
        BY <1>4, <3>1 DEF Good
      <3>3. f[n + 1][u] = Map1(u, n)
        BY <2>1, <3>1, <3>2
      <3> QED BY <1>2, <1>4, <3>1, <3>2, <3>3
    <2>4. PICK g : IsLoop(g, NCPU, mem, f) /\ \A n \in 0..NCPU : g[n] \in I[n]
      <3>1. \A n \in 0..(NCPU - 1) : \A u \in I[n] : f[n + 1][u] \in I[n + 1]
        BY <2>3
      <3> QED BY ONLY <1>1, <2>2, <3>1, LoopExists
    <2>5. ASSUME NEW n \in 0..NCPU
          PROVE  (IF n = 0 THEN mem ELSE f[n][g[n - 1]])
                   = (IF n = 0 THEN mem ELSE Map1(g[n - 1], n - 1))
      <3>1. CASE n # 0
        <4>1. n \in 1..NCPU /\ n - 1 \in 0..NCPU
          BY <1>1, <3>1
        <4>2. g[n - 1] \in MemType(N)
          BY <1>4, <2>4, <4>1 DEF Good
        <4> QED BY <2>1, <4>1, <4>2
      <3> QED BY <3>1
    <2>6. g = F(g)
      BY <2>4, <2>5 DEF IsLoop
    <2> QED BY <2>6
  <1>7. PICK m : m = CHOOSE g : g = F(g)
    OBVIOUS
  <1>8. m = F(m)
    BY <1>6, <1>7
  <1>9. \A n \in 0..NCPU : m[n] \in I[n]
    <2>1. m[0] \in I[0]
      BY <1>1, <1>4, <1>5, <1>8
    <2>2. ASSUME NEW n \in 0..(NCPU - 1), m[n] \in I[n]
          PROVE  m[n + 1] \in I[n + 1]
      <3>1. n + 1 \in 0..NCPU /\ n + 1 # 0 /\ (n + 1) - 1 = n /\ n \in 0..NCPU
        BY <1>1
      <3>2. m[n + 1] = Map1(m[n], n)
        BY <1>8, <3>1
      <3> QED BY <1>2, <1>4, <2>2, <3>1, <3>2
    <2> QED BY ONLY <1>1, <2>1, <2>2, LoopInvariant
  <1>10. mem' = m[NCPU]
    BY <1>7 DEF mem_init_mp, Checks, Map1
  <1>11. NCPU \in 0..NCPU
    BY <1>1
  <1> QED BY <1>4, <1>9, <1>10, <1>11 DEF Good

-----------------------------------------------------------------------------
(* The free list *)

(* Each page is put in front of the list, or not (page_init()). *)
LEMMA FreePagesLists ==
    ASSUME npages \in Nat
    PROVE  /\ FreePages \in Seq(Int)
           /\ \A i \in 0..npages - 1 :
                 ~InUse(i) => \E k \in 1..Len(FreePages) : FreePages[k] = i
  <1> DEFINE Put(l, n) == IF InUse(n - 1) THEN l ELSE <<n - 1>> \o l
             F(g) == [n \in 0..npages |-> IF n = 0 THEN <<>> ELSE Put(g[n - 1], n)]
             Lists(l, n) == \A i \in 0..n - 1 : ~InUse(i) => \E k \in 1..Len(l) : l[k] = i
             Good(l, n) == l \in Seq(Int) /\ Lists(l, n)
  <1>1. ASSUME NEW n \in 0..npages - 1, NEW l, Good(l, n)
        PROVE  Good(Put(l, n + 1), n + 1)
    <2>1. n \in Nat /\ n \in Int /\ (n + 1) - 1 = n
      OBVIOUS
    <2>2. CASE InUse(n)
      <3>1. Put(l, n + 1) = l
        BY <2>1, <2>2
      <3>2. \A i \in 0..(n + 1) - 1 : ~InUse(i) => i \in 0..n - 1
        BY <2>1, <2>2
      <3> QED BY <1>1, <3>1, <3>2
    <2>3. CASE ~InUse(n)
      <3>1. PICK one \in Seq(Int) : one = <<n>>
        BY <2>1, OneElement
      <3>2. Len(one) = 1 /\ one[1] = n /\ Len(l) \in Nat
        BY <1>1, <3>1, LenProperties
      <3>3. PICK j : j = one \o l
        OBVIOUS
      <3>4. /\ j \in Seq(Int) /\ Len(j) = 1 + Len(l)
            /\ \A k \in 1..1 + Len(l) : j[k] = IF k <= 1 THEN one[k] ELSE l[k - 1]
        <4>1. l \in Seq(Int)
          BY <1>1
        <4>2. /\ one \o l \in Seq(Int) /\ Len(one \o l) = Len(one) + Len(l)
              /\ \A k \in 1..Len(one) + Len(l) :
                    (one \o l)[k] = IF k <= Len(one) THEN one[k] ELSE l[k - Len(one)]
          BY ONLY one \in Seq(Int), <4>1, ConcatProperties
        <4> QED BY <3>2, <3>3, <4>2
      <3>5. Put(l, n + 1) = j
        BY <2>1, <2>3, <3>1, <3>3
      <3>6. ASSUME NEW i \in 0..(n + 1) - 1, ~InUse(i)
            PROVE  \E k \in 1..Len(j) : j[k] = i
        <4>1. CASE i = n
          <5>1. 1 \in 1..Len(j) /\ j[1] = n
            BY <3>2, <3>4
          <5> QED BY <4>1, <5>1
        <4>2. CASE i # n
          <5>1. i \in 0..n - 1
            BY <2>1, <4>2
          <5>2. PICK k \in 1..Len(l) : l[k] = i
            BY <1>1, <3>6, <5>1
          <5>3. k + 1 \in 1..Len(j) /\ k + 1 \in 1..1 + Len(l) /\ ~(k + 1 <= 1) /\ (k + 1) - 1 = k
            BY <3>2, <3>4
          <5>4. j[k + 1] = i
            BY <3>4, <5>2, <5>3
          <5> QED BY <5>3, <5>4
        <4> QED BY <4>1, <4>2
      <3> QED BY <3>4, <3>5, <3>6
    <2> QED BY <2>2, <2>3
  <1>2. Good(<<>>, 0)
    BY EmptySeq
  <1>3. PICK I : I = [n \in 0..npages |-> {l \in Seq(Int) : Lists(l, n)}]
    OBVIOUS
  <1>4. ASSUME NEW l, NEW n \in 0..npages
        PROVE  l \in I[n] <=> Good(l, n)
    BY <1>3
  <1>5. ASSUME NEW l, NEW n, Good(l, n) PROVE l \in Seq(Int)
    BY <1>5
  <1> HIDE DEF Put, Good
  <1>6. \E g : g = F(g)
    <2>1. PICK f : f = [n \in 1..npages |-> [l \in Seq(Int) |-> Put(l, n)]]
      OBVIOUS
    <2>2. <<>> \in I[0]
      BY <1>2, <1>4
    <2>3. ASSUME NEW n \in 0..(npages - 1), NEW l \in I[n]
          PROVE  f[n + 1][l] \in I[n + 1]
      <3>1. n + 1 \in 1..npages /\ n \in 0..npages /\ n + 1 \in 0..npages
        OBVIOUS
      <3>2. Good(l, n) /\ l \in Seq(Int)
        BY <1>4, <1>5, <3>1
      <3>3. f[n + 1][l] = Put(l, n + 1)
        BY <2>1, <3>1, <3>2
      <3> QED BY <1>1, <1>4, <3>1, <3>2, <3>3
    <2>4. PICK g : IsLoop(g, npages, <<>>, f) /\ \A n \in 0..npages : g[n] \in I[n]
      <3>1. \A n \in 0..(npages - 1) : \A l \in I[n] : f[n + 1][l] \in I[n + 1]
        BY <2>3
      <3>2. npages \in Nat
        OBVIOUS
      <3> QED BY ONLY <2>2, <3>1, <3>2, LoopExists
    <2>5. ASSUME NEW n \in 0..npages
          PROVE  (IF n = 0 THEN <<>> ELSE f[n][g[n - 1]]) = (IF n = 0 THEN <<>> ELSE Put(g[n - 1], n))
      <3>1. CASE n # 0
        <4>1. n \in 1..npages /\ n - 1 \in 0..npages
          BY <3>1
        <4>2. g[n - 1] \in Seq(Int)
          BY <1>4, <1>5, <2>4, <4>1
        <4> QED BY <2>1, <4>1, <4>2
      <3> QED BY <3>1
    <2>6. g = F(g)
      BY <2>4, <2>5 DEF IsLoop
    <2> QED BY <2>6
  <1>7. PICK m : m = CHOOSE g : g = F(g)
    OBVIOUS
  <1>8. m = F(m)
    BY <1>6, <1>7
  <1>9. \A n \in 0..npages : m[n] \in I[n]
    <2>1. m[0] \in I[0]
      BY <1>2, <1>4, <1>8
    <2>2. ASSUME NEW n \in 0..(npages - 1), m[n] \in I[n]
          PROVE  m[n + 1] \in I[n + 1]
      <3>1. n + 1 \in 0..npages /\ n + 1 # 0 /\ (n + 1) - 1 = n /\ n \in 0..npages
        OBVIOUS
      <3>2. m[n + 1] = Put(m[n], n + 1)
        BY <1>8, <3>1
      <3> QED BY <1>1, <1>4, <2>2, <3>1, <3>2
    <2>3. npages \in Nat
      OBVIOUS
    <2> QED BY ONLY <2>1, <2>2, <2>3, LoopInvariant
  <1>10. FreePages = m[npages]
    BY <1>7 DEF FreePages, Put
  <1>11. Good(m[npages], npages)
    BY <1>4, <1>9
  <1> QED BY <1>10, <1>11 DEF Good

(* check_page_free_list() keeps the pages on either side of the limit. *)
LEMMA KeptLists ==
    ASSUME NEW list \in Seq(Int), NEW low \in BOOLEAN
    PROVE  /\ Kept(list, low) \in Seq(Int)
           /\ \A k \in 1..Len(Kept(list, low)) : IsLow(Kept(list, low)[k]) = low
           /\ \A i \in 1..Len(list) :
                 IsLow(list[i]) = low =>
                     \E k \in 1..Len(Kept(list, low)) : Kept(list, low)[k] = list[i]
  <1>1. PICK M \in Nat : M = Len(list)
    BY LenProperties
  <1>2. \A n \in 1..M : list[n] \in Int
    BY <1>1, ElementOfSeq
  <1> DEFINE Put(l, n) == IF IsLow(list[n]) = low THEN Append(l, list[n]) ELSE l
             F(g) == [n \in 0..M |-> IF n = 0 THEN <<>> ELSE Put(g[n - 1], n)]
             Lists(l, n) == /\ \A k \in 1..Len(l) : IsLow(l[k]) = low
                            /\ \A i \in 1..n : IsLow(list[i]) = low
                                                 => \E k \in 1..Len(l) : l[k] = list[i]
             Good(l, n) == l \in Seq(Int) /\ Lists(l, n)
  <1>3. ASSUME NEW n \in 0..M - 1, NEW l, Good(l, n)
        PROVE  Good(Put(l, n + 1), n + 1)
    <2>1. PICK x \in Int : x = list[n + 1]
      <3>1. n + 1 \in 1..M
        OBVIOUS
      <3> QED BY <1>2, <3>1
    <2>2. CASE IsLow(x) # low
      <3>1. Put(l, n + 1) = l
        BY <2>1, <2>2
      <3>2. \A i \in 1..n + 1 : IsLow(list[i]) = low => i \in 1..n
        <4>1. \A i \in 1..n + 1 : i = n + 1 \/ i \in 1..n
          OBVIOUS
        <4> QED BY <2>1, <2>2, <4>1
      <3> QED BY <1>3, <3>1, <3>2
    <2>3. CASE IsLow(x) = low
      <3>1. PICK j : j = Append(l, x)
        OBVIOUS
      <3>2. l \in Seq(Int) /\ Len(l) \in Nat
        BY <1>3, LenProperties
      <3>3. /\ j \in Seq(Int) /\ Len(j) = Len(l) + 1 /\ j[Len(l) + 1] = x
            /\ \A k \in 1..Len(l) : j[k] = l[k]
        BY ONLY x \in Int, <3>1, <3>2, AppendProperties
      <3>4. Put(l, n + 1) = j
        BY <2>1, <2>3, <3>1
      <3>5. \A k \in 1..Len(j) : IsLow(j[k]) = low
        <4>1. \A k \in 1..Len(j) : k = Len(l) + 1 \/ k \in 1..Len(l)
          BY <3>2, <3>3
        <4> QED BY <1>3, <2>3, <3>3, <4>1
      <3>6. ASSUME NEW i \in 1..n + 1, IsLow(list[i]) = low
            PROVE  \E k \in 1..Len(j) : j[k] = list[i]
        <4>1. CASE i = n + 1
          <5>1. Len(l) + 1 \in 1..Len(j)
            BY <3>2, <3>3
          <5> QED BY <2>1, <3>3, <4>1, <5>1
        <4>2. CASE i # n + 1
          <5>1. i \in 1..n
            BY <4>2
          <5>2. PICK k \in 1..Len(l) : l[k] = list[i]
            BY <1>3, <3>6, <5>1
          <5>3. k \in 1..Len(j)
            BY <3>2, <3>3
          <5> QED BY <3>3, <5>2, <5>3
        <4> QED BY <4>1, <4>2
      <3> QED BY <3>3, <3>4, <3>5, <3>6
    <2> QED BY <2>2, <2>3
  <1>4. Good(<<>>, 0)
    BY EmptySeq
  <1>5. PICK I : I = [n \in 0..M |-> {l \in Seq(Int) : Lists(l, n)}]
    OBVIOUS
  <1>6. ASSUME NEW l, NEW n \in 0..M
        PROVE  l \in I[n] <=> Good(l, n)
    BY <1>5
  <1>7. ASSUME NEW l, NEW n, Good(l, n) PROVE l \in Seq(Int)
    BY <1>7
  <1> HIDE DEF Put, Good
  <1>8. \E g : g = F(g)
    <2>1. PICK f : f = [n \in 1..M |-> [l \in Seq(Int) |-> Put(l, n)]]
      OBVIOUS
    <2>2. <<>> \in I[0]
      BY <1>4, <1>6
    <2>3. ASSUME NEW n \in 0..(M - 1), NEW l \in I[n]
          PROVE  f[n + 1][l] \in I[n + 1]
      <3>1. n + 1 \in 1..M /\ n \in 0..M /\ n + 1 \in 0..M
        OBVIOUS
      <3>2. Good(l, n) /\ l \in Seq(Int)
        BY <1>6, <1>7, <3>1
      <3>3. f[n + 1][l] = Put(l, n + 1)
        BY <2>1, <3>1, <3>2
      <3> QED BY <1>3, <1>6, <3>1, <3>2, <3>3
    <2>4. PICK g : IsLoop(g, M, <<>>, f) /\ \A n \in 0..M : g[n] \in I[n]
      <3>1. \A n \in 0..(M - 1) : \A l \in I[n] : f[n + 1][l] \in I[n + 1]
        BY <2>3
      <3> QED BY ONLY M \in Nat, <2>2, <3>1, LoopExists
    <2>5. ASSUME NEW n \in 0..M
          PROVE  (IF n = 0 THEN <<>> ELSE f[n][g[n - 1]]) = (IF n = 0 THEN <<>> ELSE Put(g[n - 1], n))
      <3>1. CASE n # 0
        <4>1. n \in 1..M /\ n - 1 \in 0..M
          BY <3>1
        <4>2. g[n - 1] \in Seq(Int)
          BY <1>6, <1>7, <2>4, <4>1
        <4> QED BY <2>1, <4>1, <4>2
      <3> QED BY <3>1
    <2>6. g = F(g)
      BY <2>4, <2>5 DEF IsLoop
    <2> QED BY <2>6
  <1>9. PICK m : m = CHOOSE g : g = F(g)
    OBVIOUS
  <1>10. m = F(m)
    BY <1>8, <1>9
  <1>11. \A n \in 0..M : m[n] \in I[n]
    <2>1. m[0] \in I[0]
      BY <1>4, <1>6, <1>10
    <2>2. ASSUME NEW n \in 0..(M - 1), m[n] \in I[n]
          PROVE  m[n + 1] \in I[n + 1]
      <3>1. n + 1 \in 0..M /\ n + 1 # 0 /\ (n + 1) - 1 = n /\ n \in 0..M
        OBVIOUS
      <3>2. m[n + 1] = Put(m[n], n + 1)
        BY <1>10, <3>1
      <3> QED BY <1>3, <1>6, <2>2, <3>1, <3>2
    <2> QED BY ONLY M \in Nat, <2>1, <2>2, LoopInvariant
  <1>12. Kept(list, low) = m[M]
    BY <1>1, <1>9 DEF Kept, Put
  <1>13. Good(m[M], M)
    BY <1>6, <1>11
  <1> QED BY <1>1, <1>12, <1>13 DEF Good

(* With the low pages in front, there is one for each that was on the list. *)
LEMMA LowFirstStock ==
    ASSUME NEW list \in Seq(Int), NEW S, NEW k \in Nat, IsFiniteSet(S), k <= Cardinality(S),
           \A x \in S : IsLow(x) /\ \E i \in 1..Len(list) : list[i] = x
    PROVE  LowFirst(list) \in Seq(Int) /\ LowStock(LowFirst(list), k)
  <1>1. PICK low \in Seq(Int) : low = Kept(list, TRUE)
    BY KeptLists
  <1>2. PICK high \in Seq(Int) : high = Kept(list, FALSE)
    BY KeptLists
  <1>3. /\ \A i \in 1..Len(low) : IsLow(low[i])
        /\ \A i \in 1..Len(list) : IsLow(list[i]) => \E j \in 1..Len(low) : low[j] = list[i]
    <2>1. /\ \A i \in 1..Len(low) : IsLow(low[i]) = TRUE
          /\ \A i \in 1..Len(list) : IsLow(list[i]) = TRUE => \E j \in 1..Len(low) : low[j] = list[i]
      <3>1. PICK b \in BOOLEAN : b = TRUE
        OBVIOUS
      <3>2. /\ \A i \in 1..Len(Kept(list, b)) : IsLow(Kept(list, b)[i]) = b
            /\ \A i \in 1..Len(list) : IsLow(list[i]) = b
                   => \E j \in 1..Len(Kept(list, b)) : Kept(list, b)[j] = list[i]
        BY ONLY list \in Seq(Int), b \in BOOLEAN, KeptLists
      <3> QED BY ONLY <1>1, <3>1, <3>2, Zenon
    <2> QED BY <2>1
  <1>4. PICK n \in Nat : n = Len(low)
    BY LenProperties
  <1>5. Cardinality(S) <= n
    <2>1. PICK T : T = {low[j] : j \in 1..n}
      OBVIOUS
    <2>2. PICK f : f = [j \in 1..n |-> low[j]]
      OBVIOUS
    <2>3. f \in Surjection(1..n, T)
      BY <2>1, <2>2 DEF Surjection
    <2>4. IsFiniteSet(1..n) /\ Cardinality(1..n) = n
      <3>1. 1 \in Int /\ n \in Int
        OBVIOUS
      <3>2. IsFiniteSet(1..n) /\ Cardinality(1..n) = IF 1 > n THEN 0 ELSE n - 1 + 1
        BY ONLY <3>1, FS_Interval
      <3> QED BY <3>2
    <2>5. IsFiniteSet(T) /\ Cardinality(T) <= n
      <3>1. PICK D : D = 1..n
        OBVIOUS
      <3>2. f \in Surjection(D, T) /\ IsFiniteSet(D)
        BY ONLY <2>3, <2>4, <3>1
      <3>3. IsFiniteSet(T) /\ Cardinality(T) <= Cardinality(D)
        BY ONLY <3>2, FS_Surjection
      <3> QED BY ONLY <2>4, <3>1, <3>3
    <2>6. S \in SUBSET T
      BY <1>3, <1>4, <2>1
    <2>7. Cardinality(S) <= Cardinality(T)
      BY ONLY <2>5, <2>6, FS_Subset
    <2>8. Cardinality(S) \in Nat /\ Cardinality(T) \in Nat
      BY <2>5, FS_CardinalityType
    <2> QED BY <2>5, <2>7, <2>8
  <1>6. Cardinality(S) \in Nat
    BY FS_CardinalityType
  <1>7. k <= n
    BY <1>5, <1>6
  <1>8. PICK all : all = low \o high
    OBVIOUS
  <1>9. /\ all \in Seq(Int) /\ Len(all) = Len(low) + Len(high)
        /\ \A i \in 1..Len(low) + Len(high) : all[i] = IF i <= Len(low) THEN low[i] ELSE high[i - Len(low)]
    BY ONLY low \in Seq(Int), high \in Seq(Int), <1>8, ConcatProperties
  <1>10. Len(high) \in Nat
    BY LenProperties
  <1>11. k <= Len(all)
    BY <1>4, <1>7, <1>9, <1>10
  <1>12. ASSUME NEW i \in 1..k PROVE all[i] \in entry_pgtable
    <2>1. i \in 1..Len(low) /\ i \in 1..Len(low) + Len(high) /\ i <= Len(low)
      BY <1>4, <1>7, <1>10
    <2> QED BY <1>3, <1>9, <2>1 DEF IsLow
  <1>13. LowFirst(list) = all
    BY <1>1, <1>2, <1>8 DEF LowFirst
  <1> QED BY <1>9, <1>11, <1>12, <1>13 DEF LowStock

-----------------------------------------------------------------------------
(* The checks put the list aside and back. *)

(* The same page tables. *)
Tables(s, t) == t.base = s.base /\ t.dir["kern"].table = s.dir["kern"].table

LEMMA Relisted ==
    ASSUME NEW N \in Nat, NEW s \in MemType(N), NEW l \in Seq(Int)
    PROVE  /\ [s EXCEPT !.free = l] \in MemType(N) /\ Same(s, [s EXCEPT !.free = l])
           /\ [s EXCEPT !.free = l].free = l
  <1>1. PICK t : t = [s EXCEPT !.free = l]
    OBVIOUS
  <1>2. t \in MemType(N)
    BY ONLY s \in MemType(N), l \in Seq(Int), <1>1 DEF MemType
  <1>3. t.free = l /\ t.touched = s.touched /\ t.base = s.base /\ t.dir = s.dir
    BY ONLY s \in MemType(N), <1>1 DEF MemType
  <1> QED BY <1>1, <1>2, <1>3 DEF Same

LEMMA WrittenTo ==
    ASSUME Bootable, NEW N \in Nat, NEW s \in MemType(N), NEW X \in SUBSET entry_pgtable,
           s.touched \subseteq entry_pgtable
    PROVE  /\ [s EXCEPT !.touched = s.touched \cup X] \in MemType(N)
           /\ [s EXCEPT !.touched = s.touched \cup X].free = s.free
           /\ [s EXCEPT !.touched = s.touched \cup X].touched \subseteq entry_pgtable
           /\ Tables(s, [s EXCEPT !.touched = s.touched \cup X])
  <1>1. PICK touched \in SUBSET Int : touched = s.touched \cup X
    <2>1. s.touched \in SUBSET Int
      BY ONLY s \in MemType(N) DEF MemType
    <2> QED BY <2>1, LowIsPage
  <1>2. PICK t : t = [s EXCEPT !.touched = touched]
    OBVIOUS
  <1>3. t \in MemType(N)
    BY ONLY s \in MemType(N), touched \in SUBSET Int, <1>2 DEF MemType
  <1>4. t.free = s.free /\ t.touched = touched /\ t.base = s.base /\ t.dir = s.dir
    BY ONLY s \in MemType(N), <1>2 DEF MemType
  <1> QED BY <1>1, <1>2, <1>3, <1>4 DEF Tables

LEMMA InFront ==
    ASSUME NEW p \in Int, NEW l \in Seq(Int), NEW j, j = <<p>> \o l
    PROVE  /\ j \in Seq(Int) /\ Len(j) = Len(l) + 1 /\ j[1] = p
           /\ \A k \in 1..Len(l) : j[k + 1] = l[k]
  <1>1. PICK one \in Seq(Int) : one = <<p>>
    BY OneElement
  <1>2. Len(one) = 1 /\ one[1] = p /\ Len(l) \in Nat
    BY <1>1, LenProperties
  <1>3. /\ one \o l \in Seq(Int) /\ Len(one \o l) = Len(one) + Len(l)
        /\ \A k \in 1..Len(one) + Len(l) :
              (one \o l)[k] = IF k <= Len(one) THEN one[k] ELSE l[k - Len(one)]
    BY ONLY one \in Seq(Int), l \in Seq(Int), ConcatProperties
  <1>4. j = one \o l
    BY <1>1
  <1>5. \A k \in 1..1 + Len(l) : j[k] = IF k <= 1 THEN one[k] ELSE l[k - 1]
    BY <1>2, <1>3, <1>4
  <1>6. 1 \in 1..1 + Len(l) /\ \A k \in 1..Len(l) : /\ k + 1 \in 1..1 + Len(l) /\ ~(k + 1 <= 1)
                                                    /\ (k + 1) - 1 = k
    BY <1>2
  <1> QED BY <1>2, <1>3, <1>4, <1>5, <1>6

(* Three pages are in front of the list, the last one first. *)
LEMMA FreeThreeList ==
    ASSUME NEW N \in Nat, NEW s \in MemType(N), NEW list,
           list[1] \in Int, list[2] \in Int, list[3] \in Int,
           NEW t, t = FreeThree(s, list)
    PROVE  /\ t \in MemType(N) /\ Same(s, t) /\ Len(t.free) = Len(s.free) + 3
           /\ t.free[1] = list[3] /\ t.free[2] = list[2] /\ t.free[3] = list[1]
           /\ \A k \in 1..Len(s.free) : t.free[k + 3] = s.free[k]
  <1>1. PICK a \in MemType(N) : a = page_free(s, list[1]) /\ Same(s, a) /\ a.free = <<list[1]>> \o s.free
    BY FreeSame
  <1>2. PICK b \in MemType(N) : b = page_free(a, list[2]) /\ Same(a, b) /\ b.free = <<list[2]>> \o a.free
    BY FreeSame
  <1>3. PICK c \in MemType(N) : c = page_free(b, list[3]) /\ Same(b, c) /\ c.free = <<list[3]>> \o b.free
    BY FreeSame
  <1>4. t = c
    BY <1>1, <1>2, <1>3 DEF FreeThree
  <1>5. s.free \in Seq(Int) /\ a.free \in Seq(Int) /\ b.free \in Seq(Int)
    <2>1. s.free \in Seq(Int)
      BY ONLY s \in MemType(N) DEF MemType
    <2>2. a.free \in Seq(Int)
      BY ONLY a \in MemType(N) DEF MemType
    <2>3. b.free \in Seq(Int)
      BY ONLY b \in MemType(N) DEF MemType
    <2> QED BY <2>1, <2>2, <2>3
  <1>6. PICK n \in Nat : n = Len(s.free)
    BY <1>5, LenProperties
  <1>7. Len(a.free) = n + 1 /\ a.free[1] = list[1] /\ \A k \in 1..n : a.free[k + 1] = s.free[k]
    BY <1>1, <1>5, <1>6, InFront
  <1>8. Len(b.free) = (n + 1) + 1 /\ b.free[1] = list[2] /\ \A k \in 1..n + 1 : b.free[k + 1] = a.free[k]
    BY <1>2, <1>5, <1>7, InFront
  <1>9. /\ Len(c.free) = ((n + 1) + 1) + 1 /\ c.free[1] = list[3]
        /\ \A k \in 1..(n + 1) + 1 : c.free[k + 1] = b.free[k]
    BY <1>3, <1>5, <1>8, InFront
  <1>10. 1 \in 1..n + 1 /\ 1 \in 1..(n + 1) + 1 /\ 2 \in 1..(n + 1) + 1 /\ 1 + 1 = 2 /\ 2 + 1 = 3
    OBVIOUS
  <1>11. c.free[2] = list[2] /\ c.free[3] = list[1]
    <2>1. b.free[2] = list[1]
      BY <1>7, <1>8, <1>10
    <2> QED BY <1>8, <1>9, <1>10, <2>1
  <1>12. ASSUME NEW k \in 1..n PROVE c.free[k + 3] = s.free[k]
    <2>1. /\ k + 1 \in 1..n + 1 /\ k + 2 \in 1..(n + 1) + 1 /\ (k + 1) + 1 = k + 2
          /\ (k + 2) + 1 = k + 3
      OBVIOUS
    <2>2. a.free[k + 1] = s.free[k]
      BY <1>7
    <2>3. b.free[k + 2] = a.free[k + 1]
      BY <1>8, <2>1
    <2>4. c.free[k + 3] = b.free[k + 2]
      BY <1>9, <2>1
    <2> QED BY <2>2, <2>3, <2>4
  <1>13. Len(c.free) = n + 3
    BY <1>9
  <1>14. Same(s, c)
    BY <1>1, <1>2, <1>3, SameTrans
  <1> QED BY <1>4, <1>6, <1>9, <1>11, <1>12, <1>13, <1>14

(* The first three pages are taken from a list and freed, in any order. *)
LEMMA ThreeBack ==
    ASSUME NEW k \in Nat, k > 3, NEW list \in Seq(Int), LowStock(list, k),
           NEW l \in Seq(Int), Len(l) = Len(list), \A n \in 1..3 : l[n] \in entry_pgtable,
           \A n \in 4..Len(list) : l[n] = list[n]
    PROVE  LowStock(l, k)
  <1>1. Len(list) \in Nat
    BY LenProperties
  <1>2. ASSUME NEW n \in 1..k PROVE l[n] \in entry_pgtable
    <2>1. n \in 1..3 \/ n \in 4..Len(list)
      BY <1>1 DEF LowStock
    <2> QED BY <2>1 DEF LowStock
  <1> QED BY <1>1, <1>2 DEF LowStock

-----------------------------------------------------------------------------
(* The invariant, while the entry code's page table is in force. *)

Aside == {"insert", "second", "again", "user", "fewer", "replace", "remove", "insert0", "remove1",
          "take0", "walk1", "walk0", "give"}
TableIn == {"second", "again", "user", "fewer", "replace", "remove", "insert0", "remove1", "take0"}
Preparing == {"pgdir", "pages", "envs", "page_init", "free_low", "check_alloc", "check_page"} \cup Aside
Mapping == {"mmio1", "mmio2", "mmio3", "map_pages", "map_envs", "map_stack", "map_kern",
            "mem_init_mp", "check_kern", "lcr3"}

OnMachine ==
    /\ \E m \in Machines : npages = DetectedPages(m) /\ npages_basemem = m[1]
    /\ end \in KernelEnds
    /\ pages \in Int /\ envs \in Int

(* boot_alloc() is behind what it has given out. *)
ArraysAt ==
    /\ pc = "pgdir" => nextfree = ROUNDUP(end)
    /\ pc = "pages" => nextfree = ROUNDUP(ROUNDUP(end) + PGSIZE)
    /\ pc = "envs" => nextfree = ROUNDUP(ROUNDUP(ROUNDUP(end) + PGSIZE) + npages * PAGEINFO)
    /\ pc = "page_init" => nextfree = ArraysEnd(end, npages)

LowFree == {i \in entry_pgtable :
               i < npages /\ ~InUseBelow(i, npages_basemem, ArraysEnd(end, npages))}

(* There are low pages, on the list or put aside. *)
ListAt ==
    /\ pc = "free_low" => \A i \in LowFree : \E k \in 1..Len(mem.free) : mem.free[k] = i
    /\ pc \in {"check_alloc", "check_page"} => LowStock(mem.free, KERNTABLES + 4)
    /\ pc \in Aside => fl \in Seq(Int) /\ LowStock(fl, KERNTABLES + 4)
    /\ pc \in Mapping => LowStock(mem.free, Cardinality(Missing(mem)))

TablesAt ==
    /\ pc \in Preparing \ {"pgdir"} => mem.dir["kern"].table[PDX(UVPT)] # NONE
    /\ pc \in TableIn => mem.dir["kern"].table[0] # NONE
    /\ pc \in Preparing \cup {"mmio1"} => mem.base = MMIOBASE
    /\ pc = "mmio2" => mem.base = MMIOBASE + ROUNDUP(PGSIZE + 1)

Early ==
    /\ pc \in Preparing \cup Mapping
    /\ OnMachine
    /\ mem \in MemType(npages)
    /\ mem.touched \subseteq entry_pgtable
    /\ ArraysAt /\ ListAt /\ TablesAt

LEMMA MachineFits ==
    ASSUME Bootable, OnMachine
    PROVE  /\ npages \in Nat /\ npages_basemem \in Nat /\ end \in Nat
           /\ ArraysEnd(end, npages) <= PTSIZE
           /\ Cardinality(LowFree) >= KERNTABLES + 4
  <1>1. PICK m \in Machines : npages = DetectedPages(m) /\ npages_basemem = m[1]
    BY DEF OnMachine
  <1>2. m[1] \in Nat /\ m[2] \in Nat
    <2>1. m \in Nat \X Nat
      BY Numbers
    <2> QED BY <2>1
  <1>3. end \in KernelEnds /\ end \in Nat
    BY Numbers DEF OnMachine
  <1>4. DetectedPages(m) \in Nat
    <2>1. EXTPHYSMEM \div PGSIZE \in Nat
      BY Numbers, DivMod
    <2> QED BY <1>2, <2>1 DEF DetectedPages
  <1>5. /\ ArraysEnd(end, npages) <= PTSIZE
        /\ Cardinality({i \in entry_pgtable :
                           i < npages /\ ~InUseBelow(i, m[1], ArraysEnd(end, npages))})
               >= KERNTABLES + 4
    <2>1. MachinesAssumption
      BY DEF Bootable
    <2>2. PICK kernel \in KernelEnds : kernel = end
      BY <1>3
    <2>3. PICK top : top = ArraysEnd(kernel, DetectedPages(m))
      OBVIOUS
    <2>4. PICK S : S = {i \in entry_pgtable : i < DetectedPages(m) /\ ~InUseBelow(i, m[1], top)}
      OBVIOUS
    <2>5. top <= PTSIZE /\ Cardinality(S) >= KERNTABLES + 4
      BY ONLY <2>1, <2>3, <2>4, m \in Machines, kernel \in KernelEnds DEF MachinesAssumption
    <2> QED BY <1>1, <2>2, <2>3, <2>4, <2>5
  <1> QED BY <1>1, <1>2, <1>3, <1>4, <1>5 DEF LowFree

LEMMA ArraysFit ==
    ASSUME Bootable, OnMachine
    PROVE  \E a, b, c, d, n \in Nat :
              /\ a = ROUNDUP(end) /\ b = ROUNDUP(a + PGSIZE) /\ n = npages * PAGEINFO
              /\ c = ROUNDUP(b + n) /\ d = ROUNDUP(c + ENVS) /\ d = ArraysEnd(end, npages)
              /\ a < b /\ b + n <= c /\ c <= d /\ d <= PTSIZE
  <1>1. npages \in Nat /\ end \in Nat /\ ArraysEnd(end, npages) <= PTSIZE
    BY MachineFits
  <1>2. PGSIZE \in Nat /\ PGSIZE > 0 /\ ENVS \in Nat /\ PAGEINFO \in Nat
    BY Numbers
  <1>3. PICK n \in Nat : n = npages * PAGEINFO
    <2>1. npages * PAGEINFO \in Nat
      BY ONLY <1>1, <1>2
    <2> QED BY <2>1
  <1>4. PICK a \in Nat : a = ROUNDUP(end)
    BY <1>1, Rounding
  <1>5. PICK b \in Nat : b = ROUNDUP(a + PGSIZE) /\ a + PGSIZE <= b
    <2>1. a + PGSIZE \in Nat
      BY <1>2
    <2> QED BY <2>1, Rounding
  <1>6. PICK c \in Nat : c = ROUNDUP(b + n) /\ b + n <= c
    <2>1. b + n \in Nat
      OBVIOUS
    <2> QED BY <2>1, Rounding
  <1>7. PICK d \in Nat : d = ROUNDUP(c + ENVS) /\ c + ENVS <= d
    <2>1. c + ENVS \in Nat
      BY <1>2
    <2> QED BY <2>1, Rounding
  <1>8. d = ArraysEnd(end, npages)
    BY <1>3, <1>4, <1>5, <1>6, <1>7 DEF ArraysEnd
  <1>9. a < b /\ c <= d
    BY <1>2, <1>5, <1>7
  <1> QED BY <1>1, <1>3, <1>4, <1>5, <1>6, <1>7, <1>8, <1>9

(* What lies below PTSIZE is mapped by the entry code. *)
LEMMA LowPage ==
    ASSUME Bootable, NEW x \in Nat, x < PTSIZE
    PROVE  PGNUM(x) \in entry_pgtable
  <1>1. PGSIZE \in Nat /\ PGSIZE > 0 /\ NPTENTRIES \in Nat
    BY Numbers
  <1>2. 0 * PGSIZE <= x /\ x < NPTENTRIES * PGSIZE /\ 0 \in Nat
    BY <1>1 DEF PTSIZE
  <1>3. x \div PGSIZE \in 0..NPTENTRIES - 1
    BY ONLY <1>1, <1>2, x \in Nat, DivBounds
  <1> QED BY <1>3 DEF PGNUM, entry_pgtable

LEMMA LowSpan ==
    ASSUME Bootable, NEW a \in Nat, NEW n \in Nat, ROUNDUP(a + n) <= PTSIZE
    PROVE  Span(a, n) \subseteq entry_pgtable
  <1>1. PGSIZE \in Nat /\ PGSIZE > 0 /\ NPTENTRIES \in Nat
    BY Numbers
  <1>2. PICK M \in Nat : M = PGNUM(ROUNDUP(a + n)) /\ ROUNDUP(a + n) = M * PGSIZE
    <2>1. a + n \in Nat
      OBVIOUS
    <2> QED BY <2>1, Rounding
  <1>3. M <= NPTENTRIES
    <2> SUFFICES ASSUME M > NPTENTRIES PROVE FALSE
      BY <1>1
    <2>1. PICK d \in Nat : M = NPTENTRIES + 1 + d
      <3>1. M - NPTENTRIES - 1 \in Nat /\ M = NPTENTRIES + 1 + (M - NPTENTRIES - 1)
        BY <1>1
      <3> QED BY <3>1
    <2>2. M * PGSIZE = NPTENTRIES * PGSIZE + PGSIZE + d * PGSIZE /\ d * PGSIZE \in Nat
      BY <1>1, <2>1
    <2>3. PICK u \in Int, v \in Nat : u = NPTENTRIES * PGSIZE /\ v = d * PGSIZE
      BY <1>1, <2>2
    <2>4. M * PGSIZE <= u
      BY <1>2, <2>3 DEF PTSIZE
    <2> QED BY <1>1, <2>2, <2>3, <2>4
  <1>4. PICK k \in Nat : k = PGNUM(a)
    BY <1>1, DivMod DEF PGNUM
  <1>5. Span(a, n) = k..M - 1
    BY <1>2, <1>4 DEF Span
  <1>6. \A i \in k..M - 1 : i \in 0..NPTENTRIES - 1
    BY <1>1, <1>3
  <1> QED BY <1>5, <1>6 DEF entry_pgtable

LEMMA EarlyInit ==
    ASSUME Bootable, Init
    PROVE  Early
  <1>1. OnMachine
    BY DEF Init, OnMachine, NONE
  <1>2. npages \in Nat
    BY <1>1, MachineFits
  <1>3. PICK D : D = EmptyDir
    OBVIOUS
  <1>4. D \in DirType
    <2>1. PICK table \in [0..NPDENTRIES - 1 -> Int] : table = [n \in 0..NPDENTRIES - 1 |-> NONE]
      <3>1. NONE \in Int
        BY DEF NONE
      <3>2. [n \in 0..NPDENTRIES - 1 |-> NONE] \in [0..NPDENTRIES - 1 -> Int]
        BY <3>1
      <3> QED BY ONLY <3>2
    <2>2. NoPte \in PteType
      BY DEF NoPte, NONE, PteType
    <2>3. PICK pte \in [0..NPDENTRIES * NPTENTRIES - 1 -> PteType] :
              pte = [n \in 0..NPDENTRIES * NPTENTRIES - 1 |-> NoPte]
      BY <2>2
    <2>4. D = [table |-> table, pte |-> pte]
      BY <1>3, <2>1, <2>3 DEF EmptyDir
    <2> QED BY <2>4 DEF DirType
  <1>5. PICK dir \in [{"kern", "env"} -> DirType] : dir = [d \in {"kern", "env"} |-> D]
    BY <1>4
  <1>6. PICK ref \in [0..npages - 1 -> Int] : ref = [p \in 0..npages - 1 |-> 0]
    <2>1. [p \in 0..npages - 1 |-> 0] \in [0..npages - 1 -> Int]
      OBVIOUS
    <2> QED BY ONLY <2>1
  <1>7. PICK base \in Int : base = MMIOBASE
    <2>1. PICK K, T \in Nat : MMIOBASE = (K - 2) * T
      BY Layout
    <2> QED BY <2>1
  <1>8. PICK free \in Seq(Int) : free = <<>>
    BY EmptySeq
  <1>9. PICK touched \in SUBSET Int : touched = {}
    OBVIOUS
  <1>10. mem = [free |-> free, ref |-> ref, dir |-> dir, base |-> base, touched |-> touched, ok |-> TRUE]
    BY <1>3, <1>5, <1>6, <1>7, <1>8, <1>9 DEF Init, MemRecord, Dirs
  <1>11. mem \in MemType(npages) /\ mem.touched = {} /\ mem.base = MMIOBASE
    BY <1>7, <1>9, <1>10 DEF MemType
  <1>12. pc = "pgdir" /\ nextfree = ROUNDUP(end)
    BY DEF Init
  <1>13. ArraysAt
    BY <1>12 DEF ArraysAt
  <1>14. ListAt
    BY <1>12 DEF ListAt, Aside, Mapping
  <1>15. TablesAt
    BY <1>11, <1>12 DEF TablesAt, TableIn
  <1>16. pc \in Preparing
    BY <1>12 DEF Preparing
  <1> QED BY <1>1, <1>11, <1>13, <1>14, <1>15, <1>16 DEF Early

LEMMA PgdirStep ==
    ASSUME Bootable, Early, AllocPgdir
    PROVE  Early'
  <1>1. /\ pc = "pgdir" /\ pc' = "pages" /\ npages' = npages /\ npages_basemem' = npages_basemem
        /\ end' = end /\ pages' = pages /\ envs' = envs /\ nextfree' = ROUNDUP(nextfree + PGSIZE)
    BY DEF AllocPgdir, Step, At, machine, boot_alloc
  <1>2. PICK a, b, c, d, n \in Nat :
            /\ a = ROUNDUP(end) /\ b = ROUNDUP(a + PGSIZE)
            /\ a < b /\ b + n <= c /\ c <= d /\ d <= PTSIZE
    BY ArraysFit DEF Early
  <1>3. nextfree = a /\ nextfree' = b
    BY <1>1, <1>2 DEF Early, ArraysAt
  <1>4. PICK N \in Nat : N = npages
    BY MachineFits DEF Early
  <1>5. PICK x \in entry_pgtable : x = PGNUM(nextfree)
    <2>1. PTSIZE \in Nat
      BY Layout
    <2>2. a < PTSIZE
      BY <1>2, <2>1
    <2> QED BY <1>3, <2>2, LowPage
  <1>6. x \in Int /\ x # NONE
    BY LowIsPage
  <1>7. PICK s \in MemType(N) : s = Require(mem, ~Exhausted) /\ Same(mem, s)
    BY <1>4, RequireSame DEF Early
  <1>8. /\ s.dir \in [{"kern", "env"} -> DirType] /\ s.touched \in SUBSET Int
    BY ONLY s \in MemType(N) DEF MemType
  <1>9. PICK D \in DirType : D = s.dir["kern"]
    BY <1>8
  <1>10. PICK e \in 0..NPDENTRIES - 1 : e = PDX(UVPT)
    BY Entries
  <1>11. PICK table \in [0..NPDENTRIES - 1 -> Int] : table = [D.table EXCEPT ![e] = x]
    <2>1. D.table \in [0..NPDENTRIES - 1 -> Int]
      BY DEF DirType
    <2> QED BY <1>6, <2>1
  <1>12. table[e] = x
    <2>1. D.table \in [0..NPDENTRIES - 1 -> Int]
      BY DEF DirType
    <2> QED BY <1>11, <2>1
  <1>13. PICK E : E = [D EXCEPT !.table = table]
    OBVIOUS
  <1>14. E \in DirType /\ E.table = table
    BY ONLY D \in DirType, table \in [0..NPDENTRIES - 1 -> Int], <1>13 DEF DirType
  <1>15. PICK dir \in [{"kern", "env"} -> DirType] : dir = [s.dir EXCEPT !["kern"] = E] /\ dir["kern"] = E
    <2>1. PICK old \in [{"kern", "env"} -> DirType] : old = s.dir
      BY <1>8
    <2>2. /\ [old EXCEPT !["kern"] = E] \in [{"kern", "env"} -> DirType]
          /\ [old EXCEPT !["kern"] = E]["kern"] = E
      BY ONLY old \in [{"kern", "env"} -> DirType], <1>14
    <2> QED BY ONLY <2>1, <2>2
  <1>16. PICK touched \in SUBSET Int : touched = s.touched \cup {x}
    BY <1>6, <1>8
  <1>17. mem' = [s EXCEPT !.dir = dir, !.touched = touched]
    <2>1. PICK s1 : s1 = [s EXCEPT !.dir = dir]
      OBVIOUS
    <2>2. s1.touched = s.touched
      BY ONLY s \in MemType(N), <2>1 DEF MemType
    <2>3. s1 = [s EXCEPT !.dir = [s.dir EXCEPT !["kern"] = [s.dir["kern"] EXCEPT !.table =
                                     [s.dir["kern"].table EXCEPT ![e] = x]]]]
      BY <1>9, <1>11, <1>13, <1>15, <2>1
    <2>4. mem' = [s1 EXCEPT !.touched = s1.touched \cup {x}]
      BY <1>5, <1>7, <1>10, <2>2, <2>3 DEF AllocPgdir
    <2> QED BY <1>16, <2>1, <2>2, <2>4
  <1>18. mem' \in MemType(N)
    BY ONLY s \in MemType(N), dir \in [{"kern", "env"} -> DirType], touched \in SUBSET Int,
            <1>17
       DEF MemType
  <1>19. mem'.touched = touched /\ mem'.base = s.base /\ mem'.dir = dir
    BY ONLY s \in MemType(N), <1>17 DEF MemType
  <1>20. mem'.touched \subseteq entry_pgtable /\ mem'.base = MMIOBASE
    BY <1>1, <1>7, <1>16, <1>19 DEF Same, Early, TablesAt, Preparing
  <1>21. mem'.dir["kern"].table[PDX(UVPT)] # NONE
    BY <1>6, <1>10, <1>12, <1>14, <1>15, <1>19
  <1>22. OnMachine'
    BY <1>1 DEF Early, OnMachine
  <1>23. ArraysAt'
    <2>1. nextfree' = ROUNDUP(ROUNDUP(end') + PGSIZE)
      BY <1>1, <1>2, <1>3
    <2> QED BY <1>1, <2>1 DEF ArraysAt
  <1>24. ListAt'
    BY <1>1 DEF ListAt, Aside, Mapping
  <1>25. TablesAt'
    BY <1>1, <1>20, <1>21 DEF TablesAt, TableIn
  <1>26. pc' \in Preparing
    BY <1>1 DEF Preparing
  <1> QED BY <1>1, <1>4, <1>18, <1>20, <1>22, <1>23, <1>24, <1>25, <1>26 DEF Early

(* The arrays pages and envs are cleared. *)
LEMMA ArrayTouched ==
    ASSUME Bootable, NEW N \in Nat, NEW s \in MemType(N), s.touched \subseteq entry_pgtable,
           NEW X \in SUBSET entry_pgtable, NEW cond,
           NEW t, t = [Require(s, cond) EXCEPT !.touched = @ \cup X]
    PROVE  t \in MemType(N) /\ t.touched \subseteq entry_pgtable /\ Tables(s, t)
  <1>1. PICK u \in MemType(N) : u = Require(s, cond) /\ Same(s, u)
    BY RequireSame
  <1>2. PICK touched \in SUBSET Int : touched = u.touched \cup X
    <2>1. u.touched \in SUBSET Int
      BY ONLY u \in MemType(N) DEF MemType
    <2> QED BY <2>1, LowIsPage
  <1>3. t = [u EXCEPT !.touched = touched]
    BY <1>1, <1>2
  <1>4. t \in MemType(N)
    BY ONLY u \in MemType(N), touched \in SUBSET Int, <1>3 DEF MemType
  <1>5. t.touched = touched /\ t.base = u.base /\ t.dir = u.dir
    BY ONLY u \in MemType(N), <1>3 DEF MemType
  <1> QED BY <1>1, <1>2, <1>4, <1>5 DEF Same, Tables

LEMMA PagesStep ==
    ASSUME Bootable, Early, AllocPages
    PROVE  Early'
  <1>1. /\ pc = "pages" /\ pc' = "envs" /\ npages' = npages /\ npages_basemem' = npages_basemem
        /\ end' = end /\ pages' = nextfree /\ envs' = envs
        /\ nextfree' = ROUNDUP(nextfree + npages * PAGEINFO)
        /\ mem' = [Require(mem, ~Exhausted) EXCEPT
                      !.touched = @ \cup Span(nextfree, npages * PAGEINFO)]
    BY DEF AllocPages, Step, At, machine, boot_alloc
  <1>2. PICK a, b, c, d, n \in Nat :
            /\ a = ROUNDUP(end) /\ b = ROUNDUP(a + PGSIZE) /\ n = npages * PAGEINFO
            /\ c = ROUNDUP(b + n) /\ c <= d /\ d <= PTSIZE
    BY ArraysFit DEF Early
  <1>3. nextfree = b /\ nextfree' = c
    BY <1>1, <1>2 DEF Early, ArraysAt
  <1>4. PICK N \in Nat : N = npages
    BY MachineFits DEF Early
  <1>5. PICK X \in SUBSET entry_pgtable : X = Span(nextfree, npages * PAGEINFO)
    <2>1. PTSIZE \in Nat
      BY Layout
    <2>2. ROUNDUP(b + n) <= PTSIZE
      BY <1>2, <2>1
    <2>3. Span(b, n) \subseteq entry_pgtable
      BY ONLY Bootable, b \in Nat, n \in Nat, <2>2, LowSpan
    <2> QED BY <1>2, <1>3, <2>3
  <1>6. mem' \in MemType(N) /\ mem'.touched \subseteq entry_pgtable /\ Tables(mem, mem')
    <2>1. PICK s \in MemType(N) : s = mem
      BY <1>4 DEF Early
    <2>2. PICK t : t = mem'
      OBVIOUS
    <2>3. t = [Require(s, ~Exhausted) EXCEPT !.touched = @ \cup X]
      BY <1>1, <1>5, <2>1, <2>2
    <2>4. s.touched \subseteq entry_pgtable
      BY <2>1 DEF Early
    <2>5. t \in MemType(N) /\ t.touched \subseteq entry_pgtable /\ Tables(s, t)
      BY <2>3, <2>4, ArrayTouched
    <2> QED BY <2>1, <2>2, <2>5
  <1>7. OnMachine'
    BY <1>1, <1>3 DEF Early, OnMachine
  <1>8. ArraysAt'
    <2>1. nextfree' = ROUNDUP(ROUNDUP(ROUNDUP(end') + PGSIZE) + npages' * PAGEINFO)
      BY <1>1, <1>2, <1>3
    <2> QED BY <1>1, <2>1 DEF ArraysAt
  <1>9. ListAt'
    BY <1>1 DEF ListAt, Aside, Mapping
  <1>10. TablesAt'
    BY <1>1, <1>6 DEF TablesAt, TableIn, Preparing, Tables, Early
  <1>11. pc' \in Preparing
    BY <1>1 DEF Preparing
  <1> QED BY <1>1, <1>4, <1>6, <1>7, <1>8, <1>9, <1>10, <1>11 DEF Early

LEMMA EnvsStep ==
    ASSUME Bootable, Early, AllocEnvs
    PROVE  Early'
  <1>1. /\ pc = "envs" /\ pc' = "page_init" /\ npages' = npages /\ npages_basemem' = npages_basemem
        /\ end' = end /\ pages' = pages /\ envs' = nextfree
        /\ nextfree' = ROUNDUP(nextfree + ENVS)
        /\ mem' = [Require(mem, ~Exhausted) EXCEPT !.touched = @ \cup Span(nextfree, ENVS)]
    BY DEF AllocEnvs, Step, At, machine, boot_alloc
  <1>2. PICK a, b, c, d, n \in Nat :
            /\ a = ROUNDUP(end) /\ b = ROUNDUP(a + PGSIZE) /\ n = npages * PAGEINFO
            /\ c = ROUNDUP(b + n) /\ d = ROUNDUP(c + ENVS) /\ d = ArraysEnd(end, npages)
            /\ d <= PTSIZE
    BY ArraysFit DEF Early
  <1>3. nextfree = c /\ nextfree' = d
    BY <1>1, <1>2 DEF Early, ArraysAt
  <1>4. PICK N \in Nat : N = npages
    BY MachineFits DEF Early
  <1>5. PICK X \in SUBSET entry_pgtable : X = Span(nextfree, ENVS)
    <2>1. ENVS \in Nat
      BY Numbers
    <2>2. ROUNDUP(c + ENVS) <= PTSIZE
      BY <1>2
    <2>3. Span(c, ENVS) \subseteq entry_pgtable
      BY ONLY Bootable, c \in Nat, <2>1, <2>2, LowSpan
    <2> QED BY <1>3, <2>3
  <1>6. mem' \in MemType(N) /\ mem'.touched \subseteq entry_pgtable /\ Tables(mem, mem')
    <2>1. PICK s \in MemType(N) : s = mem
      BY <1>4 DEF Early
    <2>2. PICK t : t = mem'
      OBVIOUS
    <2>3. t = [Require(s, ~Exhausted) EXCEPT !.touched = @ \cup X]
      BY <1>1, <1>5, <2>1, <2>2
    <2>4. s.touched \subseteq entry_pgtable
      BY <2>1 DEF Early
    <2>5. t \in MemType(N) /\ t.touched \subseteq entry_pgtable /\ Tables(s, t)
      BY <2>3, <2>4, ArrayTouched
    <2> QED BY <2>1, <2>2, <2>5
  <1>7. OnMachine'
    BY <1>1, <1>3 DEF Early, OnMachine
  <1>8. ArraysAt'
    <2>1. nextfree' = ArraysEnd(end', npages')
      BY <1>1, <1>2, <1>3
    <2> QED BY <1>1, <2>1 DEF ArraysAt
  <1>9. ListAt'
    BY <1>1 DEF ListAt, Aside, Mapping
  <1>10. TablesAt'
    BY <1>1, <1>6 DEF TablesAt, TableIn, Preparing, Tables, Early
  <1>11. pc' \in Preparing
    BY <1>1 DEF Preparing
  <1> QED BY <1>1, <1>4, <1>6, <1>7, <1>8, <1>9, <1>10, <1>11 DEF Early

(* The steps that leave the arrays alone. *)
Fixed == /\ npages' = npages /\ npages_basemem' = npages_basemem /\ end' = end
         /\ pages' = pages /\ envs' = envs

LEMMA ChecksFixed ==
    ASSUME NEW from, NEW to, NEW s, Checks(from, to, s)
    PROVE  Fixed /\ pc = from /\ pc' = to /\ mem' = s /\ fl' = fl
  BY DEF Checks, Step, At, machine, locals, arrays, Fixed

LEMMA FixedMachine ==
    ASSUME Early, Fixed
    PROVE  OnMachine'
  BY DEF Early, OnMachine, Fixed

LEMMA PageInitStep ==
    ASSUME Bootable, Early, page_init
    PROVE  Early'
  <1>1. /\ pc = "page_init" /\ pc' = "free_low" /\ Fixed
        /\ mem' = [mem EXCEPT
                      !.ref = [i \in 0..npages - 1 |->
                                  IF InUse(i) /\ i # MPENTRY_PADDR \div PGSIZE THEN 1 ELSE 0],
                      !.free = FreePages]
    BY DEF page_init, Step, At, machine, arrays, Fixed
  <1>2. PICK N \in Nat : N = npages
    BY MachineFits DEF Early
  <1>3. PICK s \in MemType(N) : s = mem
    BY <1>2 DEF Early
  <1>4. PICK ref \in [0..N - 1 -> Int] :
            ref = [i \in 0..npages - 1 |->
                      IF InUse(i) /\ i # MPENTRY_PADDR \div PGSIZE THEN 1 ELSE 0]
    <2>1. [i \in 0..N - 1 |-> IF InUse(i) /\ i # MPENTRY_PADDR \div PGSIZE THEN 1 ELSE 0]
             \in [0..N - 1 -> Int]
      OBVIOUS
    <2> QED BY ONLY <1>2, <2>1
  <1>5. PICK free \in Seq(Int) : free = FreePages
    BY <1>2, FreePagesLists
  <1>6. \A i \in 0..N - 1 : ~InUse(i) => \E k \in 1..Len(free) : free[k] = i
    BY <1>2, <1>5, FreePagesLists
  <1>7. mem' = [s EXCEPT !.ref = ref, !.free = free]
    BY <1>1, <1>3, <1>4, <1>5
  <1>8. mem' \in MemType(N)
    BY ONLY s \in MemType(N), ref \in [0..N - 1 -> Int], free \in Seq(Int), <1>7 DEF MemType
  <1>9. mem'.free = free /\ mem'.touched = mem.touched /\ Tables(mem, mem')
    <2>1. mem'.free = free /\ mem'.touched = s.touched /\ mem'.base = s.base /\ mem'.dir = s.dir
      BY ONLY s \in MemType(N), <1>7 DEF MemType
    <2> QED BY <1>3, <2>1 DEF Tables
  <1>10. ASSUME NEW i \in LowFree'
         PROVE  \E k \in 1..Len(free) : free[k] = i
    <2>1. i \in LowFree
      BY <1>1 DEF LowFree, Fixed, InUseBelow
    <2>2. i \in 0..N - 1
      BY <1>2, <2>1, Numbers DEF LowFree, entry_pgtable
    <2>3. nextfree = ArraysEnd(end, npages)
      BY <1>1 DEF Early, ArraysAt
    <2>4. ~InUse(i)
      BY <2>1, <2>3 DEF LowFree, InUse
    <2> QED BY <1>6, <2>2, <2>4
  <1>11. OnMachine'
    BY <1>1, FixedMachine
  <1>12. ArraysAt'
    BY <1>1 DEF ArraysAt
  <1>13. ListAt'
    BY <1>1, <1>9, <1>10 DEF ListAt, Aside, Mapping
  <1>14. TablesAt'
    BY <1>1, <1>9 DEF TablesAt, TableIn, Preparing, Tables, Early
  <1>15. pc' \in Preparing
    BY <1>1 DEF Preparing
  <1>16. mem' \in MemType(npages')
    BY <1>1, <1>2, <1>8 DEF Fixed
  <1> QED BY <1>9, <1>11, <1>12, <1>13, <1>14, <1>15, <1>16 DEF Early

(* check_page_free_list(1) brings the low pages to the front. *)
LEMMA FreeLowStep ==
    ASSUME Bootable, Early, CheckFreeLow
    PROVE  Early'
  <1>1. /\ pc = "free_low" /\ pc' = "check_alloc" /\ Fixed
        /\ mem' = check_page_free_list(mem, TRUE)
    BY ChecksFixed DEF CheckFreeLow
  <1>2. PICK N \in Nat : N = npages
    BY MachineFits DEF Early
  <1>3. PICK s \in MemType(N) : s = mem
    BY <1>2 DEF Early
  <1>4. PICK list : list = LowFirst(s.free)
    OBVIOUS
  <1>5. list \in Seq(Int) /\ LowStock(list, KERNTABLES + 4)
    <2>1. PICK old \in Seq(Int) : old = s.free
      BY ONLY s \in MemType(N) DEF MemType
    <2>2. PICK k \in Nat : k = KERNTABLES + 4
      BY Numbers
    <2>3. IsFiniteSet(LowFree)
      <3>1. IsFiniteSet(entry_pgtable)
        <4>1. 0 \in Int /\ NPTENTRIES - 1 \in Int
          BY Numbers
        <4>2. IsFiniteSet(0..NPTENTRIES - 1)
          BY ONLY <4>1, FS_Interval
        <4> QED BY <4>2 DEF entry_pgtable
      <3>2. LowFree \in SUBSET entry_pgtable
        BY DEF LowFree
      <3> QED BY ONLY <3>1, <3>2, FS_Subset
    <2>4. Cardinality(LowFree) \in Nat
      BY <2>3, FS_CardinalityType
    <2>5. k <= Cardinality(LowFree)
      BY <2>2, <2>4, MachineFits DEF Early
    <2>6. \A x \in LowFree : IsLow(x) /\ \E i \in 1..Len(old) : old[i] = x
      BY <1>1, <1>3, <2>1 DEF Early, ListAt, LowFree, IsLow
    <2>7. PICK S : S = LowFree
      OBVIOUS
    <2>8. IsFiniteSet(S) /\ k <= Cardinality(S) /\ \A x \in S : IsLow(x) /\ \E i \in 1..Len(old) : old[i] = x
      BY ONLY <2>3, <2>5, <2>6, <2>7
    <2>9. LowFirst(old) \in Seq(Int) /\ LowStock(LowFirst(old), k)
      BY ONLY old \in Seq(Int), k \in Nat, <2>8, LowFirstStock
    <2> QED BY <1>4, <2>1, <2>2, <2>9
  <1>6. PICK all : all = {list[n] : n \in DOMAIN list}
    OBVIOUS
  <1>7. PICK u, t : /\ u = [s EXCEPT !.free = list]
                    /\ t = [u EXCEPT !.touched = u.touched \cup (all \cap entry_pgtable)]
    OBVIOUS
  <1>8. /\ t \in MemType(N) /\ t.free = list /\ t.touched \subseteq entry_pgtable
        /\ Tables(s, t)
    <2>1. PICK X \in SUBSET entry_pgtable : X = all \cap entry_pgtable
      OBVIOUS
    <2>2. s.touched \subseteq entry_pgtable
      BY <1>3 DEF Early
    <2>3. u \in MemType(N) /\ Same(s, u) /\ u.free = list
      BY <1>5, <1>7, Relisted
    <2>4. u.touched \subseteq entry_pgtable
      BY <2>2, <2>3 DEF Same
    <2>5. t = [u EXCEPT !.touched = u.touched \cup X]
      BY <1>7, <2>1
    <2>6. t \in MemType(N) /\ t.free = u.free /\ t.touched \subseteq entry_pgtable /\ Tables(u, t)
      BY <2>3, <2>4, <2>5, WrittenTo
    <2> QED BY <2>3, <2>6 DEF Same, Tables
  <1> DEFINE Cond == /\ all \subseteq 0..npages - 1
                     /\ \A p \in all :
                           /\ p * PGSIZE \notin {0, IOPHYSMEM, EXTPHYSMEM - PGSIZE, EXTPHYSMEM,
                                                 MPENTRY_PADDR}
                           /\ p * PGSIZE < EXTPHYSMEM \/ p * PGSIZE >= nextfree
                     /\ \E p \in all : p * PGSIZE < EXTPHYSMEM
                     /\ \E p \in all : p * PGSIZE >= EXTPHYSMEM
  <1>9. mem' = Require(t, Cond)
    BY <1>1, <1>3, <1>4, <1>6, <1>7, ZenonT(60) DEF check_page_free_list
  <1> HIDE DEF Cond
  <1>10. mem' \in MemType(N) /\ Same(t, mem') /\ mem'.free = t.free
    BY <1>8, <1>9, RequireSame
  <1>11. /\ mem' \in MemType(npages') /\ mem'.touched \subseteq entry_pgtable
         /\ Tables(mem, mem') /\ LowStock(mem'.free, KERNTABLES + 4)
    BY <1>1, <1>2, <1>3, <1>5, <1>8, <1>10 DEF Same, Tables, Fixed
  <1>12. OnMachine'
    BY <1>1, FixedMachine
  <1>13. ArraysAt'
    BY <1>1 DEF ArraysAt
  <1>14. ListAt'
    BY <1>1, <1>11 DEF ListAt, Aside, Mapping
  <1>15. TablesAt'
    BY <1>1, <1>11 DEF TablesAt, TableIn, Preparing, Tables, Early
  <1>16. pc' \in Preparing
    BY <1>1 DEF Preparing
  <1> QED BY <1>11, <1>12, <1>13, <1>14, <1>15, <1>16 DEF Early

(* A list without its first three pages. *)
LEMMA Rest ==
    ASSUME NEW list \in Seq(Int), Len(list) > 3, NEW rest, rest = SubSeq(list, 4, Len(list))
    PROVE  /\ rest \in Seq(Int) /\ Len(rest) = Len(list) - 3
           /\ \A i \in 1..Len(list) - 3 : rest[i] = list[i + 3]
  <1>1. PICK len \in Nat : len = Len(list)
    BY LenProperties
  <1>2. \A i \in 4..len : list[i] \in Int
    BY <1>1, ElementOfSeq
  <1>3. /\ rest \in Seq(Int) /\ Len(rest) = IF 4 <= len THEN len - 4 + 1 ELSE 0
        /\ \A i \in 1..len - 4 + 1 : rest[i] = list[4 + i - 1]
    <2>1. 4 \in Int /\ len \in Int
      OBVIOUS
    <2>2. rest = SubSeq(list, 4, len)
      BY <1>1
    <2> QED BY ONLY <1>2, <2>1, <2>2, SubSeqProperties
  <1>4. len - 4 + 1 = len - 3 /\ \A i \in 1..len - 3 : 4 + i - 1 = i + 3
    OBVIOUS
  <1> QED BY <1>1, <1>3, <1>4

(* check_page_alloc(): three pages are taken and given back. *)
LEMMA AllocStep ==
    ASSUME Bootable, Early, CheckAlloc
    PROVE  Early'
  <1>1. /\ pc = "check_alloc" /\ pc' = "check_page" /\ Fixed
        /\ mem' = check_page_alloc(mem)
    BY ChecksFixed DEF CheckAlloc
  <1>2. PICK N \in Nat : N = npages
    BY MachineFits DEF Early
  <1>3. PICK s \in MemType(N) : s = mem
    BY <1>2 DEF Early
  <1>4. PICK k \in Nat : k = KERNTABLES + 4 /\ k > 3
    BY Numbers
  <1>5. PICK list \in Seq(Int) : list = s.free
    BY ONLY s \in MemType(N) DEF MemType
  <1>6. LowStock(list, k)
    BY <1>1, <1>3, <1>4, <1>5 DEF Early, ListAt
  <1>7. PICK len \in Nat : len = Len(list)
    BY LenProperties
  <1>8. len > 3 /\ \A n \in 1..3 : list[n] \in entry_pgtable
    BY <1>4, <1>6, <1>7 DEF LowStock
  <1>9. \A n \in 1..3 : list[n] \in Int
    BY <1>8, LowIsPage
  <1>10. PICK three, rest : three = SubSeq(list, 1, 3) /\ rest = SubSeq(list, 4, Len(list))
    OBVIOUS
  <1>11. three[1] = list[1] /\ three[2] = list[2] /\ three[3] = list[3]
    <2>1. 1 \in Int /\ 3 \in Int /\ 3 - 1 + 1 = 3
      OBVIOUS
    <2>2. \A i \in 1..3 - 1 + 1 : three[i] = list[1 + i - 1]
      BY ONLY <1>9, <1>10, <2>1, SubSeqProperties
    <2> QED BY <2>2
  <1>12. rest \in Seq(Int) /\ Len(rest) = len - 3 /\ \A i \in 1..len - 3 : rest[i] = list[i + 3]
    BY <1>7, <1>8, <1>10, Rest
  <1>13. PICK alone : alone = FreeThree([s EXCEPT !.free = <<>>], three)
    OBVIOUS
  <1>14. PICK q : q = alone.free /\ q[1] = list[3] /\ q[2] = list[2] /\ q[3] = list[1]
    <2>1. <<>> \in Seq(Int)
      OBVIOUS
    <2>2. PICK e \in MemType(N) : e = [s EXCEPT !.free = <<>>]
      BY <2>1, Relisted
    <2>3. three[1] \in Int /\ three[2] \in Int /\ three[3] \in Int
      BY <1>9, <1>11
    <2>4. alone = FreeThree(e, three)
      BY <1>13, <2>2
    <2>5. alone.free[1] = three[3] /\ alone.free[2] = three[2] /\ alone.free[3] = three[1]
      BY <2>3, <2>4, FreeThreeList
    <2> QED BY <1>11, <2>5
  <1> DEFINE Cond == /\ alone.ok /\ q = Reverse(three) /\ Len(s.free) >= 3
                     /\ IsInjective(three)
  <1>15. PICK r, u, back : /\ r = Require(s, Cond) /\ u = [r EXCEPT !.free = rest]
                           /\ back = [u EXCEPT !.touched = u.touched \cup {q[1]}]
    OBVIOUS
  <1>16. mem' = FreeThree(back, q)
    BY <1>1, <1>3, <1>5, <1>10, <1>13, <1>14, <1>15, Zenon DEF check_page_alloc
  <1> HIDE DEF Cond
  <1>17. /\ back \in MemType(N) /\ back.free = rest /\ back.touched \subseteq entry_pgtable
         /\ Tables(s, back)
    <2>1. r \in MemType(N) /\ Same(s, r)
      BY <1>15, RequireSame
    <2>2. u \in MemType(N) /\ Same(r, u) /\ u.free = rest
      BY <1>12, <1>15, <2>1, Relisted
    <2>3. PICK X \in SUBSET entry_pgtable : X = {q[1]}
      <3>1. {q[1]} \in SUBSET entry_pgtable
        BY <1>8, <1>14
      <3> QED BY ONLY <3>1
    <2>4. u.touched \subseteq entry_pgtable
      BY <1>3, <2>1, <2>2 DEF Same, Early
    <2>5. back = [u EXCEPT !.touched = u.touched \cup X]
      BY <1>15, <2>3
    <2>6. /\ back \in MemType(N) /\ back.free = u.free /\ back.touched \subseteq entry_pgtable
          /\ Tables(u, back)
      BY <2>2, <2>4, <2>5, WrittenTo
    <2> QED BY <2>1, <2>2, <2>6 DEF Same, Tables
  <1>18. /\ mem' \in MemType(N) /\ Same(back, mem') /\ Len(mem'.free) = Len(rest) + 3
         /\ mem'.free[1] = q[3] /\ mem'.free[2] = q[2] /\ mem'.free[3] = q[1]
         /\ \A i \in 1..Len(rest) : mem'.free[i + 3] = rest[i]
    <2>1. q[1] \in Int /\ q[2] \in Int /\ q[3] \in Int
      BY <1>9, <1>14
    <2>2. PICK bk \in MemType(N) : bk = back
      BY <1>17
    <2>3. PICK t : t = mem'
      OBVIOUS
    <2>4. t = FreeThree(bk, q)
      BY <1>16, <2>2, <2>3
    <2>5. /\ t \in MemType(N) /\ Same(bk, t) /\ Len(t.free) = Len(bk.free) + 3
          /\ t.free[1] = q[3] /\ t.free[2] = q[2] /\ t.free[3] = q[1]
          /\ \A i \in 1..Len(bk.free) : t.free[i + 3] = bk.free[i]
      BY ONLY N \in Nat, bk \in MemType(N), <2>1, <2>4, FreeThreeList, SMTT(30)
    <2>6. bk.free = rest
      BY <1>17, <2>2
    <2> QED BY ONLY <2>2, <2>3, <2>5, <2>6
  <1>19. LowStock(mem'.free, KERNTABLES + 4)
    <2>1. PICK l \in Seq(Int) : l = mem'.free
      <3>1. mem' \in MemType(N)
        BY <1>18
      <3>2. mem'.free \in Seq(Int)
        BY ONLY <3>1 DEF MemType
      <3> QED BY <3>2
    <2>2. Len(l) = Len(list)
      BY <1>7, <1>12, <1>18, <2>1
    <2>3. \A n \in 1..3 : l[n] \in entry_pgtable
      BY <1>8, <1>14, <1>18, <2>1, SMTT(30)
    <2>4. ASSUME NEW n \in 4..Len(list) PROVE l[n] = list[n]
      <3>1. n - 3 \in 1..len - 3 /\ (n - 3) + 3 = n
        BY <1>7
      <3>2. l[n] = rest[n - 3]
        BY <1>12, <1>18, <2>1, <3>1
      <3> QED BY <1>12, <3>1, <3>2
    <2>5. LowStock(l, k)
      BY <1>4, <1>6, <2>2, <2>3, <2>4, ThreeBack
    <2> QED BY <1>4, <2>1, <2>5
  <1>20. mem' \in MemType(npages') /\ mem'.touched \subseteq entry_pgtable /\ Tables(mem, mem')
    BY <1>1, <1>2, <1>3, <1>17, <1>18 DEF Same, Tables, Fixed
  <1>21. OnMachine'
    BY <1>1, FixedMachine
  <1>22. ArraysAt'
    BY <1>1 DEF ArraysAt
  <1>23. ListAt'
    BY <1>1, <1>19 DEF ListAt, Aside, Mapping
  <1>24. TablesAt'
    BY <1>1, <1>20 DEF TablesAt, TableIn, Preparing, Tables, Early
  <1>25. pc' \in Preparing
    BY <1>1 DEF Preparing
  <1> QED BY <1>20, <1>21, <1>22, <1>23, <1>24, <1>25 DEF Early

-----------------------------------------------------------------------------
(* check_page() puts the list aside and makes page tables for the entries 0 *)
(* and 1 of kern_pgdir, from a page that the entry code maps.               *)

Safe(s) == /\ s.touched \subseteq entry_pgtable /\ s.base = MMIOBASE
           /\ s.dir["kern"].table[PDX(UVPT)] # NONE

LEMMA SafeSame ==
    ASSUME NEW s, NEW t, Safe(s), Same(s, t)
    PROVE  Safe(t)
  BY DEF Safe, Same

LEMMA AsideEarly ==
    ASSUME Bootable, Early, Fixed, pc' \in Aside, fl' \in Seq(Int), LowStock(fl', KERNTABLES + 4),
           mem' \in MemType(npages), Safe(mem'),
           pc' \in TableIn => mem'.dir["kern"].table[0] # NONE
    PROVE  Early'
  <1>1. OnMachine'
    BY FixedMachine
  <1>2. ArraysAt'
    BY DEF ArraysAt, Aside
  <1>3. ListAt'
    BY DEF ListAt, Aside, Mapping
  <1>4. TablesAt'
    BY DEF TablesAt, Safe, Aside
  <1>5. pc' \in Preparing
    BY DEF Preparing
  <1>6. mem' \in MemType(npages')
    BY DEF Fixed
  <1> QED BY <1>1, <1>2, <1>3, <1>4, <1>5, <1>6 DEF Early, Safe

LEMMA EarlyAside ==
    ASSUME Bootable, Early, pc \in Aside
    PROVE  /\ npages \in Nat /\ mem \in MemType(npages) /\ Safe(mem)
           /\ fl \in Seq(Int) /\ LowStock(fl, KERNTABLES + 4)
           /\ pc \in TableIn => mem.dir["kern"].table[0] # NONE
           /\ \A i \in 1..3 : fl[i] \in entry_pgtable /\ fl[i] \in Int
  <1>1. npages \in Nat /\ mem \in MemType(npages)
    BY MachineFits DEF Early
  <1>2. pc \in Preparing \ {"pgdir"}
    BY DEF Preparing, Aside
  <1>3. Safe(mem) /\ (pc \in TableIn => mem.dir["kern"].table[0] # NONE)
    BY <1>2 DEF Safe, Early, TablesAt
  <1>4. fl \in Seq(Int) /\ LowStock(fl, KERNTABLES + 4)
    BY DEF Early, ListAt
  <1>5. \A i \in 1..3 : fl[i] \in entry_pgtable
    <2>1. KERNTABLES \in Nat
      BY Numbers
    <2> QED BY <1>4, <2>1 DEF LowStock
  <1>6. \A i \in 1..3 : fl[i] \in Int
    BY <1>5, LowIsPage
  <1> QED BY <1>1, <1>3, <1>4, <1>5, <1>6

LEMMA LowEntries ==
    ASSUME Bootable
    PROVE  /\ PDX(0) = 0 /\ PDX(PGSIZE) = 0 /\ PDX(PTSIZE + PGSIZE) = 1
           /\ PGNUM(0) \in 0..NPDENTRIES * NPTENTRIES - 1
           /\ PGNUM(PGSIZE) \in 0..NPDENTRIES * NPTENTRIES - 1
           /\ PDX(UVPT) \in 3..NPDENTRIES - 1
  <1>1. PICK K, T \in Nat : /\ T = PTSIZE /\ T = NPTENTRIES * PGSIZE /\ T >= 2 * PGSIZE
                            /\ K > 7 /\ K + KERNTABLES = NPDENTRIES
    BY Layout
  <1>2. PGSIZE \in Nat /\ PGSIZE > 0 /\ NPTENTRIES \in Nat /\ NPTENTRIES > 1 /\ KERNTABLES \in Nat
    BY Numbers
  <1>3. /\ T \in Nat /\ T > 0 /\ 0 * T = 0 /\ (0 + 1) * T = T /\ 1 * T = T /\ (1 + 1) * T = T + T
    BY <1>1, <1>2
  <1>4. \A x \in Nat : x < T => x \div T = 0
    BY <1>3
  <1>5. PDX(0) = 0 /\ PDX(PGSIZE) = 0
    BY <1>1, <1>2, <1>4 DEF PDX
  <1>6. PDX(PTSIZE + PGSIZE) = 1
    <2>1. (T + PGSIZE) \div T = 1
      BY <1>1, <1>2, <1>3
    <2> QED BY <1>1, <2>1 DEF PDX
  <1>7. 0 \div PGSIZE = 0 /\ PGSIZE \div PGSIZE = 1
    BY <1>2
  <1>8. NPDENTRIES * NPTENTRIES >= 2
    <2>1. NPDENTRIES \in Nat /\ NPDENTRIES > 7
      BY <1>1, <1>2
    <2>2. PICK d \in Nat : NPDENTRIES = 1 + d
      <3>1. NPDENTRIES - 1 \in Nat /\ NPDENTRIES = 1 + (NPDENTRIES - 1)
        BY <2>1
      <3> QED BY <3>1
    <2>3. NPDENTRIES * NPTENTRIES = NPTENTRIES + d * NPTENTRIES /\ d * NPTENTRIES \in Nat
      BY <1>2, <2>2
    <2> QED BY <1>2, <2>3
  <1>9. NPDENTRIES * NPTENTRIES \in Int
    BY <1>1, <1>2
  <1> QED BY <1>5, <1>6, <1>7, <1>8, <1>9, Entries DEF PGNUM

LEMMA KernTable ==
    ASSUME NEW N \in Nat, NEW s \in MemType(N)
    PROVE  s.dir["kern"].table \in [0..NPDENTRIES - 1 -> Int]
  <1>1. s.dir \in [{"kern", "env"} -> DirType]
    BY ONLY s \in MemType(N) DEF MemType
  <1>2. s.dir["kern"] \in DirType
    BY <1>1
  <1> QED BY <1>2 DEF DirType

(* Another page table in entry 0 or 1. *)
LEMMA SafeRetabled ==
    ASSUME Bootable, NEW N \in Nat, NEW s \in MemType(N), Safe(s), NEW pd \in {0, 1}, NEW p,
           NEW t, Retabled(s, t, pd, p), t.touched \subseteq entry_pgtable
    PROVE  Safe(t) /\ t.dir["kern"].table[pd] = p
  <1>1. PICK old \in [0..NPDENTRIES - 1 -> Int] : old = s.dir["kern"].table
    BY KernTable
  <1>2. t.dir["kern"].table = [old EXCEPT ![pd] = p] /\ t.base = s.base
    BY <1>1 DEF Retabled
  <1>3. PICK e \in 3..NPDENTRIES - 1 : e = PDX(UVPT)
    BY LowEntries
  <1>4. NPDENTRIES \in Nat
    BY Numbers
  <1>5. pd \in 0..NPDENTRIES - 1 /\ e \in 0..NPDENTRIES - 1 /\ e # pd
    BY <1>4
  <1>6. t.dir["kern"].table[pd] = p /\ t.dir["kern"].table[e] = old[e]
    BY <1>2, <1>5
  <1> QED BY <1>1, <1>2, <1>3, <1>6 DEF Safe

(* pgdir_walk() after a page was freed: that one is taken, if any. *)
LEMMA WalkSafe ==
    ASSUME Bootable, NEW N \in Nat, NEW s \in MemType(N), Safe(s), NEW p \in entry_pgtable,
           s.free # <<>>, Head(s.free) = p, NEW x, PDX(x) \in {0, 1},
           NEW t, t = pgdir_walk(s, "kern", x)
    PROVE  t \in MemType(N) /\ Safe(t) /\ t.dir["kern"].table[PDX(x)] # NONE
  <1>1. CASE HasTable(s, "kern", x)
    BY <1>1 DEF pgdir_walk, HasTable
  <1>2. CASE ~HasTable(s, "kern", x)
    <2>1. /\ t \in MemType(N) /\ t.touched = s.touched \cup {p}
          /\ Retabled(s, t, PDX(x), p)
      BY <1>2, WalkTakes
    <2>2. t.touched \subseteq entry_pgtable
      BY <2>1 DEF Safe
    <2>3. Safe(t) /\ t.dir["kern"].table[PDX(x)] = p
      BY <2>1, <2>2, SafeRetabled
    <2> QED BY <2>1, <2>3, LowIsPage
  <1> QED BY <1>1, <1>2

LEMMA FreedHead ==
    ASSUME NEW N \in Nat, NEW s \in MemType(N), NEW p \in Int
    PROVE  page_free(s, p).free # <<>> /\ Head(page_free(s, p).free) = p
  <1>1. PICK l \in Seq(Int) : l = s.free
    BY ONLY s \in MemType(N) DEF MemType
  <1>2. PICK j : j = <<p>> \o l
    OBVIOUS
  <1>3. j \in Seq(Int) /\ Len(j) = Len(l) + 1 /\ j[1] = p
    BY <1>2, InFront
  <1>4. Len(l) \in Nat
    BY LenProperties
  <1>5. j # <<>> /\ Head(j) = p
    BY <1>3, <1>4
  <1>6. page_free(s, p).free = j
    BY <1>1, <1>2, FreeSame
  <1> QED BY <1>5, <1>6

LEMMA TakeStep ==
    ASSUME Bootable, Early, CheckTake
    PROVE  Early'
  <1>1. /\ pc = "check_page" /\ pc' = "insert" /\ Fixed /\ fl' = mem.free
        /\ mem' = [Require(mem, Len(mem.free) >= 3 /\ IsInjective(SubSeq(mem.free, 1, 3)))
                      EXCEPT !.free = <<>>]
    BY DEF CheckTake, At, machine, arrays, Fixed
  <1>2. PICK N \in Nat : N = npages
    BY MachineFits DEF Early
  <1>3. PICK s \in MemType(N) : s = mem
    BY <1>2 DEF Early
  <1>4. PICK r \in MemType(N) :
            /\ r = Require(s, Len(mem.free) >= 3 /\ IsInjective(SubSeq(mem.free, 1, 3)))
            /\ Same(s, r)
    BY RequireSame
  <1>5. mem' \in MemType(N) /\ Same(r, mem')
    <2>1. <<>> \in Seq(Int)
      OBVIOUS
    <2>2. mem' = [r EXCEPT !.free = <<>>]
      BY <1>1, <1>3, <1>4
    <2> QED BY <2>1, <2>2, Relisted
  <1>6. Safe(s)
    BY <1>1, <1>3 DEF Early, TablesAt, Preparing, Safe
  <1>7. Safe(mem')
    BY <1>4, <1>5, <1>6, SafeSame
  <1>8. fl' \in Seq(Int)
    <2>1. s.free \in Seq(Int)
      BY ONLY s \in MemType(N) DEF MemType
    <2> QED BY <1>1, <1>3, <2>1
  <1>9. LowStock(fl', KERNTABLES + 4)
    BY <1>1 DEF Early, ListAt
  <1>10. pc' \in Aside /\ pc' \notin TableIn
    BY <1>1 DEF Aside, TableIn
  <1> QED BY <1>1, <1>2, <1>5, <1>7, <1>8, <1>9, <1>10, AsideEarly

(* page_insert() where the page table is there. *)
LEMMA InsertIn ==
    ASSUME Bootable, Early, pc \in TableIn, pc' \in TableIn, Fixed, fl' = fl,
           NEW cond, NEW p \in Int, NEW x \in {0, PGSIZE}, NEW perm \in SUBSET {"W", "U"},
           mem' = page_insert(Require(mem, cond), "kern", p, x, perm)
    PROVE  Early'
  <1>1. PICK N \in Nat : N = npages
    BY MachineFits DEF Early
  <1>2. PICK s \in MemType(N) : s = mem
    BY <1>1 DEF Early
  <1>3. PICK r \in MemType(N) : r = Require(s, cond) /\ Same(s, r)
    BY RequireSame
  <1>4. pc \in Aside /\ pc' \in Aside
    BY DEF Aside, TableIn
  <1>5. Safe(s) /\ s.dir["kern"].table[0] # NONE
    BY <1>2, <1>4, EarlyAside
  <1>6. pgdir_walk(r, "kern", x) = r
    <2>1. PDX(x) = 0
      BY LowEntries
    <2>2. HasTable(r, "kern", x)
      BY <1>3, <1>5, <2>1 DEF Same, HasTable
    <2> QED BY <2>2 DEF pgdir_walk
  <1>7. mem' \in MemType(N) /\ Same(r, mem')
    <2>1. mem' = page_insert(r, "kern", p, x, perm)
      BY <1>2, <1>3
    <2>2. PGSIZE \in Nat /\ PGSIZE > 0 /\ PGNUM(x) \in 0..NPDENTRIES * NPTENTRIES - 1
      BY Numbers, LowEntries
    <2> QED BY <1>6, <2>1, <2>2, InsertSame
  <1>8. Safe(mem') /\ mem'.dir["kern"].table[0] # NONE
    BY <1>3, <1>5, <1>7 DEF Safe, Same
  <1>9. fl' \in Seq(Int) /\ LowStock(fl', KERNTABLES + 4)
    BY <1>4, EarlyAside
  <1> QED BY <1>1, <1>4, <1>7, <1>8, <1>9, AsideEarly

(* The first page_insert() makes the page table. *)
LEMMA FirstInsert ==
    ASSUME Bootable, Early, pc = "insert", pc' = "second", Fixed, fl' = fl, NEW cond,
           mem' = page_insert(Require(page_free(mem, fl[1]), cond), "kern", fl[2], 0, {"W"})
    PROVE  Early'
  <1>1. PICK N \in Nat : N = npages
    BY MachineFits DEF Early
  <1>2. PICK s \in MemType(N) : s = mem
    BY <1>1 DEF Early
  <1>3. pc \in Aside /\ pc' \in Aside
    BY DEF Aside
  <1>4. Safe(s) /\ \A i \in 1..3 : fl[i] \in entry_pgtable /\ fl[i] \in Int
    BY <1>2, <1>3, EarlyAside
  <1>5. PICK p, q \in Int : p = fl[1] /\ q = fl[2] /\ p \in entry_pgtable
    <2>1. fl[1] \in Int /\ fl[2] \in Int /\ fl[1] \in entry_pgtable
      BY <1>4
    <2> QED BY ONLY <2>1
  <1>6. PICK f \in MemType(N) : f = page_free(s, p) /\ Same(s, f)
    BY FreeSame
  <1>7. f.free # <<>> /\ Head(f.free) = p
    BY <1>6, FreedHead
  <1>8. PICK r \in MemType(N) : r = Require(f, cond) /\ Same(f, r) /\ r.free = f.free
    BY RequireSame
  <1>9. Safe(r)
    BY <1>4, <1>6, <1>8, SafeSame
  <1>10. PICK t : t = pgdir_walk(r, "kern", 0)
    OBVIOUS
  <1>11. PDX(0) = 0 /\ PGNUM(0) \in 0..NPDENTRIES * NPTENTRIES - 1
    BY LowEntries
  <1>12. t \in MemType(N) /\ Safe(t) /\ t.dir["kern"].table[0] # NONE
    <2>1. PDX(0) \in {0, 1} /\ r.free # <<>> /\ Head(r.free) = p /\ p \in entry_pgtable
      BY <1>5, <1>7, <1>8, <1>11
    <2>2. t \in MemType(N) /\ Safe(t) /\ t.dir["kern"].table[PDX(0)] # NONE
      BY <1>9, <1>10, <2>1, WalkSafe
    <2> QED BY <1>11, <2>2
  <1>13. mem' \in MemType(N) /\ Same(t, mem')
    <2>1. PICK perm \in SUBSET {"W", "U"} : perm = {"W"}
      OBVIOUS
    <2>2. mem' = page_insert(r, "kern", q, 0, perm)
      BY <1>2, <1>5, <1>6, <1>8, <2>1
    <2>3. PGSIZE \in Nat /\ PGSIZE > 0
      BY Numbers
    <2> QED BY <1>10, <1>11, <1>12, <2>2, <2>3, InsertSame
  <1>14. Safe(mem') /\ mem'.dir["kern"].table[0] # NONE
    BY <1>12, <1>13 DEF Safe, Same
  <1>15. fl' \in Seq(Int) /\ LowStock(fl', KERNTABLES + 4)
    BY <1>3, EarlyAside
  <1> QED BY <1>1, <1>3, <1>13, <1>14, <1>15, AsideEarly

LEMMA InsertFixed ==
    ASSUME NEW from, NEW to, NEW s, NEW cond, NEW p, NEW x, NEW perm,
           Insert(from, to, s, cond, p, x, perm)
    PROVE  /\ Fixed /\ pc = from /\ pc' = to /\ fl' = fl
           /\ mem' = page_insert(Require(s, cond), "kern", p, x, perm)
  BY ChecksFixed DEF Insert

LEMMA LaterInsert ==
    ASSUME Bootable, Early, NEW from \in TableIn, NEW to \in TableIn, NEW cond,
           NEW i \in {1, 2}, NEW x \in {0, PGSIZE}, NEW perm \in SUBSET {"W", "U"},
           Insert(from, to, mem, cond, pp(i), x, perm)
    PROVE  Early'
  <1>1. /\ Fixed /\ pc \in TableIn /\ pc' \in TableIn /\ fl' = fl
        /\ mem' = page_insert(Require(mem, cond), "kern", pp(i), x, perm)
    BY InsertFixed
  <1>2. pc \in Aside
    BY <1>1 DEF Aside, TableIn
  <1>3. \A k \in 1..3 : fl[k] \in Int
    BY <1>2, EarlyAside
  <1>4. pp(i) \in Int
    BY <1>3 DEF pp
  <1> QED BY <1>1, <1>4, InsertIn

LEMMA InsertsStep ==
    ASSUME Bootable, Early, CheckInserts
    PROVE  Early'
  <1>1. /\ \A x \in {"second", "again", "user", "fewer", "replace", "remove"} : x \in TableIn
        /\ PGSIZE \in {0, PGSIZE} /\ 1 \in {1, 2} /\ 2 \in {1, 2}
        /\ {"W"} \in SUBSET {"W", "U"} /\ {"W", "U"} \in SUBSET {"W", "U"}
    BY DEF TableIn
  <1>2. CASE Insert("insert", "second", page_free(mem, pp(0)), ~CanWalk(mem, "kern", 0),
                      pp(1), 0, {"W"})
    <2>1. PICK cond : cond = ~CanWalk(mem, "kern", 0)
      OBVIOUS
    <2>2. /\ Fixed /\ pc = "insert" /\ pc' = "second" /\ fl' = fl
          /\ mem' = page_insert(Require(page_free(mem, pp(0)), cond), "kern", pp(1), 0, {"W"})
      BY <1>2, <2>1, InsertFixed
    <2>3. pp(0) = fl[1] /\ pp(1) = fl[2]
      BY DEF pp
    <2> QED BY <2>2, <2>3, FirstInsert
  <1>3. CASE \E cond : Insert("second", "again", mem, cond, pp(2), PGSIZE, {"W"})
    BY <1>1, <1>3, LaterInsert
  <1>4. CASE \E cond : Insert("again", "user", mem, cond, pp(2), PGSIZE, {"W"})
    BY <1>1, <1>4, LaterInsert
  <1>5. CASE \E cond : Insert("user", "fewer", mem, cond, pp(2), PGSIZE, {"W", "U"})
    BY <1>1, <1>5, LaterInsert
  <1>6. CASE \E cond : Insert("fewer", "replace", mem, cond, pp(2), PGSIZE, {"W"})
    BY <1>1, <1>6, LaterInsert
  <1>7. CASE \E cond : Insert("replace", "remove", mem, cond, pp(1), PGSIZE, {"W"})
    BY <1>1, <1>7, LaterInsert
  <1> QED BY <1>2, <1>3, <1>4, <1>5, <1>6, <1>7, Zenon DEF CheckInserts

LEMMA RemoveIn ==
    ASSUME Bootable, Early, pc \in TableIn, pc' \in TableIn, Fixed, fl' = fl,
           NEW s \in MemType(npages), Same(mem, s), NEW x \in {0, PGSIZE},
           mem' = page_remove(s, "kern", x)
    PROVE  Early'
  <1>1. pc \in Aside /\ pc' \in Aside
    BY DEF Aside, TableIn
  <1>2. Safe(mem) /\ mem.dir["kern"].table[0] # NONE /\ npages \in Nat
    BY <1>1, EarlyAside
  <1>3. mem' \in MemType(npages) /\ Same(s, mem')
    <2>1. PGSIZE \in Nat /\ PGSIZE > 0 /\ PGNUM(x) \in 0..NPDENTRIES * NPTENTRIES - 1
      BY Numbers, LowEntries
    <2>2. PICK N \in Nat : N = npages
      BY <1>2
    <2>3. s \in MemType(N)
      BY <2>2
    <2>4. page_remove(s, "kern", x) \in MemType(N) /\ Same(s, page_remove(s, "kern", x))
      BY ONLY N \in Nat, <2>1, <2>3, RemoveSame
    <2> QED BY <2>2, <2>4
  <1>4. Safe(mem') /\ mem'.dir["kern"].table[0] # NONE
    BY <1>2, <1>3 DEF Safe, Same
  <1>5. fl' \in Seq(Int) /\ LowStock(fl', KERNTABLES + 4)
    BY <1>1, EarlyAside
  <1> QED BY <1>1, <1>3, <1>4, <1>5, AsideEarly

(* A condition is required, and the list is emptied or not. *)
LEMMA Required ==
    ASSUME Bootable, Early, NEW cond,
           NEW t, t = Require(mem, cond), NEW u, u = [t EXCEPT !.free = <<>>]
    PROVE  t \in MemType(npages) /\ Same(mem, t) /\ u \in MemType(npages) /\ Same(mem, u)
  <1>1. PICK N \in Nat : N = npages
    BY MachineFits DEF Early
  <1>2. PICK s \in MemType(N) : s = mem
    BY <1>1 DEF Early
  <1>3. t \in MemType(N) /\ Same(s, t)
    BY <1>2, RequireSame
  <1>4. u \in MemType(N) /\ Same(t, u)
    <2>1. <<>> \in Seq(Int)
      OBVIOUS
    <2> QED BY <1>3, <2>1, Relisted
  <1> QED BY <1>1, <1>2, <1>3, <1>4, SameTrans

LEMMA RemovesStep ==
    ASSUME Bootable, Early, CheckRemoves
    PROVE  Early'
  <1>1. /\ \A x \in {"remove", "insert0", "remove1", "take0"} : x \in TableIn
        /\ PGSIZE \in {0, PGSIZE} /\ 0 \in {0, PGSIZE} /\ 1 \in {1, 2} /\ {} \in SUBSET {"W", "U"}
    BY DEF TableIn
  <1>2. CASE \E cond : Checks("remove", "insert0",
                   page_remove([Require(mem, cond) EXCEPT !.free = <<>>], "kern", 0))
    <2>1. PICK cond : Checks("remove", "insert0",
                   page_remove([Require(mem, cond) EXCEPT !.free = <<>>], "kern", 0))
      BY <1>2
    <2>2. PICK t, u : t = Require(mem, cond) /\ u = [t EXCEPT !.free = <<>>]
      OBVIOUS
    <2>3. u \in MemType(npages) /\ Same(mem, u)
      BY <2>2, Required
    <2>4. /\ Fixed /\ pc = "remove" /\ pc' = "insert0" /\ fl' = fl
          /\ mem' = page_remove(u, "kern", 0)
      BY <2>1, <2>2, ChecksFixed
    <2> QED BY <1>1, <2>3, <2>4, RemoveIn
  <1>3. CASE \E cond : Insert("insert0", "remove1", mem, cond, pp(1), PGSIZE, {})
    BY <1>1, <1>3, LaterInsert
  <1>4. CASE \E cond : Checks("remove1", "take0",
                   page_remove(Require(mem, cond), "kern", PGSIZE))
    <2>1. PICK cond : Checks("remove1", "take0", page_remove(Require(mem, cond), "kern", PGSIZE))
      BY <1>4
    <2>2. PICK t, u : t = Require(mem, cond) /\ u = [t EXCEPT !.free = <<>>]
      OBVIOUS
    <2>3. t \in MemType(npages) /\ Same(mem, t)
      BY <2>2, Required
    <2>4. /\ Fixed /\ pc = "remove1" /\ pc' = "take0" /\ fl' = fl
          /\ mem' = page_remove(t, "kern", PGSIZE)
      BY <2>1, <2>2, ChecksFixed
    <2> QED BY <1>1, <2>3, <2>4, RemoveIn
  <1> QED BY <1>2, <1>3, <1>4, Zenon DEF CheckRemoves

(* The page table in entry 0 or 1 is taken back. *)
LEMMA TakeBackIn ==
    ASSUME Bootable, Early, pc \in Aside, pc' \in Aside, pc' \notin TableIn, Fixed, fl' = fl,
           NEW s \in MemType(npages), Safe(s), NEW pd \in {0, 1}, mem' = TakeBack(s, pd)
    PROVE  Early'
  <1>1. PICK N \in Nat : N = npages
    BY EarlyAside
  <1>2. PICK a \in MemType(N) : a = s
    BY <1>1
  <1>3. PICK t : t = mem'
    OBVIOUS
  <1>4. t \in MemType(N) /\ t.touched = a.touched /\ Retabled(a, t, pd, NONE)
    <2>1. t = TakeBack(a, pd)
      BY <1>2, <1>3
    <2> QED BY ONLY N \in Nat, a \in MemType(N), <2>1, TakeBackTable
  <1>5. Safe(t)
    BY <1>2, <1>4, SafeRetabled DEF Safe
  <1>6. fl' \in Seq(Int) /\ LowStock(fl', KERNTABLES + 4)
    BY EarlyAside
  <1> QED BY <1>1, <1>3, <1>4, <1>5, <1>6, AsideEarly

(* pgdir_walk() makes a page table, which is taken back. *)
LEMMA WalkBack ==
    ASSUME Bootable, Early, pc \in Aside, pc' \in Aside, pc' \notin TableIn, Fixed, fl' = fl,
           NEW x, PDX(x) \in {0, 1}, NEW pd \in {0, 1},
           mem' = TakeBack(pgdir_walk(page_free(mem, pp(0)), "kern", x), pd)
    PROVE  Early'
  <1>1. PICK N \in Nat : N = npages
    BY EarlyAside
  <1>2. PICK s \in MemType(N) : s = mem
    BY <1>1, EarlyAside
  <1>3. Safe(s)
    BY <1>2, EarlyAside
  <1>4. PICK p \in Int : p = pp(0) /\ p \in entry_pgtable
    <2>1. 1 \in 1..3 /\ 0 + 1 = 1
      OBVIOUS
    <2>2. fl[1] \in Int /\ fl[1] \in entry_pgtable
      BY <2>1, EarlyAside
    <2> QED BY <2>1, <2>2 DEF pp
  <1>5. PICK f \in MemType(N) : f = page_free(s, p) /\ Same(s, f)
    BY FreeSame
  <1>6. f.free # <<>> /\ Head(f.free) = p
    BY <1>5, FreedHead
  <1>7. Safe(f)
    BY <1>3, <1>5, SafeSame
  <1>8. PICK t : t = pgdir_walk(f, "kern", x)
    OBVIOUS
  <1>9. t \in MemType(N) /\ Safe(t)
    BY <1>4, <1>6, <1>7, <1>8, WalkSafe
  <1>10. mem' = TakeBack(t, pd)
    BY <1>2, <1>4, <1>5, <1>8
  <1> QED BY <1>1, <1>9, <1>10, TakeBackIn

LEMMA TablesStep ==
    ASSUME Bootable, Early, CheckTables
    PROVE  Early'
  <1>1. /\ \A x \in {"take0", "walk1", "walk0", "give"} : x \in Aside
        /\ \A x \in {"walk1", "walk0", "give"} : x \notin TableIn
        /\ 0 \in {0, 1} /\ 1 \in {0, 1}
    BY DEF TableIn, Aside
  <1>2. CASE \E cond : Checks("take0", "walk1",
                   TakeBack([Require(mem, cond) EXCEPT !.free = <<>>], 0))
    <2>1. PICK cond : Checks("take0", "walk1",
                   TakeBack([Require(mem, cond) EXCEPT !.free = <<>>], 0))
      BY <1>2
    <2>2. PICK t, u : t = Require(mem, cond) /\ u = [t EXCEPT !.free = <<>>]
      OBVIOUS
    <2>3. u \in MemType(npages) /\ Same(mem, u)
      BY <2>2, Required
    <2>4. /\ Fixed /\ pc = "take0" /\ pc' = "walk1" /\ fl' = fl
          /\ mem' = TakeBack(u, 0)
      BY <2>1, <2>2, ChecksFixed
    <2>5. Safe(u)
      BY <1>1, <2>3, <2>4, EarlyAside, SafeSame
    <2> QED BY <1>1, <2>3, <2>4, <2>5, TakeBackIn
  <1>3. CASE Checks("walk1", "walk0",
                   TakeBack(pgdir_walk(page_free(mem, pp(0)), "kern", PTSIZE + PGSIZE), 1))
    <2>1. PICK x : x = PTSIZE + PGSIZE
      OBVIOUS
    <2>2. /\ Fixed /\ pc = "walk1" /\ pc' = "walk0" /\ fl' = fl
          /\ mem' = TakeBack(pgdir_walk(page_free(mem, pp(0)), "kern", x), 1)
      BY <1>3, <2>1, ChecksFixed
    <2>3. PDX(x) \in {0, 1}
      BY <2>1, LowEntries
    <2> QED BY <1>1, <2>2, <2>3, WalkBack
  <1>4. CASE Checks("walk0", "give",
                   TakeBack(pgdir_walk(page_free(mem, pp(0)), "kern", 0), 0))
    <2>1. PICK x : x = 0
      OBVIOUS
    <2>2. /\ Fixed /\ pc = "walk0" /\ pc' = "give" /\ fl' = fl
          /\ mem' = TakeBack(pgdir_walk(page_free(mem, pp(0)), "kern", x), 0)
      BY <1>4, <2>1, ChecksFixed
    <2>3. PDX(x) \in {0, 1}
      BY <2>1, LowEntries
    <2> QED BY <1>1, <2>2, <2>3, WalkBack
  <1> QED BY <1>2, <1>3, <1>4, Zenon DEF CheckTables

-----------------------------------------------------------------------------
(* The list is back, and the mappings take their page tables from it. *)

LEMMA MappingEarly ==
    ASSUME Bootable, Early, Fixed, pc' \in Mapping, mem' \in MemType(npages), Stocked(mem'),
           pc' = "mmio1" => mem'.base = MMIOBASE,
           pc' = "mmio2" => mem'.base = MMIOBASE + ROUNDUP(PGSIZE + 1)
    PROVE  Early'
  <1>1. OnMachine'
    BY FixedMachine
  <1>2. ArraysAt'
    BY DEF ArraysAt, Mapping
  <1>3. ListAt'
    BY DEF ListAt, Aside, Mapping, Stocked
  <1>4. TablesAt'
    BY DEF TablesAt, Preparing, Aside, TableIn, Mapping
  <1>5. mem' \in MemType(npages')
    BY DEF Fixed
  <1> QED BY <1>1, <1>2, <1>3, <1>4, <1>5 DEF Early, Stocked

LEMMA EarlyMapping ==
    ASSUME Bootable, Early, pc \in Mapping
    PROVE  /\ npages \in Nat /\ mem \in MemType(npages) /\ Stocked(mem) /\ pages \in Int /\ envs \in Int
           /\ pc = "mmio1" => mem.base = MMIOBASE
           /\ pc = "mmio2" => mem.base = MMIOBASE + ROUNDUP(PGSIZE + 1)
  BY MachineFits DEF Early, ListAt, TablesAt, Stocked, OnMachine

(* The list is restored.  kern_pgdir has an entry of its own by now. *)
LEMMA GiveStep ==
    ASSUME Bootable, Early, CheckGive
    PROVE  Early'
  <1>1. /\ pc = "give" /\ pc' = "mmio1" /\ Fixed
        /\ mem' = FreeThree([mem EXCEPT !.free = SubSeq(fl, 4, Len(fl)),
                                          !.touched = @ \cup {pp(0)}], fl)
    BY DEF CheckGive, At, machine, arrays, Fixed
  <1>2. pc \in Aside /\ pc' \in Mapping
    BY <1>1 DEF Aside, Mapping
  <1>3. PICK N \in Nat : N = npages
    BY <1>2, EarlyAside
  <1>4. PICK s \in MemType(N) : s = mem
    BY <1>2, <1>3, EarlyAside
  <1>5. PICK list \in Seq(Int) : list = fl
    BY <1>2, EarlyAside
  <1>6. PICK k \in Nat : k = KERNTABLES + 4 /\ k > 3
    BY Numbers, SMTT(30)
  <1>7. LowStock(list, k) /\ Safe(s)
    BY <1>2, <1>4, <1>5, <1>6, EarlyAside
  <1>8. PICK len \in Nat : len = Len(list) /\ len > 3
    <2>1. Len(list) \in Nat
      BY LenProperties
    <2> QED BY <1>6, <1>7, <2>1 DEF LowStock
  <1>9. \A i \in 1..3 : list[i] \in entry_pgtable /\ list[i] \in Int
    BY <1>2, <1>5, EarlyAside
  <1>10. PICK rest : rest = SubSeq(list, 4, Len(list))
    OBVIOUS
  <1>11. rest \in Seq(Int) /\ Len(rest) = len - 3 /\ \A i \in 1..len - 3 : rest[i] = list[i + 3]
    BY <1>8, <1>10, Rest
  <1>12. PICK u, back : /\ u = [s EXCEPT !.free = rest]
                        /\ back = [u EXCEPT !.touched = u.touched \cup {list[1]}]
    OBVIOUS
  <1>13. /\ back \in MemType(N) /\ back.free = rest /\ back.touched \subseteq entry_pgtable
         /\ Tables(s, back)
    <2>1. u \in MemType(N) /\ Same(s, u) /\ u.free = rest
      BY <1>11, <1>12, Relisted
    <2>2. PICK X \in SUBSET entry_pgtable : X = {list[1]}
      <3>1. {list[1]} \in SUBSET entry_pgtable
        BY <1>9
      <3> QED BY ONLY <3>1
    <2>3. u.touched \subseteq entry_pgtable
      BY <1>7, <2>1 DEF Same, Safe
    <2>4. back = [u EXCEPT !.touched = u.touched \cup X]
      BY <1>12, <2>2
    <2>5. /\ back \in MemType(N) /\ back.free = u.free /\ back.touched \subseteq entry_pgtable
          /\ Tables(u, back)
      BY <2>1, <2>3, <2>4, WrittenTo
    <2> QED BY <2>1, <2>5 DEF Same, Tables
  <1>14. PICK t : t = mem'
    OBVIOUS
  <1>15. t = FreeThree(back, list)
    <2>1. pp(0) = list[1]
      BY <1>5 DEF pp
    <2> QED BY <1>1, <1>4, <1>5, <1>10, <1>12, <1>14, <2>1, Zenon
  <1>16. /\ t \in MemType(N) /\ Same(back, t) /\ Len(t.free) = Len(rest) + 3
         /\ t.free[1] = list[3] /\ t.free[2] = list[2] /\ t.free[3] = list[1]
         /\ \A i \in 1..Len(rest) : t.free[i + 3] = rest[i]
    <2>1. list[1] \in Int /\ list[2] \in Int /\ list[3] \in Int
      BY <1>9
    <2>2. PICK bk \in MemType(N) : bk = back
      BY <1>13
    <2>3. t = FreeThree(bk, list)
      BY <1>15, <2>2
    <2>4. /\ t \in MemType(N) /\ Same(bk, t) /\ Len(t.free) = Len(bk.free) + 3
          /\ t.free[1] = list[3] /\ t.free[2] = list[2] /\ t.free[3] = list[1]
          /\ \A i \in 1..Len(bk.free) : t.free[i + 3] = bk.free[i]
      BY ONLY N \in Nat, bk \in MemType(N), <2>1, <2>3, FreeThreeList, SMTT(30)
    <2>5. bk.free = rest
      BY <1>13, <2>2
    <2> QED BY ONLY <2>2, <2>4, <2>5
  <1>17. PICK l \in Seq(Int) : l = t.free
    <2>1. t \in MemType(N)
      BY <1>16
    <2> QED BY ONLY <2>1 DEF MemType
  <1>18. LowStock(l, k)
    <2>1. Len(l) = Len(list)
      BY <1>8, <1>11, <1>16, <1>17
    <2>2. \A n \in 1..3 : l[n] \in entry_pgtable
      BY <1>9, <1>16, <1>17, SMTT(30)
    <2>3. ASSUME NEW n \in 4..Len(list) PROVE l[n] = list[n]
      <3>1. n - 3 \in 1..len - 3 /\ (n - 3) + 3 = n
        BY <1>8
      <3>2. l[n] = rest[n - 3]
        BY <1>11, <1>16, <1>17, <3>1
      <3> QED BY <1>11, <3>1, <3>2
    <2> QED BY <1>6, <1>7, <2>1, <2>2, <2>3, ThreeBack
  <1>19. Tables(s, t) /\ t.touched \subseteq entry_pgtable
    BY <1>13, <1>16 DEF Same, Tables
  <1>20. Cardinality(Missing(t)) \in Nat /\ Cardinality(Missing(t)) <= k
    <2>1. PICK e \in KernelEntries : e = PDX(UVPT)
      BY Entries
    <2>2. e \notin Missing(t)
      BY <1>7, <1>19, <2>1 DEF Missing, Safe, Tables
    <2>3. Missing(t) \in SUBSET (KernelEntries \ {e})
      BY <2>2 DEF Missing
    <2>4. PICK S : S = KernelEntries \ {e}
      OBVIOUS
    <2>5. IsFiniteSet(KernelEntries) /\ Cardinality(KernelEntries) = KERNTABLES + 5
      BY Entries
    <2>6. IsFiniteSet(S) /\ Cardinality(S) = Cardinality(KernelEntries) - 1
      BY ONLY e \in KernelEntries, <2>4, <2>5, FS_RemoveElement
    <2>7. Cardinality(S) = k
      BY <1>6, <2>5, <2>6, Numbers, SMTT(30)
    <2>8. Cardinality(Missing(t)) <= Cardinality(S)
      BY ONLY <2>3, <2>4, <2>6, FS_Subset
    <2> QED BY <2>7, <2>8, MissingFinite
  <1>21. Stocked(t)
    <2>1. Len(l) \in Nat
      BY LenProperties
    <2> QED BY <1>17, <1>18, <1>19, <1>20, <2>1 DEF Stocked, LowStock
  <1>22. t.base = MMIOBASE
    BY <1>7, <1>19 DEF Tables, Safe
  <1> QED BY <1>1, <1>2, <1>3, <1>14, <1>16, <1>21, <1>22, MappingEarly

(* X: KERNBASE; Z: the size of what lies above. *)
LEMMA Regions ==
    ASSUME Bootable
    PROVE  \E X, T, Z \in Nat :
              /\ T = PTSIZE /\ T >= 2 * PGSIZE /\ 7 * T <= X /\ T <= Z /\ T > 0
              /\ UENVS = X - 5 * T /\ UPAGES = X - 4 * T /\ MMIOBASE = X - 2 * T
              /\ KSTACKTOP = X /\ KERNBASE = X
              /\ Z = KERNTABLES * PTSIZE /\ NPDENTRIES * PTSIZE = X + Z
              /\ KSTKSIZE <= T
  <1>1. PICK K, T \in Nat :
            /\ T = PTSIZE /\ T >= 2 * PGSIZE
            /\ K > 7 /\ KERNBASE = K * T /\ KSTACKTOP = K * T
            /\ MMIOBASE = (K - 2) * T
            /\ UPAGES = (K - 4) * T /\ UENVS = (K - 5) * T
            /\ NPDENTRIES * T = K * T + KERNTABLES * T
    BY Layout
  <1>2. PICK X, Z \in Nat : X = K * T /\ Z = KERNTABLES * T
    <2>1. KERNTABLES \in Nat
      BY Numbers
    <2>2. K * T \in Nat /\ KERNTABLES * T \in Nat
      BY ONLY <2>1, K \in Nat, T \in Nat
    <2> QED BY <2>2
  <1>3. /\ (K - 2) * T = X - 2 * T /\ (K - 4) * T = X - 4 * T /\ (K - 5) * T = X - 5 * T
        /\ 7 * T <= X
    <2>1. PICK d \in Nat : K = 7 + d
      <3>1. K - 7 \in Nat /\ K = 7 + (K - 7)
        BY <1>1
      <3> QED BY <3>1
    <2>2. K * T = 7 * T + d * T /\ d * T \in Nat
      BY <2>1
    <2> QED BY <1>2, <2>2
  <1>4. T <= Z
    <2>1. PICK d \in Nat : KERNTABLES = 1 + d
      <3>1. KERNTABLES - 1 \in Nat /\ KERNTABLES = 1 + (KERNTABLES - 1)
        BY Numbers
      <3> QED BY <3>1
    <2>2. KERNTABLES * T = T + d * T /\ d * T \in Nat
      BY <2>1
    <2> QED BY <1>2, <2>2
  <1>5. KSTKSIZE <= T
    <2>1. PICK S \in Nat : S = KSTKSIZE + KSTKGAP
      BY Numbers
    <2>2. NCPU * S <= T
      BY <1>1, <2>1 DEF Bootable, BootAssumption
    <2>3. PICK d \in Nat : NCPU = 1 + d
      <3>1. NCPU - 1 \in Nat /\ NCPU = 1 + (NCPU - 1)
        BY Numbers
      <3> QED BY <3>1
    <2>4. NCPU * S = S + d * S /\ d * S \in Nat
      BY <2>3
    <2>5. PICK v \in Nat : v = d * S
      BY <2>4
    <2>6. S + v <= T
      BY <2>2, <2>4, <2>5
    <2> QED BY <2>1, <2>6, Numbers
  <1>6. T > 0
    BY <1>1, Numbers
  <1>7. KERNBASE = X /\ KSTACKTOP = X /\ NPDENTRIES * PTSIZE = X + Z /\ Z = KERNTABLES * PTSIZE
    BY <1>1, <1>2
  <1>8. UENVS = X - 5 * T /\ UPAGES = X - 4 * T /\ MMIOBASE = X - 2 * T
    BY <1>1, <1>3
  <1> QED BY <1>1, <1>3, <1>4, <1>5, <1>6, <1>7, <1>8

(* A mapping of mem_init(). *)
LEMMA MapStep ==
    ASSUME Bootable, Early, NEW from \in Mapping, NEW to \in Mapping, to \notin {"mmio1", "mmio2"},
           NEW va \in Nat, NEW size \in Nat, NEW pa \in Int, NEW perm \in SUBSET {"W", "U"},
           UENVS <= va, va + size <= NPDENTRIES * PTSIZE,
           Checks(from, to, boot_map_region(mem, va, size, pa, perm))
    PROVE  Early'
  <1>1. /\ Fixed /\ pc \in Mapping /\ pc' = to
        /\ mem' = boot_map_region(mem, va, size, pa, perm)
    BY ChecksFixed
  <1>2. PICK N \in Nat : N = npages
    BY <1>1, EarlyMapping
  <1>3. PICK s \in MemType(N) : s = mem
    BY <1>1, <1>2, EarlyMapping
  <1>4. Stocked(s)
    BY <1>1, <1>3, EarlyMapping
  <1>5. mem' \in MemType(N) /\ Stocked(mem')
    <2>1. mem' = boot_map_region(s, va, size, pa, perm)
      BY <1>1, <1>3
    <2> QED BY <1>4, <2>1, MapStocked
  <1> QED BY <1>1, <1>2, <1>5, MappingEarly

LEMMA MapPagesStep ==
    ASSUME Bootable, Early, MapPages
    PROVE  Early'
  <1>1. PICK X, T, Z \in Nat : /\ T = PTSIZE /\ 7 * T <= X
                               /\ UENVS = X - 5 * T /\ UPAGES = X - 4 * T
                               /\ NPDENTRIES * PTSIZE = X + Z
    BY Regions
  <1>2. OnMachine /\ pages \in Int
    BY DEF Early, OnMachine
  <1>3. PICK n \in Nat : n = npages * PAGEINFO /\ n <= T
    <2>1. PICK a, b, c, d, n \in Nat :
              n = npages * PAGEINFO /\ b + n <= c /\ c <= d /\ d <= PTSIZE
      BY <1>2, ArraysFit
    <2>2. n <= T
      BY <1>1, <2>1
    <2> QED BY <2>1, <2>2
  <1>4. PICK va \in Nat : va = X - 4 * T
    <2>1. X - 4 * T \in Nat
      BY <1>1
    <2> QED BY <2>1
  <1>5. UENVS <= va /\ va + n <= NPDENTRIES * PTSIZE
    BY <1>1, <1>3, <1>4
  <1>6. Checks("map_pages", "map_envs", boot_map_region(mem, va, n, pages, {"U"}))
    BY <1>1, <1>3, <1>4 DEF MapPages
  <1>7. {"U"} \in SUBSET {"W", "U"} /\ "map_pages" \in Mapping /\ "map_envs" \in Mapping
    BY DEF Mapping
  <1> QED BY <1>2, <1>5, <1>6, <1>7, MapStep

LEMMA MapEnvsStep ==
    ASSUME Bootable, Early, MapEnvs
    PROVE  Early'
  <1>1. PICK X, T, Z \in Nat : /\ T = PTSIZE /\ 7 * T <= X /\ UENVS = X - 5 * T
                               /\ NPDENTRIES * PTSIZE = X + Z
    BY Regions
  <1>2. envs \in Int
    BY DEF Early, OnMachine
  <1>3. PICK va \in Nat : va = X - 5 * T
    <2>1. X - 5 * T \in Nat
      BY <1>1
    <2> QED BY <2>1
  <1>4. UENVS <= va /\ va + T <= NPDENTRIES * PTSIZE
    BY <1>1, <1>3
  <1>5. Checks("map_envs", "map_stack", boot_map_region(mem, va, T, envs, {"U"}))
    BY <1>1, <1>3 DEF MapEnvs
  <1>6. {"U"} \in SUBSET {"W", "U"} /\ "map_envs" \in Mapping /\ "map_stack" \in Mapping
    BY DEF Mapping
  <1> QED BY <1>2, <1>4, <1>5, <1>6, MapStep

LEMMA MapStackStep ==
    ASSUME Bootable, Early, MapStack
    PROVE  Early'
  <1>1. PICK X, T, Z \in Nat : /\ T = PTSIZE /\ 7 * T <= X /\ UENVS = X - 5 * T
                               /\ KSTACKTOP = X /\ NPDENTRIES * PTSIZE = X + Z /\ KSTKSIZE <= T
    BY Regions
  <1>2. KSTKSIZE \in Nat /\ bootstack \in Int
    BY Numbers DEF bootstack
  <1>3. PICK va \in Nat : va = X - KSTKSIZE
    <2>1. X - KSTKSIZE \in Nat
      BY <1>1, <1>2
    <2> QED BY <2>1
  <1>4. UENVS <= va /\ va + KSTKSIZE <= NPDENTRIES * PTSIZE
    BY <1>1, <1>2, <1>3
  <1>5. Checks("map_stack", "map_kern", boot_map_region(mem, va, KSTKSIZE, bootstack, {"W"}))
    BY <1>1, <1>3 DEF MapStack
  <1>6. {"W"} \in SUBSET {"W", "U"} /\ "map_stack" \in Mapping /\ "map_kern" \in Mapping
    BY DEF Mapping
  <1> QED BY <1>2, <1>4, <1>5, <1>6, MapStep

LEMMA MapKernStep ==
    ASSUME Bootable, Early, MapKern
    PROVE  Early'
  <1>1. PICK X, T, Z \in Nat : /\ T = PTSIZE /\ 7 * T <= X /\ T > 0 /\ T <= Z
                               /\ UENVS = X - 5 * T /\ KERNBASE = X
                               /\ Z = KERNTABLES * PTSIZE /\ NPDENTRIES * PTSIZE = X + Z
    BY Regions
  <1>2. PICK size \in Nat : size = Z - 1
    <2>1. Z - 1 \in Nat
      BY <1>1
    <2> QED BY <2>1
  <1>3. UENVS <= X /\ X + size <= NPDENTRIES * PTSIZE
    BY <1>1, <1>2
  <1>4. Checks("map_kern", "mem_init_mp", boot_map_region(mem, X, size, 0, {"W"}))
    BY <1>1, <1>2 DEF MapKern
  <1>5. /\ {"W"} \in SUBSET {"W", "U"} /\ 0 \in Int
        /\ "map_kern" \in Mapping /\ "mem_init_mp" \in Mapping
    BY DEF Mapping
  <1> QED BY <1>3, <1>4, <1>5, MapStep

(* mmio_map_region(): base moves on by the size, rounded up. *)
LEMMA MmioStep ==
    ASSUME Bootable, Early, NEW from \in {"mmio1", "mmio2"}, NEW to \in Mapping, to # "mmio1",
           NEW size \in Nat, size <= PGSIZE + 1, from = "mmio1" \/ size <= PGSIZE,
           to = "mmio2" => from = "mmio1" /\ size = PGSIZE + 1,
           MapMmio(from, to, size)
    PROVE  Early'
  <1>1. /\ pc = from /\ pc' = to /\ Fixed /\ mem' = mmio_map_region(mem, 0, size)
    BY DEF MapMmio, At, machine, arrays, Fixed
  <1>2. pc \in Mapping
    BY <1>1 DEF Mapping
  <1>3. PICK N \in Nat : N = npages
    BY <1>2, EarlyMapping
  <1>4. PICK s \in MemType(N) : s = mem
    BY <1>2, <1>3, EarlyMapping
  <1>5. Stocked(s)
    BY <1>2, <1>4, EarlyMapping
  <1>6. PICK X, T, Z \in Nat :
            /\ T = PTSIZE /\ T >= 2 * PGSIZE /\ 7 * T <= X /\ UENVS = X - 5 * T
            /\ MMIOBASE = X - 2 * T /\ NPDENTRIES * PTSIZE = X + Z
    BY Regions
  <1>7. PGSIZE \in Nat /\ PGSIZE > 0
    BY Numbers
  <1>8. PICK r, u \in Nat : /\ r = ROUNDUP(PGSIZE + 1) /\ r < PGSIZE + 1 + PGSIZE
                            /\ u = ROUNDUP(size)
    <2>1. PGSIZE + 1 \in Nat
      BY <1>7
    <2>2. ROUNDUP(PGSIZE + 1) \in Nat /\ ROUNDUP(PGSIZE + 1) < PGSIZE + 1 + PGSIZE
      BY <2>1, Rounding
    <2>3. ROUNDUP(size) \in Nat
      BY Rounding
    <2> QED BY <2>2, <2>3
  <1>9. PICK va \in Nat : /\ va = s.base /\ X - 2 * T <= va
                          /\ va + size <= X - 2 * T + 3 * PGSIZE
                          /\ from = "mmio1" => va = MMIOBASE
    <2>1. CASE from = "mmio1"
      <3>1. s.base = X - 2 * T
        BY <1>1, <1>2, <1>4, <1>6, <2>1, EarlyMapping
      <3>2. X - 2 * T \in Nat /\ X - 2 * T + size <= X - 2 * T + 3 * PGSIZE
        BY <1>6, <1>7
      <3> QED BY <1>6, <3>1, <3>2
    <2>2. CASE from = "mmio2"
      <3>1. s.base = X - 2 * T + r
        BY <1>1, <1>2, <1>4, <1>6, <1>8, <2>2, EarlyMapping
      <3>2. /\ X - 2 * T + r \in Nat /\ X - 2 * T <= X - 2 * T + r
            /\ X - 2 * T + r + size <= X - 2 * T + 3 * PGSIZE
        BY <1>6, <1>7, <1>8, <2>2
      <3> QED BY <2>2, <3>1, <3>2
    <2> QED BY <2>1, <2>2
  <1>10. UENVS <= va /\ va + size <= NPDENTRIES * PTSIZE
    BY <1>6, <1>7, <1>9
  <1>11. PICK perm \in SUBSET {"W", "U"} : perm = {"W"}
    OBVIOUS
  <1>12. PICK m : m = boot_map_region(s, va, size, 0, perm)
    OBVIOUS
  <1>13. m \in MemType(N) /\ Stocked(m) /\ m.base = va
    BY <1>5, <1>9, <1>10, <1>12, MapStocked
  <1>14. PICK cond : cond = (s.base + ROUNDUP(size) <= MMIOLIM)
    OBVIOUS
  <1>15. PICK t \in MemType(N) : t = Require(m, cond) /\ Same(m, t) /\ t.free = m.free
    BY <1>13, RequireSame
  <1>16. PICK b \in Int : b = t.base + ROUNDUP(size)
    BY <1>8, <1>13, <1>15 DEF Same
  <1>17. mem' = [t EXCEPT !.base = b]
    BY <1>1, <1>4, <1>9, <1>11, <1>12, <1>14, <1>15, <1>16, Zenon DEF mmio_map_region
  <1>18. mem' \in MemType(N)
    BY ONLY t \in MemType(N), b \in Int, <1>17 DEF MemType
  <1>19. mem'.base = b /\ mem'.dir = t.dir /\ mem'.touched = t.touched /\ mem'.free = t.free
    BY ONLY t \in MemType(N), b \in Int, <1>17 DEF MemType
  <1>20. Stocked(mem')
    <2>1. Stocked(t)
      BY <1>13, <1>15, StockedSame
    <2> QED BY <1>19, <2>1 DEF Stocked, Missing
  <1>21. to = "mmio2" => mem'.base = MMIOBASE + ROUNDUP(PGSIZE + 1)
    BY <1>9, <1>13, <1>15, <1>16, <1>19 DEF Same
  <1> QED BY <1>1, <1>3, <1>18, <1>20, <1>21, MappingEarly

LEMMA ClearStep ==
    ASSUME Bootable, Early, ClearMmio
    PROVE  Early'
  <1>1. PICK cond, x, y, z :
            Checks("mmio3", "map_pages",
                SetPte(SetPte(SetPte(Require(mem, cond), "kern", x, NONE, {}),
                                  "kern", y, NONE, {}), "kern", z, NONE, {}))
    <2> DEFINE Cond == /\ mm[1] >= MMIOBASE /\ mm[2] + 2 * PGSIZE <= MMIOLIM
                       /\ mm[1] + 2 * PGSIZE <= mm[2]
                       /\ check_va2pa(mem, mm[1]) = 0
                       /\ check_va2pa(mem, mm[1] + PGSIZE) = PGSIZE
                       /\ check_va2pa(mem, mm[2]) = 0
                       /\ check_va2pa(mem, mm[2] + PGSIZE) = NONE
                       /\ Perm(mm[1]) = {"W"}
    <2>1. Checks("mmio3", "map_pages",
              SetPte(SetPte(SetPte(Require(mem, Cond), "kern", mm[1], NONE, {}),
                                "kern", mm[1] + PGSIZE, NONE, {}), "kern", mm[2], NONE, {}))
      BY Zenon DEF ClearMmio
    <2> QED BY <2>1, Zenon
  <1>2. PICK pa \in Int, perm \in SUBSET {"W", "U"} : pa = NONE /\ perm = {}
    <2>1. NONE \in Int
      BY DEF NONE
    <2>2. {} \in SUBSET {"W", "U"}
      OBVIOUS
    <2> QED BY <2>1, <2>2
  <1>3. /\ Fixed /\ pc = "mmio3" /\ pc' = "map_pages"
        /\ mem' = SetPte(SetPte(SetPte(Require(mem, cond), "kern", x, pa, perm),
                                    "kern", y, pa, perm), "kern", z, pa, perm)
    BY <1>1, <1>2, ChecksFixed
  <1>4. pc \in Mapping /\ pc' \in Mapping
    BY <1>3 DEF Mapping
  <1>5. PICK N \in Nat : N = npages
    BY <1>4, EarlyMapping
  <1>6. PICK s \in MemType(N) : s = mem /\ Stocked(s)
    BY <1>4, <1>5, EarlyMapping
  <1>7. PICK r \in MemType(N) : r = Require(s, cond) /\ Same(s, r) /\ r.free = s.free
    BY RequireSame
  <1>8. PICK a \in MemType(N) : a = SetPte(r, "kern", x, pa, perm) /\ Same(r, a) /\ a.free = r.free
    BY SetPteSame
  <1>9. PICK b \in MemType(N) : b = SetPte(a, "kern", y, pa, perm) /\ Same(a, b) /\ b.free = a.free
    BY SetPteSame
  <1>10. PICK c \in MemType(N) : c = SetPte(b, "kern", z, pa, perm) /\ Same(b, c) /\ c.free = b.free
    BY SetPteSame
  <1>11. mem' = c
    BY <1>3, <1>6, <1>7, <1>8, <1>9, <1>10
  <1>12. Same(s, c) /\ c.free = s.free
    BY <1>7, <1>8, <1>9, <1>10 DEF Same
  <1>13. Stocked(c)
    BY <1>6, <1>12, StockedSame
  <1> QED BY <1>3, <1>4, <1>5, <1>11, <1>13, MappingEarly

LEMMA MmioSteps ==
    ASSUME Bootable, Early, CheckMmio
    PROVE  Early'
  <1>1. PGSIZE \in Nat /\ PGSIZE + 1 \in Nat /\ PGSIZE <= PGSIZE + 1 /\ PGSIZE + 1 <= PGSIZE + 1
    BY Numbers
  <1>2. "mmio2" \in Mapping /\ "mmio3" \in Mapping
    BY DEF Mapping
  <1>3. CASE MapMmio("mmio1", "mmio2", PGSIZE + 1)
    <2>1. "mmio1" \in {"mmio1", "mmio2"} /\ "mmio2" # "mmio1"
      OBVIOUS
    <2> QED BY ONLY Bootable, Early, <1>1, <1>2, <1>3, <2>1, MmioStep
  <1>4. CASE MapMmio("mmio2", "mmio3", PGSIZE)
    <2>1. "mmio2" \in {"mmio1", "mmio2"} /\ "mmio3" # "mmio1" /\ "mmio3" # "mmio2" /\ PGSIZE <= PGSIZE
      BY <1>1
    <2> QED BY ONLY Bootable, Early, <1>1, <1>2, <1>4, <2>1, MmioStep
  <1> QED BY <1>3, <1>4, ClearStep DEF CheckMmio

LEMMA StacksStep ==
    ASSUME Bootable, Early, mem_init_mp
    PROVE  Early'
  <1>1. PICK t : Checks("mem_init_mp", "check_kern", t)
    BY Zenon DEF mem_init_mp
  <1>2. Fixed /\ pc = "mem_init_mp" /\ pc' = "check_kern"
    BY <1>1, ChecksFixed
  <1>3. pc \in Mapping /\ pc' \in Mapping
    BY <1>2 DEF Mapping
  <1>4. PICK N \in Nat : N = npages
    BY <1>3, EarlyMapping
  <1>5. mem \in MemType(N) /\ Stocked(mem)
    BY <1>3, <1>4, EarlyMapping
  <1>6. mem' \in MemType(N) /\ Stocked(mem')
    BY <1>5, StacksStocked
  <1> QED BY <1>2, <1>3, <1>4, <1>6, MappingEarly

LEMMA CheckKernStep ==
    ASSUME Bootable, Early, CheckKern
    PROVE  Early'
  <1>1. PICK cond : cond = check_kern_pgdir(mem)
    OBVIOUS
  <1>2. Fixed /\ pc = "check_kern" /\ pc' = "lcr3" /\ mem' = Require(mem, cond)
    BY <1>1, ChecksFixed DEF CheckKern
  <1>3. pc \in Mapping /\ pc' \in Mapping
    BY <1>2 DEF Mapping
  <1>4. PICK N \in Nat : N = npages
    BY <1>3, EarlyMapping
  <1>5. PICK s \in MemType(N) : s = mem /\ Stocked(s)
    BY <1>3, <1>4, EarlyMapping
  <1>6. PICK r \in MemType(N) : r = Require(s, cond) /\ Same(s, r) /\ r.free = s.free
    BY RequireSame
  <1>7. Stocked(r)
    BY <1>5, <1>6, StockedSame
  <1> QED BY <1>2, <1>3, <1>4, <1>5, <1>6, <1>7, MappingEarly

-----------------------------------------------------------------------------
(* From one step to all of them *)

(* lcr3() is the one step that changes the page directory in force; all of  *)
(* the steps before it keep the invariant.                                  *)
LEMMA EarlyStep ==
    ASSUME Bootable, Early, Next, cr3' = "entry"
    PROVE  Early'
  <1>1. CASE AllocPgdir \/ AllocPages \/ AllocEnvs \/ page_init \/ CheckFreeLow \/ CheckAlloc
    BY <1>1, PgdirStep, PagesStep, EnvsStep, PageInitStep, FreeLowStep, AllocStep
  <1>2. CASE check_page
    BY <1>2, TakeStep, InsertsStep, RemovesStep, TablesStep, GiveStep, MmioSteps
       DEF check_page
  <1>3. CASE MapPages \/ MapEnvs \/ MapStack \/ MapKern \/ mem_init_mp \/ CheckKern
    BY <1>3, MapPagesStep, MapEnvsStep, MapStackStep, MapKernStep, StacksStep, CheckKernStep
  <1>4. CASE Lcr3
    BY <1>4 DEF Lcr3
  <1>5. pc \in Preparing \cup Mapping
    BY DEF Early
  <1>6. ASSUME NEW from, NEW to, NEW s, Checks(from, to, s)
        PROVE  from \in Preparing \cup Mapping
    BY <1>5, <1>6, ChecksFixed
  <1>7. CASE CheckFreeAll \/ check_page_installed_pgdir
    <2>1. pc \in {"free_all", "installed", "first", "other", "last", "table"}
      BY <1>7, ChecksFixed, InsertFixed DEF CheckFreeAll, check_page_installed_pgdir,
            InstalledTake, InstalledGive, At
    <2> QED BY <1>5, <2>1 DEF Preparing, Aside, Mapping
  <1>8. CASE env_setup_vm \/ load_icode \/ LoadStack
    <2>1. pc \in {"setup_vm", "load", "stack"}
      BY <1>8, ChecksFixed DEF env_setup_vm, load_icode, LoadStack
    <2> QED BY <1>5, <2>1 DEF Preparing, Aside, Mapping
  <1> QED BY <1>1, <1>2, <1>3, <1>4, <1>7, <1>8 DEF Next

LEMMA Cr3Step ==
    ASSUME Next, cr3' = "entry"
    PROVE  cr3 = "entry"
  BY DEF Next, AllocPgdir, AllocPages, AllocEnvs, page_init, CheckFreeLow,
     CheckAlloc,
        check_page, CheckTake, CheckInserts, CheckRemoves, CheckTables, CheckGive,
        CheckMmio, MapMmio, ClearMmio, Insert, Checks, MapPages, MapEnvs, MapStack,
        MapKern, mem_init_mp, CheckKern, Lcr3, CheckFreeAll, check_page_installed_pgdir,
        InstalledTake, InstalledGive, env_setup_vm, load_icode, LoadStack

(* Until the kernel's own page directory is in force. *)
Entered == cr3 = "entry" => Early

LEMMA EnteredStep ==
    ASSUME Bootable, Entered, [Next]_vars
    PROVE  Entered'
  <1>1. CASE Next
    <2> SUFFICES ASSUME cr3' = "entry" PROVE Early'
      BY DEF Entered
    <2> QED BY <1>1, Cr3Step, EarlyStep DEF Entered
  <1>2. CASE UNCHANGED vars
    BY <1>2 DEF vars, Entered, Early, OnMachine, ArraysAt, ListAt, LowFree, TablesAt,
                InUseBelow, MemType, DirType, PteType
  <1> QED BY <1>1, <1>2

(***************************************************************************)
(* On every machine that has room for the kernel, its arrays and its page  *)
(* tables in what the entry code maps, mem_init() writes to nothing else   *)
(* before lcr3(): not for kern_pgdir and the arrays, not in the checks of  *)
(* the free list, and not for any page table it makes.                     *)
(***************************************************************************)
THEOREM EarlyWrites == Spec => []EarlyWritesMapped
  <1>1. Bootable
    BY BootAssumption, MachinesAssumption DEF Bootable
  <1>2. Init => Entered
    BY <1>1, EarlyInit DEF Entered
  <1>3. Entered /\ [Next]_vars => Entered'
    BY <1>1, EnteredStep
  <1>4. Entered => EarlyWritesMapped
    BY DEF Entered, Early, EarlyWritesMapped
  <1> QED BY <1>2, <1>3, <1>4, PTL DEF Spec
=============================================================================
