------------------------------ MODULE RtlProofs ------------------------------
(***************************************************************************)
(* The mutation operators propose no mutant twice and never the golden     *)
(* text, and perturb decimal literals by one, for sources of any length    *)
(* over any names and literals.  The bounded check of a mutant of the fsm  *)
(* reports the first step at which any run of the miter fails; a pass that *)
(* has nothing new to look at is a proof, and the mutants corpus_v2 has in *)
(* quarantine are equivalent.  What was proved of the designs, the witness *)
(* tools and the two analyses holds of the composition that is checked.    *)
(***************************************************************************)
EXTENDS Rtl, DesignProofs, WitnessProofs

-----------------------------------------------------------------------------
(* RECURSIVE FUNCTIONS                                                     *)

(* g follows a rule up to n: the value at 0 is given, every other is        *)
(* computed from the value at an earlier place.                             *)
Follows(g, n, V, origin, earlier, rule) ==
  /\ g \in [0 .. n -> V]
  /\ \A k \in 0 .. n : g[k] = IF k = 0 THEN origin ELSE rule[<<k, g[earlier[k]]>>]

(* Two such functions agree as far as both go. *)
LEMMA FollowsUnique ==
  ASSUME NEW V, NEW origin, NEW rule, NEW earlier \in [Nat -> Nat],
         \A n \in Nat : n # 0 => earlier[n] < n,
         NEW m \in Nat, NEW n \in Nat, NEW g, NEW h,
         Follows(g, m, V, origin, earlier, rule), Follows(h, n, V, origin, earlier, rule),
         NEW k \in Nat, k <= m, k <= n
  PROVE  g[k] = h[k]
<1> DEFINE Bad == { j \in 0 .. k : g[j] # h[j] }
<1> SUFFICES ASSUME Bad # {} PROVE FALSE
  OBVIOUS
<1>1. PICK j \in Bad : \A i \in Bad : j <= i
  <2>1. Bad \in SUBSET Nat
    OBVIOUS
  <2> HIDE DEF Bad
  <2> QED
    BY <2>1, Least
<1>2. j \in 0 .. m /\ j \in 0 .. n /\ j \in Nat /\ g[j] # h[j] /\ j <= k
  BY <1>1
<1>3. j # 0
  BY <1>2 DEF Follows
<1>4. earlier[j] \in 0 .. k /\ earlier[j] < j
  BY <1>2, <1>3
<1>5. g[earlier[j]] = h[earlier[j]]
  BY <1>1, <1>2, <1>4
<1> QED
  BY <1>2, <1>3, <1>5 DEF Follows

(* There is one up to any n. *)
LEMMA FollowsExists ==
  ASSUME NEW V, NEW origin \in V, NEW rule \in [Nat \X V -> V], NEW earlier \in [Nat -> Nat],
         \A n \in Nat : n # 0 => earlier[n] < n, NEW n \in Nat
  PROVE  \E g : Follows(g, n, V, origin, earlier, rule)
<1> DEFINE Bad == { m \in Nat : ~ \E g : Follows(g, m, V, origin, earlier, rule) }
<1> SUFFICES ASSUME Bad # {} PROVE FALSE
  OBVIOUS
<1>1. PICK m \in Bad : \A i \in Bad : m <= i
  <2>1. Bad \in SUBSET Nat
    OBVIOUS
  <2> HIDE DEF Bad
  <2> QED
    BY <2>1, Least
<1>2. m \in Nat /\ ~ \E g : Follows(g, m, V, origin, earlier, rule)
  BY <1>1
<1>3. CASE m = 0
  <2> DEFINE g == [k \in 0 .. 0 |-> origin]
  <2>1. Follows(g, 0, V, origin, earlier, rule)
    BY DEF Follows
  <2> QED
    BY <1>2, <1>3, <2>1
<1>4. CASE m # 0
  <2>1. m - 1 \in Nat /\ m - 1 < m
    BY <1>2, <1>4
  <2>2. PICK g : Follows(g, m - 1, V, origin, earlier, rule)
    BY <1>1, <2>1
  <2>3. earlier[m] \in 0 .. m - 1
    BY <1>2, <1>4, <2>1
  <2>4. /\ g \in [0 .. m - 1 -> V] /\ g[earlier[m]] \in V
        /\ \A k \in 0 .. m - 1 : g[k] = IF k = 0 THEN origin ELSE rule[<<k, g[earlier[k]]>>]
    BY <2>2, <2>3 DEF Follows
  <2> DEFINE h == [k \in 0 .. m |-> IF k = m THEN rule[<<m, g[earlier[m]]>>] ELSE g[k]]
  <2>5. rule[<<m, g[earlier[m]]>>] \in V
    BY <1>2, <2>4
  <2>6. h \in [0 .. m -> V]
    BY <1>2, <2>4, <2>5
  <2>7. \A k \in 0 .. m - 1 : h[k] = g[k] /\ k \in 0 .. m
    BY <1>2
  <2>8. h[m] = rule[<<m, g[earlier[m]]>>]
    BY <1>2
  <2> HIDE DEF h
  <2>9. \A k \in 0 .. m : h[k] = IF k = 0 THEN origin ELSE rule[<<k, h[earlier[k]]>>]
    <3> TAKE k \in 0 .. m
    <3>1. CASE k = m
      BY <1>4, <2>3, <2>7, <2>8, <3>1
    <3>2. CASE k # m
      <4>1. k \in 0 .. m - 1 /\ k \in Nat
        BY <1>2, <3>2
      <4>2. k # 0 => earlier[k] \in 0 .. m - 1
        BY <1>2, <4>1
      <4> QED
        BY <2>4, <2>7, <4>1, <4>2
    <3> QED
      BY <3>1, <3>2
  <2>10. Follows(h, m, V, origin, earlier, rule)
    BY <2>6, <2>9 DEF Follows
  <2> QED
    BY <1>2, <2>10
<1> QED
  BY <1>3, <1>4

(* A function on the numbers that follows a rule, and that there is one. *)
Defined(f, origin, earlier, rule) ==
  f = [n \in Nat |-> IF n = 0 THEN origin ELSE rule[<<n, f[earlier[n]]>>]]

LEMMA Recursion ==
  ASSUME NEW V, NEW origin \in V, NEW rule \in [Nat \X V -> V], NEW earlier \in [Nat -> Nat],
         \A n \in Nat : n # 0 => earlier[n] < n
  PROVE  \E f : f \in [Nat -> V] /\ Defined(f, origin, earlier, rule)
<1> DEFINE piece(n) == CHOOSE g : Follows(g, n, V, origin, earlier, rule)
           f == [n \in Nat |-> piece(n)[n]]
<1>1. \A n \in Nat : Follows(piece(n), n, V, origin, earlier, rule)
  BY FollowsExists
<1> HIDE DEF piece
<1>2. ASSUME NEW n \in Nat
      PROVE  /\ piece(n) \in [0 .. n -> V] /\ n \in 0 .. n
             /\ piece(n)[n] = IF n = 0 THEN origin ELSE rule[<<n, piece(n)[earlier[n]]>>]
  BY <1>1 DEF Follows
<1>3. f \in [Nat -> V]
  BY <1>2
<1>4. ASSUME NEW n \in Nat, n # 0 PROVE piece(n)[earlier[n]] = f[earlier[n]]
  <2>1. earlier[n] \in Nat /\ earlier[n] <= n /\ earlier[n] <= earlier[n]
    BY <1>4
  <2>2. piece(n)[earlier[n]] = piece(earlier[n])[earlier[n]]
    BY <1>1, <2>1, FollowsUnique
  <2> QED
    BY <2>1, <2>2
<1>5. \A n \in Nat : f[n] = IF n = 0 THEN origin ELSE rule[<<n, f[earlier[n]]>>]
  BY <1>2, <1>4
<1> HIDE DEF f
<1>6. Defined(f, origin, earlier, rule)
  BY <1>3, <1>5 DEF Defined
<1> QED
  BY <1>3, <1>6

-----------------------------------------------------------------------------
(* POWERS, NUMBERS AND THEIR DIGITS                                        *)

(* Power2 is what its rule says. *)
LEMMA PowersOfTwo ==
  /\ Power2[0] = 1
  /\ \A n \in Nat : Power2[n] \in Nat /\ Power2[n] >= 1
  /\ \A n \in Nat : n # 0 => Power2[n] = 2 * Power2[n - 1]
<1> DEFINE rule == [p \in Nat \X Nat |-> 2 * p[2]]
           earlier == [n \in Nat |-> IF n = 0 THEN 0 ELSE n - 1]
           Good(f) == f = [n \in Nat |-> IF n = 0 THEN 1 ELSE 2 * f[n - 1]]
<1>1. \E f : Good(f) /\ f \in [Nat -> Nat]
  <2>1. rule \in [Nat \X Nat -> Nat]
    OBVIOUS
  <2>2. earlier \in [Nat -> Nat] /\ \A n \in Nat : n # 0 => earlier[n] < n
    OBVIOUS
  <2>3. \A n, v \in Nat : rule[<<n, v>>] = 2 * v
    OBVIOUS
  <2>4. \A n \in Nat : n # 0 => earlier[n] = n - 1 /\ n - 1 \in Nat
    OBVIOUS
  <2> HIDE DEF rule, earlier
  <2>5. PICK f : f \in [Nat -> Nat] /\ Defined(f, 1, earlier, rule)
    BY <2>1, <2>2, Recursion
  <2>6. \A n \in Nat : f[n] = IF n = 0 THEN 1 ELSE 2 * f[n - 1]
    <3> TAKE n \in Nat
    <3>1. f[n] = IF n = 0 THEN 1 ELSE rule[<<n, f[earlier[n]]>>]
      BY <2>5 DEF Defined
    <3>2. f[earlier[n]] \in Nat
      BY <2>2, <2>5
    <3> QED
      BY <2>3, <2>4, <3>1, <3>2
  <2> QED
    BY <2>5, <2>6
<1>2. Power2 = CHOOSE f : Good(f)
  BY DEF Power2
<1> HIDE DEF Good
<1>3. Good(Power2)
  BY <1>1, <1>2
<1>4. \A n \in Nat : Power2[n] = IF n = 0 THEN 1 ELSE 2 * Power2[n - 1]
  BY <1>3 DEF Good
<1>5. \A n \in Nat : Power2[n] \in Nat /\ Power2[n] >= 1
  <2> DEFINE Bad == { n \in Nat : ~(Power2[n] \in Nat /\ Power2[n] >= 1) }
  <2> SUFFICES ASSUME Bad # {} PROVE FALSE
    OBVIOUS
  <2>1. PICK n \in Bad : \A m \in Bad : n <= m
    <3>1. Bad \in SUBSET Nat
      OBVIOUS
    <3> HIDE DEF Bad
    <3> QED
      BY <3>1, Least
  <2>2. n \in Nat /\ ~(Power2[n] \in Nat /\ Power2[n] >= 1)
    BY <2>1
  <2>3. n # 0
    BY <1>4, <2>2
  <2>4. n - 1 \in Nat /\ n - 1 \notin Bad
    BY <2>1, <2>2, <2>3
  <2>5. Power2[n - 1] \in Nat /\ Power2[n - 1] >= 1
    BY <2>4
  <2> HIDE DEF Bad
  <2> QED
    BY <1>4, <2>2, <2>3, <2>5
<1> QED
  BY <1>4, <1>5

(* What the first digits are worth. *)
Spelt(w, base, digits) ==
  /\ w \in [0 .. Len(digits) -> Nat]
  /\ \A k \in 0 .. Len(digits) : w[k] = IF k = 0 THEN 0 ELSE w[k - 1] * base + digits[k]

(* A number is what all its digits are worth. *)
LEMMA NumberIs ==
  ASSUME NEW base \in Nat, NEW digits \in Seq(Nat)
  PROVE  \E w : Spelt(w, base, digits) /\ Number(base, digits) = w[Len(digits)]
<1> DEFINE n == Len(digits)
           rule == [p \in Nat \X Nat |-> p[2] * base + (IF p[1] \in 1 .. n THEN digits[p[1]] ELSE 0)]
           earlier == [k \in Nat |-> IF k = 0 THEN 0 ELSE k - 1]
           Good(f) == f = [k \in 0 .. n |-> IF k = 0 THEN 0 ELSE f[k - 1] * base + digits[k]]
<1>0. n \in Nat /\ \A k \in 1 .. n : digits[k] \in Nat
  OBVIOUS
<1>1. \E f : Good(f) /\ f \in [0 .. n -> Nat]
  <2>1. rule \in [Nat \X Nat -> Nat]
    <3>1. ASSUME NEW p \in Nat \X Nat
          PROVE  p[2] * base + (IF p[1] \in 1 .. n THEN digits[p[1]] ELSE 0) \in Nat
      <4>1. p[2] * base \in Nat
        OBVIOUS
      <4>2. (IF p[1] \in 1 .. n THEN digits[p[1]] ELSE 0) \in Nat
        BY <1>0
      <4> QED
        BY <4>1, <4>2
    <3> QED
      BY <3>1
  <2>2. earlier \in [Nat -> Nat] /\ \A k \in Nat : k # 0 => earlier[k] < k
    OBVIOUS
  <2>3. \A k \in 1 .. n, v \in Nat : rule[<<k, v>>] = v * base + digits[k]
    OBVIOUS
  <2>4. \A k \in Nat : k # 0 => earlier[k] = k - 1 /\ k - 1 \in Nat
    OBVIOUS
  <2> HIDE DEF rule, earlier, n
  <2>5. PICK f : f \in [Nat -> Nat] /\ Defined(f, 0, earlier, rule)
    BY <2>1, <2>2, Recursion
  <2> DEFINE g == [k \in 0 .. n |-> f[k]]
  <2>6. \A k \in 0 .. n : f[k] = IF k = 0 THEN 0 ELSE f[k - 1] * base + digits[k]
    <3> TAKE k \in 0 .. n
    <3>0. k \in Nat
      BY <1>0
    <3>1. f[k] = IF k = 0 THEN 0 ELSE rule[<<k, f[earlier[k]]>>]
      BY <2>5, <3>0 DEF Defined
    <3>2. f[earlier[k]] \in Nat
      BY <2>2, <2>5, <3>0
    <3>3. k # 0 => k \in 1 .. n
      BY <1>0
    <3> QED
      BY <2>3, <2>4, <3>0, <3>1, <3>2, <3>3
  <2>7. g \in [0 .. n -> Nat]
    BY <1>0, <2>5
  <2>8. \A k \in 0 .. n : k # 0 => g[k - 1] = f[k - 1]
    BY <1>0
  <2>9. g = [k \in 0 .. n |-> IF k = 0 THEN 0 ELSE g[k - 1] * base + digits[k]]
    <3>1. \A k \in 0 .. n : g[k] = f[k]
      OBVIOUS
    <3> HIDE DEF g
    <3>2. \A k \in 0 .. n : g[k] = IF k = 0 THEN 0 ELSE g[k - 1] * base + digits[k]
      BY <2>6, <2>8, <3>1
    <3> QED
      BY <2>7, <3>2
  <2> QED
    BY <2>7, <2>9
<1>2. Number(base, digits) = (CHOOSE f : Good(f))[n]
  BY DEF Number
<1> DEFINE w == CHOOSE f : Good(f)
<1> HIDE DEF Good
<1>3. Good(w)
  BY <1>1
<1> HIDE DEF w
<1>4. w = [k \in 0 .. n |-> IF k = 0 THEN 0 ELSE w[k - 1] * base + digits[k]]
  BY <1>3 DEF Good
<1>5. \A k \in 0 .. n : w[k] \in Nat
  <2> DEFINE Bad == { k \in 0 .. n : w[k] \notin Nat }
  <2> SUFFICES ASSUME Bad # {} PROVE FALSE
    OBVIOUS
  <2>1. PICK k \in Bad : \A m \in Bad : k <= m
    <3>1. Bad \in SUBSET Nat
      OBVIOUS
    <3> HIDE DEF Bad
    <3> QED
      BY <3>1, Least
  <2>2. k \in 0 .. n /\ w[k] \notin Nat
    BY <2>1
  <2>3. k # 0
    BY <1>4, <2>2
  <2>4. k - 1 \in 0 .. n /\ k - 1 \notin Bad /\ k \in 1 .. n
    BY <1>0, <2>1, <2>2, <2>3
  <2>5. w[k - 1] \in Nat /\ digits[k] \in Nat
    BY <1>0, <2>4
  <2>6. w[k] = w[k - 1] * base + digits[k]
    BY <1>4, <2>2, <2>3
  <2>7. w[k - 1] * base \in Nat
    BY <2>5
  <2> HIDE DEF Bad, n
  <2> QED
    BY <2>2, <2>5, <2>6, <2>7
<1>6. Spelt(w, base, digits)
  BY <1>4, <1>5 DEF Spelt
<1> QED
  BY <1>2, <1>6 DEF w

(* Digits that are the same are worth the same. *)
LEMMA SpeltUnique ==
  ASSUME NEW base \in Nat, NEW s \in Seq(Nat), NEW t \in Seq(Nat), NEW v, NEW w,
         Spelt(v, base, s), Spelt(w, base, t),
         NEW n \in Nat, n <= Len(s), n <= Len(t), \A k \in 1 .. n : s[k] = t[k]
  PROVE  v[n] = w[n]
<1> DEFINE Bad == { k \in 0 .. n : v[k] # w[k] }
<1> SUFFICES ASSUME Bad # {} PROVE FALSE
  OBVIOUS
<1>1. PICK k \in Bad : \A m \in Bad : k <= m
  <2>1. Bad \in SUBSET Nat
    OBVIOUS
  <2> HIDE DEF Bad
  <2> QED
    BY <2>1, Least
<1>2. k \in 0 .. n /\ k \in 0 .. Len(s) /\ k \in 0 .. Len(t) /\ v[k] # w[k]
  BY <1>1
<1>3. k # 0
  BY <1>2 DEF Spelt
<1>4. k - 1 \in 0 .. n /\ k - 1 \notin Bad /\ k \in 1 .. n
  BY <1>1, <1>2, <1>3
<1>5. v[k - 1] = w[k - 1] /\ s[k] = t[k]
  BY <1>4
<1> QED
  BY <1>2, <1>3, <1>5 DEF Spelt

(* One more digit. *)
LEMMA NumberAppend ==
  ASSUME NEW base \in Nat, NEW s \in Seq(Nat), NEW d \in Nat
  PROVE  /\ Number(base, s) \in Nat
         /\ Number(base, Append(s, d)) = Number(base, s) * base + d
<1> DEFINE t == Append(s, d)
           n == Len(s)
<1>1. t \in Seq(Nat) /\ Len(t) = n + 1 /\ n \in Nat /\ t[n + 1] = d /\ \A k \in 1 .. n : t[k] = s[k]
  OBVIOUS
<1> HIDE DEF t
<1>2. PICK v : Spelt(v, base, s) /\ Number(base, s) = v[n]
  BY NumberIs
<1>3. PICK w : Spelt(w, base, t) /\ Number(base, t) = w[Len(t)]
  BY <1>1, NumberIs
<1>4. v[n] \in Nat
  BY <1>1, <1>2 DEF Spelt
<1>5. w[n] = v[n]
  <2>1. n <= Len(s) /\ n <= Len(t) /\ \A k \in 1 .. n : s[k] = t[k]
    BY <1>1
  <2> HIDE DEF n
  <2> QED
    BY <1>1, <1>2, <1>3, <2>1, SpeltUnique
<1>6. w[n + 1] = w[n] * base + d
  <2>1. n + 1 \in 0 .. Len(t) /\ n + 1 # 0 /\ (n + 1) - 1 = n
    BY <1>1
  <2>2. w[n + 1] = w[(n + 1) - 1] * base + t[n + 1]
    BY <1>3, <2>1 DEF Spelt
  <2> QED
    BY <1>1, <2>1, <2>2
<1> QED
  BY <1>1, <1>2, <1>3, <1>4, <1>5, <1>6 DEF t

(* One digit. *)
LEMMA NumberOf ==
  ASSUME NEW base \in Nat
  PROVE  /\ \A s \in Seq(Nat) : Number(base, s) \in Nat
         /\ Number(base, <<>>) = 0
         /\ \A d \in Nat : Number(base, <<d>>) = d
<1>1. Number(base, <<>>) = 0
  <2>1. <<>> \in Seq(Nat) /\ Len(<<>>) = 0
    OBVIOUS
  <2>2. PICK w : Spelt(w, base, <<>>) /\ Number(base, <<>>) = w[Len(<<>>)]
    BY <2>1, NumberIs
  <2> QED
    BY <2>1, <2>2 DEF Spelt
<1>2. ASSUME NEW d \in Nat PROVE Number(base, <<d>>) = d
  <2>1. <<>> \in Seq(Nat) /\ Append(<<>>, d) = <<d>>
    OBVIOUS
  <2>2. Number(base, <<d>>) = Number(base, <<>>) * base + d
    BY <2>1, NumberAppend
  <2> QED
    BY <1>1, <2>2
<1>3. ASSUME NEW s \in Seq(Nat) PROVE Number(base, s) \in Nat
  <2>1. 0 \in Nat
    OBVIOUS
  <2> QED
    BY <2>1, NumberAppend
<1> QED
  BY <1>1, <1>2, <1>3

(* An even base: a number is as even as its last digit. *)
LEMMA LastDigit ==
  ASSUME NEW base \in {2, 8, 10, 16}, NEW s \in Seq(Nat), s # <<>>
  PROVE  Number(base, s) % 2 = s[Len(s)] % 2
<1> DEFINE n == Len(s)
           d == s[n]
<1>1. n \in Nat /\ n >= 1 /\ d \in Nat /\ base \in Nat
  OBVIOUS
<1>2. PICK w : Spelt(w, base, s) /\ Number(base, s) = w[n]
  BY <1>1, NumberIs
<1>3. n \in 0 .. n /\ n - 1 \in 0 .. n /\ n # 0
  BY <1>1
<1>4. w[n] = w[n - 1] * base + d /\ w[n - 1] \in Nat
  BY <1>2, <1>3 DEF Spelt
<1> DEFINE x == w[n - 1]
<1> HIDE DEF d, x
<1>5. (x * base + d) % 2 = d % 2
  <2>1. x \in Nat
    BY <1>4 DEF x
  <2>2. base = 2 \/ base = 8 \/ base = 10 \/ base = 16
    OBVIOUS
  <2>3. (x * 2 + d) % 2 = d % 2 /\ (x * 8 + d) % 2 = d % 2
    BY <1>1, <2>1
  <2>4. (x * 10 + d) % 2 = d % 2 /\ (x * 16 + d) % 2 = d % 2
    BY <1>1, <2>1
  <2> QED
    BY <2>2, <2>3, <2>4
<1> QED
  BY <1>2, <1>4, <1>5 DEF d, x

(* The digits of a number. *)
LEMMA DecimalIs ==
  /\ \A n \in Nat : Decimal[n] \in Seq(Nat)
  /\ \A n \in Nat : Decimal[n] = IF n < 10 THEN <<n>> ELSE Append(Decimal[n \div 10], n % 10)
<1> DEFINE rule == [p \in Nat \X Seq(Nat) |-> IF p[1] < 10 THEN <<p[1]>> ELSE Append(p[2], p[1] % 10)]
           earlier == [n \in Nat |-> IF n = 0 THEN 0 ELSE n \div 10]
           Good(f) == f = [n \in Nat |-> IF n < 10 THEN <<n>> ELSE Append(f[n \div 10], n % 10)]
<1>1. \E f : Good(f) /\ f \in [Nat -> Seq(Nat)]
  <2>1. rule \in [Nat \X Seq(Nat) -> Seq(Nat)]
    <3>1. ASSUME NEW n \in Nat, NEW s \in Seq(Nat)
          PROVE  <<n>> \in Seq(Nat) /\ Append(s, n % 10) \in Seq(Nat)
      <4>1. n % 10 \in Nat
        OBVIOUS
      <4> QED
        BY <4>1
    <3> QED
      BY <3>1
  <2>2. earlier \in [Nat -> Nat] /\ \A n \in Nat : n # 0 => earlier[n] < n
    OBVIOUS
  <2>3. \A n \in Nat, s \in Seq(Nat) : rule[<<n, s>>] = IF n < 10 THEN <<n>> ELSE Append(s, n % 10)
    OBVIOUS
  <2>4. \A n \in Nat : n # 0 => earlier[n] = n \div 10 /\ n \div 10 \in Nat
    OBVIOUS
  <2>5. <<0>> \in Seq(Nat)
    OBVIOUS
  <2> HIDE DEF rule, earlier
  <2>6. PICK f : f \in [Nat -> Seq(Nat)] /\ Defined(f, <<0>>, earlier, rule)
    BY <2>1, <2>2, <2>5, Recursion
  <2>7. \A n \in Nat : f[n] = IF n < 10 THEN <<n>> ELSE Append(f[n \div 10], n % 10)
    <3> TAKE n \in Nat
    <3>1. f[n] = IF n = 0 THEN <<0>> ELSE rule[<<n, f[earlier[n]]>>]
      BY <2>6 DEF Defined
    <3>2. f[earlier[n]] \in Seq(Nat)
      BY <2>2, <2>6
    <3>3. n # 0 => f[n] = IF n < 10 THEN <<n>> ELSE Append(f[n \div 10], n % 10)
      BY <2>3, <2>4, <3>1, <3>2
    <3> QED
      BY <3>1, <3>3
  <2> QED
    BY <2>6, <2>7
<1>2. Decimal = CHOOSE f : Good(f)
  BY DEF Decimal
<1> HIDE DEF Good
<1>3. Good(Decimal)
  BY <1>1, <1>2
<1>4. \A n \in Nat : Decimal[n] = IF n < 10 THEN <<n>> ELSE Append(Decimal[n \div 10], n % 10)
  BY <1>3 DEF Good
<1>5. \A n \in Nat : Decimal[n] \in Seq(Nat)
  <2> DEFINE Bad == { n \in Nat : Decimal[n] \notin Seq(Nat) }
  <2> SUFFICES ASSUME Bad # {} PROVE FALSE
    OBVIOUS
  <2>1. PICK n \in Bad : \A m \in Bad : n <= m
    <3>1. Bad \in SUBSET Nat
      OBVIOUS
    <3> HIDE DEF Bad
    <3> QED
      BY <3>1, Least
  <2>2. n \in Nat /\ Decimal[n] \notin Seq(Nat)
    BY <2>1
  <2>3. ~(n < 10)
    <3>1. n < 10 => Decimal[n] = <<n>>
      BY <1>4, <2>2
    <3>2. <<n>> \in Seq(Nat)
      BY <2>2
    <3> QED
      BY <2>2, <3>1, <3>2
  <2>4. n \div 10 \in Nat /\ n \div 10 < n /\ n % 10 \in Nat
    BY <2>2, <2>3
  <2>5. Decimal[n \div 10] \in Seq(Nat)
    BY <2>1, <2>4
  <2>6. Decimal[n] = Append(Decimal[n \div 10], n % 10)
    BY <1>4, <2>2, <2>3
  <2> HIDE DEF Bad
  <2> QED
    BY <2>2, <2>4, <2>5, <2>6
<1> QED
  BY <1>4, <1>5

(* They are decimal, the last one tells whether the number is even, and     *)
(* together they are worth the number.                                      *)
LEMMA DecimalNumber ==
  ASSUME NEW n \in Nat
  PROVE  /\ Decimal[n] # <<>> /\ Decimal[n][Len(Decimal[n])] % 2 = n % 2
         /\ \A k \in 1 .. Len(Decimal[n]) : Decimal[n][k] < 10
         /\ Number(10, Decimal[n]) = n
<1> DEFINE Fine(m) == /\ Decimal[m] # <<>> /\ Decimal[m][Len(Decimal[m])] % 2 = m % 2
                      /\ \A k \in 1 .. Len(Decimal[m]) : Decimal[m][k] < 10
                      /\ Number(10, Decimal[m]) = m
           Bad == { m \in Nat : ~Fine(m) }
<1> SUFFICES ASSUME Bad # {} PROVE FALSE
  OBVIOUS
<1>1. PICK m \in Bad : \A i \in Bad : m <= i
  <2>1. Bad \in SUBSET Nat
    OBVIOUS
  <2> HIDE DEF Bad
  <2> QED
    BY <2>1, Least
<1>2. m \in Nat /\ ~Fine(m)
  BY <1>1
<1>3. CASE m < 10
  <2>1. Decimal[m] = <<m>>
    BY <1>2, <1>3, DecimalIs
  <2>2. Number(10, <<m>>) = m
    BY <1>2, NumberOf
  <2>3. <<m>> # <<>> /\ Len(<<m>>) = 1 /\ <<m>>[1] = m
    OBVIOUS
  <2> QED
    BY <1>2, <1>3, <2>1, <2>2, <2>3
<1>4. CASE ~(m < 10)
  <2>1. m \div 10 \in Nat /\ m \div 10 < m /\ m % 10 \in 0 .. 9 /\ m = (m \div 10) * 10 + (m % 10)
        /\ (m % 10) % 2 = m % 2
    BY <1>2, <1>4
  <2>2. Fine(m \div 10)
    BY <1>1, <2>1
  <2> DEFINE s == Decimal[m \div 10]
             d == m % 10
  <2>3. Decimal[m] = Append(s, d) /\ s \in Seq(Nat) /\ d \in Nat
    <3>1. Decimal[m] = IF m < 10 THEN <<m>> ELSE Append(s, d)
      BY <1>2, DecimalIs
    <3>2. s \in Seq(Nat) /\ d \in Nat
      BY <2>1, DecimalIs
    <3> HIDE DEF s, d
    <3> QED
      BY <1>4, <3>1, <3>2
  <2>4. Number(10, s) = m \div 10 /\ \A k \in 1 .. Len(s) : s[k] < 10
    BY <2>2
  <2>5. d < 10 /\ d % 2 = m % 2 /\ (m \div 10) * 10 + d = m
    BY <2>1
  <2> HIDE DEF s, d, Fine, Bad
  <2>6. Number(10, Append(s, d)) = m
    <3>1. Number(10, Append(s, d)) = Number(10, s) * 10 + d
      BY <2>3, NumberAppend
    <3> QED
      BY <2>4, <2>5, <3>1
  <2>7. /\ Append(s, d) # <<>> /\ Append(s, d)[Len(Append(s, d))] = d
        /\ \A k \in 1 .. Len(Append(s, d)) : Append(s, d)[k] < 10
    <3>1. /\ Len(Append(s, d)) = Len(s) + 1 /\ Len(s) \in Nat /\ Append(s, d)[Len(s) + 1] = d
          /\ Append(s, d) # <<>> /\ \A k \in 1 .. Len(s) : Append(s, d)[k] = s[k]
      BY <2>3
    <3>2. \A k \in 1 .. Len(s) + 1 : k \in 1 .. Len(s) \/ k = Len(s) + 1
      BY <3>1
    <3> QED
      BY <2>4, <2>5, <3>1, <3>2
  <2>8. Fine(m)
    BY <2>3, <2>5, <2>6, <2>7 DEF Fine
  <2> QED
    BY <1>2, <2>8
<1> QED
  BY <1>3, <1>4

-----------------------------------------------------------------------------
(* REMAINDERS                                                              *)

(* A remainder in terms of products, for the steps without division. *)
LEMMA RemainderIs ==
  ASSUME NEW a \in Int, NEW m \in Nat, m >= 1, NEW q \in Int, NEW r \in 0 .. m - 1, a = m * q + r
  PROVE  a % m = r
<1> DEFINE p == a \div m
           s == a % m
<1>1. p \in Int /\ s \in 0 .. m - 1 /\ a = m * p + s
  OBVIOUS
<1> HIDE DEF p, s
<1>2. m * (q - p) = s - r
  <2>1. m * (q - p) = m * q - m * p
    BY <1>1
  <2> QED
    BY <1>1, <2>1
<1>3. q - p >= 1 => m * (q - p) >= m
  BY <1>1
<1>4. q - p <= -1 => m * (q - p) <= -m
  BY <1>1
<1>5. q - p = 0
  BY <1>1, <1>2, <1>3, <1>4
<1>6. m * (q - p) = 0
  BY <1>5
<1> QED
  BY <1>1, <1>2, <1>6 DEF s

LEMMA RemainderNext ==
  ASSUME NEW v \in Nat, NEW m \in Nat, m >= 1
  PROVE  /\ v % m \in 0 .. m - 1 /\ (v + 1) % m \in 0 .. m - 1
         /\ ((v + 1) % m) % m = (v + 1) % m
         /\ ((v % m) + 1) % m = (v + 1) % m
<1> DEFINE q == v \div m
           r == v % m
           x == (v + 1) % m
<1>1. q \in Int /\ r \in 0 .. m - 1 /\ v = m * q + r /\ x \in 0 .. m - 1
  OBVIOUS
<1> HIDE DEF q, r, x
<1>2. x % m = x
  <2>1. x = m * 0 + x /\ x \in Int
    BY <1>1
  <2> QED
    BY <1>1, <2>1, RemainderIs
<1>3. CASE r + 1 < m
  <2>1. v + 1 = m * q + (r + 1) /\ r + 1 \in 0 .. m - 1 /\ v + 1 \in Int
    BY <1>1, <1>3
  <2>2. x = r + 1
    BY <1>1, <2>1, RemainderIs DEF x
  <2>3. r + 1 = m * 0 + (r + 1)
    BY <1>1
  <2>4. (r + 1) % m = r + 1
    BY <2>1, <2>3, RemainderIs
  <2> QED
    BY <1>1, <1>2, <2>2, <2>4 DEF r, x
<1>4. CASE r + 1 = m
  <2>1. m * (q + 1) = m * q + m
    BY <1>1
  <2>2. v + 1 = m * (q + 1) + 0 /\ 0 \in 0 .. m - 1 /\ v + 1 \in Int /\ q + 1 \in Int
    BY <1>1, <1>4, <2>1
  <2>3. x = 0
    BY <2>2, RemainderIs DEF x
  <2>4. r + 1 = m * 1 + 0 /\ r + 1 \in Int
    BY <1>1, <1>4
  <2>5. (r + 1) % m = 0
    BY <2>2, <2>4, RemainderIs
  <2> QED
    BY <1>1, <1>2, <2>3, <2>5 DEF r, x
<1> QED
  BY <1>1, <1>3, <1>4

LEMMA EvenRemainder ==
  ASSUME NEW v \in Nat, NEW h \in Nat, h >= 1
  PROVE  (v % (2 * h)) % 2 = v % 2
<1> DEFINE m == 2 * h
           q == v \div m
           r == v % m
<1>1. m \in Nat /\ m >= 1
  OBVIOUS
<1> HIDE DEF m
<1>2. q \in Int /\ r \in 0 .. m - 1 /\ v = m * q + r
  BY <1>1
<1> HIDE DEF q, r
<1>3. m * q = 2 * (h * q) /\ h * q \in Int
  BY <1>2 DEF m
<1> DEFINE y == h * q
<1>4. v = 2 * y + r /\ y \in Int /\ r \in Int
  BY <1>1, <1>2, <1>3
<1> HIDE DEF y
<1>5. v % 2 = r % 2
  BY <1>4
<1> QED
  BY <1>5 DEF r, m

-----------------------------------------------------------------------------
(* WHAT A NODE BECOMES                                                     *)

LEMMA MinIn ==
  ASSUME NEW S \in SUBSET Nat, S # {}
  PROVE  Min(S) \in S
BY Least DEF Min

LEMMA MaxIn ==
  ASSUME NEW N \in Nat, NEW S \in SUBSET (0 .. N), S # {}
  PROVE  Max(S) \in S
BY Greatest DEF Max

Literals ==
  [is : {"literal"}, size : Nat, base : {2, 8, 10, 16}, digits : Seq(Nat), parameter : BOOLEAN]

LEMMA NodeKinds ==
  ASSUME NEW n \in SyntaxNodes
  PROVE  /\ n.is \in {"literal", "name", "operation", "assign", "event"}
         /\ n.is = "literal" => n \in Literals
         /\ n.is = "name" => n = [is |-> "name", name |-> n.name, role |-> n.role]
         /\ n.is = "operation" => n = [is |-> "operation", symbol |-> n.symbol]
         /\ n.is = "assign" => n = [is |-> "assign", symbol |-> n.symbol, continuous |-> n.continuous]
         /\ n.is = "event" => n = [is |-> "event", edge |-> n.edge]
BY DEF SyntaxNodes, Literals

(* A perturbed literal.                                                     *)
LEMMA NewDigits ==
  ASSUME NEW n \in SyntaxNodes, NEW new \in ConstantPerturbation(n)
  PROVE  /\ n \in Literals
         /\ \A i \in 1 .. Len(n.digits) : n.digits[i] < n.base
         /\ Perturbed(n) \in Nat /\ Number(n.base, n.digits) \in Nat
         /\ new.digits = Decimal[Perturbed(n)] /\ new.size = n.size /\ new.base = n.base
<1>1. /\ n.is = "literal" /\ \A i \in DOMAIN n.digits : n.digits[i] < n.base
      /\ new = [n EXCEPT !.digits = Decimal[Perturbed(n)]]
  BY DEF ConstantPerturbation, When
<1>2. n \in Literals
  BY <1>1, NodeKinds
<1>3. /\ n.digits \in Seq(Nat) /\ DOMAIN n.digits = 1 .. Len(n.digits) /\ n.base \in Nat /\ n.size \in Nat
      /\ n.base \in {2, 8, 10, 16}
  BY <1>2 DEF Literals
<1>4. Number(n.base, n.digits) \in Nat
  BY <1>3, NumberOf
<1>5. Perturbed(n) \in Nat
  <2> DEFINE v == Number(n.base, n.digits)
             m == Power2[n.size]
  <2>1. v \in Nat /\ m \in Nat /\ m >= 1
    BY <1>3, <1>4, PowersOfTwo
  <2>2. Perturbed(n) = IF n.size = 0 THEN v + 1 ELSE (v + 1) % m
    BY DEF Perturbed
  <2> HIDE DEF v, m
  <2>3. (v + 1) % m \in Nat
    BY <2>1
  <2> QED
    BY <2>1, <2>2, <2>3
<1>6. new.digits = Decimal[Perturbed(n)] /\ new.size = n.size /\ new.base = n.base
  BY <1>1, <1>2 DEF Literals
<1> QED
  BY <1>1, <1>2, <1>3, <1>4, <1>5, <1>6

(* One more is even where the old value is odd, also after the wrap.        *)
LEMMA PerturbedParity ==
  ASSUME NEW n \in SyntaxNodes, NEW new \in ConstantPerturbation(n)
  PROVE  new # n
<1> DEFINE v == Number(n.base, n.digits)
           w == Perturbed(n)
<1>1. n \in Literals /\ v \in Nat /\ w \in Nat /\ new.digits = Decimal[w]
  BY NewDigits
<1>2. n.digits \in Seq(Nat) /\ n.base \in {2, 8, 10, 16} /\ n.size \in Nat
  BY <1>1 DEF Literals
<1>3. w = IF n.size = 0 THEN v + 1 ELSE (v + 1) % Power2[n.size]
  BY DEF Perturbed
<1>4. n.digits # <<>> => v % 2 = n.digits[Len(n.digits)] % 2
  BY <1>2, LastDigit
<1> HIDE DEF v, w
<1>5. w % 2 = (v + 1) % 2
  <2>1. CASE n.size = 0
    BY <1>3, <2>1
  <2>2. CASE n.size # 0
    <3> DEFINE h == Power2[n.size - 1]
    <3>1. Power2[n.size] = 2 * h /\ h \in Nat /\ h >= 1
      <4>1. n.size - 1 \in Nat
        BY <1>2, <2>2
      <4> QED
        BY <1>2, <2>2, <4>1, PowersOfTwo
    <3> HIDE DEF h
    <3>2. v + 1 \in Nat
      BY <1>1
    <3>3. ((v + 1) % (2 * h)) % 2 = (v + 1) % 2
      BY <3>1, <3>2, EvenRemainder
    <3> QED
      BY <1>3, <2>2, <3>1, <3>3
  <2> QED
    BY <2>1, <2>2
<1>6. Decimal[w] # <<>> /\ Decimal[w][Len(Decimal[w])] % 2 = w % 2
  BY <1>1, DecimalNumber
<1> SUFFICES ASSUME new = n PROVE FALSE
  OBVIOUS
<1>7. n.digits = Decimal[w]
  BY <1>1
<1>8. v % 2 = w % 2
  BY <1>4, <1>6, <1>7
<1> QED
  BY <1>1, <1>5, <1>8

(* The signal of a substitution is declared, the name of a redirection is   *)
(* of a constant.                                                           *)
LEMMA Substituted ==
  ASSUME NEW n \in SyntaxNodes, NEW new \in SignalSubstitution(n)
  PROVE  /\ n.is = "name" /\ new = [is |-> "name", name |-> new.name, role |-> n.role]
         /\ new.name # n.name /\ \E i \in DOMAIN Declared : new.name = Declared[i].name
<1>1. /\ n.is = "name" /\ Peers(n.name) # {}
      /\ new = [n EXCEPT !.name = Declared[Min(Peers(n.name))].name]
  BY DEF SignalSubstitution, When
<1>2. Peers(n.name) \in SUBSET Nat
  BY DeclaredAssumption DEF Peers
<1> DEFINE i == Min(Peers(n.name))
<1>3. i \in Peers(n.name)
  BY <1>1, <1>2, MinIn
<1> HIDE DEF i
<1>4. i \in DOMAIN Declared /\ Declared[i].name # n.name
  BY <1>3 DEF Peers
<1>5. new = [is |-> "name", name |-> Declared[i].name, role |-> n.role]
  BY <1>1, NodeKinds DEF i
<1>6. new.name = Declared[i].name
  BY <1>5
<1>7. new = [is |-> "name", name |-> new.name, role |-> n.role]
  BY <1>5, <1>6
<1> QED
  BY <1>1, <1>4, <1>6, <1>7

LEMMA Redirected ==
  ASSUME NEW n \in SyntaxNodes, NEW new \in NextStateRedirect(n)
  PROVE  /\ n.is = "name" /\ new = [is |-> "name", name |-> new.name, role |-> n.role]
         /\ new.name # n.name /\ \E g \in ToSet(Groups) : new.name \in ToSet(g)
<1> DEFINE k == Max(GroupsOf(n.name))
           i == Min(Siblings(n.name))
<1>1. /\ n.is = "name" /\ GroupsOf(n.name) # {} /\ Siblings(n.name) # {}
      /\ new = [n EXCEPT !.name = Groups[k][i]]
  BY DEF NextStateRedirect, When
<1>2. k \in GroupsOf(n.name)
  <2>1. GroupsOf(n.name) \in SUBSET (0 .. Len(Groups)) /\ Len(Groups) \in Nat
    BY GroupsAssumption DEF GroupsOf
  <2> QED
    BY <1>1, <2>1, MaxIn
<1>3. k \in DOMAIN Groups /\ Groups[k] \in ToSet(Groups)
  BY <1>2 DEF GroupsOf, ToSet
<1>4. Siblings(n.name) = { j \in DOMAIN Groups[k] : Groups[k][j] # n.name }
  BY DEF Siblings
<1> HIDE DEF k
<1>5. i \in Siblings(n.name)
  <2>1. Siblings(n.name) \in SUBSET Nat
    BY <1>3, <1>4, GroupsAssumption
  <2> QED
    BY <1>1, <2>1, MinIn
<1>6. Groups[k][i] # n.name /\ Groups[k][i] \in ToSet(Groups[k])
  BY <1>4, <1>5 DEF ToSet
<1> HIDE DEF i
<1>7. new = [is |-> "name", name |-> Groups[k][i], role |-> n.role]
  BY <1>1, NodeKinds
<1> QED
  BY <1>1, <1>3, <1>6, <1>7

(* A list with one more element. *)
LEMMA Grown ==
  ASSUME NEW s, s \in Seq(ToSet(s)), NEW e
  PROVE  /\ Append(s, e) \in Seq(ToSet(Append(s, e)))
         /\ Len(Append(s, e)) = Len(s) + 1 /\ Append(s, e)[Len(s) + 1] = e
         /\ \A i \in 1 .. Len(s) : Append(s, e)[i] = s[i]
<1> DEFINE t == Append(s, e)
<1>1. s \in Seq(ToSet(s) \cup {e}) /\ e \in ToSet(s) \cup {e}
  BY DEF ToSet
<1>2. t \in Seq(ToSet(s) \cup {e})
  BY <1>1
<1>3. /\ Len(s) \in Nat /\ Len(t) = Len(s) + 1 /\ DOMAIN t = 1 .. Len(s) + 1
      /\ t[Len(s) + 1] = e /\ \A i \in 1 .. Len(s) : t[i] = s[i]
  BY <1>1
<1> HIDE DEF t
<1>4. \A i \in 1 .. Len(t) : t[i] \in ToSet(t)
  BY <1>3 DEF ToSet
<1>5. t \in Seq(ToSet(t))
  BY <1>2, <1>4
<1> QED
  BY <1>3, <1>5 DEF t

(* Swaps goes both ways between different symbols. *)
LEMMA Swapped ==
  ASSUME NEW n \in SyntaxNodes, NEW new \in OperatorSwap(n)
  PROVE  n.is = "operation" /\ new # n
<1>1. PICK swap \in Swaps : swap[1] = n.symbol /\ new = Operation(swap[2]) /\ n.is = "operation"
  BY DEF OperatorSwap
<1>2. swap[1] # swap[2]
  BY DEF Swaps
<1> QED
  BY <1>1, <1>2 DEF Operation

(* No operator proposes the golden text.                                    *)
LEMMA BecomesOther ==
  ASSUME NEW n \in SyntaxNodes, NEW o \in 1 .. 6, NEW new \in Becomes(AllOperators[o], n)
  PROVE  new # n
<1>1. CASE o = 1
  BY <1>1, Swapped DEF Becomes, AllOperators
<1>2. CASE o = 2
  BY <1>2, PerturbedParity DEF Becomes, AllOperators
<1>3. CASE o = 3
  <2>1. n.is = "assign" /\ new = [n EXCEPT !.symbol = IF @ = "<=" THEN "=" ELSE "<="]
    BY <1>3 DEF Becomes, AllOperators, BlockingNonblockingSwap
  <2>2. n = [is |-> "assign", symbol |-> n.symbol, continuous |-> n.continuous]
    BY <2>1, NodeKinds
  <2>3. new.symbol = IF n.symbol = "<=" THEN "=" ELSE "<="
    BY <2>1, <2>2
  <2> QED
    BY <2>3
<1>4. CASE o = 4
  <2>1. new = Event(IF n.edge = "posedge" THEN "negedge" ELSE "posedge")
    BY <1>4 DEF Becomes, AllOperators, EdgeSwap, When
  <2> QED
    BY <2>1 DEF Event
<1>5. CASE o = 5
  BY <1>5, Substituted DEF Becomes, AllOperators
<1>6. CASE o = 6
  BY <1>6, Redirected DEF Becomes, AllOperators
<1> QED
  BY <1>1, <1>2, <1>3, <1>4, <1>5, <1>6

(* The kind of node each operator looks at. *)
Looks == <<"operation", "literal", "assign", "event", "name", "name">>

LEMMA LooksAt ==
  ASSUME NEW n \in SyntaxNodes, NEW o \in 1 .. 6, NEW new \in Becomes(AllOperators[o], n)
  PROVE  n.is = Looks[o]
<1>1. CASE o = 1
  BY <1>1 DEF Becomes, AllOperators, OperatorSwap, Looks
<1>2. CASE o = 2
  BY <1>2 DEF Becomes, AllOperators, ConstantPerturbation, Looks
<1>3. CASE o = 3
  BY <1>3 DEF Becomes, AllOperators, BlockingNonblockingSwap, Looks
<1>4. CASE o = 4
  BY <1>4 DEF Becomes, AllOperators, EdgeSwap, Looks
<1>5. CASE o = 5
  BY <1>5 DEF Becomes, AllOperators, SignalSubstitution, Looks
<1>6. CASE o = 6
  BY <1>6 DEF Becomes, AllOperators, NextStateRedirect, Looks
<1> QED
  BY <1>1, <1>2, <1>3, <1>4, <1>5, <1>6

(* No two of them propose the same.                                         *)
LEMMA BecomesOne ==
  ASSUME NEW n \in SyntaxNodes, NEW o \in 1 .. 6, NEW p \in 1 .. 6, o # p,
         NEW new \in Becomes(AllOperators[o], n)
  PROVE  new \notin Becomes(AllOperators[p], n)
<1> SUFFICES ASSUME new \in Becomes(AllOperators[p], n) PROVE FALSE
  OBVIOUS
<1>1. Looks[o] = Looks[p]
  BY LooksAt
<1>2. {o, p} = {5, 6}
  BY <1>1 DEF Looks
<1>3. new \in SignalSubstitution(n) /\ new \in NextStateRedirect(n)
  BY <1>2 DEF Becomes, AllOperators
<1>4. \E i \in DOMAIN Declared : new.name = Declared[i].name
  BY <1>3, Substituted
<1>5. \E g \in ToSet(Groups) : new.name \in ToSet(g)
  BY <1>3, Redirected
<1> QED
  BY <1>4, <1>5, DeclaredAssumption

-----------------------------------------------------------------------------
(* THE WALK                                                                *)

(* A candidate was found where an operator has looked.                      *)
Proposed(c, done, looked) ==
  /\ c.at \in 1 .. Len(code)
  /\ \E o \in 1 .. 6 :
       /\ c.operator = AllOperators[o] /\ c.new \in Becomes(AllOperators[o], code[c.at])
       /\ o <= done \/ (o = done + 1 /\ c.at <= looked)

(* Type invariant of the walk, and what it has found so far. *)
MutationsTypeOK ==
  /\ code \in Seq(SyntaxNodes)
  /\ applied \in 0 .. 6 /\ walked \in 0 .. Len(code)
  /\ candidates \in Seq(ToSet(candidates))

FoundInv ==
  /\ MutationsTypeOK
  /\ \A k \in 1 .. Len(candidates) : Proposed(candidates[k], applied, walked)
  /\ \A j, k \in 1 .. Len(candidates) :
       candidates[j].at = candidates[k].at /\ candidates[j].operator = candidates[k].operator => j = k

LEMMA OperatorNames ==
  /\ Len(AllOperators) = 6
  /\ \A o, p \in 1 .. 6 : AllOperators[o] = AllOperators[p] => o = p
BY DEF AllOperators

LEMMA MutationsStarts ==
  ASSUME NEW nodes \in Seq(SyntaxNodes), MutationsStart(nodes)
  PROVE  FoundInv
BY DEF MutationsStart, FoundInv, MutationsTypeOK, ToSet

LEMMA MutationsStep == FoundInv /\ [MutationsNext]_mutationVars => FoundInv'
<1> SUFFICES ASSUME FoundInv, [MutationsNext]_mutationVars PROVE FoundInv'
  OBVIOUS
<1>0. /\ code \in Seq(SyntaxNodes) /\ Len(code) \in Nat
      /\ applied \in 0 .. 6 /\ walked \in 0 .. Len(code)
      /\ candidates \in Seq(ToSet(candidates)) /\ Len(candidates) \in Nat
      /\ \A k \in 1 .. Len(candidates) : Proposed(candidates[k], applied, walked)
      /\ \A j, k \in 1 .. Len(candidates) :
           candidates[j].at = candidates[k].at /\ candidates[j].operator = candidates[k].operator => j = k
  BY DEF FoundInv, MutationsTypeOK
<1>1. CASE LookAt
  <2>1. /\ applied < 6 /\ walked < Len(code) /\ walked' = walked + 1 /\ code' = code /\ applied' = applied
    BY <1>1, OperatorNames DEF LookAt
  <2>2. \A k \in 1 .. Len(candidates) : Proposed(candidates[k], applied, walked + 1)
    BY <1>0 DEF Proposed
  <2>3. walked' \in 0 .. Len(code')
    BY <1>0, <2>1
  <2>4. CASE candidates' = candidates
    BY <1>0, <2>1, <2>2, <2>3, <2>4 DEF FoundInv, MutationsTypeOK, Proposed
  <2>5. CASE candidates' # candidates
    <3> DEFINE o == applied + 1
    <3>1. PICK n \in Becomes(AllOperators[o], code[walked + 1]) :
            candidates' = Append(candidates, [at |-> walked + 1, new |-> n, operator |-> AllOperators[o]])
      BY <1>1, <2>5 DEF LookAt
    <3> DEFINE c == [at |-> walked + 1, new |-> n, operator |-> AllOperators[o]]
    <3>2. c.at = walked + 1 /\ c.operator = AllOperators[o] /\ c.new = n
      OBVIOUS
    <3> HIDE DEF c
    <3>3. /\ candidates' \in Seq(ToSet(candidates')) /\ Len(candidates') = Len(candidates) + 1
          /\ candidates'[Len(candidates) + 1] = c
          /\ \A k \in 1 .. Len(candidates) : candidates'[k] = candidates[k]
      BY <1>0, <3>1, Grown DEF c
    <3>4. o \in 1 .. 6 /\ walked + 1 \in 1 .. Len(code)
      BY <1>0, <2>1
    <3>5. Proposed(c, applied, walked + 1)
      BY <1>0, <3>1, <3>2, <3>4 DEF Proposed
    <3>6. ASSUME NEW k \in 1 .. Len(candidates), candidates[k].operator = c.operator
          PROVE  candidates[k].at # c.at
      <4>1. PICK p \in 1 .. 6 : /\ candidates[k].operator = AllOperators[p]
                                /\ p <= applied \/ (p = applied + 1 /\ candidates[k].at <= walked)
        BY <1>0 DEF Proposed
      <4>2. p = o
        BY <3>2, <3>4, <3>6, <4>1, OperatorNames
      <4>3. candidates[k].at <= walked /\ candidates[k].at \in 1 .. Len(code)
        BY <1>0, <4>1, <4>2 DEF Proposed
      <4> QED
        BY <1>0, <3>2, <4>3
    <3>7. \A k \in 1 .. Len(candidates') : k \in 1 .. Len(candidates) \/ k = Len(candidates) + 1
      BY <1>0, <3>3
    <3>8. \A k \in 1 .. Len(candidates') : Proposed(candidates'[k], applied, walked + 1)
      BY <2>2, <3>3, <3>5, <3>7
    <3>9. \A j, k \in 1 .. Len(candidates') :
            candidates'[j].at = candidates'[k].at /\ candidates'[j].operator = candidates'[k].operator => j = k
      BY <1>0, <3>3, <3>6, <3>7
    <3> QED
      BY <1>0, <2>1, <2>3, <3>3, <3>8, <3>9 DEF FoundInv, MutationsTypeOK, Proposed
  <2> QED
    BY <2>4, <2>5
<1>2. CASE OperatorApplied
  <2>1. /\ applied < 6 /\ walked = Len(code) /\ applied' = applied + 1 /\ walked' = 0
        /\ code' = code /\ candidates' = candidates
    BY <1>2, OperatorNames DEF OperatorApplied
  <2>2. ASSUME NEW k \in 1 .. Len(candidates) PROVE Proposed(candidates[k], applied + 1, 0)
    <3>1. Proposed(candidates[k], applied, walked)
      BY <1>0
    <3>2. \A p \in 1 .. 6 : p <= applied \/ p = applied + 1 => p <= applied + 1
      BY <1>0
    <3> QED
      BY <3>1, <3>2 DEF Proposed
  <2>3. applied' \in 0 .. 6 /\ walked' \in 0 .. Len(code')
    BY <1>0, <2>1
  <2> QED
    BY <1>0, <2>1, <2>2, <2>3 DEF FoundInv, MutationsTypeOK, Proposed
<1>3. CASE UNCHANGED mutationVars
  BY <1>3 DEF mutationVars, FoundInv, MutationsTypeOK, Proposed
<1> QED
  BY <1>1, <1>2, <1>3 DEF MutationsNext

(* Different places, operators or new nodes make different candidates. *)
LEMMA CandidatesDistinct == FoundInv => MutantsDistinct
<1> SUFFICES ASSUME FoundInv PROVE MutantsDistinct
  OBVIOUS
<1>1. /\ code \in Seq(SyntaxNodes)
      /\ DOMAIN candidates = 1 .. Len(candidates)
      /\ \A k \in 1 .. Len(candidates) : Proposed(candidates[k], applied, walked)
      /\ \A j, k \in 1 .. Len(candidates) :
           candidates[j].at = candidates[k].at /\ candidates[j].operator = candidates[k].operator => j = k
  BY DEF FoundInv, MutationsTypeOK
<1>2. ASSUME NEW k \in 1 .. Len(candidates)
      PROVE  candidates[k].at \in DOMAIN code /\ candidates[k].new # code[candidates[k].at]
  BY <1>1, BecomesOther DEF Proposed
<1>3. ASSUME NEW k \in 1 .. Len(candidates) PROVE Mutated(candidates[k]) # code
  BY <1>2 DEF Mutated
<1>4. ASSUME NEW j \in 1 .. Len(candidates), NEW k \in 1 .. Len(candidates),
             Mutated(candidates[j]) = Mutated(candidates[k])
      PROVE  j = k
  <2> DEFINE c == candidates[j]
             d == candidates[k]
  <2>1. c.at \in DOMAIN code /\ d.at \in DOMAIN code /\ c.new # code[c.at]
    BY <1>2
  <2>2. [code EXCEPT ![c.at] = c.new] = [code EXCEPT ![d.at] = d.new]
    BY <1>4 DEF Mutated
  <2>3. Proposed(c, applied, walked) /\ Proposed(d, applied, walked)
    BY <1>1
  <2>4. c.at = d.at /\ c.operator = d.operator => j = k
    BY <1>1
  <2> HIDE DEF c, d
  <2>5. c.at = d.at
    <3> SUFFICES ASSUME c.at # d.at PROVE FALSE
      OBVIOUS
    <3>1. [code EXCEPT ![c.at] = c.new][c.at] = c.new
      BY <2>1
    <3>2. [code EXCEPT ![d.at] = d.new][c.at] = code[c.at]
      BY <2>1
    <3> QED
      BY <2>1, <2>2, <3>1, <3>2
  <2>6. c.new = d.new
    <3>1. [code EXCEPT ![c.at] = c.new][c.at] = c.new /\ [code EXCEPT ![d.at] = d.new][d.at] = d.new
      BY <2>1
    <3> QED
      BY <2>2, <2>5, <3>1
  <2>7. PICK o \in 1 .. 6 : c.operator = AllOperators[o] /\ c.new \in Becomes(AllOperators[o], code[c.at])
    BY <2>3 DEF Proposed
  <2>8. PICK p \in 1 .. 6 : d.operator = AllOperators[p] /\ d.new \in Becomes(AllOperators[p], code[d.at])
    BY <2>3 DEF Proposed
  <2>9. code[c.at] \in SyntaxNodes
    BY <1>1, <2>1
  <2>10. o = p
    BY <2>5, <2>6, <2>7, <2>8, <2>9, BecomesOne
  <2> QED
    BY <2>4, <2>5, <2>7, <2>8, <2>10
<1> QED
  BY <1>1, <1>3, <1>4 DEF MutantsDistinct

(* A decimal literal, or one of one bit, is read as it was meant.           *)
LEMMA PerturbedOne ==
  ASSUME NEW n \in SyntaxNodes, NEW new \in ConstantPerturbation(n), n.base = 10 \/ n.size = 1
  PROVE  ByOne(n, new)
<1> DEFINE v == Number(n.base, n.digits)
           w == Perturbed(n)
           m == Power2[n.size]
<1>1. /\ n \in Literals /\ v \in Nat /\ w \in Nat /\ new.digits = Decimal[w]
      /\ new.size = n.size /\ new.base = n.base
      /\ \A i \in 1 .. Len(n.digits) : n.digits[i] < n.base
  BY NewDigits
<1>2. /\ n.digits \in Seq(Nat) /\ DOMAIN n.digits = 1 .. Len(n.digits)
      /\ n.base \in {2, 8, 10, 16} /\ n.size \in Nat
  BY <1>1 DEF Literals
<1>3. w = IF n.size = 0 THEN v + 1 ELSE (v + 1) % m
  BY DEF Perturbed
<1>4. m \in Nat /\ m >= 1 /\ (n.size = 1 => m = 2)
  <2>1. Power2[1] = 2 * Power2[1 - 1] /\ Power2[0] = 1
    BY PowersOfTwo
  <2> QED
    BY <1>2, <2>1, PowersOfTwo
<1>5. /\ \A i \in 1 .. Len(Decimal[w]) : Decimal[w][i] < n.base
      /\ Number(n.base, Decimal[w]) = w
  <2>1. CASE n.base = 10
    BY <1>1, <2>1, DecimalNumber
  <2>2. CASE n.size = 1
    <3>1. w \in 0 .. 1
      <4> HIDE DEF w, m, v
      <4> QED
        BY <1>1, <1>3, <1>4, <2>2
    <3>2. Decimal[w] = <<w>>
      <4> HIDE DEF w
      <4>1. w \in Nat /\ w < 10
        BY <3>1
      <4>2. Decimal[w] = IF w < 10 THEN <<w>> ELSE Append(Decimal[w \div 10], w % 10)
        BY <4>1, DecimalIs
      <4> QED
        BY <4>1, <4>2
    <3>3. Number(n.base, <<w>>) = w
      <4>1. n.base \in Nat
        BY <1>2
      <4> QED
        BY <1>1, <4>1, NumberOf
    <3> HIDE DEF w
    <3>4. Len(<<w>>) = 1 /\ <<w>>[1] = w
      OBVIOUS
    <3>5. w < n.base
      BY <1>2, <3>1
    <3> QED
      BY <3>2, <3>3, <3>4, <3>5
  <2> QED
    BY <2>1, <2>2
<1>6. DOMAIN Decimal[w] = 1 .. Len(Decimal[w]) /\ Decimal[w] \in Seq(Nat)
  BY <1>1, DecimalIs
<1>7. /\ \A i \in DOMAIN new.digits : ~(new.digits[i] >= new.base)
      /\ \A i \in DOMAIN n.digits : ~(n.digits[i] >= n.base)
  <2>1. \A i \in 1 .. Len(n.digits) : n.digits[i] \in Nat /\ n.digits[i] < n.base /\ n.base \in Nat
    BY <1>1, <1>2
  <2>2. \A i \in 1 .. Len(Decimal[w]) : Decimal[w][i] \in Nat /\ Decimal[w][i] < n.base
    BY <1>5, <1>6
  <2>3. \A a, b \in Nat : a < b => ~(a >= b)
    OBVIOUS
  <2> HIDE DEF w
  <2>4. \A i \in DOMAIN n.digits : ~(n.digits[i] >= n.base)
    BY <1>2, <2>1, <2>3
  <2>5. \A i \in DOMAIN Decimal[w] : ~(Decimal[w][i] >= n.base)
    BY <1>2, <1>6, <2>2, <2>3
  <2> QED
    BY <1>1, <2>4, <2>5
<1>8. Worth(n) = IF n.size = 0 THEN v ELSE v % m
  BY <1>7 DEF Worth
<1>9. Worth(new) = IF n.size = 0 THEN w ELSE w % m
  BY <1>1, <1>5, <1>7 DEF Worth
<1>10. ByOne(n, new) <=> Worth(new) = IF n.size = 0 THEN Worth(n) + 1 ELSE (Worth(n) + 1) % m
  BY DEF ByOne
<1> HIDE DEF v, w, m
<1>11. ((v + 1) % m) % m = (v + 1) % m /\ ((v % m) + 1) % m = (v + 1) % m
  BY <1>1, <1>4, RemainderNext
<1> QED
  BY <1>3, <1>8, <1>9, <1>10, <1>11

LEMMA DecimalsByOne == FoundInv => DecimalsPerturbedByOne
<1> SUFFICES ASSUME FoundInv, NEW c \in Perturbations, code[c.at].base = 10 \/ code[c.at].size = 1
             PROVE  ByOne(code[c.at], c.new)
  BY DEF DecimalsPerturbedByOne
<1>1. c \in ToSet(candidates) /\ c.operator = "constant_perturbation"
  BY DEF Perturbations
<1>2. PICK k \in 1 .. Len(candidates) : c = candidates[k]
  BY <1>1 DEF FoundInv, MutationsTypeOK, ToSet
<1>3. c.at \in 1 .. Len(code) /\ code[c.at] \in SyntaxNodes
  BY <1>2 DEF FoundInv, MutationsTypeOK, Proposed
<1>4. PICK o \in 1 .. 6 : c.operator = AllOperators[o] /\ c.new \in Becomes(AllOperators[o], code[c.at])
  BY <1>2 DEF FoundInv, Proposed
<1>5. c.new \in ConstantPerturbation(code[c.at])
  BY <1>1, <1>4 DEF Becomes
<1> QED
  BY <1>3, <1>5, PerturbedOne

(***************************************************************************)
(* generate_for_design numbers no mutant twice and proposes none that is   *)
(* the golden text, for any source, declarations and groups of constants.  *)
(***************************************************************************)
THEOREM MutantsDistinctCorrect == MutationsSpec => []MutantsDistinct
<1>1. MutationsInit => FoundInv
  BY MutationsStarts, CodesAssumption DEF MutationsInit
<1> QED
  BY <1>1, MutationsStep, CandidatesDistinct, PTL DEF MutationsSpec

(***************************************************************************)
(* _constant_perturbation adds one, modulo the width, to every literal that*)
(* is decimal or has one bit.                                              *)
(***************************************************************************)
THEOREM DecimalsPerturbedByOneCorrect == MutationsSpec => []DecimalsPerturbedByOne
<1>1. MutationsInit => FoundInv
  BY MutationsStarts, CodesAssumption DEF MutationsInit
<1> QED
  BY <1>1, MutationsStep, DecimalsByOne, PTL DEF MutationsSpec

-----------------------------------------------------------------------------
(* BOUNDED CHECKS                                                          *)

(* One edge of golden and mutant. *)
Both(m, p, reset, go) ==
  <<Edge(p[1], reset, go), MutantEdge(m, p[2], reset, go)>>

(* A run of the miter that never ends: any registers at power-up, a reset   *)
(* at the first step, any inputs later.                                     *)
Endless(m, p, reset, go) ==
  /\ p[0] \in Registers \X Registers /\ reset \in [Nat -> Bit] /\ go \in [Nat -> Bit]
  /\ reset[0] = 0
  /\ \A n \in Nat : p[n + 1] = Both(m, p[n], reset[n], go[n])

(* The assertions hold at every step after the first (reset is free there,  *)
(* so their guard excludes no pair of registers).                           *)
Equivalent(m) ==
  \A p, reset, go : Endless(m, p, reset, go) =>
    \A n \in Nat \ {0} : SameOutputs(p[n][1], p[n][2])

(* Pairs that the first edge leads to, and that no edge leaves. *)
Closes(m, S) ==
  /\ \A p \in Registers \X Registers, go \in Bit : Both(m, p, 0, go) \in S
  /\ \A p \in S, reset \in Bit, go \in Bit : Both(m, p, reset, go) \in S

(* No run leaves such a set, so one that agrees everywhere is a proof. *)
LEMMA ClosedAgrees ==
  ASSUME NEW m, NEW S, Closes(m, S), \A p \in S : SameOutputs(p[1], p[2])
  PROVE  Equivalent(m)
<1> SUFFICES ASSUME NEW p, NEW reset, NEW go, Endless(m, p, reset, go)
             PROVE  \A n \in Nat \ {0} : p[n] \in S
  BY DEF Equivalent
<1> DEFINE Bad == { n \in Nat : n # 0 /\ p[n] \notin S }
<1> SUFFICES ASSUME Bad # {} PROVE FALSE
  OBVIOUS
<1>1. PICK n \in Bad : \A i \in Bad : n <= i
  <2>1. Bad \in SUBSET Nat
    OBVIOUS
  <2> HIDE DEF Bad
  <2> QED
    BY <2>1, Least
<1>2. n \in Nat /\ n # 0 /\ p[n] \notin S
  BY <1>1
<1>3. n - 1 \in Nat /\ (n - 1) + 1 = n /\ n - 1 < n
  BY <1>2
<1>4. p[n] = Both(m, p[n - 1], reset[n - 1], go[n - 1])
  <2> DEFINE k == n - 1
  <2>1. k \in Nat /\ k + 1 = n
    BY <1>3
  <2> HIDE DEF k
  <2>2. p[k + 1] = Both(m, p[k], reset[k], go[k])
    BY <2>1 DEF Endless
  <2> QED
    BY <2>1, <2>2 DEF k
<1>5. reset[n - 1] \in Bit /\ go[n - 1] \in Bit
  BY <1>3 DEF Endless
<1>6. CASE n - 1 = 0
  <2>1. p[n - 1] \in Registers \X Registers /\ reset[n - 1] = 0
    BY <1>6 DEF Endless
  <2> QED
    BY <1>2, <1>4, <1>5, <2>1 DEF Closes
<1>7. CASE n - 1 # 0
  <2>1. p[n - 1] \in S
    BY <1>1, <1>3, <1>7
  <2> QED
    BY <1>2, <1>4, <1>5, <2>1 DEF Closes
<1> QED
  BY <1>6, <1>7

(* What was looked at in earlier steps leads to nothing else that has not   *)
(* been looked at.                                                          *)
BmcInv ==
  /\ depth \in 0 .. FormalDepth - 1
  /\ depth # 0 => pairs \subseteq reached
  /\ depth # 0 => \A p \in Registers \X Registers, go \in Bit : Both(mutant, p, 0, go) \in reached
  /\ \A p \in reached, reset \in Bit, go \in Bit : p \in pairs \/ Both(mutant, p, reset, go) \in reached
  /\ diverged = Never => \A p \in reached : SameOutputs(p[1], p[2])
  /\ depth = 0 => reached = {}

LEMMA BmcInitInv == BmcInit => BmcInv
BY DEF BmcInit, BmcInv, FormalDepth, Never

LEMMA BmcStep == BmcInv /\ [BmcNext]_bmcVars => BmcInv'
<1> SUFFICES ASSUME BmcInv, [BmcNext]_bmcVars PROVE BmcInv'
  OBVIOUS
<1>1. CASE Deepen
  <2>1. /\ depth < FormalDepth - 1 /\ diverged = Never /\ depth' = depth + 1
        /\ pairs' = Later /\ reached' = reached \cup Later /\ mutant' = mutant
        /\ diverged' = IF \A p \in Later : SameOutputs(p[1], p[2]) THEN Never ELSE depth + 1
    BY <1>1 DEF Deepen
  <2>2. depth' \in 0 .. FormalDepth - 1 /\ depth' # 0 /\ depth + 1 # Never
    BY <2>1 DEF BmcInv, FormalDepth, Never
  <2>3. Later = { Both(mutant, p, reset, go) : p \in Earlier, reset \in Resets, go \in Bit }
    BY DEF Later, Both
  <2>4. \A p \in Registers \X Registers, go \in Bit : Both(mutant', p, 0, go) \in reached'
    <3>1. CASE depth = 0
      BY <2>1, <2>3, <3>1 DEF Earlier, Resets
    <3>2. CASE depth # 0
      BY <2>1, <3>2 DEF BmcInv
    <3> QED
      BY <3>1, <3>2
  <2>5. ASSUME NEW p \in reached, NEW reset \in Bit, NEW go \in Bit
        PROVE  Both(mutant', p, reset, go) \in reached'
    <3>1. depth # 0
      BY <2>5 DEF BmcInv
    <3>2. p \in pairs => Both(mutant, p, reset, go) \in Later
      BY <2>3, <3>1 DEF Earlier, Resets
    <3> QED
      BY <2>1, <2>5, <3>2 DEF BmcInv
  <2>6. diverged' = Never => \A p \in reached' : SameOutputs(p[1], p[2])
    BY <2>1, <2>2 DEF BmcInv
  <2> QED
    BY <2>1, <2>2, <2>4, <2>5, <2>6 DEF BmcInv
<1>2. CASE UNCHANGED bmcVars
  BY <1>2 DEF bmcVars, BmcInv
<1> QED
  BY <1>1, <1>2 DEF BmcNext

(* A pass after which one more step has nothing new is a proof.             *)
PassIsProof ==
  BmcDone /\ diverged = Never /\ Later \subseteq reached => Equivalent(mutant)

LEMMA PassProves == BmcInv => PassIsProof
<1> SUFFICES ASSUME BmcInv, BmcDone, diverged = Never, Later \subseteq reached PROVE Equivalent(mutant)
  BY DEF PassIsProof
<1>1. depth # 0
  BY DEF BmcDone, FormalDepth
<1>2. Later = { Both(mutant, p, reset, go) : p \in pairs, reset \in Bit, go \in Bit }
  BY <1>1 DEF Later, Both, Earlier, Resets
<1>3. Closes(mutant, reached)
  BY <1>1, <1>2 DEF Closes, BmcInv
<1> QED
  BY <1>3, ClosedAgrees DEF BmcInv

(***************************************************************************)
(* A bmc pass of the forge at formal_k is a proof of equivalence whenever  *)
(* one step more would look at nothing new.                                *)
(***************************************************************************)
THEOREM PassIsProofCorrect == BmcSpec => []PassIsProof
<1> QED
  BY BmcInitInv, BmcStep, PassProves, PTL DEF BmcSpec

(***************************************************************************)
(* What the run shows of the bound of the fsm design is therefore what     *)
(* corpus.py wants of a quarantined mutant: it is equivalent.              *)
(***************************************************************************)
THEOREM BoundSufficesProves ==
  BmcSpec => [](BoundSuffices /\ BmcDone /\ diverged = Never => Equivalent(mutant))
<1>1. PassIsProof => (BoundSuffices /\ BmcDone /\ diverged = Never => Equivalent(mutant))
  BY DEF PassIsProof, BoundSuffices
<1> QED
  BY <1>1, PassIsProofCorrect, PTL

-----------------------------------------------------------------------------
(* THE QUARANTINED MUTANTS OF THE FSM                                      *)

(* How the registers of golden and mutant go together once reset.           *)
Matched(m, r, u) ==
  /\ r.state \in {IDLE, RUN, FINISH} /\ u.state = r.state
  /\ u.busy = r.busy /\ u.done = r.done
  /\ m = "n36" => u.counter = r.counter
  /\ m = "n2" /\ r.state = RUN => u.counter = r.counter
  /\ m = "n1" /\ r.state = RUN => r.counter \in 0 .. LAST /\ u.counter = (8 - r.counter) % 8
MatchedPairs(m) == { p \in Registers \X Registers : Matched(m, p[1], p[2]) }

(* What the edge is to each of them. *)
LEMMA QuarantinedEdges ==
  ASSUME NEW u \in Registers, NEW reset \in Bit, NEW go \in Bit,
         NEW q \in {"n1", "n2", "n36"}, reset = 0 \/ u.state \in {IDLE, RUN, FINISH}
  PROVE  MutantEdge(q, u, reset, go) =
           IF q = "n1" /\ reset = 1 /\ u.state = RUN
           THEN Running(u, u.counter = LAST, u.counter + 7)
           ELSE IF q = "n2" /\ reset = 0 THEN [Edge(u, reset, go) EXCEPT !.counter = 1]
           ELSE Edge(u, reset, go)
<1>1. "n1" \notin DOMAIN Assigned /\ "n2" \in DOMAIN Assigned /\ "n36" \in DOMAIN Assigned
  BY DEF Assigned
<1>2. Assigned["n2"] = <<{"reset"}, "counter", 1>> /\ Assigned["n36"] = <<{"other"}, "state", RUN>>
  BY DEF Assigned
<1>3. /\ (Place(u, reset, go) = "reset") <=> (reset = 0)
      /\ reset = 0 \/ u.state \in {IDLE, RUN, FINISH} => Place(u, reset, go) # "other"
  BY DEF Place, Bit, IDLE, RUN, FINISH
<1>4. MutantEdge("n1", u, reset, go) = IF reset = 1 /\ u.state = RUN THEN Runs("n1", u) ELSE Edge(u, reset, go)
  BY <1>1 DEF MutantEdge
<1>5. Runs("n1", u) = Running(u, u.counter = LAST, u.counter + 7)
  BY DEF Runs
<1>6. ASSUME NEW m \in {"n2", "n36"}
      PROVE  MutantEdge(m, u, reset, go) =
               IF Place(u, reset, go) \in Assigned[m][1]
               THEN [Edge(u, reset, go) EXCEPT ![Assigned[m][2]] = Assigned[m][3]]
               ELSE Edge(u, reset, go)
  BY <1>1, <1>6 DEF MutantEdge
<1>7. Place(u, reset, go) \in Assigned["n2"][1] <=> reset = 0
  BY <1>2, <1>3
<1>8. MutantEdge("n2", u, reset, go) =
              IF reset = 0 THEN [Edge(u, reset, go) EXCEPT !.counter = 1] ELSE Edge(u, reset, go)
  <2>1. Assigned["n2"][2] = "counter" /\ Assigned["n2"][3] = 1
    BY <1>2
  <2>2. MutantEdge("n2", u, reset, go) =
          IF reset = 0 THEN [Edge(u, reset, go) EXCEPT ![Assigned["n2"][2]] = Assigned["n2"][3]]
          ELSE Edge(u, reset, go)
    BY <1>1, <1>6, <1>7, Zenon
  <2> QED
    BY <2>1, <2>2, Zenon
<1>9. MutantEdge("n36", u, reset, go) = Edge(u, reset, go)
  BY <1>1, <1>2, <1>3, <1>6
<1>10. CASE q = "n1"
  BY <1>4, <1>5, <1>10
<1>11. CASE q = "n2"
  BY <1>8, <1>11
<1>12. CASE q = "n36"
  BY <1>9, <1>12
<1> QED
  BY <1>10, <1>11, <1>12

(* The registers after an edge out of reset. *)
LEMMA EdgeOf ==
  ASSUME NEW r \in Registers, NEW go \in Bit
  PROVE  /\ r.state = IDLE => Edge(r, 1, go) = Idle(r, go)
         /\ r.state = RUN => Edge(r, 1, go) = Run(r)
         /\ r.state = FINISH => Edge(r, 1, go) = Finish(r)
BY DEF Edge, IDLE, RUN, FINISH

(* Where the golden module is in its run says where the mutant is, each     *)
(* with its own way to count.                                               *)
LEMMA MatchedEdge ==
  ASSUME NEW r \in Registers, NEW u \in Registers, NEW reset \in Bit, NEW go \in Bit,
         NEW m \in {"n1", "n2", "n36"}, m = "n1" => LAST = 4, reset = 0 \/ Matched(m, r, u)
  PROVE  /\ Matched(m, Edge(r, reset, go), MutantEdge(m, u, reset, go))
         /\ MutantEdge(m, u, reset, go) \in Registers
<1> DEFINE g == Edge(r, reset, go)
           v == MutantEdge(m, u, reset, go)
<1>1. CASE reset = 0
  <2>1. g = Cleared /\ v \in {Cleared, [Cleared EXCEPT !.counter = 1]} /\ (m # "n2" => v = Cleared)
    <3>1. g = Cleared /\ Edge(u, reset, go) = Cleared
      BY <1>1, EdgeType
    <3> QED
      BY <1>1, <3>1, QuarantinedEdges
  <2>2. Cleared \in Registers /\ [Cleared EXCEPT !.counter = 1] \in Registers
    BY DEF Cleared, Registers, IDLE, Bit
  <2>3. v \in Registers
    BY <2>1, <2>2
  <2>4. g.state = IDLE /\ v.state = IDLE /\ g.busy = v.busy /\ g.done = v.done /\ (m # "n2" => g.counter = v.counter)
    BY <2>1 DEF Cleared
  <2> HIDE DEF g, v
  <2>5. Matched(m, g, v)
    BY <2>4 DEF Matched, IDLE, RUN, FINISH
  <2> QED
    BY <2>3, <2>5 DEF g, v
<1>2. CASE reset = 1
  <2>1. Matched(m, r, u)
    BY <1>2
  <2>2. r.state \in {IDLE, RUN, FINISH} /\ u.state = r.state /\ u.busy = r.busy /\ u.done = r.done
    BY <2>1 DEF Matched
  <2>3. CASE r.state = IDLE
    <3>1. g = Idle(r, go) /\ v = Idle(u, go)
      BY <1>2, <2>2, <2>3, QuarantinedEdges, EdgeOf DEF IDLE, RUN
    <3>2. Idle(u, go) \in Registers
      <4>1. /\ [state |-> RUN, counter |-> 0, busy |-> 1, done |-> 0] \in Registers
            /\ [u EXCEPT !.busy = 0, !.done = 0] \in Registers
        <5>1. RUN \in 0 .. 3 /\ 0 \in 0 .. 7 /\ 0 \in Bit /\ 1 \in Bit
          BY DEF RUN, Bit
        <5> QED
          BY <5>1 DEF Registers
      <4> QED
        BY <4>1 DEF Idle
    <3>3. Matched(m, Idle(r, go), Idle(u, go))
      BY <2>1, <2>3, FsmAssumption DEF Matched, Idle, Registers, IDLE, RUN, FINISH
    <3> QED
      BY <3>1, <3>2, <3>3
  <2>4. CASE r.state = FINISH
    <3>1. g = Finish(r) /\ v = Finish(u)
      BY <1>2, <2>2, <2>4, QuarantinedEdges, EdgeOf DEF FINISH, RUN
    <3>2. Finish(u) \in Registers
      <4>1. 0 \in Bit /\ 1 \in Bit /\ IDLE \in 0 .. 3
        BY DEF Bit, IDLE
      <4> QED
        BY <4>1 DEF Finish, Registers
    <3>3. Matched(m, Finish(r), Finish(u))
      BY <2>1, <2>4 DEF Matched, Finish, Registers, IDLE, RUN, FINISH
    <3> QED
      BY <3>1, <3>2, <3>3
  <2>5. CASE r.state = RUN /\ m # "n1"
    <3>1. g = Run(r) /\ v = Run(u) /\ u.counter = r.counter
      BY <1>2, <2>1, <2>2, <2>5, QuarantinedEdges, EdgeOf DEF Matched
    <3>2. u = r
      BY <2>2, <3>1 DEF Registers
    <3>3. v = g /\ g \in Registers
      BY <3>1, <3>2, EdgeType
    <3>4. g.state \in {IDLE, RUN, FINISH}
      BY <2>5, <3>1 DEF Run, Registers
    <3> HIDE DEF g, v
    <3>5. Matched(m, g, v)
      BY <2>5, <3>3, <3>4 DEF Matched
    <3> QED
      BY <3>3, <3>5 DEF g, v
  <2>6. CASE r.state = RUN /\ m = "n1"
    <3>1. g = Run(r) /\ v = Running(u, u.counter = LAST, u.counter + 7)
      BY <1>2, <2>2, <2>6, QuarantinedEdges, EdgeOf
    <3>2. LAST = 4 /\ r.counter \in 0 .. 4 /\ u.counter = (8 - r.counter) % 8
      BY <2>1, <2>6 DEF Matched
    <3>3. CASE r.counter = 4
      <4>1. u.counter = 4
        BY <3>2, <3>3
      <4>2. g = [r EXCEPT !.state = FINISH, !.done = 0] /\ v = [u EXCEPT !.state = FINISH, !.done = 0]
        BY <3>1, <3>2, <3>3, <4>1 DEF Run, Running
      <4>3. FINISH \in 0 .. 3 /\ 0 \in Bit /\ FINISH # RUN
        BY DEF FINISH, RUN, Bit
      <4>4. v \in Registers /\ g \in Registers
        BY <4>2, <4>3 DEF Registers
      <4>5. g.state = FINISH /\ v.state = FINISH /\ g.busy = v.busy /\ g.done = v.done
        BY <2>2, <4>2 DEF Registers
      <4> HIDE DEF g, v
      <4>6. Matched(m, g, v)
        BY <2>6, <4>3, <4>5 DEF Matched
      <4> QED
        BY <4>4, <4>6 DEF g, v
    <3>4. CASE r.counter # 4
      <4>1. u.counter # 4 /\ r.counter + 1 \in 0 .. 4 /\ (u.counter + 7) % 8 = (8 - (r.counter + 1)) % 8
            /\ (r.counter + 1) % 8 = r.counter + 1 /\ (u.counter + 7) % 8 \in 0 .. 7
        <5>1. r.counter \in {0, 1, 2, 3}
          BY <3>2, <3>4
        <5> QED
          BY <3>2, <5>1
      <4>2. /\ g = [r EXCEPT !.counter = r.counter + 1, !.done = 0]
            /\ v = [u EXCEPT !.counter = (u.counter + 7) % 8, !.done = 0]
        BY <3>1, <3>2, <3>4, <4>1 DEF Run, Running
      <4>3. g.state = RUN /\ v.state = RUN /\ g.busy = v.busy /\ g.done = v.done
            /\ g.counter = r.counter + 1 /\ v.counter = (u.counter + 7) % 8
        BY <2>2, <2>6, <4>2 DEF Registers
      <4>4. v \in Registers
        BY <4>1, <4>2 DEF Registers, Bit
      <4> HIDE DEF g, v
      <4>5. Matched(m, g, v)
        BY <2>6, <3>2, <4>1, <4>3 DEF Matched
      <4> QED
        BY <4>4, <4>5 DEF g, v
    <3> QED
      BY <3>3, <3>4
  <2> QED
    BY <2>2, <2>3, <2>4, <2>5, <2>6
<1> QED
  BY <1>1, <1>2 DEF Bit

(***************************************************************************)
(* The mutants that corpus_v2 quarantines of the fsm (n1, n2, n36) are     *)
(* equivalent to it at every depth: n36 changes a place that is never      *)
(* reached, n2 a value that is never read, and n1 counts down to the same  *)
(* end, which takes that end to be halfway.                                *)
(***************************************************************************)
THEOREM QuarantinedEquivalent ==
  ASSUME NEW m \in {"n1", "n2", "n36"}, m = "n1" => LAST = 4
  PROVE  Equivalent(m)
<1>1. \A p \in MatchedPairs(m) : SameOutputs(p[1], p[2])
  BY DEF MatchedPairs, Matched, SameOutputs
<1>2. ASSUME NEW p \in Registers \X Registers, NEW reset \in Bit, NEW go \in Bit,
             reset = 0 \/ p \in MatchedPairs(m)
      PROVE  Both(m, p, reset, go) \in MatchedPairs(m)
  <2>1. p[1] \in Registers /\ p[2] \in Registers
    OBVIOUS
  <2>2. reset = 0 \/ Matched(m, p[1], p[2])
    BY <1>2 DEF MatchedPairs
  <2>3. Edge(p[1], reset, go) \in Registers
    BY <2>1, EdgeType
  <2>4. /\ Matched(m, Edge(p[1], reset, go), MutantEdge(m, p[2], reset, go))
        /\ MutantEdge(m, p[2], reset, go) \in Registers
    BY <2>1, <2>2, MatchedEdge
  <2> QED
    BY <2>3, <2>4 DEF Both, MatchedPairs
<1>3. Closes(m, MatchedPairs(m))
  <2>1. MatchedPairs(m) \subseteq Registers \X Registers /\ 0 \in Bit
    BY DEF MatchedPairs, Bit
  <2> QED
    BY <1>2, <2>1 DEF Closes
<1> QED
  BY <1>1, <1>3, ClosedAgrees

-----------------------------------------------------------------------------
(* THE FIRST STEP THAT FAILS                                               *)

(* No mutant has registers outside their ranges. *)
LEMMA MutantEdgeType ==
  ASSUME NEW m \in Mutants, NEW u \in Registers, NEW reset \in Bit, NEW go \in Bit
  PROVE  MutantEdge(m, u, reset, go) \in Registers
<1>1. 0 \in Bit /\ 1 \in Bit /\ IDLE \in 0 .. 3 /\ RUN \in 0 .. 3 /\ FINISH \in 0 .. 3
  BY DEF Bit, IDLE, RUN, FINISH
<1>2. ASSUME NEW last \in BOOLEAN, NEW next \in Nat PROVE Running(u, last, next) \in Registers
  <2>1. next % 8 \in 0 .. 7
    OBVIOUS
  <2>2. ASSUME NEW c \in 0 .. 7 PROVE [u EXCEPT !.counter = c, !.done = 0] \in Registers
    BY <1>1 DEF Registers
  <2>3. [u EXCEPT !.state = FINISH, !.done = 0] \in Registers
    BY <1>1 DEF Registers
  <2> QED
    BY <2>1, <2>2, <2>3, Zenon DEF Running
<1>3. /\ "n30" \notin DOMAIN Assigned /\ "n31" \notin DOMAIN Assigned
      /\ \A i \in {"n0", "n1", "n9", "n10"} : i \notin DOMAIN Assigned
  BY DEF Assigned
<1>4. u.counter \in 0 .. 7
  BY DEF Registers
<1>5. CASE m \in DOMAIN Assigned
  <2>1. \/ Assigned[m][2] = "state" /\ Assigned[m][3] \in 0 .. 3
        \/ Assigned[m][2] = "counter" /\ Assigned[m][3] \in 0 .. 7
        \/ Assigned[m][2] \in {"busy", "done"} /\ Assigned[m][3] \in Bit
    BY <1>1, <1>5 DEF Assigned
  <2>2. ASSUME NEW e \in Registers
        PROVE  [e EXCEPT ![Assigned[m][2]] = Assigned[m][3]] \in Registers
    BY <2>1 DEF Registers
  <2>3. MutantEdge(m, u, reset, go) =
          IF Place(u, reset, go) \in Assigned[m][1]
          THEN [Edge(u, reset, go) EXCEPT ![Assigned[m][2]] = Assigned[m][3]]
          ELSE Edge(u, reset, go)
    BY <1>3, <1>5 DEF MutantEdge
  <2>4. Edge(u, reset, go) \in Registers
    BY EdgeType
  <2> QED
    BY <2>2, <2>3, <2>4, Zenon
<1>6. CASE m \in {"n30", "n31"}
  <2>1. MutantEdge(m, u, reset, go) = IF m = "n30" THEN Edge(u, 1, go) ELSE Edge(u, reset, 1)
    BY <1>3, <1>6 DEF MutantEdge
  <2> QED
    BY <1>1, <2>1, EdgeType
<1>7. CASE m \in {"n0", "n1", "n9", "n10"}
  <2>1. MutantEdge(m, u, reset, go) =
          IF reset = 1 /\ u.state = RUN THEN Runs(m, u) ELSE Edge(u, reset, go)
    BY <1>3, <1>7 DEF MutantEdge
  <2>2. Runs(m, u) \in Registers
    <3>1. u.counter + 1 \in Nat /\ u.counter + 7 \in Nat /\ u.counter + 2 \in Nat
      BY <1>4
    <3> QED
      BY <1>2, <1>7, <3>1 DEF Runs
  <2> QED
    BY <2>1, <2>2, EdgeType
<1> QED
  BY <1>5, <1>6, <1>7 DEF Mutants

(* From any registers and for any inputs there is one run that never ends.  *)
LEMMA EndlessExists ==
  ASSUME NEW m \in Mutants, NEW origin \in Registers \X Registers,
         NEW reset \in [Nat -> Bit], NEW go \in [Nat -> Bit], reset[0] = 0
  PROVE  \E p : Endless(m, p, reset, go) /\ p[0] = origin
<1> DEFINE V == Registers \X Registers
           earlier == [n \in Nat |-> IF n = 0 THEN 0 ELSE n - 1]
           rule == [x \in Nat \X V |-> Both(m, x[2], reset[earlier[x[1]]], go[earlier[x[1]]])]
<1>1. earlier \in [Nat -> Nat] /\ \A n \in Nat : n # 0 => earlier[n] < n
  OBVIOUS
<1>2. \A n \in Nat : earlier[n + 1] = n
  OBVIOUS
<1> HIDE DEF earlier
<1>3. ASSUME NEW n \in Nat, NEW q \in V
      PROVE  Both(m, q, reset[earlier[n]], go[earlier[n]]) \in V
  <2>1. reset[earlier[n]] \in Bit /\ go[earlier[n]] \in Bit /\ q[1] \in Registers /\ q[2] \in Registers
    BY <1>1
  <2> QED
    BY <2>1, EdgeType, MutantEdgeType DEF Both
<1>4. rule \in [Nat \X V -> V]
  BY <1>3
<1>5. \A n \in Nat, q \in V : rule[<<n, q>>] = Both(m, q, reset[earlier[n]], go[earlier[n]])
  OBVIOUS
<1> HIDE DEF rule
<1>6. PICK p : p \in [Nat -> V] /\ Defined(p, origin, earlier, rule)
  BY <1>1, <1>4, Recursion
<1>7. \A n \in Nat : p[n] = IF n = 0 THEN origin ELSE rule[<<n, p[earlier[n]]>>]
  BY <1>6 DEF Defined
<1>8. p[0] = origin
  BY <1>7
<1>9. ASSUME NEW n \in Nat PROVE p[n + 1] = Both(m, p[n], reset[n], go[n])
  <2>1. n + 1 \in Nat /\ n + 1 # 0
    OBVIOUS
  <2>2. p[n + 1] = rule[<<n + 1, p[n]>>]
    BY <1>2, <1>7, <2>1
  <2>3. p[n] \in V
    BY <1>6
  <2> QED
    BY <1>2, <1>5, <2>1, <2>2, <2>3
<1> QED
  BY <1>8, <1>9 DEF Endless

(* Runs that start alike are alike as far as their inputs are.              *)
LEMMA EndlessAlike ==
  ASSUME NEW m, NEW p, NEW q, NEW r, NEW s, NEW r2, NEW s2, NEW n \in Nat,
         Endless(m, p, r, s), Endless(m, q, r2, s2), p[0] = q[0],
         \A i \in Nat : i < n => r[i] = r2[i] /\ s[i] = s2[i]
  PROVE  p[n] = q[n]
<1> DEFINE Bad == { i \in Nat : i <= n /\ p[i] # q[i] }
<1> SUFFICES ASSUME Bad # {} PROVE FALSE
  OBVIOUS
<1>1. PICK i \in Bad : \A j \in Bad : i <= j
  <2>1. Bad \in SUBSET Nat
    OBVIOUS
  <2> HIDE DEF Bad
  <2> QED
    BY <2>1, Least
<1>2. i \in Nat /\ i <= n /\ i # 0 /\ p[i] # q[i]
  BY <1>1
<1>3. PICK j \in Nat : i = j + 1
  <2>1. i - 1 \in Nat /\ i = (i - 1) + 1
    BY <1>2
  <2> QED
    BY <2>1
<1>4. j < n /\ j < i /\ j <= n
  BY <1>2, <1>3
<1>5. p[j] = q[j]
  BY <1>1, <1>2, <1>4
<1>6. p[j + 1] = Both(m, p[j], r[j], s[j]) /\ q[j + 1] = Both(m, q[j], r2[j], s2[j])
  BY DEF Endless
<1>7. p[j + 1] = q[j + 1]
  BY <1>4, <1>5, <1>6
<1> QED
  BY <1>2, <1>3, <1>7

(* Some run has the pair q at step n. *)
ReachedAt(m, n, q) == \E p, reset, go : Endless(m, p, reset, go) /\ p[n] = q

(* An assertion of the miter fails in some run at step n. *)
FailsAt(m, n) == \E q : ReachedAt(m, n, q) /\ ~SameOutputs(q[1], q[2])

(* The pairs are those of the runs, so the search has missed no failure and *)
(* made none up.                                                            *)
DepthInv ==
  /\ mutant \in Mutants /\ depth \in Nat
  /\ depth # 0 => \A q : q \in pairs <=> ReachedAt(mutant, depth, q)
  /\ \A n \in 1 .. depth : n # diverged => ~FailsAt(mutant, n)
  /\ diverged # Never => diverged = depth /\ depth # 0 /\ FailsAt(mutant, depth)
  /\ depth < Never

(* What is reached at the first step, and at the next. *)
LEMMA ReachedFirst ==
  ASSUME NEW m \in Mutants, NEW q
  PROVE  ReachedAt(m, 1, q) <=>
           \E p \in Registers \X Registers, go \in Bit : q = Both(m, p, 0, go)
<1>1. ASSUME ReachedAt(m, 1, q)
      PROVE  \E p \in Registers \X Registers, go \in Bit : q = Both(m, p, 0, go)
  <2>1. PICK p, reset, go : Endless(m, p, reset, go) /\ p[1] = q
    BY <1>1 DEF ReachedAt
  <2>2. p[0 + 1] = Both(m, p[0], reset[0], go[0]) /\ go[0] \in Bit
        /\ p[0] \in Registers \X Registers /\ reset[0] = 0
    BY <2>1 DEF Endless
  <2> QED
    BY <2>1, <2>2
<1>2. ASSUME NEW p \in Registers \X Registers, NEW go \in Bit, q = Both(m, p, 0, go)
      PROVE  ReachedAt(m, 1, q)
  <2> DEFINE r == [n \in Nat |-> 0]
             s == [n \in Nat |-> go]
  <2>1. r \in [Nat -> Bit] /\ s \in [Nat -> Bit] /\ r[0] = 0 /\ s[0] = go
    BY DEF Bit
  <2> HIDE DEF r, s
  <2>2. PICK f : Endless(m, f, r, s) /\ f[0] = p
    BY <2>1, EndlessExists
  <2>3. f[0 + 1] = Both(m, f[0], r[0], s[0])
    BY <2>2 DEF Endless
  <2>4. f[1] = q
    BY <1>2, <2>1, <2>2, <2>3
  <2> QED
    BY <2>2, <2>4 DEF ReachedAt
<1> QED
  BY <1>1, <1>2

LEMMA ReachedNext ==
  ASSUME NEW m \in Mutants, NEW n \in Nat, n # 0, NEW q
  PROVE  ReachedAt(m, n + 1, q) <=>
           \E e : \E reset \in Bit, go \in Bit : ReachedAt(m, n, e) /\ q = Both(m, e, reset, go)
<1>1. ASSUME ReachedAt(m, n + 1, q)
      PROVE  \E e : \E reset \in Bit, go \in Bit : ReachedAt(m, n, e) /\ q = Both(m, e, reset, go)
  <2>1. PICK p, reset, go : Endless(m, p, reset, go) /\ p[n + 1] = q
    BY <1>1 DEF ReachedAt
  <2>2. p[n + 1] = Both(m, p[n], reset[n], go[n]) /\ go[n] \in Bit /\ reset[n] \in Bit
    BY <2>1 DEF Endless
  <2>3. ReachedAt(m, n, p[n])
    BY <2>1 DEF ReachedAt
  <2> QED
    BY <2>1, <2>2, <2>3
<1>2. ASSUME NEW e, NEW reset \in Bit, NEW go \in Bit, ReachedAt(m, n, e), q = Both(m, e, reset, go)
      PROVE  ReachedAt(m, n + 1, q)
  <2>1. PICK p, resets, starts : Endless(m, p, resets, starts) /\ p[n] = e
    BY <1>2 DEF ReachedAt
  <2> DEFINE r == [resets EXCEPT ![n] = reset]
             s == [starts EXCEPT ![n] = go]
  <2>2. /\ r \in [Nat -> Bit] /\ s \in [Nat -> Bit] /\ r[0] = 0 /\ r[n] = reset /\ s[n] = go
        /\ \A i \in Nat : i < n => resets[i] = r[i] /\ starts[i] = s[i]
    BY <2>1 DEF Endless
  <2>3. p[0] \in Registers \X Registers
    BY <2>1 DEF Endless
  <2> HIDE DEF r, s
  <2>4. PICK f : Endless(m, f, r, s) /\ f[0] = p[0]
    BY <2>2, <2>3, EndlessExists
  <2>5. p[n] = f[n]
    BY <2>1, <2>2, <2>4, EndlessAlike
  <2>6. f[n + 1] = Both(m, f[n], r[n], s[n])
    BY <2>4 DEF Endless
  <2>7. f[n + 1] = q
    BY <1>2, <2>1, <2>2, <2>5, <2>6
  <2> QED
    BY <2>4, <2>7 DEF ReachedAt
<1> QED
  BY <1>1, <1>2

LEMMA DepthInit == BmcInit => DepthInv
BY DEF BmcInit, DepthInv, Never, FormalDepth

LEMMA DepthStep == DepthInv /\ [BmcNext]_bmcVars => DepthInv'
<1> SUFFICES ASSUME DepthInv, [BmcNext]_bmcVars PROVE DepthInv'
  OBVIOUS
<1>1. CASE Deepen
  <2>1. /\ depth < FormalDepth - 1 /\ diverged = Never /\ depth' = depth + 1
        /\ pairs' = Later /\ mutant' = mutant
        /\ diverged' = IF \A p \in Later : SameOutputs(p[1], p[2]) THEN Never ELSE depth + 1
    BY <1>1 DEF Deepen
  <2>2. mutant \in Mutants /\ depth \in Nat /\ depth' \in Nat /\ depth' # 0 /\ depth' < Never
    BY <2>1 DEF DepthInv, FormalDepth, Never
  <2>3. Later = { Both(mutant, p, reset, go) : p \in Earlier, reset \in Resets, go \in Bit }
    BY DEF Later, Both
  <2>4. ASSUME NEW q PROVE q \in Later <=> ReachedAt(mutant, depth + 1, q)
    <3>1. CASE depth = 0
      <4>1. q \in Later <=> \E p \in Registers \X Registers, go \in Bit : q = Both(mutant, p, 0, go)
        BY <2>3, <3>1 DEF Earlier, Resets
      <4> QED
        BY <2>2, <3>1, <4>1, ReachedFirst
    <3>2. CASE depth # 0
      <4>1. q \in Later <=> \E e \in pairs, reset \in Bit, go \in Bit : q = Both(mutant, e, reset, go)
        BY <2>3, <3>2 DEF Earlier, Resets
      <4>2. \A e : e \in pairs <=> ReachedAt(mutant, depth, e)
        BY <3>2 DEF DepthInv
      <4>3. ReachedAt(mutant, depth + 1, q) <=>
              \E e : \E reset \in Bit, go \in Bit : ReachedAt(mutant, depth, e) /\ q = Both(mutant, e, reset, go)
        BY <2>2, <3>2, ReachedNext
      <4> QED
        BY <4>1, <4>2, <4>3
    <3> QED
      BY <3>1, <3>2
  <2>5. diverged' = IF FailsAt(mutant, depth + 1) THEN depth + 1 ELSE Never
    BY <2>1, <2>4 DEF FailsAt
  <2>6. depth + 1 # Never
    BY <2>1, <2>2
  <2>7. ASSUME NEW n \in 1 .. depth', n # diverged' PROVE ~FailsAt(mutant, n)
    <3>1. CASE n = depth + 1
      BY <2>5, <2>7, <3>1
    <3>2. CASE n # depth + 1
      <4>1. n \in 1 .. depth /\ n # diverged
        BY <2>1, <2>2, <2>7, <3>2
      <4> QED
        BY <4>1 DEF DepthInv
    <3> QED
      BY <3>1, <3>2
  <2> QED
    BY <2>1, <2>2, <2>4, <2>5, <2>7 DEF DepthInv
<1>2. CASE UNCHANGED bmcVars
  BY <1>2 DEF bmcVars, DepthInv
<1> QED
  BY <1>1, <1>2 DEF BmcNext

(* The verdict says what the runs of the miter do within the depth: the     *)
(* step it reports is the first at which some run breaks an assertion, and  *)
(* without one no run breaks any.                                           *)
FirstFailure ==
  BmcDone =>
    /\ diverged = Never => \A n \in 1 .. FormalDepth - 1 : ~FailsAt(mutant, n)
    /\ diverged # Never => /\ FailsAt(mutant, diverged)
                           /\ \A n \in 1 .. diverged - 1 : ~FailsAt(mutant, n)

(***************************************************************************)
(* The cycle of divergence that check_bmc reports of a mutant of the fsm,  *)
(* and tasks.json records, is the first step at which any run fails.       *)
(***************************************************************************)
THEOREM FirstFailureCorrect == BmcSpec => []FirstFailure
<1>1. DepthInv => FirstFailure
  <2> SUFFICES ASSUME DepthInv, BmcDone
               PROVE  /\ diverged = Never => \A n \in 1 .. FormalDepth - 1 : ~FailsAt(mutant, n)
                      /\ diverged # Never => /\ FailsAt(mutant, diverged)
                                             /\ \A n \in 1 .. diverged - 1 : ~FailsAt(mutant, n)
    BY DEF FirstFailure
  <2>1. CASE diverged = Never
    BY <2>1 DEF DepthInv, BmcDone, Never, FormalDepth
  <2>2. CASE diverged # Never
    BY <2>2 DEF DepthInv
  <2> QED
    BY <2>1, <2>2
<1> QED
  BY <1>1, DepthInit, DepthStep, PTL DEF BmcSpec

(* A mutant that the bounded check fails is not equivalent. *)
THEOREM FailIsDifference == BmcSpec => [](diverged # Never => ~Equivalent(mutant))
<1>1. DepthInv => (diverged # Never => ~Equivalent(mutant))
  <2> SUFFICES ASSUME DepthInv, diverged # Never PROVE ~Equivalent(mutant)
    OBVIOUS
  <2>1. depth \in Nat \ {0} /\ FailsAt(mutant, depth)
    BY DEF DepthInv
  <2> QED
    BY <2>1 DEF FailsAt, ReachedAt, Equivalent
<1> QED
  BY <1>1, DepthInit, DepthStep, PTL DEF BmcSpec

(* Of the mutants corpus_v2 has in quarantine none is ever failed. *)
THEOREM QuarantinedPass ==
  ASSUME LAST = 4
  PROVE  BmcSpec => [](mutant \in {"n1", "n2", "n36"} => diverged = Never)
<1>1. \A m \in {"n1", "n2", "n36"} : Equivalent(m)
  BY QuarantinedEquivalent
<1>2. (diverged # Never => ~Equivalent(mutant))
         => (mutant \in {"n1", "n2", "n36"} => diverged = Never)
  BY <1>1
<1> QED
  BY <1>2, FailIsDifference, PTL

-----------------------------------------------------------------------------
(* THE COMPOSITION                                                         *)

(* What is not looked at starts in a state in which it could start, or from *)
(* a source with nothing in it.                                             *)
LEMMA PartsStart ==
  ASSUME Init
  PROVE  /\ FoundInv
         /\ CoiTypeOK /\ SliceInv
         /\ ToolsInit /\ TracesInit
         /\ FifoInit /\ UartInit /\ SpiInit /\ MiterInit /\ BmcInit
<1>1. FoundInv
  <2>1. PICK nodes \in Codes \cup {<<>>} : MutationsStart(nodes)
    BY DEF Init, MutationsInit
  <2>2. <<>> \in Seq(SyntaxNodes)
    OBVIOUS
  <2> QED
    BY <2>1, <2>2, CodesAssumption, MutationsStarts
<1>2. CoiTypeOK /\ SliceInv
  <2>1. CASE CoiInit
    BY <2>1, CoiTypeInit, SliceInit
  <2>2. CASE CoiStart({}, CHOOSE s \in Signals : TRUE)
    BY <2>2, SignalsAssumption
       DEF CoiStart, CoiTypeOK, SliceInv, Known, ReadsKnown, SeenIsVisited, KnownIsNeeded, Recorded
  <2> QED
    BY <2>1, <2>2 DEF Init
<1>3. ToolsInit
  <2>1. [s \in Scopes |-> NoDivergence] \in [Scopes -> Divergences \cup {NoDivergence}]
    OBVIOUS
  <2> QED
    BY <2>1 DEF Init, ToolsInit
<1> QED
  BY <1>1, <1>2, <1>3 DEF Init

(* A step of the composition is one of the part that is looked at.          *)
LEMMA PartsSteps ==
  ASSUME [Next]_vars
  PROVE  /\ [MutationsNext]_mutationVars /\ [ToolsNext]_toolsVars
         /\ [TracesNext]_tracesVars /\ [CoiNext]_coiVars
         /\ [FifoNext]_fifoVars /\ [UartNext]_uartVars /\ [SpiNext]_spiVars
         /\ [MiterNext]_miterVars /\ [BmcNext]_bmcVars
BY DEF Next, vars, MutantsProposed, Dispatches, TracesCompared, CoiComputed, FifoRuns,
       UartRuns, SpiMasterRuns, FsmRuns, FsmMutantsChecked

(* What the run Rtl checks, and these proofs show, of one part at a time    *)
(* holds of the composition.                                                *)
THEOREM RtlCorrect ==
  Spec => /\ [](MutantsDistinct /\ DecimalsPerturbedByOne)
          /\ [](ReadsOwnTraces /\ RankedDivergenceIsReal /\ RankKnowsDivergence)
          /\ [](ReadsFaithfully /\ OnlyChanges /\ FirstDivergence)
          /\ []SliceExact
          /\ []FlagsTrue /\ ImplementsQueue
          /\ ImplementsLine
          /\ Delivered /\ MosiStable
          /\ [](OutputsAgree /\ DoneOnTime)
          /\ [](FirstFailure /\ PassIsProof)
<1>1. Spec => [](MutantsDistinct /\ DecimalsPerturbedByOne)
  <2>1. Spec => []FoundInv
    BY PartsStart, PartsSteps, MutationsStep, PTL DEF Spec
  <2> QED
    BY <2>1, CandidatesDistinct, DecimalsByOne, PTL
<1>2. Spec => []SliceExact
  BY PartsStart, PartsSteps, CoiTypeStep, SliceStep, SliceEnds, PTL DEF Spec
<1>3. Spec => ToolsSpec /\ TracesSpec
  BY PartsStart, PartsSteps, PTL DEF Spec, ToolsSpec, TracesSpec
<1>4. Spec => FifoSpec /\ UartSpec /\ SpiSpec
  BY PartsStart, PartsSteps, PTL DEF Spec, FifoSpec, UartSpec, SpiSpec
<1>5. Spec => MiterSpec /\ BmcSpec
  BY PartsStart, PartsSteps, PTL DEF Spec, MiterSpec, BmcSpec
<1>6. Spec => [](ReadsOwnTraces /\ RankedDivergenceIsReal /\ RankKnowsDivergence)
  BY <1>3, ReadsOwnTracesCorrect, RankedDivergenceCorrect, RankKnowsCorrect, PTL
<1>7. Spec => [](ReadsFaithfully /\ OnlyChanges /\ FirstDivergence)
  BY <1>3, ReadsFaithfullyCorrect, OnlyChangesCorrect, FirstDivergenceCorrect, PTL
<1>8. Spec => []FlagsTrue /\ ImplementsQueue /\ ImplementsLine
  BY <1>4, FlagsCorrect, QueueImplemented, LineImplemented, PTL
<1>9. Spec => Delivered /\ MosiStable
  BY <1>4, DeliveredCorrect, MosiStableCorrect, PTL
<1>10. Spec => [](OutputsAgree /\ DoneOnTime) /\ [](FirstFailure /\ PassIsProof)
  BY <1>5, AgreementCorrect, DoneOnTimeCorrect, FirstFailureCorrect, PassIsProofCorrect, PTL
<1> QED
  BY <1>1, <1>2, <1>6, <1>7, <1>8, <1>9, <1>10, PTL
=============================================================================
