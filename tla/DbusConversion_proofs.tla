----------------------- MODULE DbusConversion_proofs -----------------------
(***************************************************************************)
(* Proofs about DbusConversion, for octets and addresses of any size, any  *)
(* valid profiles, and any dictionaries and outcomes.                      *)
(***************************************************************************)
EXTENDS DbusConversion, SequenceTheorems, WellFoundedInduction, TLAPS

-----------------------------------------------------------------------------
(* Induction and recursion over the naturals, for sets and functions.      *)

(* A set with 0 that is closed under + 1 has every natural.                *)
LEMMA Induction ==
    ASSUME NEW S, 0 \in S, \A n \in Nat : n \in S => n + 1 \in S
    PROVE  Nat \subseteq S
<1> DEFINE R == {ss \in Nat \X Nat : ss[1] < ss[2]}
           T == Nat \ S
<1>1. IsWellFoundedOn(R, Nat)
  BY NatLessThanWellFounded DEF OpToRel
<1>2. \A a, b \in Nat : <<a, b>> \in R <=> a < b
  OBVIOUS
<1> HIDE DEF R
<1>3. CASE T # {}
  <2>1. PICK x \in T : \A y \in T : ~(<<y, x>> \in R)
    BY <1>1, <1>3, WFMin
  <2>2. x \in Nat \ {0} /\ x - 1 \in Nat /\ (x - 1) + 1 = x /\ x - 1 < x
    OBVIOUS
  <2>3. <<x - 1, x>> \in R
    BY <1>2, <2>2
  <2>4. x - 1 \in S
    BY <2>1, <2>2, <2>3
  <2> QED BY <2>2, <2>4
<1> QED BY <1>3

(* f starts with c and takes the steps of step up to n.                    *)
Unfolds(f, V, c, n, step) ==
    /\ f \in [0 .. n -> V] /\ f[0] = c
    /\ \A i \in 1 .. n : f[i] = step[<<f[i - 1], i>>]

(* There is such a function on every initial part of the naturals.         *)
LEMMA Recursion ==
    ASSUME NEW V, NEW c \in V, NEW n \in Nat, NEW step,
           \A x \in V, i \in 1 .. n : step[<<x, i>>] \in V
    PROVE  \E f : Unfolds(f, V, c, n, step)
<1> DEFINE Fits(f, m) ==
               f[0] = c /\ \A i \in 1 .. m : f[i] = step[<<f[i - 1], i>>]
           S == {m \in Nat : m <= n => \E f \in [0 .. m -> V] : Fits(f, m)}
<1>1. 0 \in S
  <2>1. [i \in 0 .. 0 |-> c] \in [0 .. 0 -> V] /\ Fits([i \in 0 .. 0 |-> c], 0)
    OBVIOUS
  <2> QED BY <2>1
<1>2. ASSUME NEW m \in Nat, m \in S PROVE m + 1 \in S
  <2> SUFFICES ASSUME m + 1 <= n
               PROVE  \E f \in [0 .. m + 1 -> V] : Fits(f, m + 1)
    OBVIOUS
  <2>1. PICK f \in [0 .. m -> V] : Fits(f, m)
    BY <1>2
  <2> DEFINE g == [i \in 0 .. m + 1 |-> IF i = m + 1 THEN step[<<f[m], i>>] ELSE f[i]]
  <2>2. step[<<f[m], m + 1>>] \in V
    OBVIOUS
  <2>3. g \in [0 .. m + 1 -> V]
    BY <2>2
  <2>4. \A i \in 1 .. m + 1 : g[i] = step[<<g[i - 1], i>>]
    <3> TAKE i \in 1 .. m + 1
    <3>1. CASE i = m + 1
      <4>1. g[i] = step[<<f[m], i>>] /\ g[i - 1] = f[m]
        BY <3>1
      <4> QED BY <4>1
    <3>2. CASE i # m + 1
      <4>1. i \in 1 .. m /\ g[i] = f[i] /\ g[i - 1] = f[i - 1]
        BY <3>2
      <4> QED BY <2>1, <4>1
    <3> QED BY <3>1, <3>2
  <2>5. g[0] = c
    BY <2>1
  <2> QED BY <2>3, <2>4, <2>5
<1> HIDE DEF S
<1>3. n \in S
  BY <1>1, <1>2, Induction
<1> QED BY <1>3 DEF S, Unfolds

(* f starts with c and takes the steps of step for ever.                   *)
Runs(f, V, c, step) ==
    /\ f \in [Nat -> V] /\ f[0] = c
    /\ \A i \in Nat : f[i + 1] = step[f[i]]

(* There is such a function on all naturals.                               *)
LEMMA RecursionNat ==
    ASSUME NEW V, NEW c \in V, NEW step \in [V -> V]
    PROVE  \E f : Runs(f, V, c, step)
<1> DEFINE st == [p \in V \X Nat |-> step[p[1]]]
           F(n) == CHOOSE f : Unfolds(f, V, c, n, st)
           g == [n \in Nat |-> F(n)[n]]
<1>1. \A x \in V, i \in Nat : st[<<x, i>>] = step[x] /\ step[x] \in V
  OBVIOUS
<1> HIDE DEF st
<1>2. ASSUME NEW n \in Nat PROVE Unfolds(F(n), V, c, n, st)
  <2>0. \A i \in 1 .. n : i \in Nat
    OBVIOUS
  <2>1. \A x \in V, i \in 1 .. n : st[<<x, i>>] \in V
    BY <1>1, <2>0
  <2>2. \E f : Unfolds(f, V, c, n, st)
    BY <2>1, Recursion
  <2> QED BY <2>2
<1> HIDE DEF F
<1>3. ASSUME NEW n \in Nat
      PROVE  /\ F(n) \in [0 .. n -> V] /\ F(n)[0] = c
             /\ \A i \in 0 .. n : i + 1 <= n => F(n)[i + 1] = step[F(n)[i]]
  <2>1. F(n) \in [0 .. n -> V] /\ F(n)[0] = c
    BY <1>2 DEF Unfolds
  <2>2. ASSUME NEW i \in 0 .. n, i + 1 <= n PROVE F(n)[i + 1] = step[F(n)[i]]
    <3>1. i + 1 \in 1 .. n /\ (i + 1) - 1 = i /\ F(n)[i] \in V
      BY <2>1, <2>2
    <3>2. F(n)[i + 1] = st[<<F(n)[(i + 1) - 1], i + 1>>]
      BY <1>2, <3>1 DEF Unfolds
    <3> QED BY <1>1, <3>1, <3>2
  <2> QED BY <2>1, <2>2
<1>4. ASSUME NEW n \in Nat PROVE F(n + 1)[n] = F(n)[n]
  <2> DEFINE T == {i \in Nat : i <= n => F(n + 1)[i] = F(n)[i]}
  <2>1. 0 \in T
    BY <1>3
  <2>2. ASSUME NEW i \in Nat, i \in T PROVE i + 1 \in T
    <3> SUFFICES ASSUME i + 1 <= n PROVE F(n + 1)[i + 1] = F(n)[i + 1]
      OBVIOUS
    <3>1. /\ i \in 0 .. n /\ i \in 0 .. n + 1 /\ i + 1 <= n + 1 /\ n + 1 \in Nat
          /\ F(n + 1)[i] = F(n)[i]
      BY <2>2
    <3> QED BY <1>3, <3>1
  <2> HIDE DEF T
  <2>3. n \in T
    BY <2>1, <2>2, Induction
  <2> QED BY <2>3 DEF T
<1>5. g \in [Nat -> V]
  <2>1. \A n \in Nat : F(n)[n] \in V
    BY <1>3
  <2> QED BY <2>1
<1>6. g[0] = c
  BY <1>3
<1>7. ASSUME NEW i \in Nat PROVE g[i + 1] = step[g[i]]
  <2>1. g[i + 1] = F(i + 1)[i + 1] /\ g[i] = F(i)[i]
    OBVIOUS
  <2>2. i + 1 \in Nat /\ i \in 0 .. i + 1 /\ i + 1 <= i + 1
    OBVIOUS
  <2>3. F(i + 1)[i + 1] = step[F(i + 1)[i]]
    BY <1>3, <2>2
  <2> QED BY <1>4, <2>1, <2>3
<1> HIDE DEF g
<1>8. Runs(g, V, c, step)
  BY <1>5, <1>6, <1>7 DEF Runs
<1> QED BY <1>8

-----------------------------------------------------------------------------
(* Powers of two and shifts.                                               *)

(* What Pow2 satisfies.                                                    *)
LEMMA Pow2Facts ==
    /\ \A n \in Nat : Pow2[n] \in Nat \ {0}
    /\ Pow2[0] = 1 /\ \A n \in Nat : Pow2[n + 1] = 2 * Pow2[n]
<1> DEFINE Def(f) == [n \in Nat |-> IF n = 0 THEN 1 ELSE 2 * f[n - 1]]
           double == [x \in Nat \ {0} |-> 2 * x]
<1>1. double \in [Nat \ {0} -> Nat \ {0}] /\ \A x \in Nat \ {0} : double[x] = 2 * x
  OBVIOUS
<1> HIDE DEF double
<1>2. PICK f : Runs(f, Nat \ {0}, 1, double)
  <2>1. 1 \in Nat \ {0}
    OBVIOUS
  <2> QED BY <1>1, <2>1, RecursionNat
<1>3. f = Def(f)
  <2>1. ASSUME NEW n \in Nat PROVE f[n] = Def(f)[n]
    <3>1. CASE n = 0
      BY <1>2, <3>1 DEF Runs
    <3>2. CASE n # 0
      <4>1. n - 1 \in Nat /\ (n - 1) + 1 = n
        BY <3>2
      <4>2. f[n - 1] \in Nat \ {0} /\ f[(n - 1) + 1] = double[f[n - 1]]
        BY <1>2, <4>1 DEF Runs
      <4>3. f[n] = 2 * f[n - 1]
        BY <1>1, <4>1, <4>2
      <4> QED BY <3>2, <4>3
    <3> QED BY <3>1, <3>2
  <2> QED BY <1>2, <2>1 DEF Runs
<1>4. Pow2 = Def(Pow2)
  BY <1>3 DEF Pow2
<1>5. \A n \in Nat : Pow2[n] = IF n = 0 THEN 1 ELSE 2 * Pow2[n - 1]
  <2>1. \A n \in Nat : Pow2[n] = Def(Pow2)[n]
    BY <1>4
  <2> QED BY <2>1
<1>6. Pow2[0] = 1 /\ \A n \in Nat : Pow2[n + 1] = 2 * Pow2[n]
  <2>1. \A n \in Nat : n + 1 \in Nat /\ n + 1 # 0 /\ (n + 1) - 1 = n
    OBVIOUS
  <2> QED BY <1>5, <2>1
<1>7. \A n \in Nat : Pow2[n] \in Nat \ {0}
  <2> DEFINE T == {n \in Nat : Pow2[n] \in Nat \ {0}}
  <2>1. 0 \in T
    BY <1>6
  <2>2. \A n \in Nat : n \in T => n + 1 \in T
    BY <1>6
  <2> HIDE DEF T
  <2>3. Nat \subseteq T
    BY <2>1, <2>2, Induction
  <2> QED BY <2>3 DEF T
<1> QED BY <1>6, <1>7

(* Products of natural numbers.                                            *)
LEMMA Times ==
    ASSUME NEW a \in Nat, NEW b \in Nat, NEW c \in Nat
    PROVE  /\ a * b \in Nat /\ a * b = b * a /\ a * (b * c) = (a * b) * c
           /\ a * (b + c) = a * b + a * c
OBVIOUS

(* The larger factor makes the larger product.                             *)
LEMMA Grows ==
    ASSUME NEW a \in Nat, NEW b \in Nat, NEW h \in Nat, a <= b
    PROVE  a * h <= b * h
OBVIOUS

(* Shifts add up.                                                          *)
LEMMA Pow2Adds ==
    ASSUME NEW m \in Nat, NEW n \in Nat
    PROVE  Pow2[m + n] = Pow2[m] * Pow2[n]
<1> DEFINE T == {k \in Nat : Pow2[m + k] = Pow2[m] * Pow2[k]}
<1>1. 0 \in T
  BY Pow2Facts
<1>2. ASSUME NEW k \in Nat, k \in T PROVE k + 1 \in T
  <2>1. Pow2[m + (k + 1)] = 2 * Pow2[m + k] /\ Pow2[k + 1] = 2 * Pow2[k]
    <3>1. m + (k + 1) = (m + k) + 1 /\ m + k \in Nat
      OBVIOUS
    <3> QED BY <3>1, Pow2Facts
  <2> DEFINE x == Pow2[m]  y == Pow2[k]
  <2>2. x \in Nat /\ y \in Nat /\ Pow2[m + k] = x * y
    BY <1>2, Pow2Facts
  <2> HIDE DEF x, y
  <2>3. 2 * (x * y) = x * (2 * y)
    BY <2>2
  <2> QED BY <2>1, <2>2, <2>3 DEF x, y
<1> HIDE DEF T
<1>3. n \in T
  BY <1>1, <1>2, Induction
<1> QED BY <1>3 DEF T

(* Quotient and remainder of a sum of a multiple and a rest.               *)
LEMMA Divides ==
    ASSUME NEW h \in Nat \ {0}, NEW q \in Nat, NEW a \in 0 .. h - 1
    PROVE  (a + h * q) \div h = q /\ (a + h * q) % h = a
OBVIOUS

(* Quotient and remainder make up the number.                              *)
LEMMA Division ==
    ASSUME NEW h \in Nat \ {0}, NEW x \in Nat
    PROVE  /\ x \div h \in Nat /\ x % h \in 0 .. h - 1
           /\ x = (x % h) + h * (x \div h)
<1>1. x % h \in 0 .. h - 1
  OBVIOUS
<1>2. x \div h \in Nat
  OBVIOUS
<1>3. x = (x % h) + h * (x \div h)
  OBVIOUS
<1> QED BY <1>1, <1>2, <1>3

(* The sizes of octets and addresses.                                      *)
LEMMA Sizes ==
    /\ OctetBits \in Nat \ {0} /\ Base \in Nat \ {0} /\ 0 \in Octet /\ Octet \subseteq Nat
    /\ \A f \in Families : /\ Octets[f] \in Nat \ {0} /\ Width(f) \in Nat
                           /\ Width(f) = OctetBits * Octets[f]
    /\ "V4" \in Families /\ "V6" \in Families
<1>1. OctetBits \in Nat \ {0} /\ \A f \in Families : Octets[f] \in Nat \ {0}
  BY ConversionAssumption
<1>2. Base \in Nat \ {0}
  BY <1>1, Pow2Facts DEF Base
<1>3. 0 \in Octet /\ Octet \subseteq Nat
  BY <1>2 DEF Octet
<1>4. \A f \in Families : Width(f) \in Nat /\ Width(f) = OctetBits * Octets[f]
  BY <1>1, Times DEF Width
<1> QED BY <1>1, <1>2, <1>3, <1>4 DEF Families

(* n without its lowest octets.                                            *)
LEMMA ShiftedFacts ==
    ASSUME NEW n \in Nat
    PROVE  /\ \A k \in Nat : Shifted(n)[k] \in Nat
           /\ Shifted(n)[0] = n
           /\ \A k \in Nat : Shifted(n)[k + 1] = Shifted(n)[k] \div Base
<1> DEFINE Def(f) == [k \in Nat |-> IF k = 0 THEN n ELSE f[k - 1] \div Base]
           step == [x \in Nat |-> x \div Base]
           g == CHOOSE f : f = Def(f)
<1>0. \A x \in Nat : x \div Base \in Nat
  BY Sizes, Division
<1>1. step \in [Nat -> Nat] /\ \A x \in Nat : step[x] = x \div Base
  BY <1>0
<1> HIDE DEF step
<1>2. PICK f : Runs(f, Nat, n, step)
  BY <1>1, RecursionNat
<1>3. f = Def(f)
  <2>1. ASSUME NEW k \in Nat PROVE f[k] = Def(f)[k]
    <3>1. CASE k = 0
      BY <1>2, <3>1 DEF Runs
    <3>2. CASE k # 0
      <4>1. k - 1 \in Nat /\ (k - 1) + 1 = k
        BY <3>2
      <4>2. f[k - 1] \in Nat /\ f[(k - 1) + 1] = step[f[k - 1]]
        BY <1>2, <4>1 DEF Runs
      <4>3. f[k] = f[k - 1] \div Base
        BY <1>1, <4>1, <4>2
      <4> QED BY <3>2, <4>3
    <3> QED BY <3>1, <3>2
  <2> QED BY <1>2, <2>1 DEF Runs
<1>4. g = Def(g)
  BY <1>3
<1>5. Shifted(n) = g
  BY DEF Shifted
<1> HIDE DEF g
<1>6. \A k \in Nat : g[k] = IF k = 0 THEN n ELSE g[k - 1] \div Base
  <2>1. \A k \in Nat : g[k] = Def(g)[k]
    BY <1>4
  <2> QED BY <2>1
<1>7. g[0] = n /\ \A k \in Nat : g[k + 1] = g[k] \div Base
  <2>1. \A k \in Nat : k + 1 \in Nat /\ k + 1 # 0 /\ (k + 1) - 1 = k
    OBVIOUS
  <2> QED BY <1>6, <2>1
<1>8. \A k \in Nat : g[k] \in Nat
  <2> DEFINE T == {k \in Nat : g[k] \in Nat}
  <2>1. 0 \in T
    BY <1>7
  <2>2. \A k \in Nat : k \in T => k + 1 \in T
    BY <1>0, <1>7
  <2> HIDE DEF T
  <2>3. Nat \subseteq T
    BY <2>1, <2>2, Induction
  <2> QED BY <2>3 DEF T
<1> QED BY <1>5, <1>7, <1>8

-----------------------------------------------------------------------------
(* Octets and numbers.                                                     *)

(* v[i] is the number that the last i octets make.                         *)
Values(v, o) ==
    /\ v \in [0 .. Len(o) -> Nat]
    /\ v[0] = 0 /\ v[Len(o)] = LittleEndian(o)
    /\ \A i \in 1 .. Len(o) : v[i] = o[Len(o) - i + 1] + Base * v[i - 1]

(* The partial sums of a little-endian number.                             *)
LEMMA LittleEndianSteps ==
    ASSUME NEW o \in Seq(Octet)
    PROVE  \E v : Values(v, o)
<1> DEFINE n == Len(o)
           Def(v) == [i \in 0 .. n |-> IF i = 0 THEN 0 ELSE o[n - i + 1] + Base * v[i - 1]]
           step == [p \in Nat \X (1 .. n) |-> o[n - p[2] + 1] + Base * p[1]]
           g == CHOOSE v : v = Def(v)
<1>1. n \in Nat /\ \A i \in 1 .. n : o[n - i + 1] \in Nat
  <2>0. n \in Nat /\ \A i \in 1 .. n : o[i] \in Octet
    OBVIOUS
  <2> HIDE DEF n
  <2>1. \A i \in 1 .. n : o[i] \in Nat
    <3>1. Octet \subseteq Nat
      BY Sizes
    <3> QED BY <2>0, <3>1
  <2>2. \A i \in 1 .. n : n - i + 1 \in 1 .. n
    BY <2>0
  <2> QED BY <2>0, <2>1, <2>2
<1>2. \A x \in Nat, i \in 1 .. n : o[n - i + 1] + Base * x \in Nat
  <2> HIDE DEF n
  <2>1. ASSUME NEW x \in Nat, NEW i \in 1 .. n PROVE o[n - i + 1] + Base * x \in Nat
    <3>1. Base * x \in Nat
      BY Sizes, Times
    <3>2. o[n - i + 1] \in Nat
      BY <1>1
    <3> QED BY <3>1, <3>2
  <2> QED BY <2>1
<1>3. \A x \in Nat, i \in 1 .. n : step[<<x, i>>] = o[n - i + 1] + Base * x
  OBVIOUS
<1> HIDE DEF n, step
<1>4. PICK f : Unfolds(f, Nat, 0, n, step)
  <2>1. \A x \in Nat, i \in 1 .. n : step[<<x, i>>] \in Nat
    BY <1>2, <1>3
  <2>2. 0 \in Nat
    OBVIOUS
  <2> QED BY <1>1, <2>1, <2>2, Recursion
<1>5. f = Def(f)
  <2>1. ASSUME NEW i \in 0 .. n PROVE f[i] = Def(f)[i]
    <3>1. CASE i = 0
      BY <1>4, <3>1 DEF Unfolds
    <3>2. CASE i # 0
      <4>1. i \in 1 .. n /\ i - 1 \in 0 .. n /\ f[i - 1] \in Nat
        BY <1>1, <1>4, <3>2 DEF Unfolds
      <4> QED BY <1>3, <1>4, <4>1 DEF Unfolds
    <3> QED BY <3>1, <3>2
  <2> QED BY <1>4, <2>1 DEF Unfolds
<1>6. g = Def(g)
  BY <1>5
<1>7. LittleEndian(o) = g[n]
  BY DEF LittleEndian, n
<1> HIDE DEF g
<1>8. g[0] = 0 /\ \A i \in 1 .. n : g[i] = o[n - i + 1] + Base * g[i - 1]
  <2>1. \A i \in 0 .. n : g[i] = Def(g)[i]
    BY <1>6
  <2>2. \A i \in 0 .. n : g[i] = IF i = 0 THEN 0 ELSE o[n - i + 1] + Base * g[i - 1]
    BY <2>1
  <2> HIDE DEF Def
  <2> QED BY <1>1, <2>2
<1>9. g \in [0 .. n -> Nat]
  <2> DEFINE T == {i \in Nat : i <= n => g[i] \in Nat}
  <2>1. 0 \in T
    BY <1>8
  <2>2. ASSUME NEW i \in Nat, i \in T PROVE i + 1 \in T
    <3> SUFFICES ASSUME i + 1 <= n PROVE g[i + 1] \in Nat
      OBVIOUS
    <3>1. i + 1 \in 1 .. n /\ (i + 1) - 1 = i /\ g[i] \in Nat
      BY <1>1, <2>2
    <3>2. g[i + 1] = o[n - (i + 1) + 1] + Base * g[i]
      BY <1>8, <3>1
    <3> QED BY <1>2, <3>1, <3>2
  <2> HIDE DEF T
  <2>3. Nat \subseteq T
    BY <2>1, <2>2, Induction
  <2>4. \A i \in 0 .. n : g[i] \in Nat
    BY <1>1, <2>3 DEF T
  <2> QED BY <1>6, <2>4
<1> QED BY <1>7, <1>8, <1>9 DEF n, Values

(* Octets make a number, in either order.                                  *)
LEMMA LittleEndianType ==
    ASSUME NEW o \in Seq(Octet)
    PROVE  LittleEndian(o) \in Nat
<1>1. PICK v : Values(v, o)
  BY LittleEndianSteps
<1>2. Len(o) \in 0 .. Len(o)
  OBVIOUS
<1> QED BY <1>1, <1>2 DEF Values

(* Shifting out the first k octets leaves the number of the others.        *)
LEMMA ShiftedValue ==
    ASSUME NEW o \in Seq(Octet), NEW v, Values(v, o), NEW k \in 0 .. Len(o)
    PROVE  Shifted(LittleEndian(o))[k] = v[Len(o) - k]
<1> DEFINE n == Len(o)
           N == LittleEndian(o)
           T == {i \in Nat : i <= n => Shifted(N)[i] = v[n - i]}
<1>1. n \in Nat /\ N \in Nat /\ v \in [0 .. n -> Nat] /\ v[n] = N
  BY LittleEndianType DEF Values
<1>2. \A i \in 1 .. n : v[i] = o[n - i + 1] + Base * v[i - 1] /\ o[n - i + 1] \in Octet
  <2>1. \A i \in 1 .. n : n - i + 1 \in 1 .. n
    BY <1>1
  <2>2. \A i \in 1 .. n : o[i] \in Octet
    OBVIOUS
  <2> QED BY <2>1, <2>2 DEF Values
<1> HIDE DEF n, N
<1>3. 0 \in T
  BY <1>1, ShiftedFacts
<1>4. ASSUME NEW i \in Nat, i \in T PROVE i + 1 \in T
  <2> SUFFICES ASSUME i + 1 <= n PROVE Shifted(N)[i + 1] = v[n - (i + 1)]
    OBVIOUS
  <2>1. n - i \in 1 .. n /\ (n - i) - 1 = n - (i + 1) /\ n - (i + 1) \in 0 .. n
    BY <1>1
  <2>2. Shifted(N)[i + 1] = v[n - i] \div Base
    BY <1>1, <1>4, ShiftedFacts
  <2> DEFINE w == v[n - (i + 1)]  a == o[n - (n - i) + 1]
  <2>3. v[n - i] = a + Base * w /\ a \in Octet /\ w \in Nat
    BY <1>1, <1>2, <2>1
  <2> HIDE DEF w, a
  <2>4. (a + Base * w) \div Base = w
    BY <2>3, Sizes, Divides DEF Octet
  <2> QED BY <2>2, <2>3, <2>4 DEF w
<1> HIDE DEF T
<1>5. k \in T
  BY <1>1, <1>3, <1>4, Induction DEF n
<1> QED BY <1>1, <1>5 DEF T, n, N

(* Decoding what was encoded gives the octets back.                        *)
LEMMA LittleEndianRound ==
    ASSUME NEW f \in Families, NEW o \in [1 .. Octets[f] -> Octet]
    PROVE  FromLittleEndian(f, LittleEndian(o)) = o
<1> DEFINE n == Octets[f]
<1>1. n \in Nat \ {0}
  BY Sizes
<1>2. o \in Seq(Octet) /\ Len(o) = n
  BY <1>1
<1>3. PICK v : Values(v, o)
  BY <1>2, LittleEndianSteps
<1>4. ASSUME NEW k \in 1 .. n PROVE Shifted(LittleEndian(o))[k - 1] % Base = o[k]
  <2>1. k - 1 \in 0 .. n /\ n - (k - 1) \in 1 .. n /\ n - (n - (k - 1)) + 1 = k
        /\ (n - (k - 1)) - 1 \in 0 .. n
    BY <1>1
  <2>2. Shifted(LittleEndian(o))[k - 1] = v[n - (k - 1)]
    BY <1>2, <1>3, <2>1, ShiftedValue
  <2> DEFINE w == v[(n - (k - 1)) - 1]
  <2>3. v[n - (k - 1)] = o[k] + Base * w /\ w \in Nat /\ o[k] \in Octet
    <3>1. v[n - (k - 1)] = o[n - (n - (k - 1)) + 1] + Base * w
      BY <1>2, <1>3, <2>1 DEF Values
    <3>2. w \in Nat
      BY <1>2, <1>3, <2>1 DEF Values
    <3> QED BY <2>1, <3>1, <3>2
  <2> HIDE DEF w
  <2>4. (o[k] + Base * w) % Base = o[k]
    BY <2>3, Sizes, Divides DEF Octet
  <2> QED BY <2>2, <2>3, <2>4
<1> QED BY <1>4 DEF FromLittleEndian

(* Decoding gives octets, whatever the number.                             *)
LEMMA FromLittleEndianType ==
    ASSUME NEW f \in Families, NEW n \in Nat
    PROVE  /\ FromLittleEndian(f, n) \in [1 .. Octets[f] -> Octet]
           /\ FromLittleEndian(f, n) \in Seq(Octet)
           /\ Len(FromLittleEndian(f, n)) = Octets[f]
<1>1. Octets[f] \in Nat
  BY Sizes
<1>2. ASSUME NEW k \in 1 .. Octets[f] PROVE Shifted(n)[k - 1] % Base \in Octet
  <2>1. k - 1 \in Nat
    BY <1>1
  <2>2. Shifted(n)[k - 1] \in Nat
    BY <2>1, ShiftedFacts
  <2> QED BY <2>2, Sizes, Division DEF Octet
<1>3. FromLittleEndian(f, n) \in [1 .. Octets[f] -> Octet]
  BY <1>2 DEF FromLittleEndian
<1> QED BY <1>1, <1>3

(* An address of n octets is less than 2 to the power of its bits.         *)
LEMMA ValueBound ==
    ASSUME NEW o \in Seq(Octet), NEW v, Values(v, o), NEW k \in 0 .. Len(o)
    PROVE  v[k] < Pow2[OctetBits * k]
<1> DEFINE n == Len(o)
           T == {i \in Nat : i <= n => v[i] < Pow2[OctetBits * i]}
<1>1. n \in Nat /\ v \in [0 .. n -> Nat]
  BY DEF Values
<1>2. \A i \in 1 .. n : v[i] = o[n - i + 1] + Base * v[i - 1] /\ o[n - i + 1] \in Octet
  <2>1. \A i \in 1 .. n : n - i + 1 \in 1 .. n
    BY <1>1
  <2>2. \A i \in 1 .. n : o[i] \in Octet
    OBVIOUS
  <2> QED BY <2>1, <2>2 DEF Values
<1> HIDE DEF n
<1>3. 0 \in T
  <2>1. OctetBits * 0 = 0 /\ v[0] = 0
    BY Sizes DEF Values
  <2>2. v[0] < Pow2[OctetBits * 0]
    <3>1. Pow2[0] = 1
      BY Pow2Facts
    <3> QED BY <2>1, <3>1
  <2> QED BY <2>2
<1>4. ASSUME NEW i \in Nat, i \in T PROVE i + 1 \in T
  <2> SUFFICES ASSUME i + 1 <= n PROVE v[i + 1] < Pow2[OctetBits * (i + 1)]
    OBVIOUS
  <2>1. i + 1 \in 1 .. n /\ (i + 1) - 1 = i /\ i \in 0 .. n
    BY <1>1
  <2>2. OctetBits * (i + 1) = OctetBits + OctetBits * i /\ OctetBits * i \in Nat
        /\ OctetBits \in Nat
    BY Sizes, Times
  <2> DEFINE P == Pow2[OctetBits * i]  w == v[i]  a == o[n - (i + 1) + 1]
  <2>3. Pow2[OctetBits * (i + 1)] = Base * P
    BY <2>2, Pow2Adds DEF Base
  <2>4. P \in Nat /\ w \in Nat /\ w + 1 <= P /\ a \in 0 .. Base - 1 /\ Base \in Nat
    <3>1. P \in Nat /\ Base \in Nat
      BY <2>2, Pow2Facts, Sizes
    <3>2. w \in Nat /\ w < P
      BY <1>1, <1>4, <2>1
    <3>3. a \in 0 .. Base - 1
      BY <1>2, <2>1 DEF Octet
    <3> HIDE DEF P, w, a
    <3> QED BY <3>1, <3>2, <3>3
  <2>5. v[i + 1] = a + Base * w
    BY <1>2, <2>1
  <2> HIDE DEF P, w, a
  <2>6. (w + 1) * Base <= P * Base
    <3>1. w + 1 \in Nat
      BY <2>4
    <3> QED BY <2>4, <3>1, Grows
  <2>7. (w + 1) * Base = Base * w + Base /\ P * Base = Base * P
        /\ Base * w \in Nat /\ Base * P \in Nat
    BY <2>4, Times
  <2>8. a + Base * w < Base * P
    BY <2>4, <2>6, <2>7
  <2> QED BY <2>3, <2>5, <2>8
<1> HIDE DEF T
<1>5. k \in T
  BY <1>1, <1>3, <1>4, Induction DEF n
<1> QED BY <1>1, <1>5 DEF T, n

(* A number that fits in the width has no octet beyond it.                 *)
LEMMA ShiftedBound ==
    ASSUME NEW m \in Nat, NEW n \in Nat, m < Pow2[OctetBits * n], NEW k \in 0 .. n
    PROVE  Shifted(m)[k] < Pow2[OctetBits * (n - k)]
<1> DEFINE T == {i \in Nat : i <= n => Shifted(m)[i] < Pow2[OctetBits * (n - i)]}
<1>1. 0 \in T
  <2>1. n - 0 = n
    OBVIOUS
  <2> QED BY <2>1, ShiftedFacts
<1>2. ASSUME NEW i \in Nat, i \in T PROVE i + 1 \in T
  <2> SUFFICES ASSUME i + 1 <= n
               PROVE  Shifted(m)[i + 1] < Pow2[OctetBits * (n - (i + 1))]
    OBVIOUS
  <2> DEFINE j == n - (i + 1)
             P == Pow2[OctetBits * j]
             x == Shifted(m)[i]
             q == x \div Base
  <2>1. j \in Nat /\ n - i = j + 1
    OBVIOUS
  <2>2. x \in Nat /\ Shifted(m)[i + 1] = q /\ x < Pow2[OctetBits * (n - i)]
    BY <1>2, ShiftedFacts
  <2> HIDE DEF j, x
  <2>3. OctetBits * (j + 1) = OctetBits + OctetBits * j /\ OctetBits * j \in Nat
        /\ OctetBits \in Nat
    BY <2>1, Sizes, Times
  <2>4. Pow2[OctetBits * (n - i)] = Base * P /\ P \in Nat
    <3>1. Pow2[OctetBits + OctetBits * j] = Base * P
      BY <2>3, Pow2Adds DEF Base
    <3>2. P \in Nat
      BY <2>3, Pow2Facts
    <3> QED BY <2>1, <2>3, <3>1, <3>2
  <2> HIDE DEF P
  <2>5. q \in Nat /\ x = (x % Base) + Base * q /\ x % Base \in Nat /\ Base \in Nat
    <3>1. Base \in Nat \ {0}
      BY Sizes
    <3>2. x \div Base \in Nat /\ x % Base \in 0 .. Base - 1
          /\ x = (x % Base) + Base * (x \div Base)
      BY <2>2, <3>1, Division
    <3>3. x % Base \in Nat
      BY <3>1, <3>2
    <3> QED BY <3>1, <3>2, <3>3
  <2> HIDE DEF q
  <2>6. q < P
    <3> SUFFICES ASSUME P <= q PROVE FALSE
      BY <2>4, <2>5
    <3>1. P * Base <= q * Base
      BY <2>4, <2>5, Grows
    <3>2. P * Base = Base * P /\ q * Base = Base * q /\ Base * P \in Nat /\ Base * q \in Nat
      BY <2>4, <2>5, Times
    <3> QED BY <2>2, <2>4, <2>5, <3>1, <3>2
  <2> QED BY <2>2, <2>6 DEF P, j
<1> HIDE DEF T
<1>3. k \in T
  BY <1>1, <1>2, Induction
<1> QED BY <1>3 DEF T

(* Encoding what was decoded gives the number back, if it fits.            *)
LEMMA NumberRound ==
    ASSUME NEW f \in Families, NEW m \in Nat, m < Pow2[Width(f)]
    PROVE  LittleEndian(FromLittleEndian(f, m)) = m
<1> DEFINE n == Octets[f]
           o == FromLittleEndian(f, m)
<1>1. n \in Nat \ {0} /\ m < Pow2[OctetBits * n]
  BY Sizes
<1>2. o \in Seq(Octet) /\ Len(o) = n /\ \A k \in 1 .. n : o[k] = Shifted(m)[k - 1] % Base
  BY FromLittleEndianType DEF FromLittleEndian
<1> HIDE DEF o
<1>3. PICK v : Values(v, o)
  BY <1>2, LittleEndianSteps
<1> DEFINE T == {i \in Nat : i <= n => v[i] = Shifted(m)[n - i]}
<1> HIDE DEF n
<1>4. /\ v \in [0 .. n -> Nat] /\ v[0] = 0 /\ v[n] = LittleEndian(o)
      /\ \A i \in 1 .. n : v[i] = o[n - i + 1] + Base * v[i - 1]
  BY <1>2, <1>3 DEF Values
<1>5. 0 \in T
  <2>1. Shifted(m)[n] < Pow2[OctetBits * (n - n)]
    <3>1. n \in 0 .. n
      BY <1>1
    <3> QED BY <1>1, <3>1, ShiftedBound
  <2>2. n - n = 0 /\ OctetBits * 0 = 0 /\ n - 0 = n /\ n \in Nat
    BY <1>1, Sizes
  <2>3. Shifted(m)[n] \in Nat /\ Shifted(m)[n] < 1
    BY <2>1, <2>2, ShiftedFacts, Pow2Facts
  <2>4. Shifted(m)[n] = 0
    BY <2>3
  <2> QED BY <1>4, <2>2, <2>4
<1>6. ASSUME NEW i \in Nat, i \in T PROVE i + 1 \in T
  <2> SUFFICES ASSUME i + 1 <= n PROVE v[i + 1] = Shifted(m)[n - (i + 1)]
    OBVIOUS
  <2> DEFINE j == n - (i + 1)
  <2>1. /\ i + 1 \in 1 .. n /\ (i + 1) - 1 = i
        /\ j \in Nat /\ n - i = j + 1 /\ n - (i + 1) + 1 = j + 1
        /\ j + 1 \in 1 .. n /\ (j + 1) - 1 = j
    BY <1>1
  <2>2. v[i] = Shifted(m)[j + 1]
    BY <1>1, <1>6, <2>1
  <2>3. v[i + 1] = o[j + 1] + Base * v[i]
    BY <1>4, <2>1
  <2> HIDE DEF j
  <2>4. o[j + 1] = Shifted(m)[j] % Base
    BY <1>2, <2>1
  <2>5. Shifted(m)[j] \in Nat /\ Shifted(m)[j + 1] = Shifted(m)[j] \div Base
    BY <2>1, ShiftedFacts
  <2>6. Shifted(m)[j] = (Shifted(m)[j] % Base) + Base * (Shifted(m)[j] \div Base)
    BY <2>5, Sizes, Division
  <2> QED BY <2>2, <2>3, <2>4, <2>5, <2>6 DEF j
<1> HIDE DEF T
<1>7. n \in T
  BY <1>1, <1>5, <1>6, Induction
<1>8. n - n = 0 /\ n <= n /\ n \in Nat
  BY <1>1
<1> QED BY <1>4, <1>7, <1>8, ShiftedFacts DEF T, o

(* The octets of an address, in either order.                              *)
LEMMA ReverseOctets ==
    ASSUME NEW f \in Families, NEW o \in [1 .. Octets[f] -> Octet]
    PROVE  /\ o \in Seq(Octet) /\ Len(o) = Octets[f]
           /\ Reverse(o) \in [1 .. Octets[f] -> Octet] /\ Reverse(o) \in Seq(Octet)
           /\ Len(Reverse(o)) = Octets[f] /\ Reverse(Reverse(o)) = o
<1> DEFINE n == Octets[f]
<1>1. n \in Nat
  BY Sizes
<1>2. o \in Seq(Octet) /\ Len(o) = n
  BY <1>1
<1> HIDE DEF n
<1>3. \A i \in 1 .. n : n - i + 1 \in 1 .. n /\ n - (n - i + 1) + 1 = i
  BY <1>1
<1>4. Reverse(o) = [i \in 1 .. n |-> o[n - i + 1]]
  <2>1. \A i \in 1 .. n : (n - i) + 1 = n - i + 1
    BY <1>1
  <2> QED BY <1>2, <2>1 DEF Reverse
<1>5. Reverse(o) \in [1 .. n -> Octet]
  BY <1>3, <1>4 DEF n
<1>6. Reverse(o) \in Seq(Octet) /\ Len(Reverse(o)) = n
  BY <1>1, <1>5
<1>7. Reverse(Reverse(o)) = [i \in 1 .. n |-> Reverse(o)[n - i + 1]]
  BY <1>6 DEF Reverse
<1>8. \A i \in 1 .. n : Reverse(o)[n - i + 1] = o[i]
  BY <1>3, <1>4
<1>9. Reverse(Reverse(o)) = o
  BY <1>7, <1>8 DEF n
<1> QED BY <1>2, <1>5, <1>6, <1>9 DEF n

(* A big-endian number is less than 2 to the power of its bits.            *)
LEMMA BigEndianType ==
    ASSUME NEW f \in Families, NEW o \in [1 .. Octets[f] -> Octet]
    PROVE  BigEndian(o) \in Nat /\ BigEndian(o) < Pow2[Width(f)]
<1> DEFINE r == Reverse(o)
<1>1. r \in Seq(Octet) /\ Len(r) = Octets[f] /\ Octets[f] \in Nat
  BY ReverseOctets, Sizes
<1> HIDE DEF r
<1>2. PICK v : Values(v, r)
  BY <1>1, LittleEndianSteps
<1>3. Len(r) \in 0 .. Len(r)
  BY <1>1
<1>4. v[Len(r)] < Pow2[OctetBits * Len(r)]
  BY <1>1, <1>2, <1>3, ValueBound
<1>5. v[Len(r)] = LittleEndian(r)
  BY <1>2 DEF Values
<1>6. LittleEndian(r) \in Nat /\ LittleEndian(r) < Pow2[Width(f)]
  BY <1>1, <1>4, <1>5, LittleEndianType DEF Width
<1> QED BY <1>6 DEF BigEndian, r

(* The octets of a number that fits make that number.                      *)
LEMMA BigEndianRound ==
    ASSUME NEW f \in Families, NEW m \in Nat, m < Pow2[Width(f)]
    PROVE  /\ FromBigEndian(f, m) \in [1 .. Octets[f] -> Octet]
           /\ BigEndian(FromBigEndian(f, m)) = m
<1> DEFINE o == FromLittleEndian(f, m)
<1>1. o \in [1 .. Octets[f] -> Octet] /\ LittleEndian(o) = m
  BY FromLittleEndianType, NumberRound
<1> HIDE DEF o
<1>2. Reverse(o) \in [1 .. Octets[f] -> Octet] /\ Reverse(Reverse(o)) = o
  BY <1>1, ReverseOctets
<1> QED BY <1>1, <1>2 DEF FromBigEndian, BigEndian, o

(* The address whose octets are all at their highest is the highest.       *)
LEMMA AllOnes ==
    ASSUME NEW f \in Families
    PROVE  /\ [k \in 1 .. Octets[f] |-> Base - 1] \in [1 .. Octets[f] -> Octet]
           /\ BigEndian([k \in 1 .. Octets[f] |-> Base - 1]) = Pow2[Width(f)] - 1
<1> DEFINE n == Octets[f]
           o == [k \in 1 .. n |-> Base - 1]
<1>1. n \in Nat \ {0} /\ Base \in Nat \ {0} /\ OctetBits \in Nat
  BY Sizes
<1>2. o \in [1 .. n -> Octet]
  <2>1. Base - 1 \in Octet
    BY <1>1 DEF Octet
  <2> QED BY <2>1
<1>3. o \in Seq(Octet) /\ Len(o) = n /\ Reverse(o) \in [1 .. n -> Octet]
  BY <1>2, ReverseOctets
<1> HIDE DEF n
<1>4. \A i \in 1 .. n : n - i + 1 \in 1 .. n /\ o[n - i + 1] = Base - 1
  <2>1. \A i \in 1 .. n : n - i + 1 \in 1 .. n
    BY <1>1
  <2> QED BY <2>1
<1>5. Reverse(o) = o
  <2>1. Reverse(o) = [i \in 1 .. n |-> o[n - i + 1]]
    <3> HIDE DEF o
    <3>1. \A i \in 1 .. n : (n - i) + 1 = n - i + 1
      BY <1>1
    <3> QED BY <1>3, <3>1 DEF Reverse
  <2> QED BY <1>4, <2>1
<1> HIDE DEF o
<1>6. PICK v : Values(v, o)
  BY <1>3, LittleEndianSteps
<1>7. /\ v \in [0 .. n -> Nat] /\ v[0] = 0 /\ v[n] = LittleEndian(o)
      /\ \A i \in 1 .. n : v[i] = (Base - 1) + Base * v[i - 1]
  BY <1>3, <1>4, <1>6 DEF Values
<1> DEFINE T == {i \in Nat : i <= n => v[i] = Pow2[OctetBits * i] - 1}
<1>8. 0 \in T
  <2>1. Pow2[0] = 1 /\ OctetBits * 0 = 0
    BY <1>1, Pow2Facts
  <2>2. v[0] = Pow2[OctetBits * 0] - 1
    BY <1>7, <2>1
  <2> QED BY <2>2
<1>9. ASSUME NEW i \in Nat, i \in T PROVE i + 1 \in T
  <2> SUFFICES ASSUME i + 1 <= n PROVE v[i + 1] = Pow2[OctetBits * (i + 1)] - 1
    OBVIOUS
  <2>1. i + 1 \in 1 .. n /\ (i + 1) - 1 = i
    BY <1>1
  <2>2. OctetBits * (i + 1) = OctetBits + OctetBits * i /\ OctetBits * i \in Nat
    BY <1>1, Times
  <2> DEFINE P == Pow2[OctetBits * i]
  <2>3. Pow2[OctetBits * (i + 1)] = Base * P
    BY <1>1, <2>2, Pow2Adds DEF Base
  <2>4. v[i + 1] = (Base - 1) + Base * v[i] /\ v[i] = P - 1 /\ P \in Nat \ {0}
    BY <1>1, <1>7, <1>9, <2>1, <2>2, Pow2Facts
  <2> HIDE DEF P
  <2>5. (Base - 1) + Base * (P - 1) = Base * P - 1
    BY <1>1, <2>4
  <2> QED BY <2>3, <2>4, <2>5
<1> HIDE DEF T
<1>10. n \in T /\ n \in Nat
  BY <1>1, <1>8, <1>9, Induction
<1>11. LittleEndian(o) = Pow2[OctetBits * n] - 1
  BY <1>7, <1>10 DEF T
<1> QED BY <1>2, <1>5, <1>11 DEF BigEndian, Width, n, o

-----------------------------------------------------------------------------
(* Networks, masks and broadcast addresses.                                *)

(* The numbers with the same quotient, from the lowest to the highest.     *)
LEMMA Block ==
    ASSUME NEW h \in Nat \ {0}, NEW x \in Nat
    PROVE  LET q == x \div h
           IN  /\ q \in Nat /\ q * h \in Nat /\ q * h <= x /\ x <= q * h + h - 1
               /\ (q * h) \div h = q /\ (q * h + h - 1) \div h = q
<1> DEFINE q == x \div h
<1>1. q \in Nat /\ x % h \in 0 .. h - 1 /\ x = (x % h) + h * q
  BY Division
<1> HIDE DEF q
<1>2. q * h = h * q /\ q * h \in Nat
  BY <1>1, Times
<1>3. q * h <= x /\ x <= q * h + h - 1
  BY <1>1, <1>2
<1>4. (0 + h * q) \div h = q
  <2>1. 0 \in 0 .. h - 1
    OBVIOUS
  <2> QED BY <1>1, <2>1, Divides
<1>5. ((h - 1) + h * q) \div h = q
  <2>1. h - 1 \in 0 .. h - 1
    OBVIOUS
  <2> QED BY <1>1, <2>1, Divides
<1>6. 0 + h * q = q * h /\ (h - 1) + h * q = q * h + h - 1
  BY <1>2
<1> QED BY <1>1, <1>2, <1>3, <1>4, <1>5, <1>6 DEF q

(* The host part of a prefix, and the addresses it divides into.           *)
LEMMA HostPart ==
    ASSUME NEW f \in Families, NEW n \in 0 .. Width(f)
    PROVE  LET h == Pow2[Width(f) - n]
           IN  /\ HostBits(f, n) = Width(f) - n /\ h \in Nat \ {0}
               /\ Pow2[n] \in Nat \ {0} /\ Pow2[Width(f)] = Pow2[n] * h
<1>1. Width(f) \in Nat
  BY Sizes
<1> DEFINE W == Width(f)
<1> HIDE DEF W
<1>2. n \in Nat /\ W - n \in Nat /\ n + (W - n) = W /\ ~(n > W) /\ n \in 0 .. W
  BY <1>1 DEF W
<1>3. HostBits(f, n) = W - n
  BY <1>2 DEF HostBits, W
<1>4. Pow2[n + (W - n)] = Pow2[n] * Pow2[W - n]
  BY <1>2, Pow2Adds
<1>5. Pow2[n] \in Nat \ {0} /\ Pow2[W - n] \in Nat \ {0}
  BY <1>2, Pow2Facts
<1> QED BY <1>2, <1>3, <1>4, <1>5 DEF W

(* The network of an address is the lowest address with its prefix.        *)
LEMMA NetworkLowest ==
    ASSUME NEW f \in Families, NEW n \in 0 .. Width(f),
           NEW a \in [1 .. Octets[f] -> Octet]
    PROVE  LET h == Pow2[Width(f) - n]
               net == NetworkAddress(f, a, n)
           IN  /\ BigEndian(a) \div h = BigEndian(net) \div h
               /\ \A c \in [1 .. Octets[f] -> Octet] :
                     BigEndian(a) \div h = BigEndian(c) \div h
                       => BigEndian(net) <= BigEndian(c)
<1> DEFINE h == Pow2[Width(f) - n]
           x == BigEndian(a)
           m == (x \div h) * h
<1>1. HostBits(f, n) = Width(f) - n /\ h \in Nat \ {0}
  BY HostPart
<1>2. x \in Nat /\ x < Pow2[Width(f)] /\ Pow2[Width(f)] \in Nat
  BY BigEndianType, Sizes, Pow2Facts
<1>3. NetworkAddress(f, a, n) = FromBigEndian(f, m)
  BY <1>1 DEF NetworkAddress
<1> HIDE DEF h, x
<1>4. m \in Nat /\ m <= x /\ m \div h = x \div h
  BY <1>1, <1>2, Block
<1>5. m < Pow2[Width(f)]
  <2> HIDE DEF m
  <2> QED BY <1>2, <1>4
<1>6. BigEndian(FromBigEndian(f, m)) = m
  <2> HIDE DEF m
  <2> QED BY <1>4, <1>5, BigEndianRound
<1>7. ASSUME NEW c \in [1 .. Octets[f] -> Octet], x \div h = BigEndian(c) \div h
      PROVE  m <= BigEndian(c)
  <2>1. BigEndian(c) \in Nat
    BY BigEndianType
  <2>2. (BigEndian(c) \div h) * h <= BigEndian(c)
    BY <1>1, <2>1, Block
  <2> QED BY <1>7, <2>2
<1> HIDE DEF m
<1> QED BY <1>3, <1>4, <1>6, <1>7 DEF h, x

(* The broadcast address is the highest with the prefix of the address.    *)
LEMMA BroadcastHighest ==
    ASSUME NEW n \in 0 .. Width("V4"), NEW a \in [1 .. Octets["V4"] -> Octet]
    PROVE  LET h == Pow2[Width("V4") - n]
               b == BroadcastAddress(a, n)
           IN  /\ BigEndian(a) \div h = BigEndian(b) \div h
               /\ \A c \in [1 .. Octets["V4"] -> Octet] :
                     BigEndian(a) \div h = BigEndian(c) \div h
                       => BigEndian(c) <= BigEndian(b)
<1>0. "V4" \in Families
  BY Sizes
<1> DEFINE h == Pow2[Width("V4") - n]
           x == BigEndian(a)
           q == x \div h
           m == q * h + h - 1
           P == Pow2[n]
           W == Pow2[Width("V4")]
<1>1. HostBits("V4", n) = Width("V4") - n /\ h \in Nat \ {0} /\ P \in Nat \ {0} /\ W = P * h
  BY <1>0, HostPart
<1>2. x \in Nat /\ x < W /\ W \in Nat
  BY <1>0, BigEndianType, Sizes, Pow2Facts
<1>3. BroadcastAddress(a, n) = FromBigEndian("V4", m)
  BY <1>1 DEF BroadcastAddress
<1> HIDE DEF h, x, P, W
<1>4. q \in Nat /\ q * h \in Nat /\ q * h <= x /\ m \div h = q
  BY <1>1, <1>2, Block
<1> HIDE DEF q
<1>5. m \in Nat /\ m < W
  <2>1. q < P
    <3> SUFFICES ASSUME P <= q PROVE FALSE
      BY <1>1, <1>4
    <3>1. P * h <= q * h /\ P * h \in Nat
      BY <1>1, <1>4, Grows, Times
    <3> QED BY <1>1, <1>2, <1>4, <3>1
  <2>2. (q + 1) * h <= P * h /\ (q + 1) * h = q * h + h
    <3>1. q + 1 \in Nat /\ q + 1 <= P
      BY <1>1, <1>4, <2>1
    <3>2. (q + 1) * h = q * h + h
      BY <1>1, <1>4
    <3> QED BY <1>1, <3>1, <3>2, Grows
  <2>3. P * h \in Nat
    BY <1>1, Times
  <2> QED BY <1>1, <1>4, <2>2, <2>3
<1>6. BigEndian(FromBigEndian("V4", m)) = m
  <2> HIDE DEF m
  <2> QED BY <1>0, <1>5, BigEndianRound DEF W
<1>7. ASSUME NEW c \in [1 .. Octets["V4"] -> Octet], q = BigEndian(c) \div h
      PROVE  BigEndian(c) <= m
  <2>1. BigEndian(c) \in Nat
    BY <1>0, BigEndianType
  <2>2. BigEndian(c) <= (BigEndian(c) \div h) * h + h - 1
    BY <1>1, <2>1, Block
  <2> QED BY <1>7, <2>2
<1> HIDE DEF m
<1> QED BY <1>3, <1>4, <1>6, <1>7 DEF h, x, q

(* The mask and the highest address agree on the prefix.                   *)
LEMMA MaskAgrees ==
    ASSUME NEW n \in 0 .. Width("V4")
    PROVE  LET h == Pow2[Width("V4") - n]
           IN  BigEndian(SubnetMask(n)) \div h
                 = BigEndian([k \in 1 .. Octets["V4"] |-> Base - 1]) \div h
<1>0. "V4" \in Families
  BY Sizes
<1> DEFINE h == Pow2[Width("V4") - n]
           P == Pow2[n]
           W == Pow2[Width("V4")]
<1>1. HostBits("V4", n) = Width("V4") - n /\ h \in Nat \ {0} /\ P \in Nat \ {0} /\ W = P * h
  BY <1>0, HostPart
<1>2. SubnetMask(n) = FromBigEndian("V4", W - h)
  BY <1>1 DEF SubnetMask
<1>3. BigEndian([k \in 1 .. Octets["V4"] |-> Base - 1]) = W - 1
  BY <1>0, AllOnes
<1> HIDE DEF h, P
<1>4. P - 1 \in Nat /\ h * (P - 1) = W - h /\ (h - 1) + h * (P - 1) = W - 1
  BY <1>1
<1>5. W - h \in Nat /\ W - h < W
  <2>1. h * (P - 1) \in Nat /\ W \in Nat
    BY <1>1, <1>4, Times
  <2> HIDE DEF W
  <2> QED BY <1>1, <1>4, <2>1
<1>6. BigEndian(SubnetMask(n)) = W - h
  <2>1. BigEndian(FromBigEndian("V4", W - h)) = W - h
    BY <1>0, <1>5, BigEndianRound
  <2> QED BY <1>2, <2>1
<1> HIDE DEF W
<1>7. (W - h) \div h = P - 1
  <2>1. (0 + h * (P - 1)) \div h = P - 1
    <3>1. 0 \in 0 .. h - 1
      BY <1>1
    <3> QED BY <1>1, <1>4, <3>1, Divides
  <2>2. 0 + h * (P - 1) = W - h
    BY <1>4, <1>5
  <2> QED BY <2>1, <2>2
<1>8. (W - 1) \div h = P - 1
  <2>1. ((h - 1) + h * (P - 1)) \div h = P - 1
    <3>1. h - 1 \in 0 .. h - 1
      BY <1>1
    <3> QED BY <1>1, <1>4, <3>1, Divides
  <2> QED BY <1>4, <2>1
<1> QED BY <1>3, <1>6, <1>7, <1>8 DEF h

-----------------------------------------------------------------------------
(* What a filter leaves.                                                   *)

(* g[i] is what is left of the first i elements.                           *)
Filters(g, X, s, S) ==
    /\ g \in [0 .. Len(s) -> Seq(X \cap S)]
    /\ g[0] = <<>> /\ g[Len(s)] = Kept(s, S)
    /\ \A i \in 1 .. Len(s) :
          g[i] = IF s[i] \in S THEN Append(g[i - 1], s[i]) ELSE g[i - 1]

(* The filter, element by element.                                         *)
LEMMA KeptSteps ==
    ASSUME NEW X, NEW s \in Seq(X), NEW S
    PROVE  \E g : Filters(g, X, s, S)
<1> DEFINE n == Len(s)
           V == Seq(X \cap S)
           Def(f) == [i \in 0 .. n |->
                         IF i = 0 THEN <<>>
                         ELSE IF s[i] \in S THEN Append(f[i - 1], s[i]) ELSE f[i - 1]]
           step == [p \in V \X (1 .. n) |->
                       IF s[p[2]] \in S THEN Append(p[1], s[p[2]]) ELSE p[1]]
           g == CHOOSE f : f = Def(f)
<1>1. n \in Nat /\ \A i \in 1 .. n : s[i] \in X
  OBVIOUS
<1>2. \A x \in V, i \in 1 .. n :
          step[<<x, i>>] = IF s[i] \in S THEN Append(x, s[i]) ELSE x
  OBVIOUS
<1>3. <<>> \in V /\ \A x \in V, y \in X \cap S : Append(x, y) \in V
  OBVIOUS
<1> HIDE DEF n, step, V
<1>4. \A x \in V, i \in 1 .. n : (IF s[i] \in S THEN Append(x, s[i]) ELSE x) \in V
  BY <1>1, <1>3
<1>5. PICK f : Unfolds(f, V, <<>>, n, step)
  <2>1. \A x \in V, i \in 1 .. n : step[<<x, i>>] \in V
    BY <1>2, <1>4
  <2> QED BY <1>1, <1>3, <2>1, Recursion
<1>6. f = Def(f)
  <2>1. ASSUME NEW i \in 0 .. n PROVE f[i] = Def(f)[i]
    <3>1. CASE i = 0
      BY <1>5, <3>1 DEF Unfolds
    <3>2. CASE i # 0
      <4>1. i \in 1 .. n /\ i - 1 \in 0 .. n /\ f[i - 1] \in V
        BY <1>1, <1>5, <3>2 DEF Unfolds
      <4> QED BY <1>2, <1>5, <4>1 DEF Unfolds
    <3> QED BY <3>1, <3>2
  <2> QED BY <1>5, <2>1 DEF Unfolds
<1>7. g = Def(g)
  BY <1>6
<1>8. Kept(s, S) = g[n]
  BY DEF Kept, n
<1> HIDE DEF g
<1>9. g[0] = <<>> /\ \A i \in 1 .. n :
          g[i] = IF s[i] \in S THEN Append(g[i - 1], s[i]) ELSE g[i - 1]
  <2>1. \A i \in 0 .. n : g[i] = Def(g)[i]
    BY <1>7
  <2>2. \A i \in 0 .. n :
            g[i] = IF i = 0 THEN <<>>
                   ELSE IF s[i] \in S THEN Append(g[i - 1], s[i]) ELSE g[i - 1]
    BY <2>1
  <2> HIDE DEF Def
  <2> QED BY <1>1, <2>2
<1>10. g \in [0 .. n -> V]
  <2> DEFINE T == {i \in Nat : i <= n => g[i] \in V}
  <2>1. 0 \in T
    BY <1>3, <1>9
  <2>2. ASSUME NEW i \in Nat, i \in T PROVE i + 1 \in T
    <3> SUFFICES ASSUME i + 1 <= n PROVE g[i + 1] \in V
      OBVIOUS
    <3>1. i + 1 \in 1 .. n /\ (i + 1) - 1 = i /\ g[i] \in V
      BY <1>1, <2>2
    <3>2. g[i + 1] = IF s[i + 1] \in S THEN Append(g[i], s[i + 1]) ELSE g[i]
      BY <1>9, <3>1
    <3> QED BY <1>4, <3>1, <3>2
  <2> HIDE DEF T
  <2>3. Nat \subseteq T
    BY <2>1, <2>2, Induction
  <2>4. \A i \in 0 .. n : g[i] \in V
    BY <1>1, <2>3 DEF T
  <2> QED BY <1>7, <2>4
<1> QED BY <1>8, <1>9, <1>10 DEF n, V, Filters

(* What is left are elements of the set.                                   *)
LEMMA KeptType ==
    ASSUME NEW X, NEW s \in Seq(X), NEW S
    PROVE  Kept(s, S) \in Seq(X \cap S)
<1>1. PICK g : Filters(g, X, s, S)
  BY KeptSteps
<1>2. Len(s) \in 0 .. Len(s)
  OBVIOUS
<1> QED BY <1>1, <1>2 DEF Filters

(* A filter that every element passes leaves the sequence as it is.        *)
LEMMA KeptAll ==
    ASSUME NEW X, NEW s \in Seq(X), NEW S, X \subseteq S
    PROVE  Kept(s, S) = s
<1> DEFINE n == Len(s)
<1>1. n \in Nat /\ (\A i \in 1 .. n : s[i] \in S /\ s[i] \in X)
  OBVIOUS
<1>2. PICK g : Filters(g, X, s, S)
  BY KeptSteps
<1>3. /\ \A i \in 0 .. n : g[i] \in Seq(X)
      /\ g[0] = <<>> /\ g[n] = Kept(s, S)
      /\ \A i \in 1 .. n : g[i] = Append(g[i - 1], s[i])
  <2>1. X \cap S = X
    OBVIOUS
  <2> QED BY <1>1, <1>2, <2>1 DEF Filters
<1> DEFINE T == {i \in Nat : i <= n => Len(g[i]) = i /\ \A j \in 1 .. i : g[i][j] = s[j]}
<1> HIDE DEF n
<1>4. 0 \in T
  BY <1>3
<1>5. ASSUME NEW i \in Nat, i \in T PROVE i + 1 \in T
  <2> SUFFICES ASSUME i + 1 <= n
               PROVE  Len(g[i + 1]) = i + 1 /\ \A j \in 1 .. i + 1 : g[i + 1][j] = s[j]
    OBVIOUS
  <2>1. /\ i + 1 \in 1 .. n /\ (i + 1) - 1 = i /\ i \in 0 .. n
        /\ Len(g[i]) = i /\ \A j \in 1 .. i : g[i][j] = s[j]
    BY <1>1, <1>5
  <2> DEFINE t == g[i]  x == s[i + 1]
  <2>2. g[i + 1] = Append(t, x) /\ t \in Seq(X) /\ x \in X
    BY <1>1, <1>3, <2>1
  <2> HIDE DEF t, x
  <2>3. /\ Len(Append(t, x)) = Len(t) + 1 /\ Append(t, x)[Len(t) + 1] = x
        /\ \A j \in 1 .. Len(t) : Append(t, x)[j] = t[j]
    BY <2>2
  <2>4. \A j \in 1 .. i + 1 : j \in 1 .. i \/ j = i + 1
    OBVIOUS
  <2> QED BY <2>1, <2>2, <2>3, <2>4 DEF t, x
<1> HIDE DEF T
<1>6. n \in T /\ n \in 0 .. n
  BY <1>1, <1>4, <1>5, Induction
<1>7. Len(g[n]) = n /\ \A j \in 1 .. n : g[n][j] = s[j]
  BY <1>6 DEF T
<1>8. g[n] \in Seq(X)
  BY <1>3, <1>6
<1>9. g[n] = s
  BY <1>7, <1>8, SeqEqual DEF n
<1> QED BY <1>3, <1>9

-----------------------------------------------------------------------------
(* Routes, to a dictionary and back.                                       *)

Octs(f) == [1 .. Octets[f] -> Octet]
Encode(f, o) == IF f = "V4" THEN LittleEndian(o) ELSE o
Decode(f, x) == IF f = "V4" THEN FromLittleEndian(f, x) ELSE x

(* Zero is an address, and octets are a sequence.                          *)
LEMMA OctsFacts ==
    ASSUME NEW f \in Families
    PROVE  /\ Zero(f) \in Octs(f)
           /\ \A o \in Octs(f) : o \in Seq(Octet) /\ Len(o) = Octets[f]
           /\ \A o \in Seq(Octet) : Len(o) = Octets[f] => o \in Octs(f)
<1>1. Octets[f] \in Nat /\ 0 \in Octet
  BY Sizes
<1>2. Zero(f) \in Octs(f)
  BY <1>1 DEF Zero, Octs
<1>3. \A o \in Octs(f) : o \in Seq(Octet) /\ Len(o) = Octets[f]
  BY <1>1 DEF Octs
<1>4. \A o \in Seq(Octet) : Len(o) = Octets[f] => o \in Octs(f)
  BY DEF Octs
<1> QED BY <1>2, <1>3, <1>4

(* An address and its parts.                                               *)
LEMMA AddressFacts ==
    ASSUME NEW f \in Families
    PROVE  /\ Addresses(f) \subseteq Address
           /\ \A a \in Addresses(f) : /\ a.family = f /\ a.octets \in Octs(f)
                                      /\ a = IP(f, a.octets) /\ IsOf(f, a)
           /\ \A a \in Address : a # None /\ a # Garbage /\ (a.family = f => a \in Addresses(f))
           /\ \A o \in Octs(f) : IP(f, o) \in Addresses(f)
<1>1. \A a \in Address : a # None /\ a # Garbage
  BY AbsentAssumption
<1>2. Addresses(f) \subseteq Address
  BY DEF Address, Families
<1>3. \A a \in Addresses(f) : a.family = f /\ a.octets \in Octs(f) /\ a = IP(f, a.octets)
  BY DEF Addresses, Octs, IP
<1>4. \A a \in Addresses(f) : IsOf(f, a)
  BY <1>1, <1>2, <1>3 DEF IsOf
<1>5. \A a \in Address : a.family = f => a \in Addresses(f)
  BY DEF Address, Addresses, Families
<1>6. \A o \in Octs(f) : IP(f, o) \in Addresses(f)
  BY DEF Addresses, Octs, IP
<1> QED BY <1>1, <1>2, <1>3, <1>4, <1>5, <1>6

(* The octets that are sent for an address that may be absent.             *)
LEMMA OctetsOfFacts ==
    ASSUME NEW f \in Families
    PROVE  /\ \A a \in Address \cup {None} : OctetsOf(f, a) \in Octs(f)
           /\ \A a \in Addresses(f) : OctetsOf(f, a) = a.octets
           /\ OctetsOf(f, None) = Zero(f)
<1>1. ASSUME NEW a \in Address \cup {None} PROVE OctetsOf(f, a) \in Octs(f)
  <2>1. CASE IsOf(f, a)
    <3>1. a \in Addresses(f)
      BY <2>1, AddressFacts DEF IsOf
    <3> QED BY <2>1, <3>1, AddressFacts DEF OctetsOf
  <2>2. CASE ~IsOf(f, a)
    BY <2>2, OctsFacts DEF OctetsOf
  <2> QED BY <2>1, <2>2
<1>2. \A a \in Addresses(f) : OctetsOf(f, a) = a.octets
  BY AddressFacts DEF OctetsOf
<1>3. OctetsOf(f, None) = Zero(f)
  BY DEF OctetsOf, IsOf
<1> QED BY <1>1, <1>2, <1>3

(* Octets survive being sent.                                              *)
LEMMA EncodeRound ==
    ASSUME NEW f \in Families, NEW o \in Octs(f)
    PROVE  /\ Decode(f, Encode(f, o)) = o
           /\ f = "V4" => Encode(f, o) \in Nat
           /\ f = "V6" => Encode(f, o) = o
<1>1. CASE f = "V4"
  <2>1. o \in Seq(Octet)
    BY OctsFacts
  <2>2. FromLittleEndian(f, LittleEndian(o)) = o
    BY LittleEndianRound DEF Octs
  <2>3. LittleEndian(o) \in Nat
    BY <2>1, LittleEndianType
  <2> QED BY <1>1, <2>2, <2>3 DEF Encode, Decode
<1>2. CASE f = "V6"
  BY <1>2 DEF Encode, Decode
<1> QED BY <1>1, <1>2 DEF Families

(* An entry that parse_routes can read.                                    *)
Legible(f, e) ==
    /\ e \in Entries(f) /\ Len(e) = 4
    /\ f = "V6" => Len(e[1]) = Octets[f] /\ Len(e[3]) = Octets[f]

(* The parts of such an entry.                                             *)
LEMMA EntryParts ==
    ASSUME NEW f \in Families, NEW e, Legible(f, e)
    PROVE  /\ Decode(f, e[1]) \in Octs(f) /\ Decode(f, e[3]) \in Octs(f)
           /\ e[2] \in Nat /\ e[4] \in Nat
<1>1. CASE f = "V4"
  <2>1. e \in Seq(Nat) /\ Len(e) = 4
    BY <1>1 DEF Legible, Entries
  <2>2. \A i \in 1 .. Len(e) : e[i] \in Nat
    BY <2>1, ElementOfSeq
  <2>3. e[1] \in Nat /\ e[2] \in Nat /\ e[3] \in Nat /\ e[4] \in Nat
    BY <2>1, <2>2
  <2> QED BY <1>1, <2>3, FromLittleEndianType DEF Decode, Octs
<1>2. CASE f = "V6"
  <2>1. e \in Seq(Octet) \X Nat \X Seq(Octet) \X Nat
    BY <1>2 DEF Legible, Entries
  <2>2. e[1] \in Seq(Octet) /\ e[2] \in Nat /\ e[3] \in Seq(Octet) /\ e[4] \in Nat
    BY <2>1
  <2>3. Len(e[1]) = Octets[f] /\ Len(e[3]) = Octets[f]
    BY <1>2 DEF Legible
  <2>4. Decode(f, e[1]) = e[1] /\ Decode(f, e[3]) = e[3]
    BY <1>2 DEF Decode
  <2> QED BY <2>2, <2>3, <2>4, OctsFacts
<1> QED BY <1>1, <1>2 DEF Families

(* What ParseRoute makes of an entry, field by field.                      *)
LEMMA ParseRouteFields ==
    ASSUME NEW f, NEW e
    PROVE  LET r == ParseRoute(f, e)
           IN  r = [family |-> f, destination |-> IP(f, Decode(f, e[1])), prefix |-> e[2],
                    gateway |-> IF Decode(f, e[3]) = Zero(f) THEN None
                                ELSE IP(f, Decode(f, e[3])),
                    interface |-> None, metric |-> IF e[4] = 0 THEN None ELSE e[4],
                    kind |-> "Unicast", scope |-> IF e[2] = 0 THEN "Universe" ELSE "Link"]
BY DEF ParseRoute, Decode

(* An entry that can be read becomes a route.                              *)
LEMMA ParseRouteType ==
    ASSUME NEW f \in Families, NEW e, Legible(f, e)
    PROVE  ParseRoute(f, e) \in Routes(f)
<1> DEFINE dest == IP(f, Decode(f, e[1]))
           gate == IF Decode(f, e[3]) = Zero(f) THEN None ELSE IP(f, Decode(f, e[3]))
           met == IF e[4] = 0 THEN None ELSE e[4]
           sco == IF e[2] = 0 THEN "Universe" ELSE "Link"
<1>1. dest \in Addresses(f) /\ gate \in Address \cup {None}
  BY EntryParts, AddressFacts
<1>2. met \in Nat \cup {None} /\ e[2] \in Nat /\ sco \in {"Universe", "Link"}
  <2>1. e[2] \in Nat /\ e[4] \in Nat
    BY EntryParts
  <2>2. met \in Nat \cup {None}
    BY <2>1
  <2>3. sco \in {"Universe", "Link"}
    OBVIOUS
  <2> QED BY <2>1, <2>2, <2>3
<1>3. ParseRoute(f, e) =
          [family |-> f, destination |-> dest, prefix |-> e[2], gateway |-> gate,
           interface |-> None, metric |-> met, kind |-> "Unicast", scope |-> sco]
  BY ParseRouteFields
<1>4. None \in Int \cup {None}
  OBVIOUS
<1> HIDE DEF dest, gate, met, sco
<1> QED BY <1>1, <1>2, <1>3, <1>4 DEF Routes

(* A route becomes an entry that can be read.                              *)
LEMMA RouteEntryType ==
    ASSUME NEW f \in Families, NEW r \in Routes(f)
    PROVE  LET e == RouteEntry(f, r)
           IN  /\ Legible(f, e) /\ e[2] = r.prefix
               /\ e[4] = OrZero(r.metric) /\ OrZero(r.metric) \in Nat
               /\ Decode(f, e[1]) = OctetsOf(f, r.destination)
               /\ Decode(f, e[3]) = OctetsOf(f, r.gateway)
               /\ OctetsOf(f, r.gateway) \in Octs(f)
               /\ IP(f, OctetsOf(f, r.destination)) = r.destination
<1> DEFINE d == OctetsOf(f, r.destination)
           g == OctetsOf(f, r.gateway)
           m == OrZero(r.metric)
           n == r.prefix
<1>1. /\ r.destination \in Addresses(f) /\ r.gateway \in Address \cup {None}
      /\ n \in Nat /\ r.metric \in Nat \cup {None}
  BY DEF Routes
<1>2. d \in Octs(f) /\ g \in Octs(f) /\ IP(f, d) = r.destination
  BY <1>1, OctetsOfFacts, AddressFacts
<1>3. m \in Nat
  BY <1>1 DEF OrZero
<1>4. RouteEntry(f, r) = <<Encode(f, d), n, Encode(f, g), m>>
  BY DEF RouteEntry, Encode
<1> HIDE DEF d, g, m, n
<1> DEFINE e == <<Encode(f, d), n, Encode(f, g), m>>
<1>5. Decode(f, Encode(f, d)) = d /\ Decode(f, Encode(f, g)) = g
  BY <1>2, EncodeRound
<1>6. Legible(f, e)
  <2>1. CASE f = "V4"
    <3>1. Encode(f, d) \in Nat /\ Encode(f, g) \in Nat
      BY <1>2, <2>1, EncodeRound
    <3>2. \A x, y \in Nat : <<x, n, y, m>> \in Seq(Nat) /\ Len(<<x, n, y, m>>) = 4
      BY <1>1, <1>3
    <3> QED BY <2>1, <3>1, <3>2 DEF Legible, Entries
  <2>2. CASE f = "V6"
    <3>1. Encode(f, d) = d /\ Encode(f, g) = g
      BY <1>2, <2>2, EncodeRound
    <3>2. d \in Seq(Octet) /\ g \in Seq(Octet) /\ Len(d) = Octets[f] /\ Len(g) = Octets[f]
      BY <1>2, OctsFacts
    <3>3. e \in Seq(Octet) \X Nat \X Seq(Octet) \X Nat /\ Len(e) = 4
      BY <1>1, <1>3, <3>1, <3>2
    <3> QED BY <2>2, <3>1, <3>2, <3>3 DEF Legible, Entries
  <2> QED BY <2>1, <2>2 DEF Families
<1>7. e[1] = Encode(f, d) /\ e[2] = n /\ e[3] = Encode(f, g) /\ e[4] = m
  OBVIOUS
<1> HIDE DEF e
<1> QED BY <1>2, <1>3, <1>4, <1>5, <1>6, <1>7 DEF d, g, m, n, e

(* What a route that is written and read comes back as.                    *)
LEMMA RouteComesBack ==
    ASSUME NEW f \in Families, NEW r \in Routes(f)
    PROVE  ParseRoute(f, RouteEntry(f, r)) = RouteWrittenBack(r)
<1> DEFINE e == RouteEntry(f, r)
           g == OctetsOf(f, r.gateway)
           gate == IF Decode(f, e[3]) = Zero(f) THEN None ELSE IP(f, Decode(f, e[3]))
           met == IF e[4] = 0 THEN None ELSE e[4]
           gate2 == IF IsOf(r.family, r.gateway) /\ r.gateway.octets # Zero(r.family)
                    THEN r.gateway ELSE None
           met2 == IF r.metric = 0 THEN None ELSE r.metric
<1>1. /\ e[2] = r.prefix /\ e[4] = OrZero(r.metric) /\ OrZero(r.metric) \in Nat
      /\ Decode(f, e[1]) = OctetsOf(f, r.destination) /\ Decode(f, e[3]) = g
      /\ g \in Octs(f) /\ IP(f, OctetsOf(f, r.destination)) = r.destination
  BY RouteEntryType
<1>2. r.family = f /\ r.gateway \in Address \cup {None} /\ r.metric \in Nat \cup {None}
  BY DEF Routes
<1>3. ParseRoute(f, e) = [family |-> f, destination |-> IP(f, Decode(f, e[1])),
                          prefix |-> e[2], gateway |-> gate, interface |-> None,
                          metric |-> met, kind |-> "Unicast",
                          scope |-> IF e[2] = 0 THEN "Universe" ELSE "Link"]
  BY ParseRouteFields
<1>4. RouteWrittenBack(r) =
          [family |-> r.family, destination |-> r.destination, prefix |-> r.prefix,
           gateway |-> gate2, interface |-> None, metric |-> met2, kind |-> "Unicast",
           scope |-> IF r.prefix = 0 THEN "Universe" ELSE "Link"]
  BY DEF RouteWrittenBack
<1> HIDE DEF e
<1>5. gate = gate2
  <2>1. CASE IsOf(f, r.gateway)
    <3>1. r.gateway \in Addresses(f)
      BY <1>2, <2>1, AddressFacts DEF IsOf
    <3>2. g = r.gateway.octets /\ IP(f, g) = r.gateway
      BY <3>1, AddressFacts, OctetsOfFacts
    <3> HIDE DEF g
    <3> QED BY <1>1, <1>2, <2>1, <3>2
  <2>2. CASE ~IsOf(f, r.gateway)
    <3>1. g = Zero(f)
      BY <2>2 DEF OctetsOf
    <3> HIDE DEF g
    <3> QED BY <1>1, <1>2, <2>2, <3>1
  <2> QED BY <2>1, <2>2
<1>6. met = met2
  <2>1. None \notin Nat
    BY AbsentAssumption
  <2> QED BY <1>1, <1>2, <2>1 DEF OrZero
<1> HIDE DEF gate, met, gate2, met2, g
<1>7. ParseRoute(f, e) = RouteWrittenBack(r)
  BY <1>1, <1>2, <1>3, <1>4, <1>5, <1>6
<1> QED BY <1>7 DEF e

(* A route that was read from a dictionary is written back as it came.     *)
LEMMA RouteRound ==
    ASSUME NEW f \in Families, NEW x, Legible(f, x)
    PROVE  ParseRoute(f, RouteEntry(f, ParseRoute(f, x))) = ParseRoute(f, x)
<1> DEFINE r == ParseRoute(f, x)
           e == RouteEntry(f, r)
           dx == Decode(f, x[1])
           gx == Decode(f, x[3])
<1>1. r \in Routes(f) /\ dx \in Octs(f) /\ gx \in Octs(f) /\ x[2] \in Nat /\ x[4] \in Nat
  BY ParseRouteType, EntryParts
<1>2. r = [family |-> f, destination |-> IP(f, dx), prefix |-> x[2],
           gateway |-> IF gx = Zero(f) THEN None ELSE IP(f, gx),
           interface |-> None, metric |-> IF x[4] = 0 THEN None ELSE x[4],
           kind |-> "Unicast", scope |-> IF x[2] = 0 THEN "Universe" ELSE "Link"]
  BY ParseRouteFields
<1> HIDE DEF r, dx, gx
<1>3. /\ r.destination = IP(f, dx) /\ r.prefix = x[2]
      /\ r.gateway = IF gx = Zero(f) THEN None ELSE IP(f, gx)
      /\ r.metric = IF x[4] = 0 THEN None ELSE x[4]
  BY <1>2
<1>4. /\ e[2] = r.prefix /\ e[4] = OrZero(r.metric)
      /\ Decode(f, e[1]) = OctetsOf(f, r.destination)
      /\ Decode(f, e[3]) = OctetsOf(f, r.gateway)
  BY <1>1, RouteEntryType
<1> HIDE DEF e
<1>5. Decode(f, e[1]) = dx
  <2>1. IP(f, dx) \in Addresses(f) /\ IP(f, dx).octets = dx
    BY <1>1, AddressFacts DEF IP
  <2> QED BY <1>3, <1>4, <2>1, OctetsOfFacts
<1>6. Decode(f, e[3]) = gx
  <2>1. IP(f, gx) \in Addresses(f) /\ IP(f, gx).octets = gx
    BY <1>1, AddressFacts DEF IP
  <2>2. OctetsOf(f, IP(f, gx)) = gx /\ OctetsOf(f, None) = Zero(f)
    BY <2>1, OctetsOfFacts
  <2> QED BY <1>3, <1>4, <2>2
<1>7. e[4] = x[4]
  <2>1. None \notin Nat
    BY AbsentAssumption
  <2> QED BY <1>1, <1>3, <1>4, <2>1 DEF OrZero
<1>8. ParseRoute(f, e) =
          [family |-> f, destination |-> IP(f, Decode(f, e[1])), prefix |-> e[2],
           gateway |-> IF Decode(f, e[3]) = Zero(f) THEN None ELSE IP(f, Decode(f, e[3])),
           interface |-> None, metric |-> IF e[4] = 0 THEN None ELSE e[4],
           kind |-> "Unicast", scope |-> IF e[2] = 0 THEN "Universe" ELSE "Link"]
  BY ParseRouteFields
<1>9. ParseRoute(f, e) = r
  BY <1>2, <1>3, <1>4, <1>5, <1>6, <1>7, <1>8
<1> QED BY <1>9 DEF r, e

-----------------------------------------------------------------------------
(* The ip sections, to a dictionary and back.                              *)

MethodText(m) == (CHOOSE x \in Methods : x[1] = m)[2]
MethodOf(w) == (CHOOSE x \in Methods : x[2] = w)[1]
MethodNames == { x[1] : x \in Methods }
AnyRoute == Routes("V4") \cup Routes("V6")

(* The words of the code are no absent entries.                            *)
LEMMA WordsFacts == \A w \in Words : w # None /\ w \in STRING
BY AbsentAssumption

(* The words for the methods, both ways.                                   *)
LEMMA MethodWords ==
    /\ MethodNames = {"Automatic", "Manual", "Disabled"}
    /\ { x[2] : x \in Methods } = {"auto", "manual", "disabled"}
    /\ MethodText("Automatic") = "auto" /\ MethodText("Manual") = "manual"
    /\ MethodText("Disabled") = "disabled"
    /\ MethodOf("auto") = "Automatic" /\ MethodOf("manual") = "Manual"
    /\ MethodOf("disabled") = "Disabled"
<1> DEFINE a == <<"Automatic", "auto">>
           m == <<"Manual", "manual">>
           d == <<"Disabled", "disabled">>
<1>1. Methods = {a, m, d}
  BY DEF Methods
<1>2. /\ a[1] = "Automatic" /\ a[2] = "auto" /\ m[1] = "Manual" /\ m[2] = "manual"
      /\ d[1] = "Disabled" /\ d[2] = "disabled"
  OBVIOUS
<1> HIDE DEF a, m, d
<1>3. /\ (CHOOSE x \in Methods : x[1] = "Automatic") = a
      /\ (CHOOSE x \in Methods : x[1] = "Manual") = m
      /\ (CHOOSE x \in Methods : x[1] = "Disabled") = d
  BY <1>1, <1>2
<1>4. /\ (CHOOSE x \in Methods : x[2] = "auto") = a
      /\ (CHOOSE x \in Methods : x[2] = "manual") = m
      /\ (CHOOSE x \in Methods : x[2] = "disabled") = d
  BY <1>1, <1>2
<1>5. MethodNames = {"Automatic", "Manual", "Disabled"}
  BY <1>1, <1>2 DEF MethodNames
<1>6. { x[2] : x \in Methods } = {"auto", "manual", "disabled"}
  BY <1>1, <1>2
<1> QED BY <1>2, <1>3, <1>4, <1>5, <1>6 DEF MethodText, MethodOf

(* A method survives being sent.                                           *)
LEMMA MethodRound ==
    ASSUME NEW m \in MethodNames
    PROVE  /\ MethodText(m) \in {"auto", "manual", "disabled"}
           /\ MethodText(m) = "manual" <=> m = "Manual"
           /\ MethodText(m) \notin {None, ""} /\ MethodText(m) \in STRING
           /\ MethodOf(MethodText(m)) = m
<1>1. m \in {"Automatic", "Manual", "Disabled"}
  BY MethodWords
<1>2. {"auto", "manual", "disabled"} \subseteq Words
  BY DEF Words
<1>3. MethodText(m) \in {"auto", "manual", "disabled"}
  BY <1>1, MethodWords
<1>4. MethodText(m) # None /\ MethodText(m) \in STRING
  BY <1>2, <1>3, WordsFacts
<1> QED BY <1>1, <1>3, <1>4, MethodWords

(* The routes of a family that a profile has are routes of the family.     *)
LEMMA OwnRoutesType ==
    ASSUME NEW f \in Families, NEW s \in Seq(AnyRoute)
    PROVE  OwnRoutes(s, f) \in Seq(Routes(f))
<1> DEFINE S == { r \in ToSet(s) : r.family = f }
           k == OwnRoutes(s, f)
<1>1. k \in Seq(AnyRoute \cap S)
  BY KeptType DEF OwnRoutes
<1>2. AnyRoute \cap S \subseteq Routes(f)
  BY DEF AnyRoute, Routes, Families
<1> HIDE DEF k, S
<1>3. k \in Seq(Routes(f))
  BY <1>1, <1>2
<1> QED BY <1>3 DEF k

(* Where there are no others, they are all of them.                        *)
LEMMA OwnRoutesAll ==
    ASSUME NEW f \in Families, NEW s \in Seq(Routes(f))
    PROVE  OwnRoutes(s, f) = s
<1> DEFINE S == { r \in ToSet(s) : r.family = f }
<1>1. s \in Seq(ToSet(s))
  BY DEF ToSet
<1>2. \A r \in ToSet(s) : r \in Routes(f)
  BY DEF ToSet
<1>3. \A r \in Routes(f) : r.family = f
  BY DEF Routes
<1>4. ToSet(s) \subseteq S
  BY <1>2, <1>3
<1> HIDE DEF S
<1>5. Kept(s, S) = s
  BY <1>1, <1>4, KeptAll
<1> QED BY <1>5 DEF OwnRoutes, S

(* The entries of some routes.                                             *)
EntriesOf(f, routes) == [i \in DOMAIN routes |-> RouteEntry(f, routes[i])]

(* They are a sequence of entries that can be read.                        *)
LEMMA EntriesType ==
    ASSUME NEW f \in Families, NEW s \in Seq(Routes(f))
    PROVE  /\ EntriesOf(f, s) \in Seq(Entries(f)) /\ DOMAIN EntriesOf(f, s) = DOMAIN s
           /\ \A i \in DOMAIN s : Legible(f, EntriesOf(f, s)[i])
                                  /\ EntriesOf(f, s)[i] = RouteEntry(f, s[i])
                                  /\ EntriesOf(f, s)[i][2] = s[i].prefix
<1>1. DOMAIN s = 1 .. Len(s) /\ Len(s) \in Nat /\ \A i \in DOMAIN s : s[i] \in Routes(f)
  OBVIOUS
<1>2. \A i \in DOMAIN s : Legible(f, RouteEntry(f, s[i])) /\ RouteEntry(f, s[i])[2] = s[i].prefix
  BY <1>1, RouteEntryType
<1>3. \A i \in DOMAIN s : RouteEntry(f, s[i]) \in Entries(f)
  BY <1>2 DEF Legible
<1>4. EntriesOf(f, s) \in Seq(Entries(f))
  BY <1>1, <1>3 DEF EntriesOf
<1> QED BY <1>2, <1>4 DEF EntriesOf

(* An ip section, entry by entry.                                          *)
LEMMA SectionFields ==
    ASSUME NEW c, NEW f
    PROVE  LET s == IpConfigSection(c, f)
               manual == c.method = "Manual"
           IN  s = [method |-> MethodText(c.method),
                    address_data |-> IF manual /\ c.address # None
                                     THEN << [address |-> c.address, prefix |-> c.prefix] >>
                                     ELSE None,
                    gateway |-> IF manual THEN c.gateway ELSE None,
                    dns     |-> IF manual /\ c.dns # <<>> THEN c.dns ELSE None,
                    routes  |-> IF c.routes = <<>> THEN None
                                ELSE EntriesOf(f, OwnRoutes(c.routes, f))]
BY DEF IpConfigSection, MethodText, EntriesOf, MapSeq

(* What is read from an ip section, field by field.                        *)
LEMMA ParseFields ==
    ASSUME NEW s, NEW f
    PROVE  LET c == ParseIpConfig(s, f)
               manual == s.method = "manual"
           IN  c = [method  |-> IF s.method \in {None, ""} THEN "Automatic"
                                ELSE MethodOf(s.method),
                    address |-> IF manual THEN s.address_data[1].address ELSE None,
                    prefix  |-> IF manual THEN s.address_data[1].prefix % PrefixSpan
                                ELSE None,
                    gateway |-> IF manual /\ s.gateway # Garbage THEN s.gateway ELSE None,
                    dns     |-> IF manual /\ s.dns # None
                                THEN Kept(s.dns, ToSet(s.dns) \ {Garbage}) ELSE <<>>,
                    routes  |-> IF s.routes = None THEN <<>>
                                ELSE [i \in DOMAIN s.routes |-> ParseRoute(f, s.routes[i])]]
BY DEF ParseIpConfig, MethodOf, MapSeq

(* An ip section of a profile is one that a message can carry.             *)
LEMMA SectionType ==
    ASSUME NEW f \in Families, NEW c \in IpConfigs
    PROVE  IpConfigSection(c, f) \in IpSections(f)
<1> DEFINE manual == c.method = "Manual"
           data == IF manual /\ c.address # None
                   THEN << [address |-> c.address, prefix |-> c.prefix] >> ELSE None
           gate == IF manual THEN c.gateway ELSE None
           dns == IF manual /\ c.dns # <<>> THEN c.dns ELSE None
           routes == IF c.routes = <<>> THEN None ELSE EntriesOf(f, OwnRoutes(c.routes, f))
<1>1. /\ c.method \in MethodNames /\ c.address \in Address \cup {None}
      /\ c.prefix \in Nat \cup {None} /\ c.gateway \in Address \cup {None}
      /\ c.dns \in Seq(Address) /\ c.routes \in Seq(AnyRoute)
  BY DEF IpConfigs, MethodNames, AnyRoute
<1>2. MethodText(c.method) \in Text
  BY <1>1, MethodRound DEF Text
<1>3. data \in Seq(AddressData) \cup {None}
  <2>1. [address |-> c.address, prefix |-> c.prefix] \in AddressData
    BY <1>1 DEF AddressData
  <2> QED BY <2>1
<1>4. gate \in Address \cup {None, Garbage}
  BY <1>1
<1>5. dns \in Seq(Address \cup {Garbage}) \cup {None}
  <2>1. c.dns \in Seq(Address \cup {Garbage})
    BY <1>1
  <2> QED BY <2>1
<1>6. routes \in Seq(Entries(f)) \cup {None, Garbage}
  <2>1. OwnRoutes(c.routes, f) \in Seq(Routes(f))
    BY <1>1, OwnRoutesType
  <2>2. EntriesOf(f, OwnRoutes(c.routes, f)) \in Seq(Entries(f))
    BY <2>1, EntriesType
  <2> QED BY <2>2
<1>7. IpConfigSection(c, f) = [method |-> MethodText(c.method), address_data |-> data,
                               gateway |-> gate, dns |-> dns, routes |-> routes]
  BY SectionFields
<1> HIDE DEF data, gate, dns, routes
<1> QED BY <1>2, <1>3, <1>4, <1>5, <1>6, <1>7 DEF IpSections

(* The routes that are read are of the family, in range, and each comes    *)
(* from an entry.                                                          *)
ReadRoutes(routes, f) ==
    /\ routes \in Seq(Routes(f))
    /\ \A i \in DOMAIN routes :
          /\ routes[i].prefix <= Width(f)
          /\ \E e : Legible(f, e) /\ routes[i] = ParseRoute(f, e)

(* The routes of a section that is accepted are read.                      *)
LEMMA RoutesType ==
    ASSUME NEW f \in Families, NEW s \in IpSections(f), RoutesParse(s.routes, f)
    PROVE  ReadRoutes(ParseIpConfig(s, f).routes, f)
<1> DEFINE c == ParseIpConfig(s, f)
<1>1. s.routes \in Seq(Entries(f)) \cup {None, Garbage}
  BY DEF IpSections
<1>2. c.routes = IF s.routes = None THEN <<>>
                 ELSE [i \in DOMAIN s.routes |-> ParseRoute(f, s.routes[i])]
  BY ParseFields
<1> HIDE DEF c
<1>3. CASE s.routes = None
  <2>1. c.routes = <<>>
    BY <1>2, <1>3
  <2>2. <<>> \in Seq(Routes(f)) /\ DOMAIN <<>> = {}
    OBVIOUS
  <2> QED BY <2>1, <2>2 DEF ReadRoutes, c
<1>4. CASE s.routes # None
  <2> DEFINE t == s.routes
             u == [i \in DOMAIN t |-> ParseRoute(f, t[i])]
  <2>1. t # Garbage /\ t \in Seq(Entries(f))
    BY <1>1, <1>4 DEF RoutesParse
  <2>2. \A i \in DOMAIN t : Len(t[i]) = 4 /\ t[i][2] <= Width(f)
            /\ (f = "V6" => Len(t[i][1]) = Octets[f] /\ Len(t[i][3]) = Octets[f])
    BY <1>4 DEF RoutesParse
  <2> HIDE DEF t
  <2>3. DOMAIN t = 1 .. Len(t) /\ Len(t) \in Nat /\ \A i \in DOMAIN t : t[i] \in Entries(f)
    BY <2>1
  <2>4. \A i \in DOMAIN t : Legible(f, t[i])
    BY <2>2, <2>3 DEF Legible
  <2>5. \A i \in DOMAIN t : ParseRoute(f, t[i]) \in Routes(f)
                            /\ ParseRoute(f, t[i]).prefix = t[i][2]
    BY <2>4, ParseRouteType, ParseRouteFields
  <2>6. u \in Seq(Routes(f)) /\ DOMAIN u = DOMAIN t
    BY <2>3, <2>5
  <2>7. \A i \in DOMAIN u : u[i] = ParseRoute(f, t[i])
    BY <2>6
  <2> HIDE DEF u
  <2>8. ReadRoutes(u, f)
    BY <2>2, <2>4, <2>5, <2>6, <2>7 DEF ReadRoutes
  <2>9. c.routes = u
    BY <1>2, <1>4 DEF u, t
  <2> QED BY <2>8, <2>9 DEF c
<1> QED BY <1>3, <1>4

(* What is read from a section that is accepted is an ip configuration.    *)
LEMMA ParseType ==
    ASSUME NEW f \in Families, NEW s \in IpSections(f), IpAccepted(s, f)
    PROVE  ParseIpConfig(s, f) \in IpConfigs
<1> DEFINE c == ParseIpConfig(s, f)
           manual == s.method = "manual"
           meth == IF s.method \in {None, ""} THEN "Automatic" ELSE MethodOf(s.method)
           addr == IF manual THEN s.address_data[1].address ELSE None
           pref == IF manual THEN s.address_data[1].prefix % PrefixSpan ELSE None
           gate == IF manual /\ s.gateway # Garbage THEN s.gateway ELSE None
           dns == IF manual /\ s.dns # None THEN Kept(s.dns, ToSet(s.dns) \ {Garbage})
                  ELSE <<>>
<1>1. /\ s.address_data \in Seq(AddressData) \cup {None}
      /\ s.gateway \in Address \cup {None, Garbage}
      /\ s.dns \in Seq(Address \cup {Garbage}) \cup {None}
  BY DEF IpSections
<1>2. meth \in MethodNames
  <2>1. s.method \in {None, "", "auto", "manual", "disabled"}
    BY MethodWords DEF IpAccepted
  <2> QED BY <2>1, MethodWords
<1>3. addr \in Address \cup {None} /\ pref \in Nat \cup {None}
  <2>1. CASE manual
    <3> DEFINE d == s.address_data[1]
    <3>1. /\ s.address_data \notin {None, <<>>}
          /\ IsOf(f, d.address) /\ d.prefix # None
      BY <2>1 DEF IpAccepted
    <3>2. s.address_data \in Seq(AddressData) /\ s.address_data # <<>>
      BY <1>1, <3>1
    <3>3. d \in AddressData
      <4>1. 1 \in 1 .. Len(s.address_data)
        BY <3>2
      <4> QED BY <3>2, <4>1, ElementOfSeq
    <3> HIDE DEF d
    <3>4. d.address \in Address /\ d.prefix \in Nat
      BY <3>1, <3>3 DEF AddressData, IsOf
    <3>5. PrefixSpan \in Nat \ {0}
      BY ConversionAssumption, Sizes
    <3>6. d.prefix % PrefixSpan \in Nat
      BY <3>4, <3>5
    <3> QED BY <2>1, <3>4, <3>6 DEF d
  <2>2. CASE ~manual
    BY <2>2
  <2> QED BY <2>1, <2>2
<1>4. gate \in Address \cup {None}
  BY <1>1
<1>5. dns \in Seq(Address)
  <2>1. CASE manual /\ s.dns # None
    <3> DEFINE t == s.dns
               S == ToSet(t) \ {Garbage}
    <3>1. t \in Seq(Address \cup {Garbage})
      BY <1>1, <2>1
    <3>2. Kept(t, S) \in Seq((Address \cup {Garbage}) \cap S)
      BY <3>1, KeptType
    <3>3. (Address \cup {Garbage}) \cap S \subseteq Address
      OBVIOUS
    <3> DEFINE k == Kept(t, S)
               Y == (Address \cup {Garbage}) \cap S
    <3> HIDE DEF k, Y
    <3>4. k \in Seq(Y) /\ Y \subseteq Address
      BY <3>2, <3>3 DEF k, Y
    <3>5. k \in Seq(Address)
      BY <3>4
    <3> QED BY <2>1, <3>5 DEF k
  <2>2. CASE ~(manual /\ s.dns # None)
    BY <2>2
  <2> QED BY <2>1, <2>2
<1>6. c.routes \in Seq(AnyRoute)
  <2> DEFINE u == c.routes
  <2>1. u \in Seq(Routes(f))
    BY RoutesType DEF IpAccepted, ReadRoutes
  <2>2. Routes(f) \subseteq AnyRoute
    BY DEF AnyRoute, Families
  <2> HIDE DEF u
  <2>3. u \in Seq(AnyRoute)
    BY <2>1, <2>2
  <2> QED BY <2>3 DEF u
<1>7. c = [method |-> meth, address |-> addr, prefix |-> pref, gateway |-> gate,
           dns |-> dns, routes |-> c.routes]
  <2> DEFINE ro == IF s.routes = None THEN <<>>
                   ELSE [i \in DOMAIN s.routes |-> ParseRoute(f, s.routes[i])]
  <2>1. c = [method |-> meth, address |-> addr, prefix |-> pref, gateway |-> gate,
             dns |-> dns, routes |-> ro]
    BY ParseFields
  <2> HIDE DEF c, meth, addr, pref, gate, dns, ro
  <2>2. c.routes = ro
    BY <2>1
  <2> QED BY <2>1, <2>2
<1> DEFINE ro == c.routes
<1> HIDE DEF c, meth, addr, pref, gate, dns, ro
<1>8. c = [method |-> meth, address |-> addr, prefix |-> pref, gateway |-> gate,
           dns |-> dns, routes |-> ro] /\ ro \in Seq(AnyRoute)
  BY <1>6, <1>7 DEF ro
<1>9. c \in IpConfigs
  BY <1>2, <1>3, <1>4, <1>5, <1>8 DEF IpConfigs, MethodNames, AnyRoute
<1> QED BY <1>9 DEF c

(* The routes that come back when the routes of a profile are sent.        *)
Returned(routes, f) ==
    [i \in DOMAIN OwnRoutes(routes, f) |->
        ParseRoute(f, RouteEntry(f, OwnRoutes(routes, f)[i]))]

(* An ip configuration that is written and read.                           *)
LEMMA Back ==
    ASSUME NEW f \in Families, NEW c \in IpConfigs, ValidIpConfig(c, f)
    PROVE  LET d == ParseIpConfig(IpConfigSection(c, f), f)
               manual == c.method = "Manual"
           IN  d = [method  |-> c.method,
                    address |-> IF manual THEN c.address ELSE None,
                    prefix  |-> IF manual THEN c.prefix ELSE None,
                    gateway |-> IF manual THEN c.gateway ELSE None,
                    dns     |-> IF manual THEN c.dns ELSE <<>>,
                    routes  |-> Returned(c.routes, f)]
<1> DEFINE manual == c.method = "Manual"
           s == IpConfigSection(c, f)
           kept == OwnRoutes(c.routes, f)
           data == IF manual /\ c.address # None
                   THEN << [address |-> c.address, prefix |-> c.prefix] >> ELSE None
           routes == IF c.routes = <<>> THEN None ELSE EntriesOf(f, kept)
           meth == IF s.method \in {None, ""} THEN "Automatic" ELSE MethodOf(s.method)
           addr == IF s.method = "manual" THEN s.address_data[1].address ELSE None
           pref == IF s.method = "manual" THEN s.address_data[1].prefix % PrefixSpan
                   ELSE None
           gate == IF s.method = "manual" /\ s.gateway # Garbage THEN s.gateway ELSE None
           dns == IF s.method = "manual" /\ s.dns # None
                  THEN Kept(s.dns, ToSet(s.dns) \ {Garbage}) ELSE <<>>
           back == IF s.routes = None THEN <<>>
                   ELSE [i \in DOMAIN s.routes |-> ParseRoute(f, s.routes[i])]
<1>1. /\ c.method \in MethodNames /\ c.address \in Address \cup {None}
      /\ c.prefix \in Nat \cup {None} /\ c.gateway \in Address \cup {None}
      /\ c.dns \in Seq(Address) /\ c.routes \in Seq(AnyRoute)
  BY DEF IpConfigs, MethodNames, AnyRoute
<1>2. manual => /\ c.address \in Address /\ c.address # None
                /\ c.prefix \in Nat /\ c.prefix <= Width(f)
  BY <1>1, AbsentAssumption DEF ValidIpConfig, IsOf
<1>3. s = [method |-> MethodText(c.method), address_data |-> data,
           gateway |-> IF manual THEN c.gateway ELSE None,
           dns |-> IF manual /\ c.dns # <<>> THEN c.dns ELSE None,
           routes |-> routes]
  BY SectionFields
<1>4. ParseIpConfig(s, f) = [method |-> meth, address |-> addr, prefix |-> pref,
                             gateway |-> gate, dns |-> dns, routes |-> back]
  BY ParseFields
<1> HIDE DEF s
<1>5. /\ s.method = MethodText(c.method) /\ s.address_data = data
      /\ s.gateway = IF manual THEN c.gateway ELSE None
      /\ s.dns = IF manual /\ c.dns # <<>> THEN c.dns ELSE None
      /\ s.routes = routes
  BY <1>3
<1>6. meth = c.method /\ (s.method = "manual" <=> manual)
  BY <1>1, <1>5, MethodRound
<1>7. addr = (IF manual THEN c.address ELSE None) /\ pref = (IF manual THEN c.prefix ELSE None)
  <2>1. CASE manual
    <3> DEFINE d == [address |-> c.address, prefix |-> c.prefix]
    <3>1. s.address_data = <<d>>
      BY <1>2, <1>5, <2>1
    <3>2. d.address = c.address /\ d.prefix = c.prefix
      OBVIOUS
    <3>3. PrefixSpan \in Nat /\ PrefixSpan > Width(f) /\ Width(f) \in Nat
      BY ConversionAssumption, Sizes
    <3>4. c.prefix \in Nat /\ c.prefix < PrefixSpan
      BY <1>2, <2>1, <3>3
    <3>5. c.prefix % PrefixSpan = c.prefix
      BY <3>3, <3>4
    <3> HIDE DEF d
    <3>6. s.address_data[1] = d
      BY <3>1
    <3> QED BY <1>6, <2>1, <3>2, <3>5, <3>6
  <2>2. CASE ~manual
    BY <1>6, <2>2
  <2> QED BY <2>1, <2>2
<1>8. gate = IF manual THEN c.gateway ELSE None
  <2>1. c.gateway # Garbage
    BY <1>1, AbsentAssumption
  <2> QED BY <1>5, <1>6, <2>1
<1>9. dns = IF manual THEN c.dns ELSE <<>>
  <2>1. CASE manual /\ c.dns # <<>>
    <3> DEFINE t == c.dns
    <3>1. t \in Seq(Address)
      BY <1>1
    <3>2. t \in Seq(Address \cup {Garbage})
      BY <3>1
    <3>3. t # None
      BY <3>2, AbsentAssumption
    <3>4. t \in Seq(ToSet(t)) /\ \A x \in ToSet(t) : x \in Address
      BY <3>1 DEF ToSet
    <3>5. ToSet(t) \subseteq ToSet(t) \ {Garbage}
      BY <3>4, AbsentAssumption
    <3>6. Kept(t, ToSet(t) \ {Garbage}) = t
      BY <3>4, <3>5, KeptAll
    <3>7. s.dns = t /\ s.method = "manual"
      BY <1>5, <1>6, <2>1
    <3> QED BY <2>1, <3>3, <3>6, <3>7
  <2>2. CASE ~(manual /\ c.dns # <<>>)
    <3>1. s.dns = None
      BY <1>5, <2>2
    <3> QED BY <2>2, <3>1
  <2> QED BY <2>1, <2>2
<1>10. back = Returned(c.routes, f)
  <2>1. CASE c.routes = <<>>
    <3>1. <<>> \in Seq(Routes(f))
      OBVIOUS
    <3>2. kept = <<>>
      BY <2>1, <3>1, OwnRoutesAll
    <3>3. s.routes = None
      BY <1>5, <2>1
    <3>4. Returned(c.routes, f) = [i \in DOMAIN kept |-> ParseRoute(f, RouteEntry(f, kept[i]))]
      BY DEF Returned
    <3> HIDE DEF kept
    <3>5. [i \in DOMAIN kept |-> ParseRoute(f, RouteEntry(f, kept[i]))] = <<>>
      BY <3>2
    <3> QED BY <3>3, <3>4, <3>5
  <2>2. CASE c.routes # <<>>
    <3>1. kept \in Seq(Routes(f))
      BY <1>1, OwnRoutesType
    <3> DEFINE e == EntriesOf(f, kept)
    <3>2. /\ e \in Seq(Entries(f)) /\ DOMAIN e = DOMAIN kept
          /\ \A i \in DOMAIN kept : e[i] = RouteEntry(f, kept[i])
      BY <3>1, EntriesType
    <3>3. s.routes = e /\ e # None
      BY <1>5, <2>2, <3>2, AbsentAssumption
    <3>4. Returned(c.routes, f) = [i \in DOMAIN kept |-> ParseRoute(f, RouteEntry(f, kept[i]))]
      BY DEF Returned
    <3> HIDE DEF e, kept
    <3>5. [i \in DOMAIN e |-> ParseRoute(f, e[i])]
            = [i \in DOMAIN kept |-> ParseRoute(f, RouteEntry(f, kept[i]))]
      BY <3>2
    <3> QED BY <3>3, <3>4, <3>5
  <2> QED BY <2>1, <2>2
<1> HIDE DEF meth, addr, pref, gate, dns, back
<1> QED BY <1>4, <1>6, <1>7, <1>8, <1>9, <1>10 DEF s

(* What an ip configuration comes back as.                                 *)
LEMMA IpComesBack ==
    ASSUME NEW f \in Families, NEW c \in IpConfigs, ValidIpConfig(c, f)
    PROVE  ParseIpConfig(IpConfigSection(c, f), f) = IpWrittenBack(c, f)
<1> DEFINE kept == OwnRoutes(c.routes, f)
<1>1. kept \in Seq(Routes(f))
  <2>1. c.routes \in Seq(AnyRoute)
    BY DEF IpConfigs, AnyRoute
  <2> QED BY <2>1, OwnRoutesType
<1>2. Returned(c.routes, f) = [i \in DOMAIN kept |-> ParseRoute(f, RouteEntry(f, kept[i]))]
  BY DEF Returned
<1> HIDE DEF kept
<1>3. \A i \in DOMAIN kept : kept[i] \in Routes(f)
  BY <1>1
<1>4. \A i \in DOMAIN kept : ParseRoute(f, RouteEntry(f, kept[i])) = RouteWrittenBack(kept[i])
  BY <1>3, RouteComesBack
<1>5. Returned(c.routes, f) = [i \in DOMAIN kept |-> RouteWrittenBack(kept[i])]
  BY <1>2, <1>4
<1>6. Returned(c.routes, f) = MapSeq(RouteWrittenBack, OwnRoutes(c.routes, f))
  BY <1>5 DEF MapSeq, kept
<1> QED BY <1>6, Back DEF IpWrittenBack

(* An ip configuration that was read from a dictionary.                    *)
FromBus(c, f) == \E s \in IpSections(f) : IpAccepted(s, f) /\ c = ParseIpConfig(s, f)

(* It is written as a section that is accepted and describes it again.     *)
LEMMA IpRound ==
    ASSUME NEW f \in Families, NEW c, FromBus(c, f), ValidIpConfig(c, f)
    PROVE  /\ IpAccepted(IpConfigSection(c, f), f)
           /\ ParseIpConfig(IpConfigSection(c, f), f) = c
<1>1. PICK s \in IpSections(f) : IpAccepted(s, f) /\ c = ParseIpConfig(s, f)
  BY DEF FromBus
<1>2. c \in IpConfigs /\ ReadRoutes(c.routes, f)
  BY <1>1, ParseType, RoutesType DEF IpAccepted
<1>3. OwnRoutes(c.routes, f) = c.routes /\ c.routes \in Seq(Routes(f))
  BY <1>2, OwnRoutesAll DEF ReadRoutes
<1> DEFINE manual == c.method = "Manual"
<1>4. ParseIpConfig(IpConfigSection(c, f), f) = c
  <2>1. Returned(c.routes, f) = c.routes
    <3> DEFINE r == c.routes
    <3>1. r \in Seq(Routes(f)) /\ \A i \in DOMAIN r : \E e : Legible(f, e) /\ r[i] = ParseRoute(f, e)
      BY <1>2 DEF ReadRoutes
    <3>2. Returned(r, f) = [i \in DOMAIN r |-> ParseRoute(f, RouteEntry(f, r[i]))]
      BY <1>3 DEF Returned
    <3> HIDE DEF r
    <3>3. \A i \in DOMAIN r : ParseRoute(f, RouteEntry(f, r[i])) = r[i]
      BY <3>1, RouteRound
    <3>4. [i \in DOMAIN r |-> ParseRoute(f, RouteEntry(f, r[i]))] = r
      BY <3>1, <3>3
    <3> QED BY <3>2, <3>4 DEF r
  <2>2. ~manual => /\ c.address = None /\ c.prefix = None /\ c.gateway = None
                   /\ c.dns = <<>>
    <3>1. s.method # "manual" => /\ c.address = None /\ c.prefix = None
                                 /\ c.gateway = None /\ c.dns = <<>>
      BY <1>1, ParseFields
    <3>2. s.method = "manual" => manual
      <4>1. c.method = IF s.method \in {None, ""} THEN "Automatic" ELSE MethodOf(s.method)
        BY <1>1, ParseFields
      <4>2. "manual" \in Words
        BY DEF Words
      <4>3. "manual" \notin {None, ""}
        BY <4>2, WordsFacts
      <4> QED BY <4>1, <4>3, MethodWords
    <3> QED BY <3>1, <3>2
  <2>3. ParseIpConfig(IpConfigSection(c, f), f) =
            [method |-> c.method, address |-> IF manual THEN c.address ELSE None,
             prefix |-> IF manual THEN c.prefix ELSE None,
             gateway |-> IF manual THEN c.gateway ELSE None,
             dns |-> IF manual THEN c.dns ELSE <<>>, routes |-> Returned(c.routes, f)]
    BY <1>2, Back
  <2>4. ParseIpConfig(IpConfigSection(c, f), f) =
            [method |-> c.method, address |-> c.address, prefix |-> c.prefix,
             gateway |-> c.gateway, dns |-> c.dns, routes |-> c.routes]
    BY <2>1, <2>2, <2>3
  <2>5. c = [method |-> c.method, address |-> c.address, prefix |-> c.prefix,
             gateway |-> c.gateway, dns |-> c.dns, routes |-> c.routes]
    BY <1>2 DEF IpConfigs
  <2> QED BY <2>4, <2>5
<1>5. IpAccepted(IpConfigSection(c, f), f)
  <2> DEFINE t == IpConfigSection(c, f)
  <2>1. /\ t.method = MethodText(c.method)
        /\ t.address_data = IF manual /\ c.address # None
                            THEN << [address |-> c.address, prefix |-> c.prefix] >> ELSE None
        /\ t.routes = IF c.routes = <<>> THEN None ELSE EntriesOf(f, c.routes)
    BY <1>3, SectionFields
  <2>2. c.method \in MethodNames /\ c.address \in Address \cup {None}
        /\ c.prefix \in Nat \cup {None}
    BY <1>2 DEF IpConfigs, MethodNames
  <2> HIDE DEF t
  <2>3. t.method \in {None, ""} \cup { m[2] : m \in Methods }
    BY <2>1, <2>2, MethodRound, MethodWords
  <2>4. ASSUME t.method = "manual"
        PROVE  /\ t.address_data \notin {None, <<>>}
               /\ IsOf(f, t.address_data[1].address)
               /\ t.address_data[1].prefix # None
    <3> DEFINE d == [address |-> c.address, prefix |-> c.prefix]
    <3>1. manual
      BY <2>1, <2>2, <2>4, MethodRound
    <3>2. IsOf(f, c.address) /\ c.prefix # None
      BY <3>1 DEF ValidIpConfig
    <3>3. d \in AddressData /\ d.address = c.address /\ d.prefix = c.prefix
      BY <2>2 DEF AddressData
    <3> HIDE DEF d
    <3>4. t.address_data = <<d>>
      BY <2>1, <3>1, <3>2 DEF d, IsOf
    <3>5. <<d>> \in Seq(AddressData) /\ <<d>> # <<>> /\ <<d>>[1] = d
      BY <3>3
    <3>6. <<d>> # None
      BY <3>5, AbsentAssumption
    <3> QED BY <3>2, <3>3, <3>4, <3>5, <3>6
  <2>5. RoutesParse(t.routes, f)
    <3> SUFFICES ASSUME t.routes # None
                 PROVE  /\ t.routes # Garbage
                        /\ \A i \in DOMAIN t.routes :
                              /\ Len(t.routes[i]) = 4
                              /\ t.routes[i][2] <= Width(f)
                              /\ f = "V6" => /\ Len(t.routes[i][1]) = Octets[f]
                                             /\ Len(t.routes[i][3]) = Octets[f]
      BY DEF RoutesParse
    <3> DEFINE r == c.routes
               e == EntriesOf(f, r)
    <3>1. t.routes = e
      BY <2>1
    <3>2. /\ e \in Seq(Entries(f)) /\ DOMAIN e = DOMAIN r
          /\ \A i \in DOMAIN r : Legible(f, e[i]) /\ e[i][2] = r[i].prefix
      BY <1>3, EntriesType
    <3>3. \A i \in DOMAIN r : r[i].prefix <= Width(f)
      BY <1>2 DEF ReadRoutes
    <3> HIDE DEF e, r
    <3>4. e # Garbage
      BY <3>2, AbsentAssumption
    <3> QED BY <3>1, <3>2, <3>3, <3>4 DEF Legible
  <2>6. IpAccepted(t, f)
    BY <2>3, <2>4, <2>5 DEF IpAccepted
  <2> QED BY <2>6 DEF t
<1> QED BY <1>4, <1>5

-----------------------------------------------------------------------------
(* A profile, to a dictionary and back.                                    *)

(* The dictionaries that a message can carry.                              *)
Settings == [connection : Connections \cup {None}, wireless : Wirelesses \cup {None},
             security : Securities \cup {None}, ipv4 : IpSections("V4") \cup {None},
             ipv6 : IpSections("V6") \cup {None}]

KeyOf(w) == (CHOOSE e \in KeyManagement : e[2] = w)[1]
KeyNames == {"Open", "WpaPsk", "Sae", "WpaEap", "Owe"}
KeyWords == {"none", "wpa-psk", "sae", "wpa-eap", "owe"}

(* A profile without an ip section has the automatic configuration.        *)
LEMMA DefaultFromBus ==
    ASSUME NEW f \in Families
    PROVE  FromBus(DefaultIp, f) /\ DefaultIp \in IpConfigs
<1> DEFINE s == [method |-> None, address_data |-> None, gateway |-> None,
                 dns |-> None, routes |-> None]
<1>1. s \in IpSections(f)
  BY DEF IpSections, Text
<1>2. "manual" \in Words
  BY DEF Words
<1>3. s.method = None /\ None # "manual" /\ s.routes = None
  BY <1>2, WordsFacts
<1>4. IpAccepted(s, f)
  BY <1>3 DEF IpAccepted, RoutesParse
<1>5. ParseIpConfig(s, f) = DefaultIp
  BY <1>3, ParseFields DEF DefaultIp
<1> HIDE DEF s
<1>6. DefaultIp \in IpConfigs
  BY <1>1, <1>4, <1>5, ParseType
<1> QED BY <1>1, <1>4, <1>5, <1>6 DEF FromBus

(* The words for the kinds of key management, both ways.                   *)
LEMMA KeyWordsFacts ==
    /\ { e[1] : e \in KeyManagement } = KeyNames
    /\ \A w : (\E e \in KeyManagement : e[2] = w) <=> w \in KeyWords
    /\ \A k \in KeyNames : /\ KeyManagementString(k) \in KeyWords
                           /\ KeyOf(KeyManagementString(k)) = k
    /\ \A w \in KeyWords : KeyOf(w) \in KeyNames
    /\ KeyOf("none") = "Open" /\ KeyManagementString("Open") = "none"
<1> DEFINE o == <<"Open", "none">>
           p == <<"WpaPsk", "wpa-psk">>
           s == <<"Sae", "sae">>
           e == <<"WpaEap", "wpa-eap">>
           w == <<"Owe", "owe">>
<1>1. KeyManagement = {o, p, s, e, w}
  BY DEF KeyManagement
<1>2. /\ o[1] = "Open" /\ o[2] = "none" /\ p[1] = "WpaPsk" /\ p[2] = "wpa-psk"
      /\ s[1] = "Sae" /\ s[2] = "sae" /\ e[1] = "WpaEap" /\ e[2] = "wpa-eap"
      /\ w[1] = "Owe" /\ w[2] = "owe"
  OBVIOUS
<1> HIDE DEF o, p, s, e, w
<1>3. /\ KeyManagementString("Open") = "none"
      /\ KeyManagementString("WpaPsk") = "wpa-psk"
      /\ KeyManagementString("Sae") = "sae"
      /\ KeyManagementString("WpaEap") = "wpa-eap"
      /\ KeyManagementString("Owe") = "owe"
  <2>1. /\ (CHOOSE x \in KeyManagement : x[1] = "Open") = o
        /\ (CHOOSE x \in KeyManagement : x[1] = "WpaPsk") = p
        /\ (CHOOSE x \in KeyManagement : x[1] = "Sae") = s
        /\ (CHOOSE x \in KeyManagement : x[1] = "WpaEap") = e
        /\ (CHOOSE x \in KeyManagement : x[1] = "Owe") = w
    BY <1>1, <1>2
  <2> QED BY <1>2, <2>1 DEF KeyManagementString
<1>4. /\ KeyOf("none") = "Open" /\ KeyOf("wpa-psk") = "WpaPsk"
      /\ KeyOf("sae") = "Sae" /\ KeyOf("wpa-eap") = "WpaEap"
      /\ KeyOf("owe") = "Owe"
  <2>1. /\ (CHOOSE x \in KeyManagement : x[2] = "none") = o
        /\ (CHOOSE x \in KeyManagement : x[2] = "wpa-psk") = p
        /\ (CHOOSE x \in KeyManagement : x[2] = "sae") = s
        /\ (CHOOSE x \in KeyManagement : x[2] = "wpa-eap") = e
        /\ (CHOOSE x \in KeyManagement : x[2] = "owe") = w
    BY <1>1, <1>2
  <2> QED BY <1>2, <2>1 DEF KeyOf
<1>5. { x[1] : x \in KeyManagement } = KeyNames
  BY <1>1, <1>2 DEF KeyNames
<1>6. \A y : (\E x \in KeyManagement : x[2] = y) <=> y \in KeyWords
  BY <1>1, <1>2 DEF KeyWords
<1>7. \A k \in KeyNames : /\ KeyManagementString(k) \in KeyWords
                          /\ KeyOf(KeyManagementString(k)) = k
  BY <1>3, <1>4 DEF KeyNames, KeyWords
<1>8. \A y \in KeyWords : KeyOf(y) \in KeyNames
  BY <1>4 DEF KeyNames, KeyWords
<1> QED BY <1>3, <1>4, <1>5, <1>6, <1>7, <1>8

(* They are texts, and not the empty one.                                  *)
LEMMA KeyWordsAreWords ==
    \A w \in KeyWords : w \in STRING /\ w \notin {None, ""}
<1>1. KeyWords \subseteq Words
  BY DEF KeyWords, Words
<1>2. "" \notin KeyWords
  BY DEF KeyWords
<1> QED BY <1>1, <1>2, WordsFacts

(* The fields of a profile on disk that the settings tell of.              *)
LEMMA OnDiskFields ==
    ASSUME NEW p, OnDisk(p)
    PROVE  /\ p.id \in STRING /\ p.kind \in {"Wifi", "Ethernet"} /\ p.km \in KeyNames
           /\ p.kind = "Wifi" => p.ssid \in 1 .. 32
           /\ p.kind = "Ethernet" => p.ssid = 0 /\ p.km = "Open"
           /\ p.interface_name \in Text /\ p.autoconnect \in BOOLEAN /\ p.priority \in Int
           /\ p.ipv4 \in IpConfigs /\ p.ipv6 \in IpConfigs
           /\ ValidIpConfig(p.ipv4, "V4") /\ ValidIpConfig(p.ipv6, "V6")
BY KeyWordsFacts DEF OnDisk, Validate

(* The settings of a profile, section by section.                          *)
LEMMA SettingsFields ==
    ASSUME NEW p, OnDisk(p)
    PROVE  LET d == ProfileToSettings(p)
               wifi == p.kind = "Wifi"
           IN  /\ d \in Settings
               /\ d.connection \in Connections /\ d.connection # None
               /\ d.connection = [id |-> p.id,
                                  type |-> IF wifi THEN "802-11-wireless"
                                           ELSE "802-3-ethernet",
                                  interface_name |-> p.interface_name,
                                  autoconnect |-> p.autoconnect,
                                  priority |-> p.priority]
               /\ wifi => d.wireless # None /\ d.wireless.ssid = p.ssid
               /\ KeyMgmt(d) = IF wifi THEN KeyManagementString(p.km) ELSE "none"
               /\ d.ipv4 = IpConfigSection(p.ipv4, "V4") /\ d.ipv4 # None
               /\ d.ipv6 = IpConfigSection(p.ipv6, "V6") /\ d.ipv6 # None
<1> DEFINE d == ProfileToSettings(p)
           wifi == p.kind = "Wifi"
           conn == [id |-> p.id,
                    type |-> IF wifi THEN "802-11-wireless" ELSE "802-3-ethernet",
                    interface_name |-> p.interface_name,
                    autoconnect |-> p.autoconnect, priority |-> p.priority]
           wl == [ssid |-> p.ssid, hidden |-> IF p.hidden THEN TRUE ELSE None]
           sec == [key_mgmt |-> KeyManagementString(p.km)]
           wireless == IF wifi THEN wl ELSE None
           security == IF wifi /\ p.km # "Open" THEN sec ELSE None
           v4 == IpConfigSection(p.ipv4, "V4")
           v6 == IpConfigSection(p.ipv6, "V6")
<1>1. /\ p.id \in STRING /\ p.kind \in {"Wifi", "Ethernet"} /\ p.km \in KeyNames
      /\ p.kind = "Wifi" => p.ssid \in 1 .. 32
      /\ p.kind = "Ethernet" => p.ssid = 0 /\ p.km = "Open"
      /\ p.interface_name \in Text /\ p.autoconnect \in BOOLEAN /\ p.priority \in Int
      /\ p.ipv4 \in IpConfigs /\ p.ipv6 \in IpConfigs
  BY OnDiskFields
<1>2. d = [connection |-> conn, wireless |-> wireless, security |-> security,
           ipv4 |-> v4, ipv6 |-> v6]
  BY DEF ProfileToSettings
<1>3. conn \in Connections
  <2>1. "802-11-wireless" \in Words /\ "802-3-ethernet" \in Words
    BY DEF Words
  <2> DEFINE type == IF wifi THEN "802-11-wireless" ELSE "802-3-ethernet"
  <2>2. type \in STRING
    BY <2>1, WordsFacts
  <2> HIDE DEF type
  <2>3. p.id \in Text /\ type \in Text
    BY <1>1, <2>2 DEF Text
  <2>4. p.autoconnect \in BOOLEAN \cup {None} /\ p.priority \in Int \cup {None}
    BY <1>1
  <2>5. [id |-> p.id, type |-> type, interface_name |-> p.interface_name,
         autoconnect |-> p.autoconnect, priority |-> p.priority] \in Connections
    BY <1>1, <2>3, <2>4 DEF Connections
  <2> QED BY <2>5 DEF type
<1>4. wifi => wl \in Wirelesses
  <2> DEFINE h == IF p.hidden THEN TRUE ELSE None
  <2>1. h \in BOOLEAN \cup {None}
    OBVIOUS
  <2> HIDE DEF h
  <2>2. wifi => p.ssid \in Nat \cup {None}
    BY <1>1
  <2>3. wifi => [ssid |-> p.ssid, hidden |-> h] \in Wirelesses
    BY <2>1, <2>2 DEF Wirelesses
  <2> QED BY <2>3 DEF h
<1>5. /\ sec \in Securities /\ sec.key_mgmt = KeyManagementString(p.km)
      /\ KeyManagementString(p.km) \notin {None, ""}
  <2>1. KeyManagementString(p.km) \in KeyWords
    BY <1>1, KeyWordsFacts
  <2>2. KeyManagementString(p.km) \in STRING /\ KeyManagementString(p.km) \notin {None, ""}
    BY <2>1, KeyWordsAreWords
  <2> QED BY <2>2 DEF Securities, Text
<1>6. v4 \in IpSections("V4") /\ v6 \in IpSections("V6")
  BY <1>1, SectionType, Sizes
<1>7. /\ None \notin Connections /\ None \notin Wirelesses /\ None \notin Securities
      /\ None \notin IpSections("V4") /\ None \notin IpSections("V6")
  BY AbsentAssumption DEF Section
<1>8. wl.ssid = p.ssid
  OBVIOUS
<1> HIDE DEF d, conn, wl, sec, v4, v6
<1>9. d \in Settings
  BY <1>2, <1>3, <1>4, <1>5, <1>6 DEF Settings
<1>10. /\ d.connection = conn /\ d.wireless = wireless /\ d.security = security
       /\ d.ipv4 = v4 /\ d.ipv6 = v6
  BY <1>2
<1>11. KeyMgmt(d) = IF wifi THEN KeyManagementString(p.km) ELSE "none"
  <2>1. CASE wifi /\ p.km # "Open"
    <3>1. d.security = sec /\ sec # None
      BY <1>5, <1>7, <1>10, <2>1
    <3> QED BY <1>5, <2>1, <3>1 DEF KeyMgmt
  <2>2. CASE ~(wifi /\ p.km # "Open")
    <3>1. KeyMgmt(d) = "none"
      BY <1>10, <2>2 DEF KeyMgmt
    <3>2. KeyManagementString("Open") = "none"
      BY KeyWordsFacts
    <3> QED BY <2>2, <3>1, <3>2
  <2> QED BY <2>1, <2>2
<1>12. /\ d.connection = conn /\ d.connection \in Connections /\ d.connection # None
       /\ wifi => d.wireless # None /\ d.wireless.ssid = p.ssid
       /\ d.ipv4 = v4 /\ d.ipv4 # None /\ d.ipv6 = v6 /\ d.ipv6 # None
  BY <1>3, <1>4, <1>6, <1>7, <1>8, <1>10
<1> QED BY <1>9, <1>11, <1>12 DEF d, conn, v4, v6

OrElse(x, default) == IF x = None THEN default ELSE x
ReadIp(s, f) == IF s = None THEN DefaultIp ELSE ParseIpConfig(s, f)

(* The profile that a dictionary describes, field by field.                *)
LEMMA DescribedFields ==
    ASSUME NEW d
    PROVE  LET c == d.connection
               wifi == c.type = "802-11-wireless"
               km == IF wifi THEN KeyOf(KeyMgmt(d)) ELSE "Open"
           IN  Described(d) =
                 [id |-> c.id, name |-> c.id, kind |-> IF wifi THEN "Wifi" ELSE "Ethernet",
                  ssid |-> IF wifi THEN d.wireless.ssid ELSE 0, hidden |-> FALSE,
                  bssid |-> None, km |-> km, secret |-> SecretOf(km),
                  identity |-> IF km = "WpaEap" THEN "nmd-enterprise" ELSE None,
                  speed |-> None, interface_name |-> c.interface_name,
                  mac_address |-> None, priority |-> OrElse(c.priority, 0),
                  autoconnect |-> OrElse(c.autoconnect, TRUE), enabled |-> TRUE,
                  ipv4 |-> ReadIp(d.ipv4, "V4"), ipv6 |-> ReadIp(d.ipv6, "V6")]
<1> DEFINE c == d.connection
           wifi == c.type = "802-11-wireless"
           km == IF wifi THEN KeyOf(KeyMgmt(d)) ELSE "Open"
           kind == IF wifi THEN "Wifi" ELSE "Ethernet"
           ssid == IF wifi THEN d.wireless.ssid ELSE 0
           secret == SecretOf(km)
           identity == IF km = "WpaEap" THEN "nmd-enterprise" ELSE None
           priority == OrElse(c.priority, 0)
           autoconnect == OrElse(c.autoconnect, TRUE)
           v4 == ReadIp(d.ipv4, "V4")
           v6 == ReadIp(d.ipv6, "V6")
<1>1. Described(d) = [NewProfile(c.id, kind) EXCEPT
                        !.ssid = ssid, !.km = km, !.secret = secret, !.identity = identity,
                        !.interface_name = c.interface_name, !.autoconnect = autoconnect,
                        !.priority = priority, !.ipv4 = v4, !.ipv6 = v6]
  BY DEF Described, KeyOf, OrElse, ReadIp
<1> DEFINE id == c.id
           ifn == c.interface_name
<1> HIDE DEF c, kind, ssid, km, secret, identity, priority, autoconnect, v4, v6, id, ifn
<1> DEFINE e == [NewProfile(id, kind) EXCEPT
                   !.ssid = ssid, !.km = km, !.secret = secret, !.identity = identity,
                   !.interface_name = ifn, !.autoconnect = autoconnect,
                   !.priority = priority, !.ipv4 = v4, !.ipv6 = v6]
           r == [id |-> id, name |-> id, kind |-> kind, ssid |-> ssid, hidden |-> FALSE,
                bssid |-> None, km |-> km, secret |-> secret, identity |-> identity,
                speed |-> None, interface_name |-> ifn, mac_address |-> None,
                priority |-> priority, autoconnect |-> autoconnect, enabled |-> TRUE,
                ipv4 |-> v4, ipv6 |-> v6]
           D == {"id", "name", "kind", "ssid", "hidden", "bssid", "km", "secret", "identity",
                 "speed", "interface_name", "mac_address", "priority", "autoconnect",
                 "enabled", "ipv4", "ipv6"}
<1>2. e = [k \in D |-> e[k]]
  <2>1. DOMAIN NewProfile(id, kind) = D
    BY DEF NewProfile
  <2> HIDE DEF D
  <2>2. DOMAIN e = D
    BY <2>1
  <2>3. e = [k \in DOMAIN e |-> e[k]]
    OBVIOUS
  <2> HIDE DEF e
  <2> QED BY <2>2, <2>3
<1>3. r = [k \in D |-> r[k]]
  OBVIOUS
<1>4. /\ e["id"] = id /\ e["name"] = id /\ e["kind"] = kind
      /\ e["ssid"] = ssid /\ e["hidden"] = FALSE /\ e["bssid"] = None
      /\ e["km"] = km /\ e["secret"] = secret /\ e["identity"] = identity
      /\ e["speed"] = None /\ e["interface_name"] = ifn /\ e["mac_address"] = None
      /\ e["priority"] = priority /\ e["autoconnect"] = autoconnect /\ e["enabled"] = TRUE
      /\ e["ipv4"] = v4 /\ e["ipv6"] = v6
  BY DEF NewProfile
<1>5. /\ r["id"] = id /\ r["name"] = id /\ r["kind"] = kind
      /\ r["ssid"] = ssid /\ r["hidden"] = FALSE /\ r["bssid"] = None
      /\ r["km"] = km /\ r["secret"] = secret /\ r["identity"] = identity
      /\ r["speed"] = None /\ r["interface_name"] = ifn /\ r["mac_address"] = None
      /\ r["priority"] = priority /\ r["autoconnect"] = autoconnect /\ r["enabled"] = TRUE
      /\ r["ipv4"] = v4 /\ r["ipv6"] = v6
  OBVIOUS
<1>6. Described(d) = e
  BY <1>1 DEF id, ifn
<1> HIDE DEF e, r
<1>7. \A k \in D : e[k] = r[k]
  BY <1>4, <1>5
<1>8. Described(d) = r
  BY <1>2, <1>3, <1>6, <1>7
<1> QED BY <1>8 DEF r, c, kind, ssid, km, secret, identity, priority, autoconnect, v4, v6, id, ifn

(* A dictionary that is accepted and describes a valid profile.            *)
Good(d) == d \in Settings /\ Accepted(d) /\ Validate(Described(d))

(* What it describes is a profile as it may be on disk, and its ip         *)
(* configurations were read from a dictionary.                             *)
LEMMA DescribedOnDisk ==
    ASSUME NEW d, Good(d)
    PROVE  LET p == Described(d)
           IN  OnDisk(p) /\ FromBus(p.ipv4, "V4") /\ FromBus(p.ipv6, "V6")
<1> DEFINE p == Described(d)
           c == d.connection
           wifi == c.type = "802-11-wireless"
<1>1. /\ d.connection \in Connections \cup {None} /\ d.connection # None
      /\ d.ipv4 \in IpSections("V4") \cup {None}
      /\ d.ipv6 \in IpSections("V6") \cup {None}
  BY DEF Good, Settings, Accepted
<1>2. /\ c.id \in Text /\ c.id # None /\ c.interface_name \in Text
      /\ c.autoconnect \in BOOLEAN \cup {None} /\ c.priority \in Int \cup {None}
  BY <1>1 DEF Good, Accepted, Connections
<1>3. /\ p.id = c.id /\ p.kind = (IF wifi THEN "Wifi" ELSE "Ethernet")
      /\ p.ssid = (IF wifi THEN d.wireless.ssid ELSE 0)
      /\ p.km = (IF wifi THEN KeyOf(KeyMgmt(d)) ELSE "Open")
      /\ p.interface_name = c.interface_name
      /\ p.priority = OrElse(c.priority, 0) /\ p.autoconnect = OrElse(c.autoconnect, TRUE)
      /\ p.ipv4 = ReadIp(d.ipv4, "V4") /\ p.ipv6 = ReadIp(d.ipv6, "V6")
  BY DescribedFields
<1> HIDE DEF p, c
<1>4. p.id \in STRING /\ p.kind \in {"Wifi", "Ethernet"} /\ p.interface_name \in Text
  BY <1>2, <1>3 DEF Text
<1>5. p.km \in KeyNames
  <2>1. wifi => KeyMgmt(d) \in KeyWords
    BY KeyWordsFacts DEF Good, Accepted, c
  <2>2. "Open" \in KeyNames
    BY DEF KeyNames
  <2> QED BY <1>3, <2>1, <2>2, KeyWordsFacts
<1>6. p.kind = "Ethernet" => p.ssid = 0 /\ p.km = "Open"
  BY <1>3
<1>7. p.autoconnect \in BOOLEAN
  BY <1>2, <1>3 DEF OrElse
<1>8. p.priority \in Int
  BY <1>2, <1>3 DEF OrElse
<1>9. FromBus(p.ipv4, "V4") /\ p.ipv4 \in IpConfigs
  <2>1. CASE d.ipv4 = None
    BY <1>3, <2>1, DefaultFromBus, Sizes DEF ReadIp
  <2>2. CASE d.ipv4 # None
    <3>1. d.ipv4 \in IpSections("V4") /\ IpAccepted(d.ipv4, "V4")
      BY <1>1, <2>2 DEF Good, Accepted
    <3>2. p.ipv4 = ParseIpConfig(d.ipv4, "V4")
      BY <1>3, <2>2 DEF ReadIp
    <3> QED BY <3>1, <3>2, ParseType, Sizes DEF FromBus
  <2> QED BY <2>1, <2>2
<1>10. FromBus(p.ipv6, "V6") /\ p.ipv6 \in IpConfigs
  <2>1. CASE d.ipv6 = None
    BY <1>3, <2>1, DefaultFromBus, Sizes DEF ReadIp
  <2>2. CASE d.ipv6 # None
    <3>1. d.ipv6 \in IpSections("V6") /\ IpAccepted(d.ipv6, "V6")
      BY <1>1, <2>2 DEF Good, Accepted
    <3>2. p.ipv6 = ParseIpConfig(d.ipv6, "V6")
      BY <1>3, <2>2 DEF ReadIp
    <3> QED BY <3>1, <3>2, ParseType, Sizes DEF FromBus
  <2> QED BY <2>1, <2>2
<1>11. Validate(p)
  BY DEF Good, p
<1>12. OnDisk(p)
  BY <1>4, <1>5, <1>6, <1>7, <1>8, <1>9, <1>10, <1>11, KeyWordsFacts DEF OnDisk
<1> QED BY <1>9, <1>10, <1>12 DEF p

(* What the settings of a profile describe, field by field.                *)
LEMMA Redescribed ==
    ASSUME NEW p, OnDisk(p)
    PROVE  Described(ProfileToSettings(p)) =
             [id |-> p.id, name |-> p.id, kind |-> p.kind, ssid |-> p.ssid, hidden |-> FALSE,
              bssid |-> None, km |-> p.km, secret |-> SecretOf(p.km),
              identity |-> IF p.km = "WpaEap" THEN "nmd-enterprise" ELSE None,
              speed |-> None, interface_name |-> p.interface_name,
              mac_address |-> None, priority |-> p.priority,
              autoconnect |-> p.autoconnect, enabled |-> TRUE,
              ipv4 |-> ParseIpConfig(IpConfigSection(p.ipv4, "V4"), "V4"),
              ipv6 |-> ParseIpConfig(IpConfigSection(p.ipv6, "V6"), "V6")]
<1> DEFINE d == ProfileToSettings(p)
           c == d.connection
           wifi == c.type = "802-11-wireless"
           km == IF wifi THEN KeyOf(KeyMgmt(d)) ELSE "Open"
<1>1. /\ p.kind \in {"Wifi", "Ethernet"} /\ p.km \in KeyNames
      /\ p.kind = "Ethernet" => p.ssid = 0 /\ p.km = "Open"
      /\ p.autoconnect \in BOOLEAN /\ p.priority \in Int
  BY OnDiskFields
<1>2. /\ c = [id |-> p.id,
              type |-> IF p.kind = "Wifi" THEN "802-11-wireless" ELSE "802-3-ethernet",
              interface_name |-> p.interface_name, autoconnect |-> p.autoconnect,
              priority |-> p.priority]
      /\ p.kind = "Wifi" => d.wireless.ssid = p.ssid
      /\ KeyMgmt(d) = IF p.kind = "Wifi" THEN KeyManagementString(p.km) ELSE "none"
      /\ d.ipv4 = IpConfigSection(p.ipv4, "V4") /\ d.ipv4 # None
      /\ d.ipv6 = IpConfigSection(p.ipv6, "V6") /\ d.ipv6 # None
  BY SettingsFields
<1>3. Described(d) =
        [id |-> c.id, name |-> c.id, kind |-> IF wifi THEN "Wifi" ELSE "Ethernet",
         ssid |-> IF wifi THEN d.wireless.ssid ELSE 0, hidden |-> FALSE,
         bssid |-> None, km |-> km, secret |-> SecretOf(km),
         identity |-> IF km = "WpaEap" THEN "nmd-enterprise" ELSE None,
         speed |-> None, interface_name |-> c.interface_name,
         mac_address |-> None, priority |-> OrElse(c.priority, 0),
         autoconnect |-> OrElse(c.autoconnect, TRUE), enabled |-> TRUE,
         ipv4 |-> ReadIp(d.ipv4, "V4"), ipv6 |-> ReadIp(d.ipv6, "V6")]
  BY DescribedFields
<1> HIDE DEF d, c
<1>4. /\ c.id = p.id /\ c.interface_name = p.interface_name
      /\ c.autoconnect = p.autoconnect /\ c.priority = p.priority
      /\ c.type = IF p.kind = "Wifi" THEN "802-11-wireless" ELSE "802-3-ethernet"
  BY <1>2
<1>5. wifi <=> p.kind = "Wifi"
  BY <1>4
<1>6. km = p.km
  BY <1>1, <1>2, <1>5, KeyWordsFacts
<1>7. (IF wifi THEN "Wifi" ELSE "Ethernet") = p.kind
      /\ (IF wifi THEN d.wireless.ssid ELSE 0) = p.ssid
  BY <1>1, <1>2, <1>5
<1>8. OrElse(c.autoconnect, TRUE) = p.autoconnect
  BY <1>1, <1>4, AbsentAssumption DEF OrElse
<1>9. OrElse(c.priority, 0) = p.priority
  BY <1>1, <1>4, AbsentAssumption DEF OrElse
<1>10. ReadIp(d.ipv4, "V4") = ParseIpConfig(IpConfigSection(p.ipv4, "V4"), "V4")
       /\ ReadIp(d.ipv6, "V6") = ParseIpConfig(IpConfigSection(p.ipv6, "V6"), "V6")
  BY <1>2 DEF ReadIp
<1> HIDE DEF wifi, km
<1>11. Described(d) =
         [id |-> p.id, name |-> p.id, kind |-> p.kind, ssid |-> p.ssid, hidden |-> FALSE,
          bssid |-> None, km |-> p.km, secret |-> SecretOf(p.km),
          identity |-> IF p.km = "WpaEap" THEN "nmd-enterprise" ELSE None,
          speed |-> None, interface_name |-> p.interface_name,
          mac_address |-> None, priority |-> p.priority,
          autoconnect |-> p.autoconnect, enabled |-> TRUE,
          ipv4 |-> ParseIpConfig(IpConfigSection(p.ipv4, "V4"), "V4"),
          ipv6 |-> ParseIpConfig(IpConfigSection(p.ipv6, "V6"), "V6")]
  BY <1>3, <1>4, <1>6, <1>7, <1>8, <1>9, <1>10
<1> QED BY <1>11 DEF d

(* A profile that came from a dictionary comes back as it is.              *)
LEMMA ProfileRound ==
    ASSUME NEW d, Good(d)
    PROVE  SettingsToProfile(ProfileToSettings(Described(d))) = Described(d)
<1> DEFINE p == Described(d)
           q == ProfileToSettings(p)
           c == d.connection
           wifi == c.type = "802-11-wireless"
           km == IF wifi THEN KeyOf(KeyMgmt(d)) ELSE "Open"
<1>1. OnDisk(p) /\ FromBus(p.ipv4, "V4") /\ FromBus(p.ipv6, "V6")
  BY DescribedOnDisk
<1>2. /\ p.id \in STRING /\ p.kind \in {"Wifi", "Ethernet"} /\ p.km \in KeyNames
      /\ p.kind = "Wifi" => p.ssid \in 1 .. 32
      /\ ValidIpConfig(p.ipv4, "V4") /\ ValidIpConfig(p.ipv6, "V6")
  BY <1>1, OnDiskFields
<1>3. /\ IpAccepted(IpConfigSection(p.ipv4, "V4"), "V4")
      /\ ParseIpConfig(IpConfigSection(p.ipv4, "V4"), "V4") = p.ipv4
      /\ IpAccepted(IpConfigSection(p.ipv6, "V6"), "V6")
      /\ ParseIpConfig(IpConfigSection(p.ipv6, "V6"), "V6") = p.ipv6
  BY <1>1, <1>2, IpRound, Sizes
<1>4. Described(q) = p
  <2>1. Described(q) =
          [id |-> p.id, name |-> p.id, kind |-> p.kind, ssid |-> p.ssid, hidden |-> FALSE,
           bssid |-> None, km |-> p.km, secret |-> SecretOf(p.km),
           identity |-> IF p.km = "WpaEap" THEN "nmd-enterprise" ELSE None,
           speed |-> None, interface_name |-> p.interface_name,
           mac_address |-> None, priority |-> p.priority,
           autoconnect |-> p.autoconnect, enabled |-> TRUE,
           ipv4 |-> p.ipv4, ipv6 |-> p.ipv6]
    BY <1>1, <1>3, Redescribed
  <2> DEFINE kind == IF wifi THEN "Wifi" ELSE "Ethernet"
             ssid == IF wifi THEN d.wireless.ssid ELSE 0
             secret == SecretOf(km)
             identity == IF km = "WpaEap" THEN "nmd-enterprise" ELSE None
             priority == OrElse(c.priority, 0)
             autoconnect == OrElse(c.autoconnect, TRUE)
             v4 == ReadIp(d.ipv4, "V4")
             v6 == ReadIp(d.ipv6, "V6")
  <2>2. p = [id |-> c.id, name |-> c.id, kind |-> kind, ssid |-> ssid, hidden |-> FALSE,
             bssid |-> None, km |-> km, secret |-> secret, identity |-> identity,
             speed |-> None, interface_name |-> c.interface_name, mac_address |-> None,
             priority |-> priority, autoconnect |-> autoconnect, enabled |-> TRUE,
             ipv4 |-> v4, ipv6 |-> v6]
    BY DescribedFields
  <2>3. secret = SecretOf(km) /\ identity = IF km = "WpaEap" THEN "nmd-enterprise" ELSE None
    OBVIOUS
  <2> HIDE DEF p, q, c, kind, ssid, km, secret, identity, priority, autoconnect, v4, v6
  <2>4. /\ p.id = c.id /\ p.kind = kind /\ p.ssid = ssid /\ p.km = km
        /\ p.interface_name = c.interface_name /\ p.priority = priority
        /\ p.autoconnect = autoconnect /\ p.ipv4 = v4 /\ p.ipv6 = v6
    BY <2>2
  <2>5. SecretOf(p.km) = secret
        /\ (IF p.km = "WpaEap" THEN "nmd-enterprise" ELSE None) = identity
    BY <2>3, <2>4
  <2> QED BY <2>1, <2>2, <2>4, <2>5
<1>5. Accepted(q)
  <2>1. /\ q.connection # None
        /\ q.connection = [id |-> p.id,
              type |-> IF p.kind = "Wifi" THEN "802-11-wireless" ELSE "802-3-ethernet",
              interface_name |-> p.interface_name, autoconnect |-> p.autoconnect,
              priority |-> p.priority]
        /\ p.kind = "Wifi" => q.wireless # None /\ q.wireless.ssid = p.ssid
        /\ KeyMgmt(q) = IF p.kind = "Wifi" THEN KeyManagementString(p.km) ELSE "none"
        /\ q.ipv4 = IpConfigSection(p.ipv4, "V4") /\ q.ipv6 = IpConfigSection(p.ipv6, "V6")
    BY <1>1, SettingsFields
  <2> HIDE DEF p, q
  <2>2. /\ q.connection.id = p.id
        /\ q.connection.type = IF p.kind = "Wifi" THEN "802-11-wireless" ELSE "802-3-ethernet"
    BY <2>1
  <2>3. p.id # None
    BY <1>2, AbsentAssumption
  <2>4. p.kind = "Wifi" => p.ssid # None /\ p.ssid <= 32
    <3>1. None \notin Int
      BY AbsentAssumption
    <3>2. None \notin 1 .. 32
      BY <3>1
    <3>3. p.kind = "Wifi" => p.ssid \in 1 .. 32
      BY <1>2
    <3> QED BY <3>2, <3>3
  <2>5. p.kind = "Wifi" => \E e \in KeyManagement : e[2] = KeyMgmt(q)
    BY <1>2, <2>1, KeyWordsFacts
  <2>6. q.connection.type = "802-11-wireless" => p.kind = "Wifi"
    BY <2>2
  <2>7. q.connection.type \in {"802-11-wireless", "802-3-ethernet"}
    BY <2>2
  <2> QED BY <1>3, <2>1, <2>2, <2>3, <2>4, <2>5, <2>6, <2>7 DEF Accepted
<1>6. Validate(p)
  BY DEF Good
<1> HIDE DEF p, q
<1>7. SettingsToProfile(q) = p
  BY <1>4, <1>5, <1>6 DEF SettingsToProfile
<1> QED BY <1>7 DEF p, q

-----------------------------------------------------------------------------
(* What a client may make of a dictionary.                                 *)

(* A key of the connection section takes a value of the key's type.        *)
LEMMA EditConnection ==
    ASSUME NEW x \in Connections, NEW b \in Connections, NEW v,
           NEW k \in {"id", "type", "interface_name", "autoconnect", "priority"},
           [b EXCEPT ![k] = v] \in Connections
    PROVE  [x EXCEPT ![k] = v] \in Connections
<1>1. CASE k = "id"
  BY <1>1 DEF Connections
<1>2. CASE k = "type"
  BY <1>2 DEF Connections
<1>3. CASE k = "interface_name"
  BY <1>3 DEF Connections
<1>4. CASE k = "autoconnect"
  BY <1>4 DEF Connections
<1>5. CASE k = "priority"
  BY <1>5 DEF Connections
<1> QED BY <1>1, <1>2, <1>3, <1>4, <1>5

(* The same for the wireless section,                                      *)
LEMMA EditWireless ==
    ASSUME NEW x \in Wirelesses, NEW b \in Wirelesses, NEW v, NEW k \in {"ssid", "hidden"},
           [b EXCEPT ![k] = v] \in Wirelesses
    PROVE  [x EXCEPT ![k] = v] \in Wirelesses
<1>1. CASE k = "ssid"
  BY <1>1 DEF Wirelesses
<1>2. CASE k = "hidden"
  BY <1>2 DEF Wirelesses
<1> QED BY <1>1, <1>2

(* for the security section,                                               *)
LEMMA EditSecurity ==
    ASSUME NEW x \in Securities, NEW b \in Securities, NEW v, NEW k \in {"key_mgmt"},
           [b EXCEPT ![k] = v] \in Securities
    PROVE  [x EXCEPT ![k] = v] \in Securities
BY DEF Securities

(* and for an ip section.                                                  *)
LEMMA EditIp ==
    ASSUME NEW f, NEW x \in IpSections(f), NEW b \in IpSections(f), NEW v,
           NEW k \in {"method", "address_data", "gateway", "dns", "routes"},
           [b EXCEPT ![k] = v] \in IpSections(f)
    PROVE  [x EXCEPT ![k] = v] \in IpSections(f)
<1>1. CASE k = "method"
  BY <1>1 DEF IpSections
<1>2. CASE k = "address_data"
  BY <1>2 DEF IpSections
<1>3. CASE k = "gateway"
  BY <1>3 DEF IpSections
<1>4. CASE k = "dns"
  BY <1>4 DEF IpSections
<1>5. CASE k = "routes"
  BY <1>5 DEF IpSections
<1> QED BY <1>1, <1>2, <1>3, <1>4, <1>5

SectionNames == {"connection", "wireless", "security", "ipv4", "ipv6"}

(* The sections and the dictionaries they make.                            *)
LEMMA SectionFacts ==
    /\ DOMAIN Section = SectionNames
    /\ Section["connection"] = Connections /\ Section["wireless"] = Wirelesses
    /\ Section["security"] = Securities
    /\ Section["ipv4"] = IpSections("V4") /\ Section["ipv6"] = IpSections("V6")
    /\ \A d \in Settings, s \in SectionNames : d[s] \in Section[s] \cup {None}
    /\ \A d \in Settings, s \in SectionNames :
          \A y \in Section[s] \cup {None} : [d EXCEPT ![s] = y] \in Settings
<1>1. DOMAIN Section = SectionNames
  BY DEF Section, SectionNames
<1>2. /\ Section["connection"] = Connections /\ Section["wireless"] = Wirelesses
      /\ Section["security"] = Securities
      /\ Section["ipv4"] = IpSections("V4") /\ Section["ipv6"] = IpSections("V6")
  BY DEF Section
<1>3. ASSUME NEW d \in Settings, NEW s \in SectionNames
      PROVE  d[s] \in Section[s] \cup {None}
  BY <1>2 DEF Settings, SectionNames
<1>4. ASSUME NEW d \in Settings, NEW s \in SectionNames,
             NEW y \in Section[s] \cup {None}
      PROVE  [d EXCEPT ![s] = y] \in Settings
  <2>1. CASE s = "connection"
    BY <1>2, <1>4, <2>1 DEF Settings
  <2>2. CASE s = "wireless"
    BY <1>2, <1>4, <2>2 DEF Settings
  <2>3. CASE s = "security"
    BY <1>2, <1>4, <2>3 DEF Settings
  <2>4. CASE s = "ipv4"
    BY <1>2, <1>4, <2>4 DEF Settings
  <2>5. CASE s = "ipv6"
    BY <1>2, <1>4, <2>5 DEF Settings
  <2> QED BY <2>1, <2>2, <2>3, <2>4, <2>5 DEF SectionNames
<1> QED BY <1>1, <1>2, <1>3, <1>4

(* A section with no entry in it is one that a message can carry.          *)
LEMMA BlankFacts ==
    /\ Blank["connection"] \in Connections /\ Blank["wireless"] \in Wirelesses
    /\ Blank["security"] \in Securities
    /\ Blank["ipv4"] \in IpSections("V4") /\ Blank["ipv6"] \in IpSections("V6")
    /\ DOMAIN Blank["connection"] =
          {"id", "type", "interface_name", "autoconnect", "priority"}
    /\ DOMAIN Blank["wireless"] = {"ssid", "hidden"}
    /\ DOMAIN Blank["security"] = {"key_mgmt"}
    /\ DOMAIN Blank["ipv4"] = {"method", "address_data", "gateway", "dns", "routes"}
    /\ DOMAIN Blank["ipv6"] = {"method", "address_data", "gateway", "dns", "routes"}
<1>1. Blank["connection"] \in Connections
  BY DEF Blank, Connections, Text
<1>2. Blank["wireless"] \in Wirelesses
  BY DEF Blank, Wirelesses
<1>3. Blank["security"] \in Securities
  BY DEF Blank, Securities, Text
<1>4. Blank["ipv4"] \in IpSections("V4") /\ Blank["ipv6"] \in IpSections("V6")
  BY DEF Blank, IpSections, Text
<1>5. /\ DOMAIN Blank["connection"] =
            {"id", "type", "interface_name", "autoconnect", "priority"}
      /\ DOMAIN Blank["wireless"] = {"ssid", "hidden"}
      /\ DOMAIN Blank["security"] = {"key_mgmt"}
      /\ DOMAIN Blank["ipv4"] = {"method", "address_data", "gateway", "dns", "routes"}
      /\ DOMAIN Blank["ipv6"] = {"method", "address_data", "gateway", "dns", "routes"}
  BY DEF Blank
<1> QED BY <1>1, <1>2, <1>3, <1>4, <1>5

(* An edit leaves a dictionary that a message can carry.                   *)
LEMMA EditType ==
    ASSUME NEW d \in Settings, NEW e \in Edits,
           e.key # None => d[e.section] # None
    PROVE  (IF e.key = None THEN [d EXCEPT ![e.section] = e.value]
            ELSE [d EXCEPT ![e.section][e.key] = e.value]) \in Settings
<1> DEFINE s == e.section
           k == e.key
           v == e.value
<1>1. /\ s \in SectionNames
      /\ k = None => v \in Section[s] \cup {None}
      /\ k # None => k \in DOMAIN Blank[s] /\ [Blank[s] EXCEPT ![k] = v] \in Section[s]
  BY DataAssumption, SectionFacts
<1>2. k # None => d[s] # None
  OBVIOUS
<1> HIDE DEF s, k, v
<1>3. CASE k = None
  <2>1. [d EXCEPT ![s] = v] \in Settings
    BY <1>1, <1>3, SectionFacts
  <2> QED BY <1>3, <2>1 DEF s, k, v
<1>4. CASE k # None
  <2> DEFINE x == d[s]
             b == Blank[s]
             y == [x EXCEPT ![k] = v]
  <2>1. x \in Section[s] /\ k \in DOMAIN b /\ [b EXCEPT ![k] = v] \in Section[s]
    BY <1>1, <1>2, <1>4, SectionFacts
  <2> HIDE DEF x
  <2>2. y \in Section[s]
    <3>1. CASE s = "connection"
      <4>1. x \in Connections /\ b \in Connections /\ [b EXCEPT ![k] = v] \in Connections
            /\ k \in {"id", "type", "interface_name", "autoconnect", "priority"}
        BY <2>1, <3>1, SectionFacts, BlankFacts
      <4> HIDE DEF b
      <4>2. y \in Connections
        BY <4>1, EditConnection
      <4> QED BY <3>1, <4>2, SectionFacts
    <3>2. CASE s = "wireless"
      <4>1. x \in Wirelesses /\ b \in Wirelesses /\ [b EXCEPT ![k] = v] \in Wirelesses
            /\ k \in {"ssid", "hidden"}
        BY <2>1, <3>2, SectionFacts, BlankFacts
      <4> HIDE DEF b
      <4>2. y \in Wirelesses
        BY <4>1, EditWireless
      <4> QED BY <3>2, <4>2, SectionFacts
    <3>3. CASE s = "security"
      <4>1. x \in Securities /\ b \in Securities /\ [b EXCEPT ![k] = v] \in Securities
            /\ k \in {"key_mgmt"}
        BY <2>1, <3>3, SectionFacts, BlankFacts
      <4> HIDE DEF b
      <4>2. y \in Securities
        BY <4>1, EditSecurity
      <4> QED BY <3>3, <4>2, SectionFacts
    <3>4. CASE s = "ipv4"
      <4>1. x \in IpSections("V4") /\ b \in IpSections("V4")
            /\ [b EXCEPT ![k] = v] \in IpSections("V4")
            /\ k \in {"method", "address_data", "gateway", "dns", "routes"}
        BY <2>1, <3>4, SectionFacts, BlankFacts
      <4> HIDE DEF b
      <4>2. y \in IpSections("V4")
        BY <4>1, EditIp
      <4> QED BY <3>4, <4>2, SectionFacts
    <3>5. CASE s = "ipv6"
      <4>1. x \in IpSections("V6") /\ b \in IpSections("V6")
            /\ [b EXCEPT ![k] = v] \in IpSections("V6")
            /\ k \in {"method", "address_data", "gateway", "dns", "routes"}
        BY <2>1, <3>5, SectionFacts, BlankFacts
      <4> HIDE DEF b
      <4>2. y \in IpSections("V6")
        BY <4>1, EditIp
      <4> QED BY <3>5, <4>2, SectionFacts
    <3> QED BY <1>1, <3>1, <3>2, <3>3, <3>4, <3>5 DEF SectionNames
  <2> HIDE DEF b, y
  <2>3. [d EXCEPT ![s] = y] \in Settings
    BY <1>1, <2>2, SectionFacts
  <2>4. [d EXCEPT ![s][k] = v] = [d EXCEPT ![s] = y]
    BY DEF y, x
  <2> QED BY <1>4, <2>3, <2>4 DEF s, k, v
<1> QED BY <1>3, <1>4

-----------------------------------------------------------------------------
(* The specification.                                                      *)

(* A profile that a dictionary describes.                                  *)
OverBus(p) == \E d : Good(d) /\ p = Described(d)

(* The store has a profile that may be on disk, and once an Update was     *)
(* accepted, one that a dictionary describes; a dictionary that the client *)
(* did not edit has the settings of the stored profile.                    *)
Inv ==
    /\ updates \in Nat /\ touched \in BOOLEAN /\ outcome \in Outcomes \cup {None}
    /\ OnDisk(stored)
    /\ updates > 0 => OverBus(stored)
    /\ dict \in Settings \cup {None}
    /\ dict # None /\ touched = FALSE => dict = ProfileToSettings(stored)

(* Initially a profile is read from disk.                                  *)
LEMMA InvInit == Init => Inv
<1>1. \A p \in Profiles : OnDisk(p)
  BY DataAssumption
<1> SUFFICES ASSUME Init PROVE Inv
  OBVIOUS
<1>2. touched \in BOOLEAN
  BY DEF Init
<1>3. /\ updates = 0 /\ dict = None /\ outcome = None /\ OnDisk(stored)
  BY <1>1 DEF Init
<1> QED BY <1>2, <1>3 DEF Inv

(* What a dictionary that SettingsToProfile takes describes.               *)
LEMMA TakenIsGood ==
    ASSUME NEW d \in Settings, SettingsToProfile(d) # None
    PROVE  Good(d) /\ SettingsToProfile(d) = Described(d)
BY DEF SettingsToProfile, Good

(* Every step keeps it.                                                    *)
LEMMA InvNext == Inv /\ [Next]_vars => Inv'
<1> SUFFICES ASSUME Inv, [Next]_vars PROVE Inv'
  OBVIOUS
<1>1. CASE GetSettings
  <2>1. /\ updates' = updates /\ outcome' = outcome /\ stored' = stored
        /\ dict' = ProfileToSettings(stored) /\ touched' = FALSE
    BY <1>1 DEF GetSettings
  <2>2. dict' \in Settings \cup {None}
    BY <2>1, SettingsFields DEF Inv
  <2> QED BY <2>1, <2>2 DEF Inv
<1>2. CASE Update
  <2> DEFINE p == SettingsToProfile(dict)
  <2>1. dict' = None /\ touched' = FALSE /\ outcome' = outcome /\ dict # None
    BY <1>2 DEF Update
  <2>2. CASE p # None /\ p.id = stored.id /\ Validate(p)
    <3>1. stored' = p /\ updates' = updates + 1
      BY <1>2, <2>2 DEF Update
    <3>2. Good(dict) /\ p = Described(dict)
      BY <2>1, <2>2, TakenIsGood DEF Inv
    <3>3. OnDisk(p)
      BY <3>2, DescribedOnDisk
    <3>4. OverBus(p)
      BY <3>2 DEF OverBus
    <3> HIDE DEF p
    <3>5. updates' \in Nat
      BY <3>1 DEF Inv
    <3> QED BY <2>1, <3>1, <3>3, <3>4, <3>5 DEF Inv
  <2>3. CASE ~(p # None /\ p.id = stored.id /\ Validate(p))
    <3>1. stored' = stored /\ updates' = updates
      BY <1>2, <2>3 DEF Update
    <3> QED BY <2>1, <3>1 DEF Inv
  <2> QED BY <2>2, <2>3
<1>3. ASSUME NEW e \in Edits, ClientEdit(e) PROVE Inv'
  <2>1. /\ updates' = updates /\ outcome' = outcome /\ stored' = stored /\ touched' = TRUE
        /\ dict # None /\ e.key # None => dict[e.section] # None
    BY <1>3 DEF ClientEdit
  <2>2. dict' = IF e.key = None THEN [dict EXCEPT ![e.section] = e.value]
                ELSE [dict EXCEPT ![e.section][e.key] = e.value]
    BY <1>3 DEF ClientEdit
  <2>3. dict \in Settings
    BY <1>3 DEF ClientEdit, Inv
  <2>4. e.key # None => dict[e.section] # None
    BY <1>3 DEF ClientEdit
  <2>5. dict' \in Settings
    BY <2>2, <2>3, <2>4, EditType
  <2> QED BY <2>1, <2>5 DEF Inv
<1>4. ASSUME NEW o \in Outcomes, Activated(o) PROVE Inv'
  BY <1>4 DEF Activated, Inv
<1>5. CASE UNCHANGED vars
  BY <1>5 DEF vars, Inv
<1> QED BY <1>1, <1>2, <1>3, <1>4, <1>5 DEF Next

(* It holds throughout.                                                    *)
LEMMA Invariance == Spec => []Inv
BY InvInit, InvNext, PTL DEF Spec

(* What GetSettings returns for a profile that an Update stored is taken   *)
(* by another Update and describes the same profile.                       *)
THEOREM RoundTripsAreStable == Spec => []RoundTripIsStable
<1>1. Inv => RoundTripIsStable
  BY ProfileRound DEF Inv, RoundTripIsStable, viaBus, OverBus
<1> QED BY <1>1, Invariance, PTL

(* What a profile that is read and written back unchanged comes back as.   *)
LEMMA ProfileComesBack ==
    ASSUME NEW p, OnDisk(p)
    PROVE  Described(ProfileToSettings(p)) = WrittenBack(p)
<1>1. /\ ParseIpConfig(IpConfigSection(p.ipv4, "V4"), "V4") = IpWrittenBack(p.ipv4, "V4")
      /\ ParseIpConfig(IpConfigSection(p.ipv6, "V6"), "V6") = IpWrittenBack(p.ipv6, "V6")
  BY OnDiskFields, IpComesBack, Sizes
<1> QED BY <1>1, Redescribed DEF WrittenBack

(* A client that reads the settings of any profile, from disk or from the  *)
(* bus, and sends them back as they are leaves WrittenBack of it: what     *)
(* settings_to_profile reads of what profile_to_settings writes, field by  *)
(* field, for every width of octets and addresses.                         *)
THEOREM WriteBacksAreExact == Spec => WriteBackIsExact
<1>1. ASSUME Inv, [Next]_vars, updates' > updates, ~touched
      PROVE  stored' = WrittenBack(stored)
  <2>1. updates \in Nat /\ updates' # updates
    BY <1>1 DEF Inv
  <2>2. Update
    BY <1>1, <2>1 DEF Next, GetSettings, ClientEdit, Activated, vars
  <2> DEFINE p == SettingsToProfile(dict)
  <2>3. p # None /\ stored' = p /\ dict # None
    BY <2>1, <2>2 DEF Update
  <2>4. dict \in Settings /\ dict = ProfileToSettings(stored) /\ OnDisk(stored)
    BY <1>1, <2>3 DEF Inv
  <2>5. p = Described(dict)
    BY <2>3, <2>4, TakenIsGood
  <2>6. stored' = Described(ProfileToSettings(stored))
    BY <2>3, <2>4, <2>5
  <2> QED BY <2>4, <2>6, ProfileComesBack
<1>2. Inv /\ [Next]_vars =>
        [ updates' > updates /\ ~touched => stored' = WrittenBack(stored) ]_vars
  BY <1>1
<1> QED BY <1>2, Invariance, PTL DEF Spec, WriteBackIsExact

-----------------------------------------------------------------------------
(* The properties of the ip configuration objects.                         *)

Agree(f, a, b, n) == BigEndian(a) \div Pow2[Width(f) - n]
                       = BigEndian(b) \div Pow2[Width(f) - n]

(* A route in the array x and in the dictionary e tells the same.          *)
SameRoute(f, x, e) ==
    /\ Agree(f, Decode(f, x[1]), e.dest, e.prefix)
    /\ \A c \in Octs(f) : Agree(f, Decode(f, x[1]), c, e.prefix)
                            => BigEndian(e.dest) <= BigEndian(c)
    /\ e.next_hop \in {None, Decode(f, x[3])}

(* The two renderings of a route do.                                       *)
LEMMA RouteRenders ==
    ASSUME NEW f \in Families, NEW r \in OutRoutes(f)
    PROVE  SameRoute(f, RouteEntry(f, r), RouteDataEntry(r))
<1> DEFINE x == RouteEntry(f, r)
           e == RouteDataEntry(r)
           o == r.destination.octets
           n == r.prefix
<1>1. /\ r \in Routes(f) /\ n <= Width(f) /\ r.gateway \in Addresses(f) \cup {None}
      /\ r.family = f /\ r.destination \in Addresses(f) /\ n \in Nat
  BY DEF OutRoutes, Routes
<1>2. o \in Octs(f) /\ OctetsOf(f, r.destination) = o
  BY <1>1, AddressFacts, OctetsOfFacts
<1>3. Decode(f, x[1]) = o /\ Decode(f, x[3]) = OctetsOf(f, r.gateway)
  BY <1>1, <1>2, RouteEntryType
<1>4. /\ e.dest = NetworkAddress(f, o, n) /\ e.prefix = n
      /\ e.next_hop = IF r.gateway = None THEN None ELSE r.gateway.octets
  BY <1>1 DEF RouteDataEntry
<1>5. n \in 0 .. Width(f)
  BY <1>1, Sizes
<1>6. e.next_hop \in {None, Decode(f, x[3])}
  BY <1>1, <1>3, <1>4, OctetsOfFacts
<1> HIDE DEF x, e, o, n
<1>7. /\ Agree(f, o, NetworkAddress(f, o, n), n)
      /\ \A c \in Octs(f) : Agree(f, o, c, n)
                              => BigEndian(NetworkAddress(f, o, n)) <= BigEndian(c)
  BY <1>2, <1>5, NetworkLowest DEF Agree, Octs
<1>8. SameRoute(f, x, e)
  BY <1>3, <1>4, <1>6, <1>7 DEF SameRoute
<1> QED BY <1>8 DEF x, e

(* What the arrays and dictionaries of the properties r of an outcome o    *)
(* have to say.                                                            *)
SameAddresses(f, r) ==
    /\ Len(r.addresses) = Len(r.address_data)
    /\ \A i \in DOMAIN r.addresses : Decode(f, r.addresses[i][1]) = r.address_data[i].address
SameRoutes(f, o, r) ==
    \A i \in DOMAIN o.routes : SameRoute(f, r.routes[i], r.route_data[i])

(* Those of Ip4ConfigIface.                                                *)
LEMMA Ip4Renders ==
    ASSUME NEW o \in Outcome4
    PROVE  /\ SameAddresses("V4", Ip4ConfigProperties(o))
           /\ SameRoutes("V4", o, Ip4ConfigProperties(o))
<1> DEFINE r == Ip4ConfigProperties(o)
<1>1. o.address \in Addresses("V4") /\ o.routes \in Seq(OutRoutes("V4"))
  BY DEF Outcome4
<1> DEFINE a == o.address.octets
           g == LittleEndian(OctetsOf("V4", o.gateway))
           n == o.prefix
           routes == o.routes
<1>2. /\ r.addresses = << <<LittleEndian(a), n, g>> >>
      /\ r.address_data = << [address |-> a, prefix |-> n] >>
  BY DEF Ip4ConfigProperties
<1>3. /\ r.routes = [i \in DOMAIN routes |-> RouteEntry("V4", routes[i])]
      /\ r.route_data = [i \in DOMAIN routes |-> RouteDataEntry(routes[i])]
  BY DEF Ip4ConfigProperties, MapSeq
<1>4. a \in Octs("V4")
  BY <1>1, AddressFacts, Sizes
<1>5. Decode("V4", LittleEndian(a)) = a
  <2>1. Decode("V4", Encode("V4", a)) = a
    BY <1>4, EncodeRound, Sizes
  <2> QED BY <2>1 DEF Encode
<1> HIDE DEF r, a, g, n, routes
<1>6. SameAddresses("V4", r)
  <2>1. Len(r.addresses) = 1 /\ Len(r.address_data) = 1 /\ DOMAIN r.addresses = {1}
    BY <1>2
  <2>2. r.addresses[1][1] = LittleEndian(a) /\ r.address_data[1].address = a
    BY <1>2
  <2> QED BY <1>5, <2>1, <2>2 DEF SameAddresses
<1>7. SameRoutes("V4", o, r)
  <2>1. \A i \in DOMAIN routes : routes[i] \in OutRoutes("V4")
    BY <1>1 DEF routes
  <2>2. \A i \in DOMAIN routes :
            SameRoute("V4", RouteEntry("V4", routes[i]), RouteDataEntry(routes[i]))
    BY <2>1, RouteRenders, Sizes
  <2>3. \A i \in DOMAIN routes : SameRoute("V4", r.routes[i], r.route_data[i])
    BY <1>3, <2>2
  <2> QED BY <2>3 DEF SameRoutes, routes
<1> QED BY <1>6, <1>7 DEF r

(* Those of Ip6ConfigIface.                                                *)
LEMMA Ip6Renders ==
    ASSUME NEW o \in Outcome6
    PROVE  /\ SameAddresses("V6", Ip6ConfigProperties(o))
           /\ SameRoutes("V6", o, Ip6ConfigProperties(o))
<1> DEFINE r == Ip6ConfigProperties(o)
           primary == IF o.address # None
                      THEN << [address |-> o.address.octets, prefix |-> o.prefix] >>
                      ELSE IF o.link_local # None
                      THEN << [address |-> o.link_local.octets,
                               prefix |-> Width("V6") \div 2] >>
                      ELSE <<>>
           routes == o.routes
<1>1. o.routes \in Seq(OutRoutes("V6"))
  BY DEF Outcome6
<1>2. /\ r.addresses = [i \in DOMAIN primary |->
                           <<primary[i].address, primary[i].prefix, Zero("V6")>>]
      /\ r.address_data = primary
  BY DEF Ip6ConfigProperties, MapSeq
<1>3. /\ r.routes = [i \in DOMAIN routes |-> RouteEntry("V6", routes[i])]
      /\ r.route_data = [i \in DOMAIN routes |-> RouteDataEntry(routes[i])]
  BY DEF Ip6ConfigProperties, MapSeq
<1>4. \E X : primary \in Seq(X)
  <2> DEFINE a == [address |-> o.address.octets, prefix |-> o.prefix]
             k == [address |-> o.link_local.octets, prefix |-> Width("V6") \div 2]
  <2>1. <<a>> \in Seq({a, k}) /\ <<k>> \in Seq({a, k}) /\ <<>> \in Seq({a, k})
    OBVIOUS
  <2>2. primary = <<a>> \/ primary = <<k>> \/ primary = <<>>
    OBVIOUS
  <2> HIDE DEF primary, a, k
  <2>3. primary \in Seq({a, k})
    BY <2>1, <2>2
  <2> QED BY <2>3
<1> HIDE DEF r, primary, routes
<1>5. SameAddresses("V6", r)
  <2>1. PICK X : primary \in Seq(X)
    BY <1>4
  <2>2. Len(r.addresses) = Len(r.address_data) /\ DOMAIN r.addresses = DOMAIN primary
    BY <1>2, <2>1
  <2>3. \A i \in DOMAIN primary : r.addresses[i][1] = primary[i].address
    BY <1>2
  <2> QED BY <1>2, <2>2, <2>3 DEF SameAddresses, Decode
<1>6. SameRoutes("V6", o, r)
  <2>1. \A i \in DOMAIN routes : routes[i] \in OutRoutes("V6")
    BY <1>1 DEF routes
  <2>2. \A i \in DOMAIN routes :
            SameRoute("V6", RouteEntry("V6", routes[i]), RouteDataEntry(routes[i]))
    BY <2>1, RouteRenders, Sizes
  <2>3. \A i \in DOMAIN routes : SameRoute("V6", r.routes[i], r.route_data[i])
    BY <1>3, <2>2
  <2> QED BY <2>3 DEF SameRoutes, routes
<1> QED BY <1>5, <1>6 DEF r

(* The options of Dhcp4ConfigIface: the broadcast address and the mask.    *)
LEMMA Dhcp4Renders ==
    ASSUME NEW o \in Outcome4, o.lease
    PROVE  LET d == Dhcp4Options(o)
           IN  /\ Agree("V4", d.ip_address, d.broadcast, o.prefix)
               /\ \A c \in Octs("V4") : Agree("V4", d.ip_address, c, o.prefix)
                                          => BigEndian(c) <= BigEndian(d.broadcast)
               /\ Agree("V4", d.subnet_mask, [k \in 1 .. Octets["V4"] |-> Base - 1], o.prefix)
<1> DEFINE d == Dhcp4Options(o)
           a == o.address.octets
           n == o.prefix
<1>1. o.address \in Addresses("V4") /\ n \in 0 .. Width("V4")
  BY DEF Outcome4
<1>2. a \in Octs("V4")
  BY <1>1, AddressFacts, Sizes
<1>3. /\ d.ip_address = a /\ d.subnet_mask = SubnetMask(n)
      /\ d.broadcast = BroadcastAddress(a, n)
  BY DEF Dhcp4Options
<1> HIDE DEF d, a, n
<1>4. /\ Agree("V4", a, BroadcastAddress(a, n), n)
      /\ \A c \in Octs("V4") : Agree("V4", a, c, n)
                                 => BigEndian(c) <= BigEndian(BroadcastAddress(a, n))
  BY <1>1, <1>2, BroadcastHighest DEF Agree, Octs
<1>5. Agree("V4", SubnetMask(n), [k \in 1 .. Octets["V4"] |-> Base - 1], n)
  BY <1>1, MaskAgrees DEF Agree
<1> QED BY <1>3, <1>4, <1>5 DEF d, n

(* The deprecated arrays and the dictionaries of the IP4Config, IP6Config  *)
(* and DHCP4Config objects tell a client the same, for every outcome the   *)
(* engine reports, and the network and broadcast addresses that            *)
(* ipconfig.rs computes are the lowest and the highest of their network.   *)
THEOREM RenderingsAlwaysAgree == Spec => []RenderingsAgree
<1>1. Inv => RenderingsAgree
  <2> SUFFICES ASSUME Inv PROVE RenderingsAgree
    OBVIOUS
  <2>1. ASSUME NEW f \in Families, outcome # None, outcome[f] # None
        PROVE  LET o == outcome[f]
                   r == IF f = "V4" THEN Ip4ConfigProperties(o) ELSE Ip6ConfigProperties(o)
               IN  /\ SameAddresses(f, r) /\ SameRoutes(f, o, r)
                   /\ f = "V4" /\ o.lease =>
                        LET d == Dhcp4Options(o)
                        IN  /\ Agree(f, d.ip_address, d.broadcast, o.prefix)
                            /\ \A c \in Octs(f) : Agree(f, d.ip_address, c, o.prefix)
                                 => BigEndian(c) <= BigEndian(d.broadcast)
                            /\ Agree(f, d.subnet_mask,
                                     [k \in 1 .. Octets[f] |-> Base - 1], o.prefix)
    <3>1. outcome \in Outcomes
      BY <2>1 DEF Inv
    <3>2. CASE f = "V4"
      <4>1. outcome["V4"] \in Outcome4
        BY <2>1, <3>1, <3>2, DataAssumption
      <4> QED BY <3>2, <4>1, Ip4Renders, Dhcp4Renders
    <3>3. CASE f = "V6"
      <4>1. outcome["V6"] \in Outcome6
        BY <2>1, <3>1, <3>3, DataAssumption
      <4> QED BY <3>3, <4>1, Ip6Renders
    <3> QED BY <3>2, <3>3 DEF Families
  <2> QED BY <2>1 DEF RenderingsAgree, SameAddresses, SameRoutes, SameRoute, Agree, Decode, Octs
<1> QED BY <1>1, Invariance, PTL

=============================================================================
