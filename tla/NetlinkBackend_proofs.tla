----------------------- MODULE NetlinkBackend_proofs -----------------------
(***************************************************************************)
(* Proofs about the netlink backend, for any tables, any size of datagram  *)
(* and of receive buffer and any number of changes, operations and faults. *)
(***************************************************************************)
EXTENDS NetlinkBackend, SequenceTheorems, FiniteSetTheorems,
        WellFoundedInduction, TLAPS

-----------------------------------------------------------------------------
(* Induction and recursion over the naturals, for sets and functions.      *)

(* What holds 0 and is closed under + 1 holds every natural.               *)
LEMMA Induction ==
    ASSUME NEW S, 0 \in S, \A n \in Nat : n \in S => n + 1 \in S
    PROVE  Nat \subseteq S
<1> DEFINE R == {ss \in Nat \X Nat : ss[1] < ss[2]}
           T == Nat \ S
<1>1. IsWellFoundedOn(R, Nat)
  BY NatLessThanWellFounded DEF OpToRel
<1>2. \A a, b \in Nat : <<a, b>> \in R <=> a < b
  OBVIOUS
<1> HIDE DEF R
<1>3. CASE T # {}
  <2>1. PICK x \in T : \A y \in T : ~(<<y, x>> \in R)
    BY <1>1, <1>3, WFMin
  <2>2. x \in Nat \ {0} /\ x - 1 \in Nat /\ (x - 1) + 1 = x
    OBVIOUS
  <2>3. x - 1 \in S
    <3>1. x - 1 < x
      BY <2>2
    <3>2. <<x - 1, x>> \in R
      BY <1>2, <2>2, <3>1
    <3> QED BY <2>1, <2>2, <3>2
  <2> QED BY <2>2, <2>3
<1> QED BY <1>3

(* A function can be defined by its first value and a step.                *)
Unfolds(f, V, c, n, step) ==
    /\ f \in [0 .. n -> V] /\ f[0] = c
    /\ \A i \in 1 .. n : f[i] = step[<<f[i - 1], i>>]

(* There is such a function.                                               *)
LEMMA Recursion ==
    ASSUME NEW V, NEW c \in V, NEW n \in Nat, NEW step \in [V \X (1 .. n) -> V]
    PROVE  \E f : Unfolds(f, V, c, n, step)
<1> DEFINE Fits(f, m) ==
               f[0] = c /\ \A i \in 1 .. m : f[i] = step[<<f[i - 1], i>>]
           S == {m \in Nat : m <= n => \E f \in [0 .. m -> V] : Fits(f, m)}
<1>1. 0 \in S
  <2>1. [i \in 0 .. 0 |-> c] \in [0 .. 0 -> V] /\ Fits([i \in 0 .. 0 |-> c], 0)
    OBVIOUS
  <2> QED BY <2>1
<1>2. ASSUME NEW m \in Nat, m \in S PROVE m + 1 \in S
  <2> SUFFICES ASSUME m + 1 <= n
               PROVE  \E f \in [0 .. m + 1 -> V] : Fits(f, m + 1)
    OBVIOUS
  <2>1. PICK f \in [0 .. m -> V] : Fits(f, m)
    BY <1>2
  <2> DEFINE g == [i \in 0 .. m + 1 |-> IF i = m + 1 THEN step[<<f[m], i>>] ELSE f[i]]
  <2>2. step[<<f[m], m + 1>>] \in V
    OBVIOUS
  <2>3. g \in [0 .. m + 1 -> V]
    BY <2>2
  <2>4. \A i \in 1 .. m + 1 : g[i] = step[<<g[i - 1], i>>]
    <3> TAKE i \in 1 .. m + 1
    <3>1. CASE i = m + 1
      <4>1. g[i] = step[<<f[m], i>>] /\ g[i - 1] = f[m]
        BY <3>1
      <4> QED BY <4>1
    <3>2. CASE i # m + 1
      <4>1. i \in 1 .. m /\ g[i] = f[i] /\ g[i - 1] = f[i - 1]
        BY <3>2
      <4> QED BY <2>1, <4>1
    <3> QED BY <3>1, <3>2
  <2>5. g[0] = c
    BY <2>1
  <2> QED BY <2>3, <2>4, <2>5
<1> HIDE DEF S
<1>3. n \in S
  BY <1>1, <1>2, Induction
<1> QED BY <1>3 DEF S, Unfolds

(* The elements of a sequence, one by one.                                 *)
Distinct(s) == \A i, j \in DOMAIN s : s[i] = s[j] => i = j

(* Append, element by element.                                             *)
LEMMA AppendFacts ==
    ASSUME NEW X, NEW s \in Seq(X), NEW x \in X
    PROVE  /\ Append(s, x) \in Seq(X) /\ Append(s, x) # <<>>
           /\ Len(s) \in Nat /\ Len(Append(s, x)) = Len(s) + 1
           /\ Append(s, x)[Len(s) + 1] = x
           /\ \A i \in 1 .. Len(s) : Append(s, x)[i] = s[i]
OBVIOUS

(* Append adds its element to the set of elements.                         *)
LEMMA AppendRange ==
    ASSUME NEW X, NEW s \in Seq(X), NEW x \in X
    PROVE  ToSet(Append(s, x)) = ToSet(s) \cup {x}
<1>1. /\ DOMAIN s = 1 .. Len(s) /\ Len(s) \in Nat
      /\ DOMAIN Append(s, x) = 1 .. Len(s) + 1
      /\ Append(s, x)[Len(s) + 1] = x
      /\ \A i \in 1 .. Len(s) : Append(s, x)[i] = s[i]
  OBVIOUS
<1>2. 1 .. Len(s) + 1 = (1 .. Len(s)) \cup {Len(s) + 1}
  BY <1>1
<1> QED BY <1>1, <1>2 DEF ToSet

(* Append repeats nothing when its element is new.                         *)
LEMMA AppendDistinct ==
    ASSUME NEW X, NEW s \in Seq(X), NEW x \in X
    PROVE  Distinct(Append(s, x)) <=> Distinct(s) /\ x \notin ToSet(s)
<1>1. /\ DOMAIN s = 1 .. Len(s) /\ Len(s) \in Nat
      /\ DOMAIN Append(s, x) = 1 .. Len(s) + 1
      /\ Append(s, x)[Len(s) + 1] = x
      /\ \A i \in 1 .. Len(s) : Append(s, x)[i] = s[i]
  OBVIOUS
<1>2. ASSUME Distinct(Append(s, x)) PROVE Distinct(s) /\ x \notin ToSet(s)
  <2>1. Distinct(s)
    BY <1>1, <1>2 DEF Distinct
  <2>2. ASSUME NEW i \in 1 .. Len(s), s[i] = x PROVE FALSE
    <3>1. i \in 1 .. Len(s) + 1 /\ Len(s) + 1 \in 1 .. Len(s) + 1 /\ i # Len(s) + 1
      BY <1>1
    <3> QED BY <1>1, <1>2, <2>2, <3>1 DEF Distinct
  <2> QED BY <1>1, <2>1, <2>2 DEF ToSet
<1>3. ASSUME Distinct(s), x \notin ToSet(s) PROVE Distinct(Append(s, x))
  BY <1>1, <1>3 DEF Distinct, ToSet
<1> QED BY <1>2, <1>3

(* Induction over sequences.                                               *)
LEMMA SequenceInduction ==
    ASSUME NEW X, NEW G, <<>> \in G,
           \A s \in Seq(X), x \in X : s \in G => Append(s, x) \in G
    PROVE  Seq(X) \subseteq G
<1> DEFINE T == {n \in Nat : \A s \in Seq(X) : Len(s) = n => s \in G}
<1>1. 0 \in T
  <2>1. \A s \in Seq(X) : Len(s) = 0 => s = <<>>
    OBVIOUS
  <2> QED BY <2>1
<1>2. ASSUME NEW n \in Nat, n \in T PROVE n + 1 \in T
  <2> SUFFICES ASSUME NEW s \in Seq(X), Len(s) = n + 1 PROVE s \in G
    OBVIOUS
  <2>1. s # <<>>
    OBVIOUS
  <2>2. PICK u \in Seq(X), x \in X : s = Append(u, x)
    BY <2>1, SequenceEmptyOrAppend
  <2>3. Len(u) = n
    BY <2>2
  <2>4. u \in G
    BY <1>2, <2>3
  <2> QED BY <2>2, <2>4
<1> HIDE DEF T
<1>3. Nat \subseteq T
  BY <1>1, <1>2, Induction
<1> QED BY <1>3 DEF T

-----------------------------------------------------------------------------
(* What the loop that filters a sequence leaves.                           *)

Filters(f, X, s, S) ==
    /\ f \in [0 .. Len(s) -> Seq(X)]
    /\ f[0] = <<>> /\ f[Len(s)] = Kept(s, S)
    /\ \A i \in 1 .. Len(s) :
          f[i] = IF s[i] \in S THEN Append(f[i - 1], s[i]) ELSE f[i - 1]

(* The loop's state after each element.                                    *)
LEMMA KeptSteps ==
    ASSUME NEW X, NEW s \in Seq(X), NEW S
    PROVE  \E f : Filters(f, X, s, S)
<1> DEFINE n == Len(s)
           Def(f) == [i \in 0 .. n |->
                         IF i = 0 THEN <<>>
                         ELSE IF s[i] \in S THEN Append(f[i - 1], s[i]) ELSE f[i - 1]]
           g == CHOOSE f : f = Def(f)
           step == [p \in Seq(X) \X (1 .. n) |->
                       IF s[p[2]] \in S THEN Append(p[1], s[p[2]]) ELSE p[1]]
<1>1. n \in Nat /\ \A i \in 1 .. n : s[i] \in X
  OBVIOUS
<1>2. step \in [Seq(X) \X (1 .. n) -> Seq(X)]
  BY <1>1
<1>3. \A x \in Seq(X), i \in 1 .. n :
          step[<<x, i>>] = IF s[i] \in S THEN Append(x, s[i]) ELSE x
  OBVIOUS
<1>4. <<>> \in Seq(X)
  OBVIOUS
<1> HIDE DEF n, step
<1>5. PICK f : Unfolds(f, Seq(X), <<>>, n, step)
  BY <1>1, <1>2, <1>4, Recursion
<1>6. f = Def(f)
  <2>1. ASSUME NEW i \in 0 .. n PROVE f[i] = Def(f)[i]
    <3>1. CASE i = 0
      BY <1>5, <3>1 DEF Unfolds
    <3>2. CASE i # 0
      <4>1. i \in 1 .. n /\ i - 1 \in 0 .. n /\ f[i - 1] \in Seq(X)
        BY <1>1, <1>5, <3>2 DEF Unfolds
      <4> QED BY <1>3, <1>5, <4>1 DEF Unfolds
    <3> QED BY <3>1, <3>2
  <2> QED BY <1>5, <2>1 DEF Unfolds
<1>7. g = Def(g)
  BY <1>6
<1> HIDE DEF g
<1>8. g[0] = <<>> /\ \A i \in 1 .. n :
          g[i] = IF s[i] \in S THEN Append(g[i - 1], s[i]) ELSE g[i - 1]
  <2>1. \A i \in 0 .. n : g[i] = Def(g)[i]
    BY <1>7
  <2>2. \A i \in 0 .. n :
            g[i] = IF i = 0 THEN <<>>
                   ELSE IF s[i] \in S THEN Append(g[i - 1], s[i]) ELSE g[i - 1]
    BY <2>1
  <2> HIDE DEF Def
  <2> QED BY <1>1, <2>2
<1>9. Kept(s, S) = g[n]
  BY DEF Kept, g, n
<1>10. g \in [0 .. n -> Seq(X)]
  <2> DEFINE T == {i \in Nat : i <= n => g[i] \in Seq(X)}
  <2>1. 0 \in T
    BY <1>4, <1>8
  <2>2. ASSUME NEW i \in Nat, i \in T PROVE i + 1 \in T
    <3> SUFFICES ASSUME i + 1 <= n PROVE g[i + 1] \in Seq(X)
      OBVIOUS
    <3>1. i + 1 \in 1 .. n /\ (i + 1) - 1 = i /\ g[i] \in Seq(X)
      BY <1>1, <2>2
    <3>2. g[i + 1] = IF s[i + 1] \in S THEN Append(g[i], s[i + 1]) ELSE g[i]
      BY <1>8, <3>1
    <3> QED BY <1>1, <3>1, <3>2
  <2> HIDE DEF T
  <2>3. Nat \subseteq T
    BY <2>1, <2>2, Induction
  <2>4. \A i \in 0 .. n : g[i] \in Seq(X)
    BY <1>1, <2>3 DEF T
  <2> QED BY <1>7, <2>4
<1> QED BY <1>8, <1>9, <1>10 DEF n, Filters

(* It leaves a sequence of the same elements.                              *)
LEMMA KeptType ==
    ASSUME NEW X, NEW s \in Seq(X), NEW S
    PROVE  Kept(s, S) \in Seq(X)
<1>1. Len(s) \in 0 .. Len(s)
  OBVIOUS
<1>2. PICK f : Filters(f, X, s, S)
  BY KeptSteps
<1> QED BY <1>1, <1>2 DEF Filters

(* Nothing is left of nothing.                                             *)
LEMMA KeptEmpty ==
    ASSUME NEW S
    PROVE  Kept(<<>>, S) = <<>>
<1>1. <<>> \in Seq({}) /\ Len(<<>>) = 0
  OBVIOUS
<1>2. PICK f : Filters(f, {}, <<>>, S)
  BY <1>1, KeptSteps
<1> QED BY <1>1, <1>2 DEF Filters

(* One element more.                                                       *)
LEMMA KeptAppend ==
    ASSUME NEW X, NEW s \in Seq(X), NEW x \in X, NEW S
    PROVE  Kept(Append(s, x), S) =
              IF x \in S THEN Append(Kept(s, S), x) ELSE Kept(s, S)
<1> DEFINE t == Append(s, x)
           n == Len(s)
<1>1. /\ t \in Seq(X) /\ Len(t) = n + 1 /\ n \in Nat
      /\ t[n + 1] = x /\ \A i \in 1 .. n : t[i] = s[i]
  OBVIOUS
<1> HIDE DEF t, n
<1>2. PICK f \in [0 .. n -> Seq(X)] :
          /\ f[0] = <<>> /\ f[n] = Kept(s, S)
          /\ \A i \in 1 .. n :
                f[i] = IF s[i] \in S THEN Append(f[i - 1], s[i]) ELSE f[i - 1]
  <2>1. PICK f : Filters(f, X, s, S)
    BY KeptSteps
  <2> QED BY <2>1 DEF Filters, n
<1>3. PICK g \in [0 .. n + 1 -> Seq(X)] :
          /\ g[0] = <<>> /\ g[n + 1] = Kept(t, S)
          /\ \A i \in 1 .. n + 1 :
                g[i] = IF t[i] \in S THEN Append(g[i - 1], t[i]) ELSE g[i - 1]
  <2>1. PICK g : Filters(g, X, t, S)
    BY <1>1, KeptSteps
  <2> QED BY <1>1, <2>1 DEF Filters
<1>4. f[n] = g[n]
  <2> DEFINE T == {i \in Nat : i <= n => f[i] = g[i]}
  <2>1. 0 \in T
    BY <1>2, <1>3
  <2>2. ASSUME NEW i \in Nat, i \in T PROVE i + 1 \in T
    <3> SUFFICES ASSUME i + 1 <= n PROVE f[i + 1] = g[i + 1]
      OBVIOUS
    <3>0. f[i] = g[i]
      BY <1>1, <2>2
    <3>1. i + 1 \in 1 .. n /\ i + 1 \in 1 .. n + 1 /\ (i + 1) - 1 = i
      BY <1>1
    <3>2. f[i + 1] = IF s[i + 1] \in S THEN Append(f[i], s[i + 1]) ELSE f[i]
      BY <1>2, <3>1
    <3>3. g[i + 1] = IF t[i + 1] \in S THEN Append(g[i], t[i + 1]) ELSE g[i]
      BY <1>3, <3>1
    <3>4. s[i + 1] = t[i + 1]
      BY <1>1, <3>1
    <3> QED BY <3>0, <3>2, <3>3, <3>4
  <2> HIDE DEF T
  <2>3. Nat \subseteq T
    BY <2>1, <2>2, Induction
  <2> QED BY <1>1, <2>3 DEF T
<1>5. n + 1 \in 1 .. n + 1 /\ (n + 1) - 1 = n
  BY <1>1
<1>6. g[n + 1] = IF x \in S THEN Append(g[n], x) ELSE g[n]
  BY <1>1, <1>3, <1>5
<1> QED BY <1>2, <1>3, <1>4, <1>6 DEF t

(* Two loops over two parts leave what one loop leaves.                    *)
LEMMA KeptConcat ==
    ASSUME NEW X, NEW s \in Seq(X), NEW t \in Seq(X), NEW S
    PROVE  Kept(s \o t, S) = Kept(s, S) \o Kept(t, S)
<1> DEFINE G == {u \in Seq(X) : Kept(s \o u, S) = Kept(s, S) \o Kept(u, S)}
<1>0. Kept(s, S) \in Seq(X)
  BY KeptType
<1>1. <<>> \in G
  <2>1. s \o <<>> = s /\ Kept(s, S) \o <<>> = Kept(s, S) /\ <<>> \in Seq(X)
    BY <1>0
  <2>2. Kept(<<>>, S) = <<>>
    BY KeptEmpty
  <2> QED BY <2>1, <2>2
<1>2. ASSUME NEW u \in Seq(X), NEW x \in X, u \in G PROVE Append(u, x) \in G
  <2>1. /\ Append(u, x) \in Seq(X) /\ s \o u \in Seq(X)
        /\ s \o Append(u, x) = Append(s \o u, x)
    OBVIOUS
  <2>2. Kept(u, S) \in Seq(X)
    BY KeptType
  <2>3. Kept(s, S) \o Append(Kept(u, S), x) = Append(Kept(s, S) \o Kept(u, S), x)
    BY <1>0, <2>2
  <2>4. Kept(s \o Append(u, x), S) =
            IF x \in S THEN Append(Kept(s \o u, S), x) ELSE Kept(s \o u, S)
    BY <2>1, KeptAppend
  <2>5. Kept(Append(u, x), S) = IF x \in S THEN Append(Kept(u, S), x) ELSE Kept(u, S)
    BY KeptAppend
  <2>6. Kept(s \o u, S) = Kept(s, S) \o Kept(u, S)
    BY <1>2
  <2>7. Kept(s \o Append(u, x), S) = Kept(s, S) \o Kept(Append(u, x), S)
    BY <2>3, <2>4, <2>5, <2>6
  <2> QED BY <2>1, <2>7
<1> HIDE DEF G
<1>3. t \in G
  BY <1>1, <1>2, SequenceInduction
<1> QED BY <1>3 DEF G

(* The elements kept are those in the set; none is kept twice.             *)
LEMMA KeptRange ==
    ASSUME NEW X, NEW s \in Seq(X), NEW S
    PROVE  ToSet(Kept(s, S)) = ToSet(s) \cap S
<1> DEFINE G == {u \in Seq(X) : ToSet(Kept(u, S)) = ToSet(u) \cap S}
<1>1. <<>> \in G
  BY KeptEmpty DEF ToSet
<1>2. ASSUME NEW u \in Seq(X), NEW x \in X, u \in G PROVE Append(u, x) \in G
  <2>1. Append(u, x) \in Seq(X) /\ ToSet(Append(u, x)) = ToSet(u) \cup {x}
    BY AppendRange
  <2>2. Kept(u, S) \in Seq(X) /\ ToSet(Append(Kept(u, S), x)) = ToSet(Kept(u, S)) \cup {x}
    BY KeptType, AppendRange
  <2>3. Kept(Append(u, x), S) = IF x \in S THEN Append(Kept(u, S), x) ELSE Kept(u, S)
    BY KeptAppend
  <2> QED BY <1>2, <2>1, <2>2, <2>3
<1> HIDE DEF G
<1>3. s \in G
  BY <1>1, <1>2, SequenceInduction
<1> QED BY <1>3 DEF G

(* What has no element twice is left without one twice.                    *)
LEMMA KeptDistinct ==
    ASSUME NEW X, NEW s \in Seq(X), NEW S, Distinct(s)
    PROVE  Distinct(Kept(s, S))
<1> DEFINE G == {u \in Seq(X) : Distinct(u) => Distinct(Kept(u, S))}
<1>1. <<>> \in G
  BY KeptEmpty DEF Distinct
<1>2. ASSUME NEW u \in Seq(X), NEW x \in X, u \in G PROVE Append(u, x) \in G
  <2> SUFFICES ASSUME Distinct(Append(u, x)) PROVE Distinct(Kept(Append(u, x), S))
    OBVIOUS
  <2>1. Distinct(u) /\ x \notin ToSet(u)
    BY AppendDistinct
  <2>2. Kept(u, S) \in Seq(X) /\ x \notin ToSet(Kept(u, S))
    BY <2>1, KeptType, KeptRange
  <2>3. Distinct(Append(Kept(u, S), x))
    BY <1>2, <2>1, <2>2, AppendDistinct
  <2>4. Kept(Append(u, x), S) = IF x \in S THEN Append(Kept(u, S), x) ELSE Kept(u, S)
    BY KeptAppend
  <2> QED BY <1>2, <2>1, <2>3, <2>4
<1> HIDE DEF G
<1>3. s \in G
  BY <1>1, <1>2, SequenceInduction
<1> QED BY <1>3 DEF G

-----------------------------------------------------------------------------
(* The messages of a sequence of datagrams.                                *)

Flattens(f, X, q) ==
    /\ f \in [1 .. Len(q) -> Seq(X)]
    /\ f[1] = q[1] /\ f[Len(q)] = FlattenSeq(q)
    /\ \A i \in 2 .. Len(q) : f[i] = f[i - 1] \o q[i]

(* The messages up to each datagram.                                       *)
LEMMA FlattenSteps ==
    ASSUME NEW X, NEW q \in Seq(Seq(X)), q # <<>>
    PROVE  \E f : Flattens(f, X, q)
<1> DEFINE n == Len(q)
           Def(f) == [i \in 1 .. n |-> IF i = 1 THEN q[i] ELSE f[i - 1] \o q[i]]
           g == CHOOSE f : f = Def(f)
           step == [p \in Seq(X) \X (1 .. n - 1) |-> p[1] \o q[p[2] + 1]]
<1>1. n \in Nat \ {0} /\ \A i \in 1 .. n : q[i] \in Seq(X)
  OBVIOUS
<1>2. step \in [Seq(X) \X (1 .. n - 1) -> Seq(X)]
  BY <1>1
<1>3. \A x \in Seq(X), i \in 1 .. n - 1 : step[<<x, i>>] = x \o q[i + 1]
  OBVIOUS
<1> HIDE DEF n, step
<1>4. n - 1 \in Nat /\ q[1] \in Seq(X)
  BY <1>1
<1>5. PICK h : Unfolds(h, Seq(X), q[1], n - 1, step)
  BY <1>2, <1>4, Recursion
<1> DEFINE f == [i \in 1 .. n |-> h[i - 1]]
<1>6. f = Def(f)
  <2>1. ASSUME NEW i \in 1 .. n PROVE f[i] = Def(f)[i]
    <3>1. CASE i = 1
      BY <1>1, <1>5, <3>1 DEF Unfolds
    <3>2. CASE i # 1
      <4>1. /\ i - 1 \in 1 .. n - 1 /\ (i - 1) - 1 \in 0 .. n - 1 /\ (i - 1) + 1 = i
            /\ i - 1 \in 1 .. n
        BY <1>1, <3>2
      <4>2. h[i - 1] = step[<<h[(i - 1) - 1], i - 1>>] /\ h[(i - 1) - 1] \in Seq(X)
        BY <1>5, <4>1 DEF Unfolds
      <4>3. h[i - 1] = h[(i - 1) - 1] \o q[i]
        BY <1>3, <4>1, <4>2
      <4>4. f[i] = h[i - 1] /\ f[i - 1] = h[(i - 1) - 1]
        BY <4>1
      <4> QED BY <3>2, <4>3, <4>4
    <3> QED BY <3>1, <3>2
  <2> QED BY <2>1
<1>7. g = Def(g)
  <2> HIDE DEF f
  <2> QED BY <1>6
<1> HIDE DEF g, f
<1>8. \A i \in 1 .. n : g[i] = IF i = 1 THEN q[i] ELSE g[i - 1] \o q[i]
  <2>1. \A i \in 1 .. n : g[i] = Def(g)[i]
    BY <1>7
  <2> QED BY <2>1
<1>9. FlattenSeq(q) = g[n]
  BY <1>1 DEF FlattenSeq, g, n
<1>10. g \in [1 .. n -> Seq(X)]
  <2> DEFINE T == {i \in Nat : i + 1 <= n => g[i + 1] \in Seq(X)}
  <2>1. 0 \in T
    BY <1>1, <1>8
  <2>2. ASSUME NEW i \in Nat, i \in T PROVE i + 1 \in T
    <3> SUFFICES ASSUME (i + 1) + 1 <= n PROVE g[(i + 1) + 1] \in Seq(X)
      OBVIOUS
    <3>1. /\ (i + 1) + 1 \in 1 .. n /\ ((i + 1) + 1) - 1 = i + 1
          /\ (i + 1) + 1 # 1
      BY <1>1
    <3>2. g[i + 1] \in Seq(X)
      BY <1>1, <2>2
    <3>3. g[(i + 1) + 1] = g[i + 1] \o q[(i + 1) + 1]
      BY <1>8, <3>1
    <3> QED BY <1>1, <3>1, <3>2, <3>3
  <2> HIDE DEF T
  <2>3. Nat \subseteq T
    BY <2>1, <2>2, Induction
  <2>4. \A i \in 1 .. n : i - 1 \in Nat /\ (i - 1) + 1 = i
    BY <1>1
  <2>5. ASSUME NEW i \in 1 .. n PROVE g[i] \in Seq(X)
    <3>1. i - 1 \in T /\ (i - 1) + 1 = i /\ i <= n
      BY <1>1, <2>3, <2>4
    <3> QED BY <3>1 DEF T
  <2> QED BY <1>7, <2>5
<1>11. g[1] = q[1] /\ \A i \in 2 .. n : g[i] = g[i - 1] \o q[i]
  <2>1. 1 \in 1 .. n /\ \A i \in 2 .. n : i \in 1 .. n /\ i # 1
    BY <1>1
  <2> QED BY <1>8, <2>1
<1> QED BY <1>9, <1>10, <1>11 DEF n, Flattens

(* No datagram holds no message.                                           *)
LEMMA FlattenEmpty == FlattenSeq(<<>>) = <<>>
BY DEF FlattenSeq

(* The messages of the datagrams, typed.                                   *)
LEMMA FlattenType ==
    ASSUME NEW X, NEW q \in Seq(Seq(X))
    PROVE  FlattenSeq(q) \in Seq(X)
<1>1. CASE q = <<>>
  <2>1. <<>> \in Seq(X)
    OBVIOUS
  <2> QED BY <1>1, <2>1, FlattenEmpty
<1>2. CASE q # <<>>
  <2>1. PICK f : Flattens(f, X, q)
    BY <1>2, FlattenSteps
  <2>2. Len(q) \in 1 .. Len(q)
    BY <1>2
  <2> QED BY <2>1, <2>2 DEF Flattens
<1> QED BY <1>1, <1>2

(* A datagram at the end.                                                  *)
LEMMA FlattenAppend ==
    ASSUME NEW X, NEW q \in Seq(Seq(X)), NEW d \in Seq(X)
    PROVE  FlattenSeq(Append(q, d)) = FlattenSeq(q) \o d
<1> DEFINE t == Append(q, d)
           n == Len(q)
<1>1. /\ t \in Seq(Seq(X)) /\ t # <<>> /\ Len(t) = n + 1 /\ n \in Nat
      /\ t[n + 1] = d /\ \A i \in 1 .. n : t[i] = q[i]
  BY AppendFacts
<1> HIDE DEF t
<1>2. PICK g : Flattens(g, X, t)
  BY <1>1, FlattenSteps
<1>3. CASE q = <<>>
  <2>1. n = 0 /\ FlattenSeq(q) = <<>> /\ <<>> \o d = d
    BY <1>3, FlattenEmpty
  <2>2. g[1] = d /\ g[1] = FlattenSeq(t)
    BY <1>1, <1>2, <2>1 DEF Flattens
  <2> QED BY <2>1, <2>2 DEF t
<1>4. CASE q # <<>>
  <2>1. PICK f : Flattens(f, X, q)
    BY <1>4, FlattenSteps
  <2>2. n \in Nat \ {0}
    BY <1>4
  <2> HIDE DEF n
  <2>3. f[n] = g[n]
    <3> DEFINE T == {i \in Nat : i + 1 <= n => f[i + 1] = g[i + 1]}
    <3>1. 0 \in T
      <4>1. f[1] = q[1] /\ g[1] = t[1] /\ 1 \in 1 .. n
        BY <1>2, <2>1, <2>2 DEF Flattens
      <4> QED BY <1>1, <4>1
    <3>2. ASSUME NEW i \in Nat, i \in T PROVE i + 1 \in T
      <4> SUFFICES ASSUME (i + 1) + 1 <= n PROVE f[(i + 1) + 1] = g[(i + 1) + 1]
        OBVIOUS
      <4>1. /\ (i + 1) + 1 \in 2 .. n /\ (i + 1) + 1 \in 2 .. n + 1
            /\ ((i + 1) + 1) - 1 = i + 1 /\ (i + 1) + 1 \in 1 .. n
        BY <2>2
      <4>2. f[i + 1] = g[i + 1]
        BY <2>2, <3>2
      <4>3. f[(i + 1) + 1] = f[i + 1] \o q[(i + 1) + 1]
        BY <2>1, <4>1 DEF Flattens, n
      <4>4. g[(i + 1) + 1] = g[i + 1] \o t[(i + 1) + 1]
        BY <1>1, <1>2, <4>1 DEF Flattens
      <4> QED BY <1>1, <4>1, <4>2, <4>3, <4>4
    <3> HIDE DEF T
    <3>3. Nat \subseteq T
      BY <3>1, <3>2, Induction
    <3>4. n - 1 \in T /\ (n - 1) + 1 = n
      BY <2>2, <3>3
    <3> QED BY <2>2, <3>4 DEF T
  <2>4. n + 1 \in 2 .. n + 1 /\ (n + 1) - 1 = n
    BY <2>2
  <2>5. g[n + 1] = g[n] \o d /\ g[n + 1] = FlattenSeq(t)
    BY <1>1, <1>2, <2>4 DEF Flattens
  <2>6. f[n] = FlattenSeq(q)
    BY <2>1 DEF Flattens, n
  <2> QED BY <2>3, <2>5, <2>6 DEF t
<1> QED BY <1>3, <1>4

(* The datagram at the front.                                              *)
LEMMA FlattenCons ==
    ASSUME NEW X, NEW q \in Seq(Seq(X)), NEW d \in Seq(X)
    PROVE  FlattenSeq(<<d>> \o q) = d \o FlattenSeq(q)
<1> DEFINE G == {u \in Seq(Seq(X)) : FlattenSeq(<<d>> \o u) = d \o FlattenSeq(u)}
<1>1. <<>> \in G
  <2>1. <<d>> \o <<>> = Append(<<>>, d) /\ <<>> \in Seq(Seq(X)) /\ <<>> \o d = d \o <<>>
    OBVIOUS
  <2>2. FlattenSeq(Append(<<>>, d)) = FlattenSeq(<<>>) \o d
    BY <2>1, FlattenAppend
  <2> QED BY <2>1, <2>2, FlattenEmpty
<1>2. ASSUME NEW u \in Seq(Seq(X)), NEW e \in Seq(X), u \in G PROVE Append(u, e) \in G
  <2>1. /\ Append(u, e) \in Seq(Seq(X)) /\ <<d>> \o u \in Seq(Seq(X))
        /\ <<d>> \o Append(u, e) = Append(<<d>> \o u, e)
    OBVIOUS
  <2>2. FlattenSeq(Append(<<d>> \o u, e)) = FlattenSeq(<<d>> \o u) \o e
    BY <2>1, FlattenAppend
  <2>3. FlattenSeq(Append(u, e)) = FlattenSeq(u) \o e
    BY FlattenAppend
  <2>4. FlattenSeq(u) \in Seq(X)
    BY FlattenType
  <2>5. (d \o FlattenSeq(u)) \o e = d \o (FlattenSeq(u) \o e)
    BY <2>4
  <2>6. FlattenSeq(<<d>> \o u) = d \o FlattenSeq(u)
    BY <1>2
  <2> QED BY <2>1, <2>2, <2>3, <2>5, <2>6
<1> HIDE DEF G
<1>3. q \in G
  BY <1>1, <1>2, SequenceInduction
<1> QED BY <1>3 DEF G

-----------------------------------------------------------------------------
(* Prefixes, and the stack from which the monitor returns its events.      *)

(* A sequence is a prefix of what continues it.                            *)
LEMMA PrefixExtends ==
    ASSUME NEW X, NEW s \in Seq(X), NEW t \in Seq(X)
    PROVE  IsPrefix(s, s \o t)
<1>1. /\ Len(s) \in Nat /\ Len(t) \in Nat /\ s \o t \in Seq(X)
      /\ Len(s \o t) = Len(s) + Len(t)
      /\ \A i \in 1 .. Len(s) : (s \o t)[i] = s[i] /\ s[i] \in X
  BY ConcatProperties
<1>2. SubSeq(s \o t, 1, Len(s)) = SubSeq(s, 1, Len(s))
  <2> DEFINE a == SubSeq(s \o t, 1, Len(s))  b == SubSeq(s, 1, Len(s))
  <2>1. /\ a \in Seq(X) /\ Len(a) = Len(s)
        /\ \A i \in 1 .. Len(s) : a[i] = (s \o t)[i]
    BY <1>1
  <2>2. /\ b \in Seq(X) /\ Len(b) = Len(s)
        /\ \A i \in 1 .. Len(s) : b[i] = s[i]
    BY <1>1
  <2> HIDE DEF a, b
  <2> QED BY <1>1, <2>1, <2>2, SeqEqual DEF a, b
<1> QED BY <1>1, <1>2 DEF IsPrefix

(* What a sequence is a prefix of continues it.                            *)
LEMMA PrefixRest ==
    ASSUME NEW X, NEW s \in Seq(X), NEW t \in Seq(X), IsPrefix(s, t)
    PROVE  \E u \in Seq(X) : t = s \o u
<1> DEFINE n == Len(s)  m == Len(t)  u == SubSeq(t, n + 1, m)
<1>1. n \in Nat /\ m \in Nat /\ n <= m /\ \A i \in 1 .. m : t[i] \in X
  BY DEF IsPrefix
<1>2. \A i \in 1 .. n : s[i] = t[i]
  <2>1. /\ \A i \in 1 .. n : SubSeq(s, 1, n)[i] = s[i]
        /\ \A i \in 1 .. n : SubSeq(t, 1, n)[i] = t[i]
    BY <1>1
  <2> QED BY <2>1 DEF IsPrefix
<1>3. /\ u \in Seq(X) /\ Len(u) = m - n
      /\ \A i \in 1 .. m - n : u[i] = t[n + i]
  BY <1>1
<1> HIDE DEF u
<1>4. /\ s \o u \in Seq(X) /\ Len(s \o u) = m
      /\ \A i \in 1 .. m : (s \o u)[i] = IF i <= n THEN s[i] ELSE u[i - n]
  BY <1>1, <1>3, ConcatProperties
<1>5. \A i \in 1 .. m : (s \o u)[i] = t[i]
  <2> TAKE i \in 1 .. m
  <2>1. CASE i <= n
    BY <1>1, <1>2, <1>4, <2>1
  <2>2. CASE ~(i <= n)
    <3>1. i - n \in 1 .. m - n /\ n + (i - n) = i
      BY <1>1, <2>2
    <3> QED BY <1>3, <1>4, <2>2, <3>1
  <2> QED BY <2>1, <2>2
<1>6. t = s \o u
  BY <1>4, <1>5, SeqEqual
<1> QED BY <1>3, <1>6

(* What is a prefix stays one when more is sent, and so does a part of it. *)
LEMMA PrefixGrows ==
    ASSUME NEW X, NEW s \in Seq(X), NEW t \in Seq(X), NEW u \in Seq(X),
           IsPrefix(s, t)
    PROVE  IsPrefix(s, t \o u)
<1>1. PICK r \in Seq(X) : t = s \o r
  BY PrefixRest
<1>2. t \o u = s \o (r \o u) /\ r \o u \in Seq(X)
  BY <1>1, ConcatAssociative
<1> QED BY <1>2, PrefixExtends

(* A part of a prefix is a prefix.                                         *)
LEMMA PrefixShrinks ==
    ASSUME NEW X, NEW s \in Seq(X), NEW u \in Seq(X), NEW t \in Seq(X),
           IsPrefix(s \o u, t)
    PROVE  IsPrefix(s, t)
<1>1. s \o u \in Seq(X)
  OBVIOUS
<1> DEFINE v == s \o u
<1>2. IsPrefix(v, t) /\ v \in Seq(X)
  BY <1>1
<1> HIDE DEF v
<1>3. PICK r \in Seq(X) : t = v \o r
  BY <1>2, PrefixRest
<1>4. t = (s \o u) \o r
  BY <1>3 DEF v
<1>5. t = s \o (u \o r) /\ u \o r \in Seq(X)
  <2>1. (s \o u) \o r = s \o (u \o r)
    BY ConcatAssociative
  <2> QED BY <1>4, <2>1
<1> QED BY <1>5, PrefixExtends

(* Reversing twice changes nothing.                                        *)
LEMMA ReverseTwice ==
    ASSUME NEW X, NEW s \in Seq(X)
    PROVE  Reverse(s) \in Seq(X) /\ Reverse(Reverse(s)) = s
BY DEF Reverse

(* The last element of the stack is the first to be returned.              *)
LEMMA ReversePop ==
    ASSUME NEW X, NEW s \in Seq(X), s # <<>>
    PROVE  LET top == s[Len(s)]  rest == SubSeq(s, 1, Len(s) - 1)
           IN  /\ top \in X /\ rest \in Seq(X)
               /\ Reverse(s) = <<top>> \o Reverse(rest)
<1> DEFINE n == Len(s)  top == s[n]  rest == SubSeq(s, 1, n - 1)
<1>1. n \in Nat \ {0} /\ top \in X /\ \A i \in 1 .. n : s[i] \in X
  OBVIOUS
<1>2. rest \in Seq(X) /\ Len(rest) = n - 1 /\ \A i \in 1 .. n - 1 : rest[i] = s[i]
  <2> HIDE DEF n
  <2>1. 1 \in Int /\ n - 1 \in Int /\ \A i \in 1 .. n - 1 : s[i] \in X
    BY <1>1
  <2>2. /\ rest \in Seq(X) /\ Len(rest) = IF 1 <= n - 1 THEN (n - 1) - 1 + 1 ELSE 0
        /\ \A i \in 1 .. (n - 1) - 1 + 1 : rest[i] = s[1 + i - 1]
    BY <2>1, SubSeqProperties
  <2> HIDE DEF rest
  <2>3. (n - 1) - 1 + 1 = n - 1 /\ \A i \in 1 .. n - 1 : 1 + i - 1 = i
    BY <1>1
  <2>4. \A i \in 1 .. n - 1 : rest[i] = s[i]
    BY <2>2, <2>3
  <2> QED BY <1>1, <2>2, <2>4
<1> HIDE DEF n, rest
<1> DEFINE a == Reverse(s)  b == Reverse(rest)
<1>3. a \in Seq(X) /\ Len(a) = n /\ \A i \in 1 .. n : a[i] = s[(n - i) + 1]
  BY <1>1 DEF Reverse, n
<1>4. b \in Seq(X) /\ Len(b) = n - 1 /\ \A i \in 1 .. n - 1 : b[i] = rest[((n - 1) - i) + 1]
  BY <1>1, <1>2 DEF Reverse
<1> HIDE DEF a, b, top
<1>5. <<top>> \in Seq(X) /\ Len(<<top>>) = 1 /\ <<top>>[1] = top
  BY <1>1
<1>6. /\ <<top>> \o b \in Seq(X) /\ Len(<<top>> \o b) = n
      /\ \A i \in 1 .. n : (<<top>> \o b)[i] = IF i <= 1 THEN <<top>>[i] ELSE b[i - 1]
  BY <1>1, <1>4, <1>5, ConcatProperties
<1>7. \A i \in 1 .. n : a[i] = (<<top>> \o b)[i]
  <2> TAKE i \in 1 .. n
  <2>1. CASE i = 1
    <3>1. (n - i) + 1 = n
      BY <1>1, <2>1
    <3> QED BY <1>3, <1>5, <1>6, <2>1, <3>1 DEF top
  <2>2. CASE i # 1
    <3>1. /\ i - 1 \in 1 .. n - 1 /\ ((n - 1) - (i - 1)) + 1 = (n - i) + 1
          /\ (n - i) + 1 \in 1 .. n - 1
      BY <1>1, <2>2
    <3>2. b[i - 1] = rest[(n - i) + 1]
      BY <1>4, <3>1
    <3>3. rest[(n - i) + 1] = s[(n - i) + 1] /\ a[i] = s[(n - i) + 1]
      BY <1>2, <1>3, <3>1
    <3>4. ~(i <= 1)
      BY <2>2
    <3>5. (<<top>> \o b)[i] = b[i - 1]
      BY <1>6, <3>4
    <3> QED BY <3>2, <3>3, <3>5
  <2> QED BY <2>1, <2>2
<1>8. a = <<top>> \o b
  BY <1>3, <1>6, <1>7, SeqEqual
<1> QED BY <1>1, <1>2, <1>8 DEF a, b, top, n, rest

-----------------------------------------------------------------------------
(* What parse_network_events makes of messages.                            *)

Event(m) == [kind |-> EventKind(m), obj |-> m.obj]
Events   == { Event(m) : m \in Messages }

(* An event for each message that can be told, in order.                   *)
LEMMA ParseType ==
    ASSUME NEW ms \in Seq(Messages)
    PROVE  /\ ParseEvents(ms) \in Seq(Events)
           /\ Len(ParseEvents(ms)) = Len(Kept(ms, Tellable))
           /\ \A i \in 1 .. Len(Kept(ms, Tellable)) :
                 ParseEvents(ms)[i] = Event(Kept(ms, Tellable)[i])
<1> DEFINE good == Kept(ms, Tellable)
<1>1. good \in Seq(Messages)
  BY KeptType
<1>2. ParseEvents(ms) = [i \in DOMAIN good |-> Event(good[i])]
  BY DEF ParseEvents, Event
<1> HIDE DEF good
<1>3. Len(good) \in Nat /\ DOMAIN good = 1 .. Len(good)
  BY <1>1
<1>4. \A i \in 1 .. Len(good) : Event(good[i]) \in Events
  BY <1>1 DEF Events
<1>5. ParseEvents(ms) = [i \in 1 .. Len(good) |-> Event(good[i])]
  BY <1>2, <1>3
<1> QED BY <1>3, <1>4, <1>5 DEF good

(* No message makes no event.                                              *)
LEMMA ParseEmpty == ParseEvents(<<>>) = <<>>
<1>1. <<>> \in Seq(Messages) /\ Len(<<>>) = 0
  OBVIOUS
<1>2. ParseEvents(<<>>) \in Seq(Events) /\ Len(ParseEvents(<<>>)) = 0
  BY <1>1, ParseType, KeptEmpty
<1> QED BY <1>2

(* The events of two datagrams are those of the first and of the second.   *)
LEMMA ParseConcat ==
    ASSUME NEW s \in Seq(Messages), NEW t \in Seq(Messages)
    PROVE  ParseEvents(s \o t) = ParseEvents(s) \o ParseEvents(t)
<1> DEFINE a == Kept(s, Tellable)  b == Kept(t, Tellable)
           n == Len(a)  m == Len(b)
<1>1. a \in Seq(Messages) /\ b \in Seq(Messages) /\ s \o t \in Seq(Messages)
  BY KeptType, ConcatProperties
<1>2. Kept(s \o t, Tellable) = a \o b
  BY KeptConcat
<1>3. /\ ParseEvents(s \o t) \in Seq(Events)
      /\ Len(ParseEvents(s \o t)) = Len(a \o b)
      /\ \A i \in 1 .. Len(a \o b) : ParseEvents(s \o t)[i] = Event((a \o b)[i])
  <2> HIDE DEF a, b
  <2> QED BY <1>1, <1>2, ParseType
<1>4. /\ ParseEvents(s) \in Seq(Events) /\ Len(ParseEvents(s)) = n
      /\ \A i \in 1 .. n : ParseEvents(s)[i] = Event(a[i])
  BY ParseType
<1>5. /\ ParseEvents(t) \in Seq(Events) /\ Len(ParseEvents(t)) = m
      /\ \A i \in 1 .. m : ParseEvents(t)[i] = Event(b[i])
  BY ParseType
<1> HIDE DEF a, b
<1>6. n \in Nat /\ m \in Nat /\ Len(a \o b) = n + m
      /\ \A i \in 1 .. n + m : (a \o b)[i] = IF i <= n THEN a[i] ELSE b[i - n]
  BY <1>1, ConcatProperties
<1> HIDE DEF n, m
<1> DEFINE c == ParseEvents(s) \o ParseEvents(t)
<1>7. /\ c \in Seq(Events) /\ Len(c) = n + m
      /\ \A i \in 1 .. n + m :
            c[i] = IF i <= n THEN ParseEvents(s)[i] ELSE ParseEvents(t)[i - n]
  BY <1>4, <1>5, ConcatProperties
<1> HIDE DEF c
<1>8. \A i \in 1 .. n + m : c[i] = ParseEvents(s \o t)[i]
  <2> TAKE i \in 1 .. n + m
  <2>1. CASE i <= n
    <3>1. i \in 1 .. n
      BY <1>6, <2>1
    <3> QED BY <1>3, <1>4, <1>6, <1>7, <2>1, <3>1
  <2>2. CASE ~(i <= n)
    <3>1. i - n \in 1 .. m
      BY <1>6, <2>2
    <3> QED BY <1>3, <1>5, <1>6, <1>7, <2>2, <3>1
  <2> QED BY <2>1, <2>2
<1>9. c = ParseEvents(s \o t)
  BY <1>3, <1>6, <1>7, <1>8, SeqEqual
<1> QED BY <1>9 DEF c

-----------------------------------------------------------------------------
(* The monitor. Every event taken from the socket is either shown or       *)
(* pending, and what the socket still holds follows them: that is so until *)
(* the buffer overruns, and what was shown or pending then stays a prefix. *)

Typed ==
    /\ queue \in Seq(Seq(Messages)) /\ sent \in Seq(Messages)
    /\ pending \in Seq(Events) /\ shown \in Seq(Events)
    /\ {overrun, shutdown, asked} \subseteq BOOLEAN

Silent == mpc \in {"off", "ready", "stuck"} =>
            /\ shown = <<>> /\ pending = <<>> /\ queue = <<>> /\ sent = <<>>
            /\ overrun = FALSE

Taken == shown \o Reverse(pending)

Told == IsPrefix(Taken, ParseEvents(sent))

Live == (mpc \in {"loop", "recv"} /\ overrun = FALSE) =>
            Taken \o ParseEvents(FlattenSeq(queue)) = ParseEvents(sent)

Flag == /\ (mpc \in {"loop", "recv"} /\ shutdown = TRUE) => asked = TRUE
        /\ mpc = "ended" => asked = TRUE
        /\ mpc = "recv" => pending = <<>>

MonitorInv == Typed /\ Silent /\ Told /\ Live /\ Flag

others == <<mpc, source, pending, shown, shutdown, asked>>

(* The events taken from the socket, typed.                                *)
LEMMA TakenType == Typed => Taken \in Seq(Events)
BY ReverseTwice, ConcatProperties DEF Typed, Taken

(* What leaves the monitor alone keeps its invariant.                      *)
LEMMA MonitorStays == MonitorInv /\ UNCHANGED monitor => MonitorInv'
<1> SUFFICES ASSUME MonitorInv, UNCHANGED monitor PROVE MonitorInv'
  OBVIOUS
<1>1. /\ mpc' = mpc /\ pending' = pending /\ shown' = shown /\ queue' = queue
      /\ overrun' = overrun /\ shutdown' = shutdown /\ sent' = sent /\ asked' = asked
  BY DEF monitor
<1> QED BY <1>1 DEF MonitorInv, Typed, Silent, Told, Live, Flag, Taken

(* A notification is the last message of what the monitor has yet to show, *)
(* or is dropped with the overrun on record.                               *)
LEMMA NotifyKeeps ==
    ASSUME MonitorInv, NEW m \in Messages, Notify(m), UNCHANGED others
    PROVE  MonitorInv'
<1>0. /\ mpc' = mpc /\ pending' = pending /\ shown' = shown
      /\ shutdown' = shutdown /\ asked' = asked /\ Taken' = Taken
  BY DEF others, Taken
<1>1. CASE ~Heard(m.obj)
  <2>1. UNCHANGED monitor
    BY <1>1 DEF Notify, others, monitor
  <2> QED BY <2>1, MonitorStays
<1>2. CASE Heard(m.obj)
  <2> DEFINE e == ParseEvents(<<m>>)
  <2>1. mpc \in {"loop", "recv"} /\ sent' = Append(sent, m)
    BY <1>2 DEF Notify, Heard, Hears
  <2>2. /\ <<m>> \in Seq(Messages) /\ e \in Seq(Events)
        /\ sent \in Seq(Messages) /\ sent' = sent \o <<m>>
    <3>1. <<m>> \in Seq(Messages) /\ sent \in Seq(Messages)
      BY DEF MonitorInv, Typed
    <3>2. Append(sent, m) = sent \o <<m>>
      BY <3>1, AppendIsConcat
    <3> QED BY <2>1, <3>1, <3>2, ParseType
  <2>3. /\ ParseEvents(sent') = ParseEvents(sent) \o e
        /\ ParseEvents(sent) \in Seq(Events) /\ sent' \in Seq(Messages)
    BY <2>2, ParseConcat, ParseType, ConcatProperties
  <2> HIDE DEF e
  <2>4. Taken \in Seq(Events)
    BY TakenType DEF MonitorInv
  <2>5. Told'
    <3>1. IsPrefix(Taken, ParseEvents(sent) \o e)
      BY <2>2, <2>3, <2>4, PrefixGrows DEF MonitorInv, Told
    <3> QED BY <1>0, <2>3, <3>1 DEF Told
  <2>6. Silent' /\ Flag'
    BY <1>0, <2>1 DEF MonitorInv, Silent, Flag
  <2>7. queue \in Seq(Seq(Messages)) /\ FlattenSeq(queue) \in Seq(Messages)
    BY FlattenType DEF MonitorInv, Typed
  <2>8. ASSUME queue' \in Seq(Seq(Messages)), overrun' = overrun,
               FlattenSeq(queue') = FlattenSeq(queue) \o <<m>>
        PROVE  Live'
    <3> DEFINE r == ParseEvents(FlattenSeq(queue))
    <3>1. ParseEvents(FlattenSeq(queue')) = r \o e
      BY <2>2, <2>7, <2>8, ParseConcat DEF e
    <3>2. r \in Seq(Events)
      BY <2>7, ParseType
    <3> HIDE DEF r
    <3>3. Taken \o (r \o e) = (Taken \o r) \o e
      <4>1. \A a, b, c \in Seq(Events) : (a \o b) \o c = a \o (b \o c)
        BY ConcatAssociative
      <4> QED BY <2>2, <2>4, <3>2, <4>1
    <3>4. ASSUME overrun = FALSE PROVE Taken \o r = ParseEvents(sent)
      BY <2>1, <3>4 DEF MonitorInv, Live, r
    <3> QED BY <1>0, <2>3, <2>8, <3>1, <3>3, <3>4 DEF Live
  <2>9. CASE queue' = Append(queue, <<m>>) /\ UNCHANGED overrun
    <3>1. queue' \in Seq(Seq(Messages))
      BY <2>2, <2>7, <2>9, AppendFacts
    <3>2. FlattenSeq(queue') = FlattenSeq(queue) \o <<m>>
      BY <2>2, <2>7, <2>9, FlattenAppend
    <3>3. Live'
      BY <2>8, <2>9, <3>1, <3>2
    <3>4. Typed'
      BY <1>0, <2>3, <2>9, <3>1 DEF Typed, MonitorInv
    <3> QED BY <2>5, <2>6, <3>3, <3>4 DEF MonitorInv
  <2>10. CASE /\ queue # <<>> /\ UNCHANGED overrun
              /\ queue' = [queue EXCEPT ![Len(queue)] = Append(@, m)]
    <3>1. PICK u \in Seq(Seq(Messages)), d \in Seq(Messages) : queue = Append(u, d)
      BY <2>7, <2>10, SequenceEmptyOrAppend
    <3>2. Append(d, m) \in Seq(Messages) /\ Append(d, m) = d \o <<m>>
      BY AppendFacts, AppendIsConcat
    <3>3. queue' = Append(u, Append(d, m))
      <4> DEFINE n == Len(u)  v == Append(d, m)
      <4>1. /\ n \in Nat /\ Len(queue) = n + 1 /\ queue[n + 1] = d
            /\ \A i \in 1 .. n : queue[i] = u[i]
        BY <3>1, AppendFacts
      <4>2. queue' = [queue EXCEPT ![n + 1] = v]
        BY <2>10, <4>1
      <4>3. v \in Seq(Messages)
        BY <3>2
      <4> HIDE DEF v
      <4>4. /\ Append(u, v) \in Seq(Seq(Messages)) /\ Len(Append(u, v)) = n + 1
            /\ Append(u, v)[n + 1] = v /\ \A i \in 1 .. n : Append(u, v)[i] = u[i]
        BY <4>3, AppendFacts
      <4> HIDE DEF n
      <4>5. n + 1 \in 1 .. Len(queue)
        BY <4>1
      <4>6. /\ queue' \in Seq(Seq(Messages)) /\ Len(queue') = n + 1
            /\ \A j \in 1 .. n + 1 : queue'[j] = IF j = n + 1 THEN v ELSE queue[j]
        BY <2>7, <4>1, <4>2, <4>3, <4>5, ExceptSeq
      <4>7. \A j \in 1 .. n + 1 : queue'[j] = Append(u, v)[j]
        <5> TAKE j \in 1 .. n + 1
        <5>1. j = n + 1 \/ j \in 1 .. n
          BY <4>1
        <5> QED BY <4>1, <4>4, <4>6, <5>1
      <4> QED BY <4>4, <4>6, <4>7, SeqEqual DEF v
    <3>4. queue' \in Seq(Seq(Messages))
      BY <3>1, <3>2, <3>3, AppendFacts
    <3>5. /\ FlattenSeq(queue) = FlattenSeq(u) \o d
          /\ FlattenSeq(queue') = FlattenSeq(u) \o (d \o <<m>>)
          /\ FlattenSeq(u) \in Seq(Messages)
      BY <3>1, <3>2, <3>3, FlattenAppend, FlattenType
    <3>6. FlattenSeq(queue') = FlattenSeq(queue) \o <<m>>
      BY <2>2, <3>1, <3>5, ConcatAssociative
    <3>7. Live'
      BY <2>8, <2>10, <3>4, <3>6
    <3>8. Typed'
      BY <1>0, <2>3, <2>10, <3>4 DEF Typed, MonitorInv
    <3> QED BY <2>5, <2>6, <3>7, <3>8 DEF MonitorInv
  <2>11. CASE overrun' = TRUE /\ UNCHANGED queue
    <3>1. Live'
      BY <2>11 DEF Live
    <3>2. Typed'
      BY <1>0, <2>3, <2>11 DEF Typed, MonitorInv
    <3> QED BY <2>5, <2>6, <3>1, <3>2 DEF MonitorInv
  <2> QED BY <1>2, <2>9, <2>10, <2>11 DEF Notify
<1> QED BY <1>1, <1>2

(* The operations' requests: what Transact changes is an object, an        *)
(* address when it is added and a route when it is replaced.               *)
Addresses == { o \in Objects : o.kind = "addr" }
Routes    == { o \in Objects : o.kind = "route" }
Requests  == { Dump(k) : k \in Kinds } \cup {Resolve, TriggerScan}
             \cup { Change("add", o) : o \in Addresses }
             \cup { Change("replace", o) : o \in Routes }
             \cup { Change(v, o) : v \in {"del", "tryDel"}, o \in Objects }

Requested == /\ todo \in Seq(Requests)
             /\ pc \in {"send", "recv"} => todo # <<>>

(* What a request of each kind carries.                                    *)
LEMMA RequestFacts ==
    ASSUME NEW r \in Requests
    PROVE  /\ r.do = "dump" => r.kind \in Kinds /\ r = Dump(r.kind)
           /\ r.do \in {"add", "replace", "del", "tryDel"} => r.obj \in Objects
           /\ r.do = "add" => r.obj.kind = "addr"
           /\ r.do = "replace" => r.obj.kind = "route"
BY DEF Requests, Dump, Resolve, TriggerScan, Change, Addresses, Routes

(* Every operation is a list of at least one request.                      *)
LEMMA ProgramsAreRequests ==
    ASSUME NEW p \in Programs
    PROVE  p \in Seq(Requests) /\ p # <<>>
<1>1. /\ \A k \in Kinds : Dump(k) \in Requests
      /\ Resolve \in Requests /\ TriggerScan \in Requests
  BY DEF Requests
<1>2. /\ Multicast \subseteq Kinds
      /\ "iface" \in Kinds /\ "wiphy" \in Kinds /\ "bss" \in Kinds
  BY DEF Multicast, Kinds
<1>3. CASE p \in { <<Dump(k)>> : k \in Multicast }
  <2>1. PICK k \in Kinds : p = <<Dump(k)>>
    BY <1>2, <1>3
  <2> DEFINE r == Dump(k)
  <2>2. r \in Requests
    BY <1>1
  <2> HIDE DEF r
  <2>3. <<r>> \in Seq(Requests) /\ <<r>> # <<>>
    BY <2>2
  <2> QED BY <2>1, <2>3 DEF r
<1>4. CASE p \in { WifiInterfaces, AccessPoints, ScanWifi }
  <2>1. \A w, x, y, z \in Requests :
            /\ <<w, x, y>> \in Seq(Requests) /\ <<w, x, y, z>> \in Seq(Requests)
            /\ <<w, x, y>> # <<>> /\ <<w, x, y, z>> # <<>>
    OBVIOUS
  <2>2. /\ Resolve \in Requests /\ TriggerScan \in Requests
        /\ Dump("iface") \in Requests /\ Dump("wiphy") \in Requests
        /\ Dump("bss") \in Requests
    BY <1>1, <1>2
  <2>3. WifiInterfaces \in Seq(Requests) /\ WifiInterfaces # <<>>
    BY <2>1, <2>2 DEF WifiInterfaces
  <2>4. AccessPoints \in Seq(Requests) /\ AccessPoints # <<>>
    BY <2>1, <2>2 DEF AccessPoints
  <2>5. ScanWifi \in Seq(Requests) /\ ScanWifi # <<>>
    BY <2>1, <2>2 DEF ScanWifi
  <2> QED BY <1>4, <2>3, <2>4, <2>5
<1>5. ASSUME NEW c \in Configs
      PROVE  /\ Change("add", c.addr) \in Requests /\ Change("del", c.addr) \in Requests
             /\ c.route # NoObject => /\ Change("replace", c.route) \in Requests
                                      /\ Change("tryDel", c.route) \in Requests
  BY <1>5, NetlinkAssumption DEF Requests, Addresses, Routes
<1>6. \A x, y \in Requests : /\ <<x>> \in Seq(Requests) /\ <<x>> \o <<y>> \in Seq(Requests)
                             /\ <<x>> # <<>> /\ <<x>> \o <<y>> # <<>>
  OBVIOUS
<1>7. \A x \in Requests : <<x>> \o <<>> = <<x>> /\ <<>> \o <<x>> = <<x>>
  OBVIOUS
<1>8. CASE p \in { Configure(c) : c \in { d \in Configs : d.valid } }
  <2>1. PICK c \in Configs : p = Configure(c)
    BY <1>8
  <2>2. CASE c.route = NoObject
    BY <1>5, <1>6, <1>7, <2>1, <2>2 DEF Configure
  <2>3. CASE c.route # NoObject
    BY <1>5, <1>6, <2>1, <2>3 DEF Configure
  <2> QED BY <2>2, <2>3
<1>9. CASE p \in { RemoveConfig(c) : c \in Configs }
  <2>1. PICK c \in Configs : p = RemoveConfig(c)
    BY <1>9
  <2>2. CASE c.route = NoObject
    BY <1>5, <1>6, <1>7, <2>1, <2>2 DEF RemoveConfig
  <2>3. CASE c.route # NoObject
    BY <1>5, <1>6, <2>1, <2>3 DEF RemoveConfig
  <2> QED BY <2>2, <2>3
<1> QED BY <1>3, <1>4, <1>8, <1>9 DEF Programs

(* A request is followed by the next one; the last one ends the operation. *)
LEMMA AdvanceKeeps ==
    ASSUME Requested, pc \in {"send", "recv"}, Advance
    PROVE  Requested'
<1>1. todo \in Seq(Requests) /\ todo # <<>> /\ todo' = Tail(todo)
  BY DEF Requested, Advance
<1>2. todo' \in Seq(Requests) /\ Len(todo') = Len(todo) - 1 /\ Len(todo) \in Nat
  BY <1>1, HeadTailProperties
<1>3. pc' \in {"send", "recv"} => Len(todo) # 1
  BY DEF Advance
<1>4. pc' \in {"send", "recv"} => todo' # <<>>
  <2>1. Len(<<>>) = 0
    OBVIOUS
  <2>2. todo' = <<>> => Len(todo) = 1
    BY <1>2, <2>1
  <2> QED BY <1>3, <2>2
<1> QED BY <1>2, <1>4 DEF Requested

(* An operation that ends has no requests left.                            *)
LEMMA FinishKeeps ==
    ASSUME NEW r, Finish(r)
    PROVE  Requested'
<1>1. <<>> \in Seq(Requests)
  OBVIOUS
<1> QED BY <1>1 DEF Finish, Requested

(* An operation that is under way always has a request.                    *)
LEMMA RequestedHolds ==
    ASSUME Requested, [Next]_vars
    PROVE  Requested'
<1>1. CASE todo' = todo /\ pc' = pc
  BY <1>1 DEF Requested
<1>2. ASSUME NEW o \in Objects, KernelAdd(o) \/ KernelRemove(o) PROVE Requested'
  BY <1>1, <1>2 DEF KernelAdd, KernelRemove, SomeoneElse
<1>3. ASSUME NEW o \in Objects, NEW aborted \in BOOLEAN, ScanEnds(o, aborted)
      PROVE  Requested'
  BY <1>1, <1>3 DEF ScanEnds, SomeoneElse
<1>4. ASSUME NEW p \in Programs, Start(p) PROVE Requested'
  <2>1. todo' = p /\ pc' = "send"
    BY <1>4 DEF Start
  <2> QED BY <2>1, ProgramsAreRequests DEF Requested
<1>5. ASSUME NEW c \in Configs, Refuse(c) PROVE Requested'
  BY <1>1, <1>5 DEF Refuse
<1>6. CASE Fails
  BY <1>6, FinishKeeps DEF Fails
<1>7. CASE SendDump
  <2>1. CASE Finish("Kernel")
    BY <2>1, FinishKeeps
  <2>2. CASE pc' = "recv" /\ UNCHANGED todo
    BY <1>7, <2>2 DEF SendDump, Requested
  <2> QED BY <1>7, <2>1, <2>2 DEF SendDump
<1>8. CASE ResolveFamily
  <2>1. CASE Advance
    BY <1>8, <2>1, AdvanceKeeps DEF ResolveFamily
  <2>2. CASE pc' = "stuck" /\ UNCHANGED todo
    BY <2>2 DEF Requested
  <2> QED BY <1>8, <2>1, <2>2 DEF ResolveFamily
<1>9. CASE NoScanInterface
  BY <1>9, FinishKeeps DEF NoScanInterface
<1>10. CASE SendTrigger
  <2>1. CASE Advance
    BY <1>10, <2>1, AdvanceKeeps DEF SendTrigger
  <2>2. CASE Finish("Kernel")
    BY <2>2, FinishKeeps
  <2> QED BY <1>10, <2>1, <2>2 DEF SendTrigger
<1>11. CASE RecvDump
  <2>1. CASE Accept(Chunk)
    BY <1>1, <2>1 DEF Accept
  <2>2. CASE Finish("Malformed")
    BY <2>2, FinishKeeps
  <2>3. CASE Done
    BY <1>11, <2>3, AdvanceKeeps DEF RecvDump, Done
  <2> QED BY <1>11, <2>1, <2>2, <2>3 DEF RecvDump
<1>12. CASE Transact
  <2>1. CASE Advance
    BY <1>12, <2>1, AdvanceKeeps DEF Transact
  <2>2. CASE Finish("Kernel")
    BY <2>2, FinishKeeps
  <2> QED BY <1>12, <2>1, <2>2 DEF Transact, Refused, Made
<1>13. CASE InstallHandler \/ RequestShutdown \/ MonitorStep
  BY <1>1, <1>13 DEF InstallHandler, RequestShutdown, MonitorStep, Show, CheckShutdown,
                     RecvEvents, WouldBlock, MStays, client
<1>14. ASSUME NEW s \in {"route", "wifi"}, OpenSource(s) PROVE Requested'
  BY <1>1, <1>14 DEF OpenSource, client
<1>15. CASE UNCHANGED vars
  BY <1>1, <1>15 DEF vars, client
<1> QED BY <1>2, <1>3, <1>4, <1>5, <1>6, <1>7, <1>8, <1>9, <1>10, <1>11, <1>12,
           <1>13, <1>14, <1>15 DEF Next

-----------------------------------------------------------------------------
(* The monitor's invariant, action by action.                              *)

(* A notification is about its object.                                     *)
LEMMA MessageType ==
    ASSUME NEW o \in Objects, NEW del \in BOOLEAN, NEW create \in BOOLEAN
    PROVE  Message(o, del, create) \in Messages /\ Message(o, del, create).obj = o
BY DEF Message, Messages

(* Changes by others keep the monitor's invariant.                         *)
LEMMA KernelTells ==
    ASSUME MonitorInv, NEW o \in Objects,
           \/ KernelAdd(o) \/ KernelRemove(o)
           \/ \E aborted \in BOOLEAN : ScanEnds(o, aborted)
    PROVE  MonitorInv'
<1>0. UNCHANGED others
  BY DEF KernelAdd, KernelRemove, ScanEnds, SomeoneElse, others
<1>1. CASE KernelAdd(o)
  <2>1. PICK create \in BOOLEAN : Notify(Message(o, FALSE, create))
    BY <1>1 DEF KernelAdd
  <2>2. Message(o, FALSE, create) \in Messages
    BY MessageType
  <2> QED BY <1>0, <2>1, <2>2, NotifyKeeps
<1>2. CASE KernelRemove(o)
  <2>1. CASE UNCHANGED <<queue, overrun, sent>>
    BY <1>0, <2>1, MonitorStays DEF others, monitor
  <2>2. CASE Notify(Message(o, TRUE, FALSE))
    <3>1. Message(o, TRUE, FALSE) \in Messages
      BY MessageType
    <3> QED BY <1>0, <2>2, <3>1, NotifyKeeps
  <2> QED BY <1>2, <2>1, <2>2 DEF KernelRemove
<1>3. ASSUME NEW aborted \in BOOLEAN, ScanEnds(o, aborted) PROVE MonitorInv'
  <2>1. Notify(Message(o, aborted, TRUE))
    BY <1>3 DEF ScanEnds
  <2>2. Message(o, aborted, TRUE) \in Messages
    BY MessageType
  <2> QED BY <1>0, <2>1, <2>2, NotifyKeeps
<1> QED BY <1>1, <1>2, <1>3

(* So do the program's own changes.                                        *)
LEMMA TransactTells ==
    ASSUME MonitorInv, Requested, Transact
    PROVE  MonitorInv'
<1> DEFINE o == Head(todo).obj
<1>1. UNCHANGED others
  BY DEF Transact, others
<1>2. o \in Objects
  <2>1. todo \in Seq(Requests) /\ todo # <<>>
    BY DEF Transact, Requested
  <2>2. Head(todo) \in Requests
    BY <2>1, HeadTailProperties
  <2>3. Head(todo).do \in {"add", "replace", "del", "tryDel"}
    BY DEF Transact
  <2> QED BY <2>2, <2>3, RequestFacts
<1>3. \/ UNCHANGED <<queue, overrun, sent>>
      \/ \E del, create \in BOOLEAN : Notify(Message(o, del, create))
  BY DEF Transact, Refused, Made
<1> HIDE DEF o
<1>4. CASE UNCHANGED <<queue, overrun, sent>>
  BY <1>1, <1>4, MonitorStays DEF others, monitor
<1>5. ASSUME NEW del \in BOOLEAN, NEW create \in BOOLEAN, Notify(Message(o, del, create))
      PROVE  MonitorInv'
  BY <1>1, <1>2, <1>5, MessageType, NotifyKeeps
<1> QED BY <1>3, <1>4, <1>5

(* A monitor that subscribes has seen and missed nothing.                  *)
LEMMA OpenSourceKeeps ==
    ASSUME MonitorInv, NEW s, OpenSource(s)
    PROVE  MonitorInv'
<1>1. /\ mpc = "ready" /\ mpc' \in {"stuck", "loop", "failed"} /\ asked' = shutdown'
      /\ shutdown' \in BOOLEAN
      /\ UNCHANGED <<pending, shown, queue, overrun, sent>>
  BY DEF OpenSource
<1>2. /\ shown = <<>> /\ pending = <<>> /\ queue = <<>> /\ sent = <<>>
      /\ overrun = FALSE
  BY <1>1 DEF MonitorInv, Silent
<1>3. Typed' /\ Silent' /\ Told'
  BY <1>1, <1>2 DEF MonitorInv, Typed, Silent, Told, Taken
<1>4. Live'
  <2>1. ParseEvents(FlattenSeq(queue')) = <<>> /\ ParseEvents(sent') = <<>>
    BY <1>1, <1>2, FlattenEmpty, ParseEmpty
  <2>2. Taken' = <<>>
    <3>1. Reverse(<<>>) = <<>>
      <4>1. <<>> \in Seq({})
        OBVIOUS
      <4> QED BY <4>1 DEF Reverse
    <3> QED BY <1>1, <1>2, <3>1 DEF Taken
  <2> QED BY <2>1, <2>2 DEF Live
<1>5. Flag'
  BY <1>1 DEF Flag
<1> QED BY <1>3, <1>4, <1>5 DEF MonitorInv

(* Returning an event moves it from the stack to what was shown.           *)
LEMMA ShowKeeps ==
    ASSUME MonitorInv, Show
    PROVE  MonitorInv'
<1> DEFINE n == Len(pending)  top == pending[n]  rest == SubSeq(pending, 1, n - 1)
<1>1. /\ mpc = "loop" /\ pending # <<>> /\ shown' = Append(shown, top)
      /\ pending' = rest
      /\ UNCHANGED <<mpc, queue, overrun, shutdown, sent, asked>>
  BY DEF Show, MStays
<1>2. pending \in Seq(Events) /\ shown \in Seq(Events)
  BY DEF MonitorInv, Typed
<1>3. /\ top \in Events /\ rest \in Seq(Events)
      /\ Reverse(pending) = <<top>> \o Reverse(rest)
  BY <1>1, <1>2, ReversePop
<1> HIDE DEF n, top, rest
<1>4. Append(shown, top) = shown \o <<top>> /\ Append(shown, top) \in Seq(Events)
  BY <1>2, <1>3, AppendIsConcat, AppendFacts
<1>5. Taken' = Taken
  <2>1. Reverse(rest) \in Seq(Events) /\ <<top>> \in Seq(Events)
    BY <1>3, ReverseTwice
  <2>2. (shown \o <<top>>) \o Reverse(rest) = shown \o (<<top>> \o Reverse(rest))
    BY <1>2, <2>1, ConcatAssociative
  <2> QED BY <1>1, <1>3, <1>4, <2>2 DEF Taken
<1>6. Typed' /\ Silent'
  BY <1>1, <1>3, <1>4 DEF MonitorInv, Typed, Silent
<1>7. Told' /\ Live'
  BY <1>1, <1>5 DEF MonitorInv, Told, Live
<1>8. Flag'
  BY <1>1 DEF MonitorInv, Flag
<1> QED BY <1>6, <1>7, <1>8 DEF MonitorInv

(* A datagram is taken when nothing is pending: its events are the next.   *)
LEMMA RecvEventsKeeps ==
    ASSUME MonitorInv, RecvEvents
    PROVE  MonitorInv'
<1>1. mpc = "recv" /\ UNCHANGED <<shown, overrun, shutdown, sent, asked>>
  BY DEF RecvEvents, MStays
<1>2. CASE mpc' = "failed" /\ UNCHANGED <<pending, queue>>
  BY <1>1, <1>2 DEF MonitorInv, Typed, Silent, Told, Live, Flag, Taken
<1>3. CASE ~(mpc' = "failed" /\ UNCHANGED <<pending, queue>>)
  <2> DEFINE d == queue[1]  q == Tail(queue)
  <2>1. /\ overrun # TRUE /\ queue # <<>> /\ mpc' = "loop" /\ queue' = q
        /\ pending' = Reverse(ParseEvents(d))
    BY <1>3 DEF RecvEvents
  <2>2. queue \in Seq(Seq(Messages)) /\ shown \in Seq(Events) /\ pending = <<>>
    BY <1>1 DEF MonitorInv, Typed, Flag
  <2>3. d \in Seq(Messages) /\ q \in Seq(Seq(Messages)) /\ queue = <<d>> \o q
    BY <2>1, <2>2
  <2>4. FlattenSeq(queue) = d \o FlattenSeq(q) /\ FlattenSeq(q) \in Seq(Messages)
    BY <2>3, FlattenCons, FlattenType
  <2> HIDE DEF d, q
  <2> DEFINE e == ParseEvents(d)  r == ParseEvents(FlattenSeq(q))
  <2>5. ParseEvents(FlattenSeq(queue)) = e \o r /\ e \in Seq(Events) /\ r \in Seq(Events)
    BY <2>3, <2>4, ParseConcat, ParseType
  <2> HIDE DEF e, r
  <2>6. Reverse(e) \in Seq(Events) /\ Reverse(Reverse(e)) = e
    BY <2>5, ReverseTwice
  <2>7. Taken = shown
    <3>1. Reverse(<<>>) = <<>> /\ shown \o <<>> = shown
      <4>1. <<>> \in Seq({})
        OBVIOUS
      <4> QED BY <2>2, <4>1 DEF Reverse
    <3> QED BY <2>2, <3>1 DEF Taken
  <2>8. Taken' = shown \o e
    BY <1>1, <2>1, <2>6 DEF Taken, e
  <2>9. (shown \o e) \o r = shown \o (e \o r)
    <3>1. \A a, b, c \in Seq(Events) : (a \o b) \o c = a \o (b \o c)
      BY ConcatAssociative
    <3> QED BY <2>2, <2>5, <3>1
  <2>10. overrun = FALSE => (shown \o e) \o r = ParseEvents(sent)
    BY <1>1, <2>5, <2>7, <2>9 DEF MonitorInv, Live
  <2>11. Live'
    BY <1>1, <2>1, <2>8, <2>10 DEF Live, r
  <2>12. Told'
    <3>1. overrun = FALSE
      BY <2>1 DEF MonitorInv, Typed
    <3>2. shown \o e \in Seq(Events)
      BY <2>2, <2>5, ConcatProperties
    <3>3. IsPrefix(shown \o e, (shown \o e) \o r)
      BY <2>5, <3>2, PrefixExtends
    <3>4. IsPrefix(shown \o e, ParseEvents(sent))
      BY <2>10, <3>1, <3>3
    <3> QED BY <1>1, <2>8, <3>4 DEF Told
  <2>13. Typed'
    BY <1>1, <2>1, <2>3, <2>6 DEF MonitorInv, Typed, e
  <2>14. Silent' /\ Flag'
    BY <1>1, <2>1 DEF MonitorInv, Silent, Flag
  <2> QED BY <2>11, <2>12, <2>13, <2>14 DEF MonitorInv
<1> QED BY <1>2, <1>3

(* The flag is looked at before and after the socket.                      *)
LEMMA LoopKeeps ==
    ASSUME MonitorInv, CheckShutdown \/ WouldBlock
    PROVE  MonitorInv'
<1>1. /\ mpc \in {"loop", "recv"} /\ mpc' \in {"loop", "recv", "ended"}
      /\ mpc' = "recv" => pending = <<>>
      /\ UNCHANGED <<pending, shown, queue, overrun, shutdown, sent, asked>>
  BY DEF CheckShutdown, WouldBlock, MStays
<1>2. mpc' = "ended" => shutdown = TRUE
  BY DEF CheckShutdown, WouldBlock, MonitorInv, Typed
<1>3. Typed' /\ Silent' /\ Told' /\ Live'
  BY <1>1 DEF MonitorInv, Typed, Silent, Told, Live, Taken
<1>4. Flag'
  BY <1>1, <1>2 DEF MonitorInv, Flag
<1> QED BY <1>3, <1>4 DEF MonitorInv

(* SIGINT sets the flag, and is on record once subscribed.                 *)
LEMMA SignalKeeps ==
    ASSUME MonitorInv, InstallHandler \/ RequestShutdown
    PROVE  MonitorInv'
<1>1. UNCHANGED <<pending, shown, queue, overrun, sent>>
  BY DEF InstallHandler, RequestShutdown
<1>2. CASE InstallHandler
  <2>1. mpc = "off" /\ mpc' = "ready" /\ UNCHANGED <<shutdown, asked>>
    BY <1>2 DEF InstallHandler
  <2> QED BY <1>1, <2>1 DEF MonitorInv, Typed, Silent, Told, Live, Flag, Taken
<1>3. CASE RequestShutdown
  <2>1. /\ mpc' = mpc /\ shutdown' = TRUE /\ asked' \in BOOLEAN
        /\ mpc \in {"loop", "recv", "ended"} => asked' = TRUE
    BY <1>3 DEF RequestShutdown
  <2>2. Typed'
    BY <1>1, <2>1 DEF MonitorInv, Typed
  <2>3. Silent' /\ Told' /\ Live' /\ Flag'
    BY <1>1, <2>1 DEF MonitorInv, Silent, Told, Live, Flag, Taken
  <2> QED BY <2>2, <2>3 DEF MonitorInv
<1> QED BY <1>2, <1>3

(* Every step keeps the monitor's invariant.                               *)
LEMMA MonitorHolds ==
    ASSUME MonitorInv, Requested, [Next]_vars
    PROVE  MonitorInv'
<1>1. ASSUME NEW o \in Objects, KernelAdd(o) \/ KernelRemove(o) PROVE MonitorInv'
  BY <1>1, KernelTells
<1>2. ASSUME NEW o \in Objects, NEW aborted \in BOOLEAN, ScanEnds(o, aborted)
      PROVE  MonitorInv'
  BY <1>2, KernelTells
<1>3. CASE UNCHANGED monitor
  BY <1>3, MonitorStays
<1>4. ASSUME NEW p, Start(p) PROVE MonitorInv'
  BY <1>3, <1>4 DEF Start
<1>5. ASSUME NEW c, Refuse(c) PROVE MonitorInv'
  BY <1>3, <1>5 DEF Refuse
<1>6. CASE Fails \/ SendDump \/ ResolveFamily \/ NoScanInterface \/ SendTrigger \/ RecvDump
  BY <1>3, <1>6 DEF Fails, SendDump, ResolveFamily, NoScanInterface, SendTrigger, RecvDump
<1>7. CASE Transact
  BY <1>7, TransactTells
<1>8. CASE InstallHandler \/ RequestShutdown
  BY <1>8, SignalKeeps
<1>9. ASSUME NEW s, OpenSource(s) PROVE MonitorInv'
  BY <1>9, OpenSourceKeeps
<1>10. CASE MonitorStep
  BY <1>10, ShowKeeps, RecvEventsKeeps, LoopKeeps DEF MonitorStep
<1>11. CASE UNCHANGED vars
  BY <1>3, <1>11 DEF vars
<1> QED BY <1>1, <1>2, <1>4, <1>5, <1>6, <1>7, <1>8, <1>9, <1>10, <1>11 DEF Next

(* The invariants hold at first.                                           *)
LEMMA MonitorStarts == Init => MonitorInv /\ Requested
<1> SUFFICES ASSUME Init PROVE MonitorInv /\ Requested
  OBVIOUS
<1>1. /\ mpc = "off" /\ pending = <<>> /\ shown = <<>> /\ queue = <<>>
      /\ sent = <<>> /\ overrun = FALSE /\ shutdown = FALSE /\ asked = FALSE
      /\ todo = <<>> /\ pc = "idle"
  BY DEF Init
<1>2. Typed /\ Silent /\ Live /\ Flag /\ Requested
  <2>1. /\ <<>> \in Seq(Seq(Messages)) /\ <<>> \in Seq(Messages)
        /\ <<>> \in Seq(Events) /\ <<>> \in Seq(Requests)
    OBVIOUS
  <2>2. Typed /\ Requested
    BY <1>1, <2>1 DEF Typed, Requested
  <2> QED BY <1>1, <2>2 DEF Silent, Live, Flag
<1>3. Told
  <2>1. <<>> \in Seq(Events) /\ <<>> \o <<>> = <<>>
    OBVIOUS
  <2>2. Reverse(<<>>) = <<>>
    <3>1. <<>> \in Seq({})
      OBVIOUS
    <3> QED BY <3>1 DEF Reverse
  <2>3. IsPrefix(<<>>, <<>>)
    BY <2>1, PrefixExtends
  <2> QED BY <1>1, <2>1, <2>2, <2>3, ParseEmpty DEF Told, Taken
<1> QED BY <1>2, <1>3 DEF MonitorInv

(* What the monitor shows is, without a gap, a prefix of what the kernel   *)
(* announced since it subscribed, nothing is lost before an overrun, and   *)
(* it ends only after SIGINT: for any buffer, any datagrams and any number *)
(* of changes (RtnetlinkEventSource::next_event, parse_network_events).    *)
THEOREM EventsAreInOrder == Spec => []EventsInOrder
<1>1. MonitorInv => EventsInOrder
  <2> SUFFICES ASSUME MonitorInv PROVE EventsInOrder
    OBVIOUS
  <2>1. /\ shown \in Seq(Events) /\ Reverse(pending) \in Seq(Events)
        /\ ParseEvents(sent) \in Seq(Events)
    BY ReverseTwice, ParseType DEF MonitorInv, Typed
  <2>2. IsPrefix(shown, ParseEvents(sent))
    BY <2>1, PrefixShrinks DEF MonitorInv, Told, Taken
  <2>3. overrun \in BOOLEAN /\ asked \in BOOLEAN
    BY DEF MonitorInv, Typed
  <2>4. mpc \in {"loop", "recv"} /\ ~overrun =>
            shown \o Reverse(pending) \o ParseEvents(FlattenSeq(queue))
                = ParseEvents(sent)
    BY <2>3 DEF MonitorInv, Live, Taken
  <2>5. mpc = "ended" => asked
    BY <2>3 DEF MonitorInv, Flag
  <2> QED BY <2>2, <2>4, <2>5 DEF EventsInOrder
<1>2. Requested /\ MonitorInv /\ [Next]_vars => Requested' /\ MonitorInv'
  BY RequestedHolds, MonitorHolds
<1> QED BY <1>1, <1>2, MonitorStarts, PTL DEF Spec

-----------------------------------------------------------------------------
(* A sequence with one element more, or less, at any place.                *)

Inserted(r, s, i, x) ==
    \A j \in 1 .. Len(s) + 1 :
        r[j] = IF j < i THEN s[j] ELSE IF j = i THEN x ELSE s[j - 1]

(* InsertAt, element by element.                                           *)
LEMMA InsertFacts ==
    ASSUME NEW X, NEW s \in Seq(X), NEW i \in 1 .. Len(s) + 1, NEW x \in X
    PROVE  /\ InsertAt(s, i, x) \in Seq(X) /\ Len(InsertAt(s, i, x)) = Len(s) + 1
           /\ Inserted(InsertAt(s, i, x), s, i, x)
<1> DEFINE n == Len(s)  a == SubSeq(s, 1, i - 1)  b == SubSeq(s, i, n)
<1>1. n \in Nat /\ i \in Nat /\ 1 <= i /\ i <= n + 1 /\ \A j \in 1 .. n : s[j] \in X
  OBVIOUS
<1> HIDE DEF n
<1>2. a \in Seq(X) /\ Len(a) = i - 1 /\ \A j \in 1 .. i - 1 : a[j] = s[j]
  <2>1. 1 \in Int /\ i - 1 \in Int /\ \A j \in 1 .. i - 1 : s[j] \in X
    BY <1>1
  <2>2. /\ a \in Seq(X) /\ Len(a) = IF 1 <= i - 1 THEN (i - 1) - 1 + 1 ELSE 0
        /\ \A j \in 1 .. (i - 1) - 1 + 1 : a[j] = s[1 + j - 1]
    BY <2>1, SubSeqProperties
  <2> HIDE DEF a
  <2>3. (i - 1) - 1 + 1 = i - 1 /\ \A j \in 1 .. i - 1 : 1 + j - 1 = j
    BY <1>1
  <2>4. \A j \in 1 .. i - 1 : a[j] = s[j]
    BY <2>2, <2>3
  <2> QED BY <1>1, <2>2, <2>4
<1>3. /\ b \in Seq(X) /\ Len(b) = (n - i) + 1
      /\ \A j \in 1 .. (n - i) + 1 : b[j] = s[(i + j) - 1]
  <2>1. i \in Int /\ n \in Int /\ \A j \in i .. n : s[j] \in X
    BY <1>1
  <2>2. /\ b \in Seq(X) /\ Len(b) = IF i <= n THEN n - i + 1 ELSE 0
        /\ \A j \in 1 .. n - i + 1 : b[j] = s[i + j - 1]
    BY <2>1, SubSeqProperties
  <2> HIDE DEF b
  <2> QED BY <1>1, <2>2
<1> HIDE DEF a, b
<1>4. <<x>> \in Seq(X) /\ Len(<<x>>) = 1 /\ <<x>>[1] = x
  OBVIOUS
<1> DEFINE c == a \o <<x>>
<1>5. /\ c \in Seq(X) /\ Len(c) = i
      /\ \A j \in 1 .. i : c[j] = IF j <= i - 1 THEN a[j] ELSE <<x>>[j - (i - 1)]
  BY <1>1, <1>2, <1>4, ConcatProperties
<1> HIDE DEF c
<1>6. /\ c \o b \in Seq(X) /\ Len(c \o b) = n + 1
      /\ \A j \in 1 .. n + 1 : (c \o b)[j] = IF j <= i THEN c[j] ELSE b[j - i]
  <2>1. /\ c \o b \in Seq(X) /\ Len(c \o b) = Len(c) + Len(b)
        /\ \A j \in 1 .. Len(c) + Len(b) :
              (c \o b)[j] = IF j <= Len(c) THEN c[j] ELSE b[j - Len(c)]
    BY <1>3, <1>5, ConcatProperties
  <2>2. Len(c) = i /\ Len(b) = (n - i) + 1 /\ i + ((n - i) + 1) = n + 1
    BY <1>1, <1>3, <1>5
  <2>3. Len(c) + Len(b) = n + 1
    BY <2>2
  <2> QED BY <2>1, <2>2, <2>3
<1>7. InsertAt(s, i, x) = c \o b
  BY DEF InsertAt, a, b, c, n
<1>8. ASSUME NEW j \in 1 .. n + 1
      PROVE  (c \o b)[j] = IF j < i THEN s[j] ELSE IF j = i THEN x ELSE s[j - 1]
  <2>1. CASE j < i
    <3>1. j \in 1 .. i /\ j \in 1 .. i - 1 /\ j <= i - 1 /\ j <= i
      BY <1>1, <2>1
    <3> QED BY <1>2, <1>5, <1>6, <2>1, <3>1
  <2>2. CASE j = i
    <3>1. j \in 1 .. i /\ ~(j <= i - 1) /\ j - (i - 1) = 1 /\ j <= i /\ ~(j < i)
      BY <1>1, <2>2
    <3> QED BY <1>4, <1>5, <1>6, <2>2, <3>1
  <2>3. CASE j > i
    <3>1. /\ j - i \in 1 .. (n - i) + 1 /\ (i + (j - i)) - 1 = j - 1
          /\ ~(j <= i) /\ ~(j < i) /\ j # i
      BY <1>1, <2>3
    <3>2. (c \o b)[j] = b[j - i] /\ b[j - i] = s[j - 1]
      BY <1>3, <1>6, <3>1
    <3> QED BY <3>1, <3>2
  <2>4. j < i \/ j = i \/ j > i
    BY <1>1
  <2> QED BY <2>1, <2>2, <2>3, <2>4
<1> QED BY <1>6, <1>7, <1>8 DEF n, Inserted

(* RemoveAt, element by element.                                           *)
LEMMA RemoveFacts ==
    ASSUME NEW X, NEW s \in Seq(X), NEW i \in 1 .. Len(s)
    PROVE  /\ RemoveAt(s, i) \in Seq(X) /\ Len(RemoveAt(s, i)) = Len(s) - 1
           /\ \A j \in 1 .. Len(s) - 1 :
                 RemoveAt(s, i)[j] = IF j < i THEN s[j] ELSE s[j + 1]
<1> DEFINE n == Len(s)  a == SubSeq(s, 1, i - 1)  b == SubSeq(s, i + 1, n)
<1>1. n \in Nat /\ i \in Nat /\ 1 <= i /\ i <= n /\ \A j \in 1 .. n : s[j] \in X
  OBVIOUS
<1> HIDE DEF n
<1>2. a \in Seq(X) /\ Len(a) = i - 1 /\ \A j \in 1 .. i - 1 : a[j] = s[j]
  <2>1. 1 \in Int /\ i - 1 \in Int /\ \A j \in 1 .. i - 1 : s[j] \in X
    BY <1>1
  <2>2. /\ a \in Seq(X) /\ Len(a) = IF 1 <= i - 1 THEN (i - 1) - 1 + 1 ELSE 0
        /\ \A j \in 1 .. (i - 1) - 1 + 1 : a[j] = s[1 + j - 1]
    BY <2>1, SubSeqProperties
  <2> HIDE DEF a
  <2>3. (i - 1) - 1 + 1 = i - 1 /\ \A j \in 1 .. i - 1 : 1 + j - 1 = j
    BY <1>1
  <2>4. \A j \in 1 .. i - 1 : a[j] = s[j]
    BY <2>2, <2>3
  <2> QED BY <1>1, <2>2, <2>4
<1>3. b \in Seq(X) /\ Len(b) = n - i /\ \A j \in 1 .. n - i : b[j] = s[i + j]
  <2>1. i + 1 \in Int /\ n \in Int /\ \A j \in i + 1 .. n : s[j] \in X
    BY <1>1
  <2>2. /\ b \in Seq(X) /\ Len(b) = IF i + 1 <= n THEN n - (i + 1) + 1 ELSE 0
        /\ \A j \in 1 .. n - (i + 1) + 1 : b[j] = s[(i + 1) + j - 1]
    BY <2>1, SubSeqProperties
  <2> HIDE DEF b
  <2>3. n - (i + 1) + 1 = n - i /\ \A j \in 1 .. n - i : (i + 1) + j - 1 = i + j
    BY <1>1
  <2>4. \A j \in 1 .. n - i : b[j] = s[i + j]
    BY <2>2, <2>3
  <2> QED BY <1>1, <2>2, <2>4
<1> HIDE DEF a, b
<1>4. /\ a \o b \in Seq(X) /\ Len(a \o b) = n - 1
      /\ \A j \in 1 .. n - 1 : (a \o b)[j] = IF j <= i - 1 THEN a[j] ELSE b[j - (i - 1)]
  BY <1>1, <1>2, <1>3, ConcatProperties
<1>5. ASSUME NEW j \in 1 .. n - 1
      PROVE  (a \o b)[j] = IF j < i THEN s[j] ELSE s[j + 1]
  <2>1. CASE j < i
    <3>1. j \in 1 .. i - 1 /\ j <= i - 1
      BY <1>1, <2>1
    <3> QED BY <1>2, <1>4, <2>1, <3>1
  <2>2. CASE ~(j < i)
    <3>1. j - (i - 1) \in 1 .. n - i /\ i + (j - (i - 1)) = j + 1 /\ ~(j <= i - 1)
      BY <1>1, <2>2
    <3>2. (a \o b)[j] = b[j - (i - 1)] /\ b[j - (i - 1)] = s[j + 1]
      BY <1>3, <1>4, <3>1
    <3> QED BY <2>2, <3>2
  <2> QED BY <2>1, <2>2
<1>6. RemoveAt(s, i) = a \o b
  BY DEF RemoveAt, a, b, n
<1> QED BY <1>4, <1>5, <1>6 DEF n

(* InsertAt adds one element, and repeats none if it is new.               *)
LEMMA InsertSet ==
    ASSUME NEW X, NEW s \in Seq(X), NEW i \in 1 .. Len(s) + 1, NEW x \in X
    PROVE  /\ ToSet(InsertAt(s, i, x)) = ToSet(s) \cup {x}
           /\ Distinct(s) /\ x \notin ToSet(s) => Distinct(InsertAt(s, i, x))
<1> DEFINE n == Len(s)  r == InsertAt(s, i, x)
<1>1. /\ n \in Nat /\ DOMAIN s = 1 .. n /\ DOMAIN r = 1 .. n + 1
      /\ \A j \in 1 .. n + 1 :
            r[j] = IF j < i THEN s[j] ELSE IF j = i THEN x ELSE s[j - 1]
  BY InsertFacts, LenProperties DEF Inserted
<1>2. i \in 1 .. n + 1
  OBVIOUS
<1> HIDE DEF n, r
<1>3. ASSUME NEW j \in 1 .. n + 1, j # i
      PROVE  \E h \in 1 .. n : r[j] = s[h] /\ h = IF j < i THEN j ELSE j - 1
  BY <1>1, <1>2, <1>3
<1>4. ASSUME NEW h \in 1 .. n
      PROVE  \E j \in 1 .. n + 1 : r[j] = s[h]
  <2>1. CASE h < i
    <3>1. h \in 1 .. n + 1 /\ r[h] = s[h]
      BY <1>1, <2>1
    <3> QED BY <3>1
  <2>2. CASE ~(h < i)
    <3>1. h + 1 \in 1 .. n + 1 /\ ~(h + 1 < i) /\ h + 1 # i /\ (h + 1) - 1 = h
      BY <1>1, <1>2, <2>2
    <3>2. r[h + 1] = s[h]
      BY <1>1, <3>1
    <3> QED BY <3>1, <3>2
  <2> QED BY <2>1, <2>2
<1>5. r[i] = x
  BY <1>1, <1>2
<1>6. ToSet(r) = ToSet(s) \cup {x}
  <2>1. ToSet(r) \subseteq ToSet(s) \cup {x}
    BY <1>1, <1>3, <1>5 DEF ToSet
  <2>2. ToSet(s) \cup {x} \subseteq ToSet(r)
    BY <1>1, <1>2, <1>4, <1>5 DEF ToSet
  <2> QED BY <2>1, <2>2
<1>7. ASSUME Distinct(s), x \notin ToSet(s) PROVE Distinct(r)
  <2> SUFFICES ASSUME NEW j \in 1 .. n + 1, NEW k \in 1 .. n + 1, r[j] = r[k], j < k
               PROVE  FALSE
    BY <1>1 DEF Distinct
  <2>1. \A h \in 1 .. n : s[h] # x
    BY <1>1, <1>7 DEF ToSet
  <2>2. j # i /\ k # i
    BY <1>2, <1>3, <1>5, <2>1
  <2>3. PICK a \in 1 .. n : r[j] = s[a] /\ a = IF j < i THEN j ELSE j - 1
    BY <1>3, <2>2
  <2>4. PICK b \in 1 .. n : r[k] = s[b] /\ b = IF k < i THEN k ELSE k - 1
    BY <1>3, <2>2
  <2>5. a = b
    BY <1>1, <1>7, <2>3, <2>4 DEF Distinct
  <2> QED BY <1>1, <1>2, <2>2, <2>3, <2>4, <2>5
<1> QED BY <1>6, <1>7 DEF r

(* RemoveAt takes one element out of those without a double.               *)
LEMMA RemoveSet ==
    ASSUME NEW X, NEW s \in Seq(X), NEW i \in 1 .. Len(s), Distinct(s)
    PROVE  /\ ToSet(RemoveAt(s, i)) = ToSet(s) \ {s[i]}
           /\ Distinct(RemoveAt(s, i))
<1> DEFINE n == Len(s)  r == RemoveAt(s, i)
<1>1. /\ n \in Nat /\ DOMAIN s = 1 .. n /\ DOMAIN r = 1 .. n - 1
      /\ \A j \in 1 .. n - 1 : r[j] = IF j < i THEN s[j] ELSE s[j + 1]
  BY RemoveFacts, LenProperties
<1>2. i \in 1 .. n
  OBVIOUS
<1> HIDE DEF n, r
<1>3. ASSUME NEW j \in 1 .. n - 1
      PROVE  \E h \in 1 .. n : r[j] = s[h] /\ h # i /\ h = IF j < i THEN j ELSE j + 1
  BY <1>1, <1>2
<1>4. ASSUME NEW h \in 1 .. n, h # i
      PROVE  \E j \in 1 .. n - 1 : r[j] = s[h]
  <2>1. CASE h < i
    <3>1. h \in 1 .. n - 1 /\ r[h] = s[h]
      BY <1>1, <1>2, <2>1
    <3> QED BY <3>1
  <2>2. CASE ~(h < i)
    <3>1. h - 1 \in 1 .. n - 1 /\ ~(h - 1 < i) /\ (h - 1) + 1 = h
      BY <1>1, <1>2, <1>4, <2>2
    <3>2. r[h - 1] = s[h]
      BY <1>1, <3>1
    <3> QED BY <3>1, <3>2
  <2> QED BY <2>1, <2>2
<1>5. ToSet(r) = ToSet(s) \ {s[i]}
  <2>1. ToSet(r) \subseteq ToSet(s) \ {s[i]}
    <3>1. ASSUME NEW j \in 1 .. n - 1
          PROVE  r[j] \in ToSet(s) /\ r[j] # s[i]
      <4>1. PICK h \in 1 .. n : r[j] = s[h] /\ h # i
        BY <1>3
      <4>2. h \in DOMAIN s /\ i \in DOMAIN s
        BY <1>1, <4>1
      <4>3. s[h] # s[i]
        BY <1>1, <4>1, <4>2 DEF Distinct
      <4> QED BY <4>1, <4>2, <4>3 DEF ToSet
    <3>2. ToSet(r) = { r[j] : j \in 1 .. n - 1 }
      BY <1>1 DEF ToSet
    <3> QED BY <3>1, <3>2
  <2>2. ToSet(s) \ {s[i]} \subseteq ToSet(r)
    <3>1. ASSUME NEW h \in 1 .. n, s[h] # s[i] PROVE \E j \in 1 .. n - 1 : r[j] = s[h]
      BY <1>4, <3>1
    <3>2. ToSet(s) = { s[h] : h \in 1 .. n } /\ ToSet(r) = { r[j] : j \in 1 .. n - 1 }
      BY <1>1 DEF ToSet
    <3> QED BY <3>1, <3>2
  <2> QED BY <2>1, <2>2
<1>6. Distinct(r)
  <2> SUFFICES ASSUME NEW j \in 1 .. n - 1, NEW k \in 1 .. n - 1, r[j] = r[k], j < k
               PROVE  FALSE
    BY <1>1 DEF Distinct
  <2>1. PICK a \in 1 .. n : r[j] = s[a] /\ a = IF j < i THEN j ELSE j + 1
    BY <1>3
  <2>2. PICK b \in 1 .. n : r[k] = s[b] /\ b = IF k < i THEN k ELSE k + 1
    BY <1>3
  <2>3. a = b
    BY <1>1, <2>1, <2>2 DEF Distinct
  <2> QED BY <1>1, <1>2, <2>1, <2>2, <2>3
<1> QED BY <1>5, <1>6 DEF r

-----------------------------------------------------------------------------
(* Sequences in the order of keys.                                         *)

Rising(s) == \A i, j \in DOMAIN s : i < j => s[i].key <= s[j].key
Strict(s) == \A i, j \in DOMAIN s : i < j => s[i].key < s[j].key

(* Elements of tables have keys.                                           *)
LEMMA Keys ==
    \A s \in Seq(Objects) : \A i \in DOMAIN s : s[i] \in Objects /\ s[i].key \in Nat
BY NetlinkAssumption

(* Rising keys make the elements differ.                                   *)
LEMMA StrictIs ==
    ASSUME NEW s \in Seq(Objects), Strict(s)
    PROVE  Rising(s) /\ Distinct(s)
<1>1. DOMAIN s = 1 .. Len(s) /\ Len(s) \in Nat /\ \A i \in 1 .. Len(s) : s[i].key \in Nat
  BY Keys, LenProperties
<1>2. Rising(s)
  BY <1>1 DEF Strict, Rising
<1>3. ASSUME NEW i \in 1 .. Len(s), NEW j \in 1 .. Len(s), s[i] = s[j], i # j
      PROVE  FALSE
  <2>1. i < j \/ j < i
    BY <1>1, <1>3
  <2>2. s[i].key < s[j].key \/ s[j].key < s[i].key
    BY <1>1, <2>1 DEF Strict
  <2> QED BY <1>1, <1>3, <2>2
<1> QED BY <1>1, <1>2, <1>3 DEF Distinct

(* At most all of them come up to a key.                                   *)
LEMMA UptoType ==
    ASSUME NEW s \in Seq(Objects), NEW key \in Nat
    PROVE  Upto(s, key) \in 0 .. Len(s)
<1> DEFINE P == { i \in 1 .. Len(s) : s[i].key <= key }
<1>1. DOMAIN s = 1 .. Len(s) /\ Len(s) \in Nat
  BY LenProperties
<1>2. /\ IsFiniteSet(1 .. Len(s))
      /\ Cardinality(1 .. Len(s)) = IF 1 > Len(s) THEN 0 ELSE Len(s) - 1 + 1
  BY <1>1, FS_Interval
<1>3. P \in SUBSET (1 .. Len(s))
  OBVIOUS
<1>4. Upto(s, key) = Cardinality(P)
  BY <1>1 DEF Upto
<1> HIDE DEF P
<1>5. IsFiniteSet(P) /\ Cardinality(P) <= Cardinality(1 .. Len(s))
  BY <1>2, <1>3, FS_Subset
<1>6. Cardinality(P) \in Nat
  BY <1>5, FS_CardinalityType
<1> QED BY <1>1, <1>2, <1>4, <1>5, <1>6

(* In a rising sequence Upto is the place of the last of them.             *)
LEMMA UptoPlace ==
    ASSUME NEW s \in Seq(Objects), Rising(s), NEW key \in Nat
    PROVE  \A i \in DOMAIN s : s[i].key <= key <=> i <= Upto(s, key)
<1> DEFINE n == Len(s)
           Cut(m, c) == \A i \in 1 .. m : s[i].key <= key <=> i <= c
           S == { m \in Nat : m <= n => \E c \in 0 .. m : Cut(m, c) }
<1>1. DOMAIN s = 1 .. n /\ n \in Nat /\ \A i \in 1 .. n : s[i].key \in Nat
  BY Keys, LenProperties
<1> HIDE DEF n
<1>2. 0 \in S
  <2>1. 0 \in 0 .. 0 /\ Cut(0, 0)
    OBVIOUS
  <2> QED BY <2>1
<1>3. ASSUME NEW m \in Nat, m \in S PROVE m + 1 \in S
  <2> SUFFICES ASSUME m + 1 <= n PROVE \E c \in 0 .. m + 1 : Cut(m + 1, c)
    OBVIOUS
  <2>1. m + 1 \in 1 .. n /\ m <= n
    BY <1>1
  <2>2. PICK c \in 0 .. m : Cut(m, c)
    BY <1>3, <2>1
  <2>3. CASE s[m + 1].key <= key
    <3>1. ASSUME NEW i \in 1 .. m + 1 PROVE s[i].key <= key
      <4>1. i \in 1 .. n /\ (i < m + 1 \/ i = m + 1)
        BY <1>1, <2>1
      <4>2. s[i].key <= s[m + 1].key
        BY <1>1, <2>1, <4>1 DEF Rising
      <4> QED BY <1>1, <2>1, <2>3, <4>1, <4>2
    <3>2. m + 1 \in 0 .. m + 1 /\ Cut(m + 1, m + 1)
      BY <3>1
    <3> QED BY <3>2
  <2>4. CASE ~(s[m + 1].key <= key)
    <3>1. ASSUME NEW i \in 1 .. m + 1 PROVE s[i].key <= key <=> i <= c
      <4>1. CASE i = m + 1
        BY <2>4, <4>1
      <4>2. CASE i # m + 1
        <5>1. i \in 1 .. m
          BY <4>2
        <5> QED BY <2>2, <5>1
      <4> QED BY <4>1, <4>2
    <3>2. c \in 0 .. m + 1 /\ Cut(m + 1, c)
      BY <3>1
    <3> QED BY <3>2
  <2> QED BY <2>3, <2>4
<1> HIDE DEF S
<1>4. n \in S
  BY <1>1, <1>2, <1>3, Induction
<1>5. PICK c \in 0 .. n : Cut(n, c)
  BY <1>1, <1>4 DEF S
<1>6. { i \in DOMAIN s : s[i].key <= key } = 1 .. c
  BY <1>1, <1>5
<1>7. Cardinality(1 .. c) = c
  <2>1. 1 \in Int /\ c \in Int /\ c \in Nat
    BY <1>1
  <2>2. Cardinality(1 .. c) = IF 1 > c THEN 0 ELSE c - 1 + 1
    BY <2>1, FS_Interval
  <2> QED BY <2>1, <2>2
<1>8. Upto(s, key) = c
  BY <1>6, <1>7 DEF Upto
<1> QED BY <1>1, <1>5, <1>8

(* Putting an element behind those up to its key keeps the order.          *)
LEMMA InsertRises ==
    ASSUME NEW s \in Seq(Objects), NEW o \in Objects, Rising(s)
    PROVE  LET r == InsertAt(s, Upto(s, o.key) + 1, o)
           IN  /\ Rising(r)
               /\ Strict(s) /\ (\A x \in ToSet(s) : x.key # o.key) => Strict(r)
<1> DEFINE n == Len(s)  u == Upto(s, o.key)  r == InsertAt(s, u + 1, o)
<1>1. /\ DOMAIN s = 1 .. n /\ n \in Nat /\ o.key \in Nat
      /\ \A i \in 1 .. n : s[i].key \in Nat
  BY Keys, LenProperties, NetlinkAssumption
<1>2. u \in 0 .. n
  BY <1>1, UptoType
<1>3. \A i \in 1 .. n : s[i].key <= o.key <=> i <= u
  BY <1>1, UptoPlace
<1>4. u + 1 \in 1 .. n + 1
  BY <1>1, <1>2
<1>5. /\ DOMAIN r = 1 .. n + 1
      /\ \A j \in 1 .. n + 1 :
            r[j] = IF j < u + 1 THEN s[j] ELSE IF j = u + 1 THEN o ELSE s[j - 1]
  <2> HIDE DEF u
  <2>1. /\ r \in Seq(Objects) /\ Len(r) = n + 1
        /\ \A j \in 1 .. n + 1 :
              r[j] = IF j < u + 1 THEN s[j] ELSE IF j = u + 1 THEN o ELSE s[j - 1]
    <3> DEFINE v == u + 1
    <3>1. v \in 1 .. Len(s) + 1
      BY <1>4
    <3> HIDE DEF v
    <3>2. InsertAt(s, v, o) \in Seq(Objects) /\ Len(InsertAt(s, v, o)) = Len(s) + 1
      BY <3>1, InsertFacts
    <3>3. Inserted(InsertAt(s, v, o), s, v, o)
      BY <3>1, InsertFacts
    <3> QED BY <3>2, <3>3 DEF v, Inserted
  <2> HIDE DEF n, r
  <2> QED BY <2>1, LenProperties
<1> HIDE DEF n, u, r
<1>6. ASSUME NEW i \in 1 .. n + 1, NEW j \in 1 .. n + 1, i < j
      PROVE  \/ \E a, b \in 1 .. n : a < b /\ r[i] = s[a] /\ r[j] = s[b]
             \/ \E a \in 1 .. n : r[i] = s[a] /\ r[j] = o /\ s[a].key <= o.key
             \/ \E b \in 1 .. n : r[i] = o /\ r[j] = s[b] /\ ~(s[b].key <= o.key)
  <2>1. CASE i < u + 1 /\ j < u + 1
    BY <1>1, <1>2, <1>5, <1>6, <2>1
  <2>2. CASE i < u + 1 /\ j = u + 1
    <3>1. i \in 1 .. n /\ i <= u /\ ~(j < u + 1)
      BY <1>1, <1>2, <2>2
    <3> QED BY <1>3, <1>5, <2>2, <3>1
  <2>3. CASE i < u + 1 /\ j > u + 1
    <3>1. /\ i \in 1 .. n /\ j - 1 \in 1 .. n /\ i < j - 1 /\ ~(j < u + 1)
          /\ j # u + 1
      BY <1>1, <1>2, <2>3
    <3> QED BY <1>5, <2>3, <3>1
  <2>4. CASE i = u + 1
    <3>1. /\ j - 1 \in 1 .. n /\ ~(j < u + 1) /\ j # u + 1 /\ ~(i < u + 1)
          /\ ~(j - 1 <= u)
      BY <1>1, <1>2, <1>6, <2>4
    <3>2. r[j] = s[j - 1] /\ r[i] = o /\ ~(s[j - 1].key <= o.key)
      BY <1>3, <1>5, <2>4, <3>1
    <3> QED BY <3>1, <3>2
  <2>5. CASE i > u + 1
    <3>1. /\ i - 1 \in 1 .. n /\ j - 1 \in 1 .. n /\ i - 1 < j - 1
          /\ ~(j < u + 1) /\ j # u + 1 /\ ~(i < u + 1) /\ i # u + 1
      BY <1>1, <1>2, <1>6, <2>5
    <3> QED BY <1>5, <3>1
  <2>6. \/ i < u + 1 /\ j < u + 1
        \/ i < u + 1 /\ j = u + 1
        \/ i < u + 1 /\ j > u + 1
        \/ i = u + 1
        \/ i > u + 1
    BY <1>1, <1>2
  <2> QED BY <2>1, <2>2, <2>3, <2>4, <2>5, <2>6
<1>7. Rising(r)
  <2> SUFFICES ASSUME NEW i \in 1 .. n + 1, NEW j \in 1 .. n + 1, i < j
               PROVE  r[i].key <= r[j].key
    BY <1>5 DEF Rising
  <2>1. CASE \E a, b \in 1 .. n : a < b /\ r[i] = s[a] /\ r[j] = s[b]
    BY <1>1, <2>1 DEF Rising
  <2>2. CASE \E a \in 1 .. n : r[i] = s[a] /\ r[j] = o /\ s[a].key <= o.key
    BY <2>2
  <2>3. CASE \E b \in 1 .. n : r[i] = o /\ r[j] = s[b] /\ ~(s[b].key <= o.key)
    <3>1. PICK b \in 1 .. n : r[i] = o /\ r[j] = s[b] /\ ~(s[b].key <= o.key)
      BY <2>3
    <3>2. o.key <= s[b].key
      BY <1>1, <3>1
    <3> QED BY <3>1, <3>2
  <2> QED BY <1>6, <2>1, <2>2, <2>3
<1>8. ASSUME Strict(s), \A x \in ToSet(s) : x.key # o.key PROVE Strict(r)
  <2>0. \A a \in 1 .. n : s[a].key # o.key
    BY <1>1, <1>8 DEF ToSet
  <2> SUFFICES ASSUME NEW i \in 1 .. n + 1, NEW j \in 1 .. n + 1, i < j
               PROVE  r[i].key < r[j].key
    BY <1>5 DEF Strict
  <2>1. CASE \E a, b \in 1 .. n : a < b /\ r[i] = s[a] /\ r[j] = s[b]
    BY <1>1, <1>8, <2>1 DEF Strict
  <2>2. CASE \E a \in 1 .. n : r[i] = s[a] /\ r[j] = o /\ s[a].key <= o.key
    <3>1. PICK a \in 1 .. n : r[i] = s[a] /\ r[j] = o /\ s[a].key <= o.key
      BY <2>2
    <3>2. s[a].key < o.key
      BY <1>1, <2>0, <3>1
    <3> QED BY <3>1, <3>2
  <2>3. CASE \E b \in 1 .. n : r[i] = o /\ r[j] = s[b] /\ ~(s[b].key <= o.key)
    <3>1. PICK b \in 1 .. n : r[i] = o /\ r[j] = s[b] /\ ~(s[b].key <= o.key)
      BY <2>3
    <3>2. o.key < s[b].key
      BY <1>1, <3>1
    <3> QED BY <3>1, <3>2
  <2> QED BY <1>6, <2>1, <2>2, <2>3
<1> QED BY <1>7, <1>8 DEF r, u

(* Taking one out keeps the order.                                         *)
LEMMA RemoveRises ==
    ASSUME NEW s \in Seq(Objects), NEW i \in DOMAIN s, Strict(s)
    PROVE  Strict(RemoveAt(s, i))
<1> DEFINE n == Len(s)  r == RemoveAt(s, i)
<1>1. n \in Nat /\ DOMAIN s = 1 .. n /\ i \in 1 .. n
  BY LenProperties
<1>2. /\ DOMAIN r = 1 .. n - 1
      /\ \A j \in 1 .. n - 1 : r[j] = IF j < i THEN s[j] ELSE s[j + 1]
  BY <1>1, RemoveFacts, LenProperties
<1> HIDE DEF n, r
<1> SUFFICES ASSUME NEW j \in 1 .. n - 1, NEW k \in 1 .. n - 1, j < k
             PROVE  r[j].key < r[k].key
  BY <1>2 DEF Strict, r
<1>3. PICK a \in 1 .. n : r[j] = s[a] /\ a = IF j < i THEN j ELSE j + 1
  BY <1>1, <1>2
<1>4. PICK b \in 1 .. n : r[k] = s[b] /\ b = IF k < i THEN k ELSE k + 1
  BY <1>1, <1>2
<1>5. a < b
  BY <1>1, <1>3, <1>4
<1> QED BY <1>1, <1>3, <1>4, <1>5 DEF Strict

(* sort_by_key, one element after the other.                               *)
Place(s, o) == InsertAt(s, Upto(s, o.key) + 1, o)

(* One element put in its place by key.                                    *)
LEMMA PlaceType ==
    ASSUME NEW s \in Seq(Objects), NEW o \in Objects
    PROVE  /\ Place(s, o) \in Seq(Objects) /\ Len(Place(s, o)) = Len(s) + 1
           /\ ToSet(Place(s, o)) = ToSet(s) \cup {o}
           /\ Distinct(s) /\ o \notin ToSet(s) => Distinct(Place(s, o))
           /\ Rising(s) => Rising(Place(s, o))
<1> DEFINE u == Upto(s, o.key)
<1>1. o.key \in Nat /\ Len(s) \in Nat
  BY NetlinkAssumption
<1>2. u \in 0 .. Len(s)
  BY <1>1, UptoType
<1>3. u + 1 \in 1 .. Len(s) + 1
  BY <1>1, <1>2
<1>4. Place(s, o) = InsertAt(s, u + 1, o)
  BY DEF Place
<1>5. Rising(s) => Rising(Place(s, o))
  BY InsertRises DEF Place
<1> HIDE DEF u
<1> QED BY <1>3, <1>4, <1>5, InsertFacts, InsertSet

Sorts(f, s) ==
    /\ f \in [0 .. Len(s) -> Seq(Objects)]
    /\ f[0] = <<>> /\ f[Len(s)] = ByKey(s)
    /\ \A i \in 1 .. Len(s) : f[i] = Place(f[i - 1], s[i])

(* The sequence sorted so far, after each element.                         *)
LEMMA ByKeySteps ==
    ASSUME NEW s \in Seq(Objects)
    PROVE  \E f : Sorts(f, s)
<1> DEFINE n == Len(s)
           Def(f) == [i \in 0 .. n |-> IF i = 0 THEN <<>> ELSE Place(f[i - 1], s[i])]
           g == CHOOSE f : f = Def(f)
           step == [p \in Seq(Objects) \X (1 .. n) |-> Place(p[1], s[p[2]])]
<1>1. n \in Nat /\ \A i \in 1 .. n : s[i] \in Objects
  OBVIOUS
<1>2. step \in [Seq(Objects) \X (1 .. n) -> Seq(Objects)]
  <2>1. ASSUME NEW x \in Seq(Objects), NEW i \in 1 .. n PROVE Place(x, s[i]) \in Seq(Objects)
    <3>1. s[i] \in Objects
      BY <1>1
    <3> QED BY <3>1, PlaceType
  <2> HIDE DEF n
  <2> QED BY <2>1
<1>3. \A x \in Seq(Objects), i \in 1 .. n : step[<<x, i>>] = Place(x, s[i])
  OBVIOUS
<1>4. <<>> \in Seq(Objects)
  OBVIOUS
<1> HIDE DEF n, step
<1>5. PICK f : Unfolds(f, Seq(Objects), <<>>, n, step)
  BY <1>1, <1>2, <1>4, Recursion
<1>6. f = Def(f)
  <2>1. ASSUME NEW i \in 0 .. n PROVE f[i] = Def(f)[i]
    <3>1. CASE i = 0
      BY <1>5, <3>1 DEF Unfolds
    <3>2. CASE i # 0
      <4>1. i \in 1 .. n /\ i - 1 \in 0 .. n /\ f[i - 1] \in Seq(Objects)
        BY <1>1, <1>5, <3>2 DEF Unfolds
      <4>2. f[i] = Place(f[i - 1], s[i])
        BY <1>3, <1>5, <4>1 DEF Unfolds
      <4> QED BY <3>2, <4>2
    <3> QED BY <3>1, <3>2
  <2> QED BY <1>5, <2>1 DEF Unfolds
<1>7. g = Def(g)
  BY <1>6
<1> HIDE DEF g
<1>8. g[0] = <<>> /\ \A i \in 1 .. n : g[i] = Place(g[i - 1], s[i])
  <2>1. \A i \in 0 .. n : g[i] = Def(g)[i]
    BY <1>7
  <2>2. \A i \in 0 .. n : g[i] = IF i = 0 THEN <<>> ELSE Place(g[i - 1], s[i])
    BY <2>1
  <2> HIDE DEF Def
  <2>3. 0 \in 0 .. n /\ \A i \in 1 .. n : i \in 0 .. n /\ i # 0
    BY <1>1
  <2> QED BY <2>2, <2>3
<1>9. ByKey(s) = g[n]
  BY DEF ByKey, Place, g, n
<1>10. g \in [0 .. n -> Seq(Objects)]
  <2> DEFINE T == {i \in Nat : i <= n => g[i] \in Seq(Objects)}
  <2>1. 0 \in T
    BY <1>4, <1>8
  <2>2. ASSUME NEW i \in Nat, i \in T PROVE i + 1 \in T
    <3> SUFFICES ASSUME i + 1 <= n PROVE g[i + 1] \in Seq(Objects)
      OBVIOUS
    <3>1. /\ i + 1 \in 1 .. n /\ (i + 1) - 1 = i /\ g[i] \in Seq(Objects)
          /\ s[i + 1] \in Objects
      BY <1>1, <2>2
    <3>2. g[i + 1] = Place(g[i], s[i + 1])
      BY <1>8, <3>1
    <3> QED BY <3>1, <3>2, PlaceType
  <2> HIDE DEF T
  <2>3. Nat \subseteq T
    BY <2>1, <2>2, Induction
  <2>4. \A i \in 0 .. n : g[i] \in Seq(Objects)
    BY <1>1, <2>3 DEF T
  <2> QED BY <1>7, <2>4
<1> QED BY <1>8, <1>9, <1>10 DEF n, Sorts

(* Sorting nothing.                                                        *)
LEMMA ByKeyEmpty == ByKey(<<>>) = <<>>
<1>1. <<>> \in Seq(Objects) /\ Len(<<>>) = 0
  OBVIOUS
<1>2. PICK f : Sorts(f, <<>>)
  BY <1>1, ByKeySteps
<1> QED BY <1>1, <1>2 DEF Sorts

(* Sorting one element more puts it in its place.                          *)
LEMMA ByKeyAppend ==
    ASSUME NEW s \in Seq(Objects), NEW x \in Objects
    PROVE  ByKey(Append(s, x)) = Place(ByKey(s), x)
<1> DEFINE t == Append(s, x)
           n == Len(s)
<1>1. /\ t \in Seq(Objects) /\ Len(t) = n + 1 /\ n \in Nat
      /\ t[n + 1] = x /\ \A i \in 1 .. n : t[i] = s[i]
  BY AppendFacts
<1> HIDE DEF t, n
<1>2. PICK f : /\ f[0] = <<>> /\ f[n] = ByKey(s)
               /\ \A i \in 1 .. n : f[i] = Place(f[i - 1], s[i])
  <2>1. PICK f : Sorts(f, s)
    BY ByKeySteps
  <2> QED BY <2>1 DEF Sorts, n
<1>3. PICK g : /\ g[0] = <<>> /\ g[n + 1] = ByKey(t)
               /\ \A i \in 1 .. n + 1 : g[i] = Place(g[i - 1], t[i])
  <2>1. PICK g : Sorts(g, t)
    BY <1>1, ByKeySteps
  <2> QED BY <1>1, <2>1 DEF Sorts
<1>4. f[n] = g[n]
  <2> DEFINE T == {i \in Nat : i <= n => f[i] = g[i]}
  <2>1. 0 \in T
    BY <1>2, <1>3
  <2>2. ASSUME NEW i \in Nat, i \in T PROVE i + 1 \in T
    <3> SUFFICES ASSUME i + 1 <= n PROVE f[i + 1] = g[i + 1]
      OBVIOUS
    <3>0. f[i] = g[i]
      BY <1>1, <2>2
    <3>1. i + 1 \in 1 .. n /\ i + 1 \in 1 .. n + 1 /\ (i + 1) - 1 = i
      BY <1>1
    <3>2. f[i + 1] = Place(f[i], s[i + 1]) /\ g[i + 1] = Place(g[i], t[i + 1])
      BY <1>2, <1>3, <3>1
    <3> QED BY <1>1, <3>0, <3>1, <3>2
  <2> HIDE DEF T
  <2>3. Nat \subseteq T
    BY <2>1, <2>2, Induction
  <2> QED BY <1>1, <2>3 DEF T
<1>5. n + 1 \in 1 .. n + 1 /\ (n + 1) - 1 = n
  BY <1>1
<1>6. g[n + 1] = Place(g[n], x)
  BY <1>1, <1>3, <1>5
<1> QED BY <1>2, <1>3, <1>4, <1>6 DEF t

(* It returns the same elements, as many times, in the order of keys.      *)
LEMMA ByKeySorts ==
    ASSUME NEW s \in Seq(Objects)
    PROVE  /\ ByKey(s) \in Seq(Objects) /\ Len(ByKey(s)) = Len(s)
           /\ ToSet(ByKey(s)) = ToSet(s)
           /\ Rising(ByKey(s))
           /\ Distinct(s) => Distinct(ByKey(s))
<1> DEFINE Good(u) == /\ ByKey(u) \in Seq(Objects) /\ Len(ByKey(u)) = Len(u)
                      /\ ToSet(ByKey(u)) = ToSet(u) /\ Rising(ByKey(u))
                      /\ Distinct(u) => Distinct(ByKey(u))
           G == { u \in Seq(Objects) : Good(u) }
<1>1. <<>> \in G
  <2>1. <<>> \in Seq(Objects) /\ DOMAIN <<>> = {}
    OBVIOUS
  <2> QED BY <2>1, ByKeyEmpty DEF Rising, Distinct
<1>2. ASSUME NEW u \in Seq(Objects), NEW x \in Objects, u \in G
      PROVE  Append(u, x) \in G
  <2>1. Good(u) /\ ByKey(Append(u, x)) = Place(ByKey(u), x)
    BY <1>2, ByKeyAppend
  <2>2. /\ Append(u, x) \in Seq(Objects) /\ Len(Append(u, x)) = Len(u) + 1
        /\ ToSet(Append(u, x)) = ToSet(u) \cup {x}
    BY AppendFacts, AppendRange
  <2>3. Distinct(Append(u, x)) <=> Distinct(u) /\ x \notin ToSet(u)
    BY AppendDistinct
  <2>4. /\ Place(ByKey(u), x) \in Seq(Objects)
        /\ Len(Place(ByKey(u), x)) = Len(ByKey(u)) + 1
        /\ ToSet(Place(ByKey(u), x)) = ToSet(ByKey(u)) \cup {x}
        /\ Distinct(ByKey(u)) /\ x \notin ToSet(ByKey(u)) => Distinct(Place(ByKey(u), x))
        /\ Rising(ByKey(u)) => Rising(Place(ByKey(u), x))
    BY <2>1, PlaceType
  <2>5. Good(Append(u, x))
    BY <2>1, <2>2, <2>3, <2>4
  <2> QED BY <2>2, <2>5
<1> HIDE DEF G
<1>3. s \in G
  BY <1>1, <1>2, SequenceInduction
<1> QED BY <1>3 DEF G

-----------------------------------------------------------------------------
(* The kernel's tables: no entry twice, and those that are walked by key   *)
(* in the order of their keys.                                             *)

InTable(s, k) == s \in Seq(Objects) /\ Distinct(s) /\ (k \in Keyed => Strict(s))

Tables == DOMAIN tab = Kinds /\ \A k \in Kinds : InTable(tab[k], k)

(* Every object belongs to a table.                                        *)
LEMMA ObjectKind == \A o \in Objects : o.kind \in Kinds /\ o.key \in Nat
BY NetlinkAssumption

(* The kernel adds an entry that is not there.                             *)
LEMMA InsertKeeps ==
    ASSUME Tables, NEW o \in Objects, Free(o), Insert(o)
    PROVE  /\ Tables'
           /\ Present(o.kind)' = Present(o.kind) \cup {o}
           /\ \A k \in Kinds \ {o.kind} : tab'[k] = tab[k]
<1> DEFINE s == tab[o.kind]
<1>1. o.kind \in Kinds /\ o.key \in Nat /\ InTable(s, o.kind)
  BY ObjectKind DEF Tables
<1>2. PICK i \in 1 .. Len(s) + 1 :
          /\ o.kind \in Keyed => i = Upto(s, o.key) + 1
          /\ tab' = [tab EXCEPT ![o.kind] = InsertAt(s, i, o)]
  BY DEF Insert
<1> DEFINE r == InsertAt(s, i, o)
<1>3. \A k \in Kinds \ {o.kind} : tab'[k] = tab[k]
  BY <1>2
<1>4. tab'[o.kind] = r /\ DOMAIN tab' = Kinds
  BY <1>1, <1>2 DEF Tables
<1>5. o \notin ToSet(s) /\ (o.kind \in Keyed => \A x \in ToSet(s) : x.key # o.key)
  BY DEF Free, Present
<1>6. /\ r \in Seq(Objects) /\ ToSet(r) = ToSet(s) \cup {o} /\ Distinct(r)
  <2>1. s \in Seq(Objects) /\ Distinct(s)
    BY <1>1 DEF InTable
  <2> HIDE DEF s
  <2> QED BY <1>5, <2>1, InsertFacts, InsertSet
<1>7. ASSUME o.kind \in Keyed PROVE Strict(r)
  <2>1. s \in Seq(Objects) /\ Strict(s) /\ i = Upto(s, o.key) + 1
    BY <1>1, <1>2, <1>7 DEF InTable
  <2>2. Rising(s) /\ \A x \in ToSet(s) : x.key # o.key
    BY <1>5, <1>7, <2>1, StrictIs
  <2> HIDE DEF s
  <2> QED BY <2>1, <2>2, InsertRises
<1> HIDE DEF r
<1>8. InTable(r, o.kind)
  BY <1>6, <1>7 DEF InTable
<1>9. Tables'
  BY <1>3, <1>4, <1>8 DEF Tables
<1> QED BY <1>3, <1>4, <1>6, <1>9 DEF Present

(* The kernel removes an entry.                                            *)
LEMMA DeleteKeeps ==
    ASSUME Tables, NEW o \in Objects, Delete(o)
    PROVE  /\ Tables'
           /\ Present(o.kind)' = Present(o.kind) \ {o}
           /\ \A k \in Kinds \ {o.kind} : tab'[k] = tab[k]
<1> DEFINE s == tab[o.kind]
<1>1. o.kind \in Kinds /\ InTable(s, o.kind)
  BY ObjectKind DEF Tables
<1>2. PICK i \in DOMAIN s : s[i] = o /\ tab' = [tab EXCEPT ![o.kind] = RemoveAt(s, i)]
  BY DEF Delete
<1> DEFINE r == RemoveAt(s, i)
<1>3. \A k \in Kinds \ {o.kind} : tab'[k] = tab[k]
  BY <1>2
<1>4. tab'[o.kind] = r /\ DOMAIN tab' = Kinds
  BY <1>1, <1>2 DEF Tables
<1>5. s \in Seq(Objects) /\ Distinct(s) /\ i \in 1 .. Len(s)
  BY <1>1, LenProperties DEF InTable
<1>6. /\ r \in Seq(Objects) /\ ToSet(r) = ToSet(s) \ {o} /\ Distinct(r)
  <2> HIDE DEF s
  <2> QED BY <1>2, <1>5, RemoveFacts, RemoveSet
<1>7. ASSUME o.kind \in Keyed PROVE Strict(r)
  <2>1. Strict(s)
    BY <1>1, <1>7 DEF InTable
  <2> HIDE DEF s
  <2> QED BY <1>5, <2>1, RemoveRises
<1> HIDE DEF r
<1>8. InTable(r, o.kind)
  BY <1>6, <1>7 DEF InTable
<1>9. Tables'
  BY <1>3, <1>4, <1>8 DEF Tables
<1> QED BY <1>3, <1>4, <1>6, <1>9 DEF Present

(* RTM_NEWROUTE puts the new route where the old one to the same           *)
(* destination was.                                                        *)
LEMMA ReplaceKeeps ==
    ASSUME Tables, NEW o \in Objects, o.kind \in Keyed,
           NEW i \in DOMAIN tab[o.kind], tab[o.kind][i].key = o.key,
           tab' = [tab EXCEPT ![o.kind][i] = o]
    PROVE  Tables'
<1> DEFINE s == tab[o.kind]  r == [s EXCEPT ![i] = o]
<1>1. o.kind \in Kinds /\ InTable(s, o.kind)
  BY ObjectKind DEF Tables
<1>2. /\ DOMAIN tab' = Kinds /\ tab'[o.kind] = r
      /\ \A k \in Kinds \ {o.kind} : tab'[k] = tab[k]
  BY <1>1 DEF Tables
<1>3. s \in Seq(Objects) /\ Strict(s) /\ i \in 1 .. Len(s) /\ DOMAIN s = 1 .. Len(s)
      /\ s[i].key = o.key
  BY <1>1, LenProperties DEF InTable
<1> HIDE DEF s
<1>4. /\ r \in Seq(Objects) /\ DOMAIN r = 1 .. Len(s)
      /\ \A j \in 1 .. Len(s) : r[j] = IF j = i THEN o ELSE s[j]
  BY <1>3, ExceptSeq, LenProperties
<1> HIDE DEF r
<1>5. \A j \in 1 .. Len(s) : r[j].key = s[j].key
  BY <1>3, <1>4
<1>6. Strict(r)
  BY <1>3, <1>4, <1>5 DEF Strict
<1>7. InTable(r, o.kind)
  BY <1>4, <1>6, StrictIs DEF InTable
<1> QED BY <1>2, <1>7 DEF Tables

(* The tables at first.                                                    *)
LEMMA SetToSeqFacts ==
    ASSUME NEW X, NEW S \in SUBSET X, IsFiniteSet(S)
    PROVE  SetToSeq(S) \in Seq(X) /\ Distinct(SetToSeq(S)) /\ ToSet(SetToSeq(S)) \subseteq S
<1> DEFINE n == Cardinality(S)
<1>1. n \in Nat /\ ExistsBijection(1 .. n, S)
  BY FS_CardinalityType
<1> HIDE DEF n
<1>2. \E f \in [1 .. n -> S] : IsInjective(f)
  BY <1>1 DEF ExistsBijection, Bijection, Injection
<1>3. SetToSeq(S) \in [1 .. n -> S] /\ IsInjective(SetToSeq(S))
  BY <1>2 DEF SetToSeq, n
<1> DEFINE q == SetToSeq(S)
<1> HIDE DEF q
<1>4. q \in [1 .. n -> S] /\ IsInjective(q)
  BY <1>3 DEF q
<1>5. q \in Seq(X)
  BY <1>1, <1>4
<1>6. Distinct(q)
  BY <1>4 DEF IsInjective, Distinct
<1>7. ToSet(q) \subseteq S
  BY <1>4 DEF ToSet
<1> QED BY <1>5, <1>6, <1>7 DEF q

(* At first they are sorted, and hold nothing twice.                       *)
LEMMA TablesStart == Init => Tables
<1> SUFFICES ASSUME Init PROVE Tables
  OBVIOUS
<1> DEFINE S(k) == { o \in Initial : o.kind = k }
<1>1. DOMAIN tab = Kinds /\ \A k \in Kinds : tab[k] = ByKey(SetToSeq(S(k)))
  BY DEF Init
<1>2. ASSUME NEW k \in Kinds PROVE InTable(tab[k], k)
  <2> DEFINE q == SetToSeq(S(k))
  <2>1. IsFiniteSet(S(k)) /\ S(k) \in SUBSET Objects
    BY NetlinkAssumption, FS_Subset
  <2>2. q \in Seq(Objects) /\ Distinct(q) /\ ToSet(q) \subseteq S(k)
    <3> HIDE DEF S
    <3> QED BY <2>1, SetToSeqFacts
  <2> HIDE DEF q
  <2>3. /\ ByKey(q) \in Seq(Objects) /\ Distinct(ByKey(q)) /\ Rising(ByKey(q))
        /\ ToSet(ByKey(q)) = ToSet(q)
    BY <2>2, ByKeySorts
  <2> DEFINE r == ByKey(q)
  <2> HIDE DEF r
  <2>4. ASSUME k \in Keyed PROVE Strict(r)
    <3> SUFFICES ASSUME NEW i \in DOMAIN r, NEW j \in DOMAIN r, i < j
                 PROVE  r[i].key < r[j].key
      BY DEF Strict
    <3>1. r[i] \in S(k) /\ r[j] \in S(k)
      BY <2>2, <2>3 DEF r, ToSet
    <3>2. r[i].key <= r[j].key /\ r[i] # r[j]
      <4>1. i # j
        BY <2>3, LenProperties DEF r
      <4> QED BY <2>3, <4>1 DEF r, Rising, Distinct
    <3>3. r[i].key # r[j].key
      BY <2>4, <3>1, <3>2, NetlinkAssumption
    <3>4. r[i].key \in Nat /\ r[j].key \in Nat
      BY <3>1, NetlinkAssumption
    <3> QED BY <3>2, <3>3, <3>4
  <2>5. InTable(r, k)
    BY <2>3, <2>4 DEF InTable, r
  <2> QED BY <1>1, <2>5 DEF r, q
<1> QED BY <1>1, <1>2 DEF Tables

-----------------------------------------------------------------------------
(* What a dump has, against the table it walks.                            *)

(* The elements of two sequences put together.                             *)
LEMMA ConcatSet ==
    ASSUME NEW X, NEW s \in Seq(X), NEW t \in Seq(X)
    PROVE  ToSet(s \o t) = ToSet(s) \cup ToSet(t)
<1> DEFINE G == { u \in Seq(X) : ToSet(s \o u) = ToSet(s) \cup ToSet(u) }
<1>1. <<>> \in G
  <2>1. s \o <<>> = s /\ <<>> \in Seq(X) /\ ToSet(<<>>) = {}
    BY DEF ToSet
  <2> QED BY <2>1
<1>2. ASSUME NEW u \in Seq(X), NEW x \in X, u \in G PROVE Append(u, x) \in G
  <2>1. /\ Append(u, x) \in Seq(X) /\ s \o u \in Seq(X)
        /\ s \o Append(u, x) = Append(s \o u, x)
    OBVIOUS
  <2>2. /\ ToSet(Append(u, x)) = ToSet(u) \cup {x}
        /\ ToSet(Append(s \o u, x)) = ToSet(s \o u) \cup {x}
    <3>1. \A v \in Seq(X) : ToSet(Append(v, x)) = ToSet(v) \cup {x}
      BY AppendRange
    <3> QED BY <2>1, <3>1
  <2>3. ToSet(s \o u) = ToSet(s) \cup ToSet(u)
    BY <1>2
  <2> QED BY <2>1, <2>2, <2>3
<1> HIDE DEF G
<1>3. t \in G
  BY <1>1, <1>2, SequenceInduction
<1> QED BY <1>3 DEF G

(* They differ if they do in each and across.                              *)
LEMMA ConcatDistinct ==
    ASSUME NEW X, NEW s \in Seq(X), NEW t \in Seq(X), Distinct(s), Distinct(t),
           ToSet(s) \cap ToSet(t) = {}
    PROVE  Distinct(s \o t)
<1> DEFINE G == { u \in Seq(X) : /\ Distinct(u) /\ ToSet(s) \cap ToSet(u) = {}
                                    => Distinct(s \o u) }
<1>1. <<>> \in G
  <2>1. s \o <<>> = s /\ <<>> \in Seq(X)
    OBVIOUS
  <2> QED BY <2>1
<1>2. ASSUME NEW u \in Seq(X), NEW x \in X, u \in G PROVE Append(u, x) \in G
  <2>1. /\ Append(u, x) \in Seq(X) /\ s \o u \in Seq(X)
        /\ s \o Append(u, x) = Append(s \o u, x)
    OBVIOUS
  <2>2. /\ ToSet(Append(u, x)) = ToSet(u) \cup {x}
        /\ ToSet(s \o u) = ToSet(s) \cup ToSet(u)
    BY <2>1, AppendRange, ConcatSet
  <2>3. /\ Distinct(Append(u, x)) <=> Distinct(u) /\ x \notin ToSet(u)
        /\ Distinct(Append(s \o u, x)) <=> Distinct(s \o u) /\ x \notin ToSet(s \o u)
    BY <2>1, AppendDistinct
  <2>4. Distinct(u) /\ ToSet(s) \cap ToSet(u) = {} => Distinct(s \o u)
    BY <1>2
  <2>5. ASSUME Distinct(Append(u, x)), ToSet(s) \cap ToSet(Append(u, x)) = {}
        PROVE  Distinct(s \o Append(u, x))
    BY <2>1, <2>2, <2>3, <2>4, <2>5
  <2> QED BY <2>1, <2>5
<1> HIDE DEF G
<1>3. t \in G
  BY <1>1, <1>2, SequenceInduction
<1> QED BY <1>3 DEF G

(* A sequence without doubles is as long as its set is large.              *)
LEMMA DistinctCount ==
    ASSUME NEW X, NEW s \in Seq(X), Distinct(s)
    PROVE  Len(s) = Cardinality(ToSet(s))
<1> DEFINE n == Len(s)  T == ToSet(s)
<1>1. n \in Nat /\ DOMAIN s = 1 .. n /\ s \in [1 .. n -> X]
  BY LenProperties
<1> HIDE DEF n
<1>2. T = { s[i] : i \in 1 .. n }
  BY <1>1 DEF ToSet
<1> HIDE DEF T
<1>3. s \in [1 .. n -> T]
  BY <1>1, <1>2
<1>4. s \in Injection(1 .. n, T)
  BY <1>1, <1>3 DEF Injection, IsInjective, Distinct
<1>5. s \in Surjection(1 .. n, T)
  BY <1>2, <1>3 DEF Surjection
<1>6. ExistsBijection(1 .. n, T)
  BY <1>4, <1>5 DEF ExistsBijection, Bijection
<1> QED BY <1>1, <1>6, FS_CountingElements DEF n, T

Walks == [kind : Kinds, pos : Nat, through : SUBSET Objects,
          during : SUBSET Objects, shifted : BOOLEAN]

(* The entries the walk has come past.                                     *)
Behind(o) ==
    IF walk.kind \in Keyed THEN o.key <= walk.pos
    ELSE \E i \in DOMAIN tab[walk.kind] : i <= walk.pos /\ tab[walk.kind][i] = o

Fair == (walk.kind \in Keyed \/ walk.shifted = FALSE) =>
          /\ Distinct(got)
          /\ \A o \in ToSet(got) : Behind(o)
          /\ \A o \in walk.through : Parsed(o) /\ Behind(o) => o \in ToSet(got)

Bounds == /\ walk.through \subseteq Present(walk.kind)
          /\ Present(walk.kind) \subseteq walk.during
          /\ ToSet(got) \subseteq walk.during

Walking == walk \in Walks /\ got \in Seq(Objects) /\ Bounds /\ Fair

OneDump == /\ pc # "recv" => walk = NoWalk
           /\ pc = "recv" => Walking

Skip == IF walk.kind \in Keyed THEN Upto(tab[walk.kind], walk.pos) ELSE walk.pos

(* The fields of a dump under way, which is not NoWalk.                    *)
LEMMA WalkFacts ==
    ASSUME walk \in Walks
    PROVE  /\ walk.kind \in Kinds /\ walk.pos \in Nat
           /\ walk.through \subseteq Objects /\ walk.shifted \in BOOLEAN
           /\ walk # NoWalk /\ walk.kind # "none"
BY DEF Walks, NoWalk, Kinds

(* The entries behind are the first ones of the table.                     *)
LEMMA SkipFacts ==
    ASSUME Tables, walk \in Walks
    PROVE  /\ Skip \in Nat /\ Len(tab[walk.kind]) \in Nat
           /\ DOMAIN tab[walk.kind] = 1 .. Len(tab[walk.kind])
           /\ \A i \in DOMAIN tab[walk.kind] : Behind(tab[walk.kind][i]) <=> i <= Skip
<1> DEFINE t == tab[walk.kind]
<1>1. walk.kind \in Kinds /\ walk.pos \in Nat
  BY WalkFacts
<1>2. InTable(t, walk.kind)
  BY <1>1 DEF Tables
<1>3. t \in Seq(Objects) /\ Distinct(t) /\ (walk.kind \in Keyed => Strict(t))
  BY <1>2 DEF InTable
<1>4. Len(t) \in Nat /\ DOMAIN t = 1 .. Len(t)
  BY <1>3, LenProperties
<1>5. CASE walk.kind \in Keyed
  <2>1. Rising(t)
    BY <1>3, <1>5, StrictIs
  <2> HIDE DEF t
  <2>2. Upto(t, walk.pos) \in 0 .. Len(t)
    BY <1>1, <1>3, UptoType
  <2>3. \A i \in DOMAIN t : t[i].key <= walk.pos <=> i <= Upto(t, walk.pos)
    BY <1>1, <1>3, <2>1, UptoPlace
  <2>4. Skip = Upto(t, walk.pos)
    BY <1>5 DEF Skip, t
  <2>5. \A i \in DOMAIN t : Behind(t[i]) <=> t[i].key <= walk.pos
    BY <1>5 DEF Behind
  <2>6. Upto(t, walk.pos) \in Nat
    BY <1>4, <2>2
  <2> QED BY <1>4, <2>3, <2>4, <2>5, <2>6 DEF t
<1>6. CASE walk.kind \notin Keyed
  <2>1. Skip = walk.pos
    BY <1>6 DEF Skip
  <2>2. \A i \in DOMAIN t : Behind(t[i]) <=> \E h \in DOMAIN t : h <= walk.pos /\ t[h] = t[i]
    BY <1>6 DEF Behind
  <2> HIDE DEF t
  <2>3. \A i \in DOMAIN t : Behind(t[i]) <=> i <= walk.pos
    BY <1>3, <2>2 DEF Distinct
  <2> QED BY <1>1, <1>4, <2>1, <2>3 DEF t
<1> QED BY <1>5, <1>6

(* A datagram: the entries of the table after those behind.                *)
Follows(c, t, last) ==
    /\ last \in Skip + 1 .. Len(t) /\ c \in Seq(Objects) /\ Len(c) = last - Skip
    /\ \A i \in 1 .. last - Skip : c[i] = t[Skip + i]

(* An empty datagram comes only at the end of the table.                   *)
LEMMA ChunkFacts ==
    ASSUME Tables, walk \in Walks
    PROVE  /\ Chunk = <<>> => Len(tab[walk.kind]) <= Skip
           /\ Chunk # <<>> => \E last : Follows(Chunk, tab[walk.kind], last)
<1> DEFINE t == tab[walk.kind]
           last == IF Skip + Batch < Len(t) THEN Skip + Batch ELSE Len(t)
<1>1. Skip \in Nat /\ Len(t) \in Nat /\ DOMAIN t = 1 .. Len(t)
  BY SkipFacts
<1>2. Batch \in Nat /\ Batch >= 1
  BY NetlinkAssumption
<1>3. t \in Seq(Objects)
  BY WalkFacts DEF Tables, InTable
<1>4. Chunk = SubSeq(t, Skip + 1, last)
  BY DEF Chunk, Skip
<1> HIDE DEF t
<1>5. last \in Nat /\ last <= Len(t) /\ (Skip < Len(t) => Skip + 1 <= last)
      /\ (~(Skip < Len(t)) => last < Skip + 1)
  BY <1>1, <1>2
<1> HIDE DEF last
<1>6. CASE Skip < Len(t)
  <2>1. Skip + 1 \in Int /\ last \in Int /\ \A i \in Skip + 1 .. last : t[i] \in Objects
    <3>1. \A i \in Skip + 1 .. last : i \in 1 .. Len(t)
      BY <1>1, <1>5
    <3> QED BY <1>1, <1>3, <1>5, <3>1
  <2>2. /\ Chunk \in Seq(Objects)
        /\ Len(Chunk) = IF Skip + 1 <= last THEN last - (Skip + 1) + 1 ELSE 0
        /\ \A i \in 1 .. last - (Skip + 1) + 1 : Chunk[i] = t[(Skip + 1) + i - 1]
    BY <1>4, <2>1, SubSeqProperties
  <2>3. /\ last - (Skip + 1) + 1 = last - Skip /\ Skip + 1 <= last
        /\ \A i \in 1 .. last - Skip : (Skip + 1) + i - 1 = Skip + i
        /\ last \in Skip + 1 .. Len(t) /\ last - Skip # 0
    BY <1>1, <1>5, <1>6
  <2>4. Len(Chunk) = last - Skip /\ \A i \in 1 .. last - Skip : Chunk[i] = t[Skip + i]
    BY <2>2, <2>3
  <2>5. Follows(Chunk, t, last)
    BY <2>2, <2>3, <2>4 DEF Follows
  <2>6. Chunk # <<>>
    <3>1. Len(<<>>) = 0
      OBVIOUS
    <3> QED BY <2>3, <2>4, <3>1
  <2> QED BY <2>5, <2>6 DEF t
<1>7. CASE ~(Skip < Len(t))
  <2>1. Chunk = <<>>
    BY <1>1, <1>4, <1>5, <1>7, SubSeqEmpty
  <2>2. Len(t) <= Skip
    BY <1>1, <1>7
  <2> QED BY <2>1, <2>2 DEF t
<1> QED BY <1>6, <1>7

(* A datagram moves its entries behind, and into the result.               *)
LEMMA AcceptKeeps ==
    ASSUME Tables, Walking, Chunk # <<>>, Accept(Chunk), tab' = tab
    PROVE  Walking'
<1> DEFINE t == tab[walk.kind]
           c == Chunk
           new == Kept(c, Readable)
           pos == IF walk.kind \in Keyed THEN c[Len(c)].key ELSE walk.pos + Len(c)
<1>1. walk \in Walks /\ got \in Seq(Objects) /\ Bounds /\ Fair
  BY DEF Walking
<1>2. walk.kind \in Kinds /\ walk.pos \in Nat /\ walk.through \subseteq Objects
  BY <1>1, WalkFacts
<1>3. PICK last : Follows(c, t, last)
  BY <1>1, ChunkFacts
<1>4. /\ Skip \in Nat /\ Len(t) \in Nat /\ DOMAIN t = 1 .. Len(t)
      /\ \A i \in DOMAIN t : Behind(t[i]) <=> i <= Skip
  BY <1>1, SkipFacts
<1>5. t \in Seq(Objects) /\ Distinct(t) /\ (walk.kind \in Keyed => Strict(t))
  BY <1>2 DEF Tables, InTable
<1>6. got' = got \o new /\ walk' = [walk EXCEPT !.pos = pos]
  BY DEF Accept
<1>7. Present(walk.kind) = ToSet(t)
  BY DEF Present
<1> HIDE DEF t, c
<1>8. /\ last \in Skip + 1 .. Len(t) /\ c \in Seq(Objects) /\ Len(c) = last - Skip
      /\ \A i \in 1 .. last - Skip : c[i] = t[Skip + i]
  BY <1>3 DEF Follows
<1>9. last \in Nat /\ last \in 1 .. Len(t) /\ Skip < last /\ last - Skip \in 1 .. last - Skip
      /\ Skip + (last - Skip) = last
  BY <1>4, <1>8
<1>10. DOMAIN c = 1 .. last - Skip
  BY <1>8, LenProperties
<1>11. c[Len(c)] = t[last] /\ t[last] \in Objects /\ t[last].key \in Nat
  <2>1. c[Len(c)] = t[last]
    BY <1>8, <1>9
  <2>2. t[last] \in Objects
    BY <1>5, <1>9
  <2> QED BY <2>1, <2>2, ObjectKind
<1>12. pos \in Nat /\ (walk.kind \in Keyed => pos = t[last].key)
       /\ (walk.kind \notin Keyed => pos = last /\ Skip = walk.pos)
  <2>1. CASE walk.kind \in Keyed
    BY <1>11, <2>1
  <2>2. CASE walk.kind \notin Keyed
    <3>1. Skip = walk.pos
      BY <2>2 DEF Skip
    <3>2. walk.pos + Len(c) = last
      BY <1>4, <1>8, <1>9, <3>1
    <3> QED BY <1>9, <2>2, <3>1, <3>2
  <2> QED BY <2>1, <2>2
<1> HIDE DEF pos
<1>13. /\ walk' \in Walks /\ walk'.kind = walk.kind /\ walk'.pos = pos
       /\ walk'.through = walk.through /\ walk'.during = walk.during
       /\ walk'.shifted = walk.shifted
  BY <1>1, <1>6, <1>12 DEF Walks
<1>14. ToSet(c) \subseteq ToSet(t) /\ \A o \in ToSet(c) : ~Behind(o)
  <2>1. ASSUME NEW i \in 1 .. last - Skip
        PROVE  Skip + i \in DOMAIN t /\ ~(Skip + i <= Skip)
    BY <1>4, <1>8, <1>9
  <2>2. ASSUME NEW i \in 1 .. last - Skip
        PROVE  c[i] \in ToSet(t) /\ ~Behind(c[i])
    <3>1. c[i] = t[Skip + i] /\ Skip + i \in DOMAIN t /\ ~(Skip + i <= Skip)
      BY <1>8, <2>1
    <3>2. ~Behind(t[Skip + i])
      BY <1>4, <3>1
    <3>3. t[Skip + i] \in ToSet(t)
      BY <3>1 DEF ToSet
    <3> QED BY <3>1, <3>2, <3>3
  <2> QED BY <1>10, <2>2 DEF ToSet
<1>15. Distinct(c)
  <2> SUFFICES ASSUME NEW i \in 1 .. last - Skip, NEW j \in 1 .. last - Skip, c[i] = c[j]
               PROVE  i = j
    BY <1>10 DEF Distinct
  <2>1. Skip + i \in DOMAIN t /\ Skip + j \in DOMAIN t
    BY <1>4, <1>8, <1>9
  <2>2. t[Skip + i] = t[Skip + j]
    BY <1>8
  <2>3. Skip + i = Skip + j
    BY <1>5, <2>1, <2>2 DEF Distinct
  <2> QED BY <1>4, <1>9, <2>3
<1>16. new \in Seq(Objects) /\ ToSet(new) = ToSet(c) \cap Readable /\ Distinct(new)
  BY <1>8, <1>15, KeptType, KeptRange, KeptDistinct
<1> HIDE DEF new
<1>17. /\ got' \in Seq(Objects) /\ ToSet(got') = ToSet(got) \cup ToSet(new)
  BY <1>1, <1>6, <1>16, ConcatProperties, ConcatSet
<1>18. Bounds'
  <2>1. Present(walk.kind)' = Present(walk.kind)
    BY <1>13 DEF Present
  <2>2. ToSet(new) \subseteq walk.during
    BY <1>1, <1>7, <1>14, <1>16 DEF Bounds
  <2> QED BY <1>1, <1>13, <1>17, <2>1, <2>2 DEF Bounds
<1>19. \A o \in Objects, i \in DOMAIN t : t[i] = o => (Behind(o)' <=> i <= last)
  <2>1. CASE walk.kind \in Keyed
    <3>1. \A o \in Objects : Behind(o)' <=> o.key <= t[last].key
      BY <1>12, <1>13, <2>1 DEF Behind
    <3>2. ASSUME NEW i \in 1 .. Len(t) PROVE t[i].key <= t[last].key <=> i <= last
      <4>1. t[i].key \in Nat /\ t[last].key \in Nat
        BY <1>4, <1>5, <1>11, Keys
      <4>2. (i < last => t[i].key < t[last].key) /\ (last < i => t[last].key < t[i].key)
        BY <1>4, <1>5, <1>9, <2>1 DEF Strict
      <4>3. i < last \/ i = last \/ last < i
        BY <1>9
      <4> QED BY <1>9, <4>1, <4>2, <4>3
    <3> QED BY <1>4, <3>1, <3>2
  <2>2. CASE walk.kind \notin Keyed
    <3>1. \A o \in Objects : Behind(o)' <=> \E h \in DOMAIN t : h <= last /\ t[h] = o
      BY <1>12, <1>13, <2>2 DEF Behind, t
    <3> QED BY <1>5, <3>1 DEF Distinct
  <2> QED BY <2>1, <2>2
<1>20. \A o \in Objects : Behind(o) => Behind(o)'
  <2>1. CASE walk.kind \in Keyed
    <3>1. ~(t[last].key <= walk.pos)
      BY <1>4, <1>9, <2>1 DEF Behind, t
    <3>2. walk.pos <= pos
      BY <1>2, <1>11, <1>12, <2>1, <3>1
    <3>3. \A o \in Objects : (Behind(o) <=> o.key <= walk.pos) /\ (Behind(o)' <=> o.key <= pos)
      BY <1>13, <2>1 DEF Behind
    <3> QED BY <1>2, <1>12, <3>2, <3>3, ObjectKind
  <2>2. CASE walk.kind \notin Keyed
    <3>1. walk.pos <= pos
      BY <1>4, <1>9, <1>12, <2>2
    <3>2. \A o \in Objects :
             /\ Behind(o) <=> \E i \in DOMAIN t : i <= walk.pos /\ t[i] = o
             /\ Behind(o)' <=> \E i \in DOMAIN t : i <= pos /\ t[i] = o
      BY <1>13, <2>2 DEF Behind, t
    <3> QED BY <1>2, <1>4, <1>12, <3>1, <3>2
  <2> QED BY <2>1, <2>2
<1>21. Fair'
  <2> SUFFICES ASSUME walk.kind \in Keyed \/ walk.shifted = FALSE
               PROVE  /\ Distinct(got')
                      /\ \A o \in ToSet(got') : Behind(o)'
                      /\ \A o \in walk.through : Parsed(o) /\ Behind(o)' => o \in ToSet(got')
    BY <1>13 DEF Fair
  <2>1. /\ Distinct(got) /\ \A o \in ToSet(got) : Behind(o)
        /\ \A o \in walk.through : Parsed(o) /\ Behind(o) => o \in ToSet(got)
    BY <1>1 DEF Fair
  <2>2. Distinct(got')
    <3>1. ToSet(got) \cap ToSet(new) = {}
      BY <1>14, <1>16, <2>1
    <3> QED BY <1>1, <1>6, <1>16, <2>1, <3>1, ConcatDistinct
  <2>3. ASSUME NEW o \in ToSet(got') PROVE Behind(o)'
    <3>1. CASE o \in ToSet(got)
      <4>1. o \in Objects
        BY <1>1, <3>1 DEF ToSet
      <4> QED BY <1>20, <2>1, <3>1, <4>1
    <3>2. CASE o \in ToSet(c)
      <4>1. PICK i \in 1 .. last - Skip : o = t[Skip + i]
        BY <1>8, <1>10, <3>2 DEF ToSet
      <4>2. Skip + i \in DOMAIN t /\ Skip + i <= last
        BY <1>4, <1>8, <1>9
      <4>3. o \in Objects
        BY <1>8, <3>2 DEF ToSet
      <4> QED BY <1>19, <4>1, <4>2, <4>3
    <3> QED BY <1>16, <1>17, <2>3, <3>1, <3>2
  <2>4. ASSUME NEW o \in walk.through, Parsed(o), Behind(o)' PROVE o \in ToSet(got')
    <3>1. PICK i \in DOMAIN t : o = t[i]
      BY <1>1, <1>7 DEF Bounds, ToSet
    <3>2. i <= last
      BY <1>2, <1>19, <2>4, <3>1
    <3>3. CASE i <= Skip
      <4>1. Behind(o)
        BY <1>4, <3>1, <3>3
      <4> QED BY <1>17, <2>1, <2>4, <4>1
    <3>4. CASE ~(i <= Skip)
      <4>1. i - Skip \in 1 .. last - Skip /\ Skip + (i - Skip) = i
        BY <1>4, <1>9, <3>2, <3>4
      <4>2. c[i - Skip] = o
        BY <1>8, <3>1, <4>1
      <4>3. o \in ToSet(c) /\ o \in Readable
        BY <1>2, <1>10, <2>4, <4>1, <4>2 DEF ToSet, Readable
      <4> QED BY <1>16, <1>17, <4>3
    <3> QED BY <3>3, <3>4
  <2> QED BY <2>2, <2>3, <2>4
<1> QED BY <1>13, <1>17, <1>18, <1>21 DEF Walking

(* The end of a dump: nothing is left behind, and sorting changes nothing  *)
(* but the order.                                                          *)
LEMMA DoneIsFair ==
    ASSUME Tables, Walking, Chunk = <<>>, got' = Sorted(walk.kind, got)
    PROVE  LET back == ToSet(got') IN
           /\ back \subseteq walk.during
           /\ (walk.kind \in Keyed \/ ~walk.shifted) =>
                /\ { o \in walk.through : Parsed(o) } \subseteq back
                /\ Len(got') = Cardinality(back)
                /\ walk.kind \notin Unsorted =>
                     \A i, j \in DOMAIN got' : i < j => got'[i].key <= got'[j].key
<1> DEFINE t == tab[walk.kind]
<1>1. walk \in Walks /\ got \in Seq(Objects) /\ Bounds /\ Fair
  BY DEF Walking
<1>2. walk.shifted \in BOOLEAN
  BY <1>1, WalkFacts
<1>3. /\ got' \in Seq(Objects) /\ ToSet(got') = ToSet(got)
      /\ Distinct(got) => Distinct(got')
      /\ walk.kind \notin Unsorted => Rising(got')
  BY <1>1, ByKeySorts DEF Sorted
<1>4. ToSet(got') \subseteq walk.during
  BY <1>1, <1>3 DEF Bounds
<1>5. \A o \in walk.through : Behind(o)
  <2>1. /\ Len(t) <= Skip /\ Skip \in Nat /\ Len(t) \in Nat /\ DOMAIN t = 1 .. Len(t)
        /\ \A i \in DOMAIN t : Behind(t[i]) <=> i <= Skip
    BY <1>1, ChunkFacts, SkipFacts
  <2>2. \A o \in walk.through : \E i \in DOMAIN t : o = t[i]
    BY <1>1 DEF Bounds, Present, ToSet
  <2> HIDE DEF t
  <2>3. \A i \in DOMAIN t : i <= Skip
    BY <2>1
  <2> QED BY <2>1, <2>2, <2>3
<1>6. ASSUME walk.kind \in Keyed \/ ~walk.shifted
      PROVE  /\ { o \in walk.through : Parsed(o) } \subseteq ToSet(got')
             /\ Len(got') = Cardinality(ToSet(got'))
  <2>0. walk.kind \in Keyed \/ walk.shifted = FALSE
    BY <1>2, <1>6
  <2>1. /\ Distinct(got)
        /\ \A o \in walk.through : Parsed(o) /\ Behind(o) => o \in ToSet(got)
    BY <1>1, <2>0 DEF Fair
  <2>2. { o \in walk.through : Parsed(o) } \subseteq ToSet(got')
    BY <1>3, <1>5, <2>1
  <2>3. Len(got') = Cardinality(ToSet(got'))
    BY <1>3, <2>1, DistinctCount
  <2> QED BY <2>2, <2>3
<1> QED BY <1>3, <1>4, <1>6 DEF Rising

(* A change of another table, or of none, is nothing to the dump.          *)
LEMMA WalkStays ==
    ASSUME Walking, walk' = walk, got' = got, tab'[walk.kind] = tab[walk.kind]
    PROVE  Walking'
<1>1. Bounds'
  BY DEF Walking, Bounds, Present
<1>2. ASSUME NEW o PROVE Behind(o)' <=> Behind(o)
  BY DEF Behind
<1>3. Fair'
  BY <1>2 DEF Walking, Fair
<1> QED BY <1>1, <1>3 DEF Walking

(* A change of the table under the dump: past entries of a keyed table     *)
(* stay behind, and for the others the shift is on record.                 *)
LEMMA ShiftKeeps ==
    ASSUME Walking, NEW o \in Objects, o.kind = walk.kind, got' = got,
           \/ /\ walk' = Gains(walk, o)
              /\ Present(o.kind)' = Present(o.kind) \cup {o}
           \/ /\ walk' = Loses(walk, o)
              /\ Present(o.kind)' = Present(o.kind) \ {o}
    PROVE  Walking'
<1>1. walk \in Walks /\ got \in Seq(Objects) /\ Bounds /\ Fair
  BY DEF Walking
<1>2. /\ walk' \in Walks /\ walk'.kind = walk.kind /\ walk'.pos = walk.pos
      /\ walk'.shifted = TRUE /\ walk'.through \subseteq walk.through
      /\ walk.during \subseteq walk'.during
      /\ walk'.through \subseteq Present(o.kind)'
      /\ Present(o.kind)' \subseteq walk'.during
  <2>1. CASE walk' = Gains(walk, o) /\ Present(o.kind)' = Present(o.kind) \cup {o}
    <3>1. walk' = [walk EXCEPT !.during = @ \cup {o}, !.shifted = TRUE]
      BY <2>1 DEF Gains
    <3>2. /\ walk' \in Walks /\ walk'.kind = walk.kind /\ walk'.pos = walk.pos
          /\ walk'.shifted = TRUE /\ walk'.through = walk.through
          /\ walk'.during = walk.during \cup {o}
      BY <1>1, <3>1 DEF Walks
    <3> QED BY <1>1, <2>1, <3>2 DEF Bounds
  <2>2. CASE walk' = Loses(walk, o) /\ Present(o.kind)' = Present(o.kind) \ {o}
    <3>1. walk' = [walk EXCEPT !.through = @ \ {o}, !.shifted = TRUE]
      BY <2>2 DEF Loses
    <3>2. /\ walk' \in Walks /\ walk'.kind = walk.kind /\ walk'.pos = walk.pos
          /\ walk'.shifted = TRUE /\ walk'.through = walk.through \ {o}
          /\ walk'.during = walk.during
      BY <1>1, <3>1 DEF Walks
    <3> QED BY <1>1, <2>2, <3>2 DEF Bounds
  <2> QED BY <2>1, <2>2
<1>3. Bounds'
  <2>1. Present(walk.kind)' = Present(o.kind)'
    BY <1>2 DEF Present
  <2> QED BY <1>1, <1>2, <2>1 DEF Bounds
<1>4. Fair'
  <2> SUFFICES ASSUME walk.kind \in Keyed
               PROVE  /\ Distinct(got)
                      /\ \A x \in ToSet(got) : Behind(x)'
                      /\ \A x \in walk'.through : Parsed(x) /\ Behind(x)' => x \in ToSet(got)
    BY <1>2 DEF Fair
  <2>1. ASSUME NEW x PROVE Behind(x)' <=> Behind(x)
    BY <1>2 DEF Behind
  <2> QED BY <1>1, <1>2, <2>1 DEF Fair
<1> QED BY <1>1, <1>2, <1>3, <1>4 DEF Walking

(* The tables and the dump after a change by another.                      *)
LEMMA KernelShifts ==
    ASSUME Tables, OneDump, NEW o \in Objects, pc' = pc, got' = got,
           \/ Free(o) /\ Insert(o) /\ walk' = Gains(walk, o)
           \/ Delete(o) /\ walk' = Loses(walk, o)
    PROVE  Tables' /\ OneDump'
<1>1. Tables' /\ \A k \in Kinds \ {o.kind} : tab'[k] = tab[k]
  BY InsertKeeps, DeleteKeeps
<1>2. o.kind \in Kinds
  BY ObjectKind
<1>3. walk.kind # o.kind => walk' = walk
  BY DEF Gains, Loses
<1>4. CASE pc # "recv"
  <2>1. walk = NoWalk /\ walk.kind = "none" /\ "none" \notin Kinds
    BY <1>4 DEF OneDump, NoWalk, Kinds
  <2>2. walk' = walk
    BY <1>2, <1>3, <2>1
  <2> QED BY <1>1, <1>4, <2>1, <2>2 DEF OneDump
<1>5. CASE pc = "recv"
  <2>1. Walking
    BY <1>5 DEF OneDump
  <2>2. walk.kind \in Kinds
    BY <2>1, WalkFacts DEF Walking
  <2>3. CASE walk.kind # o.kind
    <3>1. Walking'
      BY <1>1, <1>3, <2>1, <2>2, <2>3, WalkStays
    <3> QED BY <1>1, <1>5, <3>1 DEF OneDump
  <2>4. CASE walk.kind = o.kind
    <3>1. CASE Free(o) /\ Insert(o) /\ walk' = Gains(walk, o)
      <4>1. Present(o.kind)' = Present(o.kind) \cup {o}
        BY <3>1, InsertKeeps
      <4> QED BY <1>1, <1>5, <2>1, <2>4, <3>1, <4>1, ShiftKeeps DEF OneDump
    <3>2. CASE Delete(o) /\ walk' = Loses(walk, o)
      <4>1. Present(o.kind)' = Present(o.kind) \ {o}
        BY <3>2, DeleteKeeps
      <4> QED BY <1>1, <1>5, <2>1, <2>4, <3>2, <4>1, ShiftKeeps DEF OneDump
    <3> QED BY <3>1, <3>2
  <2> QED BY <2>3, <2>4
<1> QED BY <1>4, <1>5

DumpInv == Tables /\ OneDump

(* What leaves tables and dump alone keeps the invariant.                  *)
LEMMA DumpStays ==
    ASSUME DumpInv, tab' = tab, pc' = pc, walk' = walk, got' = got
    PROVE  DumpInv'
<1>1. Tables'
  BY DEF DumpInv, Tables
<1>2. Walking => Walking'
  BY WalkStays
<1> QED BY <1>1, <1>2 DEF DumpInv, OneDump

(* Between dumps there is none under way.                                  *)
LEMMA RestKeeps ==
    ASSUME Tables', pc' # "recv", walk' = NoWalk
    PROVE  DumpInv'
BY DEF DumpInv, OneDump

(* The end of a request ends its dump.                                     *)
LEMMA EndsRequest ==
    ASSUME Advance \/ \E r : Finish(r)
    PROVE  pc' # "recv" /\ walk' = NoWalk
BY DEF Advance, Finish

(* Changes by others keep the invariant of the dumps.                      *)
LEMMA KernelKeeps ==
    ASSUME DumpInv, NEW o \in Objects,
           \/ KernelAdd(o) \/ KernelRemove(o)
           \/ \E aborted \in BOOLEAN : o.kind = "bss" /\ ScanEnds(o, aborted)
    PROVE  DumpInv'
<1>1. pc' = pc /\ got' = got
  BY DEF KernelAdd, KernelRemove, ScanEnds, SomeoneElse
<1>2. CASE KernelAdd(o)
  BY <1>1, <1>2, KernelShifts DEF KernelAdd, DumpInv
<1>3. CASE KernelRemove(o)
  BY <1>1, <1>3, KernelShifts DEF KernelRemove, DumpInv
<1>4. ASSUME NEW aborted \in BOOLEAN, o.kind = "bss", ScanEnds(o, aborted) PROVE DumpInv'
  <2>1. CASE UNCHANGED <<tab, walk>>
    BY <1>1, <2>1, DumpStays
  <2>2. CASE o \notin Present("bss") /\ Insert(o) /\ walk' = Gains(walk, o)
    <3>1. Free(o)
      BY <1>4, <2>2 DEF Free, Keyed
    <3> QED BY <1>1, <2>2, <3>1, KernelShifts DEF DumpInv
  <2> QED BY <1>4, <2>1, <2>2 DEF ScanEnds
<1> QED BY <1>2, <1>3, <1>4

(* A dump begins with nothing behind.                                      *)
LEMMA SendDumpKeeps ==
    ASSUME DumpInv, Requested, SendDump
    PROVE  DumpInv'
<1> DEFINE k == Head(todo).kind
<1>0. tab' = tab /\ pc = "send" /\ Head(todo).do = "dump"
  BY DEF SendDump, kernel
<1>1. Tables'
  BY <1>0 DEF DumpInv, Tables
<1>2. CASE Finish("Kernel")
  BY <1>1, <1>2, EndsRequest, RestKeeps
<1>3. CASE /\ pc' = "recv" /\ got' = <<>>
           /\ walk' = [kind |-> k, pos |-> 0, through |-> Present(k),
                       during |-> Present(k), shifted |-> FALSE]
  <2>1. k \in Kinds
    <3>1. Head(todo) \in Requests
      BY <1>0, HeadTailProperties DEF Requested
    <3> QED BY <1>0, <3>1, RequestFacts
  <2> HIDE DEF k
  <2>2. tab[k] \in Seq(Objects) /\ Present(k) \subseteq Objects
    BY <2>1 DEF DumpInv, Tables, InTable, Present, ToSet
  <2>3. /\ walk' \in Walks /\ walk'.kind = k /\ walk'.pos = 0
        /\ walk'.through = Present(k) /\ walk'.during = Present(k)
    BY <1>3, <2>1, <2>2 DEF Walks
  <2>4. got' \in Seq(Objects) /\ ToSet(got') = {} /\ Distinct(got')
    BY <1>3 DEF ToSet, Distinct
  <2>5. Bounds'
    <3>1. ToSet(tab'[walk'.kind]) = Present(k)
      BY <1>0, <2>3 DEF Present
    <3> QED BY <2>3, <2>4, <3>1 DEF Bounds, Present
  <2>6. \A o \in Objects : ~Behind(o)'
    <3>1. \A o \in Objects : ~(o.key <= 0)
      BY NetlinkAssumption
    <3>2. \A i \in DOMAIN tab[k] : ~(i <= 0)
      BY <2>2, LenProperties
    <3> QED BY <1>0, <2>3, <3>1, <3>2 DEF Behind
  <2>7. Fair'
    BY <2>2, <2>3, <2>4, <2>6 DEF Fair
  <2>8. Walking'
    BY <2>3, <2>4, <2>5, <2>7 DEF Walking
  <2> QED BY <1>1, <1>3, <2>8 DEF DumpInv, OneDump
<1> QED BY <1>2, <1>3 DEF SendDump

(* A recv of a dump, with entries or the end.                              *)
LEMMA RecvDumpKeeps ==
    ASSUME DumpInv, RecvDump
    PROVE  DumpInv'
<1>0. tab' = tab /\ pc = "recv" /\ Tables /\ Walking
  BY DEF RecvDump, kernel, DumpInv, OneDump
<1>1. Tables'
  BY <1>0 DEF Tables
<1>2. CASE Chunk # <<>> /\ Accept(Chunk)
  <2>1. Walking'
    BY <1>0, <1>2, AcceptKeeps
  <2>2. pc' = pc
    BY <1>2 DEF Accept
  <2> QED BY <1>0, <1>1, <2>1, <2>2 DEF DumpInv, OneDump
<1>3. CASE Finish("Malformed")
  BY <1>1, <1>3, EndsRequest, RestKeeps
<1>4. CASE Done
  <2>1. Advance
    BY <1>4 DEF Done
  <2> QED BY <1>1, <2>1, EndsRequest, RestKeeps
<1> QED BY <1>2, <1>3, <1>4 DEF RecvDump

(* An acknowledged change happens between dumps.                           *)
LEMMA TransactKeeps ==
    ASSUME DumpInv, Requested, Transact
    PROVE  DumpInv'
<1> DEFINE verb == Head(todo).do
<1>1. Head(todo) \in Requests /\ verb \in {"add", "replace", "del", "tryDel"}
  BY HeadTailProperties DEF Requested, Transact
<1>0. PICK o \in Objects : o = Head(todo).obj
  BY <1>1, RequestFacts
<1>2. /\ verb = "add" => o.kind = "addr"
      /\ verb = "replace" => o.kind = "route"
  BY <1>0, <1>1, RequestFacts
<1>3. pc' # "recv" /\ walk' = NoWalk
  <2>1. Advance \/ Finish("Kernel")
    BY DEF Transact, Refused, Made
  <2> QED BY <2>1, EndsRequest
<1>4. CASE tab' = tab
  <2>1. Tables'
    BY <1>4 DEF DumpInv, Tables
  <2> QED BY <1>3, <2>1, RestKeeps
<1>5. CASE verb = "add" /\ o \notin Present(o.kind) /\ Insert(o)
  <2>1. Free(o)
    BY <1>2, <1>5 DEF Free, Keyed
  <2>2. Tables'
    BY <1>2, <1>5, <2>1, InsertKeeps DEF DumpInv
  <2> QED BY <1>3, <2>2, RestKeeps
<1>6. CASE /\ verb = "replace" /\ { x \in Present(o.kind) : x.key = o.key } = {}
           /\ Insert(o)
  <2>1. Free(o)
    BY <1>6 DEF Free
  <2>2. Tables'
    BY <1>2, <1>6, <2>1, InsertKeeps DEF DumpInv
  <2> QED BY <1>3, <2>2, RestKeeps
<1>7. CASE /\ verb = "replace"
           /\ \E i \in DOMAIN tab[o.kind] :
                 /\ tab[o.kind][i] \in { x \in Present(o.kind) : x.key = o.key }
                 /\ tab' = [tab EXCEPT ![o.kind][i] = o]
  <2>1. o.kind \in Keyed
    BY <1>2, <1>7 DEF Keyed
  <2>2. Tables'
    BY <1>2, <1>7, <2>1, ReplaceKeeps DEF DumpInv
  <2> QED BY <1>3, <2>2, RestKeeps
<1>8. CASE Delete(o)
  <2>1. Tables'
    BY <1>2, <1>8, DeleteKeeps DEF DumpInv
  <2> QED BY <1>3, <2>1, RestKeeps
<1> QED BY <1>0, <1>4, <1>5, <1>6, <1>7, <1>8 DEF Transact, Refused, Made

(* Every step keeps the invariant of the dumps.                            *)
LEMMA DumpHolds ==
    ASSUME DumpInv, Requested, [Next]_vars
    PROVE  DumpInv'
<1>1. ASSUME NEW o \in Objects, KernelAdd(o) \/ KernelRemove(o) PROVE DumpInv'
  BY <1>1, KernelKeeps
<1>2. ASSUME NEW o \in Objects, NEW aborted \in BOOLEAN, o.kind = "bss",
             ScanEnds(o, aborted)
      PROVE  DumpInv'
  BY <1>2, KernelKeeps
<1>3. ASSUME pc # "recv", tab' = tab, pc' # "recv", walk' = walk \/ walk' = NoWalk
      PROVE  DumpInv'
  <2>1. Tables' /\ walk' = NoWalk
    BY <1>3 DEF DumpInv, Tables, OneDump
  <2> QED BY <1>3, <2>1, RestKeeps
<1>4. ASSUME NEW p, Start(p) PROVE DumpInv'
  BY <1>3, <1>4 DEF Start, kernel
<1>5. ASSUME NEW c, Refuse(c) PROVE DumpInv'
  BY <1>3, <1>5 DEF Refuse, kernel
<1>6. CASE Fails \/ NoScanInterface
  <2>1. tab' = tab /\ \E r : Finish(r)
    BY <1>6 DEF Fails, NoScanInterface, kernel
  <2>2. Tables'
    BY <2>1 DEF DumpInv, Tables
  <2> QED BY <2>1, <2>2, EndsRequest, RestKeeps
<1>7. CASE ResolveFamily
  BY <1>3, <1>7, EndsRequest DEF ResolveFamily, kernel
<1>8. CASE SendTrigger
  BY <1>3, <1>8, EndsRequest DEF SendTrigger
<1>9. CASE SendDump
  BY <1>9, SendDumpKeeps
<1>10. CASE RecvDump
  BY <1>10, RecvDumpKeeps
<1>11. CASE Transact
  BY <1>11, TransactKeeps
<1>12. CASE InstallHandler \/ RequestShutdown \/ MonitorStep
  BY <1>12, DumpStays DEF InstallHandler, RequestShutdown, MonitorStep, Show,
                          CheckShutdown, RecvEvents, WouldBlock, MStays, client, kernel
<1>13. ASSUME NEW s, OpenSource(s) PROVE DumpInv'
  BY <1>13, DumpStays DEF OpenSource, client
<1>14. CASE UNCHANGED vars
  BY <1>14, DumpStays DEF vars, client, kernel
<1> QED BY <1>1, <1>2, <1>4, <1>5, <1>6, <1>7, <1>8, <1>9, <1>10, <1>11, <1>12,
           <1>13, <1>14 DEF Next

(* Only the last recv of a dump ends it with a result.                     *)
LEMMA EndIsDone ==
    ASSUME DumpInv, Requested, [Next]_vars, Ends
    PROVE  pc = "recv" /\ Chunk = <<>> /\ got' = Sorted(walk.kind, got)
<1>1. pc = "recv"
  BY DEF DumpInv, OneDump, NoWalk, Ends
<1>2. walk' # walk
  BY <1>1, WalkFacts DEF DumpInv, OneDump, Walking, Ends
<1>3. ASSUME NEW o \in Objects, walk' = Gains(walk, o) \/ walk' = Loses(walk, o)
      PROVE  FALSE
  <2>1. walk \in Walks /\ walk.kind # "none"
    BY <1>1, WalkFacts DEF DumpInv, OneDump, Walking
  <2>2. walk'.kind = walk.kind
    BY <1>3, <2>1 DEF Gains, Loses, Walks
  <2>3. walk'.kind = "none"
    BY DEF Ends, NoWalk
  <2> QED BY <2>1, <2>2, <2>3
<1>4. ASSUME NEW o \in Objects, KernelAdd(o) \/ KernelRemove(o) PROVE FALSE
  BY <1>3, <1>4 DEF KernelAdd, KernelRemove
<1>5. ASSUME NEW o \in Objects, NEW aborted \in BOOLEAN, ScanEnds(o, aborted)
      PROVE  FALSE
  BY <1>2, <1>3, <1>5 DEF ScanEnds
<1>6. CASE RecvDump
  <2>1. ~Accept(Chunk)
    <3>1. ASSUME Accept(Chunk) PROVE walk'.kind = walk.kind
      <4>1. PICK p : walk' = [walk EXCEPT !.pos = p]
        BY <3>1 DEF Accept
      <4>2. walk \in Walks
        BY <1>1 DEF DumpInv, OneDump, Walking
      <4> QED BY <4>1, <4>2 DEF Walks
    <3> QED BY <3>1 DEF Ends, NoWalk
  <2>2. ~Finish("Malformed")
    BY DEF Finish, Ends
  <2>3. Chunk = <<>> /\ Done
    BY <1>6, <2>1, <2>2 DEF RecvDump
  <2> QED BY <1>1, <2>3 DEF Done
<1>7. ASSUME NEW p, Start(p) PROVE FALSE
  BY <1>1, <1>7 DEF Start
<1>8. ASSUME NEW c, Refuse(c) PROVE FALSE
  BY <1>1, <1>8 DEF Refuse
<1>9. ~(Fails \/ SendDump \/ ResolveFamily \/ NoScanInterface \/ SendTrigger \/ Transact)
  <2>1. ~Fails
    BY DEF Fails, Finish, Ends
  <2>2. ~(SendDump \/ ResolveFamily \/ NoScanInterface \/ SendTrigger \/ Transact)
    BY <1>1 DEF SendDump, ResolveFamily, NoScanInterface, SendTrigger, Transact
  <2> QED BY <2>1, <2>2
<1>10. CASE InstallHandler \/ RequestShutdown \/ MonitorStep
  BY <1>2, <1>10 DEF InstallHandler, RequestShutdown, MonitorStep, Show,
                     CheckShutdown, RecvEvents, WouldBlock, MStays, client
<1>11. ASSUME NEW s, OpenSource(s) PROVE FALSE
  BY <1>2, <1>11 DEF OpenSource, client
<1>12. CASE UNCHANGED vars
  BY <1>2, <1>12 DEF vars, client
<1> QED BY <1>4, <1>5, <1>6, <1>7, <1>8, <1>9, <1>10, <1>11, <1>12 DEF Next

(* It holds at first.                                                      *)
LEMMA DumpStarts == Init => DumpInv
BY TablesStart DEF Init, DumpInv, OneDump

(* The invariant of the dumps, on which the next theorem rests: a table    *)
(* holds nothing twice, and a dump has exactly the readable entries that   *)
(* it came past and that were there throughout.                            *)
THEOREM DumpsAreTracked == Spec => [](DumpInv /\ Requested)
<1>1. DumpInv /\ Requested /\ [Next]_vars => (DumpInv /\ Requested)'
  BY DumpHolds, RequestedHolds
<1>2. Init => DumpInv /\ Requested
  BY DumpStarts, MonitorStarts
<1> QED BY <1>1, <1>2, PTL DEF Spec

(* However the tables change between the datagrams of a dump, it returns   *)
(* only what was there during it, and all that was there throughout, once  *)
(* and in order, when the walk is by key or the table kept still: for any  *)
(* tables and any number of entries in a datagram (transact_dump,          *)
(* get_links, get_addresses, get_routes).                                  *)
THEOREM DumpsAreFair == Spec => DumpIsFair
<1> DEFINE Result ==
             LET back == ToSet(got') IN
             /\ back \subseteq walk.during
             /\ (walk.kind \in Keyed \/ ~walk.shifted) =>
                  /\ { o \in walk.through : Parsed(o) } \subseteq back
                  /\ Len(got') = Cardinality(back)
                  /\ walk.kind \notin Unsorted =>
                       \A i, j \in DOMAIN got' : i < j => got'[i].key <= got'[j].key
<1>1. DumpInv /\ Requested /\ [Next]_vars => [Ends => Result]_vars
  <2> SUFFICES ASSUME DumpInv, Requested, [Next]_vars, Ends PROVE Result
    OBVIOUS
  <2>1. pc = "recv" /\ Chunk = <<>> /\ got' = Sorted(walk.kind, got)
    BY EndIsDone
  <2>2. Tables /\ Walking
    BY <2>1 DEF DumpInv, OneDump
  <2> QED BY <2>1, <2>2, DoneIsFair
<1> QED BY <1>1, DumpsAreTracked, PTL DEF Spec, DumpIsFair

=============================================================================
