----------------------------- MODULE SumsProofs -----------------------------
(***************************************************************************)
(* Facts about sums of sequences of every length and of functions on every *)
(* finite set.  The induction theorems of the library take an operator and *)
(* cannot be instantiated, so induction is over the set of the naturals,   *)
(* or of the subsets, a fact holds for.                                    *)
(***************************************************************************)
EXTENDS Sums, Integers, Functions, FiniteSetTheorems, WellFoundedInduction, TLAPS

(***************************************************************************)
(* Products, each in a lemma of its own: the solver proves them alone but  *)
(* not in the middle of a larger goal.                                     *)
(***************************************************************************)

\* The product of naturals is a natural.
LEMMA ProductNat ==
  ASSUME NEW x \in Nat, NEW y \in Nat
  PROVE  x * y \in Nat
OBVIOUS

\* Multiplication distributes over addition.
LEMMA ProductOfSum ==
  ASSUME NEW x \in Nat, NEW y \in Nat, NEW z \in Nat
  PROVE  x * (y + z) = x * y + x * z
OBVIOUS

\* Multiplication commutes.
LEMMA ProductCommutes ==
  ASSUME NEW x \in Nat, NEW y \in Nat
  PROVE  x * y = y * x
OBVIOUS

\* A common factor can be cancelled from an inequality.
LEMMA CancelFactor ==
  ASSUME NEW x \in Nat \ {0}, NEW y \in Nat, NEW z \in Nat, x * y <= x * z
  PROVE  y <= z
OBVIOUS

\* A larger factor makes a larger product.
LEMMA ProductMonotone ==
  ASSUME NEW x \in Nat, NEW y \in Nat, NEW z \in Nat, y <= z
  PROVE  x * y <= x * z
OBVIOUS

\* Integer division rounds down, by less than the divisor.
LEMMA DivisionRoundsDown ==
  ASSUME NEW x \in Nat, NEW y \in Nat \ {0}
  PROVE  /\ x \div y \in Nat
         /\ y * (x \div y) <= x
         /\ x <= y * (x \div y) + (y - 1)
OBVIOUS

\* Integer division is monotone.
LEMMA DivisionMonotone ==
  ASSUME NEW x \in Nat, NEW z \in Nat, x <= z, NEW y \in Nat \ {0}
  PROVE  x \div y <= z \div y
<1> DEFINE p == x \div y  q == z \div y
<1>1. p \in Nat /\ q \in Nat /\ y * p <= x /\ z <= y * q + (y - 1)
  BY DivisionRoundsDown
<1> HIDE DEF p, q
<1>2. SUFFICES ASSUME q + 1 <= p PROVE FALSE
  BY <1>1 DEF p, q
<1>3. y * (q + 1) <= y * p /\ y * (q + 1) = y * q + y * 1
  BY <1>1, <1>2, ProductMonotone, ProductOfSum
<1>4. y * q \in Nat /\ y * p \in Nat
  BY <1>1, ProductNat
<1> DEFINE yp == y * p  yq == y * q
<1>5. /\ yp \in Nat /\ yq \in Nat /\ yp <= x /\ z <= yq + (y - 1)
      /\ yq + y <= yp
  BY <1>1, <1>3, <1>4
<1> HIDE DEF yp, yq
<1> QED
  BY <1>5

(***************************************************************************)
(* Induction.                                                              *)
(***************************************************************************)

\* A set of naturals that is not empty has a least element.
LEMMA LeastNatural ==
  ASSUME NEW T \in SUBSET Nat, T # {}
  PROVE  \E m \in T : \A k \in T : m <= k
<1>1. PICK m \in T : \A k \in T : ~(<<k, m>> \in OpToRel(<, Nat))
  BY WFMin, NatLessThanWellFounded
<1>2. \A k \in T : ~(k < m)
  BY <1>1 DEF OpToRel
<1> QED
  BY <1>2

\* Induction over Nat: a set that has 0 and every successor has every natural.
LEMMA NatSetInduction ==
  ASSUME NEW S, 0 \in S, \A n \in Nat : n \in S => n + 1 \in S
  PROVE  Nat \subseteq S
<1> SUFFICES ASSUME Nat \ S # {} PROVE FALSE
  OBVIOUS
<1>1. PICK m \in Nat \ S : \A k \in Nat \ S : m <= k
  BY LeastNatural
<1>2. m # 0
  BY <1>1
<1>3. m - 1 \in Nat /\ m - 1 < m /\ (m - 1) + 1 = m
  BY <1>1, <1>2
<1>4. m - 1 \in S
  BY <1>1, <1>3
<1> QED
  BY <1>3, <1>4

\* A recurrence that determines a function of the naturals up to k has a
\* solution; the running totals are the solution of theirs.
LEMMA RunningTotalsExist ==
  ASSUME NEW f \in Seq(Nat)
  PROVE  \E g \in [0..Len(f) -> Nat] :
            g[0] = 0 /\ \A i \in 1..Len(f) : g[i] = g[i-1] + f[i]
<1> DEFINE Good(n) == \E g \in [0..n -> Nat] :
                         g[0] = 0 /\ \A i \in 1..n : g[i] = g[i-1] + f[i]
           S == {n \in Nat : n <= Len(f) => Good(n)}
<1>1. 0 \in S
  <2> DEFINE g == [i \in 0..0 |-> 0]
  <2>1. g \in [0..0 -> Nat] /\ g[0] = 0 /\ \A i \in 1..0 : g[i] = g[i-1] + f[i]
    OBVIOUS
  <2> QED
    BY <2>1
<1>2. ASSUME NEW n \in Nat, n \in S PROVE n + 1 \in S
  <2>1. SUFFICES ASSUME n + 1 <= Len(f) PROVE Good(n + 1)
    <3> HIDE DEF Good
    <3> QED  OBVIOUS
  <2>2. n <= Len(f) /\ n \in Nat /\ Len(f) \in Nat
    BY <2>1
  <2>3. Good(n)
    <3> HIDE DEF Good
    <3> QED  BY <1>2, <2>2
  <2>4. PICK g \in [0..n -> Nat] :
                g[0] = 0 /\ \A i \in 1..n : g[i] = g[i-1] + f[i]
    BY <2>3
  <2> DEFINE h == [i \in 0..(n + 1) |-> IF i = n + 1 THEN g[n] + f[n+1] ELSE g[i]]
  <2>5. f[n+1] \in Nat /\ g[n] \in Nat
    BY <2>1, <2>4
  <2>6. h \in [0..(n + 1) -> Nat]
    BY <2>4, <2>5
  <2>7. h[0] = 0
    BY <2>4
  <2>8. \A i \in 1..(n + 1) : h[i] = h[i-1] + f[i]
    <3>1. TAKE i \in 1..(n + 1)
    <3>2. CASE i = n + 1
      BY <3>2
    <3>3. CASE i # n + 1
      BY <2>4, <3>3
    <3> QED
      BY <3>2, <3>3
  <2> HIDE DEF h
  <2> QED
    BY <2>6, <2>7, <2>8
<1>3. Nat \subseteq S
  <2> HIDE DEF S
  <2> QED BY <1>1, <1>2, NatSetInduction
<1> HIDE DEF Good
<1>4. Good(Len(f))
  BY <1>3
<1> QED
  BY <1>4 DEF Good

\* The running totals of a sequence of naturals: what the accumulator of a
\* loop over it holds before the first and after every iteration.
LEMMA RunningTotalsDef ==
  ASSUME NEW f \in Seq(Nat)
  PROVE  /\ RunningTotals(f) \in [0..Len(f) -> Nat]
         /\ RunningTotals(f)[0] = 0
         /\ \A i \in 1..Len(f) :
               RunningTotals(f)[i] = RunningTotals(f)[i-1] + f[i]
<1> DEFINE Step(g) == [i \in 0..Len(f) |-> IF i = 0 THEN 0 ELSE g[i-1] + f[i]]
           R == RunningTotals(f)
<1>0. Len(f) \in Nat /\ \A i \in 1..Len(f) : f[i] \in Nat
  OBVIOUS
<1>1. PICK g \in [0..Len(f) -> Nat] :
              g[0] = 0 /\ \A i \in 1..Len(f) : g[i] = g[i-1] + f[i]
  BY RunningTotalsExist
<1>2. g = Step(g)
  BY <1>1
<1>3. R = CHOOSE h : h = Step(h)
  BY DEF RunningTotals
<1> HIDE DEF R
<1>4. R = Step(R)
  <2> HIDE DEF Step
  <2> QED
    BY <1>2, <1>3, Zenon
<1>5. \A i \in 0..Len(f) : R[i] = IF i = 0 THEN 0 ELSE R[i-1] + f[i]
  <2> DEFINE E(i) == IF i = 0 THEN 0 ELSE R[i-1] + f[i]
  <2>1. R = [i \in 0..Len(f) |-> E(i)]
    BY <1>4, Zenon
  <2> HIDE DEF E
  <2>2. \A i \in 0..Len(f) : R[i] = E(i)
    BY <2>1, Zenon
  <2> QED
    BY <2>2, Zenon DEF E
<1>6. R[0] = 0
  BY <1>0, <1>5
<1>7. ASSUME NEW i \in 1..Len(f) PROVE R[i] = R[i-1] + f[i]
  <2>1. i \in 0..Len(f) /\ i # 0
    BY <1>0
  <2> QED
    BY <1>5, <2>1, Zenon
<1> DEFINE S == {n \in Nat : n <= Len(f) => R[n] \in Nat}
<1>8. 0 \in S
  BY <1>6
<1>9. ASSUME NEW n \in Nat, n \in S PROVE n + 1 \in S
  <2>1. SUFFICES ASSUME n + 1 <= Len(f) PROVE R[n + 1] \in Nat
    OBVIOUS
  <2>2. n + 1 \in 1..Len(f) /\ (n + 1) - 1 = n /\ n <= Len(f)
    BY <1>0, <2>1
  <2>3. R[n] \in Nat
    BY <1>9, <2>2
  <2>4. R[n + 1] = R[n] + f[n + 1]
    BY <1>7, <2>2
  <2> QED
    BY <1>0, <2>2, <2>3, <2>4
<1>10. Nat \subseteq S
  <2> HIDE DEF S
  <2> QED BY <1>8, <1>9, NatSetInduction
<1>11. \A n \in 0..Len(f) : R[n] \in Nat
  BY <1>0, <1>10
<1>12. R \in [0..Len(f) -> Nat]
  <2> DEFINE E(i) == IF i = 0 THEN 0 ELSE R[i-1] + f[i]
  <2>1. R = [i \in 0..Len(f) |-> E(i)]
    BY <1>4, Zenon
  <2>2. \A i \in 0..Len(f) : E(i) \in Nat
    BY <1>5, <1>11, Zenon
  <2> HIDE DEF E
  <2> QED
    BY <2>1, <2>2
<1> QED
  BY <1>6, <1>7, <1>12, Zenon DEF R

\* A sum of naturals is a natural.
LEMMA TotalNat ==
  ASSUME NEW f \in Seq(Nat)
  PROVE  Total(f) \in Nat
<1>1. Len(f) \in 0..Len(f)
  OBVIOUS
<1> QED
  BY <1>1, RunningTotalsDef DEF Total

\* A linear bound on every element is a linear bound on the sum, with the
\* constant counted once per element.
LEMMA TotalLinear ==
  ASSUME NEW f \in Seq(Nat), NEW g \in Seq(Nat), Len(g) = Len(f),
         NEW b \in Nat, NEW c \in Nat, NEW d \in Nat,
         \A i \in 1..Len(f) : b * g[i] <= c * f[i] + d
  PROVE  b * Total(g) <= c * Total(f) + d * Len(f)
<1> DEFINE F == RunningTotals(f)
           G == RunningTotals(g)
           S == {n \in Nat : n <= Len(f) => b * G[n] <= c * F[n] + d * n}
<1>0. \A i \in 1..Len(f) : f[i] \in Nat /\ g[i] \in Nat
  BY SMTT(30)
<1>1. /\ F \in [0..Len(f) -> Nat] /\ G \in [0..Len(f) -> Nat]
      /\ F[0] = 0 /\ G[0] = 0
      /\ \A i \in 1..Len(f) : F[i] = F[i-1] + f[i] /\ G[i] = G[i-1] + g[i]
  BY RunningTotalsDef
<1> HIDE DEF F, G
<1>2. 0 \in S
  BY <1>1
<1>3. ASSUME NEW n \in Nat, n \in S PROVE n + 1 \in S
  <2>1. SUFFICES ASSUME n + 1 <= Len(f)
                 PROVE  b * G[n+1] <= c * F[n+1] + d * (n+1)
    OBVIOUS
  <2>2. n + 1 \in 1..Len(f) /\ n \in 0..Len(f) /\ n <= Len(f) /\ (n + 1) - 1 = n
    BY <2>1
  <2>3. F[n+1] = F[n] + f[n+1] /\ G[n+1] = G[n] + g[n+1]
    BY <1>1, <2>2
  <2>4. b * G[n] <= c * F[n] + d * n
    BY <1>3, <2>2
  <2>5. b * g[n+1] <= c * f[n+1] + d
    BY <2>2
  <2>6. F[n] \in Nat /\ G[n] \in Nat /\ f[n+1] \in Nat /\ g[n+1] \in Nat
    <3>1. F[n] \in Nat /\ G[n] \in Nat
      BY <1>1, <2>2
    <3> QED
      BY <1>0, <2>2, <3>1
  <2>7. /\ b * (G[n] + g[n+1]) = b * G[n] + b * g[n+1]
        /\ c * (F[n] + f[n+1]) = c * F[n] + c * f[n+1]
        /\ d * (n + 1) = d * n + d
    <3> DEFINE u == G[n]  v == g[n+1]  x == F[n]  y == f[n+1]
    <3>1. u \in Nat /\ v \in Nat /\ x \in Nat /\ y \in Nat
      BY <2>6
    <3> HIDE DEF u, v, x, y
    <3>2. b * (u + v) = b * u + b * v
      BY <3>1, ProductOfSum
    <3>3. c * (x + y) = c * x + c * y
      BY <3>1, ProductOfSum
    <3>4. d * (n + 1) = d * n + d * 1
      BY ProductOfSum
    <3> QED
      BY <3>2, <3>3, <3>4 DEF u, v, x, y
  <2> DEFINE bG == b * G[n]  bg == b * g[n+1]
             cF == c * F[n]  cf == c * f[n+1]  dn == d * n
  <2>8. bG \in Nat /\ bg \in Nat /\ cF \in Nat /\ cf \in Nat /\ dn \in Nat
    BY <2>6, ProductNat
  <2>9. bG <= cF + dn /\ bg <= cf + d
    BY <2>4, <2>5
  <2>10. /\ b * G[n+1] = bG + bg /\ c * F[n+1] = cF + cf /\ d * (n+1) = dn + d
    BY <2>3, <2>7
  <2> HIDE DEF bG, bg, cF, cf, dn
  <2>11. bG + bg <= (cF + cf) + (dn + d)
    BY <2>8, <2>9
  <2> QED
    BY <2>10, <2>11
<1>4. Nat \subseteq S
  <2> HIDE DEF S
  <2> QED BY <1>2, <1>3, NatSetInduction
<1>5. b * G[Len(f)] <= c * F[Len(f)] + d * Len(f)
  BY <1>4
<1> QED
  BY <1>5 DEF Total, F, G

\* No element exceeds the sum.
LEMMA ElementWithinTotal ==
  ASSUME NEW f \in Seq(Nat), NEW k \in 1..Len(f)
  PROVE  f[k] <= Total(f)
<1> DEFINE F == RunningTotals(f)
           S == {n \in Nat : k <= n /\ n <= Len(f) => f[k] <= F[n]}
<1>0. \A i \in 1..Len(f) : f[i] \in Nat
  OBVIOUS
<1>1. /\ F \in [0..Len(f) -> Nat]
      /\ \A i \in 1..Len(f) : F[i] = F[i-1] + f[i]
  BY RunningTotalsDef
<1> HIDE DEF F
<1>2. 0 \in S
  OBVIOUS
<1>3. ASSUME NEW n \in Nat, n \in S PROVE n + 1 \in S
  <2>1. SUFFICES ASSUME k <= n + 1, n + 1 <= Len(f) PROVE f[k] <= F[n+1]
    OBVIOUS
  <2>2. n + 1 \in 1..Len(f) /\ n \in 0..Len(f) /\ n <= Len(f) /\ (n + 1) - 1 = n
    BY <2>1
  <2>3. F[n+1] = F[n] + f[n+1] /\ F[n] \in Nat /\ f[n+1] \in Nat /\ f[k] \in Nat
    BY <1>0, <1>1, <2>2
  <2>4. CASE k = n + 1
    BY <2>3, <2>4
  <2>5. CASE k # n + 1
    <3>1. f[k] <= F[n]
      BY <1>3, <2>1, <2>2, <2>5
    <3> QED
      BY <2>3, <3>1
  <2> QED
    BY <2>4, <2>5
<1>4. Nat \subseteq S
  <2> HIDE DEF S
  <2> QED BY <1>2, <1>3, NatSetInduction
<1>5. f[k] <= F[Len(f)]
  BY <1>4
<1> QED
  BY <1>5 DEF Total, F

\* Two sums over the same slots can be added slot by slot.
LEMMA TotalAdds ==
  ASSUME NEW f \in Seq(Nat), NEW g \in Seq(Nat), NEW h \in Seq(Nat),
         Len(g) = Len(f), Len(h) = Len(f),
         \A i \in 1..Len(f) : h[i] = f[i] + g[i]
  PROVE  Total(h) = Total(f) + Total(g)
<1> DEFINE F == RunningTotals(f)
           G == RunningTotals(g)
           H == RunningTotals(h)
           S == {n \in Nat : n <= Len(f) => H[n] = F[n] + G[n]}
<1>0. \A i \in 1..Len(f) : f[i] \in Nat /\ g[i] \in Nat
  BY SMTT(30)
<1>1. /\ F \in [0..Len(f) -> Nat] /\ G \in [0..Len(f) -> Nat] /\ H \in [0..Len(f) -> Nat]
      /\ F[0] = 0 /\ G[0] = 0 /\ H[0] = 0
      /\ \A i \in 1..Len(f) : /\ F[i] = F[i-1] + f[i] /\ G[i] = G[i-1] + g[i]
                              /\ H[i] = H[i-1] + h[i]
  BY RunningTotalsDef
<1> HIDE DEF F, G, H
<1>2. 0 \in S
  BY <1>1
<1>3. ASSUME NEW n \in Nat, n \in S PROVE n + 1 \in S
  <2>1. SUFFICES ASSUME n + 1 <= Len(f) PROVE H[n+1] = F[n+1] + G[n+1]
    OBVIOUS
  <2>2. n + 1 \in 1..Len(f) /\ n \in 0..Len(f) /\ n <= Len(f) /\ (n + 1) - 1 = n
    BY <2>1
  <2>3. F[n+1] = F[n] + f[n+1] /\ G[n+1] = G[n] + g[n+1] /\ H[n+1] = H[n] + h[n+1]
    BY <1>1, <2>2
  <2>4. H[n] = F[n] + G[n] /\ h[n+1] = f[n+1] + g[n+1]
    BY <1>3, <2>2
  <2> DEFINE x == F[n]  y == G[n]  u == f[n+1]  v == g[n+1]
  <2>5. x \in Nat /\ y \in Nat
    BY <1>1, <2>2
  <2>6. u \in Nat /\ v \in Nat
    BY <1>0, <2>2
  <2>7. F[n+1] = x + u /\ G[n+1] = y + v /\ H[n+1] = (x + y) + (u + v)
    BY <2>3, <2>4
  <2> HIDE DEF x, y, u, v
  <2> QED
    BY <2>5, <2>6, <2>7
<1>4. Nat \subseteq S
  <2> HIDE DEF S
  <2> QED BY <1>2, <1>3, NatSetInduction
<1>5. H[Len(f)] = F[Len(f)] + G[Len(f)]
  BY <1>4
<1> QED
  BY <1>5 DEF Total, F, G, H

\* A loop over smaller elements has summed up less at every iteration.
LEMMA RunningTotalsBelow ==
  ASSUME NEW f \in Seq(Nat), NEW g \in Seq(Nat), Len(f) = Len(g),
         \A i \in 1..Len(g) : f[i] <= g[i]
  PROVE  \A n \in 0..Len(g) : RunningTotals(f)[n] <= RunningTotals(g)[n]
<1> DEFINE F == RunningTotals(f)
           G == RunningTotals(g)
           L == Len(g)
           S == {n \in Nat : n <= L => F[n] <= G[n]}
<1>1. L \in Nat /\ \A i \in 1..L : f[i] \in Nat /\ g[i] \in Nat /\ f[i] <= g[i]
  OBVIOUS
<1>2. /\ F \in [0..L -> Nat] /\ F[0] = 0 /\ \A i \in 1..L : F[i] = F[i-1] + f[i]
      /\ G \in [0..L -> Nat] /\ G[0] = 0 /\ \A i \in 1..L : G[i] = G[i-1] + g[i]
  BY RunningTotalsDef
<1> HIDE DEF F, G, L
<1>3. Nat \subseteq S
  <2>1. 0 \in S
    BY <1>2
  <2>2. ASSUME NEW n \in Nat, n \in S PROVE n + 1 \in S
    <3>1. SUFFICES ASSUME n + 1 <= L PROVE F[n+1] <= G[n+1]
      OBVIOUS
    <3>2. n + 1 \in 1..L /\ n \in 0..L /\ n <= L /\ (n + 1) - 1 = n
      BY <1>1, <3>1
    <3>3. /\ F[n+1] = F[n] + f[n+1] /\ G[n+1] = G[n] + g[n+1] /\ F[n] <= G[n]
          /\ f[n+1] <= g[n+1] /\ f[n+1] \in Nat /\ g[n+1] \in Nat
          /\ F[n] \in Nat /\ G[n] \in Nat
      BY <1>1, <1>2, <2>2, <3>2
    <3> DEFINE a == F[n]  b == G[n]  c == f[n+1]  d == g[n+1]
    <3>4. /\ a \in Nat /\ b \in Nat /\ c \in Nat /\ d \in Nat
          /\ a <= b /\ c <= d /\ F[n+1] = a + c /\ G[n+1] = b + d
      BY <3>3
    <3> HIDE DEF a, b, c, d
    <3>5. a + c <= b + d
      BY <3>4
    <3> QED
      BY <3>4, <3>5
  <2> HIDE DEF S
  <2> QED
    BY <2>1, <2>2, NatSetInduction
<1>4. \A n \in 0..L : F[n] <= G[n]
  BY <1>1, <1>3
<1> QED
  BY <1>4 DEF F, G, L

\* What a loop over g has spent before an iteration and spends in it is within
\* the sum, also when f leaves some of the elements out.
LEMMA SpentWithinTotal ==
  ASSUME NEW f \in Seq(Nat), NEW g \in Seq(Nat), Len(f) = Len(g),
         \A i \in 1..Len(g) : f[i] <= g[i], NEW k \in 1..Len(g)
  PROVE  /\ RunningTotals(f)[k-1] \in Nat
         /\ RunningTotals(f)[k-1] + g[k] <= Total(g)
<1> DEFINE F == RunningTotals(f)
           G == RunningTotals(g)
           L == Len(g)
           T == {n \in Nat : k <= n /\ n <= L => F[k-1] + g[k] <= G[n]}
<1>1. L \in Nat /\ k \in 1..L /\ \A i \in 1..L : f[i] \in Nat /\ g[i] \in Nat /\ f[i] <= g[i]
  OBVIOUS
<1>2. /\ F \in [0..L -> Nat] /\ F[0] = 0 /\ \A i \in 1..L : F[i] = F[i-1] + f[i]
      /\ G \in [0..L -> Nat] /\ G[0] = 0 /\ \A i \in 1..L : G[i] = G[i-1] + g[i]
  BY RunningTotalsDef
<1>3. \A n \in 0..L : F[n] <= G[n]
  BY RunningTotalsBelow
<1> HIDE DEF F, G, L
<1>4. /\ k - 1 \in Nat /\ k - 1 <= L /\ k - 1 \in 0..L
      /\ F[k-1] \in Nat /\ G[k-1] \in Nat /\ g[k] \in Nat /\ F[k-1] <= G[k-1]
  BY <1>1, <1>2, <1>3
<1>5. Nat \subseteq T
  <2>1. 0 \in T
    BY <1>1
  <2>2. ASSUME NEW n \in Nat, n \in T PROVE n + 1 \in T
    <3>1. SUFFICES ASSUME k <= n + 1, n + 1 <= L PROVE F[k-1] + g[k] <= G[n+1]
      OBVIOUS
    <3>2. n + 1 \in 1..L /\ n \in 0..L /\ n <= L /\ (n + 1) - 1 = n
      BY <1>1, <3>1
    <3>3. G[n+1] = G[n] + g[n+1] /\ G[n] \in Nat /\ g[n+1] \in Nat
      BY <1>1, <1>2, <3>2
    <3>4. CASE k = n + 1
      BY <1>4, <3>2, <3>3, <3>4
    <3>5. CASE k # n + 1
      <4>1. F[k-1] + g[k] <= G[n]
        BY <1>1, <2>2, <3>1, <3>2, <3>5
      <4> DEFINE a == F[k-1] + g[k]  b == G[n]  c == g[n+1]
      <4>2. a \in Nat
        BY <1>4
      <4>3. b \in Nat /\ c \in Nat /\ G[n+1] = b + c
        BY <3>3, Zenon
      <4>4. a <= b
        BY <4>1, Zenon
      <4> HIDE DEF a, b, c
      <4>5. a <= b + c
        BY <4>2, <4>3, <4>4
      <4> QED
        BY <4>3, <4>5 DEF a
    <3> QED
      BY <3>4, <3>5
  <2> HIDE DEF T
  <2> QED
    BY <2>1, <2>2, NatSetInduction
<1>6. F[k-1] + g[k] <= G[L]
  BY <1>1, <1>5
<1> QED
  BY <1>4, <1>6 DEF Total, F, G, L

\* A sum of zeros is zero.
LEMMA TotalOfZeros ==
  ASSUME NEW f \in Seq(Nat), \A i \in 1..Len(f) : f[i] = 0
  PROVE  Total(f) = 0
<1>1. 1 * Total(f) <= 0 * Total(f) + 0 * Len(f)
  <2>1. \A i \in 1..Len(f) : 1 * f[i] <= 0 * f[i] + 0
    OBVIOUS
  <2> QED
    BY <2>1, TotalLinear
<1>2. Total(f) \in Nat
  BY TotalNat
<1> QED
  BY <1>1, <1>2

(***************************************************************************)
(* Sums over finite sets: SumFunctionOnSet of the community modules, which *)
(* adds up the values of a function in an order nobody knows.              *)
(***************************************************************************)

\* Induction over the subsets of a finite set: a collection that has the empty
\* set, and with every subset the subset and one element more, has the set.
LEMMA FiniteSetInduction ==
  ASSUME NEW S, IsFiniteSet(S), NEW Good, {} \in Good,
         \A T \in SUBSET S, x \in S : T \in Good /\ x \notin T => T \cup {x} \in Good
  PROVE  S \in Good
<1> DEFINE N == {n \in Nat : \A T \in SUBSET S : Cardinality(T) = n => T \in Good}
<1>1. \A T \in SUBSET S : IsFiniteSet(T) /\ Cardinality(T) \in Nat
  BY FS_Subset, FS_CardinalityType
<1>2. 0 \in N
  BY <1>1, FS_EmptySet
<1>3. ASSUME NEW n \in Nat, n \in N PROVE n + 1 \in N
  <2>1. SUFFICES ASSUME NEW T \in SUBSET S, Cardinality(T) = n + 1 PROVE T \in Good
    OBVIOUS
  <2>2. PICK x \in T : TRUE
    BY <1>1, <2>1, FS_EmptySet
  <2>3. /\ T \ {x} \in SUBSET S /\ Cardinality(T \ {x}) = n
        /\ (T \ {x}) \cup {x} = T
    <3>1. Cardinality(T \ {x}) = Cardinality(T) - 1
      BY <1>1, <2>2, FS_RemoveElement
    <3> QED
      BY <2>1, <2>2, <3>1
  <2>4. T \ {x} \in Good
    BY <1>3, <2>3
  <2> QED
    BY <2>2, <2>3, <2>4
<1>4. Nat \subseteq N
  <2> HIDE DEF N
  <2> QED
    BY <1>2, <1>3, NatSetInduction
<1>5. S \in SUBSET S /\ Cardinality(S) \in Nat
  BY <1>1
<1> QED
  BY <1>4, <1>5

\* The element a fold over s takes next.
Chosen(s) == CHOOSE x \in s : TRUE

\* g[s] is what a loop over s adds up, for every part s of S.
SumLoop(f, S, g) ==
  \A s \in SUBSET S : g[s] = IF s = {} THEN 0 ELSE f[Chosen(s)] + g[s \ {Chosen(s)}]

\* Every step of the loop leaves a smaller part.
LEMMA ChosenLeaves ==
  ASSUME NEW S, IsFiniteSet(S), NEW s \in SUBSET S, s # {}
  PROVE  /\ Chosen(s) \in s /\ Chosen(s) \in S
         /\ s \ {Chosen(s)} \in SUBSET S
         /\ Cardinality(s) \in Nat \ {0}
         /\ Cardinality(s \ {Chosen(s)}) = Cardinality(s) - 1
<1>1. Chosen(s) \in s
  BY DEF Chosen
<1>2. IsFiniteSet(s) /\ Cardinality(s) \in Nat \ {0}
  BY FS_Subset, FS_CardinalityType, FS_EmptySet
<1>3. Cardinality(s \ {Chosen(s)}) = Cardinality(s) - 1
  BY <1>1, <1>2, FS_RemoveElement
<1> QED
  BY <1>1, <1>2, <1>3

\* The loop over a finite set has a result.
LEMMA SumLoopExists ==
  ASSUME NEW f, NEW S, IsFiniteSet(S), \A x \in S : f[x] \in Int
  PROVE  \E g \in [SUBSET S -> Int] : SumLoop(f, S, g)
<1> DEFINE D(n) == {s \in SUBSET S : Cardinality(s) <= n}
           Loops(n, g) == \A s \in D(n) :
                 g[s] = IF s = {} THEN 0 ELSE f[Chosen(s)] + g[s \ {Chosen(s)}]
           N == {n \in Nat : \E g \in [D(n) -> Int] : Loops(n, g)}
<1>1. \A s \in SUBSET S : IsFiniteSet(s) /\ Cardinality(s) \in Nat
  BY FS_Subset, FS_CardinalityType
<1>2. 0 \in N
  <2> DEFINE g == [s \in D(0) |-> 0]
  <2>1. \A s \in D(0) : s = {}
    BY <1>1, FS_EmptySet
  <2>2. g \in [D(0) -> Int] /\ Loops(0, g)
    BY <2>1
  <2> QED
    BY <2>2
<1>3. ASSUME NEW n \in Nat, n \in N PROVE n + 1 \in N
  <2>1. PICK g \in [D(n) -> Int] : Loops(n, g)
    BY <1>3
  <2> DEFINE E(s) == IF s = {} THEN 0 ELSE f[Chosen(s)] + g[s \ {Chosen(s)}]
             h == [s \in D(n + 1) |-> E(s)]
  <2>2. \A s \in D(n + 1) : s # {} =>
          s \ {Chosen(s)} \in D(n) /\ f[Chosen(s)] \in Int
    BY <1>1, ChosenLeaves
  <2>3. \A s \in D(n + 1) : E(s) \in Int
    BY <2>1, <2>2
  <2>4. \A s \in D(n) : s \in D(n + 1) /\ E(s) = g[s]
    BY <1>1, <2>1
  <2> HIDE DEF E
  <2>5. h \in [D(n + 1) -> Int] /\ \A s \in D(n) : h[s] = g[s]
    BY <2>3, <2>4
  <2>6. \A s \in D(n + 1) : h[s] = E(s)
    OBVIOUS
  <2> HIDE DEF h
  <2>7. Loops(n + 1, h)
    <3> HIDE DEF D
    <3> QED
      BY <2>2, <2>5, <2>6 DEF E
  <2> HIDE DEF Loops, D
  <2> QED
    BY <2>5, <2>7
<1>4. Nat \subseteq N
  <2> HIDE DEF N
  <2> QED
    BY <1>2, <1>3, NatSetInduction
<1>5. Cardinality(S) \in N
  BY <1>1, <1>4
<1>6. D(Cardinality(S)) = SUBSET S
  BY <1>1, FS_Subset
<1>7. PICK g \in [SUBSET S -> Int] : Loops(Cardinality(S), g)
  <2> HIDE DEF D, Loops
  <2> QED
    BY <1>5, <1>6
<1> QED
  BY <1>6, <1>7 DEF SumLoop

\* The loop has one result only, an integer.
LEMMA SumLoopUnique ==
  ASSUME NEW f, NEW S, IsFiniteSet(S), \A x \in S : f[x] \in Int,
         NEW g, SumLoop(f, S, g), NEW h, SumLoop(f, S, h)
  PROVE  \A s \in SUBSET S : g[s] = h[s] /\ g[s] \in Int
<1> DEFINE Same(s) == g[s] = h[s] /\ g[s] \in Int
           N == {n \in Nat : \A s \in SUBSET S : Cardinality(s) = n => Same(s)}
<1>1. \A s \in SUBSET S : IsFiniteSet(s) /\ Cardinality(s) \in Nat
  BY FS_Subset, FS_CardinalityType
<1>2. Same({})
  <2>1. {} \in SUBSET S
    OBVIOUS
  <2>2. g[{}] = 0 /\ h[{}] = 0
    BY <2>1 DEF SumLoop
  <2> QED
    BY <2>2
<1>3. 0 \in N
  BY <1>1, <1>2, FS_EmptySet
<1>4. ASSUME NEW n \in Nat, n \in N PROVE n + 1 \in N
  <2>1. SUFFICES ASSUME NEW s \in SUBSET S, Cardinality(s) = n + 1 PROVE Same(s)
    OBVIOUS
  <2>2. s # {}
    BY <2>1, FS_EmptySet
  <2> DEFINE r == s \ {Chosen(s)}
  <2>3. r \in SUBSET S /\ Cardinality(r) = n /\ Chosen(s) \in S
    BY <2>1, <2>2, ChosenLeaves
  <2>4. g[r] = h[r] /\ g[r] \in Int
    BY <1>4, <2>3
  <2>5. g[s] = f[Chosen(s)] + g[r] /\ h[s] = f[Chosen(s)] + h[r]
    BY <2>2 DEF SumLoop
  <2> HIDE DEF r
  <2> QED
    BY <2>3, <2>4, <2>5
<1>5. Nat \subseteq N
  <2> HIDE DEF N
  <2> QED
    BY <1>3, <1>4, NatSetInduction
<1> QED
  BY <1>1, <1>5

\* SumFunctionOnSet is the result of the loop, over the set and its parts.
LEMMA SumLoopDef ==
  ASSUME NEW f, NEW S, IsFiniteSet(S), \A x \in S : f[x] \in Int
  PROVE  \E g : SumLoop(f, S, g) /\ \A T \in SUBSET S : SumFunctionOnSet(f, T) = g[T]
<1> DEFINE Step(T, g) == [s \in SUBSET T |->
                            IF s = {} THEN 0 ELSE f[Chosen(s)] + g[s \ {Chosen(s)}]]
           R(T) == CHOOSE h : h = Step(T, h)
<1>1. ASSUME NEW T \in SUBSET S
      PROVE  SumLoop(f, T, R(T)) /\ SumFunctionOnSet(f, T) = R(T)[T]
  <2>1. IsFiniteSet(T)
    BY FS_Subset
  <2>2. PICK g \in [SUBSET T -> Int] : SumLoop(f, T, g)
    BY <2>1, SumLoopExists
  <2>3. g = Step(T, g)
    BY <2>2 DEF SumLoop
  <2>4. SumFunctionOnSet(f, T) = R(T)[T]
    BY DEF SumFunctionOnSet, FoldFunctionOnSet, MapThenFoldSet, Chosen
  <2>5. R(T) = Step(T, R(T))
    <3> HIDE DEF Step
    <3> QED
      BY <2>3, Zenon
  <2> HIDE DEF R
  <2>6. \A s \in SUBSET T : Step(T, R(T))[s] =
          IF s = {} THEN 0 ELSE f[Chosen(s)] + R(T)[s \ {Chosen(s)}]
    OBVIOUS
  <2> HIDE DEF Step
  <2>7. SumLoop(f, T, R(T))
    BY <2>5, <2>6 DEF SumLoop
  <2> QED
    BY <2>4, <2>7
<1> HIDE DEF R
<1>2. ASSUME NEW T \in SUBSET S PROVE SumFunctionOnSet(f, T) = R(S)[T]
  <2>1. SumLoop(f, T, R(S))
    BY <1>1 DEF SumLoop
  <2>2. IsFiniteSet(T)
    BY FS_Subset
  <2>3. R(T)[T] = R(S)[T]
    BY <1>1, <2>1, <2>2, SumLoopUnique
  <2> QED
    BY <1>1, <2>3
<1> QED
  BY <1>1, <1>2

\* A sum over a finite set is an integer, 0 for the empty set, and loses the
\* value of the element that is taken out first.
LEMMA SumOfChosen ==
  ASSUME NEW f, NEW S, IsFiniteSet(S), \A x \in S : f[x] \in Int
  PROVE  /\ SumFunctionOnSet(f, S) \in Int
         /\ S = {} => SumFunctionOnSet(f, S) = 0
         /\ S # {} => SumFunctionOnSet(f, S) =
                        f[Chosen(S)] + SumFunctionOnSet(f, S \ {Chosen(S)})
<1>1. PICK g : SumLoop(f, S, g) /\ \A T \in SUBSET S : SumFunctionOnSet(f, T) = g[T]
  BY SumLoopDef
<1>2. S \in SUBSET S /\ S \ {Chosen(S)} \in SUBSET S
  OBVIOUS
<1>3. g[S] \in Int
  BY <1>1, <1>2, SumLoopUnique
<1>4. g[S] = IF S = {} THEN 0 ELSE f[Chosen(S)] + g[S \ {Chosen(S)}]
  BY <1>1, <1>2 DEF SumLoop
<1> QED
  BY <1>1, <1>2, <1>3, <1>4

\* The order does not matter: any element may be taken out.
LEMMA SumWithout ==
  ASSUME NEW f, NEW S, IsFiniteSet(S), \A x \in S : f[x] \in Int, NEW x \in S
  PROVE  /\ SumFunctionOnSet(f, S) = f[x] + SumFunctionOnSet(f, S \ {x})
         /\ SumFunctionOnSet(f, S \ {x}) \in Int
<1> DEFINE Sum(T) == SumFunctionOnSet(f, T)
           Takes(T) == \A y \in T : Sum(T) = f[y] + Sum(T \ {y})
           N == {n \in Nat : \A T \in SUBSET S : Cardinality(T) = n => Takes(T)}
<1>1. \A T \in SUBSET S : IsFiniteSet(T) /\ Cardinality(T) \in Nat /\ Sum(T) \in Int
  BY FS_Subset, FS_CardinalityType, SumOfChosen
<1>2. 0 \in N
  BY <1>1, FS_EmptySet
<1>3. ASSUME NEW n \in Nat, n \in N PROVE n + 1 \in N
  <2>1. SUFFICES ASSUME NEW T \in SUBSET S, Cardinality(T) = n + 1, NEW y \in T
                 PROVE  Sum(T) = f[y] + Sum(T \ {y})
    OBVIOUS
  <2> DEFINE c == Chosen(T)
             C == T \ {c}
             Y == T \ {y}
             B == (T \ {c}) \ {y}
  <2>2. c \in T /\ C \in SUBSET S /\ Y \in SUBSET S /\ B \in SUBSET S
    BY <2>1, ChosenLeaves
  <2>3. Cardinality(C) = n /\ Cardinality(Y) = n
    <3>1. IsFiniteSet(T) /\ Cardinality(T) - 1 = n
      BY <1>1, <2>1
    <3>2. Cardinality(T \ {c}) = Cardinality(T) - 1
      BY <2>2, <3>1, FS_RemoveElement
    <3>3. Cardinality(T \ {y}) = Cardinality(T) - 1
      BY <3>1, FS_RemoveElement
    <3> QED
      BY <3>1, <3>2, <3>3
  <2>4. Sum(T) = f[c] + Sum(C)
    BY <1>1, <2>2, SumOfChosen
  <2> HIDE DEF Sum, c
  <2>5. CASE c = y
    BY <2>4, <2>5
  <2>6. CASE c # y
    <3>1. Sum(C) = f[y] + Sum(B)
      BY <1>3, <2>2, <2>3, <2>6
    <3>2. Y \ {c} = B /\ c \in Y
      BY <2>2, <2>6
    <3>3. Sum(Y) = f[c] + Sum(B)
      BY <1>3, <2>2, <2>3, <3>2
    <3>4. Sum(B) \in Int /\ f[c] \in Int /\ f[y] \in Int
      BY <1>1, <2>2
    <3> HIDE DEF B, C, Y
    <3>5. Sum(T) = f[y] + Sum(Y)
      BY <2>4, <3>1, <3>3, <3>4
    <3> QED
      BY <3>5 DEF Y
  <2> QED
    BY <2>5, <2>6
<1>4. Nat \subseteq N
  <2> HIDE DEF N
  <2> QED
    BY <1>2, <1>3, NatSetInduction
<1> QED
  BY <1>1, <1>4

\* Adding an element to a set adds its value to the sum.
LEMMA SumWith ==
  ASSUME NEW f, NEW T, IsFiniteSet(T), NEW x, x \notin T,
         \A y \in T \cup {x} : f[y] \in Int
  PROVE  /\ SumFunctionOnSet(f, T \cup {x}) = f[x] + SumFunctionOnSet(f, T)
         /\ SumFunctionOnSet(f, T) \in Int
<1> DEFINE U == T \cup {x}
<1>1. IsFiniteSet(U)
  BY FS_AddElement
<1>2. U \ {x} = T /\ x \in U /\ \A y \in U : f[y] \in Int
  OBVIOUS
<1> HIDE DEF U
<1>3. /\ SumFunctionOnSet(f, U) = f[x] + SumFunctionOnSet(f, U \ {x})
      /\ SumFunctionOnSet(f, U \ {x}) \in Int
  BY <1>1, <1>2, SumWithout
<1> QED
  BY <1>2, <1>3 DEF U

\* The sum of pointwise sums is the sum of the sums.
LEMMA SumOfSums ==
  ASSUME NEW S, IsFiniteSet(S), NEW f, NEW g, NEW h,
         \A x \in S : f[x] \in Int, \A x \in S : g[x] \in Int,
         \A x \in S : h[x] = f[x] + g[x]
  PROVE  SumFunctionOnSet(h, S) = SumFunctionOnSet(f, S) + SumFunctionOnSet(g, S)
<1> DEFINE F(T) == SumFunctionOnSet(f, T)
           G(T) == SumFunctionOnSet(g, T)
           H(T) == SumFunctionOnSet(h, T)
           Good == {T \in SUBSET S : H(T) = F(T) + G(T)}
<1>1. {} \in Good
  <2>1. IsFiniteSet({})
    BY FS_EmptySet
  <2>2. F({}) = 0 /\ G({}) = 0 /\ H({}) = 0
    BY <2>1, SumOfChosen
  <2> QED
    BY <2>2
<1>2. ASSUME NEW T \in SUBSET S, NEW x \in S, T \in Good, x \notin T
      PROVE  T \cup {x} \in Good
  <2>1. IsFiniteSet(T) /\ T \cup {x} \in SUBSET S
    BY FS_Subset
  <2>2. F(T \cup {x}) = f[x] + F(T) /\ F(T) \in Int
    BY <1>2, <2>1, SumWith
  <2>3. G(T \cup {x}) = g[x] + G(T) /\ G(T) \in Int
    BY <1>2, <2>1, SumWith
  <2>4. \A y \in T \cup {x} : h[y] \in Int
    BY <2>1
  <2>5. H(T \cup {x}) = h[x] + H(T)
    BY <1>2, <2>1, <2>4, SumWith
  <2>6. H(T) = F(T) + G(T) /\ h[x] = f[x] + g[x] /\ f[x] \in Int /\ g[x] \in Int
    BY <1>2
  <2> HIDE DEF F, G, H
  <2>7. H(T \cup {x}) = F(T \cup {x}) + G(T \cup {x})
    BY <2>2, <2>3, <2>5, <2>6
  <2> QED
    BY <2>1, <2>7
<1>3. S \in Good
  <2> HIDE DEF Good
  <2> QED
    BY <1>1, <1>2, FiniteSetInduction
<1> QED
  BY <1>3

\* A sum of zeros is zero, however many.
LEMMA SumOfZeros ==
  ASSUME NEW S, IsFiniteSet(S), NEW f, \A x \in S : f[x] = 0
  PROVE  SumFunctionOnSet(f, S) = 0
<1>1. SumFunctionOnSet(f, S) = SumFunctionOnSet(f, S) + SumFunctionOnSet(f, S)
  BY SumOfSums
<1>2. \A x \in S : f[x] \in Int
  OBVIOUS
<1> DEFINE F == SumFunctionOnSet(f, S)
<1>3. F \in Int /\ F = F + F
  BY <1>1, <1>2, SumOfChosen
<1> HIDE DEF F
<1>4. F = 0
  BY <1>3
<1> QED
  BY <1>4 DEF F

\* Functions with the same values have the same sum.
LEMMA SameSum ==
  ASSUME NEW S, IsFiniteSet(S), NEW f, NEW g,
         \A x \in S : f[x] \in Int /\ g[x] = f[x]
  PROVE  SumFunctionOnSet(g, S) = SumFunctionOnSet(f, S)
<1> DEFINE z == [x \in S |-> 0]
<1>1. SumFunctionOnSet(z, S) = 0
  BY SumOfZeros
<1>2. \A x \in S : z[x] \in Int /\ g[x] = f[x] + z[x]
  OBVIOUS
<1> HIDE DEF z
<1>3. SumFunctionOnSet(g, S) = SumFunctionOnSet(f, S) + SumFunctionOnSet(z, S)
  BY <1>2, SumOfSums
<1>4. SumFunctionOnSet(f, S) \in Int
  BY SumOfChosen
<1> QED
  BY <1>1, <1>3, <1>4

\* Changing one value changes the sum by as much.
LEMMA SumChangedAt ==
  ASSUME NEW S, IsFiniteSet(S), NEW f \in [S -> Int], NEW g \in [S -> Int], NEW a \in S,
         \A x \in S : x # a => g[x] = f[x]
  PROVE  /\ SumFunctionOnSet(g, S) = SumFunctionOnSet(f, S) + g[a] - f[a]
         /\ SumFunctionOnSet(f, S) \in Int
<1>1. IsFiniteSet(S \ {a})
  BY FS_RemoveElement
<1>2. SumFunctionOnSet(g, S \ {a}) = SumFunctionOnSet(f, S \ {a})
  BY <1>1, SameSum
<1>3. /\ SumFunctionOnSet(f, S) = f[a] + SumFunctionOnSet(f, S \ {a})
      /\ SumFunctionOnSet(f, S \ {a}) \in Int
  BY SumWithout
<1>4. SumFunctionOnSet(g, S) = g[a] + SumFunctionOnSet(g, S \ {a})
  BY SumWithout
<1>5. f[a] \in Int /\ g[a] \in Int
  OBVIOUS
<1> DEFINE F == SumFunctionOnSet(f, S)  G == SumFunctionOnSet(g, S)
           R == SumFunctionOnSet(f, S \ {a})
<1>6. F = f[a] + R /\ G = g[a] + R /\ R \in Int
  BY <1>2, <1>3, <1>4
<1> HIDE DEF F, G, R
<1>7. G = F + g[a] - f[a] /\ F \in Int
  BY <1>5, <1>6
<1> QED
  BY <1>7 DEF F, G

\* What one account gives to another, the sum of all keeps.
LEMMA SumOfMoved ==
  ASSUME NEW S, IsFiniteSet(S), NEW f \in [S -> Int], NEW g \in [S -> Int],
         NEW a \in S, NEW b \in S, a # b, NEW n \in Int,
         \A x \in S : x # a /\ x # b => g[x] = f[x],
         g[a] = f[a] - n, g[b] = f[b] + n
  PROVE  SumFunctionOnSet(g, S) = SumFunctionOnSet(f, S)
<1> DEFINE h == [x \in S |-> IF x = a THEN g[a] ELSE f[x]]
<1>1. /\ h \in [S -> Int]
      /\ \A x \in S : x # a => h[x] = f[x]
      /\ \A x \in S : x # b => g[x] = h[x]
      /\ h[a] = g[a] /\ h[b] = f[b]
  OBVIOUS
<1> HIDE DEF h
<1>2. /\ SumFunctionOnSet(h, S) = SumFunctionOnSet(f, S) + h[a] - f[a]
      /\ SumFunctionOnSet(f, S) \in Int
  BY <1>1, SumChangedAt
<1>3. SumFunctionOnSet(g, S) = SumFunctionOnSet(h, S) + g[b] - h[b]
  BY <1>1, SumChangedAt
<1> DEFINE F == SumFunctionOnSet(f, S)  G == SumFunctionOnSet(g, S)
           H == SumFunctionOnSet(h, S)
<1>4. H = F + h[a] - f[a] /\ F \in Int /\ G = H + g[b] - h[b]
  BY <1>2, <1>3
<1>5. f[a] \in Int /\ f[b] \in Int /\ h[a] = f[a] - n /\ h[b] = f[b]
  BY <1>1
<1> HIDE DEF F, G, H
<1>6. G = F
  BY <1>4, <1>5
<1> QED
  BY <1>6 DEF F, G

\* A function changed at one place.
LEMMA SumGrowsAt ==
  ASSUME NEW S, IsFiniteSet(S), NEW f \in [S -> Int], NEW g \in [S -> Int],
         NEW a \in S, NEW n \in Int,
         \A x \in S : x # a => g[x] = f[x],
         g[a] = f[a] + n
  PROVE  /\ SumFunction(g) = SumFunction(f) + n
         /\ SumFunction(f) \in Int
<1> DEFINE A == SumFunctionOnSet(f, S)
<1>1. SumFunctionOnSet(g, S) = A + g[a] - f[a] /\ A \in Int
  BY SumChangedAt
<1>2. SumFunction(f) = A /\ SumFunction(g) = SumFunctionOnSet(g, S)
  BY DEF SumFunction
<1>3. f[a] \in Int
  OBVIOUS
<1> HIDE DEF A
<1> QED
  BY <1>1, <1>2, <1>3

\* A sum with one value only is that value.
LEMMA SumOfOne ==
  ASSUME NEW S, IsFiniteSet(S), NEW a \in S, NEW f, f[a] \in Int,
         \A x \in S : x # a => f[x] = 0
  PROVE  SumFunctionOnSet(f, S) = f[a]
<1>1. IsFiniteSet(S \ {a}) /\ \A x \in S \ {a} : f[x] = 0
  BY FS_RemoveElement
<1>2. SumFunctionOnSet(f, S \ {a}) = 0
  BY <1>1, SumOfZeros
<1>3. \A x \in S : f[x] \in Int
  OBVIOUS
<1>4. SumFunctionOnSet(f, S) = f[a] + SumFunctionOnSet(f, S \ {a})
  BY <1>3, SumWithout
<1> QED
  BY <1>2, <1>4

\* A sum of naturals is a natural.
LEMMA SumOfNaturals ==
  ASSUME NEW S, IsFiniteSet(S), NEW f, \A x \in S : f[x] \in Nat
  PROVE  SumFunctionOnSet(f, S) \in Nat
<1> DEFINE F(T) == SumFunctionOnSet(f, T)
           Good == {T \in SUBSET S : F(T) \in Nat}
<1>1. {} \in Good
  <2>1. IsFiniteSet({})
    BY FS_EmptySet
  <2>2. F({}) = 0
    BY <2>1, SumOfChosen
  <2> QED
    BY <2>2
<1>2. ASSUME NEW T \in SUBSET S, NEW x \in S, T \in Good, x \notin T
      PROVE  T \cup {x} \in Good
  <2>1. IsFiniteSet(T) /\ T \cup {x} \in SUBSET S /\ \A y \in T \cup {x} : f[y] \in Int
    BY FS_Subset
  <2>2. F(T \cup {x}) = f[x] + F(T)
    BY <1>2, <2>1, SumWith
  <2>3. f[x] \in Nat /\ F(T) \in Nat
    BY <1>2
  <2> HIDE DEF F
  <2>4. F(T \cup {x}) \in Nat
    BY <2>2, <2>3
  <2> QED
    BY <2>1, <2>4
<1>3. S \in Good
  <2> HIDE DEF Good
  <2> QED
    BY <1>1, <1>2, FiniteSetInduction
<1> QED
  BY <1>3

\* One value, and two together, are within a sum of naturals.
LEMMA ValuesWithinSum ==
  ASSUME NEW S, IsFiniteSet(S), NEW f, \A x \in S : f[x] \in Nat, NEW a \in S
  PROVE  /\ SumFunctionOnSet(f, S) \in Nat
         /\ f[a] <= SumFunctionOnSet(f, S)
         /\ \A b \in S : b # a => f[a] + f[b] <= SumFunctionOnSet(f, S)
<1> DEFINE F == SumFunctionOnSet(f, S)
           A == SumFunctionOnSet(f, S \ {a})
<1>1. IsFiniteSet(S \ {a})
  BY FS_RemoveElement
<1>2. F \in Nat /\ A \in Nat
  BY <1>1, SumOfNaturals
<1>3. F = f[a] + A /\ f[a] \in Nat
  BY SumWithout
<1>4. ASSUME NEW b \in S, b # a PROVE f[a] + f[b] <= F
  <2> DEFINE B == SumFunctionOnSet(f, (S \ {a}) \ {b})
  <2>1. IsFiniteSet((S \ {a}) \ {b})
    BY <1>1, FS_RemoveElement
  <2>2. B \in Nat
    BY <2>1, SumOfNaturals
  <2>3. b \in S \ {a} /\ \A x \in S \ {a} : f[x] \in Int
    BY <1>4
  <2>4. A = f[b] + B
    BY <1>1, <2>3, SumWithout
  <2>5. f[b] \in Nat
    OBVIOUS
  <2> HIDE DEF A, B, F
  <2> QED
    BY <1>3, <2>2, <2>4, <2>5
<1>5. f[a] <= F
  <2> HIDE DEF A, F
  <2> QED
    BY <1>2, <1>3
<1> QED
  BY <1>2, <1>4, <1>5

\* The part of the sequence s that goes to a, at the places of a.
PartOf(address, s, a) == [i \in 1..Len(s) |-> IF address[i] = a THEN s[i] ELSE 0]

\* What is handed out slot by slot is what the addresses are handed together:
\* the sum, over the addresses, of the totals of their slots is the total.
LEMMA SumOfParts ==
  ASSUME NEW S, IsFiniteSet(S), NEW s \in Seq(Nat), NEW address,
         \A i \in 1..Len(s) : address[i] \in S,
         NEW f, \A a \in S : f[a] = Total(PartOf(address, s, a))
  PROVE  SumFunctionOnSet(f, S) = Total(s)
<1> DEFINE n == Len(s)
           R == RunningTotals(s)
           P(a) == RunningTotals(PartOf(address, s, a))
           row(k) == [a \in S |-> P(a)[k]]
           N == {k \in Nat : k <= n => SumFunctionOnSet(row(k), S) = R[k]}
<1>1. /\ n \in Nat /\ R \in [0..n -> Nat] /\ R[0] = 0
      /\ \A i \in 1..n : s[i] \in Nat /\ R[i] = R[i-1] + s[i]
  BY RunningTotalsDef
<1>2. ASSUME NEW a \in S
      PROVE  /\ P(a) \in [0..n -> Nat] /\ P(a)[0] = 0
             /\ \A i \in 1..n : P(a)[i] = P(a)[i-1] + IF address[i] = a THEN s[i] ELSE 0
             /\ Total(PartOf(address, s, a)) = P(a)[n]
  <2> DEFINE p == PartOf(address, s, a)
  <2>1. p \in [1..n -> Nat] /\ \A i \in 1..n : p[i] = IF address[i] = a THEN s[i] ELSE 0
    BY <1>1 DEF PartOf
  <2> HIDE DEF p
  <2>2. p \in Seq(Nat) /\ Len(p) = n
    <3>1. n \in Nat /\ p \in [1..n -> Nat]
      BY <1>1, <2>1
    <3> HIDE DEF n
    <3> QED
      BY <3>1
  <2>3. /\ RunningTotals(p) \in [0..n -> Nat] /\ RunningTotals(p)[0] = 0
        /\ \A i \in 1..n : RunningTotals(p)[i] = RunningTotals(p)[i-1] + p[i]
    BY <2>2, RunningTotalsDef
  <2>4. Total(p) = RunningTotals(p)[n]
    BY <2>2 DEF Total
  <2> QED
    BY <2>1, <2>3, <2>4 DEF p
<1> HIDE DEF n, R, P
<1>3. 0 \in N
  <2>1. \A a \in S : row(0)[a] = 0
    BY <1>2
  <2> HIDE DEF row
  <2>2. SumFunctionOnSet(row(0), S) = 0
    BY <2>1, SumOfZeros
  <2> QED
    BY <1>1, <2>2
<1>4. ASSUME NEW k \in Nat, k \in N PROVE k + 1 \in N
  <2>1. SUFFICES ASSUME k + 1 <= n PROVE SumFunctionOnSet(row(k + 1), S) = R[k + 1]
    OBVIOUS
  <2> DEFINE one == [a \in S |-> IF address[k + 1] = a THEN s[k + 1] ELSE 0]
             b == address[k + 1]
  <2>2. k + 1 \in 1..n /\ (k + 1) - 1 = k /\ k \in 0..n /\ k + 1 \in 0..n /\ k <= n
    BY <1>1, <2>1
  <2>3. s[k + 1] \in Int /\ b \in S
    BY <1>1, <2>2 DEF n
  <2>4. /\ one[b] = s[k + 1]
        /\ \A a \in S : (a # b => one[a] = 0) /\ one[a] \in Int
    BY <2>3
  <2>5. ASSUME NEW a \in S
        PROVE  row(k)[a] \in Int /\ row(k + 1)[a] = row(k)[a] + one[a]
    <3>1. /\ P(a) \in [0..n -> Nat]
          /\ P(a)[k + 1] = P(a)[(k + 1) - 1]
                            + IF address[k + 1] = a THEN s[k + 1] ELSE 0
      BY <1>2, <2>2
    <3>2. P(a)[k] \in Nat /\ P(a)[k + 1] = P(a)[k] + one[a]
      BY <2>2, <3>1
    <3> QED
      BY <3>2
  <2>6. SumFunctionOnSet(row(k), S) = R[k]
    BY <1>4, <2>2
  <2> HIDE DEF one, row, b
  <2>7. SumFunctionOnSet(one, S) = s[k + 1]
    BY <2>3, <2>4, SumOfOne
  <2>8. SumFunctionOnSet(row(k + 1), S) =
          SumFunctionOnSet(row(k), S) + SumFunctionOnSet(one, S)
    BY <2>4, <2>5, SumOfSums
  <2>9. R[k + 1] = R[k] + s[k + 1]
    BY <1>1, <2>2
  <2> QED
    BY <2>6, <2>7, <2>8, <2>9
<1>5. Nat \subseteq N
  <2> HIDE DEF N
  <2> QED
    BY <1>3, <1>4, NatSetInduction
<1>6. SumFunctionOnSet(row(n), S) = R[n]
  <2> HIDE DEF row
  <2> QED
    BY <1>1, <1>5
<1>7. \A a \in S : row(n)[a] \in Int /\ f[a] = row(n)[a]
  BY <1>1, <1>2
<1> HIDE DEF row
<1>8. SumFunctionOnSet(f, S) = SumFunctionOnSet(row(n), S)
  BY <1>7, SameSum
<1> QED
  BY <1>6, <1>8 DEF R, n, Total

=============================================================================
