-------------------------- MODULE HealthRatioProofs --------------------------
(***************************************************************************)
(* Theorems about the float32 arithmetic of IsHealthy: its verdict is the  *)
(* one of exact arithmetic, but for two numbers of processes in a pool of  *)
(* a hundred.                                                              *)
(***************************************************************************)
EXTENDS HealthRatio, TLAPS

-------------------------------------------------------------------------------
\* Division and rounding.

\* What truncating division returns, without the division.
LEMMA DivBounds ==
  ASSUME NEW a \in Nat, NEW b \in Nat \ {0}
  PROVE  /\ a \div b \in Nat
         /\ b * (a \div b) <= a
         /\ a < b * (a \div b) + b
         /\ a % b = a - b * (a \div b)
OBVIOUS

LEMMA TimesMono ==
  ASSUME NEW a \in Int, NEW b \in Int, NEW c \in Nat, a <= b
  PROVE  c * a <= c * b
OBVIOUS

\* The quotient lies where the products say it lies.
LEMMA DivRange ==
  ASSUME NEW a \in Nat, NEW b \in Nat \ {0}, NEW lo \in Nat, NEW hi \in Nat,
         b * lo <= a, a < b * (hi + 1)
  PROVE  a \div b \in lo .. hi
<1> DEFINE q == a \div b
<1>1. q \in Nat /\ b * q <= a /\ a < b * q + b
  BY DivBounds
<1> HIDE DEF q
<1>2. b \in Nat /\ b * q \in Nat /\ b * (q + 1) = b * q + b
  BY <1>1
<1>3. lo <= q
  <2>1. SUFFICES ASSUME q + 1 <= lo PROVE FALSE
    BY <1>1
  <2>2. b * (q + 1) <= b * lo
    BY <1>1, <1>2, <2>1, TimesMono
  <2> QED
    BY <1>1, <1>2, <2>2
<1>4. q <= hi
  <2>1. SUFFICES ASSUME hi + 1 <= q PROVE FALSE
    BY <1>1
  <2>2. b * (hi + 1) <= b * q
    BY <1>1, <1>2, <2>1, TimesMono
  <2> QED
    BY <1>1, <1>2, <2>2
<1> QED
  BY <1>1, <1>3, <1>4 DEF q

\* Rounding to the nearest integer is off by at most a half; a half is rounded
\* down only to an even number.
LEMMA RoundHalfEvenBounds ==
  ASSUME NEW a \in Nat, NEW b \in Nat \ {0}
  PROVE  /\ RoundHalfEven(a, b) \in Nat
         /\ RoundHalfEven(a, b) \in {a \div b, a \div b + 1}
         /\ 2 * (b * RoundHalfEven(a, b)) <= 2 * a + b
         /\ 2 * a <= 2 * (b * RoundHalfEven(a, b)) + b
         /\ 2 * a = 2 * (b * RoundHalfEven(a, b)) + b => RoundHalfEven(a, b) % 2 = 0
<1> DEFINE q == a \div b
           m == a % b
           z == RoundHalfEven(a, b)
<1>1. q \in Nat /\ b * q <= a /\ a < b * q + b /\ m = a - b * q
  BY DivBounds
<1>2. \/ z = q /\ 2 * m <= b /\ (2 * m = b => q % 2 = 0)
      \/ z = q + 1 /\ 2 * m >= b
  BY <1>1 DEF RoundHalfEven
<1> HIDE DEF q, m, z
<1>3. b * q \in Nat /\ b * (q + 1) = b * q + b /\ b \in Nat
  BY <1>1
<1> QED
  BY <1>1, <1>2, <1>3 DEF z, q

LEMMA LeastType == Least \in Nat /\ Least > 14592
BY SMT DEF Least

\* A share of at least 1/128 has a mantissa.
LEMMA ShareHasMantissa ==
  ASSUME NEW n \in 1 .. 128, NEW running \in 1 .. n
  PROVE  \E x \in ShareScale : (running * x) \div n \in Mantissa
<1>0. n \in Nat \ {0} /\ Least \in Nat /\ 2 * Least - 1 \in Nat
  BY LeastType
<1>1. ASSUME NEW k \in Nat, k * Least \in ShareScale,
             n <= k * running, k * running < 2 * n
      PROVE  \E x \in ShareScale : (running * x) \div n \in Mantissa
  <2>1. /\ running * (k * Least) \in Nat
        /\ running * (k * Least) = Least * (k * running)
        /\ n * ((2 * Least - 1) + 1) = Least * (2 * n)
        /\ n * Least = Least * n
        /\ k * running \in Nat
    BY <1>0, <1>1
  <2>2. Least * n <= Least * (k * running)
    BY <1>0, <1>1, <2>1, TimesMono
  <2>3. Least * (k * running + 1) <= Least * (2 * n)
    BY <1>0, <1>1, <2>1, TimesMono
  <2>4. running * (k * Least) < n * ((2 * Least - 1) + 1)
    BY <1>0, <2>1, <2>3, LeastType
  <2>5. (running * (k * Least)) \div n \in Least .. (2 * Least - 1)
    BY <1>0, <2>1, <2>2, <2>4, DivRange
  <2> QED
    BY <1>1, <2>5 DEF Mantissa
<1>2. /\ 1 * Least \in ShareScale /\ 2 * Least \in ShareScale
      /\ 4 * Least \in ShareScale /\ 8 * Least \in ShareScale
      /\ 16 * Least \in ShareScale /\ 32 * Least \in ShareScale
      /\ 64 * Least \in ShareScale /\ 128 * Least \in ShareScale
  BY <1>0 DEF ShareScale
<1>3. \E k \in {1, 2, 4, 8, 16, 32, 64, 128} :
        n <= k * running /\ k * running < 2 * n
  OBVIOUS
<1> QED
  BY <1>1, <1>2, <1>3

\* So has a mantissa, or the next power of two, times 100.
LEMMA ProductHasMantissa ==
  ASSUME NEW share \in Least .. 2 * Least
  PROVE  \E x \in ProductScale : (share * 100) \div x \in Mantissa
<1> USE LeastType
<1>1. CASE share * 100 < 128 * Least
  BY <1>1 DEF ProductScale, Mantissa
<1>2. CASE share * 100 >= 128 * Least
  BY <1>2 DEF ProductScale, Mantissa
<1> QED
  BY <1>1, <1>2

\* What Percentage computes, without CHOOSE and division: the share in units of
\* 1 / u, the product in units of w / u, and what the two roundings may change.
Roundings(running, n, u, share, w, product) ==
  /\ n * Least <= running * u /\ running * u < n * (2 * Least)
  /\ w * Least <= share * 100 /\ share * 100 < w * (2 * Least)
  /\ 2 * (n * share) <= 2 * (running * u) + n
  /\ 2 * (running * u) <= 2 * (n * share) + n
  /\ 2 * (w * product) <= 200 * share + w
  /\ 200 * share <= 2 * (w * product) + w
  /\ 200 * share = 2 * (w * product) + w => product % 2 = 0
  /\ u * Percentage(running, n) <= w * product
  /\ w * product < u * Percentage(running, n) + u

LEMMA PercentageSteps ==
  ASSUME NEW n \in 1 .. 128, NEW running \in 1 .. n
  PROVE  /\ Percentage(running, n) \in Nat
         /\ \E u \in ShareScale, share \in Nat, w \in ProductScale, product \in Nat :
              Roundings(running, n, u, share, w, product)
<1> DEFINE u == CHOOSE x \in ShareScale : (running * x) \div n \in Mantissa
           share == RoundHalfEven(running * u, n)
           w == CHOOSE x \in ProductScale : (share * 100) \div x \in Mantissa
           product == RoundHalfEven(share * 100, w)
           percentage == (product * w) \div u
<1>1. Percentage(running, n) = percentage
  BY DEF Percentage
<1>2. n \in Nat \ {0} /\ running \in Nat
  OBVIOUS
<1>3. u \in ShareScale /\ (running * u) \div n \in Mantissa
  BY ShareHasMantissa
<1> HIDE DEF u
<1>4. u \in Nat \ {0}
  BY <1>3, LeastType DEF ShareScale
<1>5. running * u \in Nat
  BY <1>2, <1>4
<1>6. /\ share \in Nat /\ share \in {(running * u) \div n, (running * u) \div n + 1}
      /\ 2 * (n * share) <= 2 * (running * u) + n
      /\ 2 * (running * u) <= 2 * (n * share) + n
  BY <1>2, <1>5, RoundHalfEvenBounds
<1>7. (running * u) \div n \in Least .. 2 * Least - 1
  BY <1>3 DEF Mantissa
<1>8. n * Least <= running * u /\ running * u < n * (2 * Least)
  <2> DEFINE q == (running * u) \div n
  <2>1. q \in Nat /\ n * q <= running * u /\ running * u < n * q + n
    BY <1>2, <1>5, DivBounds
  <2>2. q \in Least .. 2 * Least - 1
    BY <1>7
  <2> HIDE DEF q
  <2>3. n * Least <= n * q /\ n * (q + 1) <= n * (2 * Least) /\ n * (q + 1) = n * q + n
    BY <1>2, <2>1, <2>2, LeastType, TimesMono
  <2>4. n * q \in Nat /\ n * Least \in Nat /\ n * (2 * Least) \in Nat
    BY <1>2, <2>1, LeastType
  <2> QED
    BY <1>2, <1>5, <2>1, <2>3, <2>4
<1>9. share \in Least .. 2 * Least
  <2> HIDE DEF share
  <2> QED
    BY <1>6, <1>7, LeastType
<1> HIDE DEF share
<1>10. w \in ProductScale /\ (share * 100) \div w \in Mantissa
  BY <1>9, ProductHasMantissa
<1> HIDE DEF w
<1>11. w \in Nat \ {0} /\ share * 100 \in Nat
  BY <1>6, <1>10 DEF ProductScale
<1>12. w * Least <= share * 100 /\ share * 100 < w * (2 * Least)
  <2>1. w = 64 \/ w = 128
    BY <1>10 DEF ProductScale
  <2>2. (share * 100) \div w \in Least .. 2 * Least - 1
    BY <1>10 DEF Mantissa
  <2> QED
    BY <1>6, <2>1, <2>2, LeastType
<1>13. /\ product \in Nat
       /\ 2 * (w * product) <= 2 * (share * 100) + w
       /\ 2 * (share * 100) <= 2 * (w * product) + w
       /\ 2 * (share * 100) = 2 * (w * product) + w => product % 2 = 0
  BY <1>11, RoundHalfEvenBounds
<1>14. 2 * (share * 100) = 200 * share
  BY <1>6
<1> HIDE DEF product
<1>15. /\ percentage \in Nat
       /\ u * percentage <= w * product
       /\ w * product < u * percentage + u
  <2>1. product * w \in Nat /\ product * w = w * product
    BY <1>11, <1>13
  <2> QED
    BY <1>4, <2>1, DivBounds
<1> HIDE DEF percentage
<1> QED
  BY <1>1, <1>3, <1>6, <1>8, <1>10, <1>12, <1>13, <1>14, <1>15 DEF Roundings

\* Both units are positive numbers.
LEMMA Scales ==
  /\ \A u \in ShareScale : u \in Nat \ {0} /\ u >= Least
  /\ \A w \in ProductScale : w \in Nat \ {0} /\ w <= 128
BY LeastType DEF ShareScale, ProductScale

\* The verdict of IsHealthy is the one of exact arithmetic but for ties: never
\* too early, and late only when the share is exactly the desired one.
LEMMA HealthyBounds ==
  ASSUME NEW n \in 1 .. 128, NEW running \in 0 .. n, NEW desired \in Int
  PROVE  /\ Healthy(running, n, desired) => 100 * running >= desired * n
         /\ 100 * running > desired * n => Healthy(running, n, desired)
<1>1. CASE running = 0
  <2>1. Healthy(running, n, desired) <=> desired <= 0
    BY <1>1 DEF Healthy, Percentage
  <2>2. desired <= 0 => n * desired <= n * 0
    BY TimesMono
  <2>3. desired >= 1 => n * 1 <= n * desired
    BY TimesMono
  <2> QED
    BY <1>1, <2>1, <2>2, <2>3
<1>2. CASE running # 0
  <2> DEFINE percentage == Percentage(running, n)
  <2>1. Healthy(running, n, desired) <=> percentage >= desired
    BY DEF Healthy
  <2>2. n \in Nat \ {0} /\ running \in 1 .. n
    BY <1>2
  <2>3. percentage \in Nat
    BY <2>2, PercentageSteps
  <2>0. PICK u \in ShareScale, share \in Nat, w \in ProductScale, product \in Nat :
          Roundings(running, n, u, share, w, product)
    BY <2>2, PercentageSteps
  <2>4. /\ 2 * (n * share) <= 2 * (running * u) + n
        /\ 2 * (running * u) <= 2 * (n * share) + n
        /\ 2 * (w * product) <= 200 * share + w
        /\ 200 * share <= 2 * (w * product) + w
        /\ u * percentage <= w * product
        /\ w * product < u * percentage + u
    BY <2>0 DEF Roundings
  <2> HIDE DEF percentage
  <2>5. u \in Nat \ {0} /\ u >= Least /\ w \in Nat \ {0} /\ w <= 128
    BY Scales
  <2>6. running * u \in Nat /\ n * share \in Nat /\ w * product \in Nat
    BY <2>2, <2>5
  \* The errors of the two roundings together stay below one process.
  <2>7. n * w <= n * 128 /\ n * w \in Nat
    BY <2>2, <2>5, TimesMono
  <2>8. 228 * n < 2 * u
    BY <2>2, <2>5, LeastType
  <2>9. n * (2 * (w * product)) <= n * (200 * share + w)
    BY <2>2, <2>4, <2>5, <2>6, TimesMono
  <2>10. n * (200 * share) <= n * (2 * (w * product) + w)
    BY <2>2, <2>4, <2>5, <2>6, TimesMono
  <2>11. /\ 2 * (n * (w * product)) <= 200 * (running * u) + 100 * n + n * w
         /\ 200 * (running * u) <= 2 * (n * (w * product)) + n * w + 100 * n
    <3>1. /\ n * (2 * (w * product)) = 2 * (n * (w * product))
          /\ n * (200 * share + w) = 200 * (n * share) + n * w
          /\ n * (200 * share) = 200 * (n * share)
          /\ n * (2 * (w * product) + w) = 2 * (n * (w * product)) + n * w
          /\ n * (w * product) \in Nat /\ n \in Nat
      BY <2>2, <2>5, <2>6
    <3> QED
      BY <2>4, <2>6, <2>7, <2>9, <2>10, <3>1
  <2>12. ASSUME percentage >= desired
         PROVE  100 * running >= desired * n
    <3>1. SUFFICES ASSUME 100 * running + 1 <= n * desired PROVE FALSE
      BY <2>2
    <3>2. u * (100 * running + 1) <= u * (n * desired)
      BY <2>2, <2>5, <3>1, TimesMono
    <3>3. (n * u) * desired <= (n * u) * percentage
      BY <2>2, <2>3, <2>5, <2>12, TimesMono
    <3>4. n * (u * percentage) <= n * (w * product)
      BY <2>2, <2>3, <2>4, <2>5, <2>6, TimesMono
    <3>5. /\ u * (100 * running + 1) = 100 * (running * u) + u
          /\ u * (n * desired) = (n * u) * desired
          /\ n * (u * percentage) = (n * u) * percentage
          /\ (n * u) * desired \in Int /\ (n * u) * percentage \in Nat
          /\ n * (w * product) \in Nat
      BY <2>2, <2>3, <2>5, <2>6
    <3> QED
      BY <2>2, <2>5, <2>6, <2>7, <2>8, <2>11, <3>2, <3>3, <3>4, <3>5
  <2>13. ASSUME 100 * running > desired * n
         PROVE  percentage >= desired
    <3>1. SUFFICES ASSUME percentage + 1 <= desired PROVE FALSE
      BY <2>3
    <3>2. u * (n * desired + 1) <= u * (100 * running)
      BY <2>2, <2>5, <2>13, TimesMono
    <3>3. (n * u) * (percentage + 1) <= (n * u) * desired
      BY <2>2, <2>3, <2>5, <3>1, TimesMono
    <3>4. n * (w * product) <= n * (u * percentage + u)
      BY <2>2, <2>3, <2>4, <2>5, <2>6, TimesMono
    <3>5. /\ u * (100 * running) = 100 * (running * u)
          /\ u * (n * desired + 1) = (n * u) * desired + u
          /\ n * (u * percentage + u) = (n * u) * (percentage + 1)
          /\ (n * u) * desired \in Int /\ (n * u) * (percentage + 1) \in Nat
          /\ n * (w * product) \in Nat
      BY <2>2, <2>3, <2>5, <2>6
    <3> QED
      BY <2>2, <2>5, <2>6, <2>7, <2>8, <2>11, <3>2, <3>3, <3>4, <3>5
  <2> QED
    BY <2>1, <2>12, <2>13
<1> QED
  BY <1>1, <1>2

\* A pool that is healthy stays so when one more of its processes runs.
LEMMA HealthyMonotone ==
  ASSUME NEW n \in 1 .. 128, NEW running \in 0 .. n - 1, NEW desired \in Int,
         Healthy(running, n, desired)
  PROVE  Healthy(running + 1, n, desired)
<1>0. running \in 0 .. n /\ running + 1 \in 0 .. n /\ desired * n \in Int
  OBVIOUS
<1>1. 100 * running >= desired * n
  BY <1>0, HealthyBounds
<1>2. 100 * (running + 1) > desired * n
  BY <1>0, <1>1
<1> QED
  BY <1>0, <1>2, HealthyBounds

-------------------------------------------------------------------------------
\* Ties: the share is exactly the desired one.

\* A factor can be cancelled.
LEMMA CancelFactor ==
  ASSUME NEW n \in Nat \ {0}, NEW a \in Int, NEW b \in Int, n * a <= n * b
  PROVE  a <= b
<1>1. SUFFICES ASSUME b + 1 <= a PROVE FALSE
  OBVIOUS
<1>2. n * (b + 1) <= n * a /\ n * (b + 1) = n * b + n
  BY <1>1, TimesMono
<1>3. n * a \in Int /\ n * b \in Int
  OBVIOUS
<1> QED
  BY <1>2, <1>3

\* The product is not below the desired percentage, with the share cancelled:
\* an error below w / 2 is rounded away, and so is one of exactly w / 2, because
\* the product it would become is odd.
LEMMA TieRounds ==
  ASSUME NEW d \in (1 .. 100) \ {53, 59}, NEW u \in ShareScale, NEW w \in ProductScale,
         NEW share \in Nat, NEW product \in Nat,
         100 * Least <= d * u, d * u < 200 * Least,
         share * 100 < w * (2 * Least),
         200 * share <= 2 * (d * u) + 100,
         2 * (d * u) <= 200 * share + 100,
         2 * (w * product) <= 200 * share + w,
         200 * share <= 2 * (w * product) + w,
         200 * share = 2 * (w * product) + w => product % 2 = 0
  PROVE  d * u <= w * product
<1>0. w \in {64, 128}
  BY DEF ProductScale
<1>1. CASE u = Least
  BY <1>0, <1>1, SMT DEF Least
<1>2. CASE u = 2 * Least
  BY <1>0, <1>2, SMT DEF Least
<1>3. CASE u = 4 * Least
  BY <1>0, <1>3, SMT DEF Least
<1>4. CASE u = 8 * Least
  BY <1>0, <1>4, SMT DEF Least
<1>5. CASE u = 16 * Least
  BY <1>0, <1>5, SMT DEF Least
<1>6. CASE u = 32 * Least
  BY <1>0, <1>6, SMT DEF Least
<1>7. CASE u = 64 * Least
  BY <1>0, <1>7, SMT DEF Least
<1>8. CASE u = 128 * Least
  BY <1>0, <1>8, SMT DEF Least
<1> QED
  BY <1>1, <1>2, <1>3, <1>4, <1>5, <1>6, <1>7, <1>8 DEF ShareScale

\* The verdict on a tie, for the percentages that are not late.
LEMMA TieIsHealthy ==
  ASSUME NEW n \in 1 .. 128, NEW running \in 1 .. n, NEW d \in 1 .. 100,
         100 * running = d * n, ~Late(running, n, d)
  PROVE  Healthy(running, n, d)
<1>1. d \notin {53, 59}
  <2>1. d = 53 => n = 100 /\ running = 53
    OBVIOUS
  <2>2. d = 59 => n = 100 /\ running = 59
    OBVIOUS
  <2> QED
    BY <2>1, <2>2 DEF Late
<1>2. Percentage(running, n) \in Nat
  BY PercentageSteps
<1>3. PICK u \in ShareScale, share \in Nat, w \in ProductScale, product \in Nat :
        Roundings(running, n, u, share, w, product)
  BY PercentageSteps
<1>4. /\ share * 100 < w * (2 * Least)
      /\ 2 * (w * product) <= 200 * share + w
      /\ 200 * share <= 2 * (w * product) + w
      /\ 200 * share = 2 * (w * product) + w => product % 2 = 0
  BY <1>3 DEF Roundings
<1>5. u \in Nat \ {0} /\ w \in Nat \ {0} /\ n \in Nat \ {0} /\ Least \in Nat
  BY Scales, LeastType
<1>6. 100 * (running * u) = n * (d * u)
  <2>1. 100 * (running * u) = (100 * running) * u
    BY <1>5
  <2> QED
    BY <1>5, <2>1
\* Everything is a multiple of n.
<1>7. /\ n * (100 * Least) <= n * (d * u)
      /\ n * (d * u + 1) <= n * (200 * Least)
      /\ n * (200 * share) <= n * (2 * (d * u) + 100)
      /\ n * (2 * (d * u)) <= n * (200 * share + 100)
  <2>1. /\ n * Least <= running * u /\ running * u < n * (2 * Least)
        /\ 2 * (n * share) <= 2 * (running * u) + n
        /\ 2 * (running * u) <= 2 * (n * share) + n
    BY <1>3 DEF Roundings
  <2> QED
    BY <1>5, <1>6, <2>1
<1>8. /\ 100 * Least <= d * u /\ d * u < 200 * Least
      /\ 200 * share <= 2 * (d * u) + 100
      /\ 2 * (d * u) <= 200 * share + 100
  BY <1>5, <1>7, CancelFactor
<1>9. d * u <= w * product
  BY <1>1, <1>4, <1>8, TieRounds
<1>10. SUFFICES ASSUME Percentage(running, n) + 1 <= d PROVE FALSE
  BY <1>2 DEF Healthy
<1>11. u * (Percentage(running, n) + 1) <= u * d
  BY <1>2, <1>5, <1>10, TimesMono
<1>12. w * product < u * Percentage(running, n) + u
  BY <1>3 DEF Roundings
<1> QED
  BY <1>2, <1>5, <1>9, <1>11, <1>12

\* 53 and 59 of a hundred come out one too low.
LEMMA LateIsUnhealthy ==
  ASSUME NEW n \in 1 .. 128, NEW running \in 1 .. n, NEW d \in Int, Late(running, n, d)
  PROVE  ~Healthy(running, n, d)
<1>1. n = 100 /\ running = d /\ d \in {53, 59}
  BY DEF Late
<1> DEFINE percentage == Percentage(running, n)
<1>2. percentage \in Nat
  BY PercentageSteps
<1>3. PICK u \in ShareScale, share \in Nat, w \in ProductScale, product \in Nat :
        Roundings(running, n, u, share, w, product)
  BY PercentageSteps
<1>4. u = 2 * Least
  BY <1>1, <1>3, LeastType DEF Roundings, ShareScale
<1>5. w \in {64, 128} /\ u \in Nat
  BY Scales DEF ProductScale
<1>6. w * product < u * d
  BY <1>1, <1>3, <1>4, <1>5, SMT DEF Roundings, Least
<1>7. u * percentage <= w * product
  BY <1>3 DEF Roundings
<1>8. SUFFICES ASSUME d <= percentage PROVE FALSE
  BY <1>2 DEF Healthy
<1> HIDE DEF percentage
<1>9. u * d <= u * percentage
  BY <1>2, <1>5, <1>8, TimesMono
<1>10. u * d \in Int /\ u * percentage \in Int /\ w * product \in Int
  BY <1>2, <1>5
<1> QED
  BY <1>6, <1>7, <1>9, <1>10

\* The verdict of WorkerPool.IsHealthy, int((float32(r) / float32(n)) * 100) >= d,
\* for pools of up to 128 processes and every percentage an int can hold: that
\* of 100 * r >= d * n, but for the two late shares.
THEOREM HealthyExactly ==
  ASSUME NEW n \in 1 .. 128, NEW running \in 0 .. n, NEW d \in Int
  PROVE  Healthy(running, n, d) <=> 100 * running >= d * n /\ ~Late(running, n, d)
<1>0. d * n \in Int /\ 100 * running \in Int
  OBVIOUS
<1>1. CASE 100 * running # d * n
  <2>1. ~Late(running, n, d)
    BY <1>1 DEF Late
  <2>2. /\ Healthy(running, n, d) => 100 * running >= d * n
        /\ 100 * running > d * n => Healthy(running, n, d)
    BY HealthyBounds
  <2> QED
    BY <1>0, <1>1, <2>1, <2>2
<1>2. CASE 100 * running = d * n /\ running = 0
  <2>1. d = 0
    BY <1>2
  <2> QED
    BY <1>2, <2>1 DEF Healthy, Percentage, Late
<1>3. CASE 100 * running = d * n /\ running # 0
  <2>1. d \in 1 .. 100
    <3>1. n * 1 <= 100 * running /\ n * d <= n * 100 /\ n * d = 100 * running
      BY <1>3
    <3>2. d <= 100
      BY <3>1, CancelFactor
    <3>3. d >= 1
      BY <1>3, <3>1, CancelFactor
    <3> QED
      BY <3>2, <3>3
  <2>2. running \in 1 .. n /\ 100 * running >= d * n
    BY <1>0, <1>3
  <2>3. Late(running, n, d) => ~Healthy(running, n, d)
    BY <2>2, LateIsUnhealthy
  <2>4. ~Late(running, n, d) => Healthy(running, n, d)
    BY <1>3, <2>1, <2>2, TieIsHealthy
  <2> QED
    BY <2>2, <2>3, <2>4, Zenon
<1> QED
  BY <1>1, <1>2, <1>3

===============================================================================
