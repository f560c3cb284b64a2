----------------------------- MODULE HealthRatio -----------------------------
(***************************************************************************)
(* The arithmetic of WorkerPool.IsHealthy (worker_pool.go): the share of   *)
(* running workers as a float32, times 100 as a float32, truncated.        *)
(*                                                                         *)
(* A float32 that is not 0 is m / 2^e with a mantissa m of 24 bits.  All   *)
(* numbers here stay below 2^31 for pools of up to 127 processes.          *)
(***************************************************************************)
EXTENDS Integers

\* 2^23, the least mantissa
Least == 8388608

Mantissa == Least .. 2 * Least - 1

\* 2^23, ..., 2^30: a share between 1/128 and 1 times one of them is a mantissa.
ShareScale == {Least, 2 * Least, 4 * Least, 8 * Least, 16 * Least, 32 * Least,
               64 * Least, 128 * Least}

\* 2^6 and 2^7: a mantissa times 100 over one of them is a mantissa.
ProductScale == {64, 128}

\* The integer nearest to a / b, the even one of two that are equally near.
RoundHalfEven(a, b) ==
  LET q == a \div b
      r == 2 * (a % b)
  IN  IF r < b \/ (r = b /\ q % 2 = 0) THEN q ELSE q + 1

\* Mutant of Percentage: the percentage is rounded, not truncated.
PercentageRounded(running, n) == (running * 100 + n \div 2) \div n

\* int((float32(running) / float32(n)) * 100)
Percentage(running, n) ==
  IF running = 0 THEN 0 ELSE
  LET u == CHOOSE x \in ShareScale : (running * x) \div n \in Mantissa
      share == RoundHalfEven(running * u, n)
      w == CHOOSE x \in ProductScale : (share * 100) \div x \in Mantissa
      product == RoundHalfEven(share * 100, w)
  IN  (product * w) \div u

\* The verdict of WorkerPool.IsHealthy on running workers out of n.
Healthy(running, n, desired) == Percentage(running, n) >= desired

\* The shares that float32 puts below what they are: 53 and 59 of a hundred
\* become 52.999996 and 58.999996 per cent.
Late(running, n, desired) == n = 100 /\ running = desired /\ desired \in {53, 59}

===============================================================================
