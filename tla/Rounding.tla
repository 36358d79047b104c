------------------------------ MODULE Rounding ------------------------------
(* round() of Python on n / of: a half goes to the even neighbour.         *)
EXTENDS Integers

Rounded(n, of) ==
  LET below == n \div of
      twice == 2 * (n % of) IN
    IF twice < of \/ (twice = of /\ below % 2 = 0) THEN below ELSE below + 1
=============================================================================
