-------------------------------- MODULE Sums --------------------------------
EXTENDS Integers

\* f[1] + ... + f[n], after the sums up to each of them.
Sums(f, n) ==
  LET upTo[m \in 0 .. n] == IF m = 0 THEN 0 ELSE upTo[m - 1] + f[m] IN upTo

Total(f, n) == Sums(f, n)[n]

=============================================================================
