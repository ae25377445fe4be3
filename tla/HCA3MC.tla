-------------------------------- MODULE HCA3MC --------------------------------
EXTENDS HCA3

MCSkew == [r \in Rank |-> 7 * r]
Alike == [r \in Rank |-> 1]

\* Rank 0's clock is the fastest; slopes are -5, -1, -2 and 0.
Drifting == [r \in Rank |-> CASE r = 1 -> 1 [] r = 2 -> 3 [] r = 3 -> 2 [] OTHER -> 6]

Offset ==
  [linear |-> FALSE, n_fitpoints |-> 1, recompute_intercept |-> FALSE,
   skew |-> MCSkew, rate |-> Alike, errors |-> {-1, 1}]

Fit == [Offset EXCEPT !.linear = TRUE, !.n_fitpoints = 3, !.rate = Drifting,
                      !.errors = {0}]
FitAndRemeasure ==
  [Fit EXCEPT !.n_fitpoints = 2, !.recompute_intercept = TRUE, !.errors = {1}]

MCSettings == {Offset, Fit, FitAndRemeasure}
=============================================================================
