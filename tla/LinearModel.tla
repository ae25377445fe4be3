----------------------------- MODULE LinearModel -----------------------------
(***************************************************************************)
(* The linear models of the HCA algorithms: a model gives the offset of a  *)
(* clock from another one, slope * reading + intercept.  The coefficients  *)
(* are integers here.                                                      *)
(***************************************************************************)
EXTENDS Integers, Sequences

LinModel == [slope : Int, intercept : Int]

\* GlobalClockLM::apply_clock_model.
Normalized(lm, reading) == reading - (reading * lm.slope + lm.intercept)

\* GlobalClockOffset: the clocks differ by a constant.
OffsetModel(offset) == [slope |-> 0, intercept |-> offset]

\* What a clock shows when its base clock shows the given reading.  A clock is a nest
\* of models, outermost first, each over the clock below it: convert_to_global_time
\* and get_time go down to the base clock first.
Shown(nest, reading) ==
  LET shown[k \in 1..(Len(nest) + 1)] ==
        IF k > Len(nest) THEN reading ELSE Normalized(nest[k], shown[k + 1])
  IN  shown[1]

\* merge_linear_models.
Merged(lm1, lm2) ==
  [slope     |-> lm1.slope + lm2.slope - lm1.slope * lm2.slope,
   intercept |-> lm1.intercept + lm2.intercept - lm2.intercept * lm1.slope]
=============================================================================
