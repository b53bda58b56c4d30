---------------------------- MODULE MCSchedule ----------------------------
(* Constants of the model-checked instance of Schedule.                    *)
EXTENDS Schedule

(* One beat, a beat that rounding left short, two and a half beats.        *)
MCSteps == {199, 500}
MCDelays == {0, 300}
MCPeriods == {0, 2, 3}

(* The bounds leave no overflow before the tick counter wraps.             *)
ASSUME MCLagsFitInt == LagsFitInt

=============================================================================
