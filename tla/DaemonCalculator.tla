-------------------------- MODULE DaemonCalculator --------------------------
(* Calculator as the instance Calc, with what a run checks of it by name,   *)
(* to stand beside modules that have a specification of their own.          *)
CONSTANTS Alphabets, Floats, Finite, Zeros, Parse(_), Rounded(_, _, _)
VARIABLES alphabet, query

Calc == INSTANCE Calculator

ASSUME ArithmeticAssumption == Calc!ArithmeticAssumption

\* The calculator keeps to the rules of arithmetic (see Calculator).
ArithmeticKeepsRules == Calc!ArithmeticKeepsRules
=============================================================================
