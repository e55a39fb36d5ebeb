---------------------------- MODULE MCArithmetic ----------------------------
(* A small arithmetic in place of f64 for TLC, with everything that makes   *)
(* f64 other than the rational numbers: two bits of precision, from a       *)
(* quarter to six, beyond that infinities, and NaN.  A value is a number of *)
(* quarters.                                                                *)
EXTENDS Integers, Sequences, FiniteSets

LOCAL INSTANCE SequencesExt

MCMagnitudes == {0, 1, 2, 3, 4, 6, 8, 12, 16, 24}
MCNumber(n) == <<"number", n>>
MCInfinity(sign) == <<"infinity", sign>>
MCNaN == <<"NaN", 0>>
MCFinite == {MCNumber(m) : m \in MCMagnitudes} \cup {MCNumber(-m) : m \in MCMagnitudes}
MCZeros == {MCNumber(0)}
MCFloats == MCFinite \cup {MCInfinity(1), MCInfinity(-1), MCNaN}

MCSign(n) == IF n < 0 THEN -1 ELSE 1
MCAbs(n) == MCSign(n) * n

\* The nearest value to n quarters out of d, infinite past the largest.
MCNearest(n, d) ==
  LET away(m) == MCAbs(m * d - MCAbs(n))
      nearest == CHOOSE m \in MCMagnitudes :
                   \A k \in MCMagnitudes : away(m) < away(k) \/ (away(m) = away(k) /\ m <= k)
  IN  IF MCAbs(n) >= 28 * d THEN MCInfinity(MCSign(n)) ELSE MCNumber(MCSign(n) * nearest)

MCSum(p, q) ==
  IF p[1] = "number" /\ q[1] = "number" THEN MCNearest(p[2] + q[2], 1)
  ELSE IF p[1] = q[1] /\ p # q THEN MCNaN
  ELSE IF p[1] = "infinity" THEN p ELSE q

MCProduct(p, q) ==
  IF p[1] = "number" /\ q[1] = "number" THEN MCNearest(p[2] * q[2], 4)
  ELSE IF p[2] = 0 \/ q[2] = 0 THEN MCNaN
  ELSE MCInfinity(MCSign(p[2]) * MCSign(q[2]))

MCQuotient(p, q) ==
  IF q[1] = "infinity" THEN IF p[1] = "number" THEN MCNumber(0) ELSE MCNaN
  ELSE IF q[2] = 0 THEN IF p[2] = 0 THEN MCNaN ELSE MCInfinity(MCSign(p[2]))
  ELSE IF p[1] = "number" THEN MCNearest(4 * p[2] * MCSign(q[2]), MCAbs(q[2]))
  ELSE MCInfinity(MCSign(p[2]) * MCSign(q[2]))

MCRounded(op, p, q) ==
  CASE MCNaN \in {p, q} -> MCNaN
    [] op = "+" /\ MCNaN \notin {p, q} -> MCSum(p, q)
    [] op = "-" /\ MCNaN \notin {p, q} -> MCSum(p, <<q[1], -q[2]>>)
    [] op = "*" /\ MCNaN \notin {p, q} -> MCProduct(p, q)
    [] op = "/" /\ MCNaN \notin {p, q} -> MCQuotient(p, q)

MCDigit == <<"0", "1", "2", "3", "4", "5", "6", "7", "8", "9">>
MCDigitValue(c) == (CHOOSE d \in 1..10 : MCDigit[d] = c) - 1

\* At most one point and at least one digit.
MCParse(text) ==
  LET digits == SelectSeq(text, LAMBDA c : c \in {MCDigit[d] : d \in 1..10})
      points == {i \in 1..Len(text) : text[i] = "."}
      whole == FoldLeft(LAMBDA n, c : 10 * n + MCDigitValue(c), 0, digits)
      decimals == IF points = {} THEN 0 ELSE Len(text) - CHOOSE i \in points : TRUE
  IN  IF Cardinality(points) > 1 \/ digits = <<>> THEN <<"error", 0>>
      ELSE MCNearest((IF text[1] = "-" THEN -4 ELSE 4) * whole, 10 ^ decimals)
=============================================================================
