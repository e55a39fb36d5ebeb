----------------------------- MODULE Calculator -----------------------------
(***************************************************************************)
(* CalculatorProvider (crates/winspot-search/src/providers.rs): it reads   *)
(* the query as an arithmetic expression.                                  *)
(*                                                                         *)
(* A query is typed one character after the other; the calculator is asked *)
(* in every state.  Its numbers are those of f64, with their rounding,     *)
(* their infinities and NaN: what Rust's standard library makes of them is *)
(* given, and the properties hold whatever it makes of them.               *)
(***************************************************************************)
EXTENDS Integers, Sequences, FiniteSetsExt

CONSTANTS
  Alphabets,         \* sets of characters, each with the longest query typed in it
  Floats,            \* the values of f64
  Finite,            \* those that is_finite
  Zeros,             \* those that equal 0.0
  Parse(_),          \* str::parse: a value of f64, or something else for an error
  Rounded(_, _, _)   \* an operator applied to two values

\* The operators of f64 are total.
ArithmeticAssumption ==
  \A op \in {"+", "-", "*", "/"}, p, q \in Floats : Rounded(op, p, q) \in Floats

VARIABLES
  alphabet,    \* what is typed in
  query

vars == <<alphabet, query>>

Digits == {"0", "1", "2", "3", "4", "5", "6", "7", "8", "9"}
Numerals == Digits \cup {"."}
Operators == {"+", "-", "*", "/"}

Init ==
  /\ alphabet \in Alphabets
  /\ query = <<>>

Type ==
  /\ Len(query) < alphabet.longest
  /\ \E c \in alphabet.characters : query' = Append(query, c)
  /\ UNCHANGED alphabet

Spec == Init /\ [][Type]_vars

-----------------------------------------------------------------------------
(* CalculatorProvider: ArithmeticParser                                    *)

\* What a part of the parser returns: the value it has read and the offset it has
\* got to.
Read(value, offset) == [ok |-> TRUE, value |-> value, at |-> offset]
NotRead == [ok |-> FALSE]

Peek(s, i) == IF i <= Len(s) THEN s[i] ELSE "end"

\* The loops that go on while peek is one of some characters.
PassOver(s, i, characters) ==
  CHOOSE j \in i..(Len(s) + 1) : Peek(s, j) \notin characters /\ \A k \in i..(j - 1) : s[k] \in characters

SkipSpaces(s, i) == PassOver(s, i, {" "})

Number(s, from, to) == Parse(SubSeq(s, from, to))

\* Digits and points, with a minus sign or without, if they parse.
Literal(s, i) ==
  LET first == IF Peek(s, i) = "-" THEN i + 1 ELSE i
      end == PassOver(s, first, Numerals)
  IN  IF end = first \/ Number(s, i, end - 1) \notin Floats THEN NotRead
      ELSE Read(Number(s, i, end - 1), end)

\* The value so far and the one that follows; nothing is divided by zero.
Combined(so, op, next) ==
  IF ~next.ok \/ (op = "/" /\ next.value \in Zeros) THEN NotRead
  ELSE Read(Rounded(op, so.value, next.value), next.at)

\* Once through a loop of the parser: an operator, and the part that follows it.
More(s, so, operators, part) ==
  LET i == SkipSpaces(s, so.at)
  IN  IF ~so.ok \/ Peek(s, i) \notin operators THEN so ELSE Combined(so, Peek(s, i), part[i + 1])

\* The loops of parse_expression and parse_term; there are no more operators than
\* characters.
Loop(s, first, operators, part) ==
  LET after[n \in 0..Len(s)] == IF n = 0 THEN first ELSE More(s, after[n - 1], operators, part)
  IN  after[Len(s)]

\* Faulty: one loop for all four operators.
TermsOfOneRank(s, factor) == [i \in 1..(Len(s) + 1) |-> Loop(s, factor[i], Operators, factor)]

\* parse_term at each offset, and parse_expression at one.
Terms(s, factor) == [i \in 1..(Len(s) + 1) |-> Loop(s, factor[i], {"*", "/"}, factor)]
Expression(s, i, factor) == Loop(s, Terms(s, factor)[i], {"+", "-"}, Terms(s, factor))

Closed(s, inner) ==
  LET i == SkipSpaces(s, inner.at)
  IN  IF inner.ok /\ Peek(s, i) = ")" THEN Read(inner.value, i + 1) ELSE NotRead

\* parse_factor at each offset; parentheses are no deeper than the text is long.
Factors(s) ==
  LET within[depth \in 0..Len(s)] ==
        [from \in 1..(Len(s) + 1) |->
           LET i == SkipSpaces(s, from)
           IN  IF Peek(s, i) # "(" THEN Literal(s, i)
               ELSE IF depth = 0 THEN NotRead
               ELSE Closed(s, Expression(s, i + 1, within[depth - 1]))]
  IN  within[Len(s)]

LooksLikeMath(s) ==
  /\ Range(s) \subseteq Numerals \cup Operators \cup {"(", ")", " "}
  /\ Range(s) \cap Digits # {} /\ Range(s) \cap Operators # {}

\* evaluate_arithmetic_expression
Evaluate(s) ==
  LET read == Expression(s, 1, Factors(s))
  IN  IF LooksLikeMath(s) /\ read.ok /\ SkipSpaces(s, read.at) = Len(s) + 1 /\ read.value \in Finite
      THEN read ELSE NotRead

-----------------------------------------------------------------------------
(* Properties                                                              *)

\* What a text means by the rules of arithmetic: the last operator of the lowest
\* rank that is outside parentheses splits it.  A sign belongs to the number that
\* follows; an operator follows an operand.
Kept(s, i, j) == {k \in i..j : s[k] # " "}
Depth(s, i, j) == Cardinality({k \in i..j : s[k] = "("}) - Cardinality({k \in i..j : s[k] = ")"})
Splits(s, i, j, kind) ==
  {k \in i..j : /\ s[k] \in kind /\ Depth(s, i, k) = 0
                /\ Kept(s, i, k - 1) # {} /\ s[Max(Kept(s, i, k - 1))] \in Numerals \cup {")"}}

IsNumber(s, i, j) ==
  LET first == IF s[i] = "-" THEN i + 1 ELSE i
  IN  first <= j /\ (\A k \in first..j : s[k] \in Numerals) /\ Number(s, i, j) \in Floats

Value(left, op, right) ==
  IF ~left.ok \/ ~right.ok \/ (op = "/" /\ right.value \in Zeros) THEN NotRead
  ELSE Read(Rounded(op, left.value, right.value), 0)

\* A part of the text, with what smaller parts mean.
MeaningOf(s, i, j, means) ==
  LET kept == Kept(s, i, j)
      low == Splits(s, i, j, {"+", "-"})
      high == Splits(s, i, j, {"*", "/"})
      k == Max(IF low # {} THEN low ELSE high)
      a == Min(kept)
      z == Max(kept)
  IN  IF kept = {} THEN NotRead
      ELSE IF low \cup high # {} THEN Value(means[i][k - 1], s[k], means[k + 1][j])
      ELSE IF s[a] = "(" /\ s[z] = ")" THEN means[a + 1][z - 1]
      ELSE IF IsNumber(s, a, z) THEN Read(Number(s, a, z), 0)
      ELSE NotRead

\* By the most characters a part has.
Meaning(s) ==
  LET means[size \in 0..Len(s)] ==
        [i \in 1..(Len(s) + 1) |->
           [j \in 0..Len(s) |->
              IF size = 0 THEN NotRead ELSE MeaningOf(s, i, j, means[size - 1])]]
  IN  means[Len(s)][1][Len(s)]

\* CalculatorProvider: whatever is typed, the calculator answers with the value
\* the text has by the rules of arithmetic (multiplication before addition, from
\* the left, parentheses first), each operation rounded as f64 does, or not at all:
\* when the text is none that looks like math, breaks the rules, divides by zero or
\* comes to no finite value.
ArithmeticKeepsRules ==
  LET read == Evaluate(query)
      meant == Meaning(query)
  IN  /\ read.ok <=> LooksLikeMath(query) /\ meant.ok /\ meant.value \in Finite
      /\ read.ok => read.value = meant.value
=============================================================================
