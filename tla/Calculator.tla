------------------------------- MODULE Calculator -------------------------------
(***************************************************************************)
(* The calculator tool (math/tool.py): an expression, in postfix order, is *)
(* evaluated under bounds that are checked before the work is done.        *)
(* Integers are exact; a float is the one value Float (its integer part has *)
(* at most 1,024 bits, below the bound).  peak is the size in bits of the   *)
(* largest integer that was ever built, refused or not.                    *)
(***************************************************************************)
EXTENDS Integers, Sequences, SequencesExt, FiniteSetsExt

CONSTANTS MAX_NODES, MAX_INT_BITS, MAX_ROUND_DIGITS
ASSUME CalculatorBoundsOK == {MAX_NODES, MAX_INT_BITS, MAX_ROUND_DIGITS} \subseteq Nat \ {0}

Exact(n) == [kind |-> "int", n |-> n]
Float == [kind |-> "float", n |-> 0]
IsInt(x) == x.kind = "int"

BinOps == {"+", "-", "*", "/", "//", "%", "**", "gcd", "min", "max", "round"}
UnaryOps == {"neg", "abs", "factorial", "floor", "sqrt"}

Abs(n) == IF n < 0 THEN -n ELSE n
Power(x, n) == LET Pow[k \in Nat] == IF k = 0 THEN 1 ELSE x * Pow[k - 1] IN Pow[n]
Factorial[n \in Nat] == IF n = 0 THEN 1 ELSE n * Factorial[n - 1]
bit_length(n) == CHOOSE b \in 0..Abs(n) : Abs(n) < Power(2, b) /\ (b = 0 \/ Abs(n) >= Power(2, b - 1))
Gcd(a, b) == IF a = 0 \/ b = 0 THEN a + b ELSE Max({d \in 1..a : a % d = 0 /\ b % d = 0})

-----------------------------------------------------------------------------
(* The guards; x log2 y > MAX_INT_BITS is y^x > 2^MAX_INT_BITS.            *)
\* Mutant: the size of a power is looked at when it has been computed.
GuardsNothing(base, exp) == TRUE

PowerFits(base, exp) ==
    ~(exp > 0 /\ Abs(base) > 1) \/ Power(Abs(base), exp) <= Power(2, MAX_INT_BITS)

FactorialFits(n) == n <= 1 \/ Factorial[n] <= Power(2, MAX_INT_BITS)

Declined(op, x, y) ==
    \/ op = "**" /\ IsInt(x) /\ IsInt(y) /\ ~PowerFits(x.n, y.n)
    \/ op = "factorial" /\ IsInt(x) /\ ~FactorialFits(x.n)
    \/ op = "round" /\ IsInt(y) /\ Abs(y.n) > MAX_ROUND_DIGITS

(* What Python itself refuses: a division by zero, a factorial of a negative *)
(* number, a gcd of a float, an odd root of a negative number (complex).    *)
Undefined(op, x, y) ==
    \/ op \in {"/", "//", "%"} /\ y = Exact(0)
    \/ op = "**" /\ x = Exact(0) /\ IsInt(y) /\ y.n < 0
    \/ op = "factorial" /\ (~IsInt(x) \/ x.n < 0)
    \/ op = "gcd" /\ ~(IsInt(x) /\ IsInt(y))
    \/ op = "round" /\ ~IsInt(y)
    \/ op = "sqrt" /\ IsInt(x) /\ x.n < 0

FloorDiv(a, b) == IF b > 0 THEN a \div b ELSE (-a) \div (-b)

RoundTo(n, digits) ==       \* to a multiple of 10^-digits, half to even
    IF digits >= 0 THEN n
    ELSE LET unit == Power(10, -digits)
             down == n \div unit
             rest == 2 * (n % unit)
         IN unit * (IF rest > unit \/ (rest = unit /\ down % 2 = 1) THEN down + 1 ELSE down)

IntResult(op, a, b) ==
    CASE op = "+" -> a + b
      [] op = "-" -> a - b
      [] op = "*" -> a * b
      [] op = "//" -> FloorDiv(a, b)
      [] op = "%" -> a - b * FloorDiv(a, b)
      [] op = "**" -> Power(a, b)
      [] op = "gcd" -> Gcd(Abs(a), Abs(b))
      [] op = "min" -> IF a <= b THEN a ELSE b
      [] op = "max" -> IF a >= b THEN a ELSE b
      [] op = "round" -> RoundTo(a, b)
      [] op = "neg" -> -a
      [] op = "abs" -> Abs(a)
      [] op = "factorial" -> Factorial[a]
      [] op = "floor" -> a

Apply(op, x, y) ==
    IF \/ ~IsInt(x) \/ ~IsInt(y) \/ op \in {"/", "sqrt"} \/ (op = "**" /\ y.n < 0)
    THEN Float ELSE Exact(IntResult(op, x.n, y.n))

-----------------------------------------------------------------------------
(* _eval, one part of the expression at a time; an error ends it. *)
Failed(acc) == [acc EXCEPT !.error = TRUE]

Number(acc, rest, x) ==     \* _number: what was built is refused if it is too large
    LET built == [acc EXCEPT !.peak = IF IsInt(x) /\ bit_length(x.n) > @ THEN bit_length(x.n) ELSE @]
    IN IF IsInt(x) /\ bit_length(x.n) > MAX_INT_BITS THEN Failed(built)
       ELSE [built EXCEPT !.stack = Append(rest, x)]

Operate(acc, op, arity) ==
    LET depth == Len(acc.stack)
        x == acc.stack[depth - arity + 1]
        y == IF arity = 2 THEN acc.stack[depth] ELSE Exact(0)
    IN IF depth < arity \/ Declined(op, x, y) \/ Undefined(op, x, y) THEN Failed(acc)
       ELSE Number(acc, SubSeq(acc.stack, 1, depth - arity), Apply(op, x, y))

Part(acc, part) ==
    CASE acc.error -> acc
      [] ~acc.error /\ part.op = "number" -> Number(acc, acc.stack, Exact(part.n))
      [] ~acc.error /\ part.op \in BinOps -> Operate(acc, part.op, 2)
      [] ~acc.error /\ part.op \in UnaryOps -> Operate(acc, part.op, 1)
      [] OTHER -> Failed(acc)       \* a name, an attribute, any other syntax

_check_shape(expression) == Len(expression) <= MAX_NODES

evaluate(expression) ==
    LET start == [stack |-> <<>>, error |-> ~_check_shape(expression), peak |-> 0]
        end == FoldLeft(Part, start, expression)
    IN [end EXCEPT !.error = @ \/ Len(end.stack) # 1]

-----------------------------------------------------------------------------
(* A number in an expression is of a literal, and 500 characters of one are  *)
(* 2,000 bits at most.                                                      *)
IsPart(part) == part.op = "number" => part.n \in Int /\ bit_length(part.n) <= 2 * MAX_INT_BITS

(* Bounded by construction: no legal sequence of operations, however it is  *)
(* nested, ever builds an integer of more than twice the bound (a product   *)
(* of two that keep it) or keeps one above it, and what is answered fits.   *)
CalculatorIsBounded(expression) ==
    LET end == evaluate(expression)
    IN /\ end.peak <= 2 * MAX_INT_BITS
       /\ \A k \in DOMAIN end.stack : bit_length(end.stack[k].n) <= MAX_INT_BITS
=============================================================================
