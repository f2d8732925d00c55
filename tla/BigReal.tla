------------------------------ MODULE BigReal ------------------------------
(***************************************************************************)
(* The multiprecision arithmetic of compute_pi_task (kernel/main.c).  A    *)
(* big real of n digits in base B is a function x with the value           *)
(* x[0] + x[1]/B + ... + x[n-1]/B^(n-1).                                   *)
(***************************************************************************)
EXTENDS Integers

CONSTANT B          \* the working base

MaxDiv == 450

Digits(n) == 0..(n - 1)

SetToInteger(n, i) == [j \in Digits(n) |-> IF j = 0 THEN i ELSE 0]
IsZero(n, x) == \A i \in Digits(n) : x[i] = 0

\* x += y; what goes over x[0] is dropped.
Add(n, x, y) ==
    LET carry[i \in 0..n] ==
            IF i = n \/ x[i] + y[i] + carry[i + 1] < B THEN 0 ELSE 1
    IN  [i \in Digits(n) |-> x[i] + y[i] + carry[i + 1] - B * carry[i]]

\* Mutant: a digit that is owed is not taken from the one above.
Sub_NoBorrow(n, x, y) ==
    [i \in Digits(n) |-> IF i > 0 /\ x[i] < y[i] THEN x[i] - y[i] + B ELSE x[i] - y[i]]

\* x -= y
Sub(n, x, y) ==
    LET borrow[i \in 0..n] ==
            IF i \in 1..(n - 1) /\ x[i] - y[i] - borrow[i + 1] < 0 THEN 1 ELSE 0
    IN  [i \in Digits(n) |-> x[i] - y[i] - borrow[i + 1] + B * borrow[i]]

\* x *= q
Mul(n, x, q) ==
    LET carry[i \in 0..n] == IF i = n THEN 0 ELSE (x[i] * q + carry[i + 1]) \div B
    IN  [i \in Digits(n) |-> (x[i] * q + carry[i + 1]) % B]

\* The dividend of one step of the division by d, after a remainder.
Dividend(digit, remainder) == digit + remainder * B

\* x / d
Div(n, x, d) ==
    LET xi[i \in Digits(n)] == Dividend(x[i], IF i = 0 THEN 0 ELSE xi[i - 1] % d)
    IN  [i \in Digits(n) |-> xi[i] \div d]

\* One turn of the loop of arccot: uk = uk/p^2, x = x -+ uk/k.
Turn(p, n, s) ==
    LET uk == IF p < MaxDiv THEN Div(n, s.uk, p * p)
              ELSE Div(n, Div(n, s.uk, p), p)
        vk == Div(n, uk, s.k)
    IN  [x |-> IF s.sign = 1 THEN Add(n, s.x, vk) ELSE Sub(n, s.x, vk),
         uk |-> uk, k |-> s.k + 2, sign |-> 1 - s.sign]

\* arctan(1/p)
arccot(p, n) ==
    LET Real == [Digits(n) -> Int]
        loop[s \in [x : Real, uk : Real, k : Int, sign : Int]] ==
            IF IsZero(n, s.uk) THEN s.x ELSE loop[Turn(p, n, s)]
        first == Div(n, SetToInteger(n, 1), p)
    IN  loop[[x |-> first, uk |-> first, k |-> 3, sign |-> 0]]

\* pi/4 = 12 arctan(1/18) + 8 arctan(1/57) - 5 arctan(1/239)
compute_pi(n) ==
    LET Term(p, m) == Mul(n, arccot(p, n), m)
    IN  Mul(n, Sub(n, Add(n, Term(18, 12), Term(57, 8)), Term(239, 5)), 4)
=============================================================================
