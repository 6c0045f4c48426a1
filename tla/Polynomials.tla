---------------------------- MODULE Polynomials ----------------------------
(***************************************************************************)
(* Polynomials over the integers modulo a prime, as poly_tool.h computes   *)
(* with them through NTL, and modulo x^N + 1, as SEAL keeps plaintexts and *)
(* ciphertexts.  A polynomial of NTL is a function from 0 .. length - 1 to *)
(* coefficients; a list of ids or of points is a sequence.                 *)
(***************************************************************************)
EXTENDS Integers, Sequences, SequencesExt, FiniteSetsExt

CONSTANTS
    Prime,   \* prime_num, the plaintext modulus
    Xi,      \* xi: an element of order Points
    Points,  \* da = 1 << host_log_n_data
    N        \* poly_mod_degree

Below(k) == 0 .. k - 1
Fp == Below(Prime)

SumOf(f) == SumFunction(f) % Prime
At(f, k) == IF k \in DOMAIN f THEN f[k] ELSE 0
ProductOf(s) == FoldLeft(LAMBDA a, b : (a * b) % Prime, 1, s)
Power(x, k) == ProductOf([j \in 1 .. k |-> x])
Inv(x) == CHOOSE y \in Fp : (x * y) % Prime = 1

ASSUME PolynomialAssumption ==
    /\ Prime \in Nat /\ \A x \in 1 .. Prime - 1 : \E y \in Fp : (x * y) % Prime = 1
    /\ Points \in 1 .. Prime - 1
    /\ Xi \in Fp /\ \A i \in 1 .. Points : Power(Xi, i) = 1 <=> i = Points
    /\ N \in {2^i : i \in 1 .. 15}

\* PolyComputer's table of the powers of xi.
xi_powers == [i \in Below(Points) |-> Power(Xi, i)]

\* fft_interpolate: the coefficients of the polynomial whose value at xi^i is
\* data[i]; FFTFwd and the bit reversal after it give the natural order.
fft_interpolate(data) ==
    [i \in Below(Points) |->
        (Inv(Points % Prime)
           * SumOf([j \in Below(Points) |-> data[j] * xi_powers[(-(i * j)) % Points]])) % Prime]

-----------------------------------------------------------------------------
(* NTL's zz_pX.                                                            *)
Length(f) == Cardinality(DOMAIN f)

Normal(f) ==
    LET used == {k \in DOMAIN f : f[k] # 0}
    IN  [k \in 0 .. Max(used \cup {-1}) |-> f[k]]

Mul(f, g) ==
    [k \in 0 .. Length(f) + Length(g) - 2 |->
        SumOf([i \in {j \in DOMAIN f : k - j \in DOMAIN g} |-> f[i] * g[k - i]])]

Scale(c, f) == [k \in DOMAIN f |-> (c * f[k]) % Prime]

\* (x - a) f
TimesRoot(f, a) ==
    [k \in 0 .. Length(f) |-> (At(f, k - 1) - a * At(f, k)) % Prime]

BuildFromRoots(points) == FoldLeft(TimesRoot, [k \in {0} |-> 1], points)

Eval(f, x) == FoldRight(LAMBDA c, acc : (c + x * acc) % Prime,
                        [k \in 1 .. Length(f) |-> f[k - 1]], 0)

\* Lagrange's formula; the points are distinct.
Interpolate(points, values) ==
    LET n == Len(points)
        Others(i) == BuildFromRoots(RemoveAt(points, i))
        term == [i \in 1 .. n |->
                   Scale(values[i] * Inv(Eval(Others(i), points[i])), Others(i))]
    IN  [k \in Below(n) |-> SumOf([i \in 1 .. n |-> term[i][k]])]

\* f % g for a monic g, one leading coefficient at a time.
Rem(f, g) ==
    LET d == Length(g) - 1
        Step(r, k) == [j \in DOMAIN r |->
                         (r[j] - r[k] * At(g, j - (k - d))) % Prime]
        reduced == FoldLeft(Step, f, [i \in 1 .. Length(f) - d |-> Length(f) - i])
    IN  [k \in Below(d) |-> At(reduced, k)]

-----------------------------------------------------------------------------
(* Plaintexts and ciphertexts modulo x^N + 1.                              *)
Ring == Below(N)
Lift(f) == [k \in Ring |-> At(f, k)]
RingAdd(f, g) == [k \in Ring |-> (At(f, k) + At(g, k)) % Prime]
RingSub(f, g) == [k \in Ring |-> (At(f, k) - At(g, k)) % Prime]
Signed(c, wrapped) == IF wrapped THEN -c ELSE c

RingMul(f, g) ==
    [k \in Ring |->
        SumOf([i \in DOMAIN f |-> Signed(f[i] * At(g, (k - i) % N), i > k)])]

\* apply_galois: x becomes x^e.
Galois(f, e) ==
    [k \in Ring |->
        LET i == CHOOSE j \in Ring : (j * e) % N = k
        IN  Signed(f[i], (i * e) % (2 * N) >= N) % Prime]
=============================================================================
