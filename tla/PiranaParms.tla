---------------------------- MODULE PiranaParms ----------------------------
(***************************************************************************)
(* The parameters of the PIRANA baseline (pir_parms.cc, utils.cc): how     *)
(* many columns, slots, code positions and rotations a database needs, and *)
(* the constant-weight codeword of a column.                               *)
(***************************************************************************)
EXTENDS Integers, FiniteSets, FiniteSetsExt

CONSTANT N  \* poly_modulus_degree, slots of a ciphertext: two rows of N / 2

ASSUME DegreeAssumption == N \in {2^i : i \in 1 .. 15}

Powers == {2^i : i \in 0 .. 15}
CeilDiv(x, y) == ((x + y) - 1) \div y
Least(x, y) == IF x < y THEN x ELSE y

\* The power of two at or above x.
WordPowers == {2^i : i \in 0 .. 30}
NextPowerOf2(x) == Min({p \in WordPowers : p >= x})

PayloadSlots(bytes, primeLen) == CeilDiv(8 * bytes, primeLen - 1)

Choose(n, k) ==
    LET r[d \in 0 .. k] == IF d = 0 THEN 1 ELSE (r[d - 1] * ((n - d) + 1)) \div d
    IN  IF k > n THEN 0 ELSE r[k]

\* Code positions for so many columns, two of them set in every codeword.
CalculateEncodingSize(columns) == Min({e \in 2 .. columns + 1 : Choose(e, 2) >= columns})

\* The loop takes positions from the top, each where the rest still allows it.
Codeword(number, size) ==
    LET first == Max({p \in 0 .. size - 1 : Choose(p, 2) <= number})
        second == Max({p \in 0 .. first - 1 : Choose(p, 1) <= number - Choose(first, 2)})
    IN  {first, second}

-----------------------------------------------------------------------------
(* One query.                                                              *)
RotationCost(slots, columns, r) ==
    ((r - 1) * columns) + ((CeilDiv(Least(N, slots), r) - 1) * CeilDiv(slots, N))

\* It doubles for as long as that lowers the cost.
ChooseRotateParms(slots, columns) ==
    Max({r \in Powers : /\ r <= N
                        /\ \A q \in Powers : q < r => RotationCost(slots, columns, 2 * q)
                                                        < RotationCost(slots, columns, q)})

ColumnsRounded(payloads) == CeilDiv(NextPowerOf2(payloads), N)  \* mutant
Columns(payloads) == CeilDiv(payloads, N)

SingleParms(payloads, bytes) ==
    LET columns == Columns(payloads)
        slots == PayloadSlots(bytes, 31)
        pre == Max({ChooseRotateParms(slots, columns), N \div payloads})
    IN  [n |-> NextPowerOf2(payloads), slots |-> slots, columns |-> columns,
         encodingSize |-> IF NextPowerOf2(payloads) < N THEN 1
                          ELSE CalculateEncodingSize(columns),
         preRotate |-> pre, rotateStep |-> N \div pre]

-----------------------------------------------------------------------------
(* Many queries: a cuckoo table of one and a half times their number, in   *)
(* bundles of N places, or with several slots of a ciphertext to a place.  *)
BatchParms(payloads, bytes, queries, isCompress) ==
    LET wanted == (3 * queries) \div 2
        compress == isCompress /\ wanted < N
        numSlot == IF compress THEN N \div wanted ELSE 1
        bundles == IF compress THEN 1 ELSE CeilDiv(wanted, N)
        slots == PayloadSlots(bytes, IF isCompress THEN 18 ELSE 17)
    IN  [n |-> payloads, slots |-> slots, compress |-> compress, bundles |-> bundles,
         numSlot |-> numSlot,
         tableSize |-> IF compress THEN N \div numSlot ELSE bundles * N,
         compressSlots |-> CeilDiv(slots, numSlot)]
=============================================================================
