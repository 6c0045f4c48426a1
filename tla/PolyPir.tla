------------------------------ MODULE PolyPir ------------------------------
(***************************************************************************)
(* Batch retrieval by polynomials (batch_pir_basic.h): a column of the     *)
(* host's table is the polynomial f with f(xi^row) = value, the guest asks *)
(* for f modulo the polynomial chara whose roots are the powers of its     *)
(* rows, under encryption.  Two pairs of classes use the processors of     *)
(* this file: BatchPirServer and BatchPirClient (batch_pir_protocol.h)     *)
(* give the guest the values, BatchPirToShareServer and                    *)
(* BatchPirToShareClient (batch_pir_to_share.h) give both parties shares.  *)
(* The guest also sends keepers, whose products are a basis of the         *)
(* polynomials that are 1 at one of its rows and 0 at the others; the host *)
(* subtracts its own random share times the basis.                         *)
(*                                                                         *)
(* Columns are packed factor = half / batch in a plaintext.  A ciphertext  *)
(* is its plaintext.  What is abstracted: keys, levels, the NTT form and   *)
(* the noise; random coefficients come from the sets Masks and Shares.     *)
(***************************************************************************)
EXTENDS Polynomials

CONSTANTS
    Batches,     \* batch sizes
    OddBatch,    \* 2048: the batch size with a grid of its own,
    OddCols,     \* 64: and the columns of that grid
    KeyLevels,   \* the Galois keys are 1 + N / 2^l for l below this
    Tables,      \* the host's data: sequences of columns
    IdLists,     \* the guest's new_ids
    MaxBlocks,   \* bound: plaintexts a response has
    MaxQueries,  \* bound: queries on one pair of objects
    Garbage,     \* what lies behind the end of a vector
    Masks,       \* random_plaintext
    Shares       \* coefficients of share0: by lane, then by row

Half == N \div 2

ASSUME PolyPirAssumption ==
    /\ N % 2 = 0 /\ Batches \subseteq Nat \ {0} /\ \A b \in Batches : Half % b = 0
    \* a shorter table stops at an assertion of encode or a check of poly_reduce
    /\ Points % Half = 0
    /\ {OddBatch, OddCols, KeyLevels, MaxBlocks, MaxQueries} \subseteq Nat \ {0}
    /\ OddBatch % OddCols = 0
    /\ Tables \subseteq Seq([Below(Points) -> Fp])
    /\ IdLists \subseteq Seq(Below(Points))
    /\ Garbage \subseteq Nat
    /\ Masks \subseteq [Below(Half) -> Fp]
    /\ Shares \subseteq [Below(Half) -> [Below(Half) -> Fp]]

VARIABLES
    batch, data, blocks, share,  \* arguments: batch_size, data, feature_num / factor,
                                 \* and which pair of classes it is
    phase,       \* the next call, "done" or "fault"
    why,         \* what was thrown, or undefined
    queries,     \* queries made
    pieces,      \* host: pieces_f, a list of plaintexts per ring slot
    powers,      \* host: chara_and_Xpowers_mod_chara
    basis,       \* host: evaluate_basis
    result0,     \* host: feature |-> its share
    newIds,      \* guest: new_ids
    chara,       \* guest: chara_poly
    query,       \* the message to the host
    response,    \* the message to the guest
    result1      \* guest: feature |-> its answer

arguments == <<batch, data, blocks, share>>
host == <<pieces, powers, basis, result0>>
guest == <<newIds, chara, result1>>
vars == <<arguments, phase, why, queries, host, guest, query, response>>

factor == Half \div batch
K == Points \div batch
Slots == Len(data) \div factor
Features == Below(blocks * factor)

\* The column that feature f is.
ColumnOf(f) == data[1 + (f % (Slots * factor))]

FloorSqrt(b) == Max({r \in 0 .. b : r * r <= b})
CeilSqrt(b) == Min({r \in 0 .. b : r * r >= b})
GuestCols == IF batch = OddBatch THEN OddCols ELSE FloorSqrt(batch)

\* Mutant: the host does not know the grid of the odd batch size.
HostColsSquare == CeilSqrt(batch)

HostCols == IF batch = OddBatch THEN OddCols ELSE CeilSqrt(batch)

-----------------------------------------------------------------------------
(* Host: encoding.                                                         *)
encode(columns) ==
    LET coeff == [j \in Below(factor) |-> fft_interpolate(columns[j + 1])]
    IN  [k \in 1 .. K |->
           [p \in Below(Half) |-> coeff[p % factor][((k - 1) * batch) + (p \div factor)]]]

(* Guest: chara and the powers of x modulo it.                             *)
PointsOf(ids) == [k \in DOMAIN ids |-> xi_powers[ids[k]]]

\* get_chara_Xpowers_mod_new_ids: chara itself in the place of x^0.
CharaAndPowers(ch) ==
    [k \in Below(K) |->
        IF k = 0 THEN ch
        ELSE Rem([i \in 0 .. k * batch |-> IF i = k * batch THEN 1 ELSE 0], ch)]

\* Mutant: the factor that unzip_vec multiplies by is forgotten.
interleaveUnscaled(xs) ==
    [v \in 1 .. K \div factor |->
        [p \in Below((batch + 1) * factor) |->
            At(xs[((v - 1) * factor) + (p % factor)], p \div factor)]]

\* interleave: factor polynomials in one plaintext, divided by factor.
interleave(xs) ==
    [v \in 1 .. K \div factor |->
        [p \in Below((batch + 1) * factor) |->
            (At(xs[((v - 1) * factor) + (p % factor)], p \div factor)
               * Inv(factor % Prime)) % Prime]]

-----------------------------------------------------------------------------
(* Guest: keepers.  A line is the positions of a row or a column of the    *)
(* grid that the positions 1 .. batch are written in, row by row.          *)
RowLines == [r \in 1 .. batch \div GuestCols |->
                [c \in 1 .. GuestCols |-> ((r - 1) * GuestCols) + c]]
ColLines == [c \in 1 .. GuestCols |->
                [r \in 1 .. batch \div GuestCols |-> ((r - 1) * GuestCols) + c]]
AllLines == Range(RowLines) \cup Range(ColLines)
Select(points, line) == [i \in DOMAIN line |-> points[line[i]]]
OffLine(line) == FoldLeft(LAMBDA off, p : IF p \in Range(line) THEN off ELSE Append(off, p),
                          << >>, [p \in 1 .. batch |-> p])

\* all_killer / row_killer: the other positions are its roots.
Killer(points, line) == BuildFromRoots(Select(points, OffLine(line)))

\* Both inverses and interpolation divide by differences of the points.
Invertible(points, line) ==
    /\ IsInjective(Select(points, line))
    /\ \A p \in Range(line) : Eval(Killer(points, line), points[p]) # 0

\* find_row_col_basis: 1 at the line's points, 0 at the others.
Keeper(points, line) ==
    LET kept == Select(points, line)
        killer == Killer(points, line)
    IN  Normal(Mul(killer, Interpolate(kept, [i \in DOMAIN kept |-> Inv(Eval(killer, kept[i]))])))

\* A keeper may be shorter than batch, and the copy reads past its end; only
\* where factor = 1 is the vector handed over with its own length.
Placed(keeper, g) ==
    [p \in Below(Half) |->
        IF p % factor # 0 THEN 0
        ELSE IF p \div factor \in DOMAIN keeper THEN keeper[p \div factor]
        ELSE IF factor = 1 THEN 0 ELSE g]

-----------------------------------------------------------------------------
(* Host: unzip, one ciphertext of spacing 1 into factor of spacing factor. *)
HasGaloisKey(e) == \E l \in Below(KeyLevels) : e = 1 + (N \div (2^l))

\* Mutant: the two halves change places.
HalvesSwapped(cs, s) ==
    LET g(c) == Galois(c, 1 + (N \div s))
        even(c) == RingAdd(c, g(c))
        odd(c) == RingMul([k \in {N - s} |-> Prime - 1], RingSub(c, g(c)))
    IN  [i \in 1 .. 2 * Len(cs) |->
            IF i <= Len(cs) THEN odd(cs[i]) ELSE even(cs[i - Len(cs)])]

\* The coefficients at even and at odd multiples of s, the latter moved down.
Halves(cs, s) ==
    LET g(c) == Galois(c, 1 + (N \div s))
        even(c) == RingAdd(c, g(c))
        odd(c) == RingMul([k \in {N - s} |-> Prime - 1], RingSub(c, g(c)))
    IN  [i \in 1 .. 2 * Len(cs) |->
            IF i <= Len(cs) THEN even(cs[i]) ELSE odd(cs[i - Len(cs)])]

\* Mutant: the last doubling is left out.
SparsitiesShort == [l \in 1 .. Min({k \in 0 .. 29 : 2^(k + 1) >= factor}) |-> 2^(l - 1)]

Sparsities == [l \in 1 .. Min({k \in 0 .. 30 : 2^k >= factor}) |-> 2^(l - 1)]
unzip(c) == FoldLeft(Halves, <<c>>, Sparsities)
unzip_vec(cs) == FlattenSeq([v \in DOMAIN cs |-> unzip(cs[v])])

(* Host: one response polynomial.                                          *)
RingSum(cs) == FoldLeft(RingAdd, Lift(<< >>), cs)

\* chara times a random polynomial, plus the pieces times the powers of x.
poly_reduce(plains, mask) ==
    RingAdd(RingMul(mask, powers[1]),
            RingAdd(plains[1],
                    RingSum([k \in 1 .. K - 1 |-> RingMul(plains[k + 1], powers[k + 1])])))

poly_cipher_toShare(reduced, s) ==
    RingSub(reduced, RingSum([i \in 1 .. batch |->
                RingMul([j \in Below(factor) |-> s[j][i - 1]], basis[i])]))

(* Guest: extraction of a feature.                                         *)
Decomposed(f) ==
    [k \in Below(2 * batch) |-> response[1 + (f \div factor)][(k * factor) + (f % factor)]]

\* eval_batch_poly_val, from_ids.
Values(f) ==
    LET rem == Rem(Decomposed(f), chara)
    IN  [k \in 1 .. batch |->
           SumOf([i \in Below(batch) |-> rem[i] * xi_powers[(newIds[k] * i) % Points]])]

-----------------------------------------------------------------------------
Init ==
    /\ batch \in Batches
    /\ data \in Tables
    /\ Slots > 0 /\ Len(data) % factor = 0
    /\ blocks \in 1 .. MaxBlocks
    /\ share \in BOOLEAN
    /\ phase = "encode"
    /\ why = ""
    /\ queries = 0
    /\ pieces = << >> /\ powers = << >> /\ basis = << >>
    /\ result0 = [f \in {} |-> << >>]
    /\ newIds = << >> /\ chara = << >>
    /\ query = << >> /\ response = << >>
    /\ result1 = [f \in {} |-> << >>]

Fault(reason) ==
    /\ phase' = "fault"
    /\ why' = reason
    /\ UNCHANGED <<arguments, queries, host, guest, query, response>>

\* The server's constructor.
HostEncode ==
    /\ phase = "encode"
    /\ phase' = "query"
    /\ pieces' = [s \in 1 .. Min({Slots, blocks}) |-> encode(SubSeq(data, (s - 1) * factor + 1, s * factor))]
    /\ UNCHANGED <<arguments, why, queries, powers, basis, result0, guest, query, response>>

\* gen_query up to the keepers.
GuestPowers(ids) ==
    /\ phase = "query"
    /\ queries < MaxQueries
    /\ Len(ids) = batch
    /\ phase' = IF share THEN "keepers" ELSE "load"
    /\ queries' = queries + 1
    /\ newIds' = ids
    /\ LET ch == BuildFromRoots(PointsOf(ids))
       IN  /\ chara' = ch
           /\ query' = [form |-> "powers", powers |-> interleave(CharaAndPowers(ch)),
                        rows |-> << >>, cols |-> << >>]
    /\ response' = << >>
    /\ UNCHANGED <<arguments, why, host, result1>>

\* "must have row_num*col_num==batch_size"
GridFits == batch % GuestCols = 0
KeepersExist ==
    \A line \in AllLines : Invertible(PointsOf(newIds), line)

\* gen_row_col_basis, of gen_query or gen_query_stream.
GuestKeepers(form, g) ==
    /\ phase = "keepers"
    /\ GridFits
    /\ KeepersExist
    /\ phase' = "load"
    /\ LET points == PointsOf(newIds)
           Sent(lines) == [l \in DOMAIN lines |-> Placed(Keeper(points, lines[l]), g)]
       IN  query' = [form |-> form, powers |-> query.powers,
                     rows |-> Sent(RowLines), cols |-> Sent(ColLines)]
    /\ UNCHANGED <<arguments, why, queries, host, guest, response>>

GuestKeepersFault ==
    /\ phase = "keepers"
    /\ \/ ~ GridFits /\ Fault("grid")
       \/ GridFits /\ ~ KeepersExist /\ Fault("inverse")

\* set_chara_and_Xpowers_mod_chara
KeysSuffice == \A s \in DOMAIN Sparsities : HasGaloisKey(1 + (N \div Sparsities[s]))

HostPowers ==
    /\ phase = "load"
    /\ KeysSuffice
    /\ phase' = IF share THEN "basis" ELSE "respond"
    /\ powers' = unzip_vec([v \in DOMAIN query.powers |-> Lift(query.powers[v])])
    /\ UNCHANGED <<arguments, why, queries, pieces, basis, result0, guest, query, response>>

HostPowersFault == phase = "load" /\ ~ KeysSuffice /\ Fault("galois")

\* set_evaluate_basis takes the grid from the message, or from batch_size.
BasisCols == IF query.form = "query" THEN Len(query.cols) ELSE HostCols

BasisLoads ==
    \/ query.form = "query"
    \/ /\ HostCols <= Len(query.cols)
       /\ batch \div HostCols <= Len(query.rows)
       /\ (batch - 1) \div HostCols < batch \div HostCols

HostBasis ==
    /\ phase = "basis"
    /\ BasisLoads
    /\ phase' = "respond"
    /\ basis' = [i \in 1 .. batch |->
                   RingMul(query.rows[1 + ((i - 1) \div BasisCols)],
                           query.cols[1 + ((i - 1) % BasisCols)])]
    /\ UNCHANGED <<arguments, why, queries, pieces, powers, result0, guest, query, response>>

HostBasisFault == phase = "basis" /\ ~ BasisLoads /\ Fault("basis")

\* An iteration of the loop of gen_response.
HostRespond(mask, s) ==
    /\ phase = "respond"
    /\ LET b == Len(response)
           reduced == poly_reduce(pieces[1 + (b % Slots)], mask)
       IN  /\ response' = Append(response, IF share THEN poly_cipher_toShare(reduced, s)
                                                    ELSE reduced)
           /\ phase' = IF b + 1 = blocks THEN "extract" ELSE "respond"
           /\ result0' =
                IF ~ share THEN result0
                ELSE [f \in DOMAIN result0 \cup (b * factor .. (b + 1) * factor - 1) |->
                        IF f \div factor = b THEN [k \in 1 .. batch |-> s[f % factor][k - 1]]
                        ELSE result0[f]]
    /\ UNCHANGED <<arguments, why, queries, pieces, powers, basis, guest, query>>

\* extract_answer
GuestExtract ==
    /\ phase = "extract"
    /\ phase' = "done"
    /\ result1' = [f \in Features |-> Values(f)]
    /\ UNCHANGED <<arguments, why, queries, host, newIds, chara, query, response>>

NextQuery ==
    /\ phase = "done"
    /\ queries < MaxQueries
    /\ phase' = "query"
    /\ UNCHANGED <<arguments, why, queries, host, guest, query, response>>

Stopped ==
    /\ phase = "fault" \/ (phase = "done" /\ queries = MaxQueries)
    /\ UNCHANGED vars

Next ==
    \/ HostEncode
    \/ \E ids \in IdLists : GuestPowers(ids)
    \/ \E form \in {"query", "stream"}, g \in Garbage : GuestKeepers(form, g)
    \/ GuestKeepersFault
    \/ HostPowers
    \/ HostPowersFault
    \/ HostBasis
    \/ HostBasisFault
    \/ \E mask \in Masks, s \in Shares : HostRespond(mask, s)
    \/ GuestExtract
    \/ NextQuery
    \/ Stopped

Spec == Init /\ [][Next]_vars
-----------------------------------------------------------------------------
(* Type invariant: every vector has the length the other party's loops use. *)
TypeOK ==
    /\ queries \in 0 .. MaxQueries
    /\ \A s \in DOMAIN pieces : pieces[s] \in [1 .. K -> [Below(Half) -> Fp]]
    /\ phase \in {"basis", "respond"} => powers \in [1 .. K -> [Ring -> Fp]]
    /\ Len(response) <= blocks
    /\ \A b \in DOMAIN response : response[b] \in [Ring -> Fp]

Distinct(ids) == IsInjective(ids)

\* The copies of the keepers stay within their vectors.
KeepersFull ==
    factor = 1 \/ \A line \in AllLines :
                     Length(Keeper(PointsOf(newIds), line)) = batch

(* For every feature and every row the guest asked for, the two parties'   *)
(* shares add up to the value in the host's table: packing, the division   *)
(* in interleave against the doubling in unzip, the reduction, the random  *)
(* mask, the keepers and the two grids all have to agree.                  *)
SharesAddUp ==
    (phase = "done" /\ share /\ KeepersFull) =>
        \A f \in Features : \A k \in 1 .. batch :
            (result0[f][k] + result1[f][k]) % Prime = ColumnOf(f)[newIds[k]]

(* Without shares the guest gets the values themselves, for repeated rows  *)
(* too (test_correctness, batch_pir_protocol.h:551).                       *)
RetrievalRight ==
    (phase = "done" /\ ~ share) =>
        \A f \in Features : \A k \in 1 .. batch : result1[f][k] = ColumnOf(f)[newIds[k]]

(* Distinct rows, a square batch size or the one with a grid of its own,   *)
(* and at most 2^KeyLevels columns in a plaintext: then neither the guest  *)
(* nor the host throws or leaves a vector, whichever overload is used.     *)
SupportedSize ==
    /\ factor <= 2^KeyLevels
    /\ share => batch = OddBatch \/ FloorSqrt(batch) = CeilSqrt(batch)

SupportedNeverFaults ==
    (SupportedSize /\ (share => Distinct(newIds))) => phase # "fault"

(* test_feature_correctness (batch_pir_to_share.h:528) asks for the sum of *)
(* the shares whatever distinct rows the guest asks for.                   *)
SharesAlwaysAddUp ==
    (phase = "done" /\ share /\ Distinct(newIds)) =>
        \A f \in Features : \A k \in 1 .. batch :
            (result0[f][k] + result1[f][k]) % Prime = ColumnOf(f)[newIds[k]]

(* "must have row_num*col_num==batch_size" (batch_pir_basic.h:1008): the   *)
(* check in gen_row_col_basis is never met by a batch size the drivers     *)
(* choose.                                                                 *)
GridAlwaysFits == why # "grid"
=============================================================================
