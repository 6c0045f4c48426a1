---------------------------- MODULE PiranaServer ----------------------------
(***************************************************************************)
(* The data path of the PIRANA baseline (client.cc, server.cc, test.cc):   *)
(* how the database is laid out in plaintexts, the query in ciphertexts,   *)
(* what the server computes and where the answer is read.  A ciphertext is *)
(* the vector of its slots; p is a record of PiranaParms.                  *)
(***************************************************************************)
EXTENDS PiranaParms, Functions

Half == N \div 2
Slots == 0 .. N - 1
Filled(v) == [pos \in Slots |-> v]

Plus(v, w) == [pos \in Slots |-> v[pos] + w[pos]]
Times(v, w) == [pos \in Slots |-> v[pos] * w[pos]]

\* SEAL's slots are two rows: to the left in both, or change places.
RotateRows(v, k) == [pos \in Slots |-> v[((pos \div Half) * Half) + ((pos + k) % Half)]]
RotateColumns(v) == [pos \in Slots |-> v[(pos + Half) % N]]

\* Entries of gen_random_db are not zero; here no two are the same.
Raw(row, slot) == (row * 32) + slot + 1

\* The pairs of code positions in the order of the two loops.
Pair(column) ==
    CHOOSE pair \in {x \in (0 .. column + 1) \X (0 .. column) : x[2] < x[1]} :
        column = Cardinality({x \in (0 .. pair[1]) \X (0 .. column) :
                                 x[2] < x[1] /\ (x[1] = pair[1] => x[2] < pair[2])})

-----------------------------------------------------------------------------
(* One query.                                                              *)
RepeatTime(p) == IF N < p.n THEN 1 ELSE N \div p.n
RealRotate(p) == p.preRotate \div RepeatTime(p)

\* A database of at least N rows: each slot of the payload is turned further,
\* and the rows change places half way.
WideNoSwap(p, slot, column) ==  \* mutant
    [pos \in Slots |->
        Raw((column * N) + ((pos \div Half) * Half) + ((pos - (slot * p.rotateStep)) % Half), slot)]
Wide(p, slot, column) ==
    LET side(pos) == ((pos \div Half) + (slot \div (p.preRotate \div 2))) % 2
    IN  [pos \in Slots |->
            Raw((column * N) + (side(pos) * Half) + ((pos - (slot * p.rotateStep)) % Half), slot)]

\* A smaller one is repeated with further slots of the payload.  Where there is
\* none left the second row is zero and the first keeps what the vector had.
Narrow(p) ==
    LET real == RealRotate(p)
        plain[k \in 0 .. (CeilDiv(p.columns * p.slots, p.preRotate) * real) - 1] ==
            [pos \in Slots |->
                LET row == pos \div Half
                    i == (pos - ((k % real) * p.rotateStep)) % Half
                    slot == ((k \div real) * p.preRotate) + (k % real) + (real * (i \div p.n))
                              + (row * (p.preRotate \div 2))
                IN  IF slot < p.slots THEN Raw(i % p.n, slot)
                    ELSE IF row = 1 \/ k = 0 THEN 0 ELSE plain[k - 1][pos]]
    IN  plain

EncodeToNttDb(p) ==
    IF RepeatTime(p) # 1 THEN Narrow(p)
    ELSE [k \in 0 .. (p.slots * p.columns) - 1 |-> Wide(p, k \div p.columns, k % p.columns)]

GenQuery(p, index) ==
    IF p.n < N
    THEN [i \in {0} |-> [pos \in Slots |-> IF pos % p.n = index THEN 1 ELSE 0]]
    ELSE [i \in 0 .. p.encodingSize - 1 |->
            [pos \in Slots |->
                IF pos = index % N /\ i \in Codeword(index \div N, p.encodingSize) THEN 1 ELSE 0]]

GenSelectionVector(p, query) ==
    IF p.encodingSize = 1 THEN query
    ELSE [c \in 0 .. p.columns - 1 |-> Times(query[Pair(c)[1]], query[Pair(c)[2]])]

RotateSelectionVector(p, sel) ==
    LET half == p.preRotate \div 2
        Turned(v, j) == RotateRows(v, - (j * p.rotateStep))
    IN  IF RepeatTime(p) # 1 THEN [j \in 0 .. RealRotate(p) - 1 |-> Turned(sel[0], j)]
        ELSE [k \in 0 .. (p.columns * p.preRotate) - 1 |->
                LET v == sel[k \div p.preRotate]
                    j == k % p.preRotate
                IN  IF j < half THEN Turned(v, j) ELSE Turned(RotateColumns(v), j - half)]

TotalRot(p) == CeilDiv(p.slots, p.preRotate)

\* One slot of the payload, in all columns.
Product(p, rotated, db, count, pos) ==
    SumFunction([c \in 0 .. p.columns - 1 |->
        rotated[(c * RealRotate(p)) + (count % RealRotate(p))][pos] * db[(count * p.columns) + c][pos]])

\* mul_database_with_compress: so many products to a sum, and the response is
\* turned by one after every sum.
SumOfProducts(p, rotated, db, s) ==
    LET real == RealRotate(p)
        totalMul == IF RepeatTime(p) = 1 THEN p.slots ELSE TotalRot(p) * p.preRotate
        counts == {count \in s * real .. ((s + 1) * real) - 1 : count < totalMul}
    IN  [pos \in Slots |-> SumFunction([count \in counts |-> Product(p, rotated, db, count, pos)])]

Response(p, rotated, db, out) ==
    LET rot == N \div p.preRotate
        last == Least(rot, TotalRot(p) - (out * rot))
        acc[s \in 0 .. last] ==
            IF s = 0 THEN Filled(0)
            ELSE RotateRows(Plus(acc[s - 1], SumOfProducts(p, rotated, db, (out * rot) + (s - 1))), 1)
    IN  acc[last]

MulDatabase(p, rotated, db) ==
    [out \in 0 .. CeilDiv(p.slots, N) - 1 |-> Response(p, rotated, db, out)]

GenResponse(p, query) ==
    MulDatabase(p, RotateSelectionVector(p, GenSelectionVector(p, query)), EncodeToNttDb(p))

\* Where test_pir_correctness reads a slot of the payload.
SingleSlot(p, index, answer, count) ==
    LET half == p.preRotate \div 2
        out == count \div N
        j == (count % N) \div p.preRotate
        k == count % p.preRotate
        left == TotalRot(p) - (out * p.rotateStep)
        offset == (index - Least(left, p.rotateStep)) % Half
        row == (index \div Half) + (k \div half)
    IN  answer[out][((row * Half) + ((((k % half) * p.rotateStep) + j + offset) % Half)) % N]

-----------------------------------------------------------------------------
(* Many queries.  locations is what Kuku's all_locations gives an item.    *)
Bucket(p, locations, place) == {i \in 0 .. p.n - 1 : place \in locations[i]}
ColSize(p, locations) == Max({Cardinality(Bucket(p, locations, l)) : l \in 0 .. p.tableSize - 1})
BatchEncodingSize(p, locations) == CalculateEncodingSize(ColSize(p, locations))

\* _hash_index: the column of an item in a bucket, under the key of both; a key
\* that is not there is 0.
HashIndex(p, locations, key) ==
    LET i == key \div p.tableSize
        place == key % p.tableSize
    IN  IF i < p.n /\ place \in locations[i]
        THEN Cardinality({x \in Bucket(p, locations, place) : x < i})
        ELSE 0

\* The item in a column of a bucket.
Item(p, locations, place, column) ==
    CHOOSE i \in Bucket(p, locations, place) :
        column = Cardinality({x \in Bucket(p, locations, place) : x < i})

\* Both batch_encode_to_ntt_db: numSlot slots of the payload to a place.
BatchEncode(p, locations) ==
    LET columns == ColSize(p, locations)
    IN  [k \in 0 .. (p.compressSlots * columns * p.bundles) - 1 |->
            [pos \in Slots |->
                LET column == (k \div p.bundles) % columns
                    place == ((k % p.bundles) * N) + (pos \div p.numSlot)
                    slot == ((k \div (p.bundles * columns)) * p.numSlot) + (pos % p.numSlot)
                IN  IF place >= p.tableSize THEN 0
                    ELSE IF column < Cardinality(Bucket(p, locations, place)) /\ slot < p.slots
                    THEN Raw(Item(p, locations, place, column), slot)
                    ELSE 1]]

\* asked: for every query the place that the cuckoo table gives it and its key.
GenBatchQuery(p, locations, asked) ==
    LET size == BatchEncodingSize(p, locations)
    IN  [k \in 0 .. (size * p.bundles) - 1 |->
            [pos \in Slots |->
                IF \E x \in asked :
                      /\ k \div p.bundles \in Codeword(HashIndex(p, locations, x.key), size)
                      /\ k % p.bundles = x.place \div N
                      /\ pos \div p.numSlot = x.place % N
                THEN 1 ELSE 0]]

GenSelectionVectorBatch(p, locations, query) ==
    [k \in 0 .. (ColSize(p, locations) * p.bundles) - 1 |->
        LET pair == Pair(k \div p.bundles)
            bundle == k % p.bundles
        IN  Times(query[(pair[1] * p.bundles) + bundle], query[(pair[2] * p.bundles) + bundle])]

InnerProduct(p, locations, sel, db) ==
    LET columns == ColSize(p, locations)
    IN  [k \in 0 .. (p.compressSlots * p.bundles) - 1 |->
            [pos \in Slots |->
                LET ct == k \div p.bundles
                    bundle == k % p.bundles
                IN  SumFunction([c \in 0 .. columns - 1 |->
                        sel[bundle + (p.bundles * c)][pos]
                          * db[(ct * p.bundles * columns) + bundle + (c * p.bundles)][pos]])]]

GenBatchResponse(p, locations, query) ==
    InnerProduct(p, locations, GenSelectionVectorBatch(p, locations, query),
                 BatchEncode(p, locations))

\* Where test_batch_pir_correctness reads a slot of the payload.
BatchSlot(p, place, answer, i) ==
    answer[(p.bundles * (i \div p.numSlot)) + (place \div N)]
          [(i % p.numSlot) + ((place % N) * p.numSlot)]
=============================================================================
