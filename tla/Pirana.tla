------------------------------- MODULE Pirana -------------------------------
(***************************************************************************)
(* The PIRANA baseline as main.cc drives it: parameters, server and client *)
(* for one database, then one query (single_pir_main), or queries in       *)
(* batches through a cuckoo table that client and server share             *)
(* (batch_pir_main), and the answers as test.cc reads them.                *)
(***************************************************************************)
EXTENDS PiranaServer, Sequences, SequencesExt

CONSTANTS
    Singles,     \* [payloads, bytes]: databases for one query
    Batched,     \* [payloads, bytes, queries, compress]: and for batches
    Hashes,      \* functions from items to the values of Kuku's three hashes
    Batches,     \* sequences of items to ask for
    MaxBatches,  \* batches of one client
    MaxProbe,    \* of the cuckoo table
    Word         \* 2^32: values of uint32_t

ASSUME PiranaAssumption ==
    /\ \A s \in Singles : s.payloads \in 1 .. 2^30 /\ s.bytes \in Nat
    /\ \A s \in Batched : /\ s.payloads \in Nat /\ s.bytes \in Nat
                          /\ s.queries \in Nat \ {0} /\ s.compress \in BOOLEAN
                          /\ \A h \in Hashes : \A i \in 0 .. s.payloads - 1 : h[i] \subseteq Nat
    /\ Batches \subseteq Seq(Nat)
    /\ MaxProbe \in Nat /\ Word \in Nat \ {0}

VARIABLES
    job,       \* the database and its kind
    p,         \* PirParms
    hash,      \* the hashes
    pc,
    table,     \* the cuckoo table: places in use and their items
    homeless,  \* the items on their way into the table: at most one
    probes,
    todo,      \* what is left of the batch to insert
    batch,     \* the batch, or the one query
    asked,     \* the places and keys that gen_batch_query worked with
    query, answer,
    rounds

cuckoo == <<table, homeless, probes, todo>>
piranaVars == <<job, p, hash, pc, cuckoo, batch, asked, query, answer, rounds>>

Locations == [i \in 0 .. p.n - 1 |-> {x % p.tableSize : x \in hash[i]}]

\* KukuTable::query; an item it does not hold is said to be at 0.
InTable(q) == \E l \in DOMAIN table : table[l] = q
Place(q) == IF InTable(q) THEN CHOOSE l \in DOMAIN table : table[l] = q ELSE 0

\* The keys of gen_batch_query, in 32 bits where it compresses.
QueryKeyShort(q) == (q * (p.tableSize - 1)) + Place(q)  \* mutant
QueryKey(q) == IF p.compress THEN ((q * p.tableSize) + Place(q)) % Word
          ELSE (q * p.tableSize) + Place(q)

PiranaInit ==
    /\ \/ \E s \in Singles : /\ job = [kind |-> "single", payloads |-> s.payloads]
                             /\ p = SingleParms(s.payloads, s.bytes)
                             /\ hash = << >>
       \/ \E s \in Batched : /\ job = [kind |-> "batch", payloads |-> s.payloads, queries |-> s.queries]
                             /\ p = BatchParms(s.payloads, s.bytes, s.queries, s.compress)
                             /\ hash \in Hashes
    /\ pc = "start" /\ rounds = 0
    /\ table = << >> /\ homeless = {} /\ probes = 0 /\ todo = << >>
    /\ batch = << >> /\ asked = {} /\ query = << >> /\ answer = << >>

\* The assertion of PirParms, and the division by preRotate / 2 while a database
\* of at least N rows is encoded.
Faulty == job.kind = "single" /\ (\/ N % p.preRotate # 0
                                  \/ RepeatTime(p) = 1 /\ p.preRotate = 1)

Server ==
    /\ pc = "start"
    /\ pc' = IF Faulty THEN "fault" ELSE "ready"
    /\ UNCHANGED <<job, p, hash, cuckoo, batch, asked, query, answer, rounds>>

-----------------------------------------------------------------------------
(* One query.                                                              *)
SingleQuery(index) ==
    /\ pc = "ready" /\ job.kind = "single" /\ rounds = 0
    /\ batch' = <<index>>
    /\ query' = GenQuery(p, index)
    /\ rounds' = 1
    /\ pc' = "asked"
    /\ UNCHANGED <<job, p, hash, cuckoo, asked, answer>>

SingleResponse ==
    /\ pc = "asked" /\ job.kind = "single"
    /\ answer' = GenResponse(p, query)
    /\ pc' = "answered"
    /\ UNCHANGED <<job, p, hash, cuckoo, batch, asked, query, rounds>>

-----------------------------------------------------------------------------
(* Many queries.                                                           *)
BeginBatch(items) ==
    /\ pc = "ready" /\ job.kind = "batch" /\ rounds < MaxBatches
    /\ Len(items) = job.queries /\ \A k \in DOMAIN items : items[k] < job.payloads
    /\ batch' = items /\ todo' = items
    /\ rounds' = rounds + 1
    /\ pc' = "insert"
    /\ UNCHANGED <<job, p, hash, table, homeless, probes, asked, query, answer>>

\* KukuTable::insert: an item it holds already is not inserted again.
NewAlways(q) == {q}  \* mutant
New(q) == IF InTable(q) THEN {} ELSE {q}

Insert ==
    /\ pc = "insert" /\ homeless = {} /\ todo # << >>
    /\ homeless' = New(Head(todo))
    /\ probes' = 0
    /\ todo' = Tail(todo)
    /\ UNCHANGED <<job, p, hash, pc, table, batch, asked, query, answer, rounds>>

FreePlaces(q) == Locations[q] \ DOMAIN table
With(l, q) == [x \in DOMAIN table \cup {l} |-> IF x = l THEN q ELSE table[x]]

Settle(l) ==
    /\ probes < MaxProbe
    /\ \E q \in homeless : l \in FreePlaces(q) /\ table' = With(l, q)
    /\ homeless' = {}
    /\ UNCHANGED <<job, p, hash, pc, probes, todo, batch, asked, query, answer, rounds>>

Kick(l) ==
    /\ probes < MaxProbe
    /\ \E q \in homeless : FreePlaces(q) = {} /\ l \in Locations[q] /\ table' = With(l, q)
    /\ homeless' = {table[l]}
    /\ probes' = probes + 1
    /\ UNCHANGED <<job, p, hash, pc, todo, batch, asked, query, answer, rounds>>

\* insert returns false, which gen_batch_query does not look at.
LeaveOut ==
    /\ homeless # {} /\ probes = MaxProbe
    /\ homeless' = {}
    /\ UNCHANGED <<job, p, hash, pc, table, probes, todo, batch, asked, query, answer, rounds>>

BatchQuery ==
    /\ pc = "insert" /\ homeless = {} /\ todo = << >>
    /\ asked' = {[place |-> Place(q), key |-> QueryKey(q)] : q \in Range(batch)}
    /\ query' = GenBatchQuery(p, Locations, asked')
    /\ pc' = "asked"
    /\ UNCHANGED <<job, p, hash, cuckoo, batch, answer, rounds>>

BatchResponse ==
    /\ pc = "asked" /\ job.kind = "batch"
    /\ answer' = GenBatchResponse(p, Locations, query)
    /\ pc' = "answered"
    /\ UNCHANGED <<job, p, hash, cuckoo, batch, asked, query, rounds>>

\* The answers have been read.
Again ==
    /\ pc = "answered" /\ job.kind = "batch"
    /\ pc' = "ready"
    /\ batch' = << >> /\ asked' = {} /\ query' = << >> /\ answer' = << >>
    /\ UNCHANGED <<job, p, hash, cuckoo, rounds>>

PiranaNext ==
    \/ Server
    \/ \E index \in 0 .. job.payloads - 1 : SingleQuery(index)
    \/ SingleResponse
    \/ \E items \in Batches : BeginBatch(items)
    \/ Insert \/ LeaveOut \/ BatchQuery \/ BatchResponse \/ Again
    \/ job.kind = "batch" /\ \E l \in 0 .. p.tableSize - 1 : Settle(l) \/ Kick(l)

PiranaSpec == PiranaInit /\ [][PiranaNext]_piranaVars

-----------------------------------------------------------------------------
(* Properties.                                                             *)

\* The table that client and server share holds every item once, at one of the
\* places its hashes give, and queries are encryptions of zeros and ones.
PiranaTypeOK ==
    /\ pc \in {"start", "ready", "fault", "insert", "asked", "answered"}
    /\ Cardinality(homeless) <= 1 /\ probes \in 0 .. MaxProbe
    /\ \A l \in DOMAIN table : table[l] \in 0 .. job.payloads - 1 /\ l \in Locations[table[l]]
    /\ \A l \in DOMAIN table : /\ table[l] \notin homeless
                               /\ \A x \in DOMAIN table : table[x] = table[l] => x = l
    /\ \A i \in DOMAIN query : \A pos \in Slots : query[i][pos] \in {0, 1}

\* test_pir_correctness: wherever the query, the repeated or turned database and
\* the turned sums put it, every slot of the payload is where the test reads it.
SingleRight ==
    (pc = "answered" /\ job.kind = "single") =>
        \A count \in 0 .. p.slots - 1 :
            SingleSlot(p, batch[1], answer, count) = Raw(batch[1], count)

\* A query that the table holds, with a key that fits 32 bits, and not at the
\* place where a query that was left out is sent as well.
Sound(q) ==
    /\ InTable(q)
    /\ p.compress => (q * p.tableSize) + Place(q) < Word
    /\ Place(q) = 0 => \A x \in Range(batch) : InTable(x)

\* test_batch_pir_correctness: each such query of every batch gets its payload,
\* whatever became of the others and of the batches before.
BatchRight ==
    (pc = "answered" /\ job.kind = "batch") =>
        \A q \in Range(batch) : Sound(q) =>
            \A i \in 0 .. p.slots - 1 : BatchSlot(p, Place(q), answer, i) = Raw(q, i)

\* Rotations are worth their cost: more than a column for every slot they save.
RotationsPay ==
    (Least(N, p.slots) \div 2) * CeilDiv(p.slots, N) > CeilDiv(job.payloads, N)

\* The constructors of PirParms and Server come to their end for every database
\* of a power of two below N rows, and for every larger one where a rotation pays.
SupportedNeverFaults ==
    (/\ job.kind = "single"
     /\ job.payloads <= Half => job.payloads \in Powers
     /\ job.payloads > Half => RotationsPay)
    => pc # "fault"
=============================================================================
