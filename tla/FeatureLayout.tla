---------------------------- MODULE FeatureLayout ----------------------------
(***************************************************************************)
(* How BatchPirToShareServer and BatchPirToShareClient lay features out in *)
(* plaintexts (batch_pir_to_share.h).  A plaintext has room for Degree     *)
(* coefficients of a column polynomial cut at the batch size, so factor =  *)
(* Degree / batch columns share one, coefficient k of the j-th at position *)
(* k * factor + j.  The server keeps a ring of them: fake_feature_num      *)
(* columns, one per column of its data, or four when the rest is to live   *)
(* in a file (use_out_mem); feature blocks beyond the ring wrap around.    *)
(*                                                                         *)
(* What is abstracted: a coefficient is <<column, k>>; reduction modulo    *)
(* the batch polynomial keeps a position's residue modulo factor and turns *)
(* batch coefficients of a column into 2 * batch; a response coefficient   *)
(* also names the feature whose share 0 was subtracted from it.            *)
(***************************************************************************)
EXTENDS Integers, Sequences

CONSTANTS
    Degree,       \* half_poly_mod_degree
    InMem,        \* fake_feature_num with use_out_mem
    Batches,      \* batch sizes
    DataSizes,    \* numbers of columns of the server's data
    MaxFeatures,  \* bound: the largest feature_num
    MaxQueries    \* bound: queries served by one server

ASSUME LayoutAssumption ==
    /\ {Degree, InMem} \subseteq Nat \ {0}
    /\ Batches \subseteq 1 .. Degree
    /\ DataSizes \subseteq Nat \ {0}
    /\ {MaxFeatures, MaxQueries} \subseteq Nat

VARIABLES
    batch, featureNum, dataSize, useOutMem,  \* arguments of the constructors
    phase,      \* "encode", "idle", "respond", "extract", "done" or "fault"
    id,         \* the loops' index i, feature_id
    pieces,     \* pieces_f: slot |-> plaintext
    outFile,    \* the blocks of plaintexts written to out_mem_file_name
    inPos,      \* blocks read from it since it was opened
    overload,   \* gen_response's parameter: "query" or "stream"
    queries,    \* queries answered
    result0,    \* server: the features it has shares of
    response,   \* the encrypted polynomials
    result1     \* client: feature |-> its coefficients

layoutArguments == <<batch, featureNum, dataSize, useOutMem>>
layoutVars == <<layoutArguments, phase, id, pieces, outFile, inPos, overload, queries,
                result0, response, result1>>

Below(k) == 0 .. k - 1
Divides == Degree % batch = 0
factor == IF Divides THEN Degree \div batch ELSE 1
fakeFeatureNum == IF useOutMem THEN InMem ELSE dataSize
Slots == fakeFeatureNum \div factor
Blocks == featureNum \div factor

-----------------------------------------------------------------------------
(* Layouts.                                                                *)

\* PolyProcessorHost::encode of the factor columns from first on.
Encode(first) ==
    [p \in Below(batch * factor) |-> <<first + (p % factor), p \div factor>>]

\* poly_reduce and poly_cipher_toShare for one block of features.
Reduce(piece, block) ==
    [p \in Below(2 * batch * factor) |->
        [column |-> piece[p % factor][1], k |-> p \div factor,
         share |-> block * factor + (p % factor)]]

\* Mutant: the inner loop runs once too often.
SharedByOneMore(block) == {block * factor + j : j \in 0 .. factor}

\* The features whose result0 one iteration of gen_response fills.
SharedBy(block) == {block * factor + j : j \in Below(factor)}

\* Mutant: the two roles of a feature number are exchanged.
DecomposeSwapped(polys, f) ==
    [k \in Below(2 * batch) |-> polys[1 + (f % Blocks)][k * factor + (f \div Blocks)]]

\* extract_answer: decomposed_plain_poly[f].
Decompose(polys, f) ==
    [k \in Below(2 * batch) |-> polys[1 + (f \div factor)][k * factor + (f % factor)]]

-----------------------------------------------------------------------------
LayoutInit ==
    /\ batch \in Batches
    /\ dataSize \in DataSizes
    /\ featureNum \in 0 .. MaxFeatures
    /\ useOutMem \in BOOLEAN
    \* use_out_mem is set where feature_num is data.size() only.
    /\ useOutMem => featureNum = dataSize
    /\ phase = IF Divides THEN "encode" ELSE "idle"
    /\ id = 0
    /\ pieces = [s \in {} |-> << >>]
    /\ outFile = << >>
    /\ inPos = 0
    /\ overload = "stream"
    /\ queries = 0
    /\ result0 = {}
    /\ response = << >>
    /\ result1 = [f \in {} |-> << >>]

\* Undefined behaviour or an uncaught exception ends the process.
Fault ==
    /\ phase' = "fault"
    /\ UNCHANGED <<layoutArguments, id, pieces, outFile, inPos, overload, queries,
                   result0, response, result1>>

\* Mutant: a block is saved when the features, not the slots, have wrapped.
EncodeBlockSavesLate ==
    /\ phase = "encode"
    /\ id < Blocks
    /\ Slots # 0
    /\ LET s == id % Slots
           filled == [t \in DOMAIN pieces \cup {s} |->
                        IF t = s THEN Encode(s * factor) ELSE pieces[t]]
       IN  /\ pieces' = filled
           /\ outFile' = IF useOutMem /\ id % fakeFeatureNum = fakeFeatureNum - 1
                           THEN Append(outFile, filled) ELSE outFile
    /\ id' = id + 1
    /\ UNCHANGED <<layoutArguments, phase, inPos, overload, queries, result0, response, result1>>

\* The constructor: one iteration of its loop over the blocks.
EncodeBlock ==
    /\ phase = "encode"
    /\ id < Blocks
    /\ Slots # 0
    /\ LET s == id % Slots
           filled == [t \in DOMAIN pieces \cup {s} |->
                        IF t = s THEN Encode(s * factor) ELSE pieces[t]]
       IN  /\ pieces' = filled
           /\ outFile' = IF useOutMem /\ s = Slots - 1 THEN Append(outFile, filled)
                                                       ELSE outFile
    /\ id' = id + 1
    /\ UNCHANGED <<layoutArguments, phase, inPos, overload, queries, result0, response, result1>>

\* i % 0
EncodeFault ==
    /\ phase = "encode"
    /\ id < Blocks
    /\ Slots = 0
    /\ Fault

EncodeEnd ==
    /\ phase = "encode"
    /\ id >= Blocks
    /\ phase' = "idle"
    /\ UNCHANGED <<layoutArguments, id, pieces, outFile, inPos, overload, queries,
                   result0, response, result1>>

\* gen_response up to its loop.
BeginResponse(o) ==
    /\ phase \in {"idle", "done"}
    /\ queries < MaxQueries
    /\ phase' = "respond"
    /\ id' = 0
    /\ inPos' = 0
    /\ overload' = o
    /\ queries' = queries + 1
    /\ response' = << >>
    /\ UNCHANGED <<layoutArguments, pieces, outFile, result0, result1>>

\* Only the overload for BatchPirToShareQuery reads the file back.
Reloads == overload = "query" /\ useOutMem /\ id % fakeFeatureNum = 0
FileEnded == inPos >= Len(outFile)

\* An iteration of the loop of gen_response.
RespondBlock ==
    /\ phase = "respond"
    /\ id < Blocks
    /\ ~ (Reloads /\ FileEnded)
    /\ LET loaded == IF Reloads THEN outFile[inPos + 1] ELSE pieces
       IN  /\ id % Slots \in DOMAIN loaded
           /\ pieces' = loaded
           /\ response' = Append(response, Reduce(loaded[id % Slots], id))
    /\ inPos' = IF Reloads THEN inPos + 1 ELSE inPos
    /\ result0' = result0 \cup SharedBy(id)
    /\ id' = id + 1
    /\ UNCHANGED <<layoutArguments, phase, outFile, overload, queries, result1>>

\* A read beyond the file's end, or pieces_f indexed out of range.
RespondFault ==
    /\ phase = "respond"
    /\ id < Blocks
    /\ \/ Reloads /\ FileEnded
       \/ ~ Divides
    /\ Fault

RespondEnd ==
    /\ phase = "respond"
    /\ id >= Blocks
    /\ phase' = "extract"
    /\ UNCHANGED <<layoutArguments, id, pieces, outFile, inPos, overload, queries,
                   result0, response, result1>>

\* extract_answer; nothing is done for a batch size that does not divide.
Extract ==
    /\ phase = "extract"
    /\ Divides => featureNum % factor = 0
    /\ phase' = "done"
    /\ result1' = [f \in (IF Divides THEN Below(featureNum) ELSE {}) |->
                        Decompose(response, f)]
    /\ UNCHANGED <<layoutArguments, id, pieces, outFile, inPos, overload, queries, result0, response>>

\* assert(feature_num % factor == 0)
ExtractFault ==
    /\ phase = "extract"
    /\ Divides
    /\ featureNum % factor # 0
    /\ Fault

Stopped ==
    /\ phase = "fault" \/ (phase = "done" /\ queries = MaxQueries)
    /\ UNCHANGED layoutVars

LayoutNext ==
    \/ EncodeBlock
    \/ EncodeFault
    \/ EncodeEnd
    \/ \E o \in {"query", "stream"} : BeginResponse(o)
    \/ RespondBlock
    \/ RespondFault
    \/ RespondEnd
    \/ Extract
    \/ ExtractFault
    \/ Stopped

LayoutSpec == LayoutInit /\ [][LayoutNext]_layoutVars

-----------------------------------------------------------------------------
(* Type invariant: indices stay within the ring, the file and the tables.  *)
LayoutTypeOK ==
    /\ phase \in {"encode", "idle", "respond", "extract", "done", "fault"}
    /\ id \in 0 .. Blocks
    /\ DOMAIN pieces \subseteq Below(Slots)
    /\ inPos \in 0 .. Len(outFile)
    /\ Len(response) <= Blocks
    /\ result0 \subseteq Below(featureNum)
    /\ DOMAIN result1 \subseteq Below(featureNum)

(* Both parties end with shares of the same column for every feature: the  *)
(* client's de-interleaving (batch_pir_to_share.h:498) undoes the server's *)
(* interleaving, ring and reloading, and coefficient k of a feature is     *)
(* paired with that feature's own share 0.  The column is the feature's    *)
(* number modulo the size of the ring.                                     *)
Served(f, column) ==
    /\ f \in result0
    /\ f \in DOMAIN result1
    /\ \A k \in Below(2 * batch) :
         result1[f][k] = [column |-> column, k |-> k, share |-> f]

FeaturesServed ==
    phase = "done" /\ Divides =>
        \A f \in Below(featureNum) : Served(f, f % (Slots * factor))

(* The sizes the two classes can handle: whole plaintexts, a ring of at    *)
(* least one, and whole rings where the file is read back.  They are       *)
(* enough: no index leaves its vector, no read passes the end of the file. *)
Supported ==
    /\ Divides
    /\ featureNum % factor = 0
    /\ Slots > 0
    /\ (useOutMem /\ overload = "query") => Blocks % Slots = 0

SupportedNeverFaults == Supported => phase # "fault"

(* What test_feature_correctness (batch_pir_to_share.h:528 and 545) says   *)
(* of a server whose feature number is data.size(): feature f is column f. *)
OwnColumns ==
    (phase = "done" /\ Supported /\ featureNum = dataSize) =>
        \A f \in Below(featureNum) : Served(f, f)
=============================================================================
