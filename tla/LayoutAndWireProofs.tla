------------------------ MODULE LayoutAndWireProofs -------------------------
(***************************************************************************)
(* How features and messages are laid out: what FeatureLayout serves, and  *)
(* which frames Wire delivers.                                             *)
(* FeatureLayout for every plaintext size, ring, batch size, number of     *)
(* columns and of features: the client's de-interleaving undoes the        *)
(* server's interleaving, ring and file.                                   *)
(* Wire for every number of identifiers and every capacity of the streams: *)
(* the frame a receiver takes next is the one it asks for. The invariant   *)
(* numbers the frames of a direction. Line(s, m, y) is the y-th frame that *)
(* s writes in a run with m matches: the frames a process has given are    *)
(* the first ones of its line, those the peer has taken are a beginning of *)
(* them, and the stream holds the ones in between. What the receiver's     *)
(* functions ask for next are the frames of the line from there on, as far *)
(* as its current call and the sizes it knows reach.                       *)
(***************************************************************************)
EXTENDS FeatureLayout, Wire, SumsAndRemainders, SequenceTheorems

-----------------------------------------------------------------------------
(* Sizes.                                                                  *)
Arguments ==
    /\ batch \in Batches
    /\ dataSize \in DataSizes
    /\ featureNum \in Nat
    /\ useOutMem \in BOOLEAN

SizesFit ==
    /\ batch \in Nat \ {0}
    /\ factor \in Nat \ {0}
    /\ fakeFeatureNum \in Nat \ {0}
    /\ Slots \in 0 .. fakeFeatureNum
    /\ Blocks \in Nat
    /\ Blocks * factor <= featureNum

(* The arguments the constructors are given make sizes that are numbers:   *)
(* a plaintext holds at least a column and the ring no more slots than     *)
(* columns.                                                                *)
LEMMA ArgumentsSized == Arguments => SizesFit
<1> SUFFICES ASSUME Arguments PROVE SizesFit
    OBVIOUS
<1>1. /\ Degree \in Nat \ {0} /\ InMem \in Nat \ {0}
      /\ batch \in 1 .. Degree /\ dataSize \in Nat \ {0}
    BY LayoutAssumption DEF Arguments
<1>2. factor \in Nat \ {0}
    <2>1. CASE Divides
        <3> DEFINE d == Degree \div batch
        <3>1. /\ Degree = batch * d + (Degree % batch) /\ Degree % batch = 0
              /\ d \in 0 .. Degree
            BY <1>1, <2>1, DivMod, QuotientBound DEF Divides
        <3>2. d # 0
            BY <1>1, <3>1
        <3> QED BY <2>1, <3>1, <3>2 DEF factor
    <2> QED BY <2>1 DEF factor
<1>3. fakeFeatureNum \in Nat \ {0}
    BY <1>1 DEF fakeFeatureNum
<1>4. Slots \in 0 .. fakeFeatureNum
    BY <1>2, <1>3, QuotientBound DEF Slots
<1>5. Blocks \in Nat /\ Blocks * factor <= featureNum
    <2>1. featureNum \in Nat
        BY DEF Arguments
    <2>2. Blocks \in 0 .. featureNum
        BY <1>2, <2>1, QuotientBound DEF Blocks
    <2>3. /\ featureNum = factor * Blocks + (featureNum % factor)
          /\ featureNum % factor \in 0 .. factor - 1
        BY <1>2, <2>1, DivMod DEF Blocks
    <2> HIDE DEF factor, Blocks
    <2> QED BY <1>2, <2>1, <2>2, <2>3
<1> QED BY <1>1, <1>2, <1>3, <1>4, <1>5 DEF SizesFit

(* The sizes are those of the arguments, which no step changes.            *)
LEMMA SameSizes ==
    ASSUME UNCHANGED layoutArguments
    PROVE  UNCHANGED <<batch, featureNum, dataSize, useOutMem, Divides, factor,
                       fakeFeatureNum, Slots, Blocks>>
BY DEF layoutArguments, Divides, factor, fakeFeatureNum, Slots, Blocks

-----------------------------------------------------------------------------
(* The ring and its file.                                                  *)

\* A ring holds, in the slots that are filled, the columns of the slot.
Rings == {[s \in D |-> Encode(s * factor)] : D \in SUBSET Below(Slots)}

\* What a query is answered with from a slot, for a block.
Answer(block) == Reduce(Encode((block % Slots) * factor), block)
LayoutAnswers == {Answer(block) : block \in Nat}

(* Filling a slot makes a ring of a ring.                                  *)
LEMMA RingFilled ==
    ASSUME NEW p \in Rings, NEW s \in Below(Slots)
    PROVE  [t \in DOMAIN p \cup {s} |-> IF t = s THEN Encode(s * factor) ELSE p[t]] \in Rings
<1>1. PICK D \in SUBSET Below(Slots) : p = [t \in D |-> Encode(t * factor)]
    BY DEF Rings
<1>2. /\ DOMAIN p \cup {s} = D \cup {s}
      /\ D \cup {s} \in SUBSET Below(Slots)
    BY <1>1
<1>3. [t \in DOMAIN p \cup {s} |-> IF t = s THEN Encode(s * factor) ELSE p[t]]
        = [t \in D \cup {s} |-> Encode(t * factor)]
    BY <1>1, <1>2
<1> QED BY <1>2, <1>3 DEF Rings

(* A filled slot of a ring holds its own columns.                          *)
LEMMA RingSlot ==
    ASSUME NEW p \in Rings, NEW s \in DOMAIN p
    PROVE  s \in Below(Slots) /\ p[s] = Encode(s * factor)
<1>1. PICK D \in SUBSET Below(Slots) : p = [t \in D |-> Encode(t * factor)]
    BY DEF Rings
<1> QED BY <1>1

(* Reading the response at the place where the client looks for a feature  *)
(* gives the feature's own coefficient of the column in its slot.          *)
LEMMA FeaturePlace ==
    ASSUME SizesFit, featureNum \in Nat, Slots # 0, NEW f \in Nat, NEW k \in Below(2 * batch)
    PROVE  Answer(f \div factor)[k * factor + (f % factor)]
             = [column |-> f % (Slots * factor), k |-> k, share |-> f]
<1> DEFINE q == f \div factor
           j == f % factor
           s == q % Slots
           w == q \div Slots
           p == k * factor + j
<1>1. /\ factor \in Nat \ {0} /\ Slots \in Nat \ {0} /\ batch \in Nat \ {0} /\ k \in Nat
    BY DEF SizesFit, Below
<1>2. /\ f = factor * q + j /\ j \in 0 .. factor - 1 /\ q \in 0 .. f
    <2>1. f \in Int
        OBVIOUS
    <2>2. f = factor * q + j /\ j \in 0 .. factor - 1
        BY <1>1, <2>1, DivMod
    <2>3. q \in 0 .. f
        BY <1>1, QuotientBound
    <2> QED BY <2>2, <2>3
<1>3. /\ q = Slots * w + s /\ s \in 0 .. Slots - 1 /\ w \in Int
    <2>1. q \in Int
        BY <1>2
    <2> HIDE DEF q
    <2> QED BY <1>1, <2>1, DivMod
<1> HIDE DEF q, j, s, w
<1>4. p \in Below(2 * batch * factor) /\ p % factor = j /\ p \div factor = k
    <2>1. p = factor * k + j /\ p \in Nat
        BY <1>1, <1>2
    <2>2. p % factor = j /\ p \div factor = k
        BY <1>1, <1>2, <2>1, ModUnique, DivUnique
    <2>3. p < (k + 1) * factor
        BY <1>1, <1>2
    <2>4. (k + 1) * factor <= 2 * batch * factor
        <3>1. k + 1 <= 2 * batch
            BY <1>1 DEF Below
        <3>2. 2 * batch \in Nat /\ k + 1 \in Nat
            BY <1>1
        <3> QED BY <1>1, <3>1, <3>2
    <2>5. 2 * batch * factor \in Nat
        BY <1>1
    <2> QED BY <1>1, <2>1, <2>2, <2>3, <2>4, <2>5 DEF Below
<1>5. j \in Below(batch * factor) /\ j % factor = j
    <2>1. factor <= batch * factor
        BY <1>1
    <2> QED BY <1>1, <1>2, <2>1, ModOfSmall DEF Below
<1>6. Encode(s * factor)[j][1] = s * factor + j
    BY <1>5 DEF Encode
<1>7. Answer(q)[p] = [column |-> s * factor + j, k |-> k, share |-> q * factor + j]
    BY <1>4, <1>6 DEF Answer, Reduce, s
<1>8. q * factor + j = f
    BY <1>1, <1>2
<1>9. s * factor + j = f % (Slots * factor)
    <2>1. Slots * factor \in Nat \ {0} /\ s * factor + j \in Nat
        BY <1>1, <1>2, <1>3
    <2>2. s * factor + j \in 0 .. (Slots * factor) - 1
        <3>1. (s + 1) * factor <= Slots * factor
            BY <1>1, <1>3
        <3> QED BY <1>1, <1>2, <1>3, <2>1, <3>1
    <2>3. f = (Slots * factor) * w + (s * factor + j)
        BY <1>1, <1>2, <1>3
    <2> HIDE DEF p
    <2> QED BY <1>3, <2>1, <2>2, <2>3, ModUnique
<1> QED BY <1>7, <1>8, <1>9 DEF q, j, p

-----------------------------------------------------------------------------
(* The invariant: the ring holds in a filled slot the columns of the slot, *)
(* so does every ring in the file, the response has the answers of the     *)
(* blocks so far in order, and the shares 0 of these blocks are there.     *)
Response ==
    /\ response \in Seq(LayoutAnswers)
    /\ Len(response) <= Blocks
    /\ \A i \in Below(Len(response)) : response[i + 1] = Answer(i)
    /\ Len(response) > 0 => Slots # 0

Shared(blocks) == \A i \in Below(blocks) : SharedBy(i) \subseteq result0

Extracted ==
    /\ featureNum % factor = 0
    /\ result1 = [f \in Below(featureNum) |-> Decompose(response, f)]

LayoutInv ==
    /\ Arguments
    /\ phase \in {"encode", "idle", "respond", "extract", "done", "fault"}
    /\ id \in 0 .. Blocks
    /\ pieces \in Rings
    /\ outFile \in Seq(Rings)
    /\ inPos \in 0 .. Len(outFile)
    /\ Response
    /\ result0 \subseteq Below(featureNum)
    /\ DOMAIN result1 \subseteq Below(featureNum)
    /\ phase = "respond" => Len(response) = id /\ Shared(id)
    /\ phase \in {"extract", "done"} => Len(response) = Blocks /\ Shared(Blocks)
    /\ phase = "done" /\ Divides => Extracted

(* What is built from the arguments is the same after a step.              *)
LEMMA SameLayout ==
    ASSUME UNCHANGED layoutArguments
    PROVE  /\ Arguments' = Arguments
           /\ Rings' = Rings
           /\ LayoutAnswers' = LayoutAnswers
           /\ \A i : Answer(i)' = Answer(i)
           /\ \A i : SharedBy(i)' = SharedBy(i)
           /\ UNCHANGED response => Response' = Response
<1>1. UNCHANGED <<batch, featureNum, dataSize, useOutMem, Divides, factor, Slots, Blocks>>
    BY SameSizes
<1>2. Arguments' = Arguments
    BY <1>1 DEF Arguments
<1>3. Rings' = Rings
    BY <1>1 DEF Rings, Encode
<1>4. \A i : Answer(i)' = Answer(i)
    BY <1>1 DEF Answer, Reduce, Encode
<1>5. LayoutAnswers' = LayoutAnswers
    BY <1>1 DEF LayoutAnswers, Answer, Reduce, Encode
<1>6. \A i : SharedBy(i)' = SharedBy(i)
    BY <1>1 DEF SharedBy
<1>7. ASSUME UNCHANGED response PROVE Response' = Response
    BY <1>1, <1>4, <1>5, <1>7 DEF Response
<1> QED BY <1>2, <1>3, <1>4, <1>5, <1>6, <1>7

(* A block's features are among the features.                              *)
LEMMA BlockInside ==
    ASSUME SizesFit, featureNum \in Nat, NEW i \in Below(Blocks)
    PROVE  SharedBy(i) \subseteq Below(featureNum)
<1>1. /\ factor \in Nat \ {0} /\ Blocks \in Nat /\ Blocks * factor <= featureNum
      /\ i \in Nat /\ i + 1 <= Blocks
    BY DEF SizesFit, Below
<1>2. (i + 1) * factor <= Blocks * factor
    BY <1>1
<1>3. (i + 1) * factor = i * factor + factor
    BY <1>1
<1>4. i * factor \in Nat
    BY <1>1
<1>5. ASSUME NEW j \in Below(factor) PROVE i * factor + j \in Below(featureNum)
    BY <1>1, <1>2, <1>3, <1>4, <1>5 DEF Below
<1> QED BY <1>5 DEF SharedBy

(* Every step keeps the invariant.                                         *)
LEMMA LayoutStep == LayoutInv /\ [LayoutNext]_layoutVars => LayoutInv'
<1> SUFFICES ASSUME LayoutInv, [LayoutNext]_layoutVars PROVE LayoutInv'
    OBVIOUS
<1>1. SizesFit /\ featureNum \in Nat
    BY ArgumentsSized DEF LayoutInv, Arguments
<1>2. UNCHANGED layoutArguments
    BY DEF LayoutNext, EncodeBlock, EncodeFault, EncodeEnd, BeginResponse, RespondBlock, RespondFault,
           RespondEnd, Extract, ExtractFault, Stopped, Fault, layoutVars
<1>3. UNCHANGED <<Divides, factor, Slots, Blocks, featureNum, batch>>
    BY <1>2, SameSizes
<1>4. ASSUME Fault PROVE LayoutInv'
    BY <1>2, <1>3, <1>4, SameLayout DEF Fault, LayoutInv
<1>5. CASE EncodeBlock
    <2> DEFINE s == id % Slots
               filled == [t \in DOMAIN pieces \cup {s} |->
                            IF t = s THEN Encode(s * factor) ELSE pieces[t]]
    <2>1. /\ phase = "encode" /\ phase' = "encode" /\ id < Blocks /\ Slots # 0 /\ id' = id + 1
          /\ pieces' = filled
          /\ outFile' \in {outFile, Append(outFile, filled)}
          /\ UNCHANGED <<inPos, response, result0, result1>>
        BY <1>5 DEF EncodeBlock
    <2>2. s \in Below(Slots)
        <3>1. Slots \in Nat \ {0} /\ id \in Int
            BY <1>1, <2>1 DEF SizesFit, LayoutInv
        <3> QED BY <3>1, DivMod DEF Below
    <2>3. filled \in Rings
        BY <2>2, RingFilled DEF LayoutInv
    <2> HIDE DEF filled, s
    <2>4. /\ outFile' \in Seq(Rings) /\ Len(outFile) <= Len(outFile')
          /\ inPos \in 0 .. Len(outFile')
        BY <2>1, <2>3 DEF LayoutInv
    <2> QED BY <1>1, <1>2, <1>3, <2>1, <2>3, <2>4, SameLayout DEF LayoutInv, SizesFit
<1>6. CASE EncodeFault
    BY <1>4, <1>6 DEF EncodeFault
<1>7. CASE EncodeEnd
    <2>1. phase' = "idle" /\ UNCHANGED <<id, pieces, outFile, inPos, response, result0, result1>>
        BY <1>7 DEF EncodeEnd
    <2> QED BY <1>2, <1>3, <2>1, SameLayout DEF LayoutInv
<1>8. ASSUME NEW o \in {"query", "stream"}, BeginResponse(o) PROVE LayoutInv'
    <2>1. /\ phase' = "respond" /\ id' = 0 /\ inPos' = 0 /\ response' = << >>
          /\ UNCHANGED <<pieces, outFile, result0, result1>>
        BY <1>8 DEF BeginResponse
    <2>2. Response'
        BY <1>1, <1>3, <2>1 DEF Response, Below, SizesFit
    <2>3. Len(response') = id' /\ Shared(id)'
        BY <2>1 DEF Shared, Below
    <2>4. id' \in 0 .. Blocks /\ inPos' \in 0 .. Len(outFile)
        BY <1>1, <2>1 DEF SizesFit, LayoutInv
    <2> QED BY <1>2, <1>3, <2>1, <2>2, <2>3, <2>4, SameLayout DEF LayoutInv
<1>9. CASE RespondBlock
    <2> DEFINE loaded == IF Reloads THEN outFile[inPos + 1] ELSE pieces
               s == id % Slots
    <2>1. /\ phase = "respond" /\ phase' = "respond" /\ id < Blocks /\ id' = id + 1
          /\ ~ (Reloads /\ FileEnded)
          /\ s \in DOMAIN loaded /\ pieces' = loaded
          /\ response' = Append(response, Reduce(loaded[s], id))
          /\ inPos' = IF Reloads THEN inPos + 1 ELSE inPos
          /\ result0' = result0 \cup SharedBy(id)
          /\ UNCHANGED <<outFile, result1>>
        BY <1>9 DEF RespondBlock
    <2>2. /\ inPos \in 0 .. Len(outFile) /\ outFile \in Seq(Rings) /\ Len(outFile) \in Nat
          /\ pieces \in Rings /\ Response /\ Len(response) = id /\ Shared(id)
          /\ id \in Nat /\ response \in Seq(LayoutAnswers)
        BY <1>1, <2>1 DEF LayoutInv, Response, SizesFit
    <2>3. loaded \in Rings /\ inPos' \in 0 .. Len(outFile)
        <3>1. CASE Reloads
            <4>1. inPos + 1 \in 1 .. Len(outFile)
                BY <2>1, <2>2, <3>1 DEF FileEnded
            <4> QED BY <2>1, <2>2, <3>1, <4>1
        <3> QED BY <2>1, <2>2, <3>1
    <2> HIDE DEF loaded
    <2>4. s \in Below(Slots) /\ loaded[s] = Encode(s * factor)
        BY <2>1, <2>3, RingSlot
    <2>5. response' = Append(response, Answer(id)) /\ Answer(id) \in LayoutAnswers
        BY <2>1, <2>2, <2>4 DEF Answer, LayoutAnswers
    <2>6. Slots # 0
        BY <2>4 DEF Below
    <2> HIDE DEF s
    <2>7. /\ response' \in Seq(LayoutAnswers) /\ Len(response') = id'
          /\ \A i \in 1 .. id : response'[i] = response[i]
          /\ response'[id + 1] = Answer(id)
        BY <2>1, <2>2, <2>5
    <2>8. \A i \in Below(id') : response'[i + 1] = Answer(i)
        <3> SUFFICES ASSUME NEW i \in Below(id') PROVE response'[i + 1] = Answer(i)
            OBVIOUS
        <3>1. CASE i = id
            BY <2>7, <3>1
        <3>2. CASE i # id
            <4>1. i \in Below(Len(response)) /\ i + 1 \in 1 .. id
                BY <2>1, <2>2, <3>2 DEF Below
            <4> QED BY <2>2, <2>7, <4>1 DEF Response
        <3> QED BY <3>1, <3>2
    <2>9. Response'
        <3>1. Len(response') <= Blocks' /\ Slots' # 0
            BY <1>1, <1>3, <2>1, <2>2, <2>6, <2>7 DEF SizesFit
        <3>2. LayoutAnswers' = LayoutAnswers /\ \A i : Answer(i)' = Answer(i)
            BY <1>2, SameLayout
        <3>3. \A i \in Below(Len(response')) : response'[i + 1] = Answer(i)'
            BY <2>7, <2>8, <3>2
        <3> QED BY <2>7, <3>1, <3>2, <3>3 DEF Response
    <2>10. Shared(id)'
        <3> SUFFICES ASSUME NEW i \in Below(id') PROVE SharedBy(i) \subseteq result0'
            BY <1>2, SameLayout DEF Shared
        <3>1. CASE i = id
            BY <2>1, <3>1
        <3>2. CASE i # id
            <4>1. i \in Below(id)
                BY <2>1, <2>2, <3>2 DEF Below
            <4> QED BY <2>1, <2>2, <4>1 DEF Shared
        <3> QED BY <3>1, <3>2
    <2>11. result0' \subseteq Below(featureNum)
        <3>1. id \in Below(Blocks)
            BY <1>1, <2>1, <2>2 DEF Below, SizesFit
        <3> QED BY <1>1, <2>1, <3>1, BlockInside DEF LayoutInv
    <2>12. id' \in 0 .. Blocks
        BY <1>1, <2>1, <2>2 DEF SizesFit
    <2> QED BY <1>2, <1>3, <2>1, <2>2, <2>3, <2>7, <2>9, <2>10, <2>11, <2>12, SameLayout DEF LayoutInv
<1>10. CASE RespondFault
    BY <1>4, <1>10 DEF RespondFault
<1>11. CASE RespondEnd
    <2>1. /\ phase = "respond" /\ phase' = "extract" /\ id = Blocks
          /\ UNCHANGED <<id, pieces, outFile, inPos, response, result0, result1>>
        BY <1>1, <1>11 DEF RespondEnd, LayoutInv, SizesFit
    <2>2. Len(response') = Blocks' /\ Shared(Blocks)'
        BY <1>2, <1>3, <2>1, SameLayout DEF LayoutInv, Shared
    <2> QED BY <1>2, <1>3, <2>1, <2>2, SameLayout DEF LayoutInv
<1>12. CASE Extract
    <2>1. /\ phase = "extract" /\ phase' = "done"
          /\ Divides => featureNum % factor = 0
          /\ result1' = [f \in (IF Divides THEN Below(featureNum) ELSE {}) |-> Decompose(response, f)]
          /\ UNCHANGED <<id, pieces, outFile, inPos, response, result0>>
        BY <1>12 DEF Extract
    <2>2. Divides' => Extracted'
        BY <1>3, <2>1 DEF Extracted, Decompose
    <2>3. DOMAIN result1' \subseteq Below(featureNum)
        BY <2>1
    <2>4. Len(response') = Blocks' /\ Shared(Blocks)'
        BY <1>2, <1>3, <2>1, SameLayout DEF LayoutInv, Shared
    <2> QED BY <1>2, <1>3, <2>1, <2>2, <2>3, <2>4, SameLayout DEF LayoutInv
<1>13. CASE ExtractFault
    BY <1>4, <1>13 DEF ExtractFault
<1>14. CASE UNCHANGED layoutVars
    <2>1. UNCHANGED <<phase, id, pieces, outFile, inPos, response, result0, result1>>
        BY <1>14 DEF layoutVars
    <2>2. UNCHANGED <<Shared(id), Shared(Blocks), Extracted>>
        BY <1>2, <1>3, <2>1, SameLayout DEF Shared, Extracted, Decompose
    <2> QED BY <1>2, <1>3, <2>1, <2>2, SameLayout DEF LayoutInv
<1> QED BY <1>5, <1>6, <1>7, <1>8, <1>9, <1>10, <1>11, <1>12, <1>13, <1>14 DEF LayoutNext, Stopped

(* Every reachable state satisfies the invariant.                          *)
LEMMA LayoutHolds == LayoutSpec => []LayoutInv
<1>1. LayoutInit => LayoutInv
    <2> SUFFICES ASSUME LayoutInit PROVE LayoutInv
        OBVIOUS
    <2>1. Arguments
        BY LayoutAssumption DEF LayoutInit, Arguments
    <2>2. SizesFit
        BY <2>1, ArgumentsSized
    <2>3. pieces \in Rings
        <3>1. pieces = [s \in {} |-> Encode(s * factor)]
            BY DEF LayoutInit
        <3> QED BY <3>1 DEF Rings
    <2>4. Response /\ id \in 0 .. Blocks /\ inPos \in 0 .. Len(outFile) /\ outFile \in Seq(Rings)
        BY <2>2 DEF LayoutInit, Response, Below, SizesFit
    <2>5. phase \in {"encode", "idle"} /\ result0 = {} /\ DOMAIN result1 = {}
        BY DEF LayoutInit
    <2> QED BY <2>1, <2>3, <2>4, <2>5 DEF LayoutInv
<1> QED BY <1>1, LayoutStep, PTL DEF LayoutSpec

(* The layout's variables have their types.                                *)
THEOREM LayoutTyped == LayoutSpec => []LayoutTypeOK
<1>1. LayoutInv => LayoutTypeOK
    <2> SUFFICES ASSUME LayoutInv PROVE LayoutTypeOK
        OBVIOUS
    <2>1. DOMAIN pieces \subseteq Below(Slots)
        <3>1. PICK D \in SUBSET Below(Slots) : pieces = [t \in D |-> Encode(t * factor)]
            BY DEF LayoutInv, Rings
        <3> QED BY <3>1
    <2> QED BY <2>1 DEF LayoutInv, Response, LayoutTypeOK
<1> QED BY <1>1, LayoutHolds, PTL

(* When the client has extracted its shares of whole plaintexts, it and    *)
(* the server have shares of the same column of every feature, coefficient *)
(* by coefficient, also where the ring has wrapped around.                 *)
THEOREM EveryFeatureServed == LayoutSpec => []FeaturesServed
<1>1. LayoutInv => FeaturesServed
    <2> SUFFICES ASSUME LayoutInv, phase = "done", Divides, NEW f \in Below(featureNum)
                 PROVE  Served(f, f % (Slots * factor))
        BY DEF FeaturesServed
    <2> DEFINE q == f \div factor
               j == f % factor
    <2>1. /\ SizesFit /\ featureNum \in Nat /\ f \in Nat /\ f < featureNum
          /\ factor \in Nat \ {0} /\ Blocks \in Nat
        BY ArgumentsSized DEF LayoutInv, Arguments, Below, SizesFit
    <2>2. /\ f = factor * q + j /\ j \in 0 .. factor - 1 /\ q \in 0 .. f
        <3>1. f \in Int
            BY <2>1
        <3>2. f = factor * q + j /\ j \in 0 .. factor - 1
            BY <2>1, <3>1, DivMod
        <3>3. q \in 0 .. f
            BY <2>1, QuotientBound
        <3> QED BY <3>2, <3>3
    <2>3. featureNum = factor * Blocks
        <3>1. featureNum = factor * Blocks + (featureNum % factor)
            BY <2>1, DivMod DEF Blocks
        <3>2. featureNum % factor = 0
            BY DEF LayoutInv, Extracted
        <3> QED BY <2>1, <3>1, <3>2
    <2>4. q \in Below(Blocks)
        <3> HIDE DEF q, j
        <3>1. CASE q >= Blocks
            <4>1. factor * q >= factor * Blocks
                BY <2>1, <2>2, <3>1
            <4> QED BY <2>1, <2>2, <2>3, <4>1
        <3> QED BY <2>1, <2>2, <3>1 DEF Below
    <2>5. /\ response[q + 1] = Answer(q) /\ Slots # 0
          /\ SharedBy(q) \subseteq result0
          /\ result1 = [e \in Below(featureNum) |-> Decompose(response, e)]
        <3>1. Len(response) = Blocks /\ Shared(Blocks) /\ Extracted /\ Response
            BY DEF LayoutInv
        <3>2. Blocks > 0
            BY <2>1, <2>4 DEF Below
        <3> HIDE DEF q
        <3> QED BY <2>4, <3>1, <3>2 DEF Shared, Extracted, Response
    <2>6. f \in result0 /\ f \in DOMAIN result1
        <3>1. q * factor + j = f /\ j \in Below(factor)
            BY <2>1, <2>2 DEF Below
        <3>2. f \in SharedBy(q)
            BY <3>1 DEF SharedBy
        <3> QED BY <2>5, <3>2
    <2>7. ASSUME NEW k \in Below(2 * batch)
          PROVE  result1[f][k] = [column |-> f % (Slots * factor), k |-> k, share |-> f]
        <3>1. result1[f][k] = response[1 + q][k * factor + j]
            BY <2>5, <2>7 DEF Decompose
        <3>2. 1 + q = q + 1
            BY <2>4 DEF Below
        <3>3. Answer(q)[k * factor + j] = [column |-> f % (Slots * factor), k |-> k, share |-> f]
            BY <2>1, <2>5, <2>7, FeaturePlace
        <3> HIDE DEF q
        <3> QED BY <2>5, <3>1, <3>2, <3>3
    <2> QED BY <2>6, <2>7 DEF Served
<1> QED BY <1>1, LayoutHolds, PTL

-----------------------------------------------------------------------------
(* The file: a full ring is written for every pass over the ring, and the  *)
(* server has read one for every fake_feature_num blocks it began.         *)
FileInv ==
    /\ Divides /\ useOutMem /\ Slots # 0 =>
          Len(outFile) = IF phase = "encode" THEN id \div Slots ELSE Blocks \div Slots
    /\ phase = "respond" /\ overload = "query" /\ useOutMem =>
          /\ id <= fakeFeatureNum * inPos
          /\ fakeFeatureNum * inPos < id + fakeFeatureNum
    /\ phase = "fault" => ~ Supported

(* Where the file is read back, as many rings were read as the number of   *)
(* blocks says, and the next ring is read exactly when they are used up.   *)
LEMMA RingsRead ==
    ASSUME NEW F \in Nat \ {0}, NEW i \in Nat, NEW p \in Nat, i <= F * p, F * p < i + F
    PROVE  IF i % F = 0 THEN i = F * p ELSE i < F * p
<1> DEFINE q == i \div F
<1>1. i = F * q + (i % F) /\ i % F \in 0 .. F - 1 /\ q \in 0 .. i
    <2>1. i \in Int
        OBVIOUS
    <2> QED BY <2>1, DivMod, QuotientBound
<1> HIDE DEF q
<1>2. CASE i % F = 0
    <2>1. F * (p - q) >= 0 /\ F * (p - q) < F
        BY <1>1, <1>2
    <2>2. p - q = 0
        BY <1>1, <2>1, SmallMultiple
    <2> QED BY <1>1, <1>2, <2>2
<1>3. CASE i % F # 0
    <2>1. i # F * p
        <3>1. ASSUME i = F * p PROVE FALSE
            <4>1. i = F * p + 0 /\ i \in Int /\ p \in Int
                BY <3>1
            <4>2. i % F = 0
                BY <4>1, ModUnique
            <4> QED BY <1>3, <4>2
        <3> QED BY <3>1
    <2> QED BY <1>3, <2>1
<1> QED BY <1>2, <1>3

(* Every step keeps what is said of the file.                              *)
LEMMA FileStep == LayoutInv /\ FileInv /\ [LayoutNext]_layoutVars => FileInv'
<1> SUFFICES ASSUME LayoutInv, FileInv, [LayoutNext]_layoutVars PROVE FileInv'
    OBVIOUS
<1>1. /\ SizesFit /\ featureNum \in Nat /\ id \in Nat /\ inPos \in Nat
      /\ fakeFeatureNum \in Nat \ {0} /\ Slots \in Nat /\ Blocks \in Nat
    BY ArgumentsSized DEF LayoutInv, Arguments, SizesFit
<1>2. UNCHANGED layoutArguments
    BY DEF LayoutNext, EncodeBlock, EncodeFault, EncodeEnd, BeginResponse, RespondBlock, RespondFault,
           RespondEnd, Extract, ExtractFault, Stopped, Fault, layoutVars
<1>3. UNCHANGED <<Divides, factor, fakeFeatureNum, Slots, Blocks, featureNum, useOutMem>>
    BY <1>2, SameSizes
<1>4. ASSUME UNCHANGED outFile, phase # "encode", phase' \notin {"encode", "respond", "fault"}
      PROVE  FileInv'
    BY <1>3, <1>4 DEF FileInv
<1>5. ASSUME Fault, phase # "encode" \/ Slots = 0, ~ Supported PROVE FileInv'
    <2>1. UNCHANGED <<outFile, overload, id>> /\ phase' = "fault"
        BY <1>5 DEF Fault
    <2>2. ~ Supported'
        BY <1>3, <1>5, <2>1 DEF Supported
    <2> QED BY <1>3, <1>5, <2>1, <2>2 DEF FileInv
<1>6. CASE EncodeBlock
    <2> DEFINE s == id % Slots
               filled == [t \in DOMAIN pieces \cup {s} |->
                            IF t = s THEN Encode(s * factor) ELSE pieces[t]]
    <2>1. /\ phase = "encode" /\ phase' = "encode" /\ Slots # 0 /\ id' = id + 1
          /\ outFile' = IF useOutMem /\ s = Slots - 1 THEN Append(outFile, filled) ELSE outFile
        BY <1>6 DEF EncodeBlock
    <2> HIDE DEF filled
    <2>2. Len(outFile') = IF useOutMem /\ s = Slots - 1 THEN Len(outFile) + 1 ELSE Len(outFile)
        <3>1. outFile \in Seq(Rings)
            BY DEF LayoutInv
        <3> QED BY <2>1, <3>1
    <2>3. (id + 1) \div Slots = IF s = Slots - 1 THEN (id \div Slots) + 1 ELSE id \div Slots
        BY <1>1, <2>1, QuotientStep
    <2> HIDE DEF s
    <2>4. Divides /\ useOutMem => Len(outFile') = (id + 1) \div Slots
        BY <2>1, <2>2, <2>3 DEF FileInv
    <2> QED BY <1>3, <2>1, <2>4 DEF FileInv
<1>7. CASE EncodeFault
    BY <1>5, <1>7 DEF EncodeFault, Supported
<1>8. CASE EncodeEnd
    <2>1. /\ phase = "encode" /\ phase' = "idle" /\ id = Blocks /\ outFile' = outFile
        BY <1>1, <1>8 DEF EncodeEnd, LayoutInv
    <2> QED BY <1>3, <2>1 DEF FileInv
<1>9. ASSUME NEW o \in {"query", "stream"}, BeginResponse(o) PROVE FileInv'
    <2>1. /\ phase # "encode" /\ phase' = "respond" /\ id' = 0 /\ inPos' = 0 /\ outFile' = outFile
        BY <1>9 DEF BeginResponse
    <2> QED BY <1>1, <1>3, <2>1 DEF FileInv
<1>10. CASE RespondBlock
    <2>1. /\ phase = "respond" /\ phase' = "respond" /\ id' = id + 1
          /\ outFile' = outFile /\ overload' = overload
          /\ inPos' = IF Reloads THEN inPos + 1 ELSE inPos
        BY <1>10 DEF RespondBlock
    <2>2. ASSUME overload = "query", useOutMem
          PROVE  /\ id + 1 <= fakeFeatureNum * inPos'
                 /\ fakeFeatureNum * inPos' < id + 1 + fakeFeatureNum
        <3>1. IF id % fakeFeatureNum = 0 THEN id = fakeFeatureNum * inPos
                                         ELSE id < fakeFeatureNum * inPos
            BY <1>1, <2>1, <2>2, RingsRead DEF FileInv
        <3>2. fakeFeatureNum * inPos < id + fakeFeatureNum
            BY <2>1, <2>2 DEF FileInv
        <3>3. CASE id % fakeFeatureNum = 0
            <4>1. inPos' = inPos + 1
                BY <2>1, <2>2, <3>3 DEF Reloads
            <4>2. fakeFeatureNum * (inPos + 1) = fakeFeatureNum * inPos + fakeFeatureNum
                BY <1>1
            <4> QED BY <1>1, <3>1, <3>3, <4>1, <4>2
        <3>4. CASE id % fakeFeatureNum # 0
            <4>1. inPos' = inPos
                BY <2>1, <3>4 DEF Reloads
            <4>2. fakeFeatureNum * inPos \in Nat
                BY <1>1
            <4> QED BY <1>1, <3>1, <3>2, <3>4, <4>1, <4>2
        <3> QED BY <3>3, <3>4
    <2> QED BY <1>3, <2>1, <2>2 DEF FileInv
<1>11. CASE RespondFault
    <2>1. /\ phase = "respond" /\ id < Blocks /\ Fault
          /\ (Reloads /\ FileEnded) \/ ~ Divides
        BY <1>11 DEF RespondFault
    <2>2. ASSUME Supported PROVE FALSE
        <3> DEFINE B == Blocks \div Slots
        <3>1. /\ Divides /\ Slots \in Nat \ {0} /\ overload = "query" /\ useOutMem
              /\ id % fakeFeatureNum = 0 /\ inPos >= Len(outFile) /\ Blocks % Slots = 0
            BY <1>1, <2>1, <2>2 DEF Supported, Reloads, FileEnded
        <3>2. id = fakeFeatureNum * inPos
            BY <1>1, <2>1, <3>1, RingsRead DEF FileInv
        <3>3. Len(outFile) = B
            BY <2>1, <3>1 DEF FileInv
        <3>4. Blocks = Slots * B /\ B \in 0 .. Blocks
            <4>1. Blocks = Slots * B + (Blocks % Slots)
                BY <1>1, <3>1, DivMod
            <4>2. B \in 0 .. Blocks
                BY <1>1, <3>1, QuotientBound
            <4> QED BY <3>1, <4>1, <4>2
        <3> HIDE DEF B
        <3>5. Slots * B <= Slots * inPos
            BY <1>1, <3>1, <3>3, <3>4
        <3>6. Slots * inPos <= fakeFeatureNum * inPos
            BY <1>1 DEF SizesFit
        <3> QED BY <1>1, <2>1, <3>2, <3>4, <3>5, <3>6
    <2> QED BY <1>5, <2>1, <2>2
<1>12. CASE RespondEnd
    BY <1>4, <1>12 DEF RespondEnd
<1>13. CASE Extract
    BY <1>4, <1>13 DEF Extract
<1>14. CASE ExtractFault
    BY <1>5, <1>14 DEF ExtractFault, Supported
<1>15. CASE UNCHANGED layoutVars
    <2>1. UNCHANGED <<phase, id, outFile, inPos, overload>>
        BY <1>15 DEF layoutVars
    <2>2. Supported' = Supported
        BY <1>3, <2>1 DEF Supported
    <2> QED BY <1>3, <2>1, <2>2 DEF FileInv
<1> QED BY <1>6, <1>7, <1>8, <1>9, <1>10, <1>11, <1>12, <1>13, <1>14, <1>15 DEF LayoutNext, Stopped

(* The sizes named by Supported are enough: no index leaves its vector and *)
(* no read passes the end of the file, however many queries are served.    *)
THEOREM NeverFaults == LayoutSpec => []SupportedNeverFaults
<1>1. LayoutInit => FileInv
    <2> SUFFICES ASSUME LayoutInit PROVE FileInv
        OBVIOUS
    <2>1. /\ phase = (IF Divides THEN "encode" ELSE "idle") /\ id = 0 /\ outFile = << >>
        BY DEF LayoutInit
    <2>2. ASSUME Slots # 0 PROVE id \div Slots = 0
        <3>1. Slots \in Nat \ {0}
            BY <2>2, LayoutAssumption, ArgumentsSized DEF LayoutInit, Arguments, SizesFit
        <3>2. 0 \div Slots \in 0 .. 0
            BY <3>1, QuotientBound
        <3> QED BY <2>1, <3>2
    <2> QED BY <2>1, <2>2 DEF FileInv
<1>2. FileInv => SupportedNeverFaults
    BY DEF FileInv, SupportedNeverFaults
<1> QED BY <1>1, <1>2, LayoutHolds, FileStep, PTL DEF LayoutSpec

-----------------------------------------------------------------------------
(* Wire.                                                                   *)

(* Both processes make their calls along one list of kinds of messages,    *)
(* one of them sending and the other one receiving.                        *)
Kinds ==
    CASE scheme = "all" ->
           <<"pk", "query", "response", "lastids", "bps_query", "bps_response">>
      [] scheme = "staged" ->
           <<"pk_psi", "query", "response", "lastids", "pk_bps", "bps_query", "bps_response">>
      [] scheme = "paillier" ->
           <<"paillier_pk", "paillier_query", "paillier_response", "lastids", "bps_query",
             "bps_response">>

Kind == {"pk", "pk_psi", "pk_bps", "paillier_pk", "query", "paillier_query", "response",
         "paillier_response", "lastids", "bps_query", "bps_response"}
HostKind == {"response", "paillier_response", "bps_response"}

Total == Len(Kinds)
Sender(k) == IF Kinds[k] \in HostKind THEN "host" ELSE "client"
Call(p, k) == IF Sender(k) = p THEN Send(Kinds[k]) ELSE Recv(Kinds[k])

\* The calls that p has begun.
Begun(p) == Total - Len(calls[p])

-----------------------------------------------------------------------------
(* The frames of a message, with m the number of matches.                  *)
Message(kind, m) == Written(kind, clientIds, hostIds, m)

Size(kind) ==
    CASE kind \in {"pk_psi", "pk_bps", "bps_response"} -> 1
      [] kind \in {"pk", "paillier_pk", "lastids"} -> 2
      [] kind \in {"query", "bps_query"} -> 3
      [] kind = "response" -> 4
      [] kind = "paillier_query" -> 2 + clientIds
      [] kind = "paillier_response" -> 3 + clientIds

\* Messages whose first frame is the sizes of those that follow.
Sized == {"query", "paillier_query", "response", "paillier_response", "lastids"}

\* The frames that s has written when it begins its k-th call.
Own(s, j) == IF j <= Total /\ Sender(j) = s THEN Size(Kinds[j]) ELSE 0
Part(s, k, j) == IF j < k THEN Own(s, j) ELSE 0
Offset(s, k) ==
    Part(s, k, 1) + Part(s, k, 2) + Part(s, k, 3) + Part(s, k, 4)
      + Part(s, k, 5) + Part(s, k, 6) + Part(s, k, 7)

\* The call in which s writes its y-th frame, and that frame.
Place(s, y) ==
    CASE y <= Offset(s, 2) -> 1
      [] Offset(s, 2) < y /\ y <= Offset(s, 3) -> 2
      [] Offset(s, 3) < y /\ y <= Offset(s, 4) -> 3
      [] Offset(s, 4) < y /\ y <= Offset(s, 5) -> 4
      [] Offset(s, 5) < y /\ y <= Offset(s, 6) -> 5
      [] Offset(s, 6) < y /\ y <= Offset(s, 7) -> 6
      [] Offset(s, 7) < y -> 7
Line(s, m, y) == Message(Kinds[Place(s, y)], m)[y - Offset(s, Place(s, y))]

-----------------------------------------------------------------------------
Field == {"sizes", "psi_pk", "bps_pk", "cipher_x_powers", "row_keepers", "col_keepers",
          "EIDs", "Elabels", "Elabel", "ShortEIDs", "EEIDs", "R1Q1s", "lastids", "shares"}
Frames == [field : Field, items : Int, sizes : Seq(Nat)]
Wants == [field : Field, items : Int, kind : Kind \cup {""}]

\* A call.
CallRecord == [op : {"send", "recv"}, kind : Kind]

WireTyped ==
    /\ scheme \in Schemes /\ clientIds \in 1 .. MaxIds /\ hostIds \in 1 .. MaxIds
    /\ capacity \in Capacities
    /\ calls \in [Process -> Seq(CallRecord)]
    /\ out \in [Process -> Seq(Frames)]
    /\ inbox \in [Process -> Seq(Frames)]
    /\ want \in [Process -> Seq(Wants)]
    /\ TypeOK

\* The calls that are left are the end of the list.
CallsLeft ==
    \A p \in Process :
        /\ Len(calls[p]) <= Total
        /\ \A x \in 1 .. Len(calls[p]) : calls[p][x] = Call(p, Begun(p) + x)

AwaitsSizes(p) == want[p] # << >> /\ Head(want[p]).field = "sizes"

\* The frames that p has taken from its stream, and those its peer has begun to
\* write on it.
Taken(p) ==
    IF AwaitsSizes(p) THEN Offset(Peer(p), Begun(p))
    ELSE Offset(Peer(p), Begun(p) + 1) - Len(want[p])
Given(p) == Offset(p, Begun(p) + 1)

(* What is in flight from s to p are the frames between those p has taken  *)
(* and those s has begun to write, in their order.                         *)
InFlight(p, s, m) ==
    /\ Taken(p) + Len(inbox[p]) + Len(out[s]) = Given(s)
    /\ \A x \in 1 .. Len(inbox[p]) : inbox[p][x] = Line(s, m, Taken(p) + x)
    /\ \A x \in 1 .. Len(out[s]) : out[s][x] = Line(s, m, (Given(s) - Len(out[s])) + x)

Agree(wanted, frame) == wanted.field = frame.field /\ wanted.items = frame.items

(* A receive asks for the sizes of its message, or for the frames of it    *)
(* that it has not taken.                                                  *)
Asks(p, s, m) ==
    want[p] # << >> =>
        /\ Begun(p) >= 1
        /\ Sender(Begun(p)) = s
        /\ IF AwaitsSizes(p)
             THEN Kinds[Begun(p)] \in Sized /\ want[p] = FirstWanted(Kinds[Begun(p)])
             ELSE /\ Len(want[p]) <= Size(Kinds[Begun(p)])
                  /\ Kinds[Begun(p)] \in Sized => Len(want[p]) < Size(Kinds[Begun(p)])
                  /\ \A x \in 1 .. Len(want[p]) :
                       /\ want[p][x].field # "sizes" /\ want[p][x].kind = ""
                       /\ Agree(want[p][x], Line(s, m, Taken(p) + x))

Streams(m) ==
    \A p \in Process : InFlight(p, Peer(p), m) /\ Asks(p, Peer(p), m)

\* The host knows the size of the query once it has its sizes frame.
QueryKnown ==
    (Begun("host") > 2 \/ (Begun("host") = 2 /\ ~ AwaitsSizes("host"))) => querySize = clientIds

WireInv ==
    /\ WireTyped
    /\ CallsLeft
    /\ QueryKnown
    /\ \E m \in 0 .. clientIds : Streams(m)

-----------------------------------------------------------------------------
(* A place in a list of six, or of seven.                                  *)
LEMMA SixPlaces ==
    ASSUME NEW k \in 1 .. 6
    PROVE  k \in {1, 2, 3, 4, 5, 6}
OBVIOUS

(* A place in a list of seven.                                             *)
LEMMA SevenPlaces ==
    ASSUME NEW k \in 1 .. 7
    PROVE  k \in {1, 2, 3, 4, 5, 6, 7}
OBVIOUS

(* The conversation in each scheme.                                        *)
LEMMA KindFacts ==
    ASSUME scheme \in Schemes
    PROVE  /\ Total \in {6, 7}
           /\ Kinds[1] \in {"pk", "pk_psi", "paillier_pk"}
           /\ Kinds[2] \in {"query", "paillier_query"}
           /\ Kinds[3] \in {"response", "paillier_response"}
           /\ Kinds[4] = "lastids"
           /\ \A k \in 1 .. Total :
                /\ Kinds[k] \in Kind
                /\ Kinds[k] = "lastids" => k = 4
                /\ Kinds[k] \in {"query", "paillier_query"} => k = 2
<1>1. CASE scheme = "all"
    <2>1. /\ Total = 6
          /\ Kinds[1] = "pk" /\ Kinds[2] = "query" /\ Kinds[3] = "response"
          /\ Kinds[4] = "lastids" /\ Kinds[5] = "bps_query" /\ Kinds[6] = "bps_response"
        BY <1>1 DEF Kinds, Total
    <2>2. \A k \in 1 .. Total : k \in {1, 2, 3, 4, 5, 6}
        BY <2>1, SixPlaces
    <2> QED BY <2>1, <2>2 DEF Kind
<1>2. CASE scheme = "staged"
    <2>1. /\ Total = 7
          /\ Kinds[1] = "pk_psi" /\ Kinds[2] = "query" /\ Kinds[3] = "response"
          /\ Kinds[4] = "lastids" /\ Kinds[5] = "pk_bps" /\ Kinds[6] = "bps_query"
          /\ Kinds[7] = "bps_response"
        BY <1>2 DEF Kinds, Total
    <2>2. \A k \in 1 .. Total : k \in {1, 2, 3, 4, 5, 6, 7}
        BY <2>1, SevenPlaces
    <2> QED BY <2>1, <2>2 DEF Kind
<1>3. CASE scheme = "paillier"
    <2>1. /\ Total = 6
          /\ Kinds[1] = "paillier_pk" /\ Kinds[2] = "paillier_query"
          /\ Kinds[3] = "paillier_response"
          /\ Kinds[4] = "lastids" /\ Kinds[5] = "bps_query" /\ Kinds[6] = "bps_response"
        BY <1>3 DEF Kinds, Total
    <2>2. \A k \in 1 .. Total : k \in {1, 2, 3, 4, 5, 6}
        BY <2>1, SixPlaces
    <2> QED BY <2>1, <2>2 DEF Kind
<1> QED BY <1>1, <1>2, <1>3 DEF Schemes

(* What a call is.                                                         *)
LEMMA CallRecords ==
    ASSUME NEW kind \in Kind
    PROVE  /\ Send(kind) \in CallRecord /\ Send(kind).op = "send" /\ Send(kind).kind = kind
           /\ Recv(kind) \in CallRecord /\ Recv(kind).op = "recv" /\ Recv(kind).kind = kind
BY DEF Send, Recv, CallRecord

Follows(list, p) ==
    /\ list \in Seq(CallRecord)
    /\ Len(list) = Total
    /\ \A k \in 1 .. Total : list[k] = Call(p, k)

(* Both programs follow the conversation.                                  *)
LEMMA CallFacts ==
    ASSUME scheme \in Schemes
    PROVE  Follows(ClientCalls(scheme), "client") /\ Follows(HostCalls(scheme), "host")
<1> DEFINE C == ClientCalls(scheme)
           H == HostCalls(scheme)
<1>1. CASE scheme = "all"
    <2>0. /\ Send("pk") \in CallRecord /\ Recv("pk") \in CallRecord
          /\ Send("query") \in CallRecord /\ Recv("query") \in CallRecord
          /\ Send("response") \in CallRecord /\ Recv("response") \in CallRecord
          /\ Send("lastids") \in CallRecord /\ Recv("lastids") \in CallRecord
          /\ Send("bps_query") \in CallRecord /\ Recv("bps_query") \in CallRecord
          /\ Send("bps_response") \in CallRecord /\ Recv("bps_response") \in CallRecord
        BY CallRecords DEF Kind
    <2>1. /\ Total = 6
          /\ Kinds[1] = "pk" /\ Kinds[2] = "query" /\ Kinds[3] = "response"
          /\ Kinds[4] = "lastids" /\ Kinds[5] = "bps_query" /\ Kinds[6] = "bps_response"
        BY <1>1 DEF Kinds, Total
    <2>2. /\ C = <<Send("pk"), Send("query"), Recv("response"), Send("lastids"),
                   Send("bps_query"), Recv("bps_response")>>
          /\ H = <<Recv("pk"), Recv("query"), Send("response"), Recv("lastids"),
                   Recv("bps_query"), Send("bps_response")>>
        BY <1>1 DEF ClientCalls, HostCalls
    <2> HIDE DEF C, H
    <2>3. /\ C \in Seq(CallRecord) /\ Len(C) = 6
          /\ C[1] = Send("pk") /\ C[2] = Send("query") /\ C[3] = Recv("response")
          /\ C[4] = Send("lastids") /\ C[5] = Send("bps_query") /\ C[6] = Recv("bps_response")
        BY <2>2, <2>0
    <2>4. /\ H \in Seq(CallRecord) /\ Len(H) = 6
          /\ H[1] = Recv("pk") /\ H[2] = Recv("query") /\ H[3] = Send("response")
          /\ H[4] = Recv("lastids") /\ H[5] = Recv("bps_query") /\ H[6] = Send("bps_response")
        BY <2>2, <2>0
    <2>5. \A k \in 1 .. Total : k \in {1, 2, 3, 4, 5, 6}
        BY <2>1, SixPlaces
    <2>6. \A k \in 1 .. Total : C[k] = Call("client", k) /\ H[k] = Call("host", k)
        BY <2>1, <2>3, <2>4, <2>5 DEF Call, Sender, HostKind
    <2> QED BY <2>1, <2>3, <2>4, <2>6 DEF C, H, Follows
<1>2. CASE scheme = "staged"
    <2>0. /\ Send("pk_psi") \in CallRecord /\ Recv("pk_psi") \in CallRecord
          /\ Send("query") \in CallRecord /\ Recv("query") \in CallRecord
          /\ Send("response") \in CallRecord /\ Recv("response") \in CallRecord
          /\ Send("lastids") \in CallRecord /\ Recv("lastids") \in CallRecord
          /\ Send("pk_bps") \in CallRecord /\ Recv("pk_bps") \in CallRecord
          /\ Send("bps_query") \in CallRecord /\ Recv("bps_query") \in CallRecord
          /\ Send("bps_response") \in CallRecord /\ Recv("bps_response") \in CallRecord
        BY CallRecords DEF Kind
    <2>1. /\ Total = 7
          /\ Kinds[1] = "pk_psi" /\ Kinds[2] = "query" /\ Kinds[3] = "response"
          /\ Kinds[4] = "lastids" /\ Kinds[5] = "pk_bps" /\ Kinds[6] = "bps_query"
          /\ Kinds[7] = "bps_response"
        BY <1>2 DEF Kinds, Total
    <2>2. /\ C = <<Send("pk_psi"), Send("query"), Recv("response"), Send("lastids"),
                   Send("pk_bps"), Send("bps_query"), Recv("bps_response")>>
          /\ H = <<Recv("pk_psi"), Recv("query"), Send("response"), Recv("lastids"),
                   Recv("pk_bps"), Recv("bps_query"), Send("bps_response")>>
        BY <1>2 DEF ClientCalls, HostCalls
    <2> HIDE DEF C, H
    <2>3. /\ C \in Seq(CallRecord) /\ Len(C) = 7
          /\ C[1] = Send("pk_psi") /\ C[2] = Send("query") /\ C[3] = Recv("response")
          /\ C[4] = Send("lastids") /\ C[5] = Send("pk_bps") /\ C[6] = Send("bps_query")
          /\ C[7] = Recv("bps_response")
        BY <2>2, <2>0
    <2>4. /\ H \in Seq(CallRecord) /\ Len(H) = 7
          /\ H[1] = Recv("pk_psi") /\ H[2] = Recv("query") /\ H[3] = Send("response")
          /\ H[4] = Recv("lastids") /\ H[5] = Recv("pk_bps") /\ H[6] = Recv("bps_query")
          /\ H[7] = Send("bps_response")
        BY <2>2, <2>0
    <2>5. \A k \in 1 .. Total : k \in {1, 2, 3, 4, 5, 6, 7}
        BY <2>1, SevenPlaces
    <2>6. \A k \in 1 .. Total : C[k] = Call("client", k) /\ H[k] = Call("host", k)
        BY <2>1, <2>3, <2>4, <2>5 DEF Call, Sender, HostKind
    <2> QED BY <2>1, <2>3, <2>4, <2>6 DEF C, H, Follows
<1>3. CASE scheme = "paillier"
    <2>0. /\ Send("paillier_pk") \in CallRecord /\ Recv("paillier_pk") \in CallRecord
          /\ Send("paillier_query") \in CallRecord /\ Recv("paillier_query") \in CallRecord
          /\ Send("paillier_response") \in CallRecord /\ Recv("paillier_response") \in CallRecord
          /\ Send("lastids") \in CallRecord /\ Recv("lastids") \in CallRecord
          /\ Send("bps_query") \in CallRecord /\ Recv("bps_query") \in CallRecord
          /\ Send("bps_response") \in CallRecord /\ Recv("bps_response") \in CallRecord
        BY CallRecords DEF Kind
    <2>1. /\ Total = 6
          /\ Kinds[1] = "paillier_pk" /\ Kinds[2] = "paillier_query"
          /\ Kinds[3] = "paillier_response"
          /\ Kinds[4] = "lastids" /\ Kinds[5] = "bps_query" /\ Kinds[6] = "bps_response"
        BY <1>3 DEF Kinds, Total
    <2>2. /\ C = <<Send("paillier_pk"), Send("paillier_query"), Recv("paillier_response"),
                   Send("lastids"),
                   Send("bps_query"), Recv("bps_response")>>
          /\ H = <<Recv("paillier_pk"), Recv("paillier_query"), Send("paillier_response"),
                   Recv("lastids"),
                   Recv("bps_query"), Send("bps_response")>>
        BY <1>3 DEF ClientCalls, HostCalls
    <2> HIDE DEF C, H
    <2>3. /\ C \in Seq(CallRecord) /\ Len(C) = 6
          /\ C[1] = Send("paillier_pk") /\ C[2] = Send("paillier_query")
          /\ C[3] = Recv("paillier_response")
          /\ C[4] = Send("lastids") /\ C[5] = Send("bps_query") /\ C[6] = Recv("bps_response")
        BY <2>2, <2>0
    <2>4. /\ H \in Seq(CallRecord) /\ Len(H) = 6
          /\ H[1] = Recv("paillier_pk") /\ H[2] = Recv("paillier_query")
          /\ H[3] = Send("paillier_response")
          /\ H[4] = Recv("lastids") /\ H[5] = Recv("bps_query") /\ H[6] = Send("bps_response")
        BY <2>2, <2>0
    <2>5. \A k \in 1 .. Total : k \in {1, 2, 3, 4, 5, 6}
        BY <2>1, SixPlaces
    <2>6. \A k \in 1 .. Total : C[k] = Call("client", k) /\ H[k] = Call("host", k)
        BY <2>1, <2>3, <2>4, <2>5 DEF Call, Sender, HostKind
    <2> QED BY <2>1, <2>3, <2>4, <2>6 DEF C, H, Follows
<1> QED BY <1>1, <1>2, <1>3 DEF Schemes

(* What a frame is.                                                        *)
LEMMA FrameRecords ==
    ASSUME NEW field \in Field, NEW items \in Int
    PROVE  /\ Frame(field, items) \in Frames
           /\ Frame(field, items).field = field /\ Frame(field, items).items = items
BY DEF Frame, Frames

(* What a frame of sizes is.                                               *)
LEMMA SizesRecords ==
    ASSUME NEW sizes \in Seq(Nat)
    PROVE  /\ SizesFrame(sizes) \in Frames
           /\ SizesFrame(sizes).field = "sizes" /\ SizesFrame(sizes).items = Len(sizes)
           /\ SizesFrame(sizes).sizes = sizes
BY DEF SizesFrame, Frames, Field

(* Repetitions of a frame.                                                 *)
LEMMA RepeatFacts ==
    ASSUME NEW S, NEW x \in S, NEW k \in Nat
    PROVE  /\ Repeat(x, k) \in Seq(S) /\ Len(Repeat(x, k)) = k
           /\ \A i \in 1 .. k : Repeat(x, k)[i] = x
BY DEF Repeat

\* A list, and repetitions of x.
Then(list, x, k) == list \o Repeat(x, k)

(* What the list is.                                                       *)
LEMMA ThenFacts ==
    ASSUME NEW S, NEW list \in Seq(S), NEW x \in S, NEW k \in Nat
    PROVE  /\ Then(list, x, k) \in Seq(S) /\ Len(Then(list, x, k)) = Len(list) + k
           /\ \A i \in 1 .. Len(list) + k :
                Then(list, x, k)[i] = IF i <= Len(list) THEN list[i] ELSE x
<1> DEFINE b == Repeat(x, k)
<1>1. b \in Seq(S) /\ Len(b) = k /\ \A i \in 1 .. k : b[i] = x
    BY RepeatFacts
<1> HIDE DEF b
<1>2. list \o b \in Seq(S) /\ Len(list \o b) = Len(list) + Len(b)
      /\ \A i \in 1 .. Len(list) + Len(b) :
           (list \o b)[i] = IF i <= Len(list) THEN list[i] ELSE b[i - Len(list)]
    BY <1>1, ConcatProperties
<1>3. \A i \in 1 .. Len(list) + k : ~(i <= Len(list)) => i - Len(list) \in 1 .. k
    BY LenProperties
<1>4. Then(list, x, k) = list \o b
    BY DEF Then, b
<1> QED BY <1>1, <1>2, <1>3, <1>4

(* It is a list.                                                           *)
LEMMA ThenList ==
    ASSUME NEW S, NEW list \in Seq(S), NEW x \in S, NEW k \in Nat
    PROVE  Then(list, x, k) \in Seq(S)
BY ThenFacts

(* Its length.                                                             *)
LEMMA ThenLength ==
    ASSUME NEW S, NEW list \in Seq(S), NEW x \in S, NEW k \in Nat
    PROVE  Len(Then(list, x, k)) = Len(list) + k
BY ThenFacts

(* Its places.                                                             *)
LEMMA ThenPlaces ==
    ASSUME NEW S, NEW list \in Seq(S), NEW x \in S, NEW k \in Nat, NEW i \in 1 .. Len(list) + k
    PROVE  Then(list, x, k)[i] = IF i <= Len(list) THEN list[i] ELSE x
BY ThenFacts

(* A message has as many frames as its kind says.                          *)
LEMMA MessageFacts ==
    ASSUME NEW kind \in Kind, NEW m \in Nat, clientIds \in Nat, hostIds \in Nat
    PROVE  /\ Message(kind, m) \in Seq(Frames)
           /\ Len(Message(kind, m)) = Size(kind)
           /\ Size(kind) \in Nat \ {0}
<1>0. <<clientIds>> \in Seq(Nat) /\ <<hostIds, clientIds, clientIds>> \in Seq(Nat)
      /\ <<m>> \in Seq(Nat)
    OBVIOUS
<1>a. /\ SizesFrame(<<clientIds>>) \in Frames /\ SizesFrame(<<m>>) \in Frames
      /\ SizesFrame(<<hostIds, clientIds, clientIds>>) \in Frames
    BY <1>0, SizesRecords
<1>b. /\ Frame("EIDs", clientIds) \in Frames /\ Frame("Elabels", clientIds) \in Frames
      /\ Frame("ShortEIDs", hostIds) \in Frames /\ Frame("EEIDs", clientIds) \in Frames
      /\ Frame("R1Q1s", clientIds) \in Frames /\ Frame("lastids", m) \in Frames
      /\ Frame("Elabel", Text) \in Frames
    BY FrameRecords DEF Field, Text
<1>c. /\ Frame("cipher_x_powers", Text) \in Frames /\ Frame("row_keepers", Text) \in Frames
      /\ Frame("col_keepers", Text) \in Frames /\ Frame("shares", Text) \in Frames
      /\ Frame("psi_pk", 1) \in Frames /\ Frame("psi_pk", Text) \in Frames
      /\ Frame("bps_pk", Text) \in Frames
    BY FrameRecords DEF Field, Text
<1>1. CASE kind = "query"
    BY <1>1, <1>a, <1>b DEF Message, Written, Size
<1>2. CASE kind = "response"
    BY <1>2, <1>a, <1>b DEF Message, Written, Size
<1>3. CASE kind = "lastids"
    BY <1>3, <1>a, <1>b DEF Message, Written, Size
<1>4. CASE kind \in {"bps_query", "bps_response"}
    BY <1>4, <1>c DEF Message, Written, Size, BpsQueryFrames
<1>5. CASE kind = "paillier_query"
    <2> DEFINE a == <<SizesFrame(<<clientIds>>), Frame("EIDs", clientIds)>>
    <2>1. Message(kind, m) = Then(a, Frame("Elabel", Text), clientIds)
        BY <1>5 DEF Message, Written, Then
    <2>2. a \in Seq(Frames) /\ Len(a) = 2
        BY <1>a, <1>b
    <2>3. Size(kind) = 2 + clientIds
        BY <1>5 DEF Size
    <2> HIDE DEF a
    <2>4. Then(a, Frame("Elabel", Text), clientIds) \in Seq(Frames)
        BY <2>2, <1>b, ThenList
    <2>5. Len(Then(a, Frame("Elabel", Text), clientIds)) = Len(a) + clientIds
        BY <2>2, <1>b, ThenLength
    <2> QED BY <2>1, <2>2, <2>3, <2>4, <2>5
<1>6. CASE kind = "paillier_response"
    <2> DEFINE a == <<SizesFrame(<<hostIds, clientIds, clientIds>>),
                      Frame("ShortEIDs", hostIds), Frame("EEIDs", clientIds)>>
    <2>1. Message(kind, m) = Then(a, Frame("Elabel", Text), clientIds)
        BY <1>6 DEF Message, Written, Then
    <2>2. a \in Seq(Frames) /\ Len(a) = 3
        BY <1>a, <1>b
    <2>3. Size(kind) = 3 + clientIds
        BY <1>6 DEF Size
    <2> HIDE DEF a
    <2>4. Then(a, Frame("Elabel", Text), clientIds) \in Seq(Frames)
        BY <2>2, <1>b, ThenList
    <2>5. Len(Then(a, Frame("Elabel", Text), clientIds)) = Len(a) + clientIds
        BY <2>2, <1>b, ThenLength
    <2> QED BY <2>1, <2>2, <2>3, <2>4, <2>5
<1>7. CASE kind \in {"pk", "pk_psi", "pk_bps", "paillier_pk"}
    BY <1>7, <1>c DEF Message, Written, Size, KeyFrames
<1> QED BY <1>1, <1>2, <1>3, <1>4, <1>5, <1>6, <1>7 DEF Kind

(* Only the list of matches depends on their number.                       *)
LEMMA SameMessage ==
    ASSUME NEW kind \in Kind \ {"lastids"}, NEW l, NEW m
    PROVE  Message(kind, l) = Message(kind, m)
BY DEF Message, Written, Kind

(* What the frames count.                                                  *)
LEMMA Numbers ==
    ASSUME scheme \in Schemes, clientIds \in Nat
    PROVE  /\ \A k \in 1 .. Total : Sender(k) \in Process /\ Size(Kinds[k]) \in Nat \ {0}
           /\ Sender(1) = "client" /\ Sender(2) = "client" /\ Sender(4) = "client"
           /\ \A s \in Process :
                /\ Offset(s, 1) = 0
                /\ \A k \in 1 .. 8 : Offset(s, k) \in Nat
                /\ \A k \in 1 .. 7 : Offset(s, k + 1) = Offset(s, k) + Own(s, k)
                /\ \A k \in 1 .. 7 : Own(s, k) \in Nat
                /\ \A k \in 1 .. Total :
                     Own(s, k) = IF Sender(k) = s THEN Size(Kinds[k]) ELSE 0
<1>1. \A kind \in Kind : Size(kind) \in Nat \ {0}
    BY DEF Size, Kind
<1>2. \A k \in 1 .. Total : Sender(k) \in Process /\ Size(Kinds[k]) \in Nat \ {0}
    BY <1>1, KindFacts DEF Sender, Process
<1>3. Sender(1) = "client" /\ Sender(2) = "client" /\ Sender(4) = "client"
    BY KindFacts DEF Sender, HostKind
<1>4. ASSUME NEW s \in Process
      PROVE  /\ Offset(s, 1) = 0
             /\ \A k \in 1 .. 8 : Offset(s, k) \in Nat
             /\ \A k \in 1 .. 7 : Offset(s, k + 1) = Offset(s, k) + Own(s, k)
             /\ \A k \in 1 .. 7 : Own(s, k) \in Nat
             /\ \A k \in 1 .. Total :
                  Own(s, k) = IF Sender(k) = s THEN Size(Kinds[k]) ELSE 0
    <2>1. Total \in {6, 7}
        BY KindFacts
    <2>2. \A k \in 1 .. 7 : Own(s, k) \in Nat
        BY <2>1, <1>2 DEF Own
    <2>3. \A k \in 1 .. 8, j \in 1 .. 7 : Part(s, k, j) \in Nat
        BY <2>2 DEF Part
    <2>4. Offset(s, 1) = 0
        BY DEF Offset, Part
    <2>5. \A k \in 1 .. 8 : Offset(s, k) \in Nat
        BY <2>3 DEF Offset
    <2>6. ASSUME NEW k \in 1 .. 7
          PROVE  Offset(s, k + 1) = Offset(s, k) + Own(s, k)
        <3>1. k \in {1, 2, 3, 4, 5, 6, 7}
            BY SevenPlaces
        <3>2. \A j \in 1 .. 7 : Part(s, k + 1, j) = IF j = k THEN Own(s, k) ELSE Part(s, k, j)
            BY <2>2 DEF Part
        <3>3. Part(s, k, k) = 0
            BY DEF Part
        <3> QED BY <3>1, <3>2, <3>3, <2>2, <2>3 DEF Offset
    <2>7. \A k \in 1 .. Total : Own(s, k) = IF Sender(k) = s THEN Size(Kinds[k]) ELSE 0
        BY <2>1 DEF Own
    <2> QED BY <2>2, <2>4, <2>5, <2>6, <2>7
<1> QED BY <1>2, <1>3, <1>4

(* Frames are written in the order of the calls.                           *)
LEMMA Rising ==
    ASSUME scheme \in Schemes, clientIds \in Nat, NEW s \in Process,
           NEW j \in 1 .. 8, NEW k \in j .. 8
    PROVE  Offset(s, j) <= Offset(s, k)
<1>1. /\ Offset(s, 1) <= Offset(s, 2) /\ Offset(s, 2) <= Offset(s, 3)
      /\ Offset(s, 3) <= Offset(s, 4) /\ Offset(s, 4) <= Offset(s, 5)
      /\ Offset(s, 5) <= Offset(s, 6) /\ Offset(s, 6) <= Offset(s, 7)
      /\ Offset(s, 7) <= Offset(s, 8)
    <2>1. \A i \in 1 .. 7 : Offset(s, i) <= Offset(s, i + 1)
        BY Numbers
    <2> QED BY <2>1
<1>2. \A i \in {1, 2, 3, 4, 5, 6, 7, 8} : Offset(s, i) \in Nat
    BY Numbers
<1>3. j \in {1, 2, 3, 4, 5, 6, 7, 8} /\ k \in {1, 2, 3, 4, 5, 6, 7, 8} /\ j <= k
    OBVIOUS
<1> QED BY <1>1, <1>2, <1>3

(* The frames of call k are at their places.                               *)
LEMMA Placed ==
    ASSUME scheme \in Schemes, clientIds \in Nat, NEW m, NEW s \in Process,
           NEW k \in 1 .. Total, Sender(k) = s, NEW x \in 1 .. Size(Kinds[k])
    PROVE  Line(s, m, Offset(s, k) + x) = Message(Kinds[k], m)[x]
<1> DEFINE y == Offset(s, k) + x
<1>0. Total \in {6, 7} /\ k \in 1 .. 7
    BY KindFacts
<1>1. /\ k \in {1, 2, 3, 4, 5, 6, 7}
      /\ Offset(s, k) \in Nat /\ Size(Kinds[k]) \in Nat
    BY <1>0, SevenPlaces, Numbers
<1>2. Offset(s, k) < y /\ y <= Offset(s, k + 1) /\ y \in Nat
    BY <1>1, Numbers
<1>3. \A j \in 1 .. 8 : Offset(s, j) \in Nat
    BY Numbers
<1>4. \A j \in 1 .. 8 : j <= k => Offset(s, j) < y
    BY <1>1, <1>2, <1>3, Rising
<1>5. \A j \in 1 .. 8 : j > k => y <= Offset(s, j)
    BY <1>1, <1>2, <1>3, Rising
<1> HIDE DEF y
<1>6. Place(s, y) = k
    BY <1>1, <1>2, <1>3, <1>4, <1>5 DEF Place
<1>7. y - Offset(s, k) = x
    BY <1>1 DEF y
<1> QED BY <1>6, <1>7 DEF Line, y

(* Before it has written its matches, and always at the host, what a       *)
(* process writes does not depend on their number.                         *)
LEMMA SameLine ==
    ASSUME scheme \in Schemes, clientIds \in Nat, NEW l, NEW m, NEW s \in Process,
           NEW y \in 1 .. Offset(s, Total + 1), s = "host" \/ y <= Offset(s, 4)
    PROVE  Line(s, l, y) = Line(s, m, y)
<1>1. Total \in {6, 7}
    BY KindFacts
<1>2. \A j \in 1 .. 8 : Offset(s, j) \in Nat
    BY Numbers
<1>3. PICK k \in 1 .. Total : Offset(s, k) < y /\ y <= Offset(s, k + 1) /\ Place(s, y) = k
    <2>1. Offset(s, 1) = 0
        BY Numbers
    <2> QED BY <1>1, <1>2, <2>1 DEF Place
<1>4. Sender(k) = s
    <2>1. k \in 1 .. 7
        BY <1>1
    <2>2. Offset(s, k + 1) = Offset(s, k) + (IF Sender(k) = s THEN Size(Kinds[k]) ELSE 0)
        BY <2>1, Numbers
    <2>3. Offset(s, k + 1) \in Nat /\ Offset(s, k) \in Nat
        BY <1>2, <2>1
    <2> QED BY <1>3, <2>2, <2>3
<1>5. k # 4
    <2>1. CASE s = "host"
        BY <2>1, <1>4, Numbers
    <2>2. CASE y <= Offset(s, 4)
        BY <2>2, <1>2, <1>3
    <2> QED BY <2>1, <2>2
<1>6. Kinds[k] \in Kind \ {"lastids"}
    BY <1>5, KindFacts
<1> QED BY <1>3, <1>6, SameMessage DEF Line

(* What a request is.                                                      *)
LEMMA WantRecords ==
    ASSUME NEW field \in Field, NEW items \in Int
    PROVE  /\ Wanted(field, items) \in Wants
           /\ Wanted(field, items).field = field /\ Wanted(field, items).items = items
           /\ Wanted(field, items).kind = ""
BY DEF Wanted, Wants

(* What a request for sizes is.                                            *)
LEMMA SizesWantRecords ==
    ASSUME NEW k \in Nat, NEW kind \in Kind
    PROVE  /\ SizesWanted(k, kind) \in Wants
           /\ SizesWanted(k, kind).field = "sizes" /\ SizesWanted(k, kind).items = k
           /\ SizesWanted(k, kind).kind = kind
<1>1. "sizes" \in Field
    BY DEF Field
<1>2. k \in Int
    OBVIOUS
<1>3. kind \in Kind \cup {""}
    OBVIOUS
<1> QED BY <1>1, <1>2, <1>3 DEF SizesWanted, Wants

(* The frames list asks for are those of the message after the first d.    *)
Answers(list, kind, m, d) ==
    /\ list \in Seq(Wants)
    /\ Len(list) = Size(kind) - d
    /\ \A x \in 1 .. Len(list) :
         /\ list[x].field # "sizes" /\ list[x].kind = ""
         /\ Agree(list[x], Message(kind, m)[x + d])

(* A request and a frame of one field and size.                            *)
LEMMA Matching ==
    ASSUME NEW field \in Field \ {"sizes"}, NEW items \in Int
    PROVE  /\ Wanted(field, items) \in Wants
           /\ Wanted(field, items).field # "sizes" /\ Wanted(field, items).kind = ""
           /\ Agree(Wanted(field, items), Frame(field, items))
<1>1. field \in Field /\ field # "sizes"
    OBVIOUS
<1>2. /\ Wanted(field, items) \in Wants
      /\ Wanted(field, items).field = field /\ Wanted(field, items).items = items
      /\ Wanted(field, items).kind = ""
    BY <1>1, WantRecords
<1>3. Frame(field, items).field = field /\ Frame(field, items).items = items
    BY <1>1, FrameRecords
<1> QED BY <1>1, <1>2, <1>3 DEF Agree

(* A receive without sizes asks for its message.                           *)
LEMMA UnsizedFirst ==
    ASSUME NEW kind \in Kind \ Sized, NEW m
    PROVE  Answers(FirstWanted(kind), kind, m, 0)
<1> DEFINE Good(w, f) == /\ w \in Wants /\ w.field # "sizes" /\ w.kind = ""
                         /\ Agree(w, f)
           L == FirstWanted(kind)
           F == Message(kind, m)
<1>a. \A field \in Field \ {"sizes"}, items \in Int :
        Good(Wanted(field, items), Frame(field, items))
    BY Matching
<1>b. 1 \in Int /\ Text \in Int
    BY DEF Text
<1>c. {"psi_pk", "bps_pk", "cipher_x_powers", "row_keepers", "col_keepers", "shares"}
        \subseteq Field \ {"sizes"}
    BY DEF Field
<1>d. \A w, f : Good(w, f) => w \in Wants
    OBVIOUS
<1>e. ASSUME Len(L) = Size(kind), Size(kind) \in Nat, L \in Seq(Wants),
             \A x \in 1 .. Size(kind) : Good(L[x], F[x])
      PROVE  Answers(L, kind, m, 0)
    <2> HIDE DEF L, F, Good
    <2>0. Len(L) = Size(kind) /\ Size(kind) \in Nat
        BY <1>e
    <2>1. Len(L) = Size(kind) - 0
        BY <2>0
    <2>2. ASSUME NEW x \in 1 .. Len(L)
          PROVE  /\ L[x].field # "sizes" /\ L[x].kind = ""
                 /\ Agree(L[x], F[x + 0])
        <3>1. x \in 1 .. Size(kind) /\ x + 0 = x
            BY <2>0
        <3>2. Good(L[x], F[x])
            BY <3>1, <1>e
        <3> QED BY <3>1, <3>2 DEF Good
    <2> QED BY <2>1, <2>2, <1>e DEF Answers, L, F
<1> HIDE DEF Good
<1>1. /\ Good(Wanted("psi_pk", 1), Frame("psi_pk", 1))
      /\ Good(Wanted("psi_pk", Text), Frame("psi_pk", Text))
      /\ Good(Wanted("bps_pk", Text), Frame("bps_pk", Text))
      /\ Good(Wanted("cipher_x_powers", Text), Frame("cipher_x_powers", Text))
      /\ Good(Wanted("row_keepers", Text), Frame("row_keepers", Text))
      /\ Good(Wanted("col_keepers", Text), Frame("col_keepers", Text))
      /\ Good(Wanted("shares", Text), Frame("shares", Text))
    BY <1>a, <1>b, <1>c
<1>3. CASE kind = "bps_query"
    <2>1. /\ L = <<Wanted("cipher_x_powers", Text), Wanted("row_keepers", Text),
                    Wanted("col_keepers", Text)>>
          /\ F = <<Frame("cipher_x_powers", Text), Frame("row_keepers", Text),
                    Frame("col_keepers", Text)>>
          /\ Size(kind) = 3
        BY <1>3 DEF FirstWanted, Message, Written, BpsQueryFrames, Size
    <2> HIDE DEF L, F
    <2>2. L \in Seq(Wants) /\ Len(L) = 3
        BY <2>1, <1>1, <1>d
    <2>3. Good(L[1], F[1]) /\ Good(L[2], F[2]) /\ Good(L[3], F[3])
        BY <2>1, <1>1
    <2>4. \A x \in 1 .. 3 : Good(L[x], F[x])
        BY <2>3
    <2> QED BY <2>1, <2>2, <2>4, <1>e DEF L
<1>4. CASE kind \in {"pk", "paillier_pk"}
    <2>0. PICK e \in {1, Text} : e = IF kind = "pk" THEN 1 ELSE Text
        OBVIOUS
    <2>1. /\ L = <<Wanted("psi_pk", e), Wanted("bps_pk", Text)>>
          /\ F = <<Frame("psi_pk", e), Frame("bps_pk", Text)>>
          /\ Size(kind) = 2
        BY <1>4, <2>0 DEF FirstWanted, KeysWanted, Message, Written, KeyFrames, Size
    <2> HIDE DEF L, F
    <2>2. Good(Wanted("psi_pk", e), Frame("psi_pk", e))
        BY <1>1
    <2>3. L \in Seq(Wants) /\ Len(L) = 2
        BY <2>1, <2>2, <1>1, <1>d
    <2>4. Good(L[1], F[1]) /\ Good(L[2], F[2])
        BY <2>1, <2>2, <1>1
    <2>5. \A x \in 1 .. 2 : Good(L[x], F[x])
        BY <2>4
    <2> QED BY <2>1, <2>3, <2>5, <1>e DEF L
<1>5. ASSUME NEW field, NEW e, L = <<Wanted(field, e)>>, F = <<Frame(field, e)>>,
             Size(kind) = 1, Good(Wanted(field, e), Frame(field, e))
      PROVE  Answers(L, kind, m, 0)
    <2> HIDE DEF L, F
    <2>1. L \in Seq(Wants) /\ Len(L) = 1
        BY <1>5, <1>d
    <2>2. Good(L[1], F[1])
        BY <1>5
    <2>3. \A x \in 1 .. 1 : Good(L[x], F[x])
        BY <2>2
    <2> QED BY <2>1, <2>3, <1>5, <1>e DEF L
<1>6. CASE kind = "pk_psi"
    BY <1>1, <1>5, <1>6 DEF FirstWanted, KeysWanted, Message, Written, KeyFrames, Size
<1>7. CASE kind = "pk_bps"
    BY <1>1, <1>5, <1>7 DEF FirstWanted, KeysWanted, Message, Written, KeyFrames, Size
<1>8. CASE kind = "bps_response"
    BY <1>1, <1>5, <1>8 DEF FirstWanted, Message, Written, Size
<1> QED BY <1>3, <1>4, <1>6, <1>7, <1>8 DEF Kind, Sized

\* The sizes that a message begins with.
Sizes(kind, m) ==
    CASE kind \in {"query", "paillier_query"} -> <<clientIds>>
      [] kind \in {"response", "paillier_response"} -> <<hostIds, clientIds, clientIds>>
      [] kind = "lastids" -> <<m>>

(* A receive with sizes asks for them, and its message begins with them.   *)
LEMMA SizedFirst ==
    ASSUME NEW kind \in Sized, NEW m \in Nat, clientIds \in Nat, hostIds \in Nat
    PROVE  /\ FirstWanted(kind) \in Seq(Wants)
           /\ Len(FirstWanted(kind)) = 1
           /\ FirstWanted(kind)[1].field = "sizes" /\ FirstWanted(kind)[1].kind = kind
           /\ Agree(FirstWanted(kind)[1], Message(kind, m)[1])
           /\ Message(kind, m)[1].sizes = Sizes(kind, m)
           /\ kind \in {"query", "paillier_query"} => Sizes(kind, m)[1] = clientIds
<1> DEFINE L == FirstWanted(kind)
           F == Message(kind, m)
           c == IF kind \in {"response", "paillier_response"} THEN 3 ELSE 1
           z == Sizes(kind, m)
<1>1. z \in Seq(Nat) /\ Len(z) = c
    BY DEF Sized, Sizes
<1>2. L = <<SizesWanted(c, kind)>>
    BY DEF FirstWanted, Sized
<1>3. F[1] = SizesFrame(z)
    <2>1. CASE kind \in {"query", "response", "lastids"}
        BY <2>1 DEF Message, Written, Sizes
    <2>2. CASE kind = "paillier_query"
        <3> DEFINE a == <<SizesFrame(z), Frame("EIDs", clientIds)>>
        <3>1. F = Then(a, Frame("Elabel", Text), clientIds)
            BY <2>2 DEF Message, Written, Then, Sizes
        <3> HIDE DEF z
        <3>0. SizesFrame(z) \in Frames /\ Frame("EIDs", clientIds) \in Frames
            BY <1>1, SizesRecords, FrameRecords DEF Field
        <3>2. a \in Seq(Frames) /\ Len(a) = 2 /\ a[1] = SizesFrame(z)
            BY <3>0
        <3>3. Frame("Elabel", Text) \in Frames
            BY FrameRecords DEF Field, Text
        <3> HIDE DEF a
        <3>4. 1 \in 1 .. Len(a) + clientIds
            BY <3>2
        <3> QED BY <3>1, <3>2, <3>3, <3>4, ThenPlaces
    <2>3. CASE kind = "paillier_response"
        <3> DEFINE a == <<SizesFrame(z), Frame("ShortEIDs", hostIds), Frame("EEIDs", clientIds)>>
        <3>1. F = Then(a, Frame("Elabel", Text), clientIds)
            BY <2>3 DEF Message, Written, Then, Sizes
        <3> HIDE DEF z
        <3>0. /\ SizesFrame(z) \in Frames /\ Frame("ShortEIDs", hostIds) \in Frames
              /\ Frame("EEIDs", clientIds) \in Frames
            BY <1>1, SizesRecords, FrameRecords DEF Field
        <3>2. a \in Seq(Frames) /\ Len(a) = 3 /\ a[1] = SizesFrame(z)
            BY <3>0
        <3>3. Frame("Elabel", Text) \in Frames
            BY FrameRecords DEF Field, Text
        <3> HIDE DEF a
        <3>4. 1 \in 1 .. Len(a) + clientIds
            BY <3>2
        <3> QED BY <3>1, <3>2, <3>3, <3>4, ThenPlaces
    <2> QED BY <2>1, <2>2, <2>3 DEF Sized
<1>4. kind \in {"query", "paillier_query"} => z[1] = clientIds
    BY DEF Sizes
<1>5. c \in Nat /\ kind \in Kind
    BY DEF Sized, Kind
<1> HIDE DEF L, F, z, c
<1>6. /\ L \in Seq(Wants) /\ Len(L) = 1 /\ L[1] = SizesWanted(c, kind)
    BY <1>2, <1>5, SizesWantRecords
<1>7. /\ L[1].field = "sizes" /\ L[1].kind = kind /\ L[1].items = c
    BY <1>5, <1>6, SizesWantRecords
<1>8. F[1].field = "sizes" /\ F[1].items = c /\ F[1].sizes = z
    BY <1>1, <1>3, SizesRecords
<1> QED BY <1>4, <1>6, <1>7, <1>8 DEF Agree, L, F, z

\* A request for a frame that is not one of sizes.
Suits(w, f) == w \in Wants /\ w.field # "sizes" /\ w.kind = "" /\ Agree(w, f)

(* The frames of a message with sizes after them.                          *)
LEMMA MessageTail ==
    ASSUME NEW kind \in Sized, NEW m \in Nat, clientIds \in Nat, hostIds \in Nat
    PROVE  Answers(WantedAfter(kind, Sizes(kind, m)), kind, m, 1)
<1> DEFINE L == WantedAfter(kind, Sizes(kind, m))
           F == Message(kind, m)
           n == clientIds
<1>a. \A field \in Field \ {"sizes"}, items \in Int :
        Suits(Wanted(field, items), Frame(field, items))
    BY Matching DEF Suits
<1>b. n \in Int /\ hostIds \in Int /\ m \in Int /\ Text \in Int
    BY DEF Text
<1>c. {"EIDs", "Elabels", "Elabel", "ShortEIDs", "EEIDs", "R1Q1s", "lastids"}
        \subseteq Field \ {"sizes"}
    BY DEF Field
<1>d. \A w, f : Suits(w, f) => w \in Wants
    BY DEF Suits
<1>e. \A items \in Int :
        /\ Frame("EIDs", items) \in Frames /\ Frame("EEIDs", items) \in Frames
        /\ Frame("ShortEIDs", items) \in Frames
    BY <1>c, FrameRecords
<1>1. /\ Suits(Wanted("EIDs", n), Frame("EIDs", n))
      /\ Suits(Wanted("Elabels", n), Frame("Elabels", n))
      /\ Suits(Wanted("Elabel", Text), Frame("Elabel", Text))
      /\ Suits(Wanted("ShortEIDs", hostIds), Frame("ShortEIDs", hostIds))
      /\ Suits(Wanted("EEIDs", n), Frame("EEIDs", n))
      /\ Suits(Wanted("R1Q1s", n), Frame("R1Q1s", n))
      /\ Suits(Wanted("lastids", m), Frame("lastids", m))
    BY <1>a, <1>b, <1>c
<1>2. ASSUME L \in Seq(Wants), NEW j \in Nat, Len(L) = j, Size(kind) = j + 1,
             \A x \in 1 .. j : Suits(L[x], F[x + 1])
      PROVE  Answers(L, kind, m, 1)
    <2> HIDE DEF L, F
    <2>0. Len(L) = j /\ Size(kind) = j + 1
        BY <1>2
    <2>1. Len(L) = Size(kind) - 1
        BY <2>0
    <2>2. \A x \in 1 .. Len(L) :
            /\ L[x].field # "sizes" /\ L[x].kind = ""
            /\ Agree(L[x], F[x + 1])
        BY <1>2, <2>0 DEF Suits
    <2> QED BY <2>1, <2>2, <1>2 DEF Answers, L, F
<1>3. CASE kind = "query"
    <2>1. /\ L = <<Wanted("EIDs", n), Wanted("Elabels", n)>>
          /\ F = <<SizesFrame(<<n>>), Frame("EIDs", n), Frame("Elabels", n)>>
          /\ Size(kind) = 2 + 1
        BY <1>3 DEF WantedAfter, Sizes, Message, Written, Size
    <2> HIDE DEF L, F
    <2>2. L \in Seq(Wants) /\ Len(L) = 2
        BY <2>1, <1>1, <1>d
    <2>3. Suits(L[1], F[2]) /\ Suits(L[2], F[3])
        BY <2>1, <1>1
    <2>4. \A x \in 1 .. 2 : Suits(L[x], F[x + 1])
        BY <2>3
    <2> QED BY <2>1, <2>2, <2>4, <1>2 DEF L
<1>4. CASE kind = "response"
    <2>1. /\ L = <<Wanted("ShortEIDs", hostIds), Wanted("EEIDs", n), Wanted("R1Q1s", n)>>
          /\ F = <<SizesFrame(<<hostIds, n, n>>), Frame("ShortEIDs", hostIds),
                    Frame("EEIDs", n), Frame("R1Q1s", n)>>
          /\ Size(kind) = 3 + 1
        BY <1>4 DEF WantedAfter, Sizes, Message, Written, Size
    <2> HIDE DEF L, F
    <2>2. L \in Seq(Wants) /\ Len(L) = 3
        BY <2>1, <1>1, <1>d
    <2>3. Suits(L[1], F[2]) /\ Suits(L[2], F[3]) /\ Suits(L[3], F[4])
        BY <2>1, <1>1
    <2>4. \A x \in 1 .. 3 : Suits(L[x], F[x + 1])
        BY <2>3
    <2> QED BY <2>1, <2>2, <2>4, <1>2 DEF L
<1>5. CASE kind = "lastids"
    <2>1. /\ L = <<Wanted("lastids", m)>>
          /\ F = <<SizesFrame(<<m>>), Frame("lastids", m)>>
          /\ Size(kind) = 1 + 1
        BY <1>5 DEF WantedAfter, Sizes, Message, Written, Size
    <2> HIDE DEF L, F
    <2>2. L \in Seq(Wants) /\ Len(L) = 1
        BY <2>1, <1>1, <1>d
    <2>3. Suits(L[1], F[2])
        BY <2>1, <1>1
    <2>4. \A x \in 1 .. 1 : Suits(L[x], F[x + 1])
        BY <2>3
    <2> QED BY <2>1, <2>2, <2>4, <1>2 DEF L
<1>6. ASSUME NEW a \in Seq(Wants), NEW b \in Seq(Frames), NEW c \in Nat,
             Len(a) = c, Len(b) = c + 1, \A x \in 1 .. c : Suits(a[x], b[x + 1]),
             L = Then(a, Wanted("Elabel", Text), n), F = Then(b, Frame("Elabel", Text), n),
             Size(kind) = (c + n) + 1
      PROVE  Answers(L, kind, m, 1)
    <2> HIDE DEF L, F
    <2>0. n \in Nat /\ c \in Nat /\ Len(a) = c /\ Len(b) = c + 1
        BY <1>6
    <2>1. Wanted("Elabel", Text) \in Wants /\ Frame("Elabel", Text) \in Frames
        BY <1>1, <1>d, <1>b, <1>c, FrameRecords
    <2>2. L \in Seq(Wants)
        BY <1>6, <2>0, <2>1, ThenList
    <2>3. Len(L) = Len(a) + n
        BY <1>6, <2>0, <2>1, ThenLength
    <2>4. ASSUME NEW x \in 1 .. c + n
          PROVE  Suits(L[x], F[x + 1])
        <3>1. x \in 1 .. Len(a) + n /\ x + 1 \in 1 .. Len(b) + n
            BY <2>0
        <3>2. L[x] = IF x <= Len(a) THEN a[x] ELSE Wanted("Elabel", Text)
            <4>1. L = Then(a, Wanted("Elabel", Text), n)
                BY <1>6
            <4>2. Then(a, Wanted("Elabel", Text), n)[x]
                    = IF x <= Len(a) THEN a[x] ELSE Wanted("Elabel", Text)
                BY <2>0, <2>1, <3>1, ThenPlaces
            <4> QED BY <4>1, <4>2
        <3>3. F[x + 1] = IF x + 1 <= Len(b) THEN b[x + 1] ELSE Frame("Elabel", Text)
            <4>1. F = Then(b, Frame("Elabel", Text), n)
                BY <1>6
            <4>2. Then(b, Frame("Elabel", Text), n)[x + 1]
                    = IF x + 1 <= Len(b) THEN b[x + 1] ELSE Frame("Elabel", Text)
                BY <2>0, <2>1, <3>1, ThenPlaces
            <4> QED BY <4>1, <4>2
        <3>4. CASE x <= c
            <4>1. x \in 1 .. c /\ x <= Len(a) /\ x + 1 <= Len(b)
                BY <3>4, <2>0
            <4> QED BY <4>1, <3>2, <3>3, <1>6
        <3>5. CASE ~(x <= c)
            <4>1. ~(x <= Len(a)) /\ ~(x + 1 <= Len(b))
                BY <3>5, <2>0
            <4> QED BY <4>1, <3>2, <3>3, <1>1
        <3> QED BY <3>4, <3>5
    <2>5. c + n \in Nat /\ Len(L) = c + n /\ Size(kind) = (c + n) + 1
        BY <2>0, <2>3, <1>6
    <2> QED BY <2>2, <2>4, <2>5, <1>2 DEF L
<1>7. CASE kind = "paillier_query"
    <2> DEFINE a == <<Wanted("EIDs", n)>>
               b == <<SizesFrame(<<n>>), Frame("EIDs", n)>>
    <2>1. /\ L = Then(a, Wanted("Elabel", Text), n) /\ F = Then(b, Frame("Elabel", Text), n)
          /\ Size(kind) = 2 + n
        BY <1>7 DEF WantedAfter, Sizes, Message, Written, Size, Then
    <2>2. SizesFrame(<<n>>) \in Frames /\ Frame("EIDs", n) \in Frames
        <3>1. <<n>> \in Seq(Nat)
            OBVIOUS
        <3> QED BY <3>1, <1>e, <1>b, SizesRecords
    <2>3. a \in Seq(Wants) /\ Len(a) = 1 /\ a[1] = Wanted("EIDs", n)
        BY <1>1, <1>d
    <2>4. b \in Seq(Frames) /\ Len(b) = 1 + 1 /\ b[2] = Frame("EIDs", n)
        BY <2>2
    <2> HIDE DEF a, b, L, F
    <2>5. \A x \in 1 .. 1 : Suits(a[x], b[x + 1])
        BY <2>3, <2>4, <1>1
    <2>6. Size(kind) = (1 + n) + 1
        BY <2>1
    <2> QED BY <2>1, <2>3, <2>4, <2>5, <2>6, <1>6 DEF L
<1>8. CASE kind = "paillier_response"
    <2> DEFINE a == <<Wanted("ShortEIDs", hostIds), Wanted("EEIDs", n)>>
               b == <<SizesFrame(<<hostIds, n, n>>), Frame("ShortEIDs", hostIds), Frame("EEIDs",
                      n)>>
    <2>1. /\ L = Then(a, Wanted("Elabel", Text), n) /\ F = Then(b, Frame("Elabel", Text), n)
          /\ Size(kind) = 3 + n
        BY <1>8 DEF WantedAfter, Sizes, Message, Written, Size, Then
    <2>2. /\ SizesFrame(<<hostIds, n, n>>) \in Frames
          /\ Frame("ShortEIDs", hostIds) \in Frames /\ Frame("EEIDs", n) \in Frames
        <3>1. <<hostIds, n, n>> \in Seq(Nat)
            OBVIOUS
        <3> QED BY <3>1, <1>e, <1>b, SizesRecords
    <2>3. /\ a \in Seq(Wants) /\ Len(a) = 2
          /\ a[1] = Wanted("ShortEIDs", hostIds) /\ a[2] = Wanted("EEIDs", n)
        BY <1>1, <1>d
    <2>4. /\ b \in Seq(Frames) /\ Len(b) = 2 + 1
          /\ b[2] = Frame("ShortEIDs", hostIds) /\ b[3] = Frame("EEIDs", n)
        BY <2>2
    <2> HIDE DEF a, b, L, F
    <2>5. \A x \in 1 .. 2 : Suits(a[x], b[x + 1])
        <3>1. \A x \in 1 .. 2 : x \in {1, 2}
            OBVIOUS
        <3> QED BY <3>1, <2>3, <2>4, <1>1
    <2>6. Size(kind) = (2 + n) + 1
        BY <2>1
    <2> QED BY <2>1, <2>3, <2>4, <2>5, <2>6, <1>6 DEF L
<1> QED BY <1>3, <1>4, <1>5, <1>7, <1>8 DEF Sized

-----------------------------------------------------------------------------
(* The arguments of a run do not change, and neither does its script.      *)
LEMMA Steady ==
    ASSUME UNCHANGED arguments
    PROVE  /\ Kinds' = Kinds /\ Total' = Total
           /\ \A k : Sender(k)' = Sender(k)
           /\ \A p, k : Call(p, k)' = Call(p, k)
           /\ \A kind : Size(kind)' = Size(kind)
           /\ \A s, k : Offset(s, k)' = Offset(s, k)
           /\ \A s, m, y : Line(s, m, y)' = Line(s, m, y)
<1>1. /\ scheme' = scheme /\ clientIds' = clientIds /\ hostIds' = hostIds
      /\ capacity' = capacity
    BY DEF arguments
<1>2. Kinds' = Kinds
    BY <1>1 DEF Kinds
<1>3. Total' = Total
    BY <1>2 DEF Total
<1>4. \A k : Sender(k)' = Sender(k)
    BY <1>2 DEF Sender
<1>5. \A p, k : Call(p, k)' = Call(p, k)
    BY <1>2, <1>4 DEF Call
<1>6. \A kind : Size(kind)' = Size(kind)
    BY <1>1 DEF Size
<1>7. \A s, j : Own(s, j)' = Own(s, j)
    BY <1>2, <1>3, <1>4, <1>6 DEF Own
<1>8. \A s, k, j : Part(s, k, j)' = Part(s, k, j)
    BY <1>7 DEF Part
<1>9. \A s, k : Offset(s, k)' = Offset(s, k)
    BY <1>8 DEF Offset
<1>10. \A s, y : Place(s, y)' = Place(s, y)
    BY <1>9 DEF Place
<1>11. \A kind, m : Message(kind, m)' = Message(kind, m)
    BY <1>1 DEF Message
<1>12. \A s, m, y : Line(s, m, y)' = Line(s, m, y)
    BY <1>2, <1>9, <1>10, <1>11 DEF Line
<1> QED BY <1>2, <1>3, <1>4, <1>5, <1>6, <1>9, <1>12

(* A process has one peer.                                                 *)
LEMMA Peers ==
    ASSUME NEW p \in Process
    PROVE  Peer(p) \in Process /\ Peer(p) # p /\ Peer(Peer(p)) = p
           /\ \A q \in Process : q = p \/ q = Peer(p)
BY DEF Peer, Process

(* What the types say of the script.                                       *)
LEMMA Script ==
    ASSUME WireTyped, CallsLeft
    PROVE  /\ scheme \in Schemes /\ clientIds \in Nat /\ clientIds >= 1 /\ hostIds \in Nat
           /\ Total \in {6, 7}
           /\ \A p \in Process : Len(calls[p]) \in Nat /\ Begun(p) \in 0 .. Total
<1>1. scheme \in Schemes /\ clientIds \in Nat /\ clientIds >= 1 /\ hostIds \in Nat
    BY WireAssumption DEF WireTyped
<1>2. Total \in {6, 7}
    BY <1>1, KindFacts
<1>3. \A p \in Process : Len(calls[p]) \in Nat /\ Len(calls[p]) <= Total
    BY DEF WireTyped, CallsLeft
<1> QED BY <1>1, <1>2, <1>3 DEF Begun

(* A process begins its next call.                                         *)
LEMMA NextCall ==
    ASSUME WireTyped, CallsLeft, NEW p \in Process, calls[p] # << >>,
           UNCHANGED arguments, calls' = [calls EXCEPT ![p] = Tail(@)]
    PROVE  /\ Begun(p) + 1 \in 1 .. Total
           /\ Head(calls[p]) = Call(p, Begun(p) + 1)
           /\ Begun(p)' = Begun(p) + 1
           /\ Begun(Peer(p))' = Begun(Peer(p))
           /\ calls' \in [Process -> Seq(CallRecord)]
           /\ \A q \in Process : Len(calls'[q]) <= 7
           /\ CallsLeft'
<1>1. /\ calls \in [Process -> Seq(CallRecord)]
      /\ Total \in {6, 7} /\ Begun(p) \in 0 .. Total /\ Total' = Total
    BY Script, Steady DEF WireTyped
<1> DEFINE c == calls[p]
<1>2. /\ c \in Seq(CallRecord) /\ c # << >> /\ Len(c) <= Total
      /\ \A x \in 1 .. Len(c) : c[x] = Call(p, Begun(p) + x)
    BY <1>1 DEF CallsLeft
<1>3. calls'[p] = Tail(c) /\ \A q \in Process : q # p => calls'[q] = calls[q]
    BY <1>1
<1>4. Begun(p) = Total - Len(c) /\ Begun(p)' = Total' - Len(calls'[p])
    BY DEF Begun
<1> HIDE DEF c
<1>5. /\ Tail(c) \in Seq(CallRecord) /\ Len(Tail(c)) = Len(c) - 1 /\ Head(c) = c[1]
      /\ Len(c) \in Nat \ {0}
      /\ \A x \in 1 .. Len(c) - 1 : Tail(c)[x] = c[x + 1]
    BY <1>2
<1>6. /\ Begun(p) + 1 \in 1 .. Total
      /\ Begun(p)' = Begun(p) + 1
    BY <1>1, <1>3, <1>4, <1>5
<1>7. Head(c) = Call(p, Begun(p) + 1)
    BY <1>2, <1>5
<1>8. calls' \in [Process -> Seq(CallRecord)]
    BY <1>1, <1>5 DEF c
<1>9. Begun(Peer(p))' = Begun(Peer(p))
    BY <1>1, <1>3, Peers DEF Begun
<1>10. ASSUME NEW q \in Process
       PROVE  /\ Len(calls'[q]) <= Total
              /\ \A x \in 1 .. Len(calls'[q]) : calls'[q][x] = Call(q, Begun(q)' + x)
    <2>1. CASE q = p
        <3>1. Len(calls'[q]) = Len(c) - 1 /\ Begun(q)' = Begun(p) + 1
            BY <2>1, <1>3, <1>5, <1>6
        <3>0. Len(c) \in Nat /\ Len(c) >= 1 /\ Len(c) <= Total /\ Total \in Nat
            BY <1>1, <1>2, <1>5
        <3>2. ASSUME NEW x \in 1 .. Len(calls'[q])
              PROVE  calls'[q][x] = Call(q, Begun(q)' + x)
            <4>0. x \in 1 .. Len(c) - 1
                BY <3>1
            <4>1. x \in 1 .. Len(c) - 1 /\ x + 1 \in 1 .. Len(c)
                BY <4>0, <3>0
            <4>2. calls'[q][x] = c[x + 1]
                BY <4>1, <2>1, <1>3, <1>5
            <4>3. c[x + 1] = Call(p, Begun(p) + (x + 1))
                BY <4>1, <1>2
            <4>4. Begun(p) + (x + 1) = Begun(q)' + x
                BY <3>1, <1>1
            <4> QED BY <4>2, <4>3, <4>4, <2>1
        <3>3. Len(calls'[q]) <= Total
            BY <3>1, <3>0
        <3> QED BY <3>2, <3>3
    <2>2. CASE q # p
        <3>1. calls'[q] = calls[q] /\ Begun(q)' = Begun(q)
            BY <2>2, <1>3, <1>1 DEF Begun
        <3> QED BY <3>1 DEF CallsLeft
    <2> QED BY <2>1, <2>2
<1>11. CallsLeft'
    BY <1>10, <1>1, Steady DEF CallsLeft
<1>12. \A q \in Process : Len(calls'[q]) <= 7
    <2>1. ASSUME NEW q \in Process PROVE Len(calls'[q]) <= 7
        <3>1. Len(calls'[q]) \in Nat
            BY <1>8
        <3> QED BY <3>1, <1>10, <1>1
    <2> QED BY <2>1
<1> QED BY <1>6, <1>7, <1>8, <1>9, <1>11, <1>12 DEF c

(* Nothing is sent yet.                                                    *)
LEMMA WireInvInit == Init => WireInv
<1> SUFFICES ASSUME Init PROVE WireInv
    OBVIOUS
<1>1. /\ scheme \in Schemes /\ clientIds \in 1 .. MaxIds /\ hostIds \in 1 .. MaxIds
      /\ clientIds \in Nat
    BY WireAssumption DEF Init
<1>2. /\ ClientCalls(scheme) \in Seq(CallRecord) /\ HostCalls(scheme) \in Seq(CallRecord)
      /\ Len(ClientCalls(scheme)) = Total /\ Len(HostCalls(scheme)) = Total
      /\ \A k \in 1 .. Total : /\ ClientCalls(scheme)[k] = Call("client", k)
                               /\ HostCalls(scheme)[k] = Call("host", k)
      /\ Total \in {6, 7}
    BY <1>1, CallFacts, KindFacts DEF Follows
<1>3. /\ calls["client"] = ClientCalls(scheme) /\ calls["host"] = HostCalls(scheme)
      /\ calls = [p \in Process |-> IF p = "client" THEN ClientCalls(scheme) ELSE HostCalls(scheme)]
      /\ \A p \in Process : p \in {"client", "host"}
    BY DEF Init, Process
<1>4. \A p \in Process : inbox[p] = << >> /\ out[p] = << >> /\ want[p] = << >>
    BY DEF Init
<1>5. \A p \in Process : Begun(p) = 0
    BY <1>2, <1>3 DEF Begun
<1>6. CallsLeft
    <2>1. ASSUME NEW p \in Process
          PROVE  /\ Len(calls[p]) = Total
                 /\ \A x \in 1 .. Total : calls[p][x] = Call(p, x)
        BY <1>2, <1>3
    <2>2. \A x \in 1 .. Total : 0 + x = x
        BY <1>2
    <2> QED BY <2>1, <2>2, <1>2, <1>5 DEF CallsLeft
<1>7. calls \in [Process -> Seq(CallRecord)] /\ \A p \in Process : Len(calls[p]) <= 7
    BY <1>2, <1>3
<1>8. /\ out \in [Process -> Seq(Frames)] /\ inbox \in [Process -> Seq(Frames)]
      /\ want \in [Process -> Seq(Wants)] /\ capacity \in Capacities /\ querySize = 0
      /\ capacity \in Nat
    BY WireAssumption DEF Init
<1>9. WireTyped
    BY <1>1, <1>4, <1>7, <1>8, WireAssumption DEF WireTyped, TypeOK
<1>10. QueryKnown
    <2>1. Begun("host") = 0
        BY <1>5 DEF Process
    <2> QED BY <2>1 DEF QueryKnown
<1>11. Streams(0)
    <2> SUFFICES ASSUME NEW p \in Process
                 PROVE  InFlight(p, Peer(p), 0) /\ Asks(p, Peer(p), 0)
        BY DEF Streams
    <2> DEFINE s == Peer(p)
    <2>1. s \in Process
        BY Peers
    <2> HIDE DEF s
    <2>2. ~AwaitsSizes(p) /\ Len(want[p]) = 0 /\ Len(inbox[p]) = 0 /\ Len(out[s]) = 0
        BY <1>4, <2>1 DEF AwaitsSizes
    <2>3. Offset(s, 1) = 0
        BY <1>1, <2>1, Numbers
    <2>4. Taken(p) = 0 /\ Given(s) = 0
        BY <1>5, <2>1, <2>2, <2>3 DEF Taken, Given, s
    <2>5. InFlight(p, s, 0)
        BY <2>2, <2>4 DEF InFlight
    <2>6. Asks(p, s, 0)
        BY <1>4 DEF Asks
    <2> QED BY <2>5, <2>6 DEF s
<1> QED BY <1>1, <1>6, <1>9, <1>10, <1>11 DEF WireInv

(* The frames in flight are among those of the script, and a receive that  *)
(* has its sizes waits for the rest of one message.                        *)
LEMMA Ranges ==
    ASSUME WireTyped, CallsLeft, NEW m, Streams(m), NEW p \in Process, NEW s, s = Peer(p)
    PROVE  /\ s \in Process
           /\ Taken(p) \in Nat /\ Given(s) \in Nat
           /\ Len(inbox[p]) \in Nat /\ Len(out[s]) \in Nat /\ Len(want[p]) \in Nat
           /\ Taken(p) + Len(inbox[p]) + Len(out[s]) = Given(s)
           /\ Given(s) <= Offset(s, Total + 1)
           /\ want[p] # << >> /\ ~AwaitsSizes(p) =>
                /\ Taken(p) + Len(want[p]) = Offset(s, Begun(p) + 1)
                /\ Offset(s, Begun(p) + 1) <= Offset(s, Total + 1)
                /\ Offset(s, Begun(p)) <= Taken(p)
                /\ Kinds[Begun(p)] \in Sized => Offset(s, Begun(p)) < Taken(p)
<1>1. /\ scheme \in Schemes /\ clientIds \in Nat /\ Total \in {6, 7}
      /\ \A q \in Process : Begun(q) \in 0 .. Total
    BY Script
<1>2. s \in Process
    BY Peers
<1>3. /\ Len(inbox[p]) \in Nat /\ Len(out[s]) \in Nat /\ Len(want[p]) \in Nat
      /\ want[p] = << >> <=> Len(want[p]) = 0
    BY <1>2 DEF WireTyped
<1>4. \A k \in 1 .. 8 : Offset(s, k) \in Nat
    BY <1>1, <1>2, Numbers
<1>5. \A q \in Process : Begun(q) + 1 \in 1 .. 8
    BY <1>1
<1>6. \A q \in Process : Offset(s, Begun(q) + 1) <= Offset(s, Total + 1)
    <2>1. ASSUME NEW q \in Process PROVE Offset(s, Begun(q) + 1) <= Offset(s, Total + 1)
        <3>1. Begun(q) + 1 \in 1 .. 8 /\ Total + 1 \in (Begun(q) + 1) .. 8
            BY <1>1
        <3> QED BY <3>1, <1>1, <1>2, Rising
    <2> QED BY <2>1
<1>7. InFlight(p, s, m) /\ Asks(p, s, m)
    BY DEF Streams
<1>8. Given(s) \in Nat /\ Given(s) <= Offset(s, Total + 1)
    BY <1>2, <1>4, <1>5, <1>6 DEF Given
<1>9. ASSUME want[p] # << >>, ~AwaitsSizes(p)
      PROVE  /\ Taken(p) + Len(want[p]) = Offset(s, Begun(p) + 1)
             /\ Offset(s, Begun(p)) <= Taken(p)
             /\ Kinds[Begun(p)] \in Sized => Offset(s, Begun(p)) < Taken(p)
             /\ Taken(p) \in Nat
    <2> DEFINE k == Begun(p)
    <2>0. /\ k >= 1 /\ Sender(k) = s
          /\ Len(want[p]) <= Size(Kinds[k])
          /\ Kinds[k] \in Sized => Len(want[p]) < Size(Kinds[k])
        BY <1>7, <1>9 DEF Asks
    <2>1. k \in 1 .. Total
        BY <2>0, <1>1
    <2>2. Taken(p) = Offset(s, k + 1) - Len(want[p])
        BY <1>9 DEF Taken
    <2>a. k \in 1 .. 7
        BY <2>1, <1>1
    <2>3. Size(Kinds[k]) \in Nat
        BY <2>1, <1>1, Numbers
    <2>4. Offset(s, k + 1) = Offset(s, k) + Size(Kinds[k])
        BY <2>0, <2>1, <2>a, <1>1, <1>2, Numbers
    <2>5. Offset(s, k) \in Nat
        BY <2>a, <1>4
    <2> HIDE DEF k
    <2>6. /\ Taken(p) + Len(want[p]) = Offset(s, k + 1)
          /\ Offset(s, k) <= Taken(p)
          /\ Kinds[k] \in Sized => Offset(s, k) < Taken(p)
          /\ Taken(p) \in Nat
        BY <2>0, <2>2, <2>3, <2>4, <2>5, <1>3
    <2> QED BY <2>6 DEF k
<1>10. Taken(p) \in Nat
    <2>1. CASE AwaitsSizes(p)
        <3>1. Begun(p) \in 1 .. 8 /\ Taken(p) = Offset(s, Begun(p))
            BY <2>1, <1>1, <1>7 DEF AwaitsSizes, Asks, Taken
        <3> QED BY <3>1, <1>4
    <2>2. CASE want[p] = << >>
        <3>1. ~AwaitsSizes(p) /\ Len(want[p]) = 0
            BY <2>2, <1>3 DEF AwaitsSizes
        <3>2. Taken(p) = Offset(s, Begun(p) + 1) - 0
            BY <3>1 DEF Taken
        <3> QED BY <3>2, <1>4, <1>5
    <2> QED BY <2>1, <2>2, <1>9
<1>11. Taken(p) + Len(inbox[p]) + Len(out[s]) = Given(s)
    BY <1>7 DEF InFlight
<1> QED BY <1>2, <1>3, <1>6, <1>8, <1>9, <1>10, <1>11

(* Until the client begins to write its matches, their number is open.     *)
LEMMA Rematch ==
    ASSUME WireTyped, CallsLeft, NEW l, NEW m, Streams(m), Begun("client") = 3
    PROVE  Streams(l)
<1> SUFFICES ASSUME NEW p \in Process
             PROVE  InFlight(p, Peer(p), l) /\ Asks(p, Peer(p), l)
    BY DEF Streams
<1> DEFINE s == Peer(p)
<1>1. /\ scheme \in Schemes /\ clientIds \in Nat /\ Total \in {6, 7}
      /\ Begun(p) \in 0 .. Total
    BY Script
<1>2. /\ s \in Process
      /\ Taken(p) \in Nat /\ Given(s) \in Nat
      /\ Len(inbox[p]) \in Nat /\ Len(out[s]) \in Nat /\ Len(want[p]) \in Nat
      /\ Taken(p) + Len(inbox[p]) + Len(out[s]) = Given(s)
      /\ Given(s) <= Offset(s, Total + 1)
      /\ want[p] # << >> /\ ~AwaitsSizes(p) =>
           /\ Taken(p) + Len(want[p]) = Offset(s, Begun(p) + 1)
           /\ Offset(s, Begun(p) + 1) <= Offset(s, Total + 1)
           /\ Offset(s, Begun(p)) <= Taken(p)
           /\ Kinds[Begun(p)] \in Sized => Offset(s, Begun(p)) < Taken(p)
    BY Ranges
<1>3. InFlight(p, s, m) /\ Asks(p, s, m)
    BY DEF Streams
<1> HIDE DEF s
<1>4. s = "host" \/ (s = "client" /\ p = "host" /\ Given(s) = Offset(s, 4))
    BY DEF s, Given, Peer, Process
<1>5. Offset(s, Total + 1) \in Nat /\ Offset(s, 4) \in Nat
    <2>1. Total + 1 \in 1 .. 8
        BY <1>1
    <2>2. \A k \in 1 .. 8 : Offset(s, k) \in Nat
        BY <1>1, <1>2, Numbers
    <2> QED BY <2>1, <2>2
<1>6. ASSUME NEW y \in 1 .. Given(s) PROVE Line(s, l, y) = Line(s, m, y)
    <2>1. y \in 1 .. Offset(s, Total + 1) /\ (s = "host" \/ y <= Offset(s, 4))
        BY <1>2, <1>4, <1>5
    <2> QED BY <2>1, <1>1, <1>2, SameLine
<1>7. InFlight(p, s, l)
    <2>0. /\ Taken(p) \in Nat /\ Given(s) \in Nat
          /\ Len(inbox[p]) \in Nat /\ Len(out[s]) \in Nat
          /\ Taken(p) + Len(inbox[p]) + Len(out[s]) = Given(s)
        BY <1>2
    <2>1. \A x \in 1 .. Len(inbox[p]) : Taken(p) + x \in 1 .. Given(s)
        BY <2>0
    <2>2. \A x \in 1 .. Len(out[s]) : (Given(s) - Len(out[s])) + x \in 1 .. Given(s)
        <3> DEFINE g == Given(s)
                   i == Len(inbox[p])
                   o == Len(out[s])
                   t == Taken(p)
        <3>1. t \in Nat /\ g \in Nat /\ i \in Nat /\ o \in Nat /\ t + i + o = g
            BY <2>0
        <3> HIDE DEF g, i, o, t
        <3>2. \A x \in 1 .. o : (g - o) + x \in 1 .. g
            BY <3>1
        <3> QED BY <3>2 DEF g, o
    <2> QED BY <2>1, <2>2, <1>3, <1>6 DEF InFlight
<1>8. ASSUME want[p] # << >>, ~AwaitsSizes(p), NEW x \in 1 .. Len(want[p])
      PROVE  Line(s, l, Taken(p) + x) = Line(s, m, Taken(p) + x)
    <2>1. /\ Taken(p) + Len(want[p]) = Offset(s, Begun(p) + 1)
          /\ Offset(s, Begun(p) + 1) <= Offset(s, Total + 1)
          /\ Offset(s, Begun(p)) <= Taken(p)
          /\ Kinds[Begun(p)] \in Sized => Offset(s, Begun(p)) < Taken(p)
        BY <1>2, <1>8
    <2>0. Begun(p) >= 1 /\ Sender(Begun(p)) = s
        BY <1>3, <1>8 DEF Asks
    <2>2. Begun(p) \in 1 .. Total
        BY <2>0, <1>1
    <2>3. CASE s = "host"
        <3>0. Begun(p) + 1 \in 1 .. 8
            BY <2>2, <1>1
        <3>1. Offset(s, Begun(p) + 1) \in Nat
            BY <3>0, <1>1, <1>2, Numbers
        <3>2. Taken(p) + x \in 1 .. Offset(s, Total + 1)
            BY <2>1, <3>1, <1>2, <1>5
        <3> QED BY <3>2, <2>3, <1>1, <1>2, SameLine
    <2>4. CASE s = "client" /\ Given(s) = Offset(s, 4)
        <3>1. Taken(p) <= Offset(s, 4)
            BY <2>4, <1>2
        <3>2. Begun(p) < 4
            <4>1. CASE Begun(p) = 4
                <5>1. Kinds[Begun(p)] \in Sized
                    BY <4>1, <1>1, KindFacts DEF Sized
                <5> QED BY <5>1, <4>1, <2>1, <3>1, <1>2, <1>5
            <4>2. CASE Begun(p) > 4
                <5>1. 5 \in 1 .. 8 /\ Begun(p) \in 5 .. 8
                    BY <4>2, <1>1
                <5>2. Offset(s, 5) <= Offset(s, Begun(p))
                    BY <5>1, <1>1, <1>2, Rising
                <5>3. 4 \in 1 .. 7 /\ 4 \in 1 .. Total
                    BY <1>1
                <5>4. /\ Offset(s, 4 + 1) = Offset(s, 4) + Own(s, 4) /\ Sender(4) = s
                      /\ Own(s, 4) = (IF Sender(4) = s THEN Size(Kinds[4]) ELSE 0)
                      /\ Size(Kinds[4]) \in Nat \ {0}
                    BY <5>3, <2>4, <1>1, <1>2, Numbers
                <5>5. Offset(s, 4 + 1) = Offset(s, 5)
                    OBVIOUS
                <5>0. Begun(p) \in 1 .. 8
                    BY <5>1
                <5>6. Offset(s, Begun(p)) \in Nat
                    BY <5>0, <1>1, <1>2, Numbers
                <5> QED BY <5>2, <5>4, <5>5, <5>6, <2>1, <3>1, <1>2, <1>5
            <4> QED BY <4>1, <4>2, <1>1
        <3>3. Begun(p) + 1 \in 1 .. 8 /\ 4 \in (Begun(p) + 1) .. 8
            BY <3>2, <1>1
        <3>4. Offset(s, Begun(p) + 1) <= Offset(s, 4)
            BY <3>3, <1>1, <1>2, Rising
        <3>5. Offset(s, Begun(p) + 1) \in Nat
            BY <3>3, <1>1, <1>2, Numbers
        <3>6. Taken(p) + x \in 1 .. Given(s)
            BY <2>1, <2>4, <3>4, <3>5, <1>2, <1>5
        <3> QED BY <3>6, <1>6
    <2> QED BY <2>3, <2>4, <1>4
<1>9. Asks(p, s, l)
    <2> SUFFICES ASSUME want[p] # << >> PROVE Asks(p, s, l)
        BY DEF Asks
    <2>1. CASE AwaitsSizes(p)
        BY <2>1, <1>3 DEF Asks
    <2>2. CASE ~AwaitsSizes(p)
        BY <2>2, <1>3, <1>8 DEF Asks
    <2> QED BY <2>1, <2>2
<1> QED BY <1>7, <1>9 DEF s

(* A process that neither begins a call nor takes a frame.                 *)
LEMMA SameReader ==
    ASSUME UNCHANGED arguments, NEW q \in Process, NEW s, NEW m,
           want'[q] = want[q], Begun(q)' = Begun(q)
    PROVE  /\ AwaitsSizes(q)' <=> AwaitsSizes(q)
           /\ Taken(q)' = Taken(q)
           /\ Asks(q, s, m) => Asks(q, s, m)'
<1>1. AwaitsSizes(q)' <=> AwaitsSizes(q)
    BY DEF AwaitsSizes
<1>2. Taken(q)' = Taken(q)
    BY <1>1, Steady DEF Taken
<1>3. ASSUME Asks(q, s, m) PROVE Asks(q, s, m)'
    <2>1. FirstWanted(Kinds[Begun(q)])' = FirstWanted(Kinds[Begun(q)])
        BY Steady
    <2> SUFFICES ASSUME want'[q] # << >> PROVE Asks(q, s, m)'
        BY DEF Asks
    <2>2. want[q] # << >>
        OBVIOUS
    <2>3. CASE AwaitsSizes(q)
        <3>1. /\ Begun(q) >= 1 /\ Sender(Begun(q)) = s
              /\ Kinds[Begun(q)] \in Sized /\ want[q] = FirstWanted(Kinds[Begun(q)])
            BY <2>2, <2>3, <1>3 DEF Asks
        <3> QED BY <3>1, <2>1, <2>3, <1>1, Steady DEF Asks
    <2>4. CASE ~AwaitsSizes(q)
        <3>1. /\ Begun(q) >= 1 /\ Sender(Begun(q)) = s
              /\ Len(want[q]) <= Size(Kinds[Begun(q)])
              /\ Kinds[Begun(q)] \in Sized => Len(want[q]) < Size(Kinds[Begun(q)])
              /\ \A x \in 1 .. Len(want[q]) :
                   /\ want[q][x].field # "sizes" /\ want[q][x].kind = ""
                   /\ Agree(want[q][x], Line(s, m, Taken(q) + x))
            BY <2>2, <2>4, <1>3 DEF Asks
        <3>2. \A x : Line(s, m, Taken(q) + x)' = Line(s, m, Taken(q) + x)
            BY <1>2, Steady
        <3>3. \A x : Agree(want[q][x], Line(s, m, Taken(q) + x))' <=>
                     Agree(want[q][x], Line(s, m, Taken(q) + x))
            BY <3>2 DEF Agree
        <3> QED BY <3>1, <3>3, <2>4, <1>1, <1>2, Steady DEF Asks
    <2> QED BY <2>3, <2>4
<1> QED BY <1>1, <1>2, <1>3

(* A stream on which nothing is put, and from which nothing is taken.      *)
LEMMA SameStream ==
    ASSUME UNCHANGED arguments, NEW p \in Process, NEW s \in Process, NEW m,
           Taken(p)' = Taken(p), Given(s)' = Given(s),
           inbox'[p] = inbox[p], out'[s] = out[s], InFlight(p, s, m)
    PROVE  InFlight(p, s, m)'
<1>1. \A y : Line(s, m, y)' = Line(s, m, y)
    BY Steady
<1>2. \A x : Line(s, m, Taken(p) + x)' = Line(s, m, Taken(p) + x)
    BY Steady
<1>3. \A x : Line(s, m, (Given(s) - Len(out[s])) + x)' = Line(s, m, (Given(s) - Len(out[s])) + x)
    BY Steady
<1> QED BY <1>2, <1>3 DEF InFlight

(* A frame is written.                                                     *)
LEMMA WriteFrameInv ==
    ASSUME WireInv, NEW p \in Process, WriteFrame(p)
    PROVE  WireInv'
<1> DEFINE s == Peer(p)
<1>1. /\ UNCHANGED <<arguments, calls, want, querySize>>
      /\ out[p] # << >> /\ Len(inbox[s]) < capacity
      /\ inbox' = [inbox EXCEPT ![s] = Append(@, Head(out[p]))]
      /\ out' = [out EXCEPT ![p] = Tail(@)]
    BY DEF WriteFrame
<1>2. s \in Process /\ s # p /\ Peer(s) = p /\ \A q \in Process : q = p \/ q = s
    BY Peers
<1> HIDE DEF s
<1>3. WireTyped /\ CallsLeft /\ QueryKnown
    BY DEF WireInv
<1>4. PICK m \in 0 .. clientIds : Streams(m)
    BY DEF WireInv
<1>5. \A q : Begun(q)' = Begun(q)
    BY <1>1, Steady DEF Begun
<1>6. CallsLeft'
    BY <1>1, <1>3, <1>5, Steady DEF CallsLeft
<1> DEFINE i == inbox[s]
           o == out[p]
           f == Head(o)
<1>7. i \in Seq(Frames) /\ o \in Seq(Frames) /\ o # << >>
    BY <1>1, <1>2, <1>3 DEF WireTyped
<1>8. /\ inbox'[s] = Append(i, f) /\ out'[p] = Tail(o)
      /\ inbox'[p] = inbox[p] /\ out'[s] = out[s]
      /\ inbox' \in [Process -> Seq(Frames)] /\ out' \in [Process -> Seq(Frames)]
    BY <1>1, <1>2, <1>3, <1>7 DEF WireTyped
<1> HIDE DEF i, o
<1>9. /\ Len(i) \in Nat /\ Len(o) \in Nat /\ Len(o) >= 1 /\ f = o[1]
      /\ Len(Append(i, f)) = Len(i) + 1 /\ Len(Tail(o)) = Len(o) - 1
      /\ \A x \in 1 .. Len(i) : Append(i, f)[x] = i[x]
      /\ Append(i, f)[Len(i) + 1] = f
      /\ \A x \in 1 .. Len(o) - 1 : Tail(o)[x] = o[x + 1]
    BY <1>7
<1>10. WireTyped'
    <2>1. Len(i) < capacity /\ capacity \in Nat
        BY <1>1, <1>3, WireAssumption DEF WireTyped, i
    <2>2. \A q \in Process : Len(inbox'[q]) <= capacity
        <3>1. Len(inbox'[s]) <= capacity
            BY <2>1, <1>8, <1>9
        <3>2. Len(inbox'[p]) <= capacity
            BY <1>3, <1>8 DEF WireTyped, TypeOK
        <3> QED BY <3>1, <3>2, <1>2
    <2>3. \A q \in Process : out'[q] = << >> \/ want[q] = << >>
        BY <1>1, <1>2, <1>3, <1>8 DEF WireTyped, TypeOK
    <2> QED BY <2>2, <2>3, <1>1, <1>3, <1>8 DEF WireTyped, TypeOK, arguments
<1>11. QueryKnown'
    <2>1. AwaitsSizes("host")' <=> AwaitsSizes("host")
        BY <1>1 DEF AwaitsSizes
    <2> QED BY <2>1, <1>1, <1>3, <1>5 DEF QueryKnown, arguments
<1>12. /\ Taken(p)' = Taken(p) /\ Taken(s)' = Taken(s)
       /\ Asks(p, s, m)' /\ Asks(s, p, m)'
    BY <1>1, <1>2, <1>4, <1>5, SameReader DEF Streams, s
<1>13. Given(p)' = Given(p) /\ Given(s)' = Given(s)
    BY <1>1, <1>5, Steady DEF Given
<1>14. InFlight(p, s, m)'
    BY <1>1, <1>2, <1>4, <1>8, <1>12, <1>13, SameStream DEF Streams, s
<1>15. InFlight(s, p, m)'
    <2> DEFINE t == Taken(s)
               g == Given(p)
    <2>1. /\ t \in Nat /\ g \in Nat /\ t + Len(i) + Len(o) = g
        BY <1>2, <1>3, <1>4, Ranges DEF i, o
    <2>2. /\ \A x \in 1 .. Len(i) : i[x] = Line(p, m, t + x)
          /\ \A x \in 1 .. Len(o) : o[x] = Line(p, m, (g - Len(o)) + x)
        BY <1>2, <1>4 DEF Streams, InFlight, i, o
    <2> HIDE DEF t, g
    <2>3. t + (Len(i) + 1) + (Len(o) - 1) = g
        BY <2>1, <1>9
    <2>4. ASSUME NEW x \in 1 .. Len(i) + 1
          PROVE  Append(i, f)[x] = Line(p, m, t + x)
        <3>1. CASE x <= Len(i)
            <4>1. x \in 1 .. Len(i)
                BY <3>1, <1>9
            <4> QED BY <4>1, <2>2, <1>9
        <3>2. CASE x = Len(i) + 1
            <4>1. t + x = (g - Len(o)) + 1 /\ 1 \in 1 .. Len(o)
                BY <3>2, <2>1, <1>9
            <4> QED BY <4>1, <3>2, <2>2, <1>9
        <3> QED BY <3>1, <3>2, <1>9
    <2>5. ASSUME NEW x \in 1 .. Len(o) - 1
          PROVE  Tail(o)[x] = Line(p, m, (g - (Len(o) - 1)) + x)
        <3>1. x + 1 \in 1 .. Len(o) /\ (g - (Len(o) - 1)) + x = (g - Len(o)) + (x + 1)
            BY <2>1, <1>9
        <3> QED BY <3>1, <2>2, <1>9
    <2>6. \A y : Line(p, m, y)' = Line(p, m, y)
        BY <1>1, Steady
    <2>7. Taken(s)' = t /\ Given(p)' = g
        BY <1>12, <1>13 DEF t, g
    <2>8. Len(inbox'[s]) = Len(i) + 1 /\ Len(out'[p]) = Len(o) - 1
        BY <1>8, <1>9
    <2>9. /\ \A x \in 1 .. Len(inbox'[s]) : inbox'[s][x] = Line(p, m, Taken(s)' + x)
          /\ \A x \in 1 .. Len(out'[p]) :
               out'[p][x] = Line(p, m, (Given(p)' - Len(out'[p])) + x)
        BY <2>4, <2>5, <2>7, <2>8, <1>8
    <2>10. /\ \A x : Line(p, m, Taken(s) + x)' = Line(p, m, Taken(s)' + x)
           /\ \A x : Line(p, m, (Given(p) - Len(out[p])) + x)' =
                      Line(p, m, (Given(p)' - Len(out'[p])) + x)
        BY <2>6
    <2>11. Taken(s)' + Len(inbox'[s]) + Len(out'[p]) = Given(p)'
        BY <2>3, <2>7, <2>8
    <2> QED BY <2>9, <2>10, <2>11 DEF InFlight
<1>16. Streams(m)'
    <2> SUFFICES ASSUME NEW q \in Process
                 PROVE  InFlight(q, Peer(q), m)' /\ Asks(q, Peer(q), m)'
        BY DEF Streams
    <2>1. CASE q = p
        BY <2>1, <1>12, <1>14 DEF s
    <2>2. CASE q = s
        BY <2>2, <1>2, <1>12, <1>15
    <2> QED BY <2>1, <2>2, <1>2
<1>17. m \in 0 .. clientIds'
    BY <1>1 DEF arguments
<1> QED BY <1>6, <1>10, <1>11, <1>16, <1>17 DEF WireInv

(* A send begins.                                                          *)
LEMMA BeginSendInv ==
    ASSUME WireInv, NEW p \in Process, NEW n \in 0 .. clientIds, BeginSend(p, n)
    PROVE  WireInv'
<1> DEFINE s == Peer(p)
           k == Begun(p) + 1
           M == Message(Kinds[k], n)
<1>1. /\ UNCHANGED <<arguments, want, inbox, querySize>>
      /\ out[p] = << >> /\ want[p] = << >> /\ calls[p] # << >>
      /\ Head(calls[p]).op = "send"
      /\ calls' = [calls EXCEPT ![p] = Tail(@)]
      /\ out' = [out EXCEPT ![p] = Written(Head(calls[p]).kind,
                   IF p = "client" THEN clientIds ELSE querySize, hostIds, n)]
    BY DEF BeginSend, Calling
<1>2. s \in Process /\ s # p /\ Peer(s) = p /\ \A q \in Process : q = p \/ q = s
    BY Peers
<1> HIDE DEF s
<1>3. WireTyped /\ CallsLeft /\ QueryKnown
    BY DEF WireInv
<1>4. /\ k \in 1 .. Total /\ Head(calls[p]) = Call(p, k) /\ Begun(p)' = k
      /\ Begun(s)' = Begun(s)
      /\ calls' \in [Process -> Seq(CallRecord)]
      /\ \A q \in Process : Len(calls'[q]) <= 7
      /\ CallsLeft'
    BY <1>1, <1>3, NextCall DEF s
<1>5. /\ scheme \in Schemes /\ clientIds \in Nat /\ hostIds \in Nat /\ Total \in {6, 7}
      /\ Begun(p) \in 0 .. Total
    BY <1>3, Script
<1>6. Kinds[k] \in Kind
    BY <1>4, <1>5, KindFacts
<1>7. Sender(k) = p /\ Head(calls[p]).kind = Kinds[k]
    <2>1. CASE Sender(k) = p
        BY <2>1, <1>4, <1>6, CallRecords DEF Call
    <2>2. CASE Sender(k) # p
        BY <2>2, <1>1, <1>4, <1>6, CallRecords DEF Call
    <2> QED BY <2>1, <2>2
<1>8. p = "client" \/ querySize = clientIds
    <2> SUFFICES ASSUME p = "host" PROVE querySize = clientIds
        BY DEF Process
    <2>1. k # 1 /\ k # 2
        BY <1>5, <1>7, Numbers
    <2>2. Begun("host") >= 2
        BY <2>1, <1>4, <1>5
    <2>3. ~AwaitsSizes("host")
        BY <1>1 DEF AwaitsSizes
    <2> QED BY <2>2, <2>3, <1>3, <1>5 DEF QueryKnown
<1>9. out' = [out EXCEPT ![p] = M]
    BY <1>1, <1>7, <1>8 DEF Message
<1>10. /\ M \in Seq(Frames) /\ Len(M) = Size(Kinds[k]) /\ Size(Kinds[k]) \in Nat \ {0}
    BY <1>5, <1>6, MessageFacts
<1> HIDE DEF k, M
<1>11. /\ out'[p] = M /\ out'[s] = out[s] /\ out' \in [Process -> Seq(Frames)]
    BY <1>2, <1>3, <1>9, <1>10 DEF WireTyped
<1>12. WireTyped'
    <2>1. \A q \in Process : out'[q] = << >> \/ want[q] = << >>
        BY <1>1, <1>2, <1>3, <1>11 DEF WireTyped, TypeOK
    <2> QED BY <2>1, <1>1, <1>3, <1>4, <1>11 DEF WireTyped, TypeOK, arguments
<1>13. QueryKnown'
    <2>1. AwaitsSizes("host")' <=> AwaitsSizes("host")
        BY <1>1 DEF AwaitsSizes
    <2>2. CASE p = "host"
        BY <2>2, <1>1, <1>8 DEF QueryKnown, arguments
    <2>3. CASE p = "client"
        <3>1. Begun("host")' = Begun("host")
            BY <2>3, <1>4 DEF s, Peer
        <3> QED BY <2>1, <3>1, <1>1, <1>3 DEF QueryKnown, arguments
    <2> QED BY <2>2, <2>3 DEF Process
<1>14. PICK m \in 0 .. clientIds : Streams(m)
    BY DEF WireInv
<1>15. PICK l \in 0 .. clientIds : Streams(l) /\ M = Message(Kinds[k], l)
    <2>1. CASE Kinds[k] = "lastids"
        <3>1. k = 4
            BY <2>1, <1>4, <1>5, KindFacts
        <3>2. Begun("client") = 3
            <4>1. p = "client"
                BY <3>1, <1>5, <1>7, Numbers
            <4> QED BY <3>1, <4>1, <1>5 DEF k
        <3>3. Streams(n)
            BY <3>2, <1>3, <1>14, Rematch
        <3> QED BY <3>3 DEF M
    <2>2. CASE Kinds[k] # "lastids"
        <3>1. Message(Kinds[k], n) = Message(Kinds[k], m)
            BY <2>2, <1>6, SameMessage
        <3> QED BY <3>1, <1>14 DEF M
    <2> QED BY <2>1, <2>2
<1>16. /\ Taken(s)' = Taken(s) /\ Asks(s, p, l)'
    BY <1>1, <1>2, <1>4, <1>15, SameReader DEF Streams
<1>17. Asks(p, s, l)'
    BY <1>1 DEF Asks
<1>18. k \in 1 .. 7 /\ k \in 1 .. 8 /\ Begun(p) + 1 = k
    BY <1>4, <1>5 DEF k
<1>19. /\ Offset(p, k + 1) = Offset(p, k) + Size(Kinds[k])
       /\ Offset(s, k + 1) = Offset(s, k) + 0
       /\ Offset(p, k) \in Nat /\ Offset(s, k) \in Nat
    <2>1. \A q \in Process : /\ Offset(q, k + 1) = Offset(q, k) + Own(q, k)
                              /\ Offset(q, k) \in Nat
        BY <1>5, <1>18, Numbers
    <2>2. Own(p, k) = Size(Kinds[k]) /\ Own(s, k) = 0
        BY <1>2, <1>4, <1>5, <1>7, Numbers
    <2> QED BY <2>1, <2>2, <1>2
<1>20. Given(s)' = Given(s)
    BY <1>1, <1>4, Steady DEF Given
<1>21. Given(p) = Offset(p, k) /\ Given(p)' = Given(p) + Len(M)
    BY <1>1, <1>4, <1>10, <1>18, <1>19, Steady DEF Given
<1>22. Taken(p)' = Taken(p)
    <2>1. ~AwaitsSizes(p) /\ ~AwaitsSizes(p)' /\ Len(want[p]) = 0 /\ Len(want'[p]) = 0
        BY <1>1 DEF AwaitsSizes
    <2>2. Taken(p) = Offset(s, k) - 0
        BY <2>1, <1>18 DEF Taken, s
    <2>3. Taken(p)' = Offset(s, k + 1) - 0
        BY <2>1, <1>1, <1>4, Steady DEF Taken, s
    <2> QED BY <2>2, <2>3, <1>19
<1>23. InFlight(p, s, l)'
    BY <1>1, <1>2, <1>11, <1>15, <1>20, <1>22, SameStream DEF Streams, s
<1>24. InFlight(s, p, l)'
    <2> DEFINE t == Taken(s)
               g == Given(p)
               i == inbox[s]
    <2>1. t \in Nat /\ g \in Nat /\ Len(i) \in Nat /\ t + Len(i) + 0 = g
        BY <1>1, <1>2, <1>3, <1>15, Ranges
    <2>2. \A x \in 1 .. Len(i) : i[x] = Line(p, l, t + x)
        BY <1>2, <1>15 DEF Streams, InFlight
    <2>3. \A x \in 1 .. Len(M) : M[x] = Line(p, l, g + x)
        BY <1>2, <1>4, <1>5, <1>7, <1>10, <1>15, <1>21, Placed
    <2>4. Given(p)' - Len(out'[p]) = g
        BY <2>1, <1>10, <1>11, <1>21
    <2>5. Taken(s)' + Len(inbox'[s]) + Len(out'[p]) = Given(p)'
        BY <2>1, <1>1, <1>10, <1>11, <1>16, <1>21
    <2> HIDE DEF t, g, i
    <2>6. \A y : Line(p, l, y)' = Line(p, l, y)
        BY <1>1, Steady
    <2>7. /\ \A x : Line(p, l, Taken(s) + x)' = Line(p, l, Taken(s)' + x)
          /\ \A x : Line(p, l, (Given(p) - Len(out[p])) + x)' =
                     Line(p, l, (Given(p)' - Len(out'[p])) + x)
        BY <2>6
    <2>8. /\ \A x \in 1 .. Len(inbox'[s]) : inbox'[s][x] = Line(p, l, Taken(s)' + x)
          /\ \A x \in 1 .. Len(out'[p]) :
               out'[p][x] = Line(p, l, (Given(p)' - Len(out'[p])) + x)
        BY <2>2, <2>3, <2>4, <1>1, <1>11, <1>16 DEF t, i
    <2> QED BY <2>5, <2>7, <2>8 DEF InFlight
<1>25. Streams(l)'
    <2> SUFFICES ASSUME NEW q \in Process
                 PROVE  InFlight(q, Peer(q), l)' /\ Asks(q, Peer(q), l)'
        BY DEF Streams
    <2>1. CASE q = p
        BY <2>1, <1>17, <1>23 DEF s
    <2>2. CASE q = s
        BY <2>2, <1>2, <1>16, <1>24
    <2> QED BY <2>1, <2>2, <1>2
<1>26. l \in 0 .. clientIds'
    BY <1>1 DEF arguments
<1> QED BY <1>4, <1>12, <1>13, <1>25, <1>26 DEF WireInv

(* A receive begins.                                                       *)
LEMMA BeginRecvInv ==
    ASSUME WireInv, NEW p \in Process, BeginRecv(p)
    PROVE  WireInv'
<1> DEFINE s == Peer(p)
           k == Begun(p) + 1
           L == FirstWanted(Kinds[k])
<1>1. /\ UNCHANGED <<arguments, out, inbox, querySize>>
      /\ out[p] = << >> /\ want[p] = << >> /\ calls[p] # << >>
      /\ Head(calls[p]).op = "recv"
      /\ calls' = [calls EXCEPT ![p] = Tail(@)]
      /\ want' = [want EXCEPT ![p] = FirstWanted(Head(calls[p]).kind)]
    BY DEF BeginRecv, Calling
<1>2. s \in Process /\ s # p /\ Peer(s) = p /\ \A q \in Process : q = p \/ q = s
    BY Peers
<1> HIDE DEF s
<1>3. WireTyped /\ CallsLeft /\ QueryKnown
    BY DEF WireInv
<1>4. /\ k \in 1 .. Total /\ Head(calls[p]) = Call(p, k) /\ Begun(p)' = k
      /\ Begun(s)' = Begun(s)
      /\ calls' \in [Process -> Seq(CallRecord)]
      /\ \A q \in Process : Len(calls'[q]) <= 7
      /\ CallsLeft'
    BY <1>1, <1>3, NextCall DEF s
<1>5. /\ scheme \in Schemes /\ clientIds \in Nat /\ hostIds \in Nat /\ Total \in {6, 7}
      /\ Begun(p) \in 0 .. Total
    BY <1>3, Script
<1>6. Kinds[k] \in Kind /\ Sender(k) \in Process
    BY <1>4, <1>5, KindFacts, Numbers
<1>7. Sender(k) = s /\ Head(calls[p]).kind = Kinds[k]
    <2>1. CASE Sender(k) = p
        BY <2>1, <1>1, <1>4, <1>6, CallRecords DEF Call
    <2>2. CASE Sender(k) # p
        BY <2>2, <1>2, <1>4, <1>6, CallRecords DEF Call
    <2> QED BY <2>1, <2>2
<1>8. PICK m \in 0 .. clientIds : Streams(m)
    BY DEF WireInv
<1>9. /\ L \in Seq(Wants) /\ L # << >>
      /\ Size(Kinds[k]) \in Nat
      /\ IF Kinds[k] \in Sized
           THEN L[1].field = "sizes"
           ELSE Answers(L, Kinds[k], m, 0)
    <2>1. Size(Kinds[k]) \in Nat \ {0}
        BY <1>4, <1>5, Numbers
    <2>2. CASE Kinds[k] \in Sized
        BY <2>1, <2>2, <1>5, SizedFirst
    <2>3. CASE Kinds[k] \notin Sized
        <3>1. Answers(L, Kinds[k], m, 0)
            BY <2>3, <1>6, UnsizedFirst
        <3> HIDE DEF L
        <3>a. L \in Seq(Wants) /\ Len(L) = Size(Kinds[k]) - 0
            BY <3>1 DEF Answers
        <3>2. L \in Seq(Wants) /\ Len(L) = Size(Kinds[k])
            BY <3>a, <2>1
        <3> QED BY <3>1, <3>2, <2>1, <2>3
    <2> QED BY <2>2, <2>3
<1>10. want' = [want EXCEPT ![p] = L]
    BY <1>1, <1>7
<1> HIDE DEF k, L
<1>11. /\ want'[p] = L /\ want'[s] = want[s] /\ want' \in [Process -> Seq(Wants)]
    BY <1>2, <1>3, <1>9, <1>10 DEF WireTyped
<1>12. WireTyped'
    <2>1. \A q \in Process : out[q] = << >> \/ want'[q] = << >>
        BY <1>1, <1>2, <1>3, <1>11 DEF WireTyped, TypeOK
    <2> QED BY <2>1, <1>1, <1>3, <1>4, <1>11 DEF WireTyped, TypeOK, arguments
<1>13. k \in 1 .. 7 /\ k \in 1 .. 8 /\ Begun(p) + 1 = k
    BY <1>4, <1>5 DEF k
<1>14. AwaitsSizes(p)' <=> Kinds[k] \in Sized
    <2>1. Head(L) = L[1]
        BY <1>9
    <2>2. CASE Kinds[k] \in Sized
        BY <2>1, <2>2, <1>9, <1>11 DEF AwaitsSizes
    <2>3. CASE Kinds[k] \notin Sized
        <3>1. 1 \in 1 .. Len(L)
            BY <1>9
        <3>2. L[1].field # "sizes"
            BY <3>1, <2>3, <1>9 DEF Answers
        <3> QED BY <3>2, <2>1, <2>3, <1>11 DEF AwaitsSizes
    <2> QED BY <2>2, <2>3
<1>15. QueryKnown'
    <2>1. CASE p = "host"
        <3>1. k = 2 => AwaitsSizes(p)'
            <4>1. ASSUME k = 2 PROVE Kinds[k] \in Sized
                BY <4>1, <1>5, KindFacts DEF Sized
            <4> QED BY <4>1, <1>14
        <3>2. k > 2 => querySize = clientIds
            <4>1. ~AwaitsSizes(p)
                BY <1>1 DEF AwaitsSizes
            <4> QED BY <4>1, <2>1, <1>3, <1>5, <1>13 DEF QueryKnown
        <3> QED BY <3>1, <3>2, <2>1, <1>1, <1>4 DEF QueryKnown, arguments
    <2>2. CASE p = "client"
        <3>1. s = "host"
            BY <2>2 DEF s, Peer
        <3>2. (AwaitsSizes(s)' <=> AwaitsSizes(s)) /\ Begun(s)' = Begun(s)
            BY <1>4, <1>11 DEF AwaitsSizes
        <3> QED BY <3>1, <3>2, <1>1, <1>3 DEF QueryKnown, arguments
    <2> QED BY <2>1, <2>2 DEF Process
<1>16. /\ Taken(s)' = Taken(s) /\ Asks(s, p, m)'
    BY <1>1, <1>2, <1>4, <1>8, <1>11, SameReader DEF Streams
<1>17. /\ Offset(p, k + 1) = Offset(p, k) + 0
       /\ Offset(s, k + 1) = Offset(s, k) + Size(Kinds[k])
       /\ Offset(p, k) \in Nat /\ Offset(s, k) \in Nat
    <2>1. \A q \in Process : /\ Offset(q, k + 1) = Offset(q, k) + Own(q, k)
                              /\ Offset(q, k) \in Nat
        BY <1>5, <1>13, Numbers
    <2>2. Own(s, k) = Size(Kinds[k]) /\ Own(p, k) = 0
        BY <1>2, <1>4, <1>5, <1>7, Numbers
    <2> QED BY <2>1, <2>2, <1>2
<1>18. Given(s)' = Given(s)
    BY <1>1, <1>4, Steady DEF Given
<1>19. Given(p)' = Given(p)
    BY <1>1, <1>4, <1>13, <1>17, Steady DEF Given
<1>20. Taken(p) = Offset(s, k) /\ Taken(p)' = Offset(s, k)
    <2>1. ~AwaitsSizes(p) /\ Len(want[p]) = 0
        BY <1>1 DEF AwaitsSizes
    <2>2. Taken(p) = Offset(s, k) - 0
        BY <2>1, <1>13 DEF Taken, s
    <2>3. CASE Kinds[k] \in Sized
        <3>1. Taken(p)' = Offset(s, k)
            BY <2>3, <1>1, <1>4, <1>14, Steady DEF Taken, s
        <3> QED BY <3>1, <2>2, <1>17
    <2>4. CASE Kinds[k] \notin Sized
        <3>1. Len(L) = Size(Kinds[k]) - 0
            BY <2>4, <1>9 DEF Answers
        <3>2. Taken(p)' = Offset(s, k + 1) - Len(L)
            BY <2>4, <1>1, <1>4, <1>11, <1>14, Steady DEF Taken, s
        <3> QED BY <3>1, <3>2, <2>2, <1>9, <1>17
    <2> QED BY <2>3, <2>4
<1>21. InFlight(p, s, m)'
    BY <1>1, <1>2, <1>8, <1>18, <1>20, SameStream DEF Streams, s
<1>22. InFlight(s, p, m)'
    BY <1>1, <1>2, <1>8, <1>16, <1>19, SameStream DEF Streams
<1>23. Asks(p, s, m)'
    <2>1. /\ Kinds'[Begun(p)'] = Kinds[k] /\ Sender(Begun(p))' = s /\ Begun(p)' >= 1
          /\ Size(Kinds[Begun(p)])' = Size(Kinds[k])
        BY <1>1, <1>4, <1>7, <1>13, Steady
    <2>2. CASE Kinds[k] \in Sized
        <3>1. AwaitsSizes(p)' /\ want'[p] = FirstWanted(Kinds[k])
            BY <2>2, <1>11, <1>14 DEF L
        <3> QED BY <3>1, <2>1, <2>2 DEF Asks
    <2>3. CASE Kinds[k] \notin Sized
        <3>1. Answers(L, Kinds[k], m, 0) /\ ~AwaitsSizes(p)'
            BY <2>3, <1>9, <1>14
        <3>a. Len(L) = Size(Kinds[k]) - 0
            BY <3>1 DEF Answers
        <3>2. Len(L) = Size(Kinds[k])
            BY <3>a, <1>9
        <3>3. ASSUME NEW x \in 1 .. Len(L)
              PROVE  /\ L[x].field # "sizes" /\ L[x].kind = ""
                     /\ Agree(L[x], Line(s, m, Offset(s, k) + x))
            <4>1. x + 0 = x /\ x \in 1 .. Size(Kinds[k])
                BY <3>2, <1>9
            <4>2. Line(s, m, Offset(s, k) + x) = Message(Kinds[k], m)[x]
                BY <4>1, <1>2, <1>4, <1>5, <1>7, Placed
            <4> QED BY <3>1, <4>1, <4>2 DEF Answers
        <3>4. \A x : Line(s, m, Taken(p) + x)' = Line(s, m, Offset(s, k) + x)
            BY <1>1, <1>20, Steady
        <3>5. \A x \in 1 .. Len(L) : Agree(want[p][x], Line(s, m, Taken(p) + x))'
            BY <3>3, <3>4, <1>11 DEF Agree
        <3>6. Kinds'[Begun(p)'] \notin Sized /\ Len(want'[p]) <= Size(Kinds[Begun(p)])'
            BY <3>2, <2>1, <2>3, <1>9, <1>11
        <3>7. \A x \in 1 .. Len(want'[p]) :
                /\ want'[p][x].field # "sizes" /\ want'[p][x].kind = ""
                /\ Agree(want[p][x], Line(s, m, Taken(p) + x))'
            BY <3>3, <3>5, <1>11
        <3> QED BY <3>1, <3>6, <3>7, <2>1 DEF Asks
    <2> QED BY <2>2, <2>3
<1>24. Streams(m)'
    <2> SUFFICES ASSUME NEW q \in Process
                 PROVE  InFlight(q, Peer(q), m)' /\ Asks(q, Peer(q), m)'
        BY DEF Streams
    <2>1. CASE q = p
        BY <2>1, <1>21, <1>23 DEF s
    <2>2. CASE q = s
        BY <2>2, <1>2, <1>16, <1>22
    <2> QED BY <2>1, <2>2, <1>2
<1>25. m \in 0 .. clientIds'
    BY <1>1, <1>8 DEF arguments
<1> QED BY <1>4, <1>12, <1>15, <1>24, <1>25 DEF WireInv

(* What a receive takes next is what it asks for.                          *)
LEMMA NextFrame ==
    ASSUME WireTyped, CallsLeft, NEW m \in 0 .. clientIds, Streams(m), NEW p \in Process,
           NEW s, s = Peer(p), want[p] # << >>
    PROVE  /\ Begun(p) \in 1 .. Total /\ Sender(Begun(p)) = s
           /\ AwaitsSizes(p) =>
                /\ Kinds[Begun(p)] \in Sized /\ want[p] = FirstWanted(Kinds[Begun(p)])
                /\ Taken(p) = Offset(s, Begun(p))
                /\ Line(s, m, Taken(p) + 1) = Message(Kinds[Begun(p)], m)[1]
           /\ want[p][1].field = "sizes" <=> AwaitsSizes(p)
           /\ ~AwaitsSizes(p) => want[p][1].kind = ""
           /\ Agree(want[p][1], Line(s, m, Taken(p) + 1))
<1>1. /\ scheme \in Schemes /\ clientIds \in Nat /\ hostIds \in Nat /\ m \in Nat
      /\ Total \in {6, 7} /\ Begun(p) \in 0 .. Total
    BY Script
<1>2. s \in Process /\ Asks(p, s, m)
    BY Peers DEF Streams
<1>3. Begun(p) >= 1 /\ Sender(Begun(p)) = s
    BY <1>2 DEF Asks
<1>4. Begun(p) \in 1 .. Total
    BY <1>1, <1>3
<1>5. Head(want[p]) = want[p][1] /\ Len(want[p]) \in Nat /\ Len(want[p]) >= 1
    BY DEF WireTyped
<1>6. want[p][1].field = "sizes" <=> AwaitsSizes(p)
    BY <1>5 DEF AwaitsSizes
<1>7. CASE AwaitsSizes(p)
    <2>1. Kinds[Begun(p)] \in Sized /\ want[p] = FirstWanted(Kinds[Begun(p)])
        BY <1>2, <1>7 DEF Asks
    <2>2. Taken(p) = Offset(s, Begun(p))
        BY <1>7 DEF Taken
    <2>3. 1 \in 1 .. Size(Kinds[Begun(p)])
        <3>1. Size(Kinds[Begun(p)]) \in Nat \ {0}
            BY <1>1, <1>4, Numbers
        <3> QED BY <3>1
    <2>4. Line(s, m, Taken(p) + 1) = Message(Kinds[Begun(p)], m)[1]
        BY <2>2, <2>3, <1>1, <1>2, <1>3, <1>4, Placed
    <2>5. Agree(want[p][1], Message(Kinds[Begun(p)], m)[1])
        BY <2>1, <1>1, SizedFirst
    <2> QED BY <2>1, <2>2, <2>4, <2>5, <1>3, <1>4, <1>6, <1>7
<1>8. CASE ~AwaitsSizes(p)
    <2>1. 1 \in 1 .. Len(want[p])
        BY <1>5
    <2>2. want[p][1].kind = "" /\ Agree(want[p][1], Line(s, m, Taken(p) + 1))
        BY <2>1, <1>2, <1>8 DEF Asks
    <2> QED BY <2>2, <1>3, <1>4, <1>6, <1>8
<1> QED BY <1>7, <1>8

(* A frame is taken.                                                       *)
LEMMA ReadFrameInv ==
    ASSUME WireInv, NEW p \in Process, ReadFrame(p)
    PROVE  WireInv'
<1> DEFINE s == Peer(p)
           k == Begun(p)
           w == want[p]
           i == inbox[p]
<1>1. /\ UNCHANGED <<arguments, calls, out>>
      /\ w # << >> /\ i # << >>
      /\ inbox' = [inbox EXCEPT ![p] = Tail(@)]
      /\ want' = [want EXCEPT ![p] =
                    IF Head(w).field = "sizes" THEN WantedAfter(Head(w).kind, Head(i).sizes)
                                               ELSE Tail(@)]
      /\ querySize' = IF Head(w).kind \in {"query", "paillier_query"} THEN Head(i).sizes[1]
                                                                     ELSE querySize
    BY DEF ReadFrame
<1>2. s \in Process /\ s # p /\ Peer(s) = p /\ \A q \in Process : q = p \/ q = s
    BY Peers
<1> HIDE DEF s
<1>3. WireTyped /\ CallsLeft /\ QueryKnown
    BY DEF WireInv
<1>4. PICK m \in 0 .. clientIds : Streams(m)
    BY DEF WireInv
<1>5. /\ scheme \in Schemes /\ clientIds \in Nat /\ hostIds \in Nat /\ m \in Nat
      /\ Total \in {6, 7}
    BY <1>3, Script
<1>6. /\ k \in 1 .. Total /\ Sender(k) = s
      /\ AwaitsSizes(p) =>
           /\ Kinds[k] \in Sized /\ w = FirstWanted(Kinds[k])
           /\ Taken(p) = Offset(s, k)
           /\ Line(s, m, Taken(p) + 1) = Message(Kinds[k], m)[1]
      /\ w[1].field = "sizes" <=> AwaitsSizes(p)
      /\ ~AwaitsSizes(p) => w[1].kind = ""
    BY <1>1, <1>3, <1>4, NextFrame DEF s
<1>7. \A q : Begun(q)' = Begun(q)
    BY <1>1, Steady DEF Begun
<1>8. CallsLeft'
    BY <1>1, <1>3, <1>7, Steady DEF CallsLeft
<1>9. /\ w \in Seq(Wants) /\ i \in Seq(Frames)
      /\ w # << >> /\ i # << >>
    BY <1>1, <1>3 DEF WireTyped
<1>10. /\ InFlight(p, s, m) /\ Asks(p, s, m)
       /\ InFlight(s, p, m) /\ Asks(s, p, m)
    BY <1>2, <1>4 DEF Streams, s
<1>11. /\ Taken(p) \in Nat /\ Given(s) \in Nat /\ Len(out[s]) \in Nat
       /\ Taken(p) + Len(i) + Len(out[s]) = Given(s)
    BY <1>3, <1>4, Ranges DEF s
<1> HIDE DEF w, i, k
<1>12. /\ Head(w) = w[1] /\ Tail(w) \in Seq(Wants) /\ Len(w) \in Nat /\ Len(w) >= 1
       /\ Len(Tail(w)) = Len(w) - 1 /\ \A x \in 1 .. Len(w) - 1 : Tail(w)[x] = w[x + 1]
    BY <1>9
<1>13. /\ Head(i) = i[1] /\ Tail(i) \in Seq(Frames) /\ Len(i) \in Nat /\ Len(i) >= 1
       /\ Len(Tail(i)) = Len(i) - 1 /\ \A x \in 1 .. Len(i) - 1 : Tail(i)[x] = i[x + 1]
    BY <1>9
<1>14. \A x \in 1 .. Len(i) : i[x] = Line(s, m, Taken(p) + x)
    BY <1>10 DEF InFlight, i
<1>15. Head(i) = Line(s, m, Taken(p) + 1)
    BY <1>13, <1>14
<1>16. /\ k \in 1 .. 7 /\ Size(Kinds[k]) \in Nat
       /\ Offset(s, k + 1) = Offset(s, k) + Size(Kinds[k])
       /\ Offset(s, k) \in Nat
    <2>0. k \in 1 .. Total /\ Total \in {6, 7}
        BY <1>5, <1>6
    <2>1. k \in 1 .. 7 /\ k \in 1 .. 8
        BY <2>0
    <2>2. Offset(s, k + 1) = Offset(s, k) + Own(s, k) /\ Offset(s, k) \in Nat
        BY <2>1, <1>2, <1>5, Numbers
    <2>3. Own(s, k) = Size(Kinds[k]) /\ Size(Kinds[k]) \in Nat
        BY <1>2, <1>5, <1>6, Numbers
    <2> QED BY <2>1, <2>2, <2>3
<1> DEFINE L == want'[p]
(* What is left to ask for, in both cases.                                 *)
<1>17. /\ L \in Seq(Wants)
       /\ Len(L) <= Size(Kinds[k])
       /\ Kinds[k] \in Sized => Len(L) < Size(Kinds[k])
       /\ Offset(s, k + 1) - Len(L) = Taken(p) + 1
       /\ \A x \in 1 .. Len(L) :
            /\ L[x].field # "sizes" /\ L[x].kind = ""
            /\ Agree(L[x], Line(s, m, (Taken(p) + 1) + x))
       /\ want' = [want EXCEPT ![p] = L]
    <2>1. CASE AwaitsSizes(p)
        <3> DEFINE A == WantedAfter(Kinds[k], Sizes(Kinds[k], m))
        <3>1. Kinds[k] \in Sized /\ w = FirstWanted(Kinds[k]) /\ Taken(p) = Offset(s, k)
              /\ Head(i) = Message(Kinds[k], m)[1] /\ Head(w).field = "sizes"
            BY <2>1, <1>6, <1>12, <1>15
        <3>2. Head(w).kind = Kinds[k] /\ Head(i).sizes = Sizes(Kinds[k], m)
            BY <3>1, <1>5, <1>12, SizedFirst
        <3>3. L = A /\ want' = [want EXCEPT ![p] = A]
            BY <3>1, <3>2, <1>1, <1>3 DEF WireTyped
        <3>4. Answers(A, Kinds[k], m, 1)
            BY <3>1, <1>5, MessageTail
        <3> HIDE DEF A, L
        <3>5. /\ A \in Seq(Wants) /\ Len(A) = Size(Kinds[k]) - 1
              /\ \A x \in 1 .. Len(A) :
                   /\ A[x].field # "sizes" /\ A[x].kind = ""
                   /\ Agree(A[x], Message(Kinds[k], m)[x + 1])
            BY <3>4 DEF Answers
        <3>a. /\ Len(A) = Size(Kinds[k]) - 1 /\ Taken(p) = Offset(s, k)
              /\ Size(Kinds[k]) \in Nat /\ Offset(s, k) \in Nat
              /\ Offset(s, k + 1) = Offset(s, k) + Size(Kinds[k])
            BY <3>1, <3>5, <1>16
        <3>6. /\ Len(A) <= Size(Kinds[k]) /\ Len(A) < Size(Kinds[k])
              /\ Offset(s, k + 1) - Len(A) = Taken(p) + 1
            BY <3>a
        <3>7. ASSUME NEW x \in 1 .. Len(A)
              PROVE  Message(Kinds[k], m)[x + 1] = Line(s, m, (Taken(p) + 1) + x)
            <4>1. x + 1 \in 1 .. Size(Kinds[k]) /\ (Taken(p) + 1) + x = Offset(s, k) + (x + 1)
                BY <3>a
            <4> QED BY <4>1, <1>2, <1>5, <1>6, Placed
        <3>8. \A x \in 1 .. Len(A) :
                /\ A[x].field # "sizes" /\ A[x].kind = ""
                /\ Agree(A[x], Line(s, m, (Taken(p) + 1) + x))
            BY <3>5, <3>7
        <3> QED BY <3>3, <3>5, <3>6, <3>8
    <2>2. CASE ~AwaitsSizes(p)
        <3>1. L = Tail(w) /\ want' = [want EXCEPT ![p] = Tail(w)]
            BY <2>2, <1>1, <1>3, <1>6, <1>12 DEF WireTyped, w
        <3>2. /\ Len(w) <= Size(Kinds[k])
              /\ \A x \in 1 .. Len(w) :
                   /\ w[x].field # "sizes" /\ w[x].kind = ""
                   /\ Agree(w[x], Line(s, m, Taken(p) + x))
            BY <2>2, <1>9, <1>10 DEF Asks, w, k
        <3>3. Taken(p) = Offset(s, k + 1) - Len(w)
            BY <2>2 DEF Taken, s, k, w
        <3> HIDE DEF L
        <3>a. /\ Len(w) <= Size(Kinds[k]) /\ Len(w) \in Nat /\ Len(w) >= 1
              /\ Len(Tail(w)) = Len(w) - 1
              /\ Size(Kinds[k]) \in Nat /\ Offset(s, k) \in Nat
              /\ Offset(s, k + 1) = Offset(s, k) + Size(Kinds[k])
            BY <3>2, <1>12, <1>16
        <3>4. /\ Len(Tail(w)) <= Size(Kinds[k]) /\ Len(Tail(w)) < Size(Kinds[k])
              /\ Offset(s, k + 1) - Len(Tail(w)) = Taken(p) + 1
            BY <3>3, <3>a
        <3>5. ASSUME NEW x \in 1 .. Len(Tail(w))
              PROVE  /\ Tail(w)[x].field # "sizes" /\ Tail(w)[x].kind = ""
                     /\ Agree(Tail(w)[x], Line(s, m, (Taken(p) + 1) + x))
            <4>0. x \in 1 .. Len(w) - 1
                BY <1>12
            <4>1. x + 1 \in 1 .. Len(w) /\ (Taken(p) + 1) + x = Taken(p) + (x + 1)
                BY <4>0, <1>11, <1>12
            <4>2. Tail(w)[x] = w[x + 1]
                BY <4>0, <1>12
            <4> QED BY <4>1, <4>2, <3>2
        <3> QED BY <3>1, <3>4, <3>5, <1>12
    <2> QED BY <2>1, <2>2
<1>18. want'[s] = want[s] /\ want' \in [Process -> Seq(Wants)]
    BY <1>2, <1>3, <1>17 DEF WireTyped
<1>19. /\ inbox'[p] = Tail(i) /\ inbox'[s] = inbox[s]
       /\ inbox' \in [Process -> Seq(Frames)]
    BY <1>1, <1>2, <1>3, <1>13 DEF WireTyped, i
<1> HIDE DEF L
<1>20. /\ p = "host" /\ k = 2 /\ AwaitsSizes(p) => querySize' = clientIds
       /\ querySize' \in {querySize, clientIds}
       /\ ~(p = "host" /\ k = 2 /\ AwaitsSizes(p)) => querySize' = querySize
    <2>1. CASE AwaitsSizes(p)
        <3>1. /\ Kinds[k] \in Sized /\ w = FirstWanted(Kinds[k])
              /\ Head(i) = Message(Kinds[k], m)[1]
            BY <2>1, <1>6, <1>15
        <3>2. /\ Head(w).kind = Kinds[k]
              /\ Kinds[k] \in {"query", "paillier_query"} => Head(i).sizes[1] = clientIds
            BY <3>1, <1>5, <1>12, SizedFirst
        <3>3. Kinds[k] \in {"query", "paillier_query"} <=> k = 2
            BY <1>5, <1>6, KindFacts
        <3>4. k = 2 => p = "host"
            BY <1>2, <1>5, <1>6, Numbers DEF Process
        <3> QED BY <3>2, <3>3, <3>4, <2>1, <1>1
    <2>2. CASE ~AwaitsSizes(p)
        <3>1. Head(w).kind = ""
            BY <2>2, <1>6, <1>12
        <3> QED BY <3>1, <2>2, <1>1
    <2> QED BY <2>1, <2>2
<1>21. WireTyped'
    <2>1. \A q \in Process : Len(inbox'[q]) <= capacity
        <3>1. capacity \in Nat /\ Len(i) <= capacity /\ Len(inbox[s]) <= capacity
            BY <1>2, <1>3, WireAssumption DEF WireTyped, TypeOK, i
        <3>2. Len(inbox'[p]) <= capacity
            BY <3>1, <1>13, <1>19
        <3> QED BY <3>1, <3>2, <1>2, <1>19
    <2>2. \A q \in Process : out[q] = << >> \/ want'[q] = << >>
        <3>1. out[p] = << >> /\ (out[s] = << >> \/ want'[s] = << >>)
            BY <1>1, <1>2, <1>3, <1>18 DEF WireTyped, TypeOK, w
        <3> QED BY <3>1, <1>2
    <2>3. querySize' \in 0 .. MaxIds
        BY <1>3, <1>20, WireAssumption DEF WireTyped, TypeOK
    <2> QED BY <2>1, <2>2, <2>3, <1>1, <1>3, <1>18, <1>19 DEF WireTyped, TypeOK, arguments
<1>22. ~AwaitsSizes(p)'
    <2>1. ASSUME L # << >> PROVE Head(L).field # "sizes"
        <3>0. L \in Seq(Wants)
            BY <1>17
        <3>1. Head(L) = L[1] /\ 1 \in 1 .. Len(L)
            BY <2>1, <3>0
        <3> QED BY <3>1, <1>17
    <2> QED BY <2>1 DEF AwaitsSizes, L
<1>23. QueryKnown'
    <2>1. CASE p = "host"
        <3>1. CASE k = 2 /\ AwaitsSizes(p)
            BY <3>1, <2>1, <1>1, <1>20 DEF QueryKnown, arguments
        <3>2. CASE ~(k = 2 /\ AwaitsSizes(p))
            <4>1. querySize' = querySize
                BY <3>2, <1>20
            <4>2. k > 2 \/ (k = 2 /\ ~AwaitsSizes(p)) => querySize = clientIds
                BY <2>1, <1>3 DEF QueryKnown, k
            <4>3. Begun("host")' = k
                BY <2>1, <1>7 DEF k
            <4> QED BY <4>1, <4>2, <4>3, <3>2, <1>1 DEF QueryKnown, arguments
        <3> QED BY <3>1, <3>2
    <2>2. CASE p = "client"
        <3>1. s = "host"
            BY <2>2 DEF s, Peer
        <3>2. AwaitsSizes(s)' <=> AwaitsSizes(s)
            BY <1>18 DEF AwaitsSizes
        <3>3. querySize' = querySize
            BY <2>2, <1>20
        <3> QED BY <3>1, <3>2, <3>3, <1>1, <1>3, <1>7 DEF QueryKnown, arguments
    <2> QED BY <2>1, <2>2 DEF Process
<1>24. /\ Taken(s)' = Taken(s) /\ Asks(s, p, m)'
    BY <1>1, <1>2, <1>7, <1>10, <1>18, SameReader
<1>25. Given(p)' = Given(p) /\ Given(s)' = Given(s)
    BY <1>1, <1>7, Steady DEF Given
<1>26. InFlight(s, p, m)'
    BY <1>1, <1>2, <1>10, <1>19, <1>24, <1>25, SameStream
<1>27. Taken(p)' = Taken(p) + 1
    BY <1>1, <1>7, <1>17, <1>22, Steady DEF Taken, s, k, L
<1>28. InFlight(p, s, m)'
    <2>1. \A y : Line(s, m, y)' = Line(s, m, y)
        BY <1>1, Steady
    <2>2. ASSUME NEW x \in 1 .. Len(i) - 1
          PROVE  Tail(i)[x] = Line(s, m, (Taken(p) + 1) + x)
        <3>1. x + 1 \in 1 .. Len(i) /\ (Taken(p) + 1) + x = Taken(p) + (x + 1)
            BY <1>11, <1>13
        <3> QED BY <3>1, <1>13, <1>14
    <2>a. /\ Taken(p)' = Taken(p) + 1 /\ Len(inbox'[p]) = Len(i) - 1
          /\ Len(out'[s]) = Len(out[s]) /\ Given(s)' = Given(s)
          /\ Len(i) \in Nat
        BY <1>1, <1>13, <1>19, <1>25, <1>27
    <2>3. Taken(p)' + Len(inbox'[p]) + Len(out'[s]) = Given(s)'
        BY <2>a, <1>11
    <2>4. \A x \in 1 .. Len(inbox'[p]) : inbox'[p][x] = Line(s, m, Taken(p)' + x)
        BY <2>2, <1>13, <1>19, <1>27
    <2>5. \A x \in 1 .. Len(out'[s]) :
            out'[s][x] = Line(s, m, (Given(s)' - Len(out'[s])) + x)
        BY <1>1, <1>10, <1>25 DEF InFlight
    <2>6. /\ \A x : Line(s, m, Taken(p) + x)' = Line(s, m, Taken(p)' + x)
          /\ \A x : Line(s, m, (Given(s) - Len(out[s])) + x)' =
                     Line(s, m, (Given(s)' - Len(out'[s])) + x)
        BY <2>1
    <2> QED BY <2>3, <2>4, <2>5, <2>6 DEF InFlight
<1>29. Asks(p, s, m)'
    <2>1. /\ Kinds'[Begun(p)'] = Kinds[k] /\ Sender(Begun(p))' = s /\ Begun(p)' >= 1
          /\ Size(Kinds[Begun(p)])' = Size(Kinds[k])
        <3>1. Begun(p)' = k
            BY <1>7 DEF k
        <3>2. Kinds'[Begun(p)'] = Kinds[k] /\ Sender(Begun(p))' = Sender(k)
            BY <3>1, <1>1, Steady
        <3>3. Size(Kinds[Begun(p)])' = Size(Kinds[k])
            BY <3>2, <1>1, Steady
        <3>4. k >= 1
            BY <1>16
        <3> QED BY <3>1, <3>2, <3>3, <3>4, <1>6
    <2>2. \A x : Line(s, m, Taken(p) + x)' = Line(s, m, (Taken(p) + 1) + x)
        BY <1>1, <1>27, Steady
    <2>3. \A x \in 1 .. Len(L) : Agree(want[p][x], Line(s, m, Taken(p) + x))'
        BY <2>2, <1>17 DEF Agree, L
    <2>4. /\ Len(want'[p]) <= Size(Kinds[Begun(p)])'
          /\ Kinds'[Begun(p)'] \in Sized => Len(want'[p]) < Size(Kinds[Begun(p)])'
        BY <2>1, <1>17 DEF L
    <2>5. \A x \in 1 .. Len(want'[p]) :
            /\ want'[p][x].field # "sizes" /\ want'[p][x].kind = ""
            /\ Agree(want[p][x], Line(s, m, Taken(p) + x))'
        BY <2>3, <1>17 DEF L
    <2> QED BY <2>1, <2>4, <2>5, <1>22 DEF Asks
<1>30. Streams(m)'
    <2> SUFFICES ASSUME NEW q \in Process
                 PROVE  InFlight(q, Peer(q), m)' /\ Asks(q, Peer(q), m)'
        BY DEF Streams
    <2>1. CASE q = p
        BY <2>1, <1>28, <1>29 DEF s
    <2>2. CASE q = s
        BY <2>2, <1>2, <1>24, <1>26
    <2> QED BY <2>1, <2>2, <1>2
<1>31. m \in 0 .. clientIds'
    BY <1>1 DEF arguments
<1> QED BY <1>8, <1>21, <1>23, <1>30, <1>31 DEF WireInv

(* Nothing changes.                                                        *)
LEMMA WireStutterInv ==
    ASSUME WireInv, UNCHANGED vars
    PROVE  WireInv'
<1>1. UNCHANGED <<arguments, calls, out, want, inbox, querySize>>
    BY DEF vars
<1>2. WireTyped' /\ \A q : Begun(q)' = Begun(q)
    BY <1>1, Steady DEF WireInv, WireTyped, TypeOK, arguments, Begun
<1>3. CallsLeft'
    BY <1>1, <1>2, Steady DEF WireInv, CallsLeft
<1>4. QueryKnown'
    BY <1>1, <1>2 DEF WireInv, QueryKnown, AwaitsSizes, arguments
<1>5. PICK m \in 0 .. clientIds : Streams(m)
    BY DEF WireInv
<1>6. ASSUME NEW p \in Process
      PROVE  InFlight(p, Peer(p), m)' /\ Asks(p, Peer(p), m)'
    <2>1. Peer(p) \in Process /\ InFlight(p, Peer(p), m) /\ Asks(p, Peer(p), m)
        BY <1>5, Peers DEF Streams
    <2>2. Taken(p)' = Taken(p) /\ Asks(p, Peer(p), m)'
        BY <2>1, <1>1, <1>2, SameReader
    <2>3. Given(Peer(p))' = Given(Peer(p))
        BY <1>1, <1>2, Steady DEF Given
    <2> QED BY <2>1, <2>2, <2>3, <1>1, SameStream
<1>7. Streams(m)' /\ m \in 0 .. clientIds'
    BY <1>1, <1>5, <1>6 DEF Streams, arguments
<1> QED BY <1>2, <1>3, <1>4, <1>7 DEF WireInv

(* Every step keeps the invariant.                                         *)
LEMMA WireInvNext == WireInv /\ [Next]_vars => WireInv'
BY BeginSendInv, WriteFrameInv, BeginRecvInv, ReadFrameInv, WireStutterInv
   DEF Next, ProcessNext, Finished

(* The invariant holds throughout.                                         *)
THEOREM WireInvariant == Spec => []WireInv
BY WireInvInit, WireInvNext, PTL DEF Spec

(* Streams stay within their capacity, and a process makes its calls one   *)
(* at a time.                                                              *)
THEOREM WireTypeCorrect == Spec => []TypeOK
<1>1. WireInv => TypeOK
    BY DEF WireInv, WireTyped
<1> QED BY <1>1, WireInvariant, PTL

(* A receiver takes the field it expects, with the size its peer has sent. *)
THEOREM WireFieldsAgree == Spec => []FieldsAgree
<1>1. WireInv => FieldsAgree
    <2> SUFFICES ASSUME WireInv, NEW p \in Process, want[p] # << >>, inbox[p] # << >>
                 PROVE  /\ Head(inbox[p]).field = Head(want[p]).field
                        /\ Head(inbox[p]).items = Head(want[p]).items
        BY DEF FieldsAgree
    <2>1. PICK m \in 0 .. clientIds : Streams(m)
        BY DEF WireInv
    <2>2. /\ WireTyped /\ CallsLeft
          /\ inbox[p] \in Seq(Frames) /\ want[p] \in Seq(Wants)
        BY DEF WireInv, WireTyped
    <2>3. Agree(want[p][1], Line(Peer(p), m, Taken(p) + 1))
        BY <2>1, <2>2, NextFrame
    <2>4. /\ Head(inbox[p]) = inbox[p][1] /\ Head(want[p]) = want[p][1]
          /\ 1 \in 1 .. Len(inbox[p])
        BY <2>2
    <2>5. inbox[p][1] = Line(Peer(p), m, Taken(p) + 1)
        BY <2>1, <2>4 DEF Streams, InFlight
    <2> QED BY <2>3, <2>4, <2>5 DEF Agree
<1> QED BY <1>1, WireInvariant, PTL
=============================================================================
