------------------------------ MODULE Envelope -------------------------------
(***************************************************************************)
(* The layout of proof envelopes: building VZK1 and VZK2 blobs, and        *)
(* parsing bytes that may be anything.  A blob is a sequence of numbers,   *)
(* in which the prefix and each length of the header are one number.       *)
(***************************************************************************)
EXTENDS Integers, Sequences, FiniteSetsExt

CONSTANTS
    MaxProofBytesSize,    \* largest blob
    MaxProofCircuitIDLen  \* longest circuit ID

VZK1 == 101
VZK2 == 102
V1HeaderLen == 4
V2HeaderLen == 5

(* Characters of circuit IDs, and a blank. *)
IDChars == {1, 2}
Space == 9

Invalid == [err |-> TRUE]
Valid(value) == [err |-> FALSE, value |-> value]

TrimSpace(id) ==
    LET inner == {i \in DOMAIN id : id[i] # Space} IN
    IF inner = {} THEN <<>> ELSE SubSeq(id, Min(inner), Max(inner))

IsValidProofCircuitID(id) ==
    Len(id) \in 1 .. MaxProofCircuitIDLen /\ \A i \in DOMAIN id : id[i] \in IDChars

BuildProofEnvelope(type, proof, witness) ==
    IF /\ type # 0 /\ proof # <<>> /\ witness # <<>>
       /\ V1HeaderLen + Len(proof) + Len(witness) <= MaxProofBytesSize
    THEN Valid(<<VZK1, type, Len(proof), Len(witness)>> \o proof \o witness)
    ELSE Invalid

BuildProofEnvelopeWithCircuit(type, circuit, proof, witness) ==
    LET id == TrimSpace(circuit) IN
    IF /\ type # 0 /\ proof # <<>> /\ witness # <<>>
       /\ IsValidProofCircuitID(id)
       /\ V2HeaderLen + Len(id) + Len(proof) + Len(witness) <= MaxProofBytesSize
    THEN Valid(<<VZK2, type, Len(id), Len(proof), Len(witness)>> \o id \o proof \o witness)
    ELSE Invalid

Parsed(type, circuit, proof, witness, hasEnvelope) ==
    Valid([type |-> type, circuit |-> circuit, proof |-> proof, witness |-> witness,
           hasEnvelope |-> hasEnvelope])

ParseProofEnvelopeV1(blob) ==
    IF Len(blob) < V1HeaderLen THEN Invalid
    ELSE LET proofEnd == V1HeaderLen + blob[3] IN
         IF blob[3] > 0 /\ blob[4] > 0 /\ Len(blob) = proofEnd + blob[4]
         THEN Parsed(blob[2], <<>>, SubSeq(blob, V1HeaderLen + 1, proofEnd),
                     SubSeq(blob, proofEnd + 1, Len(blob)), TRUE)
         ELSE Invalid

ParseProofEnvelopeV2(blob) ==
    IF Len(blob) < V2HeaderLen THEN Invalid
    ELSE LET circuitEnd == V2HeaderLen + blob[3]
             proofEnd == circuitEnd + blob[4]
             circuit == SubSeq(blob, V2HeaderLen + 1, circuitEnd) IN
         IF /\ blob[3] \in 1 .. MaxProofCircuitIDLen /\ blob[4] > 0 /\ blob[5] > 0
            /\ Len(blob) = proofEnd + blob[5]
            /\ IsValidProofCircuitID(circuit)
         THEN Parsed(blob[2], circuit, SubSeq(blob, circuitEnd + 1, proofEnd),
                     SubSeq(blob, proofEnd + 1, Len(blob)), TRUE)
         ELSE Invalid

(* Bytes without a known prefix are a proof without envelope. *)
ParseProofEnvelope(blob) ==
    IF blob # <<>> /\ blob[1] = VZK1 THEN ParseProofEnvelopeV1(blob)
    ELSE IF blob # <<>> /\ blob[1] = VZK2 THEN ParseProofEnvelopeV2(blob)
    ELSE Parsed(0, <<>>, blob, <<>>, FALSE)
==============================================================================
