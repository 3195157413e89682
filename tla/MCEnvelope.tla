----------------------------- MODULE MCEnvelope ------------------------------
(***************************************************************************)
(* Building and parsing compared with each other, for all short inputs.    *)
(***************************************************************************)
EXTENDS Envelope

Bytes == {0, 1, 2, Space, VZK1, VZK2}
Strings(chars, max) == UNION {[1 .. n -> chars] : n \in 0 .. max}
Payloads == Strings({0, 1}, 2)
Circuits == Strings({1, 2, Space}, 3)

(* What is built parses to what was put in, the circuit ID without blanks  *)
(* around it: the prover's BuildProofEnvelope and the parser of consensus  *)
(* agree on every boundary between circuit, proof and witness.             *)
ASSUME BuiltEnvelopesParse ==
    \A type \in 0 .. 2, proof, witness \in Payloads :
        /\ LET blob == BuildProofEnvelope(type, proof, witness) IN
           ~blob.err => ParseProofEnvelope(blob.value) = Parsed(type, <<>>, proof, witness, TRUE)
        /\ \A circuit \in Circuits :
              LET blob == BuildProofEnvelopeWithCircuit(type, circuit, proof, witness) IN
              ~blob.err => ParseProofEnvelope(blob.value) =
                              Parsed(type, TrimSpace(circuit), proof, witness, TRUE)

Rebuilt(p) ==
    IF p.circuit = <<>> THEN BuildProofEnvelope(p.type, p.proof, p.witness)
    ELSE BuildProofEnvelopeWithCircuit(p.type, p.circuit, p.proof, p.witness)

(* An envelope has one encoding: whatever bytes parse as one are the bytes *)
(* that building it yields, type 0 and oversize apart, which the parser    *)
(* does not refuse.  So two blobs with the same content have one digest,   *)
(* and the commitment of a record stands for type, circuit and proof.      *)
ASSUME EnvelopesAreCanonical ==
    \A blob \in Strings(Bytes, 2) :
        \A rest \in Strings({0, 1, 2}, 8) :
            LET parsed == ParseProofEnvelope(blob \o rest) IN
            ~parsed.err =>
                IF parsed.value.hasEnvelope
                THEN \/ parsed.value.type = 0
                     \/ Len(blob \o rest) > MaxProofBytesSize
                     \/ Rebuilt(parsed.value) = Valid(blob \o rest)
                ELSE parsed.value.proof = blob \o rest
==============================================================================
