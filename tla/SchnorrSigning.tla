--------------------------- MODULE SchnorrSigning ---------------------------
(***************************************************************************)
(* A signature over an attestation, from the issuer's signer               *)
(* (attestation/src/signing.ts) to the two places that verify it: the same *)
(* file off the circuit, and schnorr.compact with the reduction that       *)
(* contract/src/schnorrWitness.ts supplies.  The group is the integers     *)
(* modulo its order, written additively with generator 1; the hashes are   *)
(* any functions.  A witness other than schnorrWitness.ts is not modelled. *)
(***************************************************************************)
EXTENDS Naturals

CONSTANTS
  Order,        \* JUBJUB_ORDER
  Modulus,      \* TWO_248
  FieldSize,    \* the circuit's field
  MaxQuotient,  \* MAX_QUOTIENT
  Payload       \* what is signed

\* The sizes in the code: 2^248 is below the group's order, the order below the
\* field, and 115 is the quotient of the largest field element.
Sizes ==
  /\ {Order, Modulus, FieldSize, MaxQuotient} \subseteq Nat \ {0}
  /\ Modulus < Order /\ Order < FieldSize
  /\ MaxQuotient = ((FieldSize - 1) \div Modulus) + 1

Scalar == 0 .. (Order - 1)
Field == 0 .. (FieldSize - 1)
Point == Scalar

VARIABLES
  pc,            \* how far the signature is
  secretKey, nonce, announcement, response,   \* the signer's scalars and point
  signed,        \* the payload it signs
  challenge,     \* the full challenges computed so far, by what they are over
  shown          \* what is presented to be verified

vars == <<pc, secretKey, nonce, announcement, response, signed, challenge, shown>>

----------------------------------------------------------------------------
toNonZeroScalar(value) == IF value % Order = 0 THEN 1 ELSE value % Order

ecMul(point, scalar) == (point * scalar) % Order
ecMulGenerator(scalar) == scalar % Order
ecAdd(p, q) == (p + q) % Order

publicKey == ecMulGenerator(secretKey)

\* Mutation: the signer reduces the challenge by the order of the group.
TruncatedByOrder(hash) == hash % Order

truncateChallenge(hash) == hash % Modulus

\* Mutation: a remainder is taken from one on, as a bound that is inclusive.
ReducedInclusive(hash) ==
  IF hash > 0 /\ hash % Modulus = 0 THEN <<(hash \div Modulus) - 1, Modulus>>
  ELSE <<hash \div Modulus, hash % Modulus>>

schnorrReduction(hash) == <<hash \div Modulus, hash % Modulus>>

\* The two hashes over a payload: the same circuit wherever it is called, so
\* one value for one input.
Challenge(payload, point, key, full) ==
  IF <<payload, point, key>> \in DOMAIN challenge
  THEN full = challenge[<<payload, point, key>>] /\ UNCHANGED challenge
  ELSE challenge' = [x \in DOMAIN challenge \cup {<<payload, point, key>>} |->
                       IF x = <<payload, point, key>> THEN full ELSE challenge[x]]

----------------------------------------------------------------------------
NotShown == [payload |-> CHOOSE p \in Payload : TRUE, key |-> 0, response |-> 0]

Init ==
  /\ pc = "keyed"
  /\ \E seed \in Field : secretKey = toNonZeroScalar(seed)
  /\ signed \in Payload
  /\ nonce = 0 /\ announcement = 0 /\ response = 0
  /\ challenge = <<>>
  /\ shown = NotShown

\* The nonce is a hash of the key and of a commitment to the payload.
DeriveNonce ==
  /\ pc = "keyed"
  /\ \E hash \in Field : nonce' = toNonZeroScalar(hash)
  /\ announcement' = ecMulGenerator(nonce')
  /\ pc' = "announced"
  /\ UNCHANGED <<secretKey, response, signed, challenge, shown>>

Sign ==
  /\ pc = "announced"
  /\ \E full \in Field :
       /\ Challenge(signed, announcement, publicKey, full)
       /\ response' = (nonce + truncateChallenge(full) * secretKey) % Order
  /\ pc' = "signed"
  /\ UNCHANGED <<secretKey, nonce, announcement, signed, shown>>

\* Whoever holds the signature presents it, as it is or with another payload,
\* key or response.
Present ==
  /\ pc = "signed"
  /\ \E payload \in Payload, key \in Point \ {0}, s \in Field, full \in Field :
       /\ Challenge(payload, announcement, key, full)
       /\ shown' = [payload |-> payload, key |-> key, response |-> s]
  /\ pc' = "presented"
  /\ UNCHANGED <<secretKey, nonce, announcement, response, signed>>

Next == DeriveNonce \/ Sign \/ Present

Safety == Init /\ [][Next]_vars

----------------------------------------------------------------------------
(* The two verifiers, of what is presented.                                *)

fullChallenge == challenge[<<shown.payload, announcement, shown.key>>]

\* Off the circuit.
verifyAttestationSignature ==
  /\ shown.response < Order
  /\ ecMulGenerator(shown.response)
       = ecAdd(announcement, ecMul(shown.key, truncateChallenge(fullChallenge)))

\* The asserts of the circuit about the reduction it is handed, in the field.
ReductionHolds ==
  LET q == schnorrReduction(fullChallenge)[1]
      r == schnorrReduction(fullChallenge)[2]
  IN q < MaxQuotient /\ r < Modulus /\ (q * Modulus + r) % FieldSize = fullChallenge

\* In it.
schnorrVerify ==
  /\ ReductionHolds
  /\ ecMulGenerator(shown.response)
       = ecAdd(announcement, ecMul(shown.key, schnorrReduction(fullChallenge)[2]))

----------------------------------------------------------------------------
\* No scalar that must not be zero is zero: "a zero nonce would publish the
\* secret key in the response, and a zero secret key has no corresponding
\* public key on the curve" (signing.ts).
TypeOK ==
  /\ pc \in {"keyed", "announced", "signed", "presented"}
  /\ secretKey \in Scalar \ {0}
  /\ nonce \in Scalar /\ (pc # "keyed" => nonce # 0 /\ announcement # 0)
  /\ announcement \in Point /\ response \in Scalar /\ signed \in Payload
  /\ shown \in [payload : Payload, key : Point, response : Field]

\* What the signer signed verifies in both places, whatever the hashes are.
SignedVerifies ==
  pc = "presented" /\ shown = [payload |-> signed, key |-> publicKey, response |-> response] =>
    verifyAttestationSignature /\ schnorrVerify

\* "The circuit remains the authority": what passes off the circuit, before a
\* proof is paid for, passes in it; and of a response in range, the reverse.
VerifiersAgree ==
  pc = "presented" =>
    /\ verifyAttestationSignature => schnorrVerify
    /\ schnorrVerify /\ shown.response < Order => verifyAttestationSignature
=============================================================================
