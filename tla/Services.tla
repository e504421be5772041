----------------------------- MODULE Services ------------------------------
(***************************************************************************)
(* What is asked over HTTP, for TLC: the bridge to the proof server, the   *)
(* advisor's model process, Creva's two services, and the signature their  *)
(* answers carry.  They share no variable: a behaviour exercises one of    *)
(* them and leaves the others unasked.                                     *)
(***************************************************************************)
EXTENDS BridgeSession

CONSTANTS
  BackingIssue, IdentityIssue, MaxTurns,           \* CrevaIssuer
  Asker, Tier, MaxSwaps,                           \* Advisor
  Payload, Order, Modulus, FieldSize, MaxQuotient  \* SchnorrSigning

VARIABLES
  asked,  \* the service that is asked
  api, signing, entropy, turns, claim, probed, origin, signer,
  stage, secretKey, nonce, announcement, response, signed, challenge, shown,
  loopback, model, swaps, tier, advising, advice, met

Issuer == INSTANCE CrevaIssuer WITH
  MaxChanges <- MaxTurns, changes <- turns, pc <- claim, seen <- probed
Signing == INSTANCE SchnorrSigning WITH pc <- stage
Advice == INSTANCE Advisor WITH
  Request <- Asker, MaxChanges <- MaxSwaps,
  changes <- swaps, pc <- advising, answer <- advice, seen <- met

\* What the three modules ask of their constants.
ASSUME ServicesAssumption ==
  Issuer!IssuerAssumption /\ Signing!Sizes /\ Advice!AdvisorAssumption

issuerVars == <<api, signing, entropy, turns, claim, probed, origin, signer>>
signingVars == <<stage, secretKey, nonce, announcement, response, signed, challenge, shown>>
adviceVars == <<loopback, model, swaps, tier, advising, advice, met>>
serviceVars == <<asked, vars, issuerVars, signingVars, adviceVars>>

\* A service that is not asked starts out in one state.
ServicesInit ==
  /\ asked \in {"bridge", "issuer", "signing", "advisor"}
  /\ Init /\ (asked # "bridge" => canFetch)
  /\ Issuer!Init /\ (asked # "issuer" => api = "ok" /\ signing = "up" /\ entropy)
  /\ Signing!Init /\ (asked # "signing" => secretKey = 1 /\ signed = CHOOSE p \in Payload : TRUE)
  /\ Advice!Init
  /\ asked # "advisor" => loopback /\ model = "silent" /\ \A a \in Asker : tier[a] = Advice!Unknown

Bridges == asked = "bridge" /\ Next /\ UNCHANGED <<asked, issuerVars, signingVars, adviceVars>>
Issues == asked = "issuer" /\ Issuer!Next /\ UNCHANGED <<asked, vars, signingVars, adviceVars>>
Signs == asked = "signing" /\ Signing!Next /\ UNCHANGED <<asked, vars, issuerVars, adviceVars>>
Advises == asked = "advisor" /\ Advice!Next /\ UNCHANGED <<asked, vars, issuerVars, signingVars>>

ServicesNext == Bridges \/ Issues \/ Signs \/ Advises
ServicesSafety == ServicesInit /\ [][ServicesNext]_serviceVars

----------------------------------------------------------------------------
\* The variables of the four services keep their types.
ServicesTypeOK == TypeOK /\ Issuer!TypeOK /\ Signing!TypeOK /\ Advice!TypeOK

\* What comes back is what it says: a claim tagged as Creva's is signed by
\* Creva (crevaAwareBackingIssuer.ts), and advice is about the tier that was
\* asked for (localModelPredictor.ts).
AnswersAreHonest == Issuer!OriginIsHonest /\ Advice!AdviceIsOwn

\* A fallback has a cause during the call: the synthetic issuer signs only what
\* Creva was not found fit to sign, and the table answers only where the model
\* was of no use.
FallbackHasCause == Issuer!FallbackHasCause /\ Advice!StubHasCause

\* What the signer signs verifies, and the two verifiers agree on everything
\* that may be presented.  (signing.ts against schnorr.compact.)
VerifiersAgree == Signing!SignedVerifies /\ Signing!VerifiersAgree
============================================================================
