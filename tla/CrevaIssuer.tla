---------------------------- MODULE CrevaIssuer ----------------------------
(***************************************************************************)
(* Who signs an attestation (attestation/src).  An identity claim is       *)
(* signed here, by the synthetic issuer.  For a backing claim Creva's API  *)
(* is asked how it is, within two seconds, and then either Creva's signing *)
(* service signs or the synthetic issuer does; the service may fall silent *)
(* or come back between the two.                                           *)
(***************************************************************************)
EXTENDS Naturals

CONSTANTS
  BackingIssue,   \* backing claims to be signed
  IdentityIssue,  \* identity claims
  MaxChanges      \* bound: how often the world changes

Issue == BackingIssue \cup IdentityIssue

IssuerAssumption ==
  BackingIssue \cap IdentityIssue = {} /\ MaxChanges \in Nat

VARIABLES
  api,       \* how Creva's status endpoint answers
  signing,   \* how its signing service does
  entropy,   \* whether this host has Web Crypto
  changes,   \* how often the three have changed
  pc,        \* where each claim is
  seen,      \* history: how the endpoint was at each moment of the status check
  origin,    \* the origin an issued attestation is tagged with
  signer     \* history: whose signature it carries

world == <<api, signing, entropy, changes>>
vars == <<world, pc, seen, origin, signer>>

ApiState == {"ok", "refusing", "erring", "garbled", "silent"}

Init ==
  /\ api \in ApiState /\ signing \in {"up", "down", "silent"} /\ entropy \in BOOLEAN
  /\ changes = 0
  /\ pc = [c \in Issue |-> "idle"]
  /\ seen = [c \in Issue |-> {}]
  /\ origin = [c \in Issue |-> "none"]
  /\ signer = [c \in Issue |-> "none"]

\* issue(): the identity issuer signs at once, the backing one asks first.
Begin(c) ==
  /\ pc[c] = "idle"
  /\ pc' = [pc EXCEPT ![c] = IF c \in IdentityIssue THEN "synthetic" ELSE "checking"]
  /\ seen' = [seen EXCEPT ![c] = IF c \in IdentityIssue THEN {} ELSE {api}]
  /\ UNCHANGED <<world, origin, signer>>

----------------------------------------------------------------------------
(* checkStatus: headers, then a body, under one timer.                     *)

Headers(c) ==
  /\ pc[c] = "checking" /\ api # "silent"
  /\ pc' = [pc EXCEPT ![c] = IF api \in {"refusing", "erring"} THEN "synthetic" ELSE "reading"]
  /\ UNCHANGED <<world, seen, origin, signer>>

\* Mutation: no body has the shape that is asked for.
NeverHealthy(c) == "synthetic"

Body(c) == IF api = "ok" THEN "real" ELSE "synthetic"

ReadBody(c) ==
  /\ pc[c] = "reading" /\ api # "silent"
  /\ pc' = [pc EXCEPT ![c] = Body(c)]
  /\ UNCHANGED <<world, seen, origin, signer>>

\* Mutation: the timer is cleared with the headers.
TimedUntilHeaders == {"checking"}

Timed == {"checking", "reading"}

StatusExpires(c) ==
  /\ pc[c] \in Timed /\ api = "silent"
  /\ pc' = [pc EXCEPT ![c] = "synthetic"]
  /\ UNCHANGED <<world, seen, origin, signer>>

----------------------------------------------------------------------------
(* The two issuers.                                                        *)

Issued(c, by, tag) ==
  /\ pc' = [pc EXCEPT ![c] = "issued"]
  /\ origin' = [origin EXCEPT ![c] = tag]
  /\ signer' = [signer EXCEPT ![c] = by]
  /\ UNCHANGED <<world, seen>>

SignerUnavailable(c) ==
  /\ pc' = [pc EXCEPT ![c] = "degraded"]
  /\ UNCHANGED <<world, seen, origin, signer>>

\* Mutation: the fallback is taken once more, under the tag of the call.
SignRealOrFallBack(c) ==
  /\ pc[c] = "real"
  /\ \/ signing = "up" /\ Issued(c, "creva", "creva")
     \/ signing = "down" /\ entropy /\ Issued(c, "synthetic", "creva")
     \/ signing = "down" /\ ~entropy /\ SignerUnavailable(c)

\* Nothing bounds the signing client: behind one that is silent the claim waits.
SignReal(c) ==
  /\ pc[c] = "real"
  /\ \/ signing = "up" /\ Issued(c, "creva", "creva")
     \/ signing = "down" /\ SignerUnavailable(c)

\* The signer reaches for Web Crypto, and throws where there is none.
HasEntropy == entropy

SignSynthetic(c) ==
  /\ pc[c] = "synthetic"
  /\ IF HasEntropy THEN Issued(c, "synthetic", "synthetic") ELSE SignerUnavailable(c)

Proceeds(c) ==
  \/ Headers(c) \/ ReadBody(c) \/ StatusExpires(c)
  \/ SignReal(c) \/ SignSynthetic(c)

\* Creva changes, and every status check that is out sees it.
WorldChanges ==
  /\ changes < MaxChanges /\ changes' = changes + 1
  /\ api' \in ApiState /\ signing' \in {"up", "down", "silent"}
  /\ seen' = [c \in Issue |-> IF pc[c] \in {"checking", "reading"} THEN seen[c] \cup {api'} ELSE seen[c]]
  /\ UNCHANGED <<entropy, pc, origin, signer>>

Next == WorldChanges \/ \E c \in Issue : Begin(c) \/ Proceeds(c)

Safety == Init /\ [][Next]_vars

\* The event loop and its timers; a signing service that answers at all.
Fairness == \A c \in Issue : WF_vars(Proceeds(c))

Spec == Safety /\ Fairness

----------------------------------------------------------------------------
TypeOK ==
  /\ api \in ApiState /\ signing \in {"up", "down", "silent"} /\ entropy \in BOOLEAN
  /\ changes \in 0..MaxChanges
  /\ pc \in [Issue -> {"idle", "checking", "reading", "real", "synthetic", "issued", "degraded"}]
  /\ seen \in [Issue -> SUBSET ApiState]
  /\ origin \in [Issue -> {"none", "creva", "synthetic"}]
  /\ signer \in [Issue -> {"none", "creva", "synthetic"}]

\* The tag a screen labels the claim with is whose signature it carries, and
\* Creva is asked to sign nothing whose status check never found it well.
OriginIsHonest ==
  \A c \in Issue :
    /\ origin[c] = signer[c]
    /\ pc[c] = "real" => "ok" \in seen[c]

\* A backing claim falls back only if Creva was unwell during its status check.
FallbackHasCause ==
  \A c \in BackingIssue : origin[c] = "synthetic" => seen[c] # {"ok"}

\* Whatever Creva's API does, the claim reaches an issuer, and from there it
\* ends unless the signing service never answers.
EveryIssueEnds ==
  \A c \in Issue :
    (pc[c] # "idle") ~> (pc[c] \in {"issued", "degraded"} \/ (pc[c] = "real" /\ signing = "silent"))

\* "With it down, the same claim gets a synthetic one instead, so the whole
\* flow keeps running" (crevaAwareBackingIssuer.ts).
DownMeansSynthetic ==
  \A c \in BackingIssue : pc[c] = "degraded" => ~entropy
=============================================================================
