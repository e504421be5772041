------------------------------ MODULE MCServe ------------------------------
(* Small processes for TLC: which requests arrive is in the cfg.           *)
EXTENDS Serve, TLC

CONSTANTS b1, b2, i1, c1, s1, s2, m1

MCCall == BackingCall \cup IdentityCall

\* Requests of one kind are interchangeable; used where no liveness is checked.
Interchangeable ==
  Permutations(BackingCall \ Malformed) \cup Permutations(IdentityCall \ IssuerCall) \cup Permutations(Signal)

\* A request that does not parse is answered without touching the ports: it
\* comes first, so that it does not multiply the interleavings of the others.
MalformedFirst ==
  (\E c \in Call \ Malformed : handler[c] # "idle")
    => \A m \in Malformed : handler[m] = "done" /\ m \notin gone

\* Two instances in one: a second backing request, or a check under a key and
\* one failure less, beside a backing request and an issuer-key request.  Arrivals
\* and failures owe no fairness, so a behaviour without them is held to the same.
\* What a failed start leaves behind makes no difference to a caller here, so
\* only its clean failure is followed.
RetryOrCheck ==
  /\ handler[c1] # "idle" => handler[b2] = "idle" /\ faults < MaxFaults
  /\ \A e \in Call : env[e] # "leftover"

\* The second signal comes while the first one's handler is stopping the network
\* it took out of the memo: `docker compose down` takes seconds.
SecondWhileStopping ==
  teardown[s2] # "idle" => \E e \in Call : pending[s1] = e /\ env[e] \in {"stopping", "stopped"}
=============================================================================
