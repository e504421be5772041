------------------------------ MODULE Browser ------------------------------
(***************************************************************************)
(* The parts of a page without a proof server, for TLC: the browser-direct *)
(* ports over a wallet, the drawing of a wait, the store of the identity   *)
(* path's password and the service worker.  They share no variable, so an  *)
(* invariant of one holds with the others beside it exactly if it holds    *)
(* alone: a behaviour exercises one part and leaves the others as loaded.  *)
(***************************************************************************)
EXTENDS LacePort, WaitStages, TLC

CONSTANTS
  b1, b2, i1,                             \* two backing checks, an identity check
  t1, Tab, Modes, MaxDraws, MaxLoads,     \* IdentityStore
  r1, r2, Request, Bases, MaxVersion, MaxOutages  \* ServiceWorker

VARIABLES
  part,  \* the part that moves
  mode, stored, draws, tab, purpose, drawn, given, sealed, opened, steady, loads,
  base, site, version, outages, worker, status, cache, request, kind, response, put, lost

Store == INSTANCE IdentityStore WITH pc <- tab
Worker == INSTANCE ServiceWorker WITH MaxChanges <- MaxOutages, changes <- outages

\* What the two modules ask of their constants.
ASSUME PartsAssumption == Store!StoreAssumption /\ Worker!WorkerAssumption

storeVars == <<mode, stored, draws, tab, purpose, drawn, given, sealed, opened, steady, loads>>
workerVars == <<base, site, version, outages, worker, status, cache,
                request, kind, response, put, lost>>
browserVars == <<part, vars, waitVars, storeVars, workerVars>>

\* The ports are asked in two ways: one check while much goes wrong, or one thing
\* does on a build that lacks another, and two that overlap on one contract.
Parts == {"one check", "overlap", "wait", "store", "worker"}
Asked == [p \in {"one check", "overlap"} |-> IF p = "overlap" THEN BackingCall ELSE IdentityCall]
Turns == IF part = "one check" /\ lacks = {} THEN MaxChanges ELSE 1
MCCall == BackingCall \cup IdentityCall

\* Nothing missing, one thing, or two.
Things == {"lace", "fetch", "sdk", "page", "address", "identityAddress", "issuerKey",
           "taxId", "circuit", "deployment", "attestation", "signature"}
MCLacking == {{}} \cup {{p} : p \in Things} \cup {{"deployment", "circuit"}, {"page", "address"}}
Missing == [p \in Parts |-> CASE p = "one check" -> MCLacking
                              [] p = "overlap"   -> {{}, {"lace"}, {"address"}, {"deployment"}}
                              [] OTHER           -> {{}}]

\* The stages of the two waits begin at 0, 14, 42 and 72 per cent of 23 700 ms:
\* the code's own numbers, in units of 50 ms.
MCStart == 0 :> 0 @@ 1 :> 66 @@ 2 :> 199 @@ 3 :> 341

\* The world is in order at first, so what goes wrong goes wrong during a call.
InOrder == [wallet |-> "ready", network |-> Expected, server |-> "ready",
            indexer |-> "ready", site |-> "ready"]

BrowserInit ==
  /\ part \in Parts
  /\ Init /\ world = InOrder /\ lacks \in Missing[part]
  /\ WaitInit
  /\ Store!Init /\ (part # "store" => mode = "works")
  /\ Worker!Init /\ (part # "worker" => base = "root")

PortMoves ==
  /\ part \in {"one check", "overlap"}
  /\ IF changes < Turns THEN TRUE ELSE UNCHANGED world
  /\ Next
  /\ \A c \in Call \ Asked[part] : pc'[c] = "idle"
  /\ changes' <= Turns
  /\ UNCHANGED <<part, waitVars, storeVars, workerVars>>
WaitMoves == part = "wait" /\ WaitNext /\ UNCHANGED <<part, vars, storeVars, workerVars>>
StoreMoves == part = "store" /\ Store!Next /\ UNCHANGED <<part, vars, waitVars, workerVars>>
WorkerMoves == part = "worker" /\ Worker!Next /\ UNCHANGED <<part, vars, waitVars, storeVars>>

BrowserNext == PortMoves \/ WaitMoves \/ StoreMoves \/ WorkerMoves
BrowserSafety == BrowserInit /\ [][BrowserNext]_browserVars

----------------------------------------------------------------------------
\* The variables of the four parts keep their types.
PartsTypeOK == TypeOK /\ WaitTypeOK /\ Store!TypeOK /\ Worker!TypeOK

\* What the browser keeps is there when it is wanted: what was written under
\* the store's password is read after a load (identityStore.ts), and an active
\* worker has a whole shell, and no failed answer, to fall back on (sw.js).
WhatIsKeptIsThere ==
  Store!ReadableAfterReload /\ Worker!OfflineFallback /\ Worker!NoErrorKept
============================================================================
