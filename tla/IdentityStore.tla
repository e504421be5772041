--------------------------- MODULE IdentityStore ---------------------------
(***************************************************************************)
(* The password of the identity path's private-state store                 *)
(* (web/src/identityStore.ts), which the operator's deployment writes an   *)
(* attestation under and a later proof, after a reload, reads it with.     *)
(* Tabs share one localStorage, one private-state store, and no lock.      *)
(***************************************************************************)
EXTENDS Naturals

CONSTANTS
  Tab,       \* tabs of this browser open on the app
  Modes,     \* what localStorage may be like here
  MaxDraws,  \* passwords generated
  MaxLoads   \* page loads, all tabs together

StoreAssumption ==
  /\ MaxDraws \in Nat /\ MaxLoads \in Nat
  /\ Modes \subseteq {"works", "readThrows", "writeThrows", "absent"}

VARIABLES
  mode,    \* "works", "readThrows", "writeThrows" (private mode) or "absent"
  stored,  \* the password localStorage keeps, 0 for none
  draws,   \* passwords drawn so far: each draw is a new one
  pc,      \* what each tab is doing with its password provider
  purpose, \* whether it is to write an attestation or to read one
  drawn,   \* the password a tab has generated and not yet kept
  given,   \* the last password its provider returned in this page load, 0 for none
  sealed,  \* the password the stored attestation was written under, 0 for none
  opened,  \* how the last read of the attestation in this tab went
  steady,  \* history: every call of this page load has returned the same password
  loads    \* page loads so far

vars == <<mode, stored, draws, pc, purpose, drawn, given, sealed, opened, steady, loads>>

Init ==
  /\ mode \in Modes
  /\ stored = 0 /\ draws = 0 /\ sealed = 0 /\ loads = 0
  /\ pc = [t \in Tab |-> "rest"]
  /\ purpose = [t \in Tab |-> "none"]
  /\ drawn = [t \in Tab |-> 0]
  /\ given = [t \in Tab |-> 0]
  /\ opened = [t \in Tab |-> "none"]
  /\ steady = [t \in Tab |-> TRUE]

\* Mutation: the key is never looked up again.
NeverExisting == 0

\* getItem: nothing is found in a storage that is not there, throws or is empty.
Existing == IF mode \in {"works", "writeThrows"} THEN stored ELSE 0

Returns(t, password) ==
  /\ given' = [given EXCEPT ![t] = password]
  /\ steady' = [steady EXCEPT ![t] = @ /\ given[t] \in {0, password}]
  /\ pc' = [pc EXCEPT ![t] = "given"]

\* The provider reads the stored password ...
ReadPassword(t, why) ==
  /\ pc[t] = "rest"
  /\ purpose' = [purpose EXCEPT ![t] = why]
  /\ IF Existing # 0
     THEN Returns(t, Existing) /\ UNCHANGED <<drawn, draws>>
     ELSE /\ draws < MaxDraws
          /\ draws' = draws + 1
          /\ drawn' = [drawn EXCEPT ![t] = draws + 1]
          /\ pc' = [pc EXCEPT ![t] = "generated"]
          /\ UNCHANGED <<given, steady>>
  /\ UNCHANGED <<mode, stored, sealed, opened, loads>>

\* ... or keeps the one it generated, if the storage takes it.
KeepPassword(t) ==
  /\ pc[t] = "generated"
  /\ stored' = IF mode = "works" THEN drawn[t] ELSE stored
  /\ Returns(t, drawn[t])
  /\ UNCHANGED <<mode, draws, purpose, drawn, sealed, opened, loads>>

\* External: the SDK's store encrypts and decrypts with what it was given.
Use(t) ==
  /\ pc[t] = "given"
  /\ pc' = [pc EXCEPT ![t] = "rest"]
  /\ sealed' = IF purpose[t] = "write" THEN given[t] ELSE sealed
  /\ opened' = [opened EXCEPT ![t] =
       IF purpose[t] = "write" \/ sealed = 0 THEN "none"
       ELSE IF sealed = given[t] THEN "read" ELSE "unreadable"]
  /\ UNCHANGED <<mode, stored, draws, purpose, drawn, given, steady, loads>>

LoadPage(t) ==
  /\ loads < MaxLoads
  /\ loads' = loads + 1
  /\ pc' = [pc EXCEPT ![t] = "rest"]
  /\ drawn' = [drawn EXCEPT ![t] = 0]
  /\ given' = [given EXCEPT ![t] = 0]
  /\ opened' = [opened EXCEPT ![t] = "none"]
  /\ steady' = [steady EXCEPT ![t] = TRUE]
  /\ UNCHANGED <<mode, stored, draws, purpose, sealed>>

Next ==
  \E t \in Tab : \/ \E why \in {"write", "read"} : ReadPassword(t, why)
                 \/ KeepPassword(t)
                 \/ Use(t)
                 \/ LoadPage(t)

Spec == Init /\ [][Next]_vars

----------------------------------------------------------------------------
TypeOK ==
  /\ mode \in {"works", "readThrows", "writeThrows", "absent"}
  /\ {stored, sealed, draws} \subseteq 0..MaxDraws
  /\ loads \in 0..MaxLoads
  /\ pc \in [Tab -> {"rest", "generated", "given"}]
  /\ purpose \in [Tab -> {"none", "write", "read"}]
  /\ drawn \in [Tab -> 0..MaxDraws]
  /\ given \in [Tab -> 0..MaxDraws]
  /\ opened \in [Tab -> {"none", "read", "unreadable"}]
  /\ steady \in [Tab -> BOOLEAN]

\* With a storage that works, what was written is read back, however often the
\* page is loaded and wherever a load interrupts it ("kept in localStorage so
\* it survives a reload", identityStore.ts).  True of one tab at a time.
ReadableAfterReload ==
  mode = "works" => \A t \in Tab : opened[t] # "unreadable"

\* "the password is still good for this page load" (identityStore.ts), of a
\* storage that refuses to keep it.
GoodForThisPageLoad == \A t \in Tab : steady[t]

\* "Reads the stored password, generating and keeping one the first time"
\* (identityStore.ts): what a call returned is what later calls will read.
ReturnedIsKept ==
  mode = "works" => \A t \in Tab : pc[t] = "given" => given[t] = stored
=============================================================================
