---------------------------- MODULE ZkArtifacts ----------------------------
(***************************************************************************)
(* The keys and circuits a browser proves with, on their way from the      *)
(* compiler's output into web/public/zk and from there into a dev server   *)
(* or a bundle (web/scripts, `npm run dev` and `npm run build`).  Somebody *)
(* may compile in another terminal while the copy runs.                    *)
(***************************************************************************)
EXTENDS Naturals

CONSTANTS
  Circuit,      \* the directories under contract/src/managed
  Target,       \* the artifact names served, keys/x.prover and so on
  MaxCompiles,  \* bound: compilations
  MaxRuns       \* bound: runs of one of the two scripts

ArtifactAssumption == MaxCompiles \in Nat /\ MaxRuns \in Nat

VARIABLES
  managed,   \* circuit -> its artifacts, each with the compilation it is of
  compiles, runs,
  mode, pc,  \* the script that runs, and where it is
  left,      \* what its plan still has to copy
  public,    \* what is in web/public/zk
  dist,      \* what the last bundle took from there
  warned,    \* whether this run printed a warning
  planned,   \* history: everything compiled when this run planned
  raced      \* history: somebody compiled during this run

script == <<mode, pc, left, public, dist, warned, planned>>
vars == <<managed, compiles, runs, script, raced>>

Artifact == Circuit \X Target \X (1..MaxCompiles)

Init ==
  /\ managed = [c \in Circuit |-> {}] /\ compiles = 0 /\ runs = 0
  /\ mode = "build" /\ pc = "idle" /\ left = {}
  /\ public = {} /\ dist = {}
  /\ warned = FALSE /\ planned = {} /\ raced = FALSE

\* The compiler replaces one circuit's output; a clean leaves it empty.
Compile(c) ==
  /\ compiles < MaxCompiles /\ compiles' = compiles + 1
  /\ \E names \in SUBSET Target : managed' = [managed EXCEPT ![c] = names \X {compiles'}]
  /\ raced' = (pc # "idle")
  /\ UNCHANGED <<runs, script>>

Compiled == {a \in Artifact : <<a[2], a[3]>> \in managed[a[1]]}

\* What the provider in the browser reads, and nothing else.
Entries == {<<a[1], a[2]>> : a \in Compiled}

Collides == \E e, f \in Entries : e[2] = f[2] /\ e[1] # f[1]

\* planCopy: nothing compiled, or one name for two circuits, ends the script;
\* for `dev` that is a warning and Vite starts all the same.
Plan(m) ==
  /\ pc = "idle" /\ runs < MaxRuns /\ runs' = runs + 1
  /\ mode' = m /\ planned' = Compiled /\ raced' = FALSE
  /\ IF Entries = {} \/ Collides
     THEN /\ left' = {} /\ warned' = TRUE
          /\ pc' = IF m = "dev" THEN "exited" ELSE "idle"
     ELSE left' = Entries /\ warned' = FALSE /\ pc' = "planned"
  /\ UNCHANGED <<managed, compiles, public, dist>>

\* Mutation: copied over what a run before has left.
CopiedOver == public

\* rmSync of the whole of web/public/zk.
Replaced == {}

Replace ==
  /\ pc = "planned" /\ pc' = "copying"
  /\ public' = Replaced
  /\ UNCHANGED <<managed, compiles, runs, mode, left, dist, warned, planned, raced>>

\* One cpSync, of the file as it is by now; over one of the same name.
CopyOne(e) ==
  /\ pc = "copying" /\ e \in left /\ left' = left \ {e}
  /\ \E a \in Compiled :
       /\ <<a[1], a[2]>> = e
       /\ public' = {b \in public : b[2] # a[2]} \cup {a}
  /\ UNCHANGED <<managed, compiles, runs, mode, pc, dist, warned, planned, raced>>

Fatal(m) == m = "build"

\* Mutation: a copy that failed under --allow-missing says nothing.
SilentFailure == FALSE

Warns == TRUE

\* An rmSync or a cpSync throws; what it had done by then is done.
CopyFails ==
  /\ pc \in {"planned", "copying"} /\ left' = {}
  /\ public' \in IF pc = "planned" THEN SUBSET public ELSE {public}
  /\ pc' = IF Fatal(mode) THEN "idle" ELSE "exited"
  /\ warned' = Warns
  /\ UNCHANGED <<managed, compiles, runs, mode, dist, planned, raced>>

Copied ==
  /\ pc = "copying" /\ left = {} /\ pc' = "exited"
  /\ UNCHANGED <<managed, compiles, runs, mode, left, public, dist, warned, planned, raced>>

\* What follows `&&`: Vite's server, or the type checker and then the bundle,
\* which takes the whole of web/public with it.
StartServer ==
  /\ pc = "exited" /\ mode = "dev" /\ pc' = "serving"
  /\ UNCHANGED <<managed, compiles, runs, mode, left, public, dist, warned, planned, raced>>

Bundle ==
  /\ pc = "exited" /\ mode = "build" /\ pc' = "idle"
  /\ dist' = public
  /\ UNCHANGED <<managed, compiles, runs, mode, left, public, warned, planned, raced>>

\* The server is stopped, or the type checker finds an error.
StopScript ==
  /\ \/ pc = "serving"
     \/ pc = "exited" /\ mode = "build"
  /\ pc' = "idle"
  /\ UNCHANGED <<managed, compiles, runs, mode, left, public, dist, warned, planned, raced>>

Next ==
  \/ \E c \in Circuit : Compile(c)
  \/ \E m \in {"dev", "build"} : Plan(m)
  \/ Replace \/ CopyFails \/ Copied \/ \E e \in Circuit \X Target : CopyOne(e)
  \/ StartServer \/ Bundle \/ StopScript

Spec == Init /\ [][Next]_vars

----------------------------------------------------------------------------
TypeOK ==
  /\ managed \in [Circuit -> SUBSET (Target \X (1..MaxCompiles))]
  /\ compiles \in 0..MaxCompiles /\ runs \in 0..MaxRuns
  /\ mode \in {"dev", "build"} /\ pc \in {"idle", "planned", "copying", "exited", "serving"}
  /\ left \subseteq Circuit \X Target
  /\ public \subseteq Artifact /\ dist \subseteq Artifact /\ planned \subseteq Artifact
  /\ warned \in BOOLEAN /\ raced \in BOOLEAN

\* A bundle holds every artifact compiled when its build began, of every
\* circuit, and no key of an earlier compilation: "a build that cannot prove
\* must not ship silently" (copy-zk-artifacts.mjs).  Unless somebody compiled
\* while it was being made.
ShipsWhatWasCompiled ==
  [][Bundle => raced \/ (dist' = planned /\ dist' # {})]_vars

\* A server that came up without a warning serves all of one compilation.
ServesWholeOrWarned ==
  pc = "serving" /\ ~warned /\ ~raced => public = planned

\* "A stale prover key from a previous compile is worse than none"
\* (copyZkArtifacts.mjs): no server starts on one.
NoStaleKeyServed ==
  [][StartServer => raced \/ public \subseteq Compiled]_vars
=============================================================================
