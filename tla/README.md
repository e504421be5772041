# A verification of creva-zk

creva-zk shows an entrepreneur, on her own device, that an identity check and a
backing check hold, by running two zero-knowledge circuits. This directory holds
TLA+ models of the program, translated from its source, the TLC configurations
that check them, and proofs of their main properties.

Run a configuration with `tlc -config ServeSafety.cfg MCServe.tla`, and a proof
with `tlapm Serve_proof.tla`. Paths below are relative to the repository.

## 1. The system and its parts

| Part | State | Operations | Talks to |
|---|---|---|---|
| Shared environment (`api/src/sharedEnvironment.ts`, `localEnvironment.ts`) | the memo `environmentPromise`, one local network per start | `sharedEnvironment`, `shutdownSharedEnvironment`, `startLocalEnvironment` and its failures | Docker, the wallet |
| Real ports (`realProofPort.ts`, `realIdentityPort.ts`) | one memoised deployment per port; the issuer key a deployment was signed with | `deployment`, `identityDeployment`, `checkBacking`, `checkIdentity`, `realIdentityIssuerKey`, `shutdownRealPorts` | the shared environment, the circuits |
| Proof server (`proofServer.ts`, `serve.ts`) | listener, one handler per request, one handler per signal | route, settle, send, close, exit | the real ports; the browser |
| Bridge port (`bridgeProofPort.ts`) | none between calls; a timer per call | `checkBacking`, `checkIdentity` (two trips), `fetchIdentityIssuerKey` | the proof server |
| Lace ports (`laceProofPort.ts`, `laceWallet.ts`, `laceProviders.ts`, `timeouts.ts`) | none between calls; the wallet's connection and the local store | connect, query, probe, build providers, join, call | the wallet, the local proof server, the indexer |
| Operator deployment (`laceDeploy.ts`, `web/src/deployRun.ts`, `deployMount.ts`, `deployScreen.ts`) | `DeployState` | `run(target)`, render | the Lace stack |
| Journey (`web/src/app.ts`, `proofRun.ts`, `domain/proofState.ts`, `screens/proofScreen.ts`) | step, two proof states, generation, ticker, help overlay, drawn screen | start, retry, continue, start over, open and leave help, tick | a proof port, the moments |
| Moments (`web/src/momentView.ts`, `content/waitingMoments.ts`) | armed cues, life timers, the played set | `startWait`, `endWait`, `reset` | the journey |
| Wait stages (`web/src/domain/waitStages.ts`, `web/src/waitView.ts`) | the step in its slot, the nodes that fade | elapsed time to the step on screen, swap, fade | the journey |
| Identity store (`web/src/identityStore.ts`) | a password in `localStorage` | read or create | every tab of the origin |
| Service worker (`web/public/sw.js`, `web/src/main.ts`) | the shell cache, the page's status line | register, install, activate, fetch | the network |
| Circuits (`contract/src/*.compact`) | `cleared`, `answered` on the ledger; witnesses | `proveBacking`, `proveIdentity`, tier ladder | every port |
| Signing (`attestation/src/signing.ts`, `contract/src/schnorrWitness.ts`) | a key pair | sign, verify, truncate | the circuits |
| Issuers (`attestation/src/backing`, `crevaApi`) | none | check status, then issue | Creva's API |
| Advisor (`advisor/src`) | none between calls; a timer per call | `advise` | a local model process |
| Artifact copy (`web/scripts`, `web/package.json`) | `web/public/zk`, the last bundle | plan, replace, copy, serve, bundle | the compiler's output |
| Demo and latency runs (`api/src/run.ts`, `tools/harness/latency.ts`) | one network, its contracts, the exit code | start, deploy, call, shut down, exit | Docker, the wallet |
| Anchoring (`anchoring/src`) | none | commit, open, submit | a chain client that does not exist yet |
| Rendering, help, checks before a demo | none | pure functions | |

What makes this code hard to test:

* **Memoised promises.** The environment and both deployments are module-level
  promises that many requests share, that clear themselves when they degrade, and
  that a failed backing deploy or a signal takes away while others hold them.
* **Two ports over one environment.** Each port is correct alone; the backing port
  shuts the environment down under the identity port.
* **Waits that end without their work.** The bridge, the wallet queries, a join and
  a deployment are bounded by time-outs that cancel nothing.
* **Signals.** The process may be told to stop at any await, and told again.
* **Checks that age.** The wallet, its network, the proof server, Creva's status and the
  issuer key are each read before an await and relied on after it.
* **Two places that must agree.** A signer and a circuit, two tabs, a cache and a site, the
  compiler's output and what is served from a copy of it.
* **A screen that outlives its calls.** Start over, retry and the help overlay race
  answers that take half a minute.

### What makes each part correct

* Shared environment: one network at a time; a degraded start is not handed on.
* Real ports: overlapping requests share an attempt; a memoised deployment is live;
  a failed attempt releases its network before it answers; a later request starts afresh.
* Proof server: every request is answered, whatever fails; a published key is the
  key the checks run under; a signal ends the process and leaves nothing running.
* Journey: no step without its answer, no answer from another run, one ticker, a
  screen that shows the state.
* Deployment: one is waited for at a time, what the screen names is on the chain, and what may still land is warned of.
* Lace: the first missing precondition is the one reported; nothing throws or hangs
  but the proof itself.
* Identity store: what was written under one password is read under the same.
* Circuits and signing: a caller's answer is its own; what the signer signs verifies.
* Bridge: a restart between its two trips never turns a claim that holds into a no.
* Wait stages: no step is marked done before its successor runs.
* Service worker: what was installed is there offline, no error page is kept, and a put that
  is lost leaves the shell as it was.
* Issuers and advisor: a fallback has a cause, and what comes back says where it is from.
* Scripts: a green exit is earned, and nothing is left running or half copied behind it.

## 2. Modules

    ProofPort            the port's contract, abstract
    SharedEnvironment    the network and its memo
      RealPorts          EXTENDS it: the two memoised deployments
        Serve            EXTENDS it: handlers, signals; the whole process
          MCServe        constants for TLC
          Serve_proof    type correctness and the inductive invariant
            ServeContract_proof   keys, retries, the exit, how far the findings reach,
                                  no deadlock, and the refinement of ProofPort

    ProofLife            one proof as its screen shows it, abstract
    Moments              the popovers of a wait and their timers
      Journey            EXTENDS it: screens, proof runs, help overlay; a ProofLife per proof
        MCJourney        constants for TLC
        Journey_proof    types, runs, screen, answers, moments, and the refinement of ProofLife
          JourneyMoments_proof   the timing argument: one moment at a time
    WaitStages           the steps of a wait, as the ticker draws them

    LaceStack            the preflight every browser-direct call begins with
      LacePort           EXTENDS it: join, call, answer; implements ProofPort
        LacePort_proof   the first fault, the caller's own answer, the refinement
      DeployTool         EXTENDS it: the operator's presses, and deployments that land late

    BridgeSession        the page's side of the proof server; implements ProofPort

    IdentityStore  ServiceWorker  CrevaIssuer  SchnorrSigning  Advisor
    DemoRun  LatencyRun  ZkArtifacts         each on its own

    Browser              LacePort, WaitStages, IdentityStore, ServiceWorker together
      Browser_proof      the wait, the store, the worker, and the composition
    Operator             DeployTool, ZkArtifacts, DemoRun, LatencyRun together
      Operator_proof     the deployments, the copy, the two runs, and the composition
    Services             BridgeSession, CrevaIssuer, SchnorrSigning, Advisor together
      Services_proof     the bridge, the issuers, the advisor, signing, and the composition
    Waits                the liveness of the modules above that have timers, for TLC

`ProofPort` is implemented three times, by the server (`Serve`), by the client of that server
(`BridgeSession`) and by the browser-direct ports (`LacePort`), which is what lets the journey's
model take any of them for its port. Where components interact they are composed (`Serve` over
`RealPorts` over `SharedEnvironment`, `Journey` over `Moments`, both Lace modules over
`LaceStack`). The four modules at the end put side by side components that share no state: a
behaviour picks one (`part`, `tool`, `asked`), moves it with its own `Next`, and leaves the others as
they start. Since no variable is shared, an invariant or a step property of one component
holds of all its interleavings with the others exactly if it holds there, and the fairness that
`Waits` assumes is that of the component that moves. Their constants are the components' own, and
the cfg gives them values, so the theorems about a suite are about components of any size. What they check is stated
in the components' own modules; where several components promise one thing, the suite names it
once (`WhatIsKeptIsThere`, `ScriptsEndWell`, `AnswersAreHonest`, `FallbackHasCause`, `EveryCallEnds`)
and PROJECT.json has a mutant for each component it speaks of.

JavaScript runs a function without interruption up to its next `await`, so an action
is one stretch between awaits, including every call it makes. A promise is named
after the request that created it: `deploymentPromise["backing"] = b1` says the memo
holds the attempt that request `b1` began, `environmentPromise = b1` that it holds the
start which that attempt began.

### SharedEnvironment

`environmentPromise` is the variable of that name; `env[e]` is what has become of the
start begun by `e`: `starting`, `cleaning` (the wallet failed and the network is being
shut down), `up`, `dead` (Docker went away under it), `degraded`, `rejected` (threw
instead of degrading), `stopping`, `stopped`, `leaked` (its shutdown threw and the
error was swallowed), `leftover` (the start reported a failure and its network stayed up). A start
that fails is `degraded` or `leftover`, either way (`FailedStart`): `environment.start()` may throw with
containers already running, and `startLocalEnvironment` cleans nothing up on that path; and after a
wallet that failed it cleans up, but swallows the error if that throws. Nobody has a handle on a
network that is `leaked` or `leftover` (`OutOfReach`). `JoinEnvironment` is `sharedEnvironment()`; `ForgetStart` the
`.then` that clears the memo; `ForgetEnvironment`, `BeginStop`, `StopSucceeds`/`StopFails`
and `ShutdownReturned` are the four moments of `shutdownSharedEnvironment()`.

### RealPorts

`attempt[a]` runs through the awaits of `openDeployment` / `openIdentityDeployment`:
`loading` (the dynamic import), `awaitEnv`, `deploying`, `releasing` (backing only: its
deploy degraded and `shutdownSharedEnvironment()` is awaited), `ok`, `degraded`.
`SettleDegraded` is the `.then` that clears the port's memo, if it is still its own.

### Serve

`handler[c]` is a request's handler: `receiving` (its body), `opening` (awaiting the
attempt in `joined[c]`), `calling` (the circuit), `done`. `issuerKey[c]` is the key a
check names: the attempt that signed under it, or `None` for a key from elsewhere, so
`KeyVerifies` is the signature check of `identity-check.compact`. `teardown[s]` and
`pending[s]` are one signal handler: the stretch it is in and the promise it took.
Lines of the model that a reader may want to check first: `BackingDeployDegrades`
(takes whatever environment is memoised), `IdentityDeployDegrades` (takes none),
`TakeEnvironment` (a handler that finds no environment memoised has nothing left to await but
settled promises, so the process exits before anything else can run),
`Drained` (a closed connection does not hold the listener open, its handler runs on).

`ProofPort` is what `proofPort.ts` and `ApiResult` promise. `Serve` implements it under
`outcome <- PortOutcome`, `ended <- exited`: a request is `asked` from its arrival until its
handler is `done`.

### Moments and Journey

`timer[t]` is the time left on a `setTimeout`: one per cue of `MOMENT_CUES`, `"visible"`
(`visibleHandle`) and `"remove"` (`removeHandle`), or `Off`. `popover` is the node in the
host, `leaving` its `data-leaving`. A tick passes only when no timer is due, so timers fire
in the order of their deadlines, as the browser fires them; taps and answers come at any
point between. Lengths are constants, ordered by the assumption `Cadence`, which the
numbers of the code (1400, 12000, 700, 3000 and 260 ms) satisfy.

`step`, `proof`, `generation`, `tickHandle`, `renderedKey` and `showingHelp` are the
variables of `mountApp`; `run[g]` is the `runProof` that generation `g` started: `calling`,
`settling` (the result is there; a stub is held), `over`. `root` is the markup of the root
element, as its key, the outcome it shows and the elapsed time last patched into it.
`ticking` holds the intervals that are live, whether or not the code can still clear them.
`Render(key)` is `render()` with the `renderedKey` it finds: it draws nothing over the help
centre, patches a wait that is already there, and redraws otherwise. `begun` is auxiliary:
the generation at which the current journey began.

### WaitStages

`elapsed` is the clock and `drawnAt` the elapsed time of the last draw: the ticker is an
interval of which only `Gap`, the longest time between two draws, is promised. `Progress(e)` is
`buildWaitProgress`, `Tick` is `applyWaitProgress` with `swapStep`, `shown` the step in the
slot and the ring around it, `leaving[i]` what is left of the `LEAVE_TIMEOUT_MS` of the node
of step `i`. `away` is the help centre, which takes the region and its nodes away.

### LaceStack, LacePort and DeployTool

`pc[c]` is the await a call stands at: `connect`, `status`, `configuration`, `connected`,
`probe`, `addresses`, `stacked` are those of `prepareLaceStack`, in its order; `loading`,
`joining`, `joined`, `proving`, `landing` those of the port after it; `issuing` and `deploying`
those of the deployment. `world` is what the page talks to: a wallet, the network it is on, a
proof server, an indexer and the site the chunk and the keys come from, each of which may be
`ready`, `refusing` or `silent`, and change between any two steps. `Settled` is
`withTimeout`: a stage is left by an answer, a refusal, or, of a silent peer, by the timer.
`lacks` is what the build or the page is without (an address, a circuit, `fetch`).

In `LacePort`, `local[c]` is the state the call's own circuit run came back with and `chain` the
contract's ledger; the answer is read off the first. `had[c]` and `fine[c]` are history: the
checks that failed, and that would have passed, at some moment of the call. `Before(k)` is
the order the header of `laceProofPort.ts` ranks the reasons in.

In `DeployTool`, `phase`, `target`, `address` and `key` are the `DeployState` the screen draws,
`current` the attempt it is about. `work[c]` is the deployment itself, `building`, `submitted`,
`landed` or `dead`, which goes on when the wait for it is over: that gap is the subject of the
module. A reload forgets the screen and nothing else.

### BridgeSession

`pc[c]` is the trip a call is on (`issuer`, then `check`), `wire[c]` how far its request is,
`held[c]` the process that holds it and `key[c]` the process whose issuer key came back, since a
restarted server signs under a new one. `Fails` is a trip that came back without a result, `Expires` the
abort; either makes the call degraded. The timer asks nothing of the server, so any trip may expire while it
waits, and `expired` records whose did. The server is what `Serve` is seen as from outside: it opens deployments,
answers, restarts, hangs and stops, and its ports fail each other as theirs do. `deployment[p]` may be `dead`: still
memoised, its network gone, so that it publishes its key and every check on it degrades; or `doomed`:
opening on such a network, or on a start that threw (`network`), and about to degrade. `BackingTakesNetwork` is the
backing deploy that degrades and shuts the network down under the identity deployment, `LosesNetwork` a network
that goes away by itself or a start that throws, `GivesUp` the end of a doomed opening: the memo is cleared, everyone
who waits is told, and backing, unlike identity, shuts the dead network down, so that the next attempt gets another.

### IdentityStore, ServiceWorker, CrevaIssuer, SchnorrSigning

* `IdentityStore`: passwords are numbered in the order they are drawn. `stored` is the entry of
  `localStorage`, `sealed` the password the attestation was written under, `given[t]` the last
  one the provider of tab `t` returned, `steady[t]` whether it has always been the same in this
  page load. A reload may come between any two steps of a tab.
* `ServiceWorker`: `worker` and `cache` are the browser's, `status` the line of `pwa-status.ts`;
  `put[r]` is the `cache.put` nobody awaits, neither the handler nor `waitUntil`: it lands
  (`PutLands`) or comes to nothing (`PutLost`), and `lost` records whose did. Versions of the site are numbered; `base` is
  where it is served from.
* `CrevaIssuer`: `pc[c]` is the claim's place in `issue()`; `seen[c]` is history, the states
  Creva's API was in during its status check. `signer` is whose key signed, `origin` the tag.
* `SchnorrSigning`: the group is the integers modulo its order, the hashes are any functions
  (`challenge` remembers the values they were given, so one input has one value). `Sign` is
  `AttestationSigner.sign`, `verifyAttestationSignature` the check off the circuit and
  `schnorrVerify` the one in it, with the quotient and remainder `schnorrReduction` supplies.

### Advisor, DemoRun, LatencyRun, ZkArtifacts

* `Advisor`: a call is `asked`, `reading` (headers are there, the timer still runs), `settled`;
  `model` is what the local process answers, a tier standing for a sound recommendation of it.
* `DemoRun` and `LatencyRun`: `pc` is the await the script is at, `report` what `run()` is about
  to return through its `finally`, `exit` the exit code, green for 0.
* `ZkArtifacts`: `managed` is the compiler's output, each file with the compilation it is of,
  `public` is `web/public/zk`, `dist` what the last bundle took from there. `planned` is history:
  all that was compiled when the script planned; `raced` says that somebody compiled since.

## 3. What is checked

* **serve_safety** (`ServeSafety.cfg`, pass). Two backing requests, an issuer-key request and an identity check interleave with one signal and any one failure, a shutdown that throws included, after a request that does not parse: overlapping requests share one attempt per port, the memoised backing deployment is never left on a network somebody shut down, a published key stays the key checks run under, one signal leaves no network behind that anybody has a handle on, nothing that degraded is handed to a later request, and a failed backing attempt answers only once its network is down.
  Checks `TypeOK`, `SingleFlight`, `BackingDeploymentLive`, `PublishedKeyIsCurrent`, `NothingRunsAtExit`, `NoStaleDegrade`, `LockReleasedBeforeGivingUp`.
* **serve_contract** (`ServeContract.cfg`, pass). With the fairness of the event loop, under every pair of failures the code degrades on and cleans up after: the whole process implements the abstract proof port, so every request is answered, a signal ends the process, and a backing request that finds the process at rest after the failures is decided.
  Checks `SignalEndsProcess`, `ImplementsProofPort`, `BackingRecovers`.
* **serve_two_networks** (`ServeTwoNetworks.cfg`, violation). A backing deploy that degrades takes the environment memo before the network is down, so an identity request starts a second network beside it.
  Checks `OneEnvironment`.
* **serve_stale_identity** (`ServeStaleIdentity.cfg`, violation). A backing deploy that degrades shuts down the network under a settled identity deployment, which stays memoised.
  Checks `IdentityDeploymentLive`.
* **serve_two_signals** (`ServeTwoSignals.cfg`, violation). The first signal's handler has taken the environment's memo and is stopping its network; the handler of a second signal finds no memo left to wait for and exits with that network still up.
  Checks `NothingRunsAtExit`.
* **journey_safety** (`JourneySafety.cfg`, pass). A journey with retries, a start over and visits to the help centre at any point, the moments' timers running, and a port that may never answer: no screen is reached past an unanswered check, a settled screen shows the last run of this journey, one run has one ticker, the root shows the state, moments keep to their wait and come one at a time, and a wait longer than the measured run says so.
  Checks `TypeOK`, `NoStepUnanswered`, `AnswerIsOwn`, `OneRunOneTicker`, `ScreenShowsState`, `MomentInItsWait`, `OneMomentAtATime`, `OvertimeIsShown`.
* **journey_liveness** (`JourneyLiveness.cfg`, pass). Each proof implements ProofLife, its settling included, and a moment on screen goes away.
  Checks `EachProofLives`, `MomentsGoAway`.
* **journey_moment_over_help** (`JourneyMomentOverHelp.cfg`, violation). momentView.ts says a moment is not shown over the help centre, which has no strip to hang it from; the help centre is drawn with that strip, and a cue that comes while she reads there puts the popover over it.
  Checks `NoMomentOverHelp`.
* **browser** (`Browser.cfg`, pass). The browser's parts, one at a time. Ports: a check while the wallet, its network, the servers and the site change names the first fault, on any build, and of two checks that overlap on one contract each reports its own. Drawing: a wait at the code's own lengths, with draws up to a beat apart, is never ahead of the work, and marks every step it leaves. Store: under a storage of any kind, what one tab wrote it reads after a reload. Worker: two requests against a site that is redeployed, errs or goes away leave a shell to fall back on and no failed answer in the cache.
  Checks `PartsTypeOK`, `ReasonIsFirstFault`, `AnswerIsOwn`, `NeverAhead`, `WhatIsKeptIsThere`, `ImplementsProofPort`, `StepsAreMarked`.
* **operator** (`Operator.cfg`, pass). What an operator runs, one at a time. Deployments: two presses, a reload and a world that changes; what the screen names is on the chain, and an attempt that may still land is warned of. Keys: over three compilations and two copies that may fail at any file, a bundle holds what was compiled, and a server that starts on less has warned. Demo and measurement: three faults at any await, and a green exit is earned and no network left.
  Checks `DoneNamesWhatLanded`, `MayLandIsWarnedOf`, `ScriptsEndWell`, `ShipsWhatWasCompiled`.
* **services** (`Services.cfg`, pass). What is asked over HTTP, one service at a time. Bridge: three calls of a page with or without a fetch, against a server that is restarted, hangs or stops, and whose deployments degrade or lose their network; what is decided is the circuit's answer, under the key that was asked for. Issuer: two claims while Creva's services change three times; a tag is true of its signature, and the fallback has a cause. Signing: every key, nonce and pair of hashes over a group of five. Advisor: two calls on a model that changes twice; advice is about its own tier, and the table answers only for a model that failed.
  Checks `ServicesTypeOK`, `DecidedUnderItsKey`, `AnswersAreHonest`, `FallbackHasCause`, `VerifiersAgree`, `ImplementsProofPort`.
* **waits** (`Waits.cfg`, pass). With the fairness of the event loop and its timers, and nothing owed by a peer that is silent: every call of the browser-direct ports, of the deployment tool, of the bridge, of the issuer and of the advisor ends, the proof and Creva's signature excepted, which nothing bounds; a check asked of a server at rest, one whose memoised deployment stands on a live network, is decided unless one of its own trips runs out of time; and a navigation online refreshes the offline shell unless its write, which nobody awaits, is lost.
  Checks `EveryCallEnds`, `RefreshReachesCache`, `RetryIsDecided`.

Runs that end in a violation state what a comment of the source claims; they are the
findings of section 6.

### Bounds, and why they are enough

* Requests: two or three backing requests, an issuer-key request, an identity check.
  Two per port are what sharing, retrying after a degraded attempt and racing the
  shutdown of the other port need; each request is made once, and a retry is another
  request.
* `MaxFaults` caps injected failures at one or two. One failure reaches every single
  path of `SharedEnvironment` and `RealPorts`; pairs are explored in `ServeContract`, where a
  failure during recovery matters. There a behaviour has a second backing request, or a check and one
  failure (`RetryOrCheck`), which leaves out arrivals and failures only, and nothing forces those; of a start that
  failed it follows the clean outcome, since a caller is told the same either way (`ServeSafety` follows both). The theorems have no such cap. The request that does not parse
  comes before the others (`MalformedFirst`): its handler answers without touching a port.
* `Signal` is empty, one, or (in `ServeTwoSignals`) two deliveries, the second while the first one's handler is
  stopping the network it took (`SecondWhileStopping`).
* `Tier` is `none` and one that qualifies; `MaxGeneration` allows five starts or starts
  over (four in `JourneyLiveness`): a retry in each step, and a second journey.
* The moments' lengths are the smallest ones in the code's order, with a wait that can
  outlast them all; the theorems hold for any lengths in that order.
* Lace: two overlapping backing calls are what an answer taken from the wrong transaction
  needs, one identity call and two changes of the world (one, on a build that lacks something) what a
  reason needs that was true when it was looked at and is not when it is reported; builds lack one
  part at a time, or two whose order matters. Deployments: two attempts, so that one is retried while the first may still
  land, from a page in order, with one change of the world. The theorems have no such bounds.
* Bridge: a backing call, an identity call and its retry, over two changes of the server, which
  is enough for a restart between the two trips and a deployment that fails before it, or a network that a
  backing deploy takes and a restart after that.
* Wait stages run at the code's own numbers, in units of 50 ms, 46 of them past the
  measured proof, with a ticker that may be late by as much as its own interval allows.
* Store: one tab, three page loads and three passwords; worker: two requests at a time, one
  redeployment and one outage. Issuers: two claims, three changes; advisor: two calls, two changes.
* Signing: a group of order five, a field of eleven elements, challenges cut to three, so that
  both reductions wrap; every hash value is tried for every input.
* Scripts: three faults anywhere; three compilations and two runs of the copy. For these three
  groups the theorems of section 4 have no bounds either.
* `Waits` has one call of each component, or two where a retry or a second request matters, and a
  world that starts in order and changes once or twice. Of the bridge it has one change and identity checks one
  after the other, beside a backing check at any time; of the worker no request that bypasses the cache.
  `Services` and `Browser` have those interleavings.
* Symmetry is used only in `ServeSafety`, where no liveness is checked.
* Deadlock is not checked: a process that has exited, or has no more requests, stops. In
  the journey it would show nothing, since the address may always change.

### Fairness

Weak fairness on the steps of a handler, an attempt, a start or a shutdown, and a signal
handler: the event loop runs every continuation whose promise has settled, and Docker,
the wallet and the prover end one way or the other (`EnvSettles` and `AttemptProceeds`
contain a way to end for each wait; the failures are never forced). Requests, disconnections
and signals have no fairness: clients and operators owe nothing.
In the journey, weak fairness on the port's return, the settling that follows it, the
ticker, the timers and the clock, and none on her taps or on the address; `PatientSpec`
keeps only the ticker and the clock, since a proof may take longer than she waits.
In the browser's modules, weak fairness on a call's own next step: the event loop, and the
timers of `withTimeout`, `AbortController` and the status checks. Nothing is asked of a wallet,
a server or an indexer that is silent, and no network owes a confirmation, so the properties
say which waits end all the same; `RetryIsDecided` asks of a server at rest that it answers, leaves out a trip that
ran out of its time, and calls at rest only a server whose deployment for that port is on a live network, or
yet to be opened on one: a deployment memoised on a network that has gone degrades every check until
somebody restarts the server, and no fairness helps. Of a `cache.put` the fairness is that it ends, landed or lost, so
`RefreshReachesCache` leaves out the navigation whose own put was lost; and
`EveryIssueEnds` leaves out a signing service that is silent, since nothing bounds it. Taps,
reloads, restarts and redeployments have no fairness.
The proof itself has no time-out in the code (`contract.ts`, "DELIBERATELY UNBOUNDED"),
so that every request is answered (`ImplementsProofPort` under fairness) rests on the prover
answering or failing.

## 4. What is proved

For every set of requests and signals, every set of failures and every `MaxFaults`:

* `TypeCorrect` (Serve_proof) of `TypeOK`: Every reachable state of the process is well typed, for any sets of requests and signals and any failures.
* `OneAttemptPerPort` (Serve_proof) of `SingleFlight`: Requests that overlap share one deployment attempt per port until a signal tears the ports down.
* `BackingStaysLive` (Serve_proof) of `BackingDeploymentLive`: The memoised backing deployment stands on the memoised environment, which nobody has shut down.
* `DegradedStartsAreForgotten` (Serve_proof): A start that degraded is never the memoised one.
* `RetriesStartAfresh` (ServeContract_proof) of `NoStaleDegrade`: No request is handed an attempt that had already degraded.
* `LockIsReleasedFirst` (ServeContract_proof) of `LockReleasedBeforeGivingUp`: A backing attempt that gives up has waited for its own network to be down.
* `PublishedKeysStayGood` (ServeContract_proof) of `PublishedKeyIsCurrent`: A check that carries a published key runs on the deployment that key belongs to.
* `OneSignalLeavesNothing` (ServeContract_proof) of `NothingRunsAtExit`: A process that one signal ends leaves no network running but one that nobody has a handle on (it refused to stop, or a failed start left it up), whichever attempt was still on its way.
* `OneNetworkIsHandedOut` (ServeContract_proof): Of two networks that run side by side one is being stopped by whoever took it, or is out of everyone's reach (it refused to stop, or a failed start left it up): never two that a caller may be handed, for any number of signals.
* `IdentityLosesItsNetworkToBacking` (ServeContract_proof): The memoised identity deployment stands on a network nobody has shut down, unless a degraded backing deploy took it.
* `CommentsHoldUntilSomethingIsTaken` (ServeContract_proof): Until a backing deploy degrades on a network or a teardown begins, the identity deployment handed out is a live one, and as long as no failed start has left its network up either, there is one network (IdentityDeploymentLive and OneEnvironment, which two runs refute in general). The second hypothesis is needed: a clean-up whose error is swallowed leaves a network beside the next start's.
* `NobodyIsStuck` (ServeContract_proof): Along every chain of waits, from a request's or a signal's handler to an attempt and from there to a start or a shutdown, somebody can move: nobody waits for a promise that nobody will settle, whatever failed before (EveryWaitCanEnd, what SignalEndsProcess and the contract's answers rest on besides fairness).
* `ServesTheContract` (ServeContract_proof): Every step of the process is a step of the abstract proof port or invisible to it (the safety part of the refinement).
* `JourneyTypes` (Journey_proof) of `TypeOK`: Every reachable state of the journey is well typed, for any tiers, any cadence and any number of starts.
* `StepsAreAnswered` (Journey_proof) of `NoStepUnanswered`: No screen is reached past a check that was not answered, or was answered no.
* `RunsAndTickersAgree` (Journey_proof) of `OneRunOneTicker`: At most one proof is out, its screen says so, and exactly one interval draws it.
* `TheScreenIsTrue` (Journey_proof) of `ScreenShowsState`: Whenever the answer lands and whatever she opens, the root shows the state.
* `MomentsKeepToTheirWait` (Journey_proof) of `MomentInItsWait`: A moment on screen or armed belongs to the wait it speaks of, for any lengths of its timers.
* `AnswersAreOwn` (Journey_proof) of `AnswerIsOwn`: A settled screen shows the answer of the last run this journey made for it, whatever was retried or started over.
* `JourneyImplementsProofLife` (Journey_proof): Safety => Identity!Safety /\ Backing!Safety: every step of the journey is, for each proof, a step of ProofLife or a stutter.
* `MomentsComeOneAtATime` (JourneyMoments_proof) of `OneMomentAtATime`: For any lengths that keep the order assumed in Cadence, a moment never comes out over another.
* `LaceTypeCorrect` (LacePort_proof): the browser-direct ports' variables keep their types, for any calls, faults and changes of the world
* `LaceReason` (LacePort_proof) of `ReasonIsFirstFault`: the reason of a degraded call was really wrong during it, and everything the header ranks before it was in order at some moment of it
* `LaceAnswers` (LacePort_proof) of `AnswerIsOwn`: overlapping calls on one contract each report what their own circuit decided
* `LaceIsAPort` (LacePort_proof) of `ImplementsProofPort`: every behaviour of the browser-direct ports, fairness aside, is one of a proof port
* `ToolTypeCorrect` (Operator_proof): the deployment tool's variables keep their types
* `ToolAwaitsOne` (Operator_proof): two deployments are never waited for at once, however often the operator presses or reloads
* `ToolNamesWhatLanded` (Operator_proof) of `DoneNamesWhatLanded`: the address and key the done screen names are of one deployment, of the kind named, that is on the chain
* `ToolWarns` (Operator_proof) of `MayLandIsWarnedOf`: an attempt that was given up on while it may still land is reported as deploy_failed
* `ToolRetries` (Operator_proof): a retry deploys the contract that failed
* `ToolBehavesAsAlone` (Operator_proof): In the composition of the operator's tools the deployment tool behaves as in its own module.
* `BundlesAreWhole` (Operator_proof) of `ShipsWhatWasCompiled`: A bundle that no compilation raced holds exactly what was compiled when its build began, and not nothing, for any circuits and files.
* `ScriptsAreHonest` (Operator_proof) of `ScriptsEndWell`: A green exit of the demo run or of the measurement is earned, a run that ends leaves no network up but one whose shutdown threw (or, in the measurement, whose wallet would not stop), and a server that came up without a warning serves the whole of one compilation.
* `BridgeTypeCorrect` (Services_proof): the session's variables keep their types, for any calls and restarts
* `BridgeDecides` (Services_proof) of `DecidedUnderItsKey`: what is decided is the circuit's answer, under the key the check was asked under, whatever is restarted in between
* `BridgeIsAPort` (Services_proof) of `ImplementsProofPort`: every behaviour of the bridge, fairness aside, is one of a proof port
* `BridgeBehavesAsAlone` (Services_proof): In the composition of the services the bridge behaves as in its own module.
* `ServicesTypeCorrect` (Services_proof) of `ServicesTypeOK`: The variables of bridge, issuers, advisor and signing keep their types, for any claims, questions, hashes and sizes in the code's order.
* `HonestAnswers` (Services_proof) of `AnswersAreHonest`: The tag of a claim is whose signature it carries, Creva signs nothing whose status check never found it well, and an advice is about the tier that was asked about: for any number of claims and questions, and a Creva and a model that change at any step.
* `FallbacksHaveCauses` (Services_proof) of `FallbackHasCause`: A backing claim falls back only if Creva was unwell at some moment of its status check, and the table answers only a question during which the model gave something else than a sound answer.
* `SignaturesVerify` (Services_proof) of `VerifiersAgree`: What the signer signs verifies on the circuit and off it, and of a response in range the two verifiers agree on whatever is presented: for any group order, modulus and field in the order of the code's, and any hash.
* `WaitTypes` (Browser_proof): the wait's variables keep their types, for any number of stages
* `ScreenNeverAhead` (Browser_proof) of `NeverAhead`: what is drawn is behind the work by a draw at most, and never ahead of it
* `OneFades` (Browser_proof): at most one step fades, the one before that on screen
* `EveryStepMarked` (Browser_proof) of `StepsAreMarked`: no step is taken from the screen before its check has been on it, if two draws are at most a beat apart
* `DrawsFollow` (Browser_proof): of two draws at most a beat apart, the second shows the same step or, after its check, its successor
* `PartsBehaveAsAlone` (Browser_proof): In the composition of the page's parts the ports and the wait behave as in their own modules, so what is proved of them there holds in it.
* `PartsTypeCorrect` (Browser_proof) of `PartsTypeOK`: The variables of ports, wait, password store and service worker keep their types, for any calls, tabs, requests and deployments.
* `WhatIsKeptStays` (Browser_proof) of `WhatIsKeptIsThere`: With one tab on the app, what was written under the store's password is read after any number of loads; an active worker always has a page to fall back on and keeps no failed answer, in whatever order its puts land.
* `OnePasswordIsKept` (Browser_proof): With one tab and a storage that works, every call of the password provider in a page load returns the one password that was kept (GoodForThisPageLoad and ReturnedIsKept, which do not hold in general).

The argument. `SingleFlight` and `BackingDeploymentLive` are not inductive; `ServeInv` in
`Serve_proof.tla` strengthens them with: a memo names an attempt of its own port that has not
degraded (`MemoInv`); a request that has not arrived owns no attempt and no start
(`FreshInv`); an attempt that runs on a network has one whose start succeeded
(`AttemptInv`); and the backing attempt that is deploying or settled stands on the memoised
start (`BackingEnvInv`), which nobody can take while the memo of the port holds it. The last
is where the asymmetry of the two ports shows: no such invariant holds of identity.
`ServeContract_proof.tla` adds that the identity deployment is never replaced while a request
may still be read (`IdentityInv`, `QuietInv`), so every published key names it (`KeyInv`), and
from this that each step of `Serve` is a step of `ProofPort` or a stutter.

The exit needs more (`OneSignalLeavesNothing`). Every network that runs is in somebody's custody:
memoised, being stopped by the attempt whose deploy degraded, or taken by the signal's handler
(`CustodyInv`). Each stretch of that handler leaves fewer attempts on their way that could start
another (`DrainInv`): at the first only those of the two memos, at the last none, and then no
start is memoised (`EmptyInv`). With a second signal `DrainInv` is false, since its handler finds
the memos taken and goes on without waiting, which is the finding of `serve_two_signals`.

In the journey, `JourneyInv` holds `ScreenShowsState` up by `renderedKey = ViewKey` outside
the help centre, `MomentInItsWait` and `NoStepUnanswered` by `RunInv`: a proof that says
"generating" is that of the current step, has the one run that is out, and no other proof
does, so nothing but its own answer can change what was answered. `OneMomentAtATime` rests
on `CadenceInv`: the time the moment on screen still needs is less than the time left on
any cue that may still play, and cues of two waits are never armed together.

`AnswersAreOwn` adds `OwnInv` to it: a proof that is out was started after the journey on screen
began, so the run that settles it is the last of its kind in this journey and its own.

Of the browser-direct ports, `LaceInv` carries for each stage the checks that must have passed
by then (`PassedInv`: everything before the stage is in `fine`), which is what makes the first
fault the first; `LocalInv` says that a call past its circuit holds what the circuit decided
for it, which no transaction of another call can change. `ToolInv` relates the wait to the work
(`WorkInv`: an attempt before its deployment has no work, one that is degraded for any reason but
`deploy_failed` has none that may land) and the screen to the attempt it is about (`RunInv`).
`BridgeInv` follows an answer home: a value on its way back to a check is the circuit's, and of an
identity check from the process whose key the check names (`AnswerInv`); a call is on the wire only
while it is asked (`TripInv`), so nothing arrives after the abort. `WaitInv`
says that the slot shows what `Progress` was at the last draw, a `Gap` ago at most (`DrawInv`), and
that the node that fades is the one before it and will be gone before the next swap (`FadeInv`),
from the assumption `Pace`: each stage is longer than a beat and a draw, and than a fade and a
draw; the code's numbers satisfy it (TLC evaluates it on them).

How far the two findings about the shared environment reach is proved too. `TakenInv` records who
takes a network to shut it down: before a teardown only a backing attempt whose deploy degraded
does, and `releasing` is never written twice. With `CustodyInv` it follows that of two networks one
is always on its way out (`OneNetworkStays`), that the identity deployment loses its network to
backing alone (`OnlyBackingTakesTheNetwork`, with `StartedInv`: what is deployed on has started), and
that until something is taken the comments are true (`CommentsHoldUntilSomethingIsTaken`): the one on the
identity deployment without a condition, the one on a single network only while no failed start has
left its network up (`NothingLeftOver`), since the next start would make two with nothing taken.

That the waits of the process make no circle is proved as well (`NobodyIsStuck`). `EveryWaitCanEnd` says
that a handler that awaits an attempt, and a signal's handler that awaits what it took, finds it
settled, or able to move, or waiting for a start or a shutdown that can; `BegunInv`, under it, says
that what is awaited has begun. `StartCanMove` and `AttemptCanMove` write out the guards of `EnvSettles` and
`AttemptProceeds`, which the prover cannot name as ENABLED. Only fairness is missing from there to
`SignalEndsProcess`, and that is TLC's.

The suites. A step of a suite is, seen through one component's variables, a step of its module or a
stutter (`PartsStep`, `ServicesStep`, `OperatorStep`), so an inductive invariant of a component is one of
the suite, and `PartsBehaveAsAlone`, `BridgeBehavesAsAlone` and `ToolBehavesAsAlone` carry what was proved
of a component alone over to it.

* `WhatIsKeptStays`: `KeptInv` says that a storage that works keeps one password, drawn while there
  was none, which sealed what is sealed and is all that a page load has been given. It needs one tab
  (`OneTab`): two tabs that find nothing each keep their own, and then what one wrote is lost, which is
  what `ReturnedIsKept` of section 6 is about. `ShellInv` says that what is in the cache, and what is
  on its way there, was a good answer, and that a worker past its install has the page; it needs no
  order of the puts.
* `HonestAnswers`, `FallbacksHaveCauses`: `ClaimInv` ties the place of a claim in `issue()` to the states its
  status check has seen and to who has signed; `AdviceInv` says that a call that
  is out has seen the model as it is, so that an answer of the table has its cause in what was seen.
* `SignaturesVerify`: `SignatureInv` says that the response is the signing equation over the one
  challenge there is for what was signed. That it verifies is then arithmetic modulo the order,
  from five lemmas on quotient and remainder (`DivMod`, `Once`, `Rest`, `ModPlus`, `DivUp`); `Agreement` shows
  that the quotient and the remainder `schnorrReduction` supplies pass the circuit's asserts, for every
  element of the field, and that the remainder is what the signer truncated to.
* `BundlesAreWhole`: `CopyInv` says what is in `web/public/zk` at each moment of a copy that nobody raced:
  what was compiled when it was planned, but for the files that are still to be copied.
* `ScriptsAreHonest`: `DemoInv` counts what has been deployed and answered by the await the script is at,
  `DemoEndInv` what its report and its exit stand for, and `MeasureInv` does both for the measurement.

Some of these theorems state what no run lists, since the proof settles it for every instance and
the runs are kept for what is not proved or is the heart of a component: `DegradedStartForgotten`,
`OneDeploymentAwaited`, `RetryKeepsTarget`, `OneStepFades`, and the types of the deployment tool and
(inside `PartsTypeOK` and `ServicesTypeOK`) of the ports, the waits and the bridge.

The proofs assume only what the modules assume: `None` is not a request, the requests are
partitioned between the ports, issuer-key requests are identity requests; in the journey,
that `none` is a tier and the lengths are in the order of `Cadence`; `StackAssumption` (the
expected network is a network), `PortAssumption` and `SessionAssumption` (calls are of one of the
two kinds), `ToolAssumption` (`None` is no attempt), `Lengths` and `Pace`; of the suites,
`PartsAssumption`, `ServicesAssumption` and `ToolsAssumption`, which are the assumptions of their
components: the bounds are numbers, a storage is in one of the modes and a site at one of the
bases the modules know, a tier is none of the words for what a model does besides answering,
and the sizes of signing are in the order of the code's (the modulus of the challenge below
the group's order, that below the field's size). TLC evaluates each on every run of a module that extends the one declaring it.

Three theorems have a hypothesis more, which is part of their statement: `OneSignalLeavesNothing`, that
there is at most one signal, and `WhatIsKeptStays` and `OnePasswordIsKept`, that there is at most one tab. Without them
the runs of section 6, or the two tabs of `ReturnedIsKept`, are counterexamples.

Every invariant and every step property of the passing runs is so proved; what is
model-checked only is liveness: `SignalEndsProcess`, `BackingRecovers`, `EachProofLives`, `MomentsGoAway`,
`OvertimeIsShown`, `EveryCallEnds`, `RetryIsDecided`, `RefreshReachesCache`, and the fairness half of the
refinements. The prover does not reach fairness or ENABLED. `NothingRunsAtExit` exempts a network that nobody has a handle on: one that refused to
stop, and one that a failed start left up. `ScriptsEndWell` exempts the network behind a wallet that would not
stop, which `latency.ts` leaves up.

## 5. What is not modelled

Logging, wording, JSON and CORS; the private-state LevelDB itself (its lock is what
`Occupies` stands for); the test seams (`options.*`), which replace steps by others of the
same shape; a port that is taken at start-up, which ends the process before it serves.
In the journey: the wording of screens, the reason of a degraded
proof (it only picks the copy), a page without the moments' host, and timers delayed by a
blocked event loop. Between a port's return and the screen the model lets anything happen,
as it does under the held stub; a real port settles at once.
`shutdownRealPorts` swallowing errors shows as `leaked`, and a failed start that leaves its network up as
`leftover`; what such a network does to the next start (ports taken, a store locked) is not modelled: a
start may fail or succeed beside it.
In the wait stages, the wall clock being set back or forward during a wait (`Date.now`).
In the service worker, the browser evicting the cache; in the store's run, a second tab, since the code does
not keep its promise for two (section 6). In signing, a witness
other than the one the repository ships, and the hash functions themselves.
In the advisor, a predictor other than the one it is built with.

Parts with no module: the tier ladder of `backing-tier.compact` (three comparisons, called by no
port); `anchoring` (a hash of two integers of fixed width, and adapters of one await without
state, called by nothing); `runIdentity.ts` (two calls in a row on the ports of `RealPorts`,
whose answers are only logged); rendering and help, which are functions from data to strings;
`smoke.mjs` and `check-runtime.mjs`, which look and print; the shell script around
`latency.ts`.

## 6. Findings

* `OneEnvironment` (src/api/src/sharedEnvironment.ts:41). shutdownSharedEnvironment clears the memo and only then waits for the network to stop (sharedEnvironment.ts:41-48), so a request in between starts a second network while the first still runs; the header says "the private-state LevelDB lock is exclusive, so a second environment in the same process would fail to open it" (src/api/src/sharedEnvironment.ts:4-6), the comment on sharedEnvironment that "two requests arriving together never start two networks" (src/api/src/sharedEnvironment.ts:19-20) and realProofPort that "there is exactly one environment" (src/api/src/realProofPort.ts:118-119). The run shows that one. There is a second way, which needs no stop at all: when the wallet fails and the clean-up after it throws too, the error is swallowed (localEnvironment.ts:119-124), the start degrades and is forgotten, and the next request starts a network beside the one that stayed up.
* `IdentityDeploymentLive` (src/api/src/realProofPort.ts:133). openDeployment shuts the shared environment down when the backing deploy degrades (realProofPort.ts:133) and leaves the identity memo in place, so identityDeployment goes on handing out a deployment whose network is gone, with no way to recover but a restart; the code says "Memoises the deployment, and only a live one: a degraded attempt clears the cache so a long-lived server can recover once Docker is actually up" (src/api/src/realIdentityPort.ts:129-130).
* `NothingRunsAtExit` (src/api/src/realProofPort.ts:165). shutdownRealPorts and, under it, shutdownSharedEnvironment take each memo before they wait on it (realProofPort.ts:165-169, sharedEnvironment.ts:41-48). Once the first signal's handler has taken the environment and is stopping its network, which takes docker seconds, the handler of a second signal finds no deployment and no environment memoised, waits for nothing and calls process.exit: the network is still up, and the wait for it is cut off. serve.ts says the handler is there to "tear the deployment down so the exclusive private-state lock is released for the next process" (src/api/src/serve.ts:50-52).
* `NoMomentOverHelp` (src/web/src/help/helpRender.ts:50). anchorToStrip looks for any .topbar in the document, and every help screen is drawn with one (help/helpRender.ts:50, 65, 89), so a cue that comes while she reads the help centre shows its popover there; the comment says "False means there is no strip on screen to hang from — the help centre, for one — and an unanchored popover would land ... over whatever she went there to read" (src/web/src/momentView.ts:82-85), and the test is named "drops the moment rather than landing it over the help centre" (src/web/test/momentView.spec.ts:205), against a fake host without a strip.

Other places where the code does less than its comments say came up in the models. Each is stated
in its module, for whoever changes that code, and TLC refutes it in a few steps when it is
given as an invariant (`NoStaleKeyServed` as a property):

* `NothingWasDeployed` (src/api/src/laceDeploy.ts:109). deploy_failed is returned when the wait is over, or when the SDK cannot read the confirmation, of a deployment that goes on and lands (laceDeploy.ts:109-115, contract.ts:68-71); the screen's title for every degraded run is 'No se desplegó nada' (src/web/src/deployScreen.ts:64), and laceDeploy.ts says of that reason "to an operator they are one thing: the deployment did not happen" (src/api/src/laceDeploy.ts:80-81). The line under the title does tell her to look first.
* `GoodForThisPageLoad` (src/web/src/identityStore.ts:59). identityStorePassword keeps nothing of what it generated, so with a storage that refuses the value the provider's next call in the same page load reads none and returns another password, under which what the first encrypted cannot be read; the comment says "Nothing to do: the password is still good for this page load" (src/web/src/identityStore.ts:63).
* `ReturnedIsKept` (src/web/src/identityStore.ts:57). two tabs that read no password each generate and set one, so the tab that set first goes on with a password nobody has stored and what it writes is unreadable after the next load; the comment says "Reads the stored password, generating and keeping one the first time" (src/web/src/identityStore.ts:43).
* `OnlyShellIsCached` (src/web/public/sw.js:44). networkFirstNavigation puts the response of any same-origin navigation under '/index.html', so a visit to another document of the site (the manifest or a licence opened in a tab) becomes the offline shell; the header says "Only the fixed SHELL_ASSETS list is ever cached" (src/web/public/sw.js:2-3).
* `ReadyMeansOffline` (src/web/public/sw.js:15). the status becomes 'instalable — funciona sin conexión' (src/web/src/pwa-status.ts:24) as soon as register() resolves, before the install; under a project base, where main.ts registers the worker so that the app does not lose its offline promise (src/web/src/main.ts:72-74), the absolute paths of SHELL_ASSETS are not the site's, addAll rejects, the worker is discarded and the status stays.
* `DownMeansSynthetic` (src/attestation/src/backing/crevaAwareBackingIssuer.ts:24). the issuer is chosen once, by the status endpoint; when the signing service is gone by the time it is asked, the claim comes back degraded, signer_unavailable (crevaCollateralSigner.ts:32-35), and the synthetic issuer is not tried; the comment says "with it down, the same claim gets a synthetic one instead, so the whole flow — backing tier included — keeps running" (src/attestation/src/backing/crevaAwareBackingIssuer.ts:4-6).
* `NoStaleKeyServed` (src/web/scripts/copy-zk-artifacts.mjs:20). with --allow-missing a plan that is not ok exits 0 before copyPlan is reached, web/public/zk is left as it was, and `dev` (src/web/package.json:7) starts Vite on keys that no longer correspond to what is compiled; the comment on copyPlan says "Replaces publicDir wholesale: a stale prover key from a previous compile is worse than none, because it fails inside the proof rather than at build" (src/web/scripts/copyZkArtifacts.mjs:74-75).
* `AnyFailureIsRed` (src/tools/harness/latency.ts:170). a failure of the clean-up is caught and logged, and since walletProvider.stop() and testEnv.shutdown() share one try the network is left up when the first throws; the report is still ok and process.exit(0) follows (latency.ts:212), while the script that runs it says "Exits non-zero on any failure" (src/tools/measure-proof-latency.sh:6).

Also noted: `serve.ts:24-28` says the issuer key is not served over HTTP, while
`proofServer.ts` serves it under `/proof/identity/issuer` and `serve.ts:33-36` explains why.
A start that throws (`StartRejects`) stays memoised, since `.then` without a rejection
handler is skipped; the process then degrades every request until it is restarted.
A deployment whose network dies later (`EnvironmentDies`) is never dropped either: `BridgeSession` has what a
page sees of both, calls that end and decide nothing wrong, and no recovery. And a start that degrades with its
network still up (`localEnvironment.ts:74-79`, `119-124`) is forgotten, so the next request starts a second one beside it.

## 7. Plan

Done: the serving process with two ports, failures and signals; the journey, its moments and the
steps of its waits; the browser-direct ports and the operator's deployments over one preflight;
the bridge client against a server that restarts; the store, the worker, the issuers, signing,
the advisor, the two measuring runs and the artifact copy. The abstract port is implemented by
all three of its implementations. Every invariant and every step property that a run checks and
expects to hold has a theorem.

What could come next, in this order:

1. `BridgeSession` composed with `Serve` itself, in place of the server it is seen as, and with it
   the steps of both refinements in one proof.
2. What `NobodyIsStuck` says of the server, of the browser-direct calls and of the bridge: that each
   wait of theirs but the proof's has a step that ends it, so that only fairness is left to TLC.
3. The tier ladder, once a port calls `proveBackingTier`.

