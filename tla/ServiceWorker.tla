--------------------------- MODULE ServiceWorker ---------------------------
(***************************************************************************)
(* The app-shell service worker (web/public/sw.js) and the page that       *)
(* registers it (web/src/main.ts, pwa-status.ts): the install that fills   *)
(* the cache, network-first navigations that refresh it without waiting,   *)
(* cache-first shell assets, and a site that is redeployed, falls over or  *)
(* is out of reach at any moment.                                          *)
(***************************************************************************)
EXTENDS Naturals

CONSTANTS
  Request,      \* requests the pages make
  Bases,        \* the bases the build may be served under: "root", "project"
  MaxVersion,   \* deployments of the site
  MaxChanges    \* how often its health changes

WorkerAssumption ==
  /\ MaxVersion \in Nat \ {0} /\ MaxChanges \in Nat
  /\ Bases \subseteq {"root", "project"}

VARIABLES
  base,     \* the base this build is served under
  site,     \* "up", "erring" (answers, but not with what was asked) or "away"
  version,  \* the version the site serves
  changes,  \* changes of its health so far
  worker,   \* the registration's worker
  status,   \* what the page says of being offline
  cache,    \* what the shell cache holds for each shell asset
  request,  \* how far each request is
  kind,     \* what it asks for
  response, \* what it was answered with
  put,      \* responses on their way into the cache, which nobody awaits
  lost      \* history: the answered requests whose write came to nothing

vars == <<base, site, version, changes, worker, status, cache, request, kind, response, put, lost>>

Asset == {"index", "manifest"}
Kind == {"page", "document", "manifest", "zk", "bundle"}
Nothing == [of |-> "nothing", version |-> 0, ok |-> FALSE]

\* A response: what it is the content of, of which deployment, and response.ok.
Response == [of : Kind \cup {"nothing"}, version : 0..MaxVersion, ok : BOOLEAN]

Init ==
  /\ base \in Bases
  /\ site = "up" /\ version = 1 /\ changes = 0
  /\ worker = "none" /\ status = "checking"
  /\ cache = [a \in Asset |-> Nothing]
  /\ request = [r \in Request |-> "idle"]
  /\ kind = [r \in Request |-> "page"]
  /\ response = [r \in Request |-> Nothing]
  /\ put = [r \in Request |-> Nothing]
  /\ lost = {}

Served(k) == [of |-> k, version |-> version, ok |-> site = "up"]

workerVars == <<worker, status>>
siteVars == <<base, site, version, changes>>
requestVars == <<request, kind, response, put, lost>>

----------------------------------------------------------------------------
\* The page registers the worker, or finds that it cannot.  The promise of
\* register() is kept once the script is there: the install has only begun.
Register ==
  /\ worker = "none" /\ status = "checking"
  /\ \/ status' = "unsupported" /\ UNCHANGED worker
     \/ site = "up" /\ status' = "ready" /\ worker' = "installing"
     \/ site # "up" /\ status' = "failed" /\ UNCHANGED worker
  /\ UNCHANGED <<siteVars, cache, requestVars>>

\* addAll takes every shell asset or none.  The list is absolute, so under a
\* project base it asks the domain root, where this site is not.
Installable == site = "up" /\ base = "root"

\* Mutation: addAll is started and not waited for.
InstallUnawaited ==
  /\ worker = "installing"
  /\ worker' = "installed"
  /\ cache' = IF Installable THEN [index |-> Served("page"), manifest |-> Served("manifest")] ELSE cache
  /\ UNCHANGED <<status, siteVars, requestVars>>

Install ==
  /\ worker = "installing"
  /\ IF Installable
     THEN /\ cache' = [index |-> Served("page"), manifest |-> Served("manifest")]
          /\ worker' = "installed"
     ELSE worker' = "redundant" /\ UNCHANGED cache
  /\ UNCHANGED <<status, siteVars, requestVars>>

\* skipWaiting has been called: nothing holds the activation back, and the
\* pages that are open are claimed.
Activate ==
  /\ worker = "installed"
  /\ worker' = "active"
  /\ UNCHANGED <<status, cache, siteVars, requestVars>>

----------------------------------------------------------------------------
\* What a page asks for: a navigation to the app or to some other document of
\* the site, a shell asset, an artifact under /zk/, the app's bundle.
Ask(r, k) ==
  /\ request[r] = "idle"
  /\ request' = [request EXCEPT ![r] = "asked"]
  /\ kind' = [kind EXCEPT ![r] = k]
  /\ UNCHANGED <<response, put, lost, siteVars, workerVars, cache>>

Answer(r, answer, kept) ==
  /\ request' = [request EXCEPT ![r] = "answered"]
  /\ response' = [response EXCEPT ![r] = answer]
  /\ put' = [put EXCEPT ![r] = kept]
  /\ UNCHANGED <<kind, lost, siteVars, workerVars, cache>>

Navigates(r) == kind[r] \in {"page", "document"}
Handled(r) == worker = "active" /\ (Navigates(r) \/ kind[r] = "manifest")

\* Mutation: response.ok is not looked at.
KeepAnyway(answer) == answer

\* What of a network response goes into the cache.
Keep(answer) == IF answer.ok THEN answer ELSE Nothing

NavigateOnline(r) ==
  /\ request[r] = "asked" /\ Handled(r) /\ Navigates(r) /\ site # "away"
  /\ Answer(r, Served(kind[r]), Keep(Served(kind[r])))

NavigateOffline(r) ==
  /\ request[r] = "asked" /\ Handled(r) /\ Navigates(r) /\ site = "away"
  /\ Answer(r, cache["index"], Nothing)

\* From the cache when it is there, otherwise from the network and kept.
ShellAsset(r) ==
  /\ request[r] = "asked" /\ Handled(r) /\ kind[r] = "manifest"
  /\ CASE cache["manifest"] # Nothing -> Answer(r, cache["manifest"], Nothing)
       [] cache["manifest"] = Nothing /\ site # "away"
            -> Answer(r, Served("manifest"), Keep(Served("manifest")))
       [] OTHER -> Answer(r, Nothing, Nothing)

\* Everything else goes to the network and is never kept.
PassThrough(r) ==
  /\ request[r] = "asked" /\ ~Handled(r)
  /\ Answer(r, IF site = "away" THEN Nothing ELSE Served(kind[r]), Nothing)

\* Mutation: a navigation is kept under its own address, not under the one the
\* fallback looks for.
PutLandsElsewhere(r) ==
  /\ put[r] # Nothing
  /\ cache' = IF Navigates(r) THEN cache ELSE [cache EXCEPT !["manifest"] = put[r]]
  /\ put' = [put EXCEPT ![r] = Nothing]
  /\ UNCHANGED <<request, kind, response, lost, siteVars, workerVars>>

\* cache.put, started and not awaited, lands in its own time...
PutLands(r) ==
  /\ put[r] # Nothing
  /\ cache' = [cache EXCEPT ![IF Navigates(r) THEN "index" ELSE "manifest"] = put[r]]
  /\ put' = [put EXCEPT ![r] = Nothing]
  /\ UNCHANGED <<request, kind, response, lost, siteVars, workerVars>>

\* ... or never: it may be rejected (the quota, a body that breaks off), and
\* nothing keeps the worker alive for it, no await and no waitUntil.
PutLost(r) ==
  /\ put[r] # Nothing
  /\ put' = [put EXCEPT ![r] = Nothing]
  /\ lost' = lost \cup {r}
  /\ UNCHANGED <<request, kind, response, cache, siteVars, workerVars>>

\* A page that has its answer may ask again.
Again(r) ==
  /\ request[r] = "answered" /\ put[r] = Nothing
  /\ request' = [request EXCEPT ![r] = "idle"]
  /\ lost' = lost \ {r}
  /\ UNCHANGED <<kind, response, put, siteVars, workerVars, cache>>

SiteChanges ==
  /\ \/ version < MaxVersion /\ version' = version + 1 /\ UNCHANGED <<site, changes>>
     \/ /\ changes < MaxChanges /\ changes' = changes + 1
        /\ site' \in {"up", "erring", "away"} \ {site}
        /\ UNCHANGED version
  /\ UNCHANGED <<base, workerVars, cache, requestVars>>

Next ==
  \/ Register \/ Install \/ Activate \/ SiteChanges
  \/ \E r \in Request :
       \/ \E k \in Kind : Ask(r, k)
       \/ NavigateOnline(r) \/ NavigateOffline(r) \/ ShellAsset(r)
       \/ PassThrough(r) \/ PutLands(r) \/ PutLost(r) \/ Again(r)

Safety == Init /\ [][Next]_vars

\* A cache write ends one way or the other; that it lands nobody promises.
Fairness == \A r \in Request : WF_vars(PutLands(r) \/ PutLost(r))

Spec == Safety /\ Fairness

----------------------------------------------------------------------------
TypeOK ==
  /\ base \in {"root", "project"} /\ site \in {"up", "erring", "away"}
  /\ version \in 1..MaxVersion /\ changes \in 0..MaxChanges
  /\ worker \in {"none", "installing", "installed", "active", "redundant"}
  /\ status \in {"checking", "unsupported", "ready", "failed"}
  /\ cache \in [Asset -> Response]
  /\ request \in [Request -> {"idle", "asked", "answered"}]
  /\ kind \in [Request -> Kind]
  /\ response \in [Request -> Response]
  /\ put \in [Request -> Response]
  /\ lost \subseteq Request

\* A worker that answers navigations has a shell to answer them with: its
\* offline fallback is never the error, whatever became of the site since.
OfflineFallback == worker = "active" => cache["index"] # Nothing

\* No failure of the site is kept: what the cache hands out later was a good
\* answer once, however the puts that nobody awaits are ordered.
NoErrorKept == \A a \in Asset : cache[a] = Nothing \/ cache[a].ok

\* A new deployment reaches the offline shell with the next navigation that
\* is online, unless an older answer was still on its way into the cache, or
\* its own write is lost: then the shell stays what it was, and nobody is told.
RefreshReachesCache ==
  \A r \in Request, v \in 1..MaxVersion :
    (/\ put[r].version = v /\ Navigates(r)
     /\ \A s \in Request \ {r} : put[s] = Nothing)
      ~> (cache["index"].version >= v \/ r \in lost)

\* "Only the fixed SHELL_ASSETS list is ever cached" (sw.js).
OnlyShellIsCached ==
  /\ cache["index"].of \in {"nothing", "page"}
  /\ cache["manifest"].of \in {"nothing", "manifest"}

\* What the status says once it is ready, "funciona sin conexión"
\* (pwa-status.ts), of an install that is over, wherever the app is served:
\* an absolute path under a project page is where "the app silently loses its
\* offline promise" (main.ts).
ReadyMeansOffline ==
  status = "ready" /\ worker # "installing" => cache["index"] # Nothing
=============================================================================
