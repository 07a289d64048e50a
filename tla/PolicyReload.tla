----------------------------- MODULE PolicyReload -----------------------------
(***************************************************************************)
(* The live policy (src/src/policy.rs) and what follows it: try_reload,    *)
(* called by the SIGHUP listener and by the dashboard's POST /api/reload,  *)
(* the version the metrics expose, and OriginPools::sync                   *)
(* (src/src/origin.rs), which every request runs and which rebuilds the    *)
(* site pools when the version has changed.                                *)
(*                                                                         *)
(* A policy is identified with its version, the digest of its content:     *)
(* restoring an old file restores its version.                             *)
(***************************************************************************)
EXTENDS Naturals, FiniteSets

CONSTANTS
  Policies,    \* contents of ferroada.toml that load
  First,       \* the one the process booted from
  Edits,       \* pairs: what an operator may replace by what
  Sites,       \* site scopes
  Balanced,    \* the sites a policy gives several origins
  Reloaders,   \* callers of try_reload
  Requests

ASSUME ReloadAssumption ==
  /\ First \in Policies /\ Edits \subseteq Policies \X Policies
  /\ Balanced \in [Policies -> SUBSET Sites]

VARIABLES
  file,      \* the policy on disk
  live,      \* PolicyStore.inner
  exposed,   \* METRICS.policy_version
  loading,   \* try_reload of each reloader: its place and the policy it loaded
  latest,    \* history: the policy the last load read
  raced,     \* history: two reloads overlapped since all were idle
  tag,       \* OriginPools.version
  sites,     \* OriginPools.sites: the policy each pool was built from
  lock,      \* who holds the mutex of `version`
  req        \* each request: its place, snapshot, site, and locals of sync

policyVars == <<file, live, exposed, loading, latest, raced>>
poolVars == <<tag, sites, lock>>
reloadVars == <<policyVars, poolVars, req>>

-----------------------------------------------------------------------------
(* try_reload. *)

\* the operator replaces the file; one that does not parse or is not signed
\* makes load fail and leaves everything as it is
Edit(p) ==
  /\ <<file, p>> \in Edits
  /\ file' = p
  /\ UNCHANGED <<live, exposed, loading, latest, raced, poolVars, req>>

ReloadersIdle == \A w \in Reloaders : loading[w].at = "idle"

\* origin.load: read, compile, verify, parse
Load(w) ==
  /\ loading[w].at = "idle"
  /\ loading' = [loading EXCEPT ![w] = [at |-> "loaded", policy |-> file]]
  /\ latest' = file
  /\ raced' = ~ReloadersIdle
  /\ UNCHANGED <<file, live, exposed, poolVars, req>>

Swap_KeepsOld(w) ==
  /\ loading[w].at = "loaded"
  /\ loading' = [loading EXCEPT ![w].at = "swapped"]
  /\ UNCHANGED <<file, live, exposed, latest, raced, poolVars, req>>

\* under the write lock of `inner`
Swap(w) ==
  /\ loading[w].at = "loaded"
  /\ live' = loading[w].policy
  /\ loading' = [loading EXCEPT ![w].at = "swapped"]
  /\ UNCHANGED <<file, exposed, latest, raced, poolVars, req>>

\* metrics::set_policy_version, after the lock is gone
Expose(w) ==
  /\ loading[w].at = "swapped"
  /\ exposed' = loading[w].policy
  /\ loading' = [loading EXCEPT ![w].at = "idle"]
  /\ UNCHANGED <<file, live, latest, raced, poolVars, req>>

Reload(w) == Load(w) \/ Swap(w) \/ Expose(w)

-----------------------------------------------------------------------------
(* A request: resolve, sync, and the pool of its site. *)

At(q, s) == req[q].at = s
Place(q, s) == req' = [req EXCEPT ![q].at = s]

\* policy.config() and resolve: the snapshot the request keeps
Resolve(q, s) ==
  /\ At(q, "idle")
  /\ s \in Balanced[live]
  /\ req' = [req EXCEPT ![q] = [@ EXCEPT !.at = "sync", !.snap = live, !.site = s]]
  /\ UNCHANGED <<policyVars, poolVars>>

\* sync: the version is read before the mutex is taken
SyncRead(q) ==
  /\ At(q, "sync")
  /\ req' = [req EXCEPT ![q] = [@ EXCEPT !.at = "lock", !.next = live]]
  /\ UNCHANGED <<policyVars, poolVars>>

SyncLock(q) ==
  /\ At(q, "lock")
  /\ lock = {}
  /\ \/ /\ tag = req[q].next
        /\ Place(q, "route")
        /\ UNCHANGED lock
     \/ /\ tag # req[q].next
        /\ lock' = {q}
        /\ Place(q, "build")
  /\ UNCHANGED <<policyVars, tag, sites>>

\* mutant: rebuild is given the request's own snapshot
SyncBuild_FromSnapshot(q) ==
  /\ At(q, "build")
  /\ req' = [req EXCEPT ![q] = [@ EXCEPT !.at = "clear", !.config = req[q].snap]]
  /\ UNCHANGED <<policyVars, poolVars>>

\* rebuild is given policy.config(), read anew, and builds the pools aside
SyncBuild(q) ==
  /\ At(q, "build")
  /\ req' = [req EXCEPT ![q] = [@ EXCEPT !.at = "clear", !.config = live]]
  /\ UNCHANGED <<policyVars, poolVars>>

\* mutant: the pools of the old policy stay
SyncClear_Keeps(q) ==
  /\ At(q, "clear")
  /\ Place(q, "insert")
  /\ UNCHANGED <<policyVars, poolVars>>

NoPools == [s \in {} |-> First]

SyncClear(q) ==
  /\ At(q, "clear")
  /\ sites' = NoPools
  /\ Place(q, "insert")
  /\ UNCHANGED <<policyVars, tag, lock>>

SyncInsert(q, s) ==
  /\ At(q, "insert")
  /\ s \in Balanced[req[q].config] \ DOMAIN sites
  /\ sites' = [x \in DOMAIN sites \cup {s} |-> IF x = s THEN req[q].config ELSE sites[x]]
  /\ UNCHANGED <<policyVars, tag, lock, req>>

SyncDone(q) ==
  /\ At(q, "insert")
  /\ Balanced[req[q].config] \subseteq DOMAIN sites
  /\ tag' = req[q].next
  /\ lock' = {}
  /\ Place(q, "route")
  /\ UNCHANGED <<policyVars, sites>>

\* has_ready and pick look the pool up: without one the request is shed
Route(q) ==
  /\ At(q, "route")
  /\ Place(q, IF req[q].site \in DOMAIN sites THEN "idle" ELSE "shed")
  /\ UNCHANGED <<policyVars, poolVars>>

Shed(q) ==
  /\ At(q, "shed")
  /\ Place(q, "idle")
  /\ UNCHANGED <<policyVars, poolVars>>

Request(q) ==
  \/ SyncRead(q) \/ SyncLock(q) \/ SyncBuild(q) \/ SyncClear(q) \/ SyncDone(q)
  \/ Route(q) \/ Shed(q)
  \/ \E s \in Sites : SyncInsert(q, s)

-----------------------------------------------------------------------------
\* boot: OriginPools::from_policy runs before anybody can reload
ReloadInit ==
  /\ file = First
  /\ live = First
  /\ exposed = First
  /\ loading = [w \in Reloaders |-> [at |-> "idle", policy |-> First]]
  /\ latest = First
  /\ raced = FALSE
  /\ tag = First
  /\ sites = [s \in Balanced[First] |-> First]
  /\ lock = {}
  /\ req \in [Requests -> [at : {"idle"}, snap : {First}, next : {First}, config : {First},
                           site : {CHOOSE s \in Sites : TRUE}]]

ReloadNext ==
  \/ \E p \in Policies : Edit(p)
  \/ \E w \in Reloaders : Reload(w)
  \/ \E q \in Requests : Request(q) \/ \E s \in Sites : Resolve(q, s)

ReloadSpec == ReloadInit /\ [][ReloadNext]_reloadVars

\* A reload and a request, once begun, run to their end; nobody has to begin one.
FairReloadSpec ==
  /\ ReloadSpec
  /\ \A w \in Reloaders : WF_reloadVars(Swap(w) \/ Expose(w))
  /\ \A q \in Requests : WF_reloadVars(Request(q))

-----------------------------------------------------------------------------
\* When no reload is under way, the live policy is the one read last, and the
\* metrics expose its version (docs/origin-gateway.md: the dashboard and Prometheus
\* expose policy_version). Two reloads that overlap are the exception: try_reload
\* takes no lock across its load, its swap and its report, so the one that read
\* first may be the last to swap, or to report.
LiveIsLatest == ReloadersIdle /\ ~raced => live = latest /\ exposed = live

\* The pools a request finds were all built from one policy, and a site without
\* a pool means a rebuild is between its clear and its last insert, or the policy
\* the pools are of does not balance that site.
Rebuilding == \E q \in Requests : At(q, "insert")
PoolsOf(p) == sites = [s \in Balanced[p] |-> p]
PoolsWhole == ~Rebuilding => \E p \in Policies : PoolsOf(p)

\* Once the policy stays, and requests keep syncing, the pools are those of the
\* live policy for good.
PoolsFollow ==
  (<>[][live' = live]_reloadVars /\ \A q \in Requests : []<>(req[q].at = "sync"))
    => <>[]PoolsOf(live)
=============================================================================
