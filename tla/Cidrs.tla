-------------------------------- MODULE Cidrs -------------------------------
(***************************************************************************)
(* `ferroada cidrs update` (cidrs.rs): the operator's command that fetches *)
(* the address lists of the edges, shows the difference with the snapshots *)
(* on disk, writes them once they are confirmed and merges them into the   *)
(* TRUSTED_PROXIES of a .env.  The process may be killed between any two   *)
(* steps and run again; a write or a rename may fail.                      *)
(*                                                                         *)
(* A list is a set of CIDRs: order is kept by the code but means nothing.  *)
(* A provider serves its list in parts, one for each URL, and may publish  *)
(* a new one at any moment; Published counts its lists.                    *)
(***************************************************************************)
EXTENDS Integers, Sequences, Functions

CONSTANTS Edges,         \* in the order of EdgeName::all
          Urls,          \* the URLs of an edge
          List,          \* List[e][p][v]: part p of version v of edge e
          Extras,        \* what the operator wrote in TRUSTED_PROXIES himself
          Declaring,     \* the edges whose server declares the length it sends
          Torn,          \* what is left of a line that was cut short
          MaxVersion, MaxRuns

ASSUME CidrsAssumption ==
  /\ MaxVersion \in Nat \ {0} /\ MaxRuns \in Nat /\ Urls \in Nat \ {0}
  /\ Edges \in Seq(Range(Edges)) /\ IsInjective(Edges)
  /\ Declaring \subseteq Range(Edges)
  /\ \A e \in Range(Edges) : \A p \in 1..Urls, v \in 1..MaxVersion : List[e][p][v] # {}

VARIABLES version,   \* edge -> the list its provider serves now
          snapshot,  \* edge -> the file on disk
          env,       \* the TRUSTED_PROXIES of the .env
          flags,     \* of the run
          at,        \* where the run is
          fetched,   \* edge -> what the run has fetched of it
          old,       \* edge -> the snapshot it read
          todo,      \* the edges it has not fetched, or not written
          part,      \* the next URL
          runs,
          exit       \* what the last run ended with

cidrVars == <<version, snapshot, env, flags, at, fetched, old, todo, part, runs, exit>>

disk == <<snapshot, env>>

EdgeSet == Range(Edges)
NoLists == [e \in EdgeSet |-> {}]
Served(e) == UNION {List[e][p][version[e]] : p \in 1..Urls}

\* The installation: the snapshots of some version, copied into the .env by
\* `ferroada init`, beside what the operator has written there.
CidrsInit ==
  /\ version = [e \in EdgeSet |-> 1]
  /\ snapshot = [e \in EdgeSet |-> Served(e)]
  /\ env = Extras \cup UNION {snapshot[e] : e \in EdgeSet}
  /\ flags = [edges |-> <<>>, yes |-> FALSE, tty |-> FALSE, env |-> FALSE]
  /\ at = "idle" /\ fetched = NoLists /\ old = NoLists /\ todo = <<>> /\ part = 1
  /\ runs = 0
  /\ exit = "none"

Publish(e) ==
  /\ version[e] < MaxVersion
  /\ version' = [version EXCEPT ![e] = @ + 1]
  /\ UNCHANGED <<disk, flags, at, fetched, old, todo, part, runs, exit>>

-----------------------------------------------------------------------------
\* parse_args and official_jobs: one edge, or all of them.
Selections == {Edges} \cup {<<e>> : e \in EdgeSet}

Run(f) ==
  /\ at = "idle" /\ runs < MaxRuns
  /\ runs' = runs + 1
  /\ flags' = f /\ todo' = f.edges /\ part' = 1
  /\ fetched' = NoLists /\ old' = NoLists
  /\ at' = "fetch" /\ exit' = "none"
  /\ UNCHANGED <<version, disk>>

Exit(code) == at' = "idle" /\ exit' = code

Fetching(e) == at = "fetch" /\ todo # <<>> /\ Head(todo) = e

\* http_get, parse_text_body and fetch_edge for one URL.  A list that ends
\* early is found out by its declared length; without one it is taken as it is,
\* its last line too when what is left of it is still a CIDR (Torn).
GotPart(e, list) ==
  /\ fetched' = [fetched EXCEPT ![e] = @ \cup list]
  /\ IF part < Urls
     THEN part' = part + 1 /\ UNCHANGED <<todo, old>>
     ELSE /\ part' = 1 /\ todo' = Tail(todo)
          /\ old' = [old EXCEPT ![e] = snapshot[e]]
  /\ UNCHANGED <<version, disk, flags, at, runs, exit>>

GetPart(e) == Fetching(e) /\ GotPart(e, List[e][part][version[e]])

GetCut(e) == /\ Fetching(e) /\ e \notin Declaring
             /\ \E list \in SUBSET List[e][part][version[e]], line \in SUBSET {Torn} :
                  list \cup line # {} /\ GotPart(e, list \cup line)

\* No answer in time, a status that is not 200, a line that is no CIDR, an
\* empty list: the run ends before it has written anything.
GetFails(e) ==
  /\ Fetching(e)
  /\ Exit("error")
  /\ UNCHANGED <<version, disk, flags, fetched, old, todo, part, runs>>

-----------------------------------------------------------------------------
\* diff_cidrs and the confirmation.
Selected == Range(flags.edges)
Changed == {e \in Selected : fetched[e] # old[e]}

Unchanged ==
  /\ at = "fetch" /\ todo = <<>> /\ Changed = {}
  /\ Exit("ok")
  /\ UNCHANGED <<version, disk, flags, fetched, old, todo, part, runs>>

Confirm ==
  /\ at = "fetch" /\ todo = <<>> /\ Changed # {}
  /\ \/ /\ flags.yes \/ flags.tty
        /\ at' = "write" /\ todo' = flags.edges
        /\ UNCHANGED exit
     \/ ~flags.yes /\ flags.tty /\ Exit("cancelled") /\ UNCHANGED todo
     \/ ~flags.yes /\ ~flags.tty /\ Exit("error") /\ UNCHANGED todo
  /\ UNCHANGED <<version, disk, flags, fetched, old, part, runs>>

-----------------------------------------------------------------------------
merge_env_trusted ==
  (env \ UNION {old[e] : e \in Selected}) \cup UNION {fetched[e] : e \in Selected}

\* replace_file: the body goes to a temporary file beside its target, which is
\* then renamed over it.  While todo has edges the target is the snapshot of
\* the first, afterwards the .env.  A temporary file left by a run that was
\* killed is never read: fs::write truncates it.
Target == IF todo # <<>> THEN fetched[Head(todo)] ELSE merge_env_trusted

\* What is next in the loop over the edges that have changed, or after it.
Writes == IF todo # <<>> THEN Head(todo) \in Changed
          ELSE flags.env /\ merge_env_trusted # env

\* mutant: the file is written in place
WriteTmp_InPlace ==
  /\ at = "write" /\ Writes
  /\ at' = "rename"
  /\ IF todo = <<>> THEN UNCHANGED snapshot
     ELSE \E cut \in SUBSET Target : snapshot' = [snapshot EXCEPT ![Head(todo)] = cut]
  /\ UNCHANGED <<version, env, flags, fetched, old, todo, part, runs, exit>>
WriteTmp ==
  /\ at = "write" /\ Writes
  /\ at' = "rename"
  /\ UNCHANGED <<version, disk, flags, fetched, old, todo, part, runs, exit>>

RenameSnapshot ==
  /\ at = "rename" /\ todo # <<>>
  /\ snapshot' = [snapshot EXCEPT ![Head(todo)] = Target]
  /\ todo' = Tail(todo)
  /\ at' = "write"
  /\ UNCHANGED <<version, env, flags, fetched, old, part, runs, exit>>

RenameEnv ==
  /\ at = "rename" /\ todo = <<>>
  /\ env' = Target
  /\ Exit("ok")
  /\ UNCHANGED <<version, snapshot, flags, fetched, old, todo, part, runs>>

\* fs::write fails, or rename does and the temporary file is removed.
WriteFails ==
  /\ at = "rename" \/ (at = "write" /\ Writes)
  /\ Exit("error")
  /\ UNCHANGED <<version, disk, flags, fetched, old, todo, part, runs>>

\* An edge that has not changed is passed over.
SkipEdge ==
  /\ at = "write" /\ todo # <<>> /\ ~Writes
  /\ todo' = Tail(todo)
  /\ UNCHANGED <<version, disk, flags, at, fetched, old, part, runs, exit>>

\* No .env was named, or it has the lists already.
EnvUnchanged ==
  /\ at = "write" /\ todo = <<>> /\ ~Writes
  /\ Exit("ok")
  /\ UNCHANGED <<version, disk, flags, fetched, old, todo, part, runs>>

\* The process is killed.
Crash ==
  /\ at # "idle"
  /\ Exit("killed")
  /\ UNCHANGED <<version, disk, flags, fetched, old, todo, part, runs>>

CidrsNext ==
  \/ \E e \in EdgeSet : Publish(e) \/ GetPart(e) \/ GetCut(e) \/ GetFails(e)
  \/ \E f \in [edges : Selections, yes : BOOLEAN, tty : BOOLEAN, env : BOOLEAN] : Run(f)
  \/ Unchanged \/ Confirm
  \/ WriteTmp \/ RenameSnapshot \/ RenameEnv \/ WriteFails \/ SkipEdge \/ EnvUnchanged
  \/ Crash

CidrsSpec == CidrsInit /\ [][CidrsNext]_cidrVars

-----------------------------------------------------------------------------
\* The file on disk is the last known good (cidrs.rs:2, deploy/cidrs/README.md:13):
\* whatever fails or is killed when, the snapshot of a provider whose answers declare
\* their length is at every moment made of whole parts that it published, and the
\* .env keeps what the operator alone wrote and holds nothing that neither he nor a
\* provider put there. An answer without a length that breaks off is taken for the
\* whole list, so of its provider's snapshot nothing is said.
PublishedParts(e, list) ==
  \E choice \in [1..Urls -> 1..MaxVersion] :
    /\ \A p \in 1..Urls : choice[p] <= version[e]
    /\ list = UNION {List[e][p][choice[p]] : p \in 1..Urls}

\* What the fetches of an edge may bring: its lists, and a torn line.
Listed(e) == (IF e \in Declaring THEN {} ELSE {Torn})
               \cup UNION {List[e][p][v] : p \in 1..Urls, v \in 1..MaxVersion}

LastKnownGood ==
  /\ \A e \in Declaring : PublishedParts(e, snapshot[e])
  /\ Extras \ UNION {Listed(e) : e \in EdgeSet} \subseteq env
  /\ env \subseteq Extras \cup UNION {Listed(e) : e \in EdgeSet}
=============================================================================
