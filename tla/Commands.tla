------------------------------ MODULE Commands ------------------------------
(***************************************************************************)
(* The commands that change and read datasets (src/main.rs: dataset_cmd,   *)
(* run_cmd; src/lib.rs: register_dataset, discover_hosts), run by          *)
(* processes of their own over one catalog file and one blob store.  A     *)
(* blob is identified by its content: its id is the sequence of its rows.  *)
(* Catalog::mutate is one atomic step here, as AtomicCatalog promises, and *)
(* a query reads every shard of its dataset once, as QueryOutcome does.    *)
(* Any command may fail or be killed between two steps.                    *)
(***************************************************************************)
EXTENDS FiniteSetsExt, Subsequences

SE == INSTANCE SequencesExt

CONSTANTS
  Processes,  \* the command processes
  Commands,   \* what each of them is asked to do, a set of functions
  Rows,       \* the rows a file may hold
  Names,      \* dataset names
  MaxRuns,    \* bound: how often a command is run again after a failure
  Absent      \* marks a name without a dataset

(* Names covers every name a command mentions, and a file is a sequence of *)
(* rows.                                                                   *)
ASSUME CommandsAssumption ==
  \A c \in Commands, p \in Processes :
    /\ c[p].name.name \in Names
    /\ c[p].kind = "add" => c[p].file \in Seq(Rows) /\ c[p].shards \in Nat

VARIABLES
  asked,    \* per process: its command
  pc,       \* per process: where it stands
  todo,     \* per process: the shards that are still to be uploaded or fetched
  shards,   \* per process: the shards of the dataset it registers or reads
  runs,     \* per process: how often its command was run again
  got,      \* per process: the rows its query has read
  catalog,  \* the dataset under each name: its shards, [cid, rows]
  blobs     \* the contents in the blob store

vars == <<asked, pc, todo, shards, got, runs, catalog, blobs>>

-----------------------------------------------------------------------------
(* shard_rows: bucket b of n takes every n-th row.                         *)
Bucket(rows, n, b) ==
  [k \in 1 .. ((Len(rows) + n - b) \div n) |-> rows[b + (k - 1) * n]]
ShardRows(rows, n) == [b \in 1 .. n |-> Bucket(rows, n, b)]

(* register_dataset skips the shards without rows.                         *)
NonEmptyShards(rows, n) ==
  Kept(ShardRows(rows, n), {b \in 1 .. n : ShardRows(rows, n)[b] # <<>>})

(* validate_dataset_name trims the name it accepts; the commands that look *)
(* a dataset up take the name as it was typed.                             *)
ValidName(typed) == typed.legal

Found(typed) == ~typed.blanks /\ catalog[typed.name] # Absent

(* A dataset of the given shards.                                          *)
Shard(q) == [cid |-> q, rows |-> Len(q)]
TotalRows(ds) == SumFunctionOnSet([i \in DOMAIN ds |-> ds[i].rows], DOMAIN ds)

Goto(p, label) == pc' = [pc EXCEPT ![p] = label]

-----------------------------------------------------------------------------
(* dataset add: the file is read and split ...                             *)
ReadFile(p) ==
  LET c == asked[p] IN
  /\ pc[p] = "start" /\ c.kind = "add"
  /\ c.file # <<>> /\ ValidName(c.name) /\ c.shards > 0
  /\ todo' = [todo EXCEPT ![p] = NonEmptyShards(c.file, c.shards)]
  /\ Goto(p, "upload")
  /\ UNCHANGED <<asked, shards, got, runs, catalog, blobs>>

RefuseFile(p) ==
  LET c == asked[p] IN
  /\ pc[p] = "start" /\ c.kind = "add"
  /\ c.file = <<>> \/ ~ValidName(c.name) \/ c.shards = 0
  /\ Goto(p, "failed")
  /\ UNCHANGED <<asked, todo, shards, got, runs, catalog, blobs>>

(* ... the shards are uploaded one by one ...                              *)
Upload(p) ==
  /\ pc[p] = "upload" /\ todo[p] # <<>>
  /\ blobs' = blobs \cup {Head(todo[p])}
  /\ shards' = [shards EXCEPT ![p] = Append(@, Shard(Head(todo[p])))]
  /\ todo' = [todo EXCEPT ![p] = Tail(@)]
  /\ UNCHANGED <<asked, pc, got, runs, catalog>>

(* Fault variant: a shard that cannot be uploaded is left out.             *)
UploadFailsSkipping(p) ==
  /\ pc[p] = "upload" /\ todo[p] # <<>>
  /\ todo' = [todo EXCEPT ![p] = Tail(@)]
  /\ UNCHANGED <<asked, pc, shards, got, runs, catalog, blobs>>

(* ... an upload that fails ends the command, whether or not the node got  *)
(* the blob ...                                                            *)
UploadFails(p) ==
  /\ pc[p] = "upload" /\ todo[p] # <<>>
  /\ blobs' \in {blobs, blobs \cup {Head(todo[p])}}
  /\ Goto(p, "failed")
  /\ UNCHANGED <<asked, todo, shards, got, runs, catalog>>

(* ... and the dataset goes into the catalog when all of them are stored.  *)
Register(p) ==
  /\ pc[p] = "upload" /\ todo[p] = <<>>
  /\ catalog' = [catalog EXCEPT ![asked[p].name.name] = shards[p]]
  /\ Goto(p, "done")
  /\ UNCHANGED <<asked, todo, shards, got, runs, blobs>>

(* Fault variant: the blobs go with the entry.                             *)
RemoveDatasetAndBlobs(p) ==
  /\ pc[p] = "start" /\ asked[p].kind = "rm"
  /\ Found(asked[p].name)
  /\ catalog' = [catalog EXCEPT ![asked[p].name.name] = Absent]
  /\ blobs' = blobs \ {s.cid : s \in SE!ToSet(catalog[asked[p].name.name])}
  /\ Goto(p, "done")
  /\ UNCHANGED <<asked, todo, shards, got, runs>>

(* dataset rm: only the catalog entry goes.                                *)
RemoveDataset(p) ==
  /\ pc[p] = "start" /\ asked[p].kind = "rm"
  /\ Found(asked[p].name)
  /\ catalog' = [catalog EXCEPT ![asked[p].name.name] = Absent]
  /\ Goto(p, "done")
  /\ UNCHANGED <<asked, todo, shards, got, runs, blobs>>

(* run and show: the catalog is loaded once, without the lock.             *)
Load(p) ==
  /\ pc[p] = "start" /\ asked[p].kind \in {"run", "show"}
  /\ Found(asked[p].name)
  /\ shards' = [shards EXCEPT ![p] = catalog[asked[p].name.name]]
  /\ Goto(p, IF asked[p].kind = "show" THEN "done" ELSE "discover")
  /\ UNCHANGED <<asked, todo, got, runs, catalog, blobs>>

NotFound(p) ==
  /\ pc[p] = "start" /\ asked[p].kind # "add" /\ ~Found(asked[p].name)
  /\ Goto(p, "failed")
  /\ UNCHANGED <<asked, todo, shards, got, runs, catalog, blobs>>

(* Fault variant: shards are fetched by content id, each id once.          *)
DiscoverDistinct(p) ==
  /\ pc[p] = "discover"
  /\ \E hosts \in 0 .. 1 : Goto(p, IF hosts = 0 THEN "failed" ELSE "fetch")
  /\ todo' = [todo EXCEPT ![p] = SE!SetToSeq({s.cid : s \in SE!ToSet(shards[p])})]
  /\ UNCHANGED <<asked, shards, got, runs, catalog, blobs>>

(* discover_hosts: an atlas that cannot be read counts as an empty one,    *)
(* and without a host there is no query.                                   *)
Discover(p) ==
  /\ pc[p] = "discover"
  /\ \E hosts \in 0 .. 1 : Goto(p, IF hosts = 0 THEN "failed" ELSE "fetch")
  /\ todo' = [todo EXCEPT ![p] = [i \in DOMAIN shards[p] |-> shards[p][i].cid]]
  /\ UNCHANGED <<asked, shards, got, runs, catalog, blobs>>

(* The query: every shard is fetched from the store by its id.             *)
Fetch(p) ==
  /\ pc[p] = "fetch" /\ todo[p] # <<>>
  /\ Head(todo[p]) \in blobs
  /\ got' = [got EXCEPT ![p] = @ \o Head(todo[p])]
  /\ todo' = [todo EXCEPT ![p] = Tail(@)]
  /\ UNCHANGED <<asked, pc, shards, runs, catalog, blobs>>

Answer(p) ==
  /\ pc[p] = "fetch" /\ todo[p] = <<>>
  /\ Goto(p, "done")
  /\ UNCHANGED <<asked, todo, shards, got, runs, catalog, blobs>>

(* A command that cannot go on: the lock times out, a host is away, a blob *)
(* cannot be had, or the process is killed.                                *)
Fail(p) ==
  /\ pc[p] \notin {"done", "failed"}
  /\ Goto(p, "failed")
  /\ UNCHANGED <<asked, todo, shards, got, runs, catalog, blobs>>

(* The command is run again: a new process, with nothing but its arguments. *)
RunAgain(p) ==
  /\ pc[p] = "failed" /\ runs[p] < MaxRuns
  /\ runs' = [runs EXCEPT ![p] = @ + 1]
  /\ todo' = [todo EXCEPT ![p] = <<>>]
  /\ shards' = [shards EXCEPT ![p] = <<>>]
  /\ got' = [got EXCEPT ![p] = <<>>]
  /\ Goto(p, "start")
  /\ UNCHANGED <<asked, catalog, blobs>>

-----------------------------------------------------------------------------
Init ==
  /\ asked \in Commands
  /\ pc = [p \in Processes |-> "start"]
  /\ todo = [p \in Processes |-> <<>>]
  /\ shards = [p \in Processes |-> <<>>]
  /\ got = [p \in Processes |-> <<>>]
  /\ runs = [p \in Processes |-> 0]
  /\ catalog = [n \in Names |-> Absent]
  /\ blobs = {}

Step(p) ==
  \/ ReadFile(p) \/ RefuseFile(p) \/ Upload(p) \/ UploadFails(p) \/ Register(p)
  \/ RemoveDataset(p) \/ Load(p) \/ NotFound(p) \/ Discover(p) \/ Fetch(p) \/ Answer(p)
  \/ Fail(p) \/ RunAgain(p)

Next == \E p \in Processes : Step(p)

Spec == Init /\ [][Next]_vars

-----------------------------------------------------------------------------
(* The commands that add a dataset under name n.                           *)
Adds(n) ==
  {p \in Processes : asked[p].kind = "add" /\ asked[p].name.legal /\ asked[p].name.name = n}

(* How often a row occurs in a sequence, and in the shards of a dataset.   *)
Occurrences(q, r) == Cardinality({i \in DOMAIN q : q[i] = r})
Cells(ds) == UNION {{i} \X DOMAIN ds[i].cid : i \in DOMAIN ds}
Holds(ds, r) == Cardinality({c \in Cells(ds) : ds[c[1]].cid[c[2]] = r})

(* Whatever is registered is one file, all of it: the shards hold exactly  *)
(* the rows of a file somebody added under that name, in no more shards    *)
(* than asked for and none of them empty, and the counts are right.        *)
RegisteredIsOneFile ==
  \A n \in Names : catalog[n] # Absent =>
    \E p \in Adds(n) :
      /\ \A r \in Rows : Holds(catalog[n], r) = Occurrences(asked[p].file, r)
      /\ TotalRows(catalog[n]) = Len(asked[p].file)
      /\ Len(catalog[n]) <= asked[p].shards
      /\ \A i \in DOMAIN catalog[n] : catalog[n][i].cid # <<>>

(* The blobs of a dataset are there as long as anybody may read it: while  *)
(* it is registered and while a query that loaded it is running, whoever   *)
(* removes or replaces the dataset meanwhile.                              *)
ReadersFindTheirBlobs ==
  /\ \A n \in Names : catalog[n] # Absent =>
       \A i \in DOMAIN catalog[n] : catalog[n][i].cid \in blobs
  /\ \A p \in Processes : asked[p].kind = "run" =>
       \A i \in DOMAIN shards[p] : shards[p][i].cid \in blobs

(* A query that ends well has read one registered version of the dataset,  *)
(* every row of it once.                                                   *)
AnswersAreOneVersion ==
  \A p \in Processes : asked[p].kind = "run" /\ pc[p] = "done" =>
    \E a \in Adds(asked[p].name.name) :
      /\ pc[a] = "done"
      /\ \A r \in Rows : Occurrences(got[p], r) = Occurrences(asked[a].file, r)
=============================================================================
