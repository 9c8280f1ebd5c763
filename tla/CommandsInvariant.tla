-------------------------- MODULE CommandsInvariant --------------------------
(***************************************************************************)
(* The inductive invariant of Commands: which dataset a command works on,  *)
(* and how far it has come with it.                                        *)
(***************************************************************************)
EXTENDS Commands

(* The shards of the file that process p is asked to add, and the dataset  *)
(* they make.                                                              *)
Split(p) == NonEmptyShards(asked[p].file, asked[p].shards)
DatasetOf(p) == [i \in DOMAIN Split(p) |-> Shard(Split(p)[i])]

(* A dataset that somebody has added under name n, all of it.              *)
AddedAs(ds, n) ==
  \E a \in Adds(n) : pc[a] = "done" /\ asked[a].shards > 0 /\ ds = DatasetOf(a)

Commanded ==
  /\ asked \in Commands
  /\ DOMAIN pc = Processes /\ DOMAIN todo = Processes /\ DOMAIN shards = Processes
  /\ DOMAIN got = Processes /\ DOMAIN catalog = Names

(* The catalog holds whole datasets that were added.                       *)
CatalogIsAdded == \A n \in Names : catalog[n] # Absent => AddedAs(catalog[n], n)

(* A process starts from nothing.                                          *)
StartsEmpty(p) ==
  /\ pc[p] = "start" => shards[p] = <<>>
  /\ pc[p] \in {"start", "discover"} => got[p] = <<>>

(* An upload has stored the first shards of its file and has the others    *)
(* still to do.                                                            *)
UploadsInOrder(p) ==
  pc[p] = "upload" =>
    /\ asked[p].kind = "add" /\ asked[p].name.legal /\ asked[p].shards > 0
    /\ todo[p] \in Seq(Seq(Rows)) /\ shards[p] \in Seq([cid : Seq(Rows), rows : Nat])
    /\ Len(shards[p]) + Len(todo[p]) = Len(Split(p))
    /\ \A i \in DOMAIN shards[p] : shards[p][i] = Shard(Split(p)[i])
    /\ \A i \in DOMAIN todo[p] : todo[p][i] = Split(p)[Len(shards[p]) + i]

(* A query works on a dataset that was added, also when the catalog has    *)
(* moved on.                                                               *)
HasAVersion(p) ==
  /\ pc[p] \in {"discover", "fetch"} => asked[p].kind = "run"
  /\ asked[p].kind = "run" /\ pc[p] \in {"discover", "fetch", "done"} =>
       AddedAs(shards[p], asked[p].name.name)

(* It has read the first shards of it and has the others still to do.      *)
Fetched(p) == Len(shards[p]) - Len(todo[p])
FetchedCells(p) == {c \in Cells(shards[p]) : c[1] <= Fetched(p)}

FetchesInOrder(p) ==
  asked[p].kind = "run" /\ pc[p] \in {"fetch", "done"} =>
    /\ Fetched(p) \in Nat
    /\ todo[p] \in Seq(Seq(Rows)) /\ got[p] \in Seq(Rows)
    /\ \A i \in DOMAIN todo[p] : todo[p][i] = shards[p][Fetched(p) + i].cid
    /\ \A r \in Rows :
         Occurrences(got[p], r)
           = Cardinality({c \in FetchedCells(p) : shards[p][c[1]].cid[c[2]] = r})
    /\ pc[p] = "done" => todo[p] = <<>>

ProcessInv(p) ==
  StartsEmpty(p) /\ UploadsInOrder(p) /\ HasAVersion(p) /\ FetchesInOrder(p)

IInv ==
  /\ Commanded /\ CatalogIsAdded
  /\ \A p \in Processes : ProcessInv(p)
=============================================================================
