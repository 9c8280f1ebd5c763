------------------------------ MODULE MCEngine ------------------------------
(***************************************************************************)
(* Small instances of Engine for TLC.  A dataset of up to four shards: two *)
(* distinct contents "a" and "b", a prunable content "c", and a repetition *)
(* of "a" at position 4.                                                   *)
(***************************************************************************)
EXTENDS EngineInvariant, TLC

CONSTANTS h1, h2, h3

MCShards == 1 .. 4
MCCids == {"a", "b", "c"}
MCCid == <<"a", "b", "c", "a">>
MCHosts == {h1, h2, h3}
MCPartials == {"none", "pa", "pb", "lie"}
MCTruth == [c \in MCCids |-> CASE c = "a" -> "pa" [] c = "b" -> "pb"
                               [] OTHER -> "none"]
MCGroupsOf == [p \in MCPartials |-> CASE p = "none" -> {}
                                      [] p = "pb" -> {"g1", "g2"}
                                      [] OTHER -> {"g1"}]
MCPrunable == {"c"}
MCDeclared == [m \in {"rows", "bytes"} |->
                 [c \in MCCids |-> IF m = "rows" THEN 1 ELSE 2]]

NoLimits == [m \in {"rows", "bytes"} |-> 0]

Config(tries, window, copiesAsked, quorum, deadline) ==
  [maxAttempts |-> tries, inFlight |-> window, redundancy |-> copiesAsked,
   quorum |-> quorum, deadline |-> deadline, maxShards |-> 0, maxGroups |-> 0,
   maxScan |-> NoLimits]

JobsOver(shardLists, hosts, faulties, confs) ==
  LET First == CHOOSE r \in Rankings(hosts) : TRUE
      Ranks == {[c \in MCCids |-> IF c = "b" THEN r ELSE First] :
                  r \in Rankings(hosts)}
  IN  {[valid |-> TRUE, shards |-> S, hosts |-> hosts, faulty |-> F,
        rank |-> r, conf |-> k] :
          S \in shardLists, F \in faulties, r \in Ranks, k \in confs}

(* Every bound set below what the dataset {1, 2} needs, and exactly at it. *)
LimitJobs ==
  LET Base == Config(1, 1, 1, 0, FALSE)
      Confs == {[Base EXCEPT !.maxShards = n] : n \in {1, 2}}
        \cup {[Base EXCEPT !.maxScan["rows"] = n] : n \in {1, 2}}
        \cup {[Base EXCEPT !.maxScan["bytes"] = n] : n \in {3, 4}}
        \cup {[Base EXCEPT !.maxGroups = n] : n \in {1, 2}}
  IN  JobsOver({{1, 2}}, {h1}, {{}}, Confs)

EdgeJobs ==
  LET Base == Config(1, 1, 1, 0, FALSE)
      Usual == JobsOver({{}, {3}, {1}}, {h1}, {{}}, {Base})
      NoHosts == JobsOver({{}, {1}}, {}, {{}}, {Base})
  IN  Usual \cup NoHosts \cup {[j EXCEPT !.valid = FALSE] : j \in Usual}

(* No faulty host: attempt caps 0, 2 and 4, windows 0, 1 and 2, and up to  *)
(* three copies per shard.                                                 *)
HonestJobs ==
  EdgeJobs \cup LimitJobs \cup
  JobsOver({{1, 3}, {1, 2, 4}}, {h1, h2, h3}, {{}},
    {Config(0, 0, 0, 0, FALSE), Config(4, 2, 1, 0, TRUE),
     Config(2, 1, 2, 0, FALSE), Config(4, 2, 2, 0, FALSE),
     Config(2, 2, 3, 2, FALSE)})

(* The same system on one or two hosts.                                    *)
FewHostsJobs ==
  JobsOver({{1, 3}, {1, 2, 4}}, {h1, h2}, {{}},
    {Config(0, 0, 0, 0, FALSE), Config(2, 2, 1, 0, TRUE),
     Config(2, 1, 2, 0, TRUE), Config(1, 2, 2, 2, FALSE)})

(* One shard under every redundancy and quorum, with up to two faulty      *)
(* hosts out of three; two shards with an attempt cap below K.             *)
FaultyJobs ==
  JobsOver({{1}}, {h1, h2, h3}, {{}, {h1}, {h2}, {h1, h3}},
    {Config(3, 2, k, q, FALSE) : k \in 2 .. 3, q \in 0 .. 3})
  \cup JobsOver({{1, 2}}, {h1, h2, h3}, {{h1}, {h2}},
         {Config(2, 2, 3, 0, TRUE)})

MCJobs == HonestJobs \cup FewHostsJobs \cup FaultyJobs

=============================================================================
