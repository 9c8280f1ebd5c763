---------------------------- MODULE MCProjection ----------------------------
(***************************************************************************)
(* Small instances of Projection for TLC: content "a" holds two matching   *)
(* rows, "b" one that is equal to one of them and one that sorts first,    *)
(* "c" none; the shard list repeats "a" at its end.                        *)
(***************************************************************************)
EXTENDS Projection, TLC

CONSTANTS h1, h2

MCShards == 1 .. 4
MCCids == {"a", "b", "c"}
MCCid == <<"a", "b", "c", "a">>
MCHosts == {h1, h2}
MCRows == {"low", "mid", "high"}
MCKey == [r \in MCRows |-> CASE r = "low" -> 1 [] r = "mid" -> 2 [] OTHER -> 3]
MCMatches == [c \in MCCids |-> CASE c = "a" -> <<"high", "mid">>
                                 [] c = "b" -> <<"mid", "low">>
                                 [] OTHER -> <<>>]
MCPrunable == {"c"}
MCDeclared == [m \in {"rows", "bytes"} |->
                 [c \in MCCids |-> IF m = "rows" THEN 2 ELSE 3]]

NoScanLimits == [m \in {"rows", "bytes"} |-> 0]

Config(tries, window, deadline, cap) ==
  [maxAttempts |-> tries, inFlight |-> window, deadline |-> deadline,
   maxShards |-> 0, maxGroups |-> cap, maxScan |-> NoScanLimits]

JobsOver(shardLists, hosts, limits, orders, confs) ==
  {[valid |-> TRUE, limit |-> l, ordered |-> o, shards |-> S, hosts |-> hosts,
    rank |-> r, conf |-> k] :
      l \in limits, o \in orders, S \in shardLists,
      r \in {[c \in MCCids |-> q] : q \in Rankings(hosts)}, k \in confs}

(* Limits below, at and above the rows of one shard and of all; caps below *)
(* and at the limits; two shards of "a" and one of "b" on one host.        *)
ShapeJobs ==
  JobsOver({{1, 2, 3}, {1, 2, 4}}, {h1}, {NoLimit, 0, 1, 2, 4, 7},
           {TRUE, FALSE},
           {Config(1, w, FALSE, cap) : w \in {1, 2}, cap \in {0, 1, 3, 4}})

(* Failover and the deadline while a LIMIT may stop the run early.         *)
WalkJobs ==
  JobsOver({{1, 2, 4}}, {h1, h2}, {NoLimit, 2}, {TRUE, FALSE},
           {Config(0, 0, FALSE, 0), Config(3, 2, TRUE, 3)})

EdgeJobs ==
  LET Base == Config(1, 1, FALSE, 0)
      Usual == JobsOver({{}, {3}, {1}}, {h1}, {NoLimit}, {FALSE},
                 {Base, [Base EXCEPT !.maxShards = 1],
                  [Base EXCEPT !.maxScan["rows"] = 1],
                  [Base EXCEPT !.maxScan["bytes"] = 3]})
  IN  Usual \cup {[j EXCEPT !.valid = FALSE] : j \in Usual}
        \cup JobsOver({{}, {1}}, {}, {NoLimit}, {FALSE}, {Base})

MCJobs == ShapeJobs \cup WalkJobs \cup EdgeJobs
=============================================================================
