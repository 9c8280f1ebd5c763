----------------------------- MODULE MCCommands -----------------------------
(***************************************************************************)
(* Small instances of Commands: two adds under one name, a removal and a   *)
(* query, in every interleaving.                                           *)
(***************************************************************************)
EXTENDS CommandsInvariant, TLC

MCProcesses == {"add1", "add2", "rm", "run"}
MCNames == {"a", "b"}
MCRows == {"r", "s", "t"}

Name(n) == [name |-> n, legal |-> TRUE, blanks |-> FALSE]
Add(name, file, n) == [kind |-> "add", name |-> name, file |-> file, shards |-> n]
Other(kind, name) == [kind |-> kind, name |-> name]

(* Files with repeated rows, so that two shards may be one blob; more      *)
(* shards than rows; refused adds; names with blanks around them.          *)
Case(a1, a2, rm, run) ==
  [p \in MCProcesses |-> CASE p = "add1" -> a1 [] p = "add2" -> a2
                           [] p = "rm" -> rm [] OTHER -> run]

MCCommands ==
  {Case(Add(Name("a"), <<"r", "r", "s", "s", "t">>, 3), Add(Name("a"), <<"r", "r", "s", "s">>, 2),
        Other("rm", Name("a")), Other("run", Name("a"))),
   Case(Add(Name("a"), <<"r", "r">>, 3), Add(Name("b"), <<"r", "s">>, 2),
        Other("rm", Name("a")), Other("run", Name("b"))),
   Case(Add([Name("a") EXCEPT !.blanks = TRUE], <<"r">>, 1), Add(Name("b"), <<"s">>, 0),
        Other("rm", [Name("a") EXCEPT !.blanks = TRUE]), Other("show", Name("a")))}
=============================================================================
