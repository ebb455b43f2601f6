----------------------------- MODULE MCCommands -----------------------------
(* Instances of Commands for TLC.                                           *)
EXTENDS CommandsProps

CONSTANTS path1, path2      \* paths

Option(opt, paths, n) == [opt |-> opt, paths |-> paths, n |-> n]

\* Every option; a list, a directory of two files, and limits to it.
AllOptions ==
    {Option(o, <<path1>>, 0) : o \in {"W", "a", "r", "l", "u", "c"}}
      \union {Option("W", <<path2, path1>>, 0), Option("r", <<path1, path2>>, 0), Option("c", <<path2>>, 0)}
      \union {Option("w", <<>>, 0), Option("w", <<>>, 1), Option("w", <<>>, -1), Option("R", <<>>, 0)}
      \union {Option(o, <<>>, 0) : o \in {"f", "p", "t", "D", "d", "h", "?"}}
      \union {Option("t", <<>>, -1)}
=============================================================================
