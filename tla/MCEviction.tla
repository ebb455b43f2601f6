----------------------------- MODULE MCEviction -----------------------------
(* Instances of Eviction for TLC.                                           *)
EXTENDS EvictionProps, MCStorage

CONSTANT f3
Three == {f1, f2, f3}

\* Everything that makes room necessary or counts as a use.
PolicyRequests ==
    Open(Three, {OpenFlags}) \union Put("WRITE_FILE", Three, {1})
      \union Put("APPEND_FILE", {f1}, {2}) \union Named("READ_FILE", {f2, f3})
=============================================================================
