------------------------------ MODULE MCClient ------------------------------
(* Instances of Client for TLC.                                             *)
EXTENDS ClientProps, MCStorage

\* Every call; a payload of 1 fills the storage of run OneWorker, one of 2 is
\* more than all of it, and one of 0 is none.
ClientRequests ==
    Open({f1}, SUBSET OpenFlags) \union Open({f2}, {OpenFlags})
      \union UNION {Named(op, {f1}) : op \in {"CLOSE_FILE", "READ_FILE", "LOCK_FILE", "UNLOCK_FILE",
                                            "REMOVE_FILE"}}
      \union Put("WRITE_FILE", {f1}, {0, 1, 2}) \union Put("WRITE_FILE", {f2}, {1})
      \union Put("APPEND_FILE", {f1}, {0, 1}) \union ReadN({0, 1}) \union CloseConn

\* The loops over the table and that of lockFile; the payload is too big for
\* the storage, so that nothing is evicted.
WaitRequests ==
    Open({f1}, {OpenFlags}) \union Named("LOCK_FILE", {f1}) \union Named("REMOVE_FILE", {f1})
      \union Put("WRITE_FILE", {f1}, {2}) \union ReadN({0}) \union CloseConn

ClientSymmetry == Permutations(Conns)
=============================================================================
