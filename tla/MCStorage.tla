------------------------------ MODULE MCStorage -----------------------------
(* Instances of Storage for TLC: the requests each run lets clients send.  *)
EXTENDS StorageProps, TLC

CONSTANTS f1, f2

Named(op, names) ==
    {[op |-> op, name |-> x, flags |-> {}, size |-> 0, n |-> 0] : x \in names}
Open(names, flagsets) ==
    {[op |-> "OPEN_FILE", name |-> x, flags |-> g, size |-> 0, n |-> 0] :
        x \in names, g \in flagsets}
Put(op, names, sizes) ==
    {[op |-> op, name |-> x, flags |-> {}, size |-> k, n |-> 0] : x \in names, k \in sizes}
ReadN(limits) ==
    {[op |-> "READN_FILE", name |-> NoName, flags |-> {}, size |-> 0, n |-> k] : k \in limits}
CloseConn == {NoRequest}

Two == {f1, f2}

\* Locks: everything that takes, gives up, inherits or destroys a lock.
LockRequests ==
    Open(Two, {{}, {"O_LOCK"}, {"O_CREATE"}, OpenFlags}) \union Named("LOCK_FILE", Two)
      \union Named("UNLOCK_FILE", Two) \union Named("REMOVE_FILE", Two)
      \union Named("READ_FILE", Two)
      \union ReadN({0, 1}) \union CloseConn

\* Storage: everything that adds or frees bytes.
WriteRequests ==
    Open(Two, {OpenFlags}) \union Put("WRITE_FILE", Two, {1})
      \union Put("APPEND_FILE", Two, {1}) \union Named("REMOVE_FILE", Two)
      \union Named("CLOSE_FILE", Two)

Symmetry == Permutations(Workers) \union Permutations(Conns) \union Permutations(Two)
=============================================================================
