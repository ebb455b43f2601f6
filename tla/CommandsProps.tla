---------------------------- MODULE CommandsProps ---------------------------
(***************************************************************************)
(* What the client program promises: the calls it puts around those the    *)
(* user asked for make the user's calls work, and clean up after them.     *)
(***************************************************************************)
EXTENDS Commands

Phases == {"parse", "expand", "insert", "connect", "send", "close", "end"}
RequestTypes == UserTypes \union Openings \union {"CLOSE"}
RequestType ==
    [type : RequestTypes, paths : Seq(Paths), n : Int, dir : {"none", "D", "d"}]

\* Types, and what send_requests relies on: each request names one path, but
\* readNFiles none, and no directory is left to expand.
CommandsTypeOK ==
    /\ phase \in Phases /\ given \subseteq {"f", "p"} /\ pos \in Nat \ {0}
    /\ reqs \in Seq(RequestType) /\ out \in Seq(RequestType)
    /\ hold \in [Paths -> Holds] /\ excused \subseteq Paths /\ kept \subseteq Paths
    /\ phase = "send" => \A i \in DOMAIN reqs :
          /\ reqs[i].type # "WRITE_DIR"
          /\ Len(reqs[i].paths) = IF reqs[i].type = "READN" THEN 0 ELSE 1

\* A directory named by -D waits for evicted files and one named by -d for read
\* files, however the options are mixed (client_subcalls.c:31, 36 and 41).
DirectoryFits ==
    \A i \in DOMAIN reqs :
        /\ reqs[i].dir = "D" => reqs[i].type \in {"WRITE", "WRITE_DIR", "APPEND"}
        /\ reqs[i].dir = "d" => reqs[i].type \in {"READ", "READN"}

\* Whatever options and lists are combined, a call on a path finds it opened,
\* unless the server refused the opening or the file was lost since.
UsesOpenedFiles ==
    phase = "send" =>
        LET r == reqs[pos] IN
        r.type \notin Openings \union {"READN"}
        => hold[PathOf(r)] # "closed" \/ PathOf(r) \in excused

\* When everything is sent no file stays open by this client's doing, except
\* one the server refused to close or remove; what readNFiles locked is freed
\* with the connection, but an unlocked file left open would stay open.
NothingLeftOpen ==
    phase = "close" => \A p \in Paths : hold[p] \in {"closed", "grabbed"} \/ p \in kept

\* The program does not close a file, and with it drop the lock the user may have
\* asked for, before the last call the user asked for on that path.
HeldUntilLastUse ==
    [][phase = "send" /\ <<phase, pos>>' # <<phase, pos>> =>
        \A p \in Paths :
            \/ hold'[p] # "closed" \/ hold[p] = "closed"
            \/ Is(reqs[pos], {"REMOVE"}, p)
            \/ ~\E j \in pos + 1 .. Len(reqs) : Is(reqs[j], UserTypes, p)]_cmdvars

----------------------------------------------------------------------------
(* Why the properties hold: the inductive invariant.                       *)

\* parse_args tests prec, and changes the last request: it is prec's.
LastIsPrec ==
    phase = "parse" /\ prec \in {"w", "W", "a", "r", "R"} =>
        reqs # <<>> /\ reqs[Len(reqs)].type = RequestOf[prec]

\* An option's request, before the list is split.
Unsplit(r) == r.type \in UserTypes /\ (r.type = "READN" => r.paths = <<>>)
\* A request on one path, or readNFiles.
Single(r) == r.type # "WRITE_DIR" /\ Len(r.paths) = IF r.type = "READN" THEN 0 ELSE 1
DirectoryOf(r) ==
    /\ r.dir = "D" => r.type \in {"WRITE", "WRITE_DIR", "APPEND"}
    /\ r.dir = "d" => r.type \in {"READ", "READN"}

\* How far each list is at each phase.
ListsInv ==
    /\ phase = "parse" => out = <<>>
    /\ phase \in {"parse", "expand"} => \A i \in DOMAIN reqs : Unsplit(reqs[i])
    /\ phase = "expand" => \A i \in DOMAIN out : Single(out[i]) /\ out[i].type \in UserTypes
    /\ phase = "insert" => \A i \in DOMAIN reqs : Single(reqs[i]) /\ reqs[i].type \in UserTypes
    /\ phase = "insert" => \A i \in DOMAIN out : Single(out[i])
    /\ phase \in {"connect", "send", "close"} => \A i \in DOMAIN reqs : Single(reqs[i])
    /\ \A i \in DOMAIN out : DirectoryOf(out[i])
    /\ phase \in {"expand", "send"} \/ (phase = "insert" /\ reqs # <<>>) => pos <= Len(reqs)

\* An opening of p is in front of place i of s, and no removal since.
OpenedBefore(s, i, p) ==
    \E k \in 1 .. i - 1 :
        /\ Is(s[k], Openings, p)
        /\ \A j \in k + 1 .. i - 1 : ~Is(s[j], {"REMOVE"}, p)

\* The requests s of add_open_create_requests, when the ones that are left are
\* on the paths of more: each finds its path opened, a closing is the last on
\* its path, and behind each comes a closing or a removal.
Planned(s, more) ==
    \A i \in DOMAIN s :
        LET p == PathOf(s[i]) IN
        /\ s[i].type \notin Openings \union {"READN"} => OpenedBefore(s, i, p)
        /\ s[i].type = "CLOSE" =>
              p \notin more /\ \A j \in i + 1 .. Len(s) : PathOf(s[j]) # p
        /\ s[i].type # "READN" =>
              p \in more \/ \E j \in i .. Len(s) : Is(s[j], {"CLOSE", "REMOVE"}, p)

PathsLeft == {PathOf(reqs[j]) : j \in pos .. Len(reqs)}

PlanInv ==
    /\ phase = "insert" => Planned(out, PathsLeft)
    /\ phase \in {"connect", "send", "close"} => Planned(reqs, {})

\* What the client has of a path, by the requests that were sent and are left.
SessionInv ==
    /\ phase \notin {"send", "close", "end"} => hold = [p \in Paths |-> "closed"]
    /\ phase = "send" => \A p \in Paths :
          /\ OpenedBefore(reqs, pos, p) /\ (\A j \in 1 .. pos - 1 : ~Is(reqs[j], {"CLOSE"}, p))
             => hold[p] # "closed" \/ p \in excused
          /\ \/ hold[p] \in {"closed", "grabbed"} \/ p \in kept
             \/ \E j \in pos .. Len(reqs) : Is(reqs[j], {"CLOSE", "REMOVE"}, p)
    /\ NothingLeftOpen

CommandsInv ==
    /\ CommandsTypeOK /\ DirectoryFits
    /\ LastIsPrec /\ ListsInv /\ PlanInv /\ SessionInv
=============================================================================
