------------------------------ MODULE Commands ------------------------------
(***************************************************************************)
(* The client program: exec/client.c, the parser of its command line, the  *)
(* two passes that turn options into requests, and the loop that sends     *)
(* them.  The second pass puts openFile and closeFile calls around the     *)
(* ones the user asked for; hold is what the client then has of each file. *)
(*                                                                         *)
(* A call is answered as module Storage allows: what the answer depends on *)
(* beyond hold (whether the file exists, who else has it) is left open.    *)
(***************************************************************************)
EXTENDS Integers, Sequences, SequencesExt, FiniteSets

CONSTANTS
    Paths,          \* absolute path names
    NoPath,         \* the stringdata of a readNFiles request: NULL
    DirFiles,       \* the regular files below the directory of -w
    CmdOptions,     \* the options a command line is made of
    MaxOptions      \* bound: options of a command line

ASSUME CommandsAssumption ==
    /\ NoPath \notin Paths
    /\ DirFiles \subseteq Paths /\ IsFiniteSet(DirFiles)
    /\ MaxOptions \in Nat

\* What parse_args makes of the command line: an option with its list, if it
\* has one.  -R is followed by a number only.
ASSUME OptionsAssumption ==
    /\ CmdOptions \subseteq [opt : STRING, paths : Seq(Paths), n : Int]
    /\ \A o \in CmdOptions : o.opt = "R" => o.paths = <<>>

VARIABLES
    phase,      \* where main is
    prec,       \* the option before this one
    given,      \* the options among -f and -p that were seen
    reqs,       \* the requests of the pass that is over
    out,        \* the requests of the pass under way
    pos,        \* the request being looked at or sent
    hold,       \* what the client has of each path on the server
    excused,    \* paths whose last opening was refused, or that were lost since
    kept        \* paths the server refused to close or remove

parservars == <<prec, given>>
sessionvars == <<hold, excused, kept>>
cmdvars == <<phase, parservars, reqs, out, pos, sessionvars>>

\* grabbed: locked by readNFiles, without the client having opened it.
Holds == {"closed", "open", "locked", "grabbed"}
Locked(p) == hold[p] \in {"locked", "grabbed"}

RequestOf ==
    [w |-> "WRITE_DIR", W |-> "WRITE", a |-> "APPEND", r |-> "READ", R |-> "READN",
     l |-> "LOCK", u |-> "UNLOCK", c |-> "REMOVE"]
Openings == {"OPEN", "OPEN_LOCK", "CREATE_LOCK"}
\* The requests of options; the others are put in by add_open_create_requests.
UserTypes == {RequestOf[o] : o \in DOMAIN RequestOf}

\* paths is the comma list of the option; dir the option that named a
\* directory for what the server sends back.
Request(type, paths, n, dir) == [type |-> type, paths |-> paths, n |-> n, dir |-> dir]
PathOf(r) == IF r.paths = <<>> THEN NoPath ELSE r.paths[1]
For(type, p) == Request(type, <<p>>, 0, "none")

----------------------------------------------------------------------------
(* parse_args: one option per step.                                        *)

ParseEnds == phase' = "end" /\ UNCHANGED <<parservars, reqs, out, pos, sessionvars>>
\* pos counts the options here.
Parsed(o) == prec' = o.opt /\ pos' = pos + 1 /\ UNCHANGED <<phase, out, sessionvars>>

\* Mutant of EndsProgram: -D and -d are not told apart.
EndsProgramSameDir(o) ==
    \/ o.opt \in {"h", "?"}
    \/ o.opt \in {"f", "p"} /\ o.opt \in given
    \/ o.opt = "t" /\ o.n < 0
    \/ o.opt \in {"D", "d"} /\ prec \notin {"w", "W", "a", "r", "R"}

\* -h ends the program with the help; a second -f or -p, a negative time, a -D
\* or -d out of place and whatever getopt does not know end it with an error.
EndsProgram(o) ==
    \/ o.opt \in {"h", "?"}
    \/ o.opt \in {"f", "p"} /\ o.opt \in given
    \/ o.opt = "t" /\ o.n < 0
    \/ o.opt = "D" /\ prec \notin {"w", "W", "a"}
    \/ o.opt = "d" /\ prec \notin {"r", "R"}

StopParsing(o) == EndsProgram(o) /\ ParseEnds

ParseSetting(o) ==
    /\ o.opt \in {"f", "p", "t"} /\ ~EndsProgram(o)
    /\ given' = given \union ({o.opt} \ {"t"})
    /\ Parsed(o)
    /\ UNCHANGED reqs

cmd_to_request(o) ==
    /\ o.opt \in DOMAIN RequestOf
    /\ reqs' = Append(reqs, Request(RequestOf[o.opt], o.paths, o.n, "none"))
    /\ Parsed(o)
    /\ UNCHANGED given

write_dir_to_last_request(o) ==
    /\ o.opt \in {"D", "d"} /\ ~EndsProgram(o)
    /\ reqs' = [reqs EXCEPT ![Len(reqs)].dir = o.opt]
    /\ Parsed(o)
    /\ UNCHANGED given

Parse ==
    /\ phase = "parse" /\ pos <= MaxOptions
    /\ \E o \in CmdOptions :
          \/ StopParsing(o)
          \/ ParseSetting(o) \/ cmd_to_request(o) \/ write_dir_to_last_request(o)

\* The options are over.  Without a socket file, or one that cannot be
\* accessed, or without requests nothing is sent.
ParseOver ==
    /\ phase = "parse"
    /\ phase' \in IF "f" \in given /\ reqs # <<>> THEN {"expand", "end"} ELSE {"end"}
    /\ pos' = 1
    /\ UNCHANGED <<parservars, reqs, out, sessionvars>>

----------------------------------------------------------------------------
(* The two passes over the requests.                                       *)

\* expand_dir_to_files: the first max files readdir comes to, all if max is 0 and
\* none if it is negative, in whatever order; fewer if a directory cannot be
\* opened.
Listings(max) ==
    LET Fits(S) == S = {} \/ max = 0 \/ Cardinality(S) <= max
    IN UNION {SetToSeqs(D) : D \in {S \in SUBSET DirFiles : Fits(S)}}

\* split_and_fix_request_files: one request for each path of the list.
Split(r) == [i \in DOMAIN r.paths |-> [r EXCEPT !.paths = <<r.paths[i]>>]]

\* Mutant of Expansions: a comma list stays one request.
ExpansionsUnsplit(r) ==
    CASE r.type = "WRITE_DIR" -> {Split(Request("WRITE", s, 0, r.dir)) : s \in Listings(r.n)}
      [] OTHER -> {<<r>>}

Expansions(r) ==
    CASE r.type = "WRITE_DIR" -> {Split(Request("WRITE", s, 0, r.dir)) : s \in Listings(r.n)}
      [] r.type = "READN" -> {<<r>>}
      [] OTHER -> {Split(r)}

\* The pass p is done with request pos, and goes on to next when it was the last.
Pass(p, next) ==
    /\ phase = p /\ pos <= Len(reqs)
    /\ IF pos < Len(reqs) THEN pos' = pos + 1 /\ UNCHANGED phase
       ELSE pos' = 1 /\ phase' = next
    /\ UNCHANGED parservars

\* The requests made by a pass replace the old ones when it is over.
Push(s) ==
    IF pos < Len(reqs) THEN out' = out \o s /\ UNCHANGED reqs
    ELSE reqs' = out \o s /\ out' = <<>>

expand_requests ==
    /\ Pass("expand", "insert")
    /\ \E s \in Expansions(reqs[pos]) : Push(s)
    /\ UNCHANGED sessionvars

Is(r, types, p) == r.type \in types /\ PathOf(r) = p

\* Mutant of Opened: a removal does not close the file.
OpenedOnce(s, p) == \E i \in DOMAIN s : Is(s[i], Openings, p)

\* Going back over requests s, an opening of p comes before a removal.
Opened(s, p) ==
    \E i \in DOMAIN s :
        /\ Is(s[i], Openings, p)
        /\ \A j \in i + 1 .. Len(s) : ~Is(s[j], {"REMOVE"}, p)

\* The request put before r, when the requests before it are s.
Opening(s, r) ==
    CASE r.type = "WRITE" -> <<For("CREATE_LOCK", PathOf(r))>>
      [] r.type = "REMOVE" -> <<For("OPEN_LOCK", PathOf(r))>>
      [] r.type \in {"READ", "LOCK", "UNLOCK", "APPEND"} /\ ~Opened(s, PathOf(r)) ->
           <<For("OPEN", PathOf(r))>>
      [] OTHER -> <<>>

\* Mutant of UsedLater: only the next request is looked at.
UsedNext(p) == pos < Len(reqs) /\ PathOf(reqs[pos + 1]) = p

UsedLater(p) == \E j \in pos + 1 .. Len(reqs) : PathOf(reqs[j]) = p

\* Mutant of ClosedAfter: an append closes nothing.
ClosedAfterRead == {"READ", "LOCK", "UNLOCK", "WRITE"}

ClosedAfter == {"READ", "LOCK", "UNLOCK", "WRITE", "APPEND"}

Closing(s, r) ==
    IF r.type \in ClosedAfter /\ ~UsedLater(PathOf(r)) /\ Opened(s, PathOf(r))
    THEN <<For("CLOSE", PathOf(r))>> ELSE <<>>

add_open_create_requests ==
    /\ Pass("insert", "connect")
    /\ LET r == reqs[pos]
           s == out \o Opening(out, r) \o <<r>>
       IN Push(Opening(out, r) \o <<r>> \o Closing(s, r))
    /\ UNCHANGED sessionvars

----------------------------------------------------------------------------
(* send_requests: one call per step.                                       *)

\* With only empty directories to send there is no request left.
Connect ==
    /\ phase = "connect" \/ (phase = "insert" /\ reqs = <<>>)
    /\ phase' \in {IF reqs = <<>> THEN "close" ELSE "send", "end"}
    /\ pos' = 1
    /\ UNCHANGED <<parservars, reqs, out, sessionvars>>

Ok(p, h) == hold' = [hold EXCEPT ![p] = h] /\ excused' = excused \ {p} /\ kept' = kept \ {p}
Refused == UNCHANGED sessionvars

\* A refused opening leaves a file the client has as it is.
OpenRefused(p) == excused' = excused \union {p} /\ UNCHANGED <<hold, kept>>

\* open_file takes a file nobody has locked; asked for the lock, also one the
\* caller has.
OpenCall(p) == IF Locked(p) THEN OpenRefused(p) ELSE Ok(p, "open") \/ OpenRefused(p)
OpenLockCall(p) == Ok(p, "locked") \/ (~Locked(p) /\ OpenRefused(p))
\* A file the client has exists, and is not created.
CreateLockCall(p) == OpenRefused(p) \/ (hold[p] = "closed" /\ Ok(p, "locked"))

\* lockFile waits for a file that somebody else has.
LockCall(p) == Ok(p, "locked") \/ (hold[p] = "closed" /\ Refused)
UnlockCall(p) == IF Locked(p) THEN Ok(p, "open") ELSE Refused

NotReleased(p) == kept' = kept \union {p} /\ UNCHANGED <<hold, excused>>
\* close_file refuses a file somebody else has locked.
CloseCall(p) == Ok(p, "closed") \/ (~Locked(p) /\ NotReleased(p))
RemoveCall(p) == IF Locked(p) THEN Ok(p, "closed") ELSE NotReleased(p)

\* do_readn_files opens each file as its locker, and closes it again only if it
\* was closed: it keeps the lock of the files it finds open.
ReadNCall ==
    /\ hold' \in [Paths -> Holds]
    /\ \A p \in Paths :
          hold'[p] \in CASE hold[p] = "open" -> {"open", "locked"}
                         [] hold[p] = "closed" -> {"closed", "grabbed"}
                         [] OTHER -> {hold[p]}
    /\ UNCHANGED <<excused, kept>>

Call(r) ==
    LET p == PathOf(r) IN
    CASE r.type = "OPEN" -> OpenCall(p)
      [] r.type = "OPEN_LOCK" -> OpenLockCall(p)
      [] r.type = "CREATE_LOCK" -> CreateLockCall(p)
      [] r.type = "LOCK" -> LockCall(p)
      [] r.type = "UNLOCK" -> UnlockCall(p)
      [] r.type = "CLOSE" -> CloseCall(p)
      [] r.type = "REMOVE" -> RemoveCall(p)
      [] r.type = "READN" -> ReadNCall
      [] r.type \in {"READ", "WRITE", "APPEND"} -> UNCHANGED sessionvars

send_requests ==
    /\ Pass("send", "close")
    /\ Call(reqs[pos])
    /\ UNCHANGED <<reqs, out>>

\* An eviction takes any file; others close or remove what is not locked.  The
\* connection may be lost, and with it all.
Lose ==
    /\ phase = "send"
    /\ \E p \in Paths :
          /\ hold[p] # "closed"
          /\ hold' = [hold EXCEPT ![p] = "closed"]
          /\ excused' = excused \union {p}
    /\ UNCHANGED <<phase, parservars, reqs, out, pos, kept>>

\* The server closes the files the client has locked, and no other.
closeConnection ==
    /\ phase = "close"
    /\ phase' = "end"
    /\ hold' = [p \in Paths |-> IF Locked(p) THEN "closed" ELSE hold[p]]
    /\ UNCHANGED <<parservars, reqs, out, pos, excused, kept>>

----------------------------------------------------------------------------
CommandsInit ==
    /\ phase = "parse" /\ prec = "none" /\ given = {}
    /\ reqs = <<>> /\ out = <<>> /\ pos = 1
    /\ hold = [p \in Paths |-> "closed"]
    /\ excused = {} /\ kept = {}

CommandsNext ==
    \/ Parse \/ ParseOver \/ expand_requests \/ add_open_create_requests
    \/ Connect \/ send_requests \/ Lose \/ closeConnection

CommandsSpec == CommandsInit /\ [][CommandsNext]_cmdvars
=============================================================================
