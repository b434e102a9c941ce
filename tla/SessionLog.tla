------------------------------ MODULE SessionLog ------------------------------
(***************************************************************************)
(* The session log: a memory-mapped file in which every server process     *)
(* (backend) registers its client, shared with the administration command  *)
(* eyedbctl.                                                               *)
(*                                                                         *)
(* The clients form a doubly linked list threaded through the mapped file. *)
(* Backends insert and remove their entry under the mutex of the file.     *)
(* `eyedbctl status' walks the list under the mutex, `eyedbctl stop'       *)
(* without it.  One store or load of a shared word is one step, since a    *)
(* reader without the mutex can see each of them.                          *)
(***************************************************************************)
EXTENDS Integers, Sequences, FiniteSets

CONSTANTS
    Backends,   \* the server processes, one per client connection
    Tools,      \* the eyedbctl processes
    Commands,   \* the eyedbctl commands: a subset of CommandNames
    MaxCells    \* bound: entries the file has room for (CONNLOG_SIZE)

CommandNames == {"status", "stop", "stop -f"}

ASSUME SessionAssumption ==
    /\ IsFiniteSet(Backends) /\ IsFiniteSet(Tools) /\ Backends \cap Tools = {}
    /\ Commands \subseteq CommandNames
    /\ MaxCells \in Nat

Cells == 1 .. MaxCells
Null  == 0                 \* XM_NULLOFFSET, and the pid of no process
Free  == "free"            \* nobody holds the mutex
Master == "master"         \* the main server process, which accepts connections

ASSUME ProcessAssumption == {Null, Free, Master} \cap (Backends \cup Tools) = {}

VARIABLES
    up,      \* connhead->up
    first,   \* connhead->conn_first
    nconns,  \* connhead->nconns
    cell,    \* [Cells -> [next, prev, pid]]: the ClientInfo entries
    alloc,   \* the cells that XMAlloc has given out
    mutex,   \* the holder of xm_connlog->mp
    pc,      \* [Backends -> ...]: where each backend is
    info,    \* [Backends -> Cells \cup {Null}]: its conninfo
    killed,  \* the processes SIGTERM was sent to
    tool,    \* [Tools -> ...]: the eyedbctl processes
    order    \* history: the listed cells, from conn_first on

log  == <<first, nconns, cell, alloc>>
vars == <<up, first, nconns, cell, alloc, mutex, pc, info, killed, tool, order>>

BackendPc == {"start", "alloc", "a_prev", "a_first", "a_count", "a_unlock", "connected",
              "quit", "s_next", "s_prev", "s_count", "s_unlock", "refused", "gone", "dead"}

ToolPc == {"idle", "lock", "first", "nconns", "forward", "backward", "previous", "decide",
           "scan", "kill", "advance", "listed", "down", "done", "refused", "segv"}

Entry == [next : Cells \cup {Null}, prev : Cells \cup {Null}, pid : Backends \cup {Null}]

NoTool == [pc |-> "idle", cmd |-> "none", p |-> Null, n |-> 0, nb |-> 0,
           seen |-> {}, before |-> {}]

\* The log as the constructor of the server's main process leaves it.
Init ==
    /\ up = TRUE
    /\ first = Null /\ nconns = 0
    /\ cell = [c \in Cells |-> [next |-> Null, prev |-> Null, pid |-> Null]]
    /\ alloc = {}
    /\ mutex = Free
    /\ pc = [b \in Backends |-> "start"]
    /\ info = [b \in Backends |-> Null]
    /\ killed = {}
    /\ tool = [t \in Tools |-> NoTool]
    /\ order = <<>>

Listed == {order[i] : i \in 1 .. Len(order)}

\* The sequence s without its element x.
Drop(s, x) ==
    LET k == CHOOSE i \in 1 .. Len(s) : s[i] = x
    IN  [i \in 1 .. Len(s) - 1 |-> IF i < k THEN s[i] ELSE s[i + 1]]

Goto(b, from, to) == pc[b] = from /\ pc' = [pc EXCEPT ![b] = to]

-----------------------------------------------------------------------------
(* SessionLog::add, on behalf of a client that connects.                    *)

\* Mutant: an entry in use is given out again.
AllocAny(b) ==
    /\ Goto(b, "start", "alloc")
    /\ \E c \in Cells :
         /\ alloc' = alloc \cup {c}
         /\ info' = [info EXCEPT ![b] = c]
         /\ cell' = [cell EXCEPT ![c] = [next |-> Null, prev |-> Null, pid |-> b]]
    /\ UNCHANGED <<up, first, nconns, mutex, killed, tool, order>>

\* XMAlloc and the fields of the entry that only its owner sees so far.  A backend
\* does not look at `up': it may register after the main process has quit.
Alloc(b) ==
    /\ IF alloc = Cells
       THEN Goto(b, "start", "refused") /\ UNCHANGED <<cell, alloc, info>>
       ELSE /\ Goto(b, "start", "alloc")
            /\ \E c \in Cells \ alloc :
                 /\ alloc' = alloc \cup {c}
                 /\ info' = [info EXCEPT ![b] = c]
                 /\ cell' = [cell EXCEPT ![c] = [next |-> Null, prev |-> Null, pid |-> b]]
    /\ UNCHANGED <<up, first, nconns, mutex, killed, tool, order>>

AddLock(b) ==
    /\ Goto(b, "alloc", "a_prev")
    /\ mutex = Free /\ mutex' = b
    /\ cell' = [cell EXCEPT ![info[b]].next = first, ![info[b]].prev = Null]
    /\ UNCHANGED <<up, first, nconns, alloc, info, killed, tool, order>>

AddPrev(b) ==
    /\ Goto(b, "a_prev", "a_first")
    /\ cell' = IF first # Null THEN [cell EXCEPT ![first].prev = info[b]] ELSE cell
    /\ UNCHANGED <<up, first, nconns, alloc, mutex, info, killed, tool, order>>

AddFirst(b) ==
    /\ Goto(b, "a_first", "a_count")
    /\ first' = info[b]
    /\ order' = <<info[b]>> \o order
    /\ UNCHANGED <<up, nconns, cell, alloc, mutex, info, killed, tool>>

AddCount(b) ==
    /\ Goto(b, "a_count", "a_unlock")
    /\ nconns' = nconns + 1
    /\ UNCHANGED <<up, first, cell, alloc, mutex, info, killed, tool, order>>

AddUnlock(b) ==
    /\ Goto(b, "a_unlock", "connected")
    /\ mutex' = Free
    /\ UNCHANGED <<up, log, info, killed, tool, order>>

-----------------------------------------------------------------------------
(* SessionLog::suppress: the client has gone, or SIGTERM was received.      *)

Quit(b) ==
    /\ Goto(b, "connected", "quit")
    /\ UNCHANGED <<up, log, mutex, info, killed, tool, order>>

SupLock(b) ==
    /\ Goto(b, "quit", "s_next")
    /\ mutex = Free /\ mutex' = b
    /\ UNCHANGED <<up, log, info, killed, tool, order>>

SupNext(b) ==
    LET c == cell[info[b]] IN
    /\ Goto(b, "s_next", "s_prev")
    /\ cell' = IF c.next # Null THEN [cell EXCEPT ![c.next].prev = c.prev] ELSE cell
    /\ UNCHANGED <<up, first, nconns, alloc, mutex, info, killed, tool, order>>

\* Mutant: conn_first is left on the entry that goes away.
SupPrevKeepsFirst(b) ==
    LET c == cell[info[b]] IN
    /\ Goto(b, "s_prev", "s_count")
    /\ cell' = IF c.prev # Null THEN [cell EXCEPT ![c.prev].next = c.next] ELSE cell
    /\ order' = Drop(order, info[b])
    /\ UNCHANGED <<up, first, nconns, alloc, mutex, info, killed, tool>>

SupPrev(b) ==
    LET c == cell[info[b]] IN
    /\ Goto(b, "s_prev", "s_count")
    /\ IF c.prev # Null
       THEN cell' = [cell EXCEPT ![c.prev].next = c.next] /\ UNCHANGED first
       ELSE first' = c.next /\ UNCHANGED cell
    /\ order' = Drop(order, info[b])
    /\ UNCHANGED <<up, nconns, alloc, mutex, info, killed, tool>>

SupCount(b) ==
    /\ Goto(b, "s_count", "s_unlock")
    /\ nconns' = nconns - 1
    /\ UNCHANGED <<up, first, cell, alloc, mutex, info, killed, tool, order>>

\* Mutant: the mutex is not given back.
SupUnlockNever(b) ==
    /\ Goto(b, "s_unlock", "gone")
    /\ alloc' = alloc \ {info[b]}
    /\ UNCHANGED <<up, first, nconns, cell, mutex, info, killed, tool, order>>

\* The mutex is released, then XMFree gives the cell back with its contents.
SupUnlock(b) ==
    /\ Goto(b, "s_unlock", "gone")
    /\ mutex' = Free
    /\ alloc' = alloc \ {info[b]}
    /\ UNCHANGED <<up, first, nconns, cell, info, killed, tool, order>>

\* A backend that crashes while it serves its client leaves its entry behind.
Crash(b) ==
    /\ Goto(b, "connected", "dead")
    /\ UNCHANGED <<up, log, mutex, info, killed, tool, order>>

\* check_server: the process of an entry exists.
CheckServer(b) == b # Null /\ pc[b] \notin {"start", "refused", "gone", "dead"}

-----------------------------------------------------------------------------
(* eyedbctl: display(nolock = False) and stopServers.                       *)

Connected == {b \in Backends : pc[b] = "connected"}

Step(t, from, to) == tool[t].pc = from /\ tool' = [tool EXCEPT ![t] = to]

Start(t) ==
    /\ up
    /\ \E cmd \in Commands :
         Step(t, "idle", [NoTool EXCEPT !.pc = IF cmd = "status" THEN "lock" ELSE "first",
                                        !.cmd = cmd, !.before = Connected])
    /\ UNCHANGED <<up, log, mutex, pc, info, killed, order>>

\* The server may have gone down while the command waited for the mutex.
DisplayLock(t) ==
    /\ Step(t, "lock", [tool[t] EXCEPT !.pc = IF up THEN "first" ELSE "down"])
    /\ mutex = Free /\ mutex' = t
    /\ UNCHANGED <<up, log, pc, info, killed, order>>

\* get_nb_clients: conn_first and nconns are two loads.
CountFirst(t) ==
    /\ Step(t, "first", [tool[t] EXCEPT !.pc = "nconns", !.p = first])
    /\ UNCHANGED <<up, log, mutex, pc, info, killed, order>>

CountNconns(t) ==
    /\ Step(t, "nconns", [tool[t] EXCEPT !.pc = "forward", !.n = nconns - 1])
    /\ UNCHANGED <<up, log, mutex, pc, info, killed, order>>

\* Mutant: the walk to the last entry goes one too far.
ForwardOneMore(t) ==
    /\ Step(t, "forward",
            IF tool[t].n < 0 THEN [tool[t] EXCEPT !.pc = "backward"]
            ELSE IF tool[t].p = Null THEN [tool[t] EXCEPT !.pc = "segv"]
            ELSE [tool[t] EXCEPT !.p = cell[tool[t].p].next, !.n = @ - 1])
    /\ UNCHANGED <<up, log, mutex, pc, info, killed, order>>

\* One turn of the walk to the last entry; a null entry is dereferenced.
Forward(t) ==
    /\ Step(t, "forward",
            IF tool[t].n < 1 THEN [tool[t] EXCEPT !.pc = "backward"]
            ELSE IF tool[t].p = Null THEN [tool[t] EXCEPT !.pc = "segv"]
            ELSE [tool[t] EXCEPT !.p = cell[tool[t].p].next, !.n = @ - 1])
    /\ UNCHANGED <<up, log, mutex, pc, info, killed, order>>

\* One turn of the walk back to the first entry: the entry is counted if its
\* backend_pid is alive, and conn_prev is loaded next.
Backward(t) ==
    LET e == cell[tool[t].p] IN
    /\ Step(t, "backward",
            IF tool[t].p = Null THEN [tool[t] EXCEPT !.pc = "decide"]
            ELSE IF CheckServer(e.pid)
            THEN [tool[t] EXCEPT !.pc = "previous", !.nb = @ + 1, !.seen = @ \cup {tool[t].p}]
            ELSE [tool[t] EXCEPT !.pc = "previous"])
    /\ UNCHANGED <<up, log, mutex, pc, info, killed, order>>

Previous(t) ==
    /\ tool[t].p # Null
    /\ Step(t, "previous", [tool[t] EXCEPT !.pc = "backward", !.p = cell[tool[t].p].prev])
    /\ UNCHANGED <<up, log, mutex, pc, info, killed, order>>

\* status prints what it counted; stop gives up if a client is connected.
Decide(t) ==
    /\ Step(t, "decide",
            [tool[t] EXCEPT !.pc = IF tool[t].cmd = "status" THEN "listed"
                                   ELSE IF tool[t].nb > 0 /\ tool[t].cmd = "stop" THEN "refused"
                                   ELSE "scan"])
    /\ UNCHANGED <<up, log, mutex, pc, info, killed, order>>

DisplayUnlock(t) ==
    /\ tool[t].pc \in {"listed", "down"}
    /\ tool' = [tool EXCEPT ![t].pc = "done"]
    /\ mutex' = Free
    /\ UNCHANGED <<up, log, pc, info, killed, order>>

ScanFirst(t) ==
    /\ Step(t, "scan", [tool[t] EXCEPT !.pc = "kill", !.p = first])
    /\ UNCHANGED <<up, log, mutex, pc, info, killed, order>>

\* kill() of the backend of one entry, if it is alive.
KillOne(t) ==
    LET e == cell[tool[t].p] IN
    /\ tool[t].p # Null
    /\ Step(t, "kill", [tool[t] EXCEPT !.pc = "advance"])
    /\ killed' = IF CheckServer(e.pid) THEN killed \cup {e.pid} ELSE killed
    /\ UNCHANGED <<up, log, mutex, pc, info, order>>

\* Mutant: the scan does not advance.
KillNextStuck(t) ==
    /\ tool[t].p # Null
    /\ Step(t, "advance", [tool[t] EXCEPT !.pc = "kill"])
    /\ UNCHANGED <<up, log, mutex, pc, info, killed, order>>

\* The next entry is read after the kill.
KillNext(t) ==
    /\ tool[t].p # Null
    /\ Step(t, "advance", [tool[t] EXCEPT !.pc = "kill", !.p = cell[tool[t].p].next])
    /\ UNCHANGED <<up, log, mutex, pc, info, killed, order>>

\* Last, the main server process.
KillMaster(t) ==
    /\ tool[t].p = Null
    /\ Step(t, "kill", [tool[t] EXCEPT !.pc = "done"])
    /\ killed' = killed \cup {Master}
    /\ UNCHANGED <<up, log, mutex, pc, info, order>>

\* The quit handler of the main process marks the log as down (remove).
MasterQuit ==
    /\ up /\ Master \in killed
    /\ up' = FALSE
    /\ UNCHANGED <<log, mutex, pc, info, killed, tool, order>>

-----------------------------------------------------------------------------
Backend(b) == \/ Alloc(b) \/ AddLock(b) \/ AddPrev(b) \/ AddFirst(b) \/ AddCount(b) \/ AddUnlock(b)
              \/ SupLock(b) \/ SupNext(b) \/ SupPrev(b) \/ SupCount(b) \/ SupUnlock(b)

Tool(t) == \/ Start(t) \/ DisplayLock(t) \/ CountFirst(t) \/ CountNconns(t) \/ Forward(t)
           \/ Backward(t) \/ Previous(t) \/ Decide(t) \/ DisplayUnlock(t) \/ ScanFirst(t) \/ KillOne(t)
           \/ KillNext(t) \/ KillMaster(t)

Next == \/ \E b \in Backends : Backend(b) \/ Quit(b) \/ Crash(b)
        \/ \E t \in Tools : Tool(t)
        \/ MasterQuit

\* Processes that are not blocked run on; a signalled backend quits.
Fairness ==
    /\ \A b \in Backends : WF_vars(Backend(b)) /\ WF_vars(b \in killed /\ Quit(b))
    /\ \A t \in Tools : WF_vars(Tool(t))
    /\ WF_vars(MasterQuit)

Spec == Init /\ [][Next]_vars /\ Fairness

-----------------------------------------------------------------------------
\* Every variable has its type; in particular nconns is never negative.
TypeOK ==
    /\ up \in BOOLEAN
    /\ first \in Cells \cup {Null}
    /\ nconns \in Nat
    /\ cell \in [Cells -> Entry]
    /\ alloc \subseteq Cells
    /\ mutex \in Backends \cup Tools \cup {Free}
    /\ pc \in [Backends -> BackendPc]
    /\ info \in [Backends -> Cells \cup {Null}]
    /\ killed \subseteq Backends \cup {Master}
    /\ tool \in [Tools -> [pc : ToolPc, cmd : CommandNames \cup {"none"},
                           p : Cells \cup {Null}, n : Int, nb : Nat,
                           seen : SUBSET Cells, before : SUBSET Backends]]
    /\ order \in Seq(Cells)

\* Whenever no backend is inside add or suppress, conn_first, conn_next and
\* conn_prev form one doubly linked list without repetition, of nconns entries,
\* all of them allocated.
LogIsList ==
    TypeOK /\ (mutex \notin Backends =>
      /\ first = IF order = <<>> THEN Null ELSE order[1]
      /\ nconns = Len(order)
      /\ Cardinality(Listed) = Len(order)
      /\ Listed \subseteq alloc
      /\ \A i \in 1 .. Len(order) :
           /\ cell[order[i]].next = IF i = Len(order) THEN Null ELSE order[i + 1]
           /\ cell[order[i]].prev = IF i = 1 THEN Null ELSE order[i - 1])

\* A connected client is in the log, under the pid of its own backend, and no
\* two backends use the same entry.
ClientsListed ==
    /\ \A b \in Connected : info[b] \in Listed /\ cell[info[b]].pid = b
    /\ \A b1, b2 \in Connected : info[b1] = info[b2] => b1 = b2

\* `eyedbctl status', which holds the mutex, lists every client connected at
\* that moment, each once, and nobody who is not registered; it does not crash.
StatusExact ==
    \A t \in Tools : tool[t].cmd = "status" =>
      /\ tool[t].pc # "segv"
      /\ tool[t].pc = "listed" => /\ {info[b] : b \in Connected} \subseteq tool[t].seen
                                  /\ tool[t].seen \subseteq Listed
                                  /\ tool[t].nb = Cardinality(tool[t].seen)

\* `eyedbctl stop' without -f does not kill the backend of a client that was
\* connected when the command started.
StopSparesClients ==
    \A t \in Tools : tool[t].cmd = "stop" => killed \cap tool[t].before = {}

\* A backend that quits leaves the log, whoever else uses the mutex, and one that
\* was sent SIGTERM ends, even if it was still registering.
BackendsEnd ==
    \A b \in Backends : /\ pc[b] = "quit" ~> pc[b] = "gone"
                        /\ b \in killed ~> pc[b] \in {"gone", "dead"}

\* eyedbctl comes to an end, although the list changes under it.
ToolEnds ==
    \A t \in Tools : tool[t].pc # "idle" ~> tool[t].pc \in {"done", "refused", "segv"}
=============================================================================
