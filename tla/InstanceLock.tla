---------------------------- MODULE InstanceLock ----------------------------
(***************************************************************************)
(* The single-instance guard (cli/instance_lock.rs): the PID file, the     *)
(* signals acquire() sends to the process group of the PID it finds, and   *)
(* InstanceGuard's Drop; and the status socket (cli/status_server.rs) an   *)
(* instance opens once it runs, which `anonet status` connects to.  PIDs   *)
(* are reused, by `anonet run` and by unrelated processes; instances are   *)
(* launched at any time, exit cleanly, or are killed without running any   *)
(* destructor.                                                             *)
(***************************************************************************)
EXTENDS Integers, FiniteSets

CONSTANTS
    Pids,   \* process identifiers
    NoPid,  \* no PID file, or one that does not parse; no socket file
    Stale   \* a socket file nobody listens on

ASSUME PidAssumption == NoPid \notin Pids /\ Stale \notin Pids /\ NoPid # Stale

VARIABLES
    pidFile, \* contents of anonet.pid
    sock,    \* who listens on the file anonet.sock
    status,  \* where the status server of an instance is
    proc,    \* external: what runs under a PID
    leader,  \* external: whether it leads a process group of that number
    pc,      \* where an anonet instance is, for PIDs that run one
    target,  \* acquire(): the old_pid it read
    raced,   \* history: an instance was launched while another was acquiring
    late     \* history: an instance touched the socket file while leaving

socketVars == <<sock, status>>
vars == <<pidFile, socketVars, proc, leader, pc, target, raced, late>>

Acquiring == {p \in Pids : pc[p] \in {"read", "term", "waitTerm", "kill",
                                      "waitKill", "write"}}
Running == {p \in Pids : pc[p] = "running"}

-----------------------------------------------------------------------------
(* Helpers.  An operator named X_fault is X with a plausible coding error; *)
(* none is used in the specification.                                      *)

\* process_alive: /proc/<pid> exists, whoever it is.
ProcessAlive(p) == p \in Pids /\ proc[p] # "dead"

\* Where acquire() goes when the wait after SIGTERM ends.
AfterTerm_impatient(p) == "write"
AfterTerm(p) == IF ProcessAlive(target[p]) THEN "kill" ELSE "write"

Goto(p, label) == pc' = [pc EXCEPT ![p] = label]

\* The processes ds end, with their status servers; socket files stay.
Die(ds) ==
    /\ proc' = [q \in Pids |-> IF q \in ds THEN "dead" ELSE proc[q]]
    /\ status' = [q \in Pids |-> IF q \in ds THEN "unbound" ELSE status[q]]
    /\ sock' = IF sock \in ds THEN Stale ELSE sock

\* serve() unlinks the file a crashed instance may have left.
Unlinked_kept == sock
Unlinked == NoPid

\* Whom `anonet status` reaches, if anybody.
Reached == sock

-----------------------------------------------------------------------------
\* Any PID file and a socket file may be left from before.
Init ==
    /\ pidFile \in Pids \cup {NoPid}
    /\ sock \in {NoPid, Stale}
    /\ status = [p \in Pids |-> "unbound"]
    /\ proc = [p \in Pids |-> "dead"]
    /\ leader = [p \in Pids |-> FALSE]
    /\ pc = [p \in Pids |-> "none"]
    /\ target = [p \in Pids |-> NoPid]
    /\ raced = FALSE
    /\ late = FALSE

\* `anonet run` gets a free PID; under sudo or a service manager it need not
\* lead a process group.
Launch(p) ==
    /\ proc[p] = "dead"
    /\ proc' = [proc EXCEPT ![p] = "anonet"]
    /\ \E b \in BOOLEAN : leader' = [leader EXCEPT ![p] = b]
    /\ Goto(p, "read")
    /\ target' = [target EXCEPT ![p] = NoPid]
    /\ raced' = (raced \/ Acquiring # {})
    /\ UNCHANGED <<pidFile, socketVars, late>>

\* External: an unrelated process starts under a free PID, or ends.
OtherStarts(p) ==
    /\ proc[p] = "dead"
    /\ proc' = [proc EXCEPT ![p] = "other"]
    /\ \E b \in BOOLEAN : leader' = [leader EXCEPT ![p] = b]
    /\ UNCHANGED <<pidFile, socketVars, pc, target, raced, late>>

OtherEnds(p) ==
    /\ proc[p] = "other"
    /\ Die({p})
    /\ UNCHANGED <<pidFile, leader, pc, target, raced, late>>

\* Read the PID file and look whether that process is alive.
ReadPidFile(p) ==
    /\ pc[p] = "read"
    /\ target' = [target EXCEPT ![p] = pidFile]
    /\ Goto(p, IF ProcessAlive(pidFile) THEN "term" ELSE "write")
    /\ UNCHANGED <<pidFile, socketVars, proc, leader, raced, late>>

\* `kill -TERM -<pid>` reaches the group <pid> leads, if it leads one: an
\* anonet has no handler and ends without running Drop, an unrelated process
\* may survive.  The file may name the PID this very process was given.
SendTerm(p) ==
    /\ pc[p] = "term"
    /\ LET q == target[p] IN
         \/ /\ ProcessAlive(q) /\ leader[q]
            /\ Die({q})
            /\ pc' = [pc EXCEPT ![p] = "waitTerm", ![q] = "none"]
         \/ /\ ~ (ProcessAlive(q) /\ leader[q] /\ proc[q] = "anonet")
            /\ Goto(p, "waitTerm")
            /\ UNCHANGED <<proc, socketVars>>
    /\ UNCHANGED <<pidFile, leader, target, raced, late>>

\* The PID is gone, or is still there after 5 s.
WaitTerm(p) ==
    /\ pc[p] = "waitTerm"
    /\ Goto(p, AfterTerm(p))
    /\ UNCHANGED <<pidFile, socketVars, proc, leader, target, raced, late>>

\* `kill -KILL -<pid>`
SendKill(p) ==
    /\ pc[p] = "kill"
    /\ LET q == target[p] IN
         IF ProcessAlive(q) /\ leader[q]
         THEN /\ Die({q})
              /\ pc' = [pc EXCEPT ![p] = "waitKill", ![q] = "none"]
         ELSE /\ Goto(p, "waitKill")
              /\ UNCHANGED <<proc, socketVars>>
    /\ UNCHANGED <<pidFile, leader, target, raced, late>>

\* The PID is gone, or acquire() gives up: the process ends with an error and
\* leaves the PID file alone.
WaitKill(p) ==
    /\ pc[p] = "waitKill"
    /\ \/ /\ ~ ProcessAlive(target[p])
          /\ Goto(p, "write")
          /\ UNCHANGED <<proc, socketVars>>
       \/ /\ ProcessAlive(target[p])
          /\ Die({p})
          /\ Goto(p, "none")
    /\ UNCHANGED <<pidFile, leader, target, raced, late>>

WritePidFile(p) ==
    /\ pc[p] = "write"
    /\ pidFile' = p
    /\ Goto(p, "running")
    /\ UNCHANGED <<socketVars, proc, leader, target, raced, late>>

\* A clean exit: Drop removes the file, whatever it holds, and then the
\* process ends.
DropGuard(p) ==
    /\ pc[p] = "running"
    /\ pidFile' = NoPid
    /\ Goto(p, "leaving")
    /\ UNCHANGED <<socketVars, proc, leader, target, raced, late>>

Leave(p) ==
    /\ pc[p] = "leaving"
    /\ Die({p})
    /\ Goto(p, "none")
    /\ UNCHANGED <<pidFile, leader, target, raced, late>>

\* serve(), spawned at the end of startup: remove_file, then bind, which fails
\* when there is a file.  The task lives on until the process ends.
Serving(p, label) == pc[p] \in {"running", "leaving"} /\ status[p] = label

RemoveSocket(p) ==
    /\ Serving(p, "unbound")
    /\ sock' = Unlinked
    /\ status' = [status EXCEPT ![p] = "removed"]
    /\ late' = (late \/ pc[p] = "leaving")
    /\ UNCHANGED <<pidFile, proc, leader, pc, target, raced>>

BindSocket(p) ==
    /\ Serving(p, "removed")
    /\ IF sock = NoPid
       THEN /\ sock' = p
            /\ status' = [status EXCEPT ![p] = "listening"]
       ELSE /\ status' = [status EXCEPT ![p] = "failed"]
            /\ UNCHANGED sock
    /\ late' = (late \/ pc[p] = "leaving")
    /\ UNCHANGED <<pidFile, proc, leader, pc, target, raced>>

\* The instance is killed from outside; no destructor runs.
Crash(p) ==
    /\ proc[p] = "anonet"
    /\ Die({p})
    /\ Goto(p, "none")
    /\ UNCHANGED <<pidFile, leader, target, raced, late>>

InstanceStep(p) ==
    \/ ReadPidFile(p) \/ SendTerm(p) \/ WaitTerm(p) \/ SendKill(p)
    \/ WaitKill(p) \/ WritePidFile(p) \/ Leave(p)
    \/ RemoveSocket(p) \/ BindSocket(p)

Next ==
    \E p \in Pids :
        \/ Launch(p) \/ InstanceStep(p) \/ DropGuard(p) \/ Crash(p)
        \/ OtherStarts(p) \/ OtherEnds(p)

Spec == Init /\ [][Next]_vars

-----------------------------------------------------------------------------
(* Properties *)

TypeOK ==
    /\ pidFile \in Pids \cup {NoPid}
    /\ sock \in Pids \cup {NoPid, Stale}
    /\ status \in [Pids -> {"unbound", "removed", "listening", "failed"}]
    /\ proc \in [Pids -> {"dead", "anonet", "other"}]
    /\ leader \in [Pids -> BOOLEAN]
    /\ pc \in [Pids -> {"none", "read", "term", "waitTerm", "kill", "waitKill",
                        "write", "running", "leaving"}]
    /\ target \in [Pids -> Pids \cup {NoPid}]
    /\ raced \in BOOLEAN
    /\ late \in BOOLEAN

\* As long as no two instances acquire at a time, at most one is past
\* acquire() and the PID file names it, through crashes, take-overs, stale
\* files and reused PIDs.
SingleInstance ==
    ~ raced =>
        /\ \A p, q \in Running : p = q
        /\ \A p \in Running : pidFile = p

\* `anonet status` reaches the instance that runs once its status server is
\* past its bind, whatever socket files crashed or stopped instances left:
\* the bind is never refused, and no earlier instance takes the file away.
\* Excluded are races, and an instance that was still opening its socket
\* while it exited.
StatusReachesInstance ==
    ~ raced /\ ~ late =>
        \A p \in Running : status[p] \in {"listening", "failed"} => Reached = p

\* instance_lock.rs: "refuses to start a second `anonet run` on top of one
\* that's already alive": two instances never run side by side.
NeverTwo == \A p, q \in Running : p = q
=============================================================================
