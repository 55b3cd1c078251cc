------------------------------ MODULE DnsShim -------------------------------
(***************************************************************************)
(* The DNS shim (leakguard/dns_shim.rs) and its controller                 *)
(* (dns_shim_controller.rs), started and stopped live by the dashboard.    *)
(* Every start() spawns a server task; the server spawns a task for every  *)
(* query, which holds the server's socket until it ends and which stop()   *)
(* does not reach.  Failovers replace the client meanwhile.  A query in    *)
(* flight is abstracted to the way handle_query treats its bytes, which is *)
(* DnsMessage's part.                                                      *)
(***************************************************************************)
EXTENDS Integers, FiniteSets, DnsMessage

CONSTANTS
    Addrs,      \* addresses the shim may be bound to
    NoAddr,     \* the address of a server not started yet
    Queries,    \* bound: queries in flight at a time
    MaxStarts,  \* bound: how often the shim is started
    MaxCores    \* bound: how many clients failovers swap in

ASSUME DnsAssumption ==
    /\ MaxStarts \in Nat
    /\ MaxCores \in Nat \ {0}

Servers == 1..MaxStarts
Cores == 1..MaxCores
Kinds == {"malformed", "other", "A", "AAAA"}
Rcodes == {"none", "noError", "servFail", "nxDomain", "notImp"}

VARIABLES
    running,  \* DnsShimController.running: the server task, 0 for None
    starts,   \* server tasks spawned so far
    addr,     \* the address each server was started with
    server,   \* where each server task is
    aborted,  \* the server tasks abort() was called on
    current,  \* the core in CoreHandle
    pc,       \* where each query's task is
    from,     \* the server whose socket a query holds
    kind,     \* what parse_query makes of it
    held,     \* the core it resolves through
    rcode,    \* the response code of its answer
    born      \* history: the current core when the query was received

controlVars == <<running, starts, addr>>
queryVars == <<pc, from, kind, held, rcode, born>>
taskVars == <<server, aborted>>
vars == <<controlVars, taskVars, current, queryVars>>

-----------------------------------------------------------------------------
(* Helpers.  An operator named X_fault is X with a plausible coding error; *)
(* none is used in the specification.                                      *)

Goto(q, label) == pc' = [pc EXCEPT ![q] = label]

\* A socket is open while the server task or one of its queries refers to it.
Open(s) == server[s] = "serving" \/ \E q \in Queries : from[q] = s

\* abort() on the server's JoinHandle: the runtime drops the task at its next
\* await, so a poll that is under way on another thread still goes on.
Abort_detached(s) == aborted
Abort(s) == aborted \cup {s}

\* The queries that end with the server task: none, each is a task of its own.
EndsWith_all(s) == {q \in Queries : from[q] = s}
EndsWith(s) == {}

\* The tasks of the queries in Q end.
Finish(Q) ==
    /\ pc' = [q \in Queries |-> IF q \in Q THEN "free" ELSE pc[q]]
    /\ from' = [q \in Queries |-> IF q \in Q THEN 0 ELSE from[q]]
    /\ kind' = [q \in Queries |-> IF q \in Q THEN "malformed" ELSE kind[q]]
    /\ held' = [q \in Queries |-> IF q \in Q THEN 0 ELSE held[q]]
    /\ rcode' = [q \in Queries |-> IF q \in Q THEN "none" ELSE rcode[q]]
    /\ born' = [q \in Queries |-> IF q \in Q THEN 0 ELSE born[q]]

\* handle_query asks CoreHandle, not the client the shim was started with.
ClientFor_atStart(q) == 1
ClientFor(q) == current

\* How handle_query goes on with a datagram.
KindOf(d) ==
    LET query == ParseQuery(d)
    IN  IF query = NoQuery THEN "malformed"
        ELSE IF query.qtype = QTYPE_A THEN "A"
        ELSE IF query.qtype = QTYPE_AAAA THEN "AAAA"
        ELSE "other"

KindsReceived == {KindOf(d) : d \in Datagrams}

\* The response codes of a query of kind k, over what its name resolves to.
RcodesResolved(k) ==
    LET query == [NoQuery EXCEPT !.qtype = IF k = "A" THEN QTYPE_A ELSE QTYPE_AAAA]
    IN  {Resolved(query, ips).rcode : ips \in SUBSET (Addrs4 \cup Addrs6)}

-----------------------------------------------------------------------------
Init ==
    /\ running = 0
    /\ starts = 0
    /\ addr = [s \in Servers |-> NoAddr]
    /\ server = [s \in Servers |-> "none"]
    /\ aborted = {}
    /\ current = 1
    /\ pc = [q \in Queries |-> "free"]
    /\ from = [q \in Queries |-> 0]
    /\ kind = [q \in Queries |-> "malformed"]
    /\ held = [q \in Queries |-> 0]
    /\ rcode = [q \in Queries |-> "none"]
    /\ born = [q \in Queries |-> 0]

\* `n` and an address, or --dns-shim: refused while one is running; the task
\* is stored before it has bound its socket.
Start(a) ==
    /\ running = 0
    /\ starts < MaxStarts
    /\ starts' = starts + 1
    /\ running' = starts'
    /\ addr' = [addr EXCEPT ![starts'] = a]
    /\ server' = [server EXCEPT ![starts'] = "starting"]
    /\ UNCHANGED <<aborted, current, queryVars>>

\* `n` while one is running.
Stop ==
    /\ running # 0
    /\ aborted' = Abort(running)
    /\ running' = 0
    /\ UNCHANGED <<starts, addr, server, current, queryVars>>

\* UdpSocket::bind: refused if the address is in use, by an earlier server or
\* by another program.
Bind(s) ==
    /\ server[s] = "starting"
    /\ \/ /\ \A r \in Servers : Open(r) => addr[r] # addr[s]
          /\ server' = [server EXCEPT ![s] = "serving"]
       \/ server' = [server EXCEPT ![s] = "ended"]
    /\ UNCHANGED <<controlVars, aborted, current, queryVars>>

EndServer(s) ==
    /\ server' = [server EXCEPT ![s] = "ended"]
    /\ Finish(EndsWith(s))
    /\ UNCHANGED <<controlVars, aborted, current>>

\* recv_from fails, and with it run().
ReceiveError(s) == server[s] = "serving" /\ EndServer(s)

\* The runtime drops an aborted task.
DropTask(s) ==
    /\ s \in aborted
    /\ server[s] \in {"starting", "serving"}
    /\ EndServer(s)

Receive(s, q) ==
    /\ server[s] = "serving"
    /\ pc[q] = "free"
    /\ \E k \in KindsReceived : kind' = [kind EXCEPT ![q] = k]
    /\ from' = [from EXCEPT ![q] = s]
    /\ born' = [born EXCEPT ![q] = current]
    /\ Goto(q, "parse")
    /\ UNCHANGED <<controlVars, taskVars, current, held, rcode>>

\* A malformed query is dropped, one of another type refused.
Parse(q) ==
    /\ pc[q] = "parse"
    /\ \/ /\ kind[q] = "malformed"
          /\ Finish({q})
       \/ /\ kind[q] = "other"
          /\ rcode' = [rcode EXCEPT ![q] = "notImp"]
          /\ Goto(q, "send")
          /\ UNCHANGED <<from, kind, held, born>>
       \/ /\ kind[q] \in {"A", "AAAA"}
          /\ Goto(q, "current")
          /\ UNCHANGED <<from, kind, held, rcode, born>>
    /\ UNCHANGED <<controlVars, taskVars, current>>

CloneCore(q) ==
    /\ pc[q] = "current"
    /\ held' = [held EXCEPT ![q] = ClientFor(q)]
    /\ Goto(q, "resolve")
    /\ UNCHANGED <<controlVars, taskVars, current, from, kind, rcode, born>>

\* The exit relay's answer, or an error.
Resolve(q) ==
    /\ pc[q] = "resolve"
    /\ \E r \in RcodesResolved(kind[q]) \cup {"servFail"} :
            rcode' = [rcode EXCEPT ![q] = r]
    /\ Goto(q, "send")
    /\ UNCHANGED <<controlVars, taskVars, current, from, kind, held, born>>

\* send_to, whose error ends the task too.
Send(q) ==
    /\ pc[q] = "send"
    /\ Finish({q})
    /\ UNCHANGED <<controlVars, taskVars, current>>

\* CoreHandle::replace by a failover; see BridgeFailover.
ReplaceCore ==
    /\ current < MaxCores
    /\ current' = current + 1
    /\ UNCHANGED <<controlVars, taskVars, queryVars>>

ServerStep(s) == Bind(s) \/ ReceiveError(s) \/ DropTask(s)
QueryStep(q) == Parse(q) \/ CloneCore(q) \/ Resolve(q) \/ Send(q)

Next ==
    \/ Stop \/ ReplaceCore
    \/ \E a \in Addrs : Start(a)
    \/ \E s \in Servers : ServerStep(s) \/ \E q \in Queries : Receive(s, q)
    \/ \E q \in Queries : QueryStep(q)

\* The runtime polls every task and drops an aborted one; that resolve
\* returns is arti's part.  A serving task need not fail.
Fairness ==
    /\ \A s \in Servers : WF_vars(Bind(s))
                          /\ WF_vars(DropTask(s))
    /\ \A q \in Queries : WF_vars(QueryStep(q))

Spec == Init /\ [][Next]_vars

FairSpec == Spec /\ Fairness

-----------------------------------------------------------------------------
(* Properties *)

TypeOK ==
    /\ running \in 0..starts
    /\ starts \in 0..MaxStarts
    /\ addr \in [Servers -> Addrs \cup {NoAddr}]
    /\ server \in [Servers -> {"none", "starting", "serving", "ended"}]
    /\ aborted \subseteq 1..starts
    /\ current \in Cores
    /\ pc \in [Queries -> {"free", "parse", "current", "resolve", "send"}]
    /\ from \in [Queries -> Servers \cup {0}]
    /\ kind \in [Queries -> Kinds]
    /\ held \in [Queries -> Cores \cup {0}]
    /\ rcode \in [Queries -> Rcodes]
    /\ born \in [Queries -> Cores \cup {0}]

\* However starts, stops and failed binds follow one another, there is never a
\* server left running that the controller could not stop any more.
OneShim ==
    \A s \in Servers \ aborted :
        server[s] \in {"starting", "serving"} => running = s

\* parse_query accepts every question, whatever follows it, and nothing else:
\* of any datagram it accepts, truncated at any byte, with a compressed name,
\* with several questions or of another class, the bytes the answer echoes are
\* the question it begins with.  The name looked up is the one echoed if its
\* labels are plain: no two such names are looked up as the same.  A label with
\* a dot, or that is no UTF-8, is looked up under a name others may have too.
\* Datagrams are the same at any time, so this is looked at before the first
\* start.
ParsesQuestions ==
    starts = 0 => QuestionsRead /\ NothingElseRead /\ NamesApart

\* A query received after a failover is never resolved through a client that
\* was replaced before: no name goes out through a bridge that was left.
FreshClient ==
    \A q \in Queries :
        pc[q] \in {"resolve", "send"} /\ kind[q] # "other" => held[q] >= born[q]

\* A query of a known type that was received is answered even if the shim is
\* stopped, or fails, while it is in flight.
Answered ==
    \A q \in Queries : pc[q] = "parse" /\ kind[q] \in {"A", "AAAA", "other"}
                         ~> pc[q] = "send"

\* A server the controller has let go of releases its address in the end, so
\* that the shim can be started there again.
Released ==
    \A s \in Servers : s <= starts /\ running # s ~> ~ Open(s)
=============================================================================
