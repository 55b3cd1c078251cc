------------------------------- MODULE Socks --------------------------------
(***************************************************************************)
(* The SOCKS5 front end (socks/server.rs) with the leak policy             *)
(* (leakguard/policy.rs), the CoreHandle and the isolation policy of each  *)
(* AnonCore (core/lib.rs), and the connection counters of the telemetry.   *)
(* Every accepted connection is a task of its own; a client may disconnect *)
(* at any read or write, and a failover may replace the core at any time.  *)
(***************************************************************************)
EXTENDS Isolation, FiniteSets

CONSTANTS
    Sessions,       \* bound: connections open at a time
    Usernames,      \* SOCKS5 usernames clients send
    EmptyName,      \* the username of length zero
    Default,        \* DEFAULT_ISOLATION
    AllowRawIp,     \* LeakPolicy.allow_raw_ip
    MaxCores,       \* bound: how many clients failovers swap in
    MaxConnections  \* bound: connections accepted in a behaviour

ASSUME SocksAssumption ==
    /\ Identities = (Usernames \ {EmptyName}) \cup {Default}
    /\ Cores = 1..MaxCores
    /\ AllowRawIp \in BOOLEAN
    /\ MaxCores \in Nat \ {0}
    /\ MaxConnections \in Nat
    /\ Default # EmptyName
    /\ IsFiniteSet(Sessions)

VARIABLES
    serving, \* the accept loop of serve() runs
    current, \* the core in CoreHandle
    pc,      \* where each session's task is
    ident,   \* its isolation identity
    held,    \* the core it cloned from CoreHandle
    token,   \* the token its stream was opened with, 0 before
    reply,   \* the SOCKS5 reply it was sent
    active, total \* HealthStatus.socks_connections_active and _total

sessionVars == <<pc, ident, held, token, reply>>
vars == <<isolationVars, serving, current, sessionVars, active, total>>

-----------------------------------------------------------------------------
(* Helpers.  An operator named X_fault is X with a plausible coding error; *)
(* none is used in the specification.                                      *)

Goto(s, label) == pc' = [pc EXCEPT ![s] = label]

\* handle_conn returned, with or without an error.
Leave_uncounted == "free"
Leave == "close"

\* read_userpass_identity: an empty username means the default bucket.
IdentityOf(u) == IF u = EmptyName THEN Default ELSE u

\* LeakPolicy::check
Allowed(kind) == kind = "host" \/ (kind = "ip" /\ AllowRawIp)

\* handle_conn opens the stream on the core it cloned.
CoreUsed_current(s) == current
CoreUsed(s) == held[s]

-----------------------------------------------------------------------------
Init ==
    /\ IsolationInit
    /\ serving = TRUE
    /\ current = 1
    /\ pc = [s \in Sessions |-> "free"]
    /\ ident = [s \in Sessions |-> Default]
    /\ held = [s \in Sessions |-> 0]
    /\ token = [s \in Sessions |-> 0]
    /\ reply = [s \in Sessions |-> "none"]
    /\ active = 0
    /\ total = 0

\* serve: accept, spawn, connection_opened.
Accept(s) ==
    /\ serving
    /\ pc[s] = "free"
    /\ total < MaxConnections
    /\ total' = total + 1
    /\ active' = active + 1
    /\ Goto(s, "method")
    /\ ident' = [ident EXCEPT ![s] = Default]
    /\ held' = [held EXCEPT ![s] = 0]
    /\ token' = [token EXCEPT ![s] = 0]
    /\ reply' = [reply EXCEPT ![s] = "none"]
    /\ UNCHANGED <<isolationVars, serving, current>>

\* accept() returns an error: serve() returns and is not started again; the
\* sessions are tasks of their own and go on.
AcceptFails ==
    /\ serving
    /\ serving' = FALSE
    /\ UNCHANGED <<isolationVars, current, sessionVars, active, total>>

\* negotiate_method: username/password wins over no authentication.
Negotiate(s) ==
    /\ pc[s] = "method"
    /\ \E methods \in SUBSET {"noAuth", "userPass"} :
         Goto(s, CASE "userPass" \in methods -> "auth"
                   [] methods = {"noAuth"} -> "request"
                   [] OTHER -> Leave)
    /\ UNCHANGED <<isolationVars, serving, current, ident, held, token, reply,
                   active, total>>

\* read_userpass_identity; the password is read and ignored.
Authenticate(s) ==
    /\ pc[s] = "auth"
    /\ \E u \in Usernames : ident' = [ident EXCEPT ![s] = IdentityOf(u)]
    /\ Goto(s, "request")
    /\ UNCHANGED <<isolationVars, serving, current, held, token, reply, active,
                   total>>

\* read_connect_request and the policy check.  A refusal is answered.
ReadRequest(s) ==
    /\ pc[s] = "request"
    /\ \E cmd \in {"connect", "other"}, kind \in {"host", "ip", "other"} :
         \/ /\ cmd # "connect"
            /\ reply' = [reply EXCEPT ![s] = "cmdNotSupported"]
            /\ Goto(s, Leave)
         \/ /\ cmd = "connect" /\ kind = "other"
            /\ reply' = [reply EXCEPT ![s] = "atypNotSupported"]
            /\ Goto(s, Leave)
         \/ /\ cmd = "connect" /\ kind # "other" /\ ~ Allowed(kind)
            /\ reply' = [reply EXCEPT ![s] = "notAllowed"]
            /\ Goto(s, Leave)
         \/ /\ cmd = "connect" /\ kind # "other" /\ Allowed(kind)
            /\ Goto(s, "current")
            /\ UNCHANGED reply
    /\ UNCHANGED <<isolationVars, serving, current, ident, held, token, active,
                   total>>

\* core.current(): a clone of the Arc, under the read lock.
CloneCore(s) ==
    /\ pc[s] = "current"
    /\ held' = [held EXCEPT ![s] = current]
    /\ Goto(s, "token")
    /\ UNCHANGED <<isolationVars, serving, current, ident, token, reply, active,
                   total>>

\* connect_isolated, up to the request to arti.
ConnectIsolated(s) ==
    /\ pc[s] = "token"
    /\ token' = [token EXCEPT ![s] = Token(CoreUsed(s), ident[s])]
    /\ token_for(CoreUsed(s), ident[s])
    /\ Goto(s, "connect")
    /\ UNCHANGED <<serving, current, ident, held, reply, active, total>>

\* arti's answer, and the reply to the client.
Connected(s) ==
    /\ pc[s] = "connect"
    /\ \/ /\ reply' = [reply EXCEPT ![s] = "success"]
          /\ Goto(s, "splice")
       \/ /\ reply' = [reply EXCEPT ![s] = "generalFailure"]
          /\ Goto(s, Leave)
    /\ UNCHANGED <<isolationVars, serving, current, ident, held, token, active,
                   total>>

\* A read or write fails: the client is gone, sent a version, a username or a
\* host name that is refused without a reply, or a stream of the splice ended.
Abandon(s) ==
    /\ pc[s] \in {"method", "auth", "request", "connect", "splice"}
    /\ Goto(s, Leave)
    /\ UNCHANGED <<isolationVars, serving, current, ident, held, token, reply,
                   active, total>>

\* connection_closed, after handle_conn returned.
Close(s) ==
    /\ pc[s] = "close"
    /\ active' = IF active = 0 THEN 0 ELSE active - 1
    /\ Goto(s, "free")
    /\ UNCHANGED <<isolationVars, serving, current, ident, held, token, reply,
                   total>>

ReplaceCore_flushes ==
    /\ current < MaxCores
    /\ current' = current + 1
    /\ entries' = [c \in Cores |-> [i \in Identities |-> Absent]]
    /\ UNCHANGED <<now, nextToken, issued, serving, sessionVars, active, total>>

\* CoreHandle::replace by a failover; see BridgeFailover.
ReplaceCore ==
    /\ current < MaxCores
    /\ current' = current + 1
    /\ UNCHANGED <<isolationVars, serving, sessionVars, active, total>>

Tick ==
    /\ ClockTick
    /\ UNCHANGED <<serving, current, sessionVars, active, total>>

SessionStep(s) ==
    \/ Negotiate(s) \/ Authenticate(s) \/ ReadRequest(s) \/ CloneCore(s)
    \/ ConnectIsolated(s) \/ Connected(s) \/ Abandon(s) \/ Close(s)

Next ==
    \/ \E s \in Sessions : Accept(s) \/ SessionStep(s)
    \/ AcceptFails
    \/ ReplaceCore
    \/ Tick

Spec == Init /\ [][Next]_vars

-----------------------------------------------------------------------------
(* Properties *)

TypeOK ==
    /\ IsolationTypeOK
    /\ serving \in BOOLEAN
    /\ current \in Cores
    /\ pc \in [Sessions -> {"free", "method", "auth", "request", "current",
                            "token", "connect", "splice", "close"}]
    /\ ident \in [Sessions -> Identities]
    /\ held \in [Sessions -> 0..MaxCores]
    /\ token \in [Sessions -> Nat]
    /\ reply \in [Sessions -> {"none", "success", "generalFailure", "notAllowed",
                               "cmdNotSupported", "atypNotSupported"}]
    /\ active \in Nat
    /\ total \in Nat

\* A stream is opened on the core and with the identity of its own session: a
\* failover between the clone and the connect does not mix two cores.
StreamOfOwnCore ==
    \A s \in Sessions :
        token[s] # 0 => <<held[s], ident[s]>> \in issued[token[s]].users

\* Two streams of different identities, or of different clients, never carry
\* the same token, also across rotations and failovers.
StreamsIsolated ==
    \A s, t \in Sessions :
        token[s] # 0 /\ token[s] = token[t] =>
            ident[s] = ident[t] /\ held[s] = held[t]

\* The dashboard's number of connections in flight is that of the tasks that
\* run, however each of them ends.
ActiveCounted == active = Cardinality({s \in Sessions : pc[s] # "free"})
=============================================================================
