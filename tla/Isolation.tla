----------------------------- MODULE Isolation ------------------------------
(***************************************************************************)
(* IsolationPolicy (core/lib.rs): the map from identities to isolation     *)
(* tokens that every AnonCore keeps, with rotation by age and by use.      *)
(* token_for runs under the map's mutex, for any identity at any time;     *)
(* Socks has the sessions that call it.                                    *)
(***************************************************************************)
EXTENDS Integers

CONSTANTS
    Identities, \* isolation identities
    Cores,      \* AnonCore instances, each with a map of its own
    MaxUses,    \* RotationPolicy.max_uses, or NoLimit
    MaxAge,     \* RotationPolicy.max_age, or NoLimit
    NoLimit,
    MaxTime,    \* bound on the clock
    MaxTokens   \* bound on the tokens made

ASSUME LimitAssumption ==
    /\ NoLimit \notin Nat
    /\ MaxUses \in Nat \cup {NoLimit}
    /\ MaxAge \in Nat \cup {NoLimit}
    /\ MaxTime \in Nat
    /\ MaxTokens \in Nat

VARIABLES
    now,       \* Instant::now()
    entries,   \* the map of each core; a token of 0 marks an absent entry
    nextToken, \* external: IsolationToken::new() makes a new value each time
    issued     \* history: who was given each token, when, and how often

isolationVars == <<now, entries, nextToken, issued>>

Absent == [token |-> 0, createdAt |-> 0, uses |-> 0]

\* An operator named X_fault is X with a plausible coding error; none is used
\* in the specification.
AgeReached(e) == MaxAge # NoLimit /\ now - e.createdAt >= MaxAge

UsesReached_offByOne(e) == MaxUses # NoLimit /\ e.uses > MaxUses
UsesReached(e) == MaxUses # NoLimit /\ e.uses >= MaxUses

Stale(e) == AgeReached(e) \/ UsesReached(e)

\* The entry token_for uses: the one in the map, or a new one if there is none
\* or it is stale.
Bucket_ofAnyCore(c, i) ==
    LET live == {d \in Cores : /\ entries[d][i].token # 0
                               /\ ~ Stale(entries[d][i])}
    IN  IF live = {} THEN [token |-> nextToken, createdAt |-> now, uses |-> 0]
                     ELSE entries[CHOOSE d \in live : TRUE][i]
Bucket(c, i) ==
    IF entries[c][i].token = 0 \/ Stale(entries[c][i])
    THEN [token |-> nextToken, createdAt |-> now, uses |-> 0]
    ELSE entries[c][i]

\* What a caller is given.
Token(c, i) == Bucket(c, i).token

\* A use of token k by identity i of core c.
Record(k, c, i) ==
    LET old == IF k \in DOMAIN issued THEN issued[k]
               ELSE [users |-> {}, born |-> now, last |-> now, count |-> 0]
    IN  [users |-> old.users \cup {<<c, i>>}, born |-> old.born,
         last |-> now, count |-> old.count + 1]

IsolationInit ==
    /\ now = 0
    /\ entries = [c \in Cores |-> [i \in Identities |-> Absent]]
    /\ nextToken = 1
    /\ issued = [k \in {} |-> 0]

\* A new token comes from IsolationToken::new(), never from another entry.
NextToken_reused(c, i) == nextToken
NextToken(c, i) == IF Token(c, i) = nextToken THEN nextToken + 1 ELSE nextToken

token_for(c, i) ==
    /\ NextToken(c, i) <= MaxTokens + 1
    /\ entries' = [entries EXCEPT
                     ![c] = [@ EXCEPT ![i] = [Bucket(c, i) EXCEPT !.uses = @ + 1]]]
    /\ nextToken' = NextToken(c, i)
    /\ issued' = [k \in DOMAIN issued \cup {Token(c, i)} |->
                    IF k = Token(c, i) THEN Record(k, c, i) ELSE issued[k]]
    /\ UNCHANGED now

\* Time passes, up to the bound.
ClockTick ==
    /\ now' = IF now < MaxTime THEN now + 1 ELSE now
    /\ UNCHANGED <<entries, nextToken, issued>>

IsolationNext == ClockTick \/ \E c \in Cores, i \in Identities : token_for(c, i)

\* What the sessions of Socks are to keep to, whatever failovers happen between
\* the clone of a core and the use of its map.
IsolationSpec == IsolationInit /\ [][IsolationNext]_isolationVars

-----------------------------------------------------------------------------
(* Properties *)

Entry == [token : Nat, createdAt : Nat, uses : Nat]

IsolationTypeOK ==
    /\ now \in Nat
    /\ entries \in [Cores -> [Identities -> Entry]]
    /\ nextToken \in Nat \ {0}
    /\ issued \in [1..(nextToken - 1) ->
                     [users : SUBSET (Cores \X Identities), born : Nat,
                      last : Nat, count : Nat]]

\* No token is ever given to two identities, or to one identity of two
\* clients: rotation, removal and re-insertion never mix two buckets.
NoSharing == \A k \in DOMAIN issued : \A u, v \in issued[k].users : u = v

\* Over its whole life a token is handed out at most max_uses times, and
\* never once max_age has passed since it was made; a limit of 0 still lets
\* the use through that made it.
RotationLimits ==
    \A k \in DOMAIN issued :
        /\ MaxUses # NoLimit => issued[k].count <= MaxUses \/ issued[k].count = 1
        /\ MaxAge # NoLimit => \/ issued[k].last - issued[k].born < MaxAge
                               \/ issued[k].last = issued[k].born
=============================================================================
