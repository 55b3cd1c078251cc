----------------------------- MODULE SocksProofs -----------------------------
(***************************************************************************)
(* The SOCKS5 server, for every set of sessions and usernames, every       *)
(* rotation policy and any number of failovers.  The argument composes:    *)
(* the types of the sessions show that they use the maps as Isolation      *)
(* says; Isolation's own invariant then holds in every state of Socks; and *)
(* with it each token a session holds was issued to this very session's    *)
(* core and identity, whatever replaced the core meanwhile.                *)
(***************************************************************************)
EXTENDS Socks, IsolationProofs, FiniteSetTheorems

\* What the sessions keep to without knowing anything of tokens.
SessionTypes ==
    /\ serving \in BOOLEAN
    /\ current \in Cores
    /\ pc \in [Sessions -> {"free", "method", "auth", "request", "current",
                            "token", "connect", "splice", "close"}]
    /\ ident \in [Sessions -> Identities]
    /\ held \in [Sessions -> 0..MaxCores]
    /\ reply \in [Sessions -> {"none", "success", "generalFailure", "notAllowed",
                               "cmdNotSupported", "atypNotSupported"}]
    /\ total \in Nat
    /\ \A s \in Sessions : pc[s] = "token" => held[s] \in Cores

\* A session holds no token before it opens its stream, and then one that was
\* issued to it.
Owned ==
    /\ token \in [Sessions -> Nat]
    /\ \A s \in Sessions :
         /\ pc[s] \in {"method", "auth", "request", "current", "token"} =>
              token[s] = 0
         /\ token[s] # 0 =>
              /\ token[s] \in DOMAIN issued
              /\ <<held[s], ident[s]>> \in issued[token[s]].users

\* Every step of a session, the accept loop and a failover keeps the types.
LEMMA StepSessionTypes ==
    ASSUME SessionTypes, Next
    PROVE  SessionTypes'
  <1> USE SocksAssumption DEF SessionTypes, Goto, isolationVars, sessionVars, Leave
  <1>1. CASE AcceptFails
    BY <1>1 DEF AcceptFails
  <1>2. CASE ReplaceCore
    BY <1>2 DEF ReplaceCore
  <1>3. CASE Tick
    BY <1>3 DEF Tick
  <1>4. ASSUME NEW s \in Sessions, Accept(s) \/ SessionStep(s)
        PROVE  SessionTypes'
    <2>1. CASE Accept(s)
      BY <2>1 DEF Accept
    <2>2. CASE Negotiate(s)
      BY <2>2 DEF Negotiate
    <2>3. CASE Authenticate(s)
      BY <2>3 DEF Authenticate, IdentityOf
    <2>4. CASE ReadRequest(s)
      BY <2>4 DEF ReadRequest
    <2>5. CASE CloneCore(s)
      BY <2>5 DEF CloneCore
    <2>6. CASE ConnectIsolated(s)
      BY <2>6 DEF ConnectIsolated
    <2>7. CASE Connected(s)
      BY <2>7 DEF Connected
    <2>8. CASE Abandon(s)
      BY <2>8 DEF Abandon
    <2>9. CASE Close(s)
      BY <2>9 DEF Close
    <2> QED
      BY <1>4, <2>1, <2>2, <2>3, <2>4, <2>5, <2>6, <2>7, <2>8, <2>9
      DEF SessionStep
  <1> QED
    BY <1>1, <1>2, <1>3, <1>4 DEF Next

\* A step of Socks uses the maps as Isolation allows, or not at all.
LEMMA StepIsolation ==
    ASSUME SessionTypes, [Next]_vars
    PROVE  [IsolationNext]_isolationVars
  <1>1. CASE Next
    <2>1. CASE AcceptFails \/ ReplaceCore
      BY <2>1 DEF AcceptFails, ReplaceCore
    <2>2. CASE Tick
      BY <2>2 DEF Tick, IsolationNext
    <2>3. ASSUME NEW s \in Sessions, ConnectIsolated(s)
          PROVE  IsolationNext
      <3>1. held[s] \in Cores /\ ident[s] \in Identities
        BY <2>3 DEF SessionTypes, ConnectIsolated
      <3>2. token_for(held[s], ident[s])
        BY <2>3 DEF ConnectIsolated, CoreUsed
      <3> QED
        BY <3>1, <3>2 DEF IsolationNext
    <2>4. ASSUME NEW s \in Sessions,
                 \/ Accept(s) \/ Negotiate(s) \/ Authenticate(s)
                 \/ ReadRequest(s) \/ CloneCore(s) \/ Connected(s)
                 \/ Abandon(s) \/ Close(s)
          PROVE  UNCHANGED isolationVars
      BY <2>4 DEF Accept, Negotiate, Authenticate, ReadRequest, CloneCore,
                  Connected, Abandon, Close
    <2> QED
      BY <1>1, <2>1, <2>2, <2>3, <2>4 DEF Next, SessionStep
  <1>2. CASE UNCHANGED vars
    BY <1>2 DEF vars, isolationVars
  <1> QED
    BY <1>1, <1>2

\* What token_for hands out is issued to the caller, and what was issued
\* before stays issued.
LEMMA TokenIssued ==
    ASSUME IndInv, NEW c \in Cores, NEW i \in Identities, token_for(c, i)
    PROVE  /\ Token(c, i) \in Nat
           /\ Token(c, i) \in DOMAIN issued'
           /\ <<c, i>> \in issued'[Token(c, i)].users
           /\ \A k \in DOMAIN issued :
                /\ k \in DOMAIN issued'
                /\ issued[k].users \subseteq issued'[k].users
  <1>1. GivenTo(c, i) /\ Writes(c, i)
    BY Handed, Effects DEF IndInv
  <1>2. Token(c, i) \in Nat
    BY <1>1 DEF GivenTo, IndInv, IsolationTypeOK
  <1>3. <<c, i>> \in issued'[Token(c, i)].users
    BY <1>1 DEF GivenTo, Writes
  <1>4. ASSUME NEW k \in DOMAIN issued
        PROVE  issued[k].users \subseteq issued'[k].users
    <2>1. k # nextToken
      BY <1>4 DEF IndInv, IsolationTypeOK
    <2> QED
      BY <1>1, <2>1 DEF GivenTo, Writes
  <1> QED
    BY <1>1, <1>2, <1>3, <1>4 DEF Writes

\* Sessions keep what they hold until they are accepted anew.
LEMMA StepOwned ==
    ASSUME SessionTypes, IndInv, Owned, Next
    PROVE  Owned'
  <1> USE DEF SessionTypes, Owned, Goto, isolationVars, sessionVars, Leave
  <1>1. CASE AcceptFails
    BY <1>1 DEF AcceptFails
  <1>2. CASE ReplaceCore
    BY <1>2 DEF ReplaceCore
  <1>3. CASE Tick
    BY <1>3 DEF Tick, ClockTick
  <1>4. ASSUME NEW s \in Sessions, Accept(s) \/ SessionStep(s)
        PROVE  Owned'
    <2>1. CASE Accept(s)
      BY <2>1 DEF Accept
    <2>2. CASE Negotiate(s)
      BY <2>2 DEF Negotiate
    <2>3. CASE Authenticate(s)
      BY <2>3 DEF Authenticate
    <2>4. CASE ReadRequest(s)
      BY <2>4 DEF ReadRequest
    <2>5. CASE CloneCore(s)
      BY <2>5 DEF CloneCore
    <2>6. CASE ConnectIsolated(s)
      <3> DEFINE k == Token(held[s], ident[s])
      <3>1. held[s] \in Cores /\ ident[s] \in Identities
        BY <2>6 DEF ConnectIsolated
      <3>2. /\ token' = [token EXCEPT ![s] = k]
            /\ token_for(held[s], ident[s])
            /\ pc' = [pc EXCEPT ![s] = "connect"]
            /\ held' = held /\ ident' = ident
        BY <2>6 DEF ConnectIsolated, CoreUsed
      <3>3. /\ k \in Nat
            /\ k \in DOMAIN issued'
            /\ <<held[s], ident[s]>> \in issued'[k].users
            /\ \A j \in DOMAIN issued :
                 /\ j \in DOMAIN issued'
                 /\ issued[j].users \subseteq issued'[j].users
        BY <3>1, <3>2, TokenIssued
      <3> HIDE DEF k
      <3> QED
        BY <3>2, <3>3
    <2>7. CASE Connected(s)
      BY <2>7 DEF Connected
    <2>8. CASE Abandon(s)
      BY <2>8 DEF Abandon
    <2>9. CASE Close(s)
      BY <2>9 DEF Close
    <2> QED
      BY <1>4, <2>1, <2>2, <2>3, <2>4, <2>5, <2>6, <2>7, <2>8, <2>9
      DEF SessionStep
  <1> QED
    BY <1>1, <1>2, <1>3, <1>4 DEF Next

\* The sessions that are under way.
Busy == {s \in Sessions : pc[s] # "free"}

\* Each accepted session is counted in once and, however it ends, out once.
LEMMA StepActiveCounted ==
    ASSUME SessionTypes, ActiveCounted, Next
    PROVE  ActiveCounted'
  <1> USE DEF SessionTypes, Goto, isolationVars, sessionVars, Leave
  <1>b. /\ IsFiniteSet(Busy) /\ Cardinality(Busy) \in Nat
        /\ active = Cardinality(Busy)
    <2>1. IsFiniteSet(Sessions) /\ Busy \in SUBSET Sessions
      BY SocksAssumption DEF Busy
    <2>2. IsFiniteSet(Busy)
      BY ONLY <2>1, FS_Subset
    <2> QED
      BY <2>2, FS_CardinalityType DEF ActiveCounted, Busy
  <1>e. ASSUME active' = active, Busy' = Busy
        PROVE  ActiveCounted'
    BY <1>b, <1>e DEF ActiveCounted, Busy
  <1>1. CASE AcceptFails \/ ReplaceCore \/ Tick
    BY <1>1, <1>e DEF AcceptFails, ReplaceCore, Tick, Busy
  <1>2. ASSUME NEW s \in Sessions, Accept(s)
        PROVE  ActiveCounted'
    <2>1. Busy' = Busy \cup {s} /\ s \notin Busy /\ active' = active + 1
      BY <1>2 DEF Accept, Busy
    <2>2. Cardinality(Busy') = active'
      BY <1>b, <2>1, FS_AddElement
    <2> QED
      BY <2>2 DEF ActiveCounted, Busy
  <1>3. ASSUME NEW s \in Sessions, Close(s)
        PROVE  ActiveCounted'
    <2>1. Busy' = Busy \ {s} /\ s \in Busy
      BY <1>3 DEF Close, Busy
    <2>2. active # 0
      BY <1>b, <2>1, FS_EmptySet
    <2>3. Cardinality(Busy') = active'
      BY <1>3, <1>b, <2>1, <2>2, FS_RemoveElement DEF Close
    <2> QED
      BY <2>3 DEF ActiveCounted, Busy
  <1>4. ASSUME NEW s \in Sessions,
               \/ Negotiate(s) \/ Authenticate(s) \/ ReadRequest(s)
               \/ CloneCore(s) \/ ConnectIsolated(s) \/ Connected(s) \/ Abandon(s)
        PROVE  ActiveCounted'
    <2>1. active' = active
      BY <1>4 DEF Negotiate, Authenticate, ReadRequest, CloneCore,
                  ConnectIsolated, Connected, Abandon
    <2>2. PICK label : pc' = [pc EXCEPT ![s] = label] /\ label # "free"
      BY <1>4 DEF Negotiate, Authenticate, ReadRequest, CloneCore,
                  ConnectIsolated, Connected, Abandon
    <2>3. s \in Busy
      BY <1>4 DEF Negotiate, Authenticate, ReadRequest, CloneCore,
                  ConnectIsolated, Connected, Abandon, Busy
    <2>4. Busy' = Busy
      BY <2>2, <2>3 DEF Busy
    <2> QED
      BY <1>e, <2>1, <2>4
  <1> QED
    BY <1>1, <1>2, <1>3, <1>4 DEF Next, SessionStep

\* The sessions keep their types.
LEMMA SessionTypesHold == Spec => []SessionTypes
  <1>1. Init => SessionTypes
    BY SocksAssumption DEF Init, SessionTypes
  <1>2. SessionTypes /\ [Next]_vars => SessionTypes'
    <2> SUFFICES ASSUME SessionTypes, [Next]_vars PROVE SessionTypes'
      OBVIOUS
    <2>1. CASE Next
      BY <2>1, StepSessionTypes
    <2>2. CASE UNCHANGED vars
      BY <2>2 DEF vars, sessionVars, SessionTypes
    <2> QED
      BY <2>1, <2>2
  <1> QED
    BY <1>1, <1>2, PTL DEF Spec

\* Socks implements Isolation: whatever failovers come between the clone of a
\* core and the use of its map, the sessions use the maps by token_for alone.
THEOREM RefinesIsolation == Spec => IsolationSpec
  <1>1. Init => IsolationInit
    BY DEF Init
  <1>2. SessionTypes /\ [Next]_vars => [IsolationNext]_isolationVars
    BY StepIsolation
  <1> QED
    BY <1>1, <1>2, SessionTypesHold, PTL DEF Spec, IsolationSpec

\* Isolation's invariant therefore holds in Socks, and with it Owned.
LEMMA OwnedHolds == Spec => [](SessionTypes /\ IndInv /\ Owned)
  <1>1. Init => Owned
    BY DEF Init, Owned
  <1>2. SessionTypes /\ IndInv /\ Owned /\ [Next]_vars => Owned'
    <2> SUFFICES ASSUME SessionTypes, IndInv, Owned, [Next]_vars PROVE Owned'
      OBVIOUS
    <2>1. CASE Next
      BY <2>1, StepOwned
    <2>2. CASE UNCHANGED vars
      BY <2>2 DEF vars, sessionVars, isolationVars, Owned
    <2> QED
      BY <2>1, <2>2
  <1>3. Spec => []IndInv
    BY RefinesIsolation, Inductive, PTL
  <1> QED
    BY <1>1, <1>2, <1>3, SessionTypesHold, PTL DEF Spec

\* A stream carries a token issued to its own session's core and identity.
THEOREM StreamOfOwnCoreHolds == Spec => []StreamOfOwnCore
  <1>1. Owned => StreamOfOwnCore
    BY DEF Owned, StreamOfOwnCore
  <1> QED
    BY <1>1, OwnedHolds, PTL

\* Streams of two identities, or of two clients, never share a token, for any
\* number of sessions, rotations and failovers.
THEOREM StreamsIsolatedHolds == Spec => []StreamsIsolated
  <1>1. IndInv /\ Owned => StreamsIsolated
    <2> SUFFICES ASSUME IndInv, Owned, NEW s \in Sessions, NEW t \in Sessions,
                        token[s] # 0, token[s] = token[t]
                 PROVE  ident[s] = ident[t] /\ held[s] = held[t]
      BY DEF StreamsIsolated
    <2>1. /\ token[s] \in DOMAIN issued
          /\ <<held[s], ident[s]>> \in issued[token[s]].users
          /\ <<held[t], ident[t]>> \in issued[token[s]].users
      BY DEF Owned
    <2>2. <<held[s], ident[s]>> = <<held[t], ident[t]>>
      BY <2>1 DEF IndInv, NoSharing
    <2> QED
      BY <2>2
  <1> QED
    BY <1>1, OwnedHolds, PTL

\* The number of connections shown is that of the sessions under way.
THEOREM ActiveCountedHolds == Spec => []ActiveCounted
  <1>1. Init => ActiveCounted
    <2> SUFFICES ASSUME Init PROVE ActiveCounted
      OBVIOUS
    <2>1. {s \in Sessions : pc[s] # "free"} = {} /\ active = 0
      BY DEF Init
    <2> QED
      BY <2>1, FS_EmptySet DEF ActiveCounted
  <1>2. SessionTypes /\ ActiveCounted /\ [Next]_vars => ActiveCounted'
    <2> SUFFICES ASSUME SessionTypes, ActiveCounted, [Next]_vars
                 PROVE  ActiveCounted'
      OBVIOUS
    <2>1. CASE Next
      BY <2>1, StepActiveCounted
    <2>2. CASE UNCHANGED vars
      BY <2>2 DEF vars, sessionVars, ActiveCounted
    <2> QED
      BY <2>1, <2>2
  <1> QED
    BY <1>1, <1>2, SessionTypesHold, PTL DEF Spec

\* The sessions, the counters and the maps keep their types.
THEOREM SocksTypeCorrect == Spec => []TypeOK
  <1>1. ActiveCounted => active \in Nat
    <2>1. IsFiniteSet(Sessions)
          /\ {s \in Sessions : pc[s] # "free"} \in SUBSET Sessions
      BY SocksAssumption
    <2>2. IsFiniteSet({s \in Sessions : pc[s] # "free"})
      BY ONLY <2>1, FS_Subset
    <2> QED
      BY <2>2, FS_CardinalityType DEF ActiveCounted
  <1>2. SessionTypes /\ IndInv /\ Owned /\ active \in Nat => TypeOK
    BY DEF SessionTypes, IndInv, Owned, TypeOK
  <1> QED
    BY <1>1, <1>2, OwnedHolds, ActiveCountedHolds, PTL
=============================================================================
