--------------------------- MODULE DnsShimProofs ----------------------------
(***************************************************************************)
(* That no server escapes its controller, that no query uses a client that *)
(* was replaced before the query came in and that parse_query reads        *)
(* questions and nothing else, for any number of starts, queries, labels,  *)
(* addresses and failovers.                                                *)
(***************************************************************************)
EXTENDS DnsShim, DnsMessageProofs, TLAPS

\* The strengthening: a query was received no later than now, so the client
\* CloneCore takes cannot be older than the query.
BornBefore == \A q \in Queries : born[q] <= current

IInv == TypeOK /\ OneShim /\ FreshClient /\ BornBefore

-----------------------------------------------------------------------------
\* What the end of some queries' tasks leaves behind: idle slots, and every
\* other query as it was.
LEMMA FinishEffect ==
    ASSUME TypeOK, FreshClient, BornBefore, UNCHANGED current,
           NEW Q, Finish(Q)
    PROVE  /\ pc' \in [Queries -> {"free", "parse", "current", "resolve", "send"}]
           /\ from' \in [Queries -> Servers \cup {0}]
           /\ kind' \in [Queries -> Kinds]
           /\ held' \in [Queries -> Cores \cup {0}]
           /\ rcode' \in [Queries -> Rcodes]
           /\ born' \in [Queries -> Cores \cup {0}]
           /\ FreshClient'
           /\ BornBefore'
  <1>1. /\ pc' \in [Queries -> {"free", "parse", "current", "resolve", "send"}]
        /\ from' \in [Queries -> Servers \cup {0}]
        /\ kind' \in [Queries -> Kinds]
    BY DEF TypeOK, Finish, Kinds
  <1>2. /\ held' \in [Queries -> Cores \cup {0}]
        /\ rcode' \in [Queries -> Rcodes]
        /\ born' \in [Queries -> Cores \cup {0}]
    BY DEF TypeOK, Finish, Rcodes
  <1>3. FreshClient'
    BY DEF TypeOK, Finish, FreshClient
  <1>4. BornBefore'
    BY DnsAssumption DEF TypeOK, Finish, BornBefore, Cores
  <1> QED  BY <1>1, <1>2, <1>3, <1>4

\* What a datagram is taken for and what a lookup is answered with are among
\* the kinds and the response codes the queries' tasks tell apart.
LEMMA OutcomeTypes ==
    /\ KindsReceived \subseteq Kinds
    /\ \A k : RcodesResolved(k) \subseteq Rcodes
  <1>1. \A d : KindOf(d) \in Kinds
    BY DEF KindOf, Kinds
  <1>2. \A query, ips : Resolved(query, ips).rcode \in Rcodes
    BY DEF Resolved, Response, Rcodes
  <1> QED  BY <1>1, <1>2 DEF KindsReceived, RcodesResolved

LEMMA InitInv == Init => IInv
  <1> SUFFICES ASSUME Init PROVE IInv
    OBVIOUS
  <1>1. TypeOK
    BY DnsAssumption DEF Init, TypeOK, Servers, Cores, Kinds, Rcodes
  <1>2. OneShim
    BY DEF Init, OneShim
  <1>3. FreshClient /\ BornBefore
    BY DEF Init, FreshClient, BornBefore
  <1> QED  BY <1>1, <1>2, <1>3 DEF IInv

\* A query's own steps leave the servers alone.
LEMMA QueryStepInv ==
    ASSUME IInv, NEW q \in Queries, QueryStep(q)
    PROVE  IInv'
  <1> USE DnsAssumption
  <1>0. UNCHANGED <<controlVars, taskVars, current>>
    BY DEF QueryStep, Parse, CloneCore, Resolve, Send
  <1>1. OneShim'
    BY <1>0 DEF IInv, OneShim, controlVars, taskVars
  <1>2. CASE Finish({q})
    BY <1>0, <1>1, <1>2, FinishEffect
    DEF IInv, TypeOK, controlVars, taskVars
  <1>3. CASE Parse(q) /\ ~ Finish({q})
    <2>1. TypeOK'
      BY <1>0, <1>3 DEF IInv, TypeOK, Parse, Goto, controlVars, taskVars, Rcodes
    <2>2. FreshClient' /\ BornBefore'
      BY <1>0, <1>3
      DEF IInv, TypeOK, Parse, Goto, FreshClient, BornBefore
    <2> QED  BY <1>1, <2>1, <2>2 DEF IInv
  <1>4. CASE CloneCore(q)
    <2>1. TypeOK'
      BY <1>0, <1>4
      DEF IInv, TypeOK, CloneCore, ClientFor, Goto, controlVars, taskVars
    <2>2. FreshClient' /\ BornBefore'
      BY <1>0, <1>4
      DEF IInv, TypeOK, CloneCore, ClientFor, Goto, FreshClient, BornBefore
    <2> QED  BY <1>1, <2>1, <2>2 DEF IInv
  <1>5. CASE Resolve(q)
    <2>1. TypeOK'
      BY <1>0, <1>5, OutcomeTypes
      DEF IInv, TypeOK, Resolve, Goto, controlVars, taskVars, Rcodes
    <2>2. FreshClient' /\ BornBefore'
      BY <1>0, <1>5
      DEF IInv, TypeOK, Resolve, Goto, FreshClient, BornBefore
    <2> QED  BY <1>1, <2>1, <2>2 DEF IInv
  <1> QED  BY <1>2, <1>3, <1>4, <1>5 DEF QueryStep, Send

\* Starting, stopping, binding, failing and being dropped.
LEMMA ServerInv ==
    ASSUME IInv,
           \/ Stop
           \/ \E a \in Addrs : Start(a)
           \/ \E s \in Servers : ServerStep(s)
    PROVE  IInv'
  <1> USE DnsAssumption DEF Servers
  <1>1. CASE Stop
    <2>1. TypeOK' /\ FreshClient' /\ BornBefore'
      BY <1>1
      DEF IInv, TypeOK, FreshClient, BornBefore, Stop, Abort, queryVars
    <2>2. OneShim'
      BY <1>1 DEF IInv, TypeOK, OneShim, Stop, Abort
    <2> QED  BY <2>1, <2>2 DEF IInv
  <1>2. ASSUME NEW a \in Addrs, Start(a)
        PROVE  IInv'
    <2>1. TypeOK'
      BY <1>2 DEF IInv, TypeOK, Start, queryVars
    <2>2. FreshClient' /\ BornBefore'
      BY <1>2 DEF IInv, FreshClient, BornBefore, Start, queryVars
    <2>3. OneShim'
      BY <1>2 DEF IInv, TypeOK, OneShim, Start
    <2> QED  BY <2>1, <2>2, <2>3 DEF IInv
  <1>3. ASSUME NEW s \in Servers, Bind(s)
        PROVE  IInv'
    <2>1. TypeOK'
      BY <1>3 DEF IInv, TypeOK, Bind, queryVars, controlVars
    <2>2. FreshClient' /\ BornBefore'
      BY <1>3 DEF IInv, FreshClient, BornBefore, Bind, queryVars
    <2>3. OneShim'
      BY <1>3 DEF IInv, TypeOK, OneShim, Bind, controlVars
    <2> QED  BY <2>1, <2>2, <2>3 DEF IInv
  <1>4. ASSUME NEW s \in Servers, ReceiveError(s) \/ DropTask(s)
        PROVE  IInv'
    <2>0. EndServer(s)
      BY <1>4 DEF ReceiveError, DropTask
    <2>1. TypeOK' /\ FreshClient' /\ BornBefore'
      <3>1. Finish(EndsWith(s)) /\ UNCHANGED current
        BY <2>0 DEF EndServer
      <3> QED  BY <2>0, <3>1, FinishEffect DEF IInv, TypeOK, EndServer, controlVars
    <2>2. OneShim'
      BY <2>0 DEF IInv, TypeOK, OneShim, EndServer, controlVars
    <2> QED  BY <2>1, <2>2 DEF IInv
  <1> QED  BY <1>1, <1>2, <1>3, <1>4 DEF ServerStep

LEMMA StepInv == IInv /\ [Next]_vars => IInv'
  <1> SUFFICES ASSUME IInv, [Next]_vars PROVE IInv'
    OBVIOUS
  <1> USE DnsAssumption
  <1>1. CASE UNCHANGED vars
    BY <1>1
    DEF IInv, TypeOK, OneShim, FreshClient, BornBefore, vars, controlVars,
        taskVars, queryVars
  <1>2. CASE ReplaceCore
    <2>1. TypeOK'
      BY <1>2
      DEF IInv, TypeOK, ReplaceCore, controlVars, taskVars, queryVars, Cores
    <2>2. OneShim' /\ FreshClient'
      BY <1>2
      DEF IInv, OneShim, FreshClient, ReplaceCore, controlVars, taskVars,
          queryVars
    <2>3. BornBefore'
      BY <1>2 DEF IInv, TypeOK, BornBefore, ReplaceCore, queryVars, Cores
    <2> QED  BY <2>1, <2>2, <2>3 DEF IInv
  <1>3. ASSUME NEW s \in Servers, NEW q \in Queries, Receive(s, q)
        PROVE  IInv'
    <2>1. TypeOK'
      BY <1>3, OutcomeTypes DEF IInv, TypeOK, Receive, Goto, controlVars, taskVars
    <2>2. OneShim'
      BY <1>3 DEF IInv, OneShim, Receive, controlVars, taskVars
    <2>3. FreshClient' /\ BornBefore'
      BY <1>3 DEF IInv, TypeOK, FreshClient, BornBefore, Receive, Goto, Cores
    <2> QED  BY <2>1, <2>2, <2>3 DEF IInv
  <1>4. CASE \E q \in Queries : QueryStep(q)
    BY <1>4, QueryStepInv
  <1>5. CASE \/ Stop
             \/ \E a \in Addrs : Start(a)
             \/ \E s \in Servers : ServerStep(s)
    BY <1>5, ServerInv
  <1> QED  BY <1>1, <1>2, <1>3, <1>4, <1>5 DEF Next

-----------------------------------------------------------------------------
\* The inductive invariant holds in every state of every behaviour.
THEOREM Inductive == Spec => []IInv
  BY InitInv, StepInv, PTL DEF Spec

\* The controller's and the queries' variables keep their types.
THEOREM TypeCorrect == Spec => []TypeOK
  <1>1. IInv => TypeOK
    BY DEF IInv
  <1> QED  BY <1>1, Inductive, PTL

\* No server is left running that the controller could not stop.
THEOREM OneShimHolds == Spec => []OneShim
  <1>1. IInv => OneShim
    BY DEF IInv
  <1> QED  BY <1>1, Inductive, PTL

\* Whatever a name resolves to, every answer build_response writes has the
\* length its type says, and it writes none only with an error.
THEOREM AnswersMatchTypeHolds == AnswersMatchType
  <1> SUFFICES ASSUME NEW qtype \in {QTYPE_A, QTYPE_AAAA},
                      NEW ips \in SUBSET (Addrs4 \cup Addrs6)
               PROVE  LET r == Resolved([NoQuery EXCEPT !.qtype = qtype], ips)
                      IN  /\ (r.rcode = "noError") = (r.answers # {})
                          /\ \A a \in r.answers :
                              a.rdlength = IF a.type = QTYPE_AAAA THEN 16 ELSE 4
    BY DEF AnswersMatchType
  <1> DEFINE query == [NoQuery EXCEPT !.qtype = qtype]
             wanted == Wanted(qtype, ips)
             r == Resolved(query, ips)
  <1>1. query.qtype = qtype
    BY DEF NoQuery
  <1>2. /\ r.rcode = IF wanted = {} THEN "nxDomain" ELSE "noError"
        /\ r.answers = {[type |-> qtype,
                         rdlength |-> IF ip \in Addrs4 THEN 4 ELSE 16,
                         rdata |-> ip] : ip \in wanted}
    BY <1>1 DEF Resolved, Response
  <1>3. \A ip \in wanted : IF qtype = QTYPE_AAAA THEN ip \in Addrs6 ELSE ip \in Addrs4
    BY DEF Wanted
  <1>4. \A a \in r.answers : a.rdlength = IF a.type = QTYPE_AAAA THEN 16 ELSE 4
    <2> HIDE DEF r, wanted
    <2> QED  BY <1>2, <1>3, AddressAssumption
  <1>5. (r.rcode = "noError") = (r.answers # {})
    <2> HIDE DEF r, wanted
    <2>1. CASE wanted = {}
      <3>1. r.answers = {} /\ r.rcode = "nxDomain"
        BY <1>2, <2>1
      <3>2. (r.rcode = "noError") = FALSE /\ (r.answers # {}) = FALSE
        BY <3>1
      <3> QED  BY <3>2, Zenon
    <2>2. CASE wanted # {}
      <3>1. r.answers # {} /\ r.rcode = "noError"
        <4>1. r.rcode = "noError"
          BY <1>2, <2>2, Zenon
        <4>2. PICK ip : ip \in wanted
          BY <2>2
        <4>3. [type |-> qtype, rdlength |-> IF ip \in Addrs4 THEN 4 ELSE 16,
               rdata |-> ip] \in r.answers
          BY <1>2, <4>2
        <4> QED  BY <4>1, <4>3, Zenon
      <3>2. (r.rcode = "noError") = TRUE /\ (r.answers # {}) = TRUE
        BY <3>1
      <3> QED  BY <3>2, Zenon
    <2> QED  BY <2>1, <2>2
  <1> QED  BY <1>4, <1>5

\* parse_query takes from a datagram exactly the question it begins with, the
\* bytes its answer echoes; and no two names of plain labels are looked up as
\* the same, so of these the name looked up is the one echoed.
THEOREM ParsesQuestionsHolds == Spec => []ParsesQuestions
  <1>1. ParsesQuestions
    BY QuestionsReadHolds, NothingElseReadHolds, NamesApartHolds
       DEF ParsesQuestions
  <1>2. []ParsesQuestions
    BY <1>1, PTL
  <1> QED  BY <1>2

\* No query is resolved through a client replaced before it was received.
THEOREM FreshClientHolds == Spec => []FreshClient
  <1>1. IInv => FreshClient
    BY DEF IInv
  <1> QED  BY <1>1, Inductive, PTL
=============================================================================
