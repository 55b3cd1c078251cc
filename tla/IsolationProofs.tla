-------------------------- MODULE IsolationProofs ---------------------------
(***************************************************************************)
(* Isolation and rotation, for every set of identities and cores and every *)
(* RotationPolicy.  NoSharing and RotationLimits speak of the history of   *)
(* tokens and are inductive only with Linked, which ties each entry of a   *)
(* map to the history of the token it holds.                               *)
(***************************************************************************)
EXTENDS Isolation, TLAPS

\* An entry that is present holds a token made earlier, given to its own
\* identity, with the age and the number of uses the entry says.
Linked ==
    \A c \in Cores, i \in Identities :
        LET e == entries[c][i] IN
        e.token # 0 =>
            /\ e.token \in DOMAIN issued
            /\ <<c, i>> \in issued[e.token].users
            /\ issued[e.token].born = e.createdAt
            /\ issued[e.token].count = e.uses

IndInv == IsolationTypeOK /\ Linked /\ NoSharing /\ RotationLimits

History == [users : SUBSET (Cores \X Identities), born : Nat, last : Nat,
            count : Nat]

\* What one call of token_for does: it either makes the next token or reuses
\* the entry of this very identity, and writes both the map and the history.
GivenTo(c, i) ==
    /\ Token(c, i) \in 1..nextToken
    /\ Bucket(c, i) \in Entry
    /\ Record(Token(c, i), c, i) \in History
    /\ \/ /\ Token(c, i) = nextToken
          /\ Bucket(c, i).createdAt = now
          /\ Bucket(c, i).uses = 0
          /\ Record(nextToken, c, i) =
               [users |-> {<<c, i>>}, born |-> now, last |-> now,
                count |-> 1]
       \/ /\ Token(c, i) \in DOMAIN issued
          /\ Token(c, i) # nextToken
          /\ Bucket(c, i) = entries[c][i]
          /\ ~ Stale(entries[c][i])
          /\ <<c, i>> \in issued[Token(c, i)].users
          /\ Record(Token(c, i), c, i) =
               [users |-> issued[Token(c, i)].users,
                born |-> entries[c][i].createdAt, last |-> now,
                count |-> entries[c][i].uses + 1]

\* token_for uses a bucket as GivenTo describes it.
LEMMA Handed ==
    ASSUME IsolationTypeOK, Linked, NEW c \in Cores, NEW i \in Identities
    PROVE  GivenTo(c, i)
  <1> USE DEF GivenTo
  <1>e. entries[c][i] \in Entry
    BY DEF IsolationTypeOK
  <1>d. /\ DOMAIN issued = 1..(nextToken - 1)
        /\ nextToken \in Nat \ {0}
        /\ now \in Nat
    BY DEF IsolationTypeOK
  <1>1. CASE entries[c][i].token = 0 \/ Stale(entries[c][i])
    <2>1. Bucket(c, i) = [token |-> nextToken, createdAt |-> now, uses |-> 0]
      BY <1>1 DEF Bucket
    <2>2. Token(c, i) = nextToken
      BY <2>1 DEF Token
    <2>3. nextToken \notin DOMAIN issued
      BY <1>d
    <2>4. Record(nextToken, c, i) =
            [users |-> {<<c, i>>}, born |-> now, last |-> now, count |-> 1]
      BY <2>3 DEF Record
    <2>5. Record(nextToken, c, i) \in History
      BY <2>4, <1>d DEF History
    <2> QED
      BY <2>1, <2>2, <2>4, <2>5, <1>d DEF Entry
  <1>2. CASE entries[c][i].token # 0 /\ ~ Stale(entries[c][i])
    <2>1. Bucket(c, i) = entries[c][i]
      BY <1>2 DEF Bucket
    <2>2. Token(c, i) = entries[c][i].token
      BY <2>1 DEF Token
    <2>3. /\ Token(c, i) \in DOMAIN issued
          /\ <<c, i>> \in issued[Token(c, i)].users
          /\ issued[Token(c, i)].born = entries[c][i].createdAt
          /\ issued[Token(c, i)].count = entries[c][i].uses
      BY <1>2, <2>2 DEF Linked
    <2>4. Record(Token(c, i), c, i) =
            [users |-> issued[Token(c, i)].users,
             born |-> entries[c][i].createdAt, last |-> now,
             count |-> entries[c][i].uses + 1]
      <3>1. issued[Token(c, i)].users \cup {<<c, i>>} = issued[Token(c, i)].users
        BY <2>3
      <3> QED
        BY <2>3, <3>1 DEF Record
    <2>5. issued[Token(c, i)].users \in SUBSET (Cores \X Identities)
      BY <2>3, <1>d DEF IsolationTypeOK
    <2>6. Record(Token(c, i), c, i) \in History
      BY <2>4, <2>5, <1>d, <1>e DEF History, Entry
    <2> QED
      BY <1>2, <1>d, <1>e, <2>1, <2>3, <2>4, <2>6
  <1> QED
    BY <1>1, <1>2

\* The two effects of token_for, on the map and on the history.
Writes(c, i) ==
    /\ entries'[c][i] = [Bucket(c, i) EXCEPT !.uses = @ + 1]
    /\ \A d \in Cores, j \in Identities :
          <<d, j>> # <<c, i>> => entries'[d][j] = entries[d][j]
    /\ DOMAIN issued' = DOMAIN issued \cup {Token(c, i)}
    /\ issued'[Token(c, i)] = Record(Token(c, i), c, i)
    /\ \A k \in DOMAIN issued :
          k # Token(c, i) => issued'[k] = issued[k]

\* token_for writes nothing else.
LEMMA Effects ==
    ASSUME IsolationTypeOK, Linked, NEW c \in Cores, NEW i \in Identities,
           token_for(c, i)
    PROVE  Writes(c, i)
  <1>1. entries \in [Cores -> [Identities -> Entry]]
    BY DEF IsolationTypeOK
  <1>2. entries' = [entries EXCEPT
                     ![c] = [@ EXCEPT ![i] = [Bucket(c, i) EXCEPT !.uses = @ + 1]]]
    BY DEF token_for
  <1>3. issued' = [k \in DOMAIN issued \cup {Token(c, i)} |->
                    IF k = Token(c, i) THEN Record(k, c, i) ELSE issued[k]]
    BY DEF token_for
  <1>4. entries'[c][i] = [Bucket(c, i) EXCEPT !.uses = @ + 1]
    BY <1>1, <1>2
  <1>5. ASSUME NEW d \in Cores, NEW j \in Identities, <<d, j>> # <<c, i>>
        PROVE  entries'[d][j] = entries[d][j]
    BY <1>1, <1>2, <1>5
  <1>6. DOMAIN issued' = DOMAIN issued \cup {Token(c, i)}
    BY <1>3
  <1>7. issued'[Token(c, i)] = Record(Token(c, i), c, i)
    BY <1>3
  <1>8. \A k \in DOMAIN issued : k # Token(c, i) => issued'[k] = issued[k]
    BY <1>3
  <1> QED
    BY <1>4, <1>5, <1>6, <1>7, <1>8 DEF Writes

\* token_for keeps the types: the history has every token made so far.
LEMMA TokenForTypeOK ==
    ASSUME IsolationTypeOK, Linked, NEW c \in Cores, NEW i \in Identities,
           token_for(c, i)
    PROVE  IsolationTypeOK'
  <1>h. GivenTo(c, i)
    BY Handed
  <1>w. Writes(c, i)
    BY Effects
  <1>1. /\ DOMAIN issued = 1..(nextToken - 1)
        /\ nextToken \in Nat \ {0}
        /\ now \in Nat
    BY DEF IsolationTypeOK
  <1>2. now' = now /\ nextToken' = NextToken(c, i)
    BY DEF token_for
  <1>3. entries' \in [Cores -> [Identities -> Entry]]
    <2>1. Bucket(c, i) \in Entry
      BY <1>h DEF GivenTo
    <2>2. [Bucket(c, i) EXCEPT !.uses = @ + 1] \in Entry
      BY <2>1 DEF Entry
    <2> QED
      BY <2>2 DEF IsolationTypeOK, token_for
  <1>4. nextToken' \in Nat \ {0}
    BY <1>1, <1>2 DEF NextToken
  <1>5. DOMAIN issued \cup {Token(c, i)} = 1..(nextToken' - 1)
    <2>1. CASE Token(c, i) = nextToken
      BY <1>1, <1>2, <2>1 DEF NextToken
    <2>2. CASE Token(c, i) # nextToken
      <3>1. Token(c, i) \in DOMAIN issued
        BY <2>2, <1>h DEF GivenTo
      <3> QED
        BY <1>1, <1>2, <2>2, <3>1 DEF NextToken
    <2> QED
      BY <2>1, <2>2
  <1>6. issued' \in [1..(nextToken' - 1) -> History]
    <2>1. Record(Token(c, i), c, i) \in History
      BY <1>h DEF GivenTo
    <2>2. \A k \in DOMAIN issued : issued[k] \in History
      BY <1>1 DEF IsolationTypeOK, History
    <2>3. issued' = [k \in 1..(nextToken' - 1) |->
                    IF k = Token(c, i) THEN Record(k, c, i) ELSE issued[k]]
      BY <1>5 DEF token_for
    <2>4. ASSUME NEW k \in 1..(nextToken' - 1)
          PROVE  (IF k = Token(c, i) THEN Record(k, c, i) ELSE issued[k])
                    \in History
      BY <1>5, <2>1, <2>2
    <2> QED
      BY <2>3, <2>4
  <1> QED
    BY <1>1, <1>2, <1>3, <1>4, <1>6 DEF IsolationTypeOK, History

\* token_for keeps the link, because no other entry holds the token it uses.
LEMMA TokenForLinked ==
    ASSUME IsolationTypeOK, Linked, NoSharing, NEW c \in Cores, NEW i \in Identities,
           token_for(c, i)
    PROVE  Linked'
  <1>h. GivenTo(c, i)
    BY Handed
  <1>w. Writes(c, i)
    BY Effects
  <1> SUFFICES ASSUME NEW d \in Cores, NEW j \in Identities,
                      entries'[d][j].token # 0
               PROVE  /\ entries'[d][j].token \in DOMAIN issued'
                      /\ <<d, j>> \in issued'[entries'[d][j].token].users
                      /\ issued'[entries'[d][j].token].born
                           = entries'[d][j].createdAt
                      /\ issued'[entries'[d][j].token].count
                           = entries'[d][j].uses
    BY DEF Linked
  <1>1. CASE <<d, j>> = <<c, i>>
    <2>1. /\ entries'[c][i].token = Token(c, i)
          /\ entries'[c][i].createdAt = Bucket(c, i).createdAt
          /\ entries'[c][i].uses = Bucket(c, i).uses + 1
      <3>1. Bucket(c, i) \in Entry
        BY <1>h DEF GivenTo
      <3>2. entries'[c][i] = [Bucket(c, i) EXCEPT !.uses = @ + 1]
        BY <1>w DEF Writes
      <3> QED
        BY <3>1, <3>2 DEF Entry, Token
    <2>2. /\ Token(c, i) \in DOMAIN issued'
          /\ issued'[Token(c, i)] = Record(Token(c, i), c, i)
      BY <1>w DEF Writes
    <2>3. /\ <<c, i>> \in Record(Token(c, i), c, i).users
          /\ Record(Token(c, i), c, i).born = Bucket(c, i).createdAt
          /\ Record(Token(c, i), c, i).count = Bucket(c, i).uses + 1
      <3>1. CASE Token(c, i) = nextToken
        <4>1. /\ Bucket(c, i).createdAt = now
              /\ Bucket(c, i).uses = 0
              /\ Record(nextToken, c, i) =
                   [users |-> {<<c, i>>}, born |-> now, last |-> now,
                    count |-> 1]
          BY <3>1, <1>h DEF GivenTo
        <4> QED
          BY <3>1, <4>1
      <3>2. CASE Token(c, i) # nextToken
        BY <3>2, <1>h DEF GivenTo
      <3> QED
        BY <3>1, <3>2
    <2> QED
      BY <1>1, <2>1, <2>2, <2>3
  <1>2. CASE <<d, j>> # <<c, i>>
    <2>1. entries'[d][j] = entries[d][j]
      BY <1>2, <1>w DEF Writes
    <2>2. /\ entries[d][j].token \in DOMAIN issued
          /\ <<d, j>> \in issued[entries[d][j].token].users
          /\ issued[entries[d][j].token].born = entries[d][j].createdAt
          /\ issued[entries[d][j].token].count = entries[d][j].uses
      BY <2>1 DEF Linked
    <2>3. entries[d][j].token # Token(c, i)
      <3>1. CASE Token(c, i) = nextToken
        BY <2>2, <3>1 DEF IsolationTypeOK
      <3>2. CASE Token(c, i) # nextToken
        <4>1. <<c, i>> \in issued[Token(c, i)].users
          BY <3>2, <1>h DEF GivenTo
        <4> QED
          BY <1>2, <2>2, <4>1 DEF NoSharing
      <3> QED
        BY <3>1, <3>2
    <2>4. DOMAIN issued' = DOMAIN issued \cup {Token(c, i)}
      BY <1>w DEF Writes
    <2>5. issued'[entries[d][j].token] = issued[entries[d][j].token]
      BY <2>2, <2>3, <1>w DEF Writes
    <2> QED
      BY <2>1, <2>2, <2>4, <2>5
  <1> QED
    BY <1>1, <1>2

\* token_for gives a token only to the identity that already has it.
LEMMA TokenForNoSharing ==
    ASSUME IsolationTypeOK, Linked, NoSharing, NEW c \in Cores, NEW i \in Identities,
           token_for(c, i)
    PROVE  NoSharing'
  <1>h. GivenTo(c, i)
    BY Handed
  <1>w. Writes(c, i)
    BY Effects
  <1> SUFFICES ASSUME NEW k \in DOMAIN issued',
                      NEW u \in issued'[k].users, NEW v \in issued'[k].users
               PROVE  u = v
    BY DEF NoSharing
  <1>1. CASE k # Token(c, i)
    <2>1. k \in DOMAIN issued /\ issued'[k] = issued[k]
      BY <1>1, <1>w DEF Writes
    <2> QED
      BY <2>1 DEF NoSharing
  <1>2. CASE k = Token(c, i)
    <2>1. issued'[k] = Record(Token(c, i), c, i)
      BY <1>2, <1>w DEF Writes
    <2>2. CASE Token(c, i) = nextToken
      BY <2>1, <2>2, <1>h DEF GivenTo
    <2>3. CASE Token(c, i) # nextToken
      <3>1. /\ Token(c, i) \in DOMAIN issued
            /\ Record(Token(c, i), c, i).users = issued[Token(c, i)].users
        BY <2>3, <1>h DEF GivenTo
      <3> QED
        BY <2>1, <3>1 DEF NoSharing
    <2> QED
      BY <2>2, <2>3
  <1> QED
    BY <1>1, <1>2

\* token_for uses a token again only while both limits allow one more use.
LEMMA TokenForRotationLimits ==
    ASSUME IsolationTypeOK, Linked, RotationLimits,
           NEW c \in Cores, NEW i \in Identities, token_for(c, i)
    PROVE  RotationLimits'
  <1>h. GivenTo(c, i)
    BY Handed
  <1>w. Writes(c, i)
    BY Effects
  <1> DEFINE Within(h) ==
        /\ MaxUses # NoLimit => h.count <= MaxUses \/ h.count = 1
        /\ MaxAge # NoLimit => h.last - h.born < MaxAge \/ h.last = h.born
  <1> SUFFICES ASSUME NEW k \in DOMAIN issued'
               PROVE  Within(issued'[k])
    BY DEF RotationLimits
  <1>1. CASE k # Token(c, i)
    <2>1. k \in DOMAIN issued /\ issued'[k] = issued[k]
      BY <1>1, <1>w DEF Writes
    <2> QED
      BY <2>1 DEF RotationLimits
  <1>2. CASE k = Token(c, i)
    <2>1. issued'[k] = Record(Token(c, i), c, i)
      BY <1>2, <1>w DEF Writes
    <2>2. CASE Token(c, i) = nextToken
      BY <2>1, <2>2, <1>h DEF GivenTo
    <2>3. CASE Token(c, i) # nextToken
      <3>1. /\ ~ Stale(entries[c][i])
            /\ Record(Token(c, i), c, i).born = entries[c][i].createdAt
            /\ Record(Token(c, i), c, i).last = now
            /\ Record(Token(c, i), c, i).count = entries[c][i].uses + 1
        BY <2>3, <1>h DEF GivenTo
      <3>2. entries[c][i] \in Entry /\ now \in Nat
        BY DEF IsolationTypeOK
      <3> QED
        BY <2>1, <3>1, <3>2, LimitAssumption
           DEF Stale, AgeReached, UsesReached, Entry
    <2> QED
      BY <2>2, <2>3
  <1> QED
    BY <1>1, <1>2

\* The strengthened invariant holds throughout, for any interleaving of calls.
THEOREM Inductive == IsolationSpec => []IndInv
  <1>1. IsolationInit => IndInv
    <2> SUFFICES ASSUME IsolationInit PROVE IndInv
      OBVIOUS
    <2>1. Absent \in Entry
      BY DEF Absent, Entry
    <2>2. issued \in [1..(nextToken - 1) -> History] /\ DOMAIN issued = {}
      BY DEF IsolationInit
    <2>3. IsolationTypeOK
      BY <2>1, <2>2 DEF IsolationInit, IsolationTypeOK, History
    <2> QED
      BY <2>2, <2>3 DEF IsolationInit, IndInv, Linked, NoSharing, RotationLimits, Absent
  <1>2. IndInv /\ [IsolationNext]_isolationVars => IndInv'
    <2> SUFFICES ASSUME IndInv, [IsolationNext]_isolationVars PROVE IndInv'
      OBVIOUS
    <2>1. CASE ClockTick
      <3>1. now' \in Nat
        BY <2>1 DEF ClockTick, IndInv, IsolationTypeOK
      <3> QED
        BY <2>1, <3>1 DEF ClockTick, IndInv, IsolationTypeOK, Linked, NoSharing, RotationLimits
    <2>2. ASSUME NEW c \in Cores, NEW i \in Identities, token_for(c, i)
          PROVE  IndInv'
      BY <2>2, TokenForTypeOK, TokenForLinked, TokenForNoSharing,
         TokenForRotationLimits DEF IndInv
    <2>3. CASE UNCHANGED isolationVars
      BY <2>3 DEF isolationVars, IndInv, IsolationTypeOK, Linked, NoSharing, RotationLimits
    <2> QED
      BY <2>1, <2>2, <2>3 DEF IsolationNext
  <1> QED
    BY <1>1, <1>2, PTL DEF IsolationSpec

\* The map and the history of tokens keep their types under token_for.
THEOREM TypeCorrect == IsolationSpec => []IsolationTypeOK
  BY Inductive, PTL DEF IndInv

\* token_for never gives one token to two identities, or to two clients.
THEOREM NoSharingHolds == IsolationSpec => []NoSharing
  BY Inductive, PTL DEF IndInv

\* token_for never uses a token beyond max_uses or max_age.
THEOREM RotationLimitsHolds == IsolationSpec => []RotationLimits
  BY Inductive, PTL DEF IndInv
=============================================================================
