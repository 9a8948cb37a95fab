-------------------------- MODULE WeatherFlowProofs --------------------------
(***************************************************************************)
(* The weather consumer never commits ahead of the tables, for every set   *)
(* of stations and alerts and every number of failures and changes.        *)
(***************************************************************************)
EXTENDS WeatherFlow, NatSetProofs, SequenceTheorems, FiniteSetTheorems, TLAPS

(* How far this process is through with a topic.                           *)
Done(t) == IF at \in {"write", "reconnect"} /\ t = topic
           THEN position[t] - 1 ELSE position[t]

(* A key is only ever in its own topic.                                    *)
InItsTopic(messages, t) ==
    \A i \in 1..Len(messages) : messages[i].kind = "good" => TopicOf(messages[i].key) = t

(* What is not in hand any more has its row; the offsets to commit stay    *)
(* behind that.  A message that is read again overwrites only what is as   *)
(* old as itself, because everything done is at or before the message in   *)
(* hand.                                                                   *)
OffsetsOK ==
    /\ at \in {"write", "reconnect", "commit"} => topic \in Topics /\ position[topic] > 0
    /\ \A t \in Topics : committed[t] <= Done(t) /\ pending[t] <= Done(t)

RowsOK == \A t \in Topics : \A i \in 1..Done(t) : log[t][i].kind = "good" => HasRow(t, i)

FlowInv ==
    /\ TypeOK
    /\ \A t \in Topics : InItsTopic(log[t], t) /\ InItsTopic(queue[t], t)
    /\ OffsetsOK
    /\ RowsOK

-----------------------------------------------------------------------------
(* A message that is good has a key and a signature.                       *)
LEMMA GoodMessages ==
  /\ \A m \in Message : m.kind = "good" => m.key \in Keys /\ m.signature \in Signatures
  /\ \A m \in Published : m \in Message /\ m.kind = "good" /\ m.key \in Keys
  /\ \A k \in Keys, s \in Signatures : Good(k, s) \in Published /\ Good(k, s).key = k
  /\ \A kind \in {"garbled", "unwritable"} : Junk(kind) \in Message /\ Junk(kind).kind # "good"
BY DEF Message, Published, Good, Junk

LEMMA TopicsOfKeys == \A k : TopicOf(k) \in Topics
BY DEF TopicOf, Topics, OBS_TOPIC, ALERTS_TOPIC

(* What a topic's sequence gains at its end disturbs nothing before it.    *)
LEMMA AppendKeepsTopic ==
  ASSUME NEW M, NEW s \in Seq(M), NEW m \in M, NEW t, InItsTopic(s, t),
         m.kind = "good" => TopicOf(m.key) = t
  PROVE  InItsTopic(Append(s, m), t)
BY DEF InItsTopic

LEMMA TailKeepsTopic ==
  ASSUME NEW s \in Seq(Published), s # <<>>, NEW t, InItsTopic(s, t)
  PROVE  /\ Tail(s) \in Seq(Published) /\ InItsTopic(Tail(s), t)
         /\ Head(s) \in Published /\ Head(s) \in Message /\ Head(s).key \in Keys
         /\ Head(s).kind = "good" => TopicOf(Head(s).key) = t
<1>1. Tail(s) \in Seq(Published) /\ Head(s) \in Published /\ Head(s) = s[1] /\ 1 \in 1..Len(s)
  OBVIOUS
<1>2. InItsTopic(Tail(s), t)
  BY DEF InItsTopic
<1>3. QED
  BY <1>1, <1>2, GoodMessages DEF InItsTopic

(* Rows stay good while the topics only grow.                              *)
LEMMA AppendKeepsRows ==
  ASSUME FlowInv, NEW t \in Topics, NEW m \in Message,
         log' = [log EXCEPT ![t] = Append(@, m)],
         UNCHANGED consumerVars
  PROVE  RowsOK'
<1>1. \A u \in Topics : /\ log[u] \in Seq(Message) /\ log'[u] \in Seq(Message)
                        /\ Len(log'[u]) \in Nat /\ Len(log[u]) \in Nat
                        /\ Len(log'[u]) >= Len(log[u])
                        /\ \A i \in 1..Len(log[u]) : log'[u][i] = log[u][i]
  BY DEF FlowInv, TypeOK
<1>2. \A u \in Topics : Done(u)' = Done(u) /\ Done(u) \in Int /\ Done(u) <= Len(log[u])
  BY DEF FlowInv, TypeOK, ConsumerTypeOK, Done, consumerVars, offsetVars
<1>3. SUFFICES ASSUME NEW u \in Topics, NEW i \in 1..Done(u), log'[u][i].kind = "good"
               PROVE  HasRow(u, i)'
  BY <1>2 DEF RowsOK
<1>4. i \in 1..Len(log[u]) /\ log'[u][i] = log[u][i]
  BY <1>1, <1>2
<1>5. HasRow(u, i)
  BY <1>3, <1>4 DEF FlowInv, RowsOK
<1>6. PICK j \in i..Len(log[u]) :
         /\ log[u][j].key = log[u][i].key
         /\ u = OBS_TOPIC => log[u][j] = log[u][i]
         /\ [key |-> log[u][j].key, signature |-> log[u][j].signature] \in table
  BY <1>5 DEF HasRow
<1>7. j \in i..Len(log'[u]) /\ log'[u][j] = log[u][j]
  BY <1>1, <1>4
<1>8. QED
  BY <1>4, <1>6, <1>7 DEF HasRow, consumerVars, postgresVars

(* The upsert of the message in hand writes its row, and what it           *)
(* overwrites it replaces.                                                 *)
LEMMA UpsertKeepsRows ==
  ASSUME FlowInv, at = "write", InHand.kind = "good",
         table' = Upserted(InHand), UNCHANGED <<log, topic, position>>
  PROVE  \A t \in Topics : \A i \in 1..position[t] : log[t][i].kind = "good" => HasRow(t, i)'
<1> DEFINE p == position[topic]
           row(m) == [key |-> m.key, signature |-> m.signature]
<1>1. /\ topic \in Topics /\ p \in 1..Len(log[topic])
      /\ InHand = log[topic][p] /\ TopicOf(InHand.key) = topic
  BY DEF FlowInv, OffsetsOK, TypeOK, ConsumerTypeOK, InHand, InItsTopic
<1>2. row(InHand) \in table' /\ \A r \in table : r.key # InHand.key => r \in table'
  BY DEF Upserted
<1>3. SUFFICES ASSUME NEW t \in Topics, NEW i \in 1..position[t], log[t][i].kind = "good"
               PROVE  HasRow(t, i)'
  OBVIOUS
<1>4. CASE t = topic /\ i = p
  BY <1>1, <1>2, <1>4 DEF HasRow
<1>5. CASE ~(t = topic /\ i = p)
  <2>1. i \in 1..Done(t) /\ (t = topic => i < p)
    BY <1>1, <1>5 DEF FlowInv, TypeOK, ConsumerTypeOK, Done
  <2>2. PICK j \in i..Len(log[t]) :
           /\ log[t][j].key = log[t][i].key
           /\ t = OBS_TOPIC => log[t][j] = log[t][i]
           /\ row(log[t][j]) \in table
    BY <1>3, <2>1 DEF FlowInv, RowsOK, HasRow
  <2>3. CASE row(log[t][j]) \in table'
    BY <2>2, <2>3 DEF HasRow
  <2>4. CASE row(log[t][j]) \notin table'
    <3>1. log[t][j].key = InHand.key /\ InHand.key \notin Stations
      BY <2>2, <2>4 DEF Upserted
    <3>2. TopicOf(log[t][i].key) = t
      <4>1. i \in 1..Len(log[t])
        <5>1. i \in Nat /\ 1 <= i
          BY <1>3 DEF FlowInv, TypeOK, ConsumerTypeOK
        <5>2. i <= j /\ j <= Len(log[t]) /\ Len(log[t]) \in Nat /\ j \in Int
          BY <2>2, <5>1 DEF FlowInv, TypeOK
        <5>3. QED
          BY <5>1, <5>2
      <4>2. QED
        BY <1>3, <4>1 DEF FlowInv, InItsTopic
    <3>3. t = topic /\ t # OBS_TOPIC
      BY <1>1, <2>2, <3>1, <3>2 DEF TopicOf, OBS_TOPIC, ALERTS_TOPIC
    <3>4. QED
      BY <1>1, <1>2, <2>1, <2>2, <3>1, <3>3 DEF HasRow
  <2>5. QED
    BY <2>3, <2>4
<1>6. QED
  BY <1>4, <1>5

-----------------------------------------------------------------------------
LEMMA FlowInvInitially == Init => FlowInv
<1> SUFFICES ASSUME Init PROVE FlowInv
  OBVIOUS
<1> USE DEF Init, ProducerInit, ConsumerInit
<1>1. TypeOK
  <2>1. log \in [Topics -> Seq(Message)] /\ faults \in Nat
    OBVIOUS
  <2>2. ProducerTypeOK
    BY DEF ProducerTypeOK
  <2>3. ConsumerTypeOK
    <3>1. \A t \in Topics : Len(log[t]) = 0
      OBVIOUS
    <3>2. \A f \in {position, pending, committed} :
             f \in [Topics -> Nat] /\ \A t \in Topics : f[t] <= Len(log[t])
      BY <3>1
    <3>3. QED
      BY <3>2 DEF ConsumerTypeOK
  <2>4. QED
    BY <2>1, <2>2, <2>3 DEF TypeOK
<1>2. \A t \in Topics : InItsTopic(log[t], t) /\ InItsTopic(queue[t], t)
  BY DEF InItsTopic
<1>3. OffsetsOK /\ RowsOK
  BY DEF OffsetsOK, RowsOK, Done
<1>4. QED
  BY <1>1, <1>2, <1>3 DEF FlowInv

(* The consumer's part of the invariant is about nothing else.             *)
LEMMA ConsumerAtRest ==
  ASSUME FlowInv, UNCHANGED <<log, consumerVars>>
  PROVE  ConsumerTypeOK' /\ OffsetsOK' /\ RowsOK' /\ \A t \in Topics : InItsTopic(log[t], t)'
<1> USE DEF consumerVars, offsetVars, postgresVars
<1>1. ConsumerTypeOK'
  BY DEF FlowInv, TypeOK, ConsumerTypeOK
<1>2. OffsetsOK'
  BY DEF FlowInv, OffsetsOK, Done
<1>3. \A t \in Topics : Done(t)' = Done(t)
  BY DEF Done
<1>4. \A t, i : HasRow(t, i)' = HasRow(t, i)
  BY DEF HasRow
<1>5. RowsOK'
  BY <1>3, <1>4 DEF FlowInv, RowsOK
<1>6. QED
  BY <1>1, <1>2, <1>5 DEF FlowInv, InItsTopic

(* A message more in a topic.                                              *)
LEMMA AppendKeepsInv ==
  ASSUME FlowInv, NEW t \in Topics, NEW m \in Message,
         m.kind = "good" => TopicOf(m.key) = t,
         log' = [log EXCEPT ![t] = Append(@, m)],
         UNCHANGED consumerVars, ProducerTypeOK', faults' \in Nat,
         \A u \in Topics : InItsTopic(queue[u], u)'
  PROVE  FlowInv'
<1>1. log' \in [Topics -> Seq(Message)] /\ \A u \in Topics : Len(log[u]) <= Len(log'[u])
  BY DEF FlowInv, TypeOK
<1>2. ConsumerTypeOK'
  <2>1. \A u \in Topics : Len(log[u]) \in Nat /\ Len(log'[u]) \in Nat
    BY <1>1 DEF FlowInv, TypeOK
  <2>2. QED
    BY <1>1, <2>1 DEF FlowInv, TypeOK, ConsumerTypeOK, consumerVars, offsetVars, postgresVars
<1>3. \A u \in Topics : InItsTopic(log[u], u)'
  <2> SUFFICES ASSUME NEW u \in Topics PROVE InItsTopic(log'[u], u)
    OBVIOUS
  <2>1. log[u] \in Seq(Message) /\ InItsTopic(log[u], u)
    BY DEF FlowInv, TypeOK
  <2>2. CASE u = t
    <3>1. log'[u] = Append(log[u], m)
      BY <2>2 DEF FlowInv, TypeOK
    <3>2. QED
      BY <2>1, <2>2, <3>1, AppendKeepsTopic
  <2>3. CASE u # t
    BY <2>1, <2>3 DEF FlowInv, TypeOK
  <2>4. QED
    BY <2>2, <2>3
<1>4. OffsetsOK'
  BY DEF FlowInv, OffsetsOK, Done, consumerVars, offsetVars
<1>5. RowsOK'
  BY AppendKeepsRows
<1>6. QED
  BY <1>1, <1>2, <1>3, <1>4, <1>5 DEF FlowInv, TypeOK

-----------------------------------------------------------------------------
LEMMA ProducerKeepsInv ==
  ASSUME FlowInv, ProducerNext, UNCHANGED consumerVars
  PROVE  FlowInv'
<1> USE DEF Fault
<1>1. TypeOK /\ log \in [Topics -> Seq(Message)] /\ faults \in Nat /\ ProducerTypeOK
  BY DEF FlowInv, TypeOK
<1>2. ASSUME UNCHANGED <<log, queue>>, ProducerTypeOK', faults' \in Nat
      PROVE  FlowInv'
  BY <1>1, <1>2, ConsumerAtRest DEF FlowInv, TypeOK
<1>3. CASE Change
  BY <1>1, <1>2, <1>3 DEF Change, ProducerTypeOK
<1>4. CASE StartPass(Topics) \/ \E t \in Topics : StartPass({t})
  <2>1. remaining' \in Seq(Keys)
    <3>1. ALERTS_TOPIC \in Topics /\ OBS_TOPIC \in Topics
      BY DEF Topics
    <3>2. Order[ALERTS_TOPIC] \in Seq(Keys) /\ Order[OBS_TOPIC] \in Seq(Keys)
      BY <3>1, OrderAssumption
    <3>3. QED
      <4>1. \A topics : StartPass(topics) => remaining' \in Seq(Keys)
        BY <3>2 DEF StartPass
      <4>2. QED
        BY <1>4, <4>1
  <2>2. QED
    BY <1>1, <1>2, <1>4, <2>1 DEF StartPass, ProducerTypeOK
<1>5. CASE PollKey
  <2> DEFINE k == Head(remaining)
  <2>1. k \in Keys /\ Tail(remaining) \in Seq(Keys)
    BY <1>1, <1>5 DEF PollKey, ProducerTypeOK
  <2>2. CASE ~Changed(k)
    BY <1>1, <1>2, <1>5, <2>1, <2>2 DEF PollKey, ProducerTypeOK
  <2>3. CASE Changed(k)
    <3> DEFINE t == TopicOf(k)
               m == Good(k, source[k])
    <3>1. /\ queue' = [queue EXCEPT ![t] = Append(queue[t], m)]
          /\ remembered' = [remembered EXCEPT ![k] = source[k]]
          /\ remaining' = Tail(remaining)
          /\ UNCHANGED <<source, changes, lost, repeats, log, faults>>
      BY <1>5, <2>3 DEF PollKey
    <3>2. /\ source[k] \in Signatures
          /\ m \in Published /\ m.kind = "good" /\ m.key = k
          /\ t \in Topics
      BY <1>1, <2>1, <2>3, GoodMessages, TopicsOfKeys DEF Changed, ProducerTypeOK
    <3>3. queue[t] \in Seq(Published) /\ InItsTopic(queue[t], t)
      BY <1>1, <3>2 DEF ProducerTypeOK, FlowInv
    <3> HIDE DEF m
    <3>4. Append(queue[t], m) \in Seq(Published) /\ InItsTopic(Append(queue[t], m), t)
      BY <3>2, <3>3, AppendKeepsTopic
    <3>5. ProducerTypeOK'
      BY <1>1, <2>1, <3>1, <3>2, <3>4 DEF ProducerTypeOK
    <3>6. \A u \in Topics : InItsTopic(queue[u], u)'
      BY <1>1, <3>1, <3>4 DEF FlowInv, ProducerTypeOK
    <3>7. QED
      BY <1>1, <3>1, <3>5, <3>6, ConsumerAtRest DEF FlowInv, TypeOK
  <2>4. QED
    BY <2>2, <2>3
<1>6. CASE PollFails
  <2>1. Tail(remaining) \in Seq(Keys)
    BY <1>1, <1>6 DEF PollFails, ProducerTypeOK
  <2>2. QED
    BY <1>1, <1>2, <1>6, <2>1 DEF PollFails, ProducerTypeOK
<1>7. CASE PollRaises
  BY <1>1, <1>2, <1>7 DEF PollRaises, ProducerTypeOK
<1>8. ASSUME NEW t \in Topics, Deliver(t) \/ DeliverTwice(t) \/ DeliveryFails(t)
      PROVE  FlowInv'
  <2>1. queue[t] # <<>> /\ queue[t] \in Seq(Published) /\ InItsTopic(queue[t], t)
    BY <1>1, <1>8 DEF Deliver, DeliverTwice, DeliveryFails, FlowInv, ProducerTypeOK
  <2>2. /\ Tail(queue[t]) \in Seq(Published) /\ InItsTopic(Tail(queue[t]), t)
        /\ Head(queue[t]) \in Message /\ Head(queue[t]).key \in Keys
        /\ Head(queue[t]).kind = "good" => TopicOf(Head(queue[t]).key) = t
    BY <2>1, TailKeepsTopic
  <2>3. \A u \in Topics : InItsTopic(queue[u], u)'
    BY <1>1, <1>8, <2>2 DEF Deliver, DeliverTwice, DeliveryFails, FlowInv, ProducerTypeOK
  <2>4. CASE Deliver(t)
    <3>1. ProducerTypeOK'
      BY <1>1, <2>2, <2>4 DEF Deliver, ProducerTypeOK
    <3>2. QED
      BY <1>1, <2>2, <2>3, <2>4, <3>1, AppendKeepsInv DEF Deliver
  <2>5. CASE DeliverTwice(t)
    <3>1. ProducerTypeOK' /\ faults' \in Nat
      BY <1>1, <2>5 DEF DeliverTwice, ProducerTypeOK
    <3>2. log' = [log EXCEPT ![t] = Append(@, Head(queue[t]))]
      BY <2>5 DEF DeliverTwice
    <3>3. QED
      BY <2>2, <2>3, <3>1, <3>2, AppendKeepsInv
  <2>6. CASE DeliveryFails(t)
    <3>1. ProducerTypeOK' /\ UNCHANGED log
      BY <1>1, <2>2, <2>6 DEF DeliveryFails, ProducerTypeOK
    <3>2. QED
      BY <1>1, <2>3, <2>6, <3>1, ConsumerAtRest DEF DeliveryFails, FlowInv, TypeOK
  <2>7. QED
    BY <1>8, <2>4, <2>5, <2>6
<1>9. CASE ProducerCrash
  <2>1. ProducerTypeOK' /\ faults' \in Nat /\ UNCHANGED log
    BY <1>1, <1>9 DEF ProducerCrash, ProducerTypeOK
  <2>2. \A u \in Topics : InItsTopic(queue[u], u)'
    BY <1>9 DEF ProducerCrash, InItsTopic
  <2>3. QED
    BY <1>1, <2>1, <2>2, ConsumerAtRest DEF FlowInv, TypeOK
<1>10. QED
  BY <1>3, <1>4, <1>5, <1>6, <1>7, <1>8, <1>9 DEF ProducerNext

-----------------------------------------------------------------------------
(* Rows stay while the tables do and nothing more counts as done.          *)
LEMMA RowsStay ==
  ASSUME FlowInv, UNCHANGED <<log, table>>,
         \A t \in Topics : Done(t)' \in Int /\ Done(t)' <= Done(t)
  PROVE  RowsOK'
<1>1. \A t \in Topics : Done(t) \in Int
  BY DEF FlowInv, TypeOK, ConsumerTypeOK, Done
<1>2. \A t, i : HasRow(t, i)' = HasRow(t, i)
  BY DEF HasRow
<1>3. \A t \in Topics : \A i \in 1..Done(t)' : i \in 1..Done(t)
  BY <1>1
<1>4. \A t \in Topics : \A i \in 1..Done(t)' : log[t][i].kind = "good" => HasRow(t, i)
  BY <1>3 DEF FlowInv, RowsOK
<1>5. QED
  BY <1>2, <1>4 DEF RowsOK

LEMMA ConsumerKeepsInv ==
  ASSUME FlowInv, ConsumerNext, UNCHANGED producerVars
  PROVE  FlowInv'
<1> USE DEF Fault
<1>1. /\ TypeOK /\ faults \in Nat /\ ConsumerTypeOK /\ OffsetsOK
      /\ \A t \in Topics : /\ log[t] \in Seq(Message) /\ Len(log[t]) \in Nat
                           /\ position[t] \in Nat /\ pending[t] \in Nat /\ committed[t] \in Nat
                           /\ position[t] <= Len(log[t])
  BY DEF FlowInv, TypeOK, ConsumerTypeOK
<1>2. ASSUME UNCHANGED log, faults' \in Nat, ConsumerTypeOK', OffsetsOK', RowsOK'
      PROVE  FlowInv'
  <2>1. ProducerTypeOK'
    BY DEF producerVars, FlowInv, TypeOK, ProducerTypeOK
  <2>2. QED
    BY <1>2, <2>1 DEF FlowInv, TypeOK, producerVars
<1>3. ASSUME UNCHANGED <<log, offsetVars, table>>, faults' \in Nat,
             running' \in BOOLEAN, connected' \in BOOLEAN, postgres' \in BOOLEAN,
             \/ at' = at
             \/ at \in {"down", "connect"} /\ at' \in {"connect", "poll"}
             \/ at \in {"write", "reconnect"} /\ at' \in {"write", "reconnect"}
      PROVE  FlowInv'
  <2>1. \A t \in Topics : Done(t)' = Done(t) /\ Done(t) \in Int
    BY <1>1, <1>3 DEF Done, offsetVars
  <2>2. ConsumerTypeOK' /\ OffsetsOK'
    BY <1>1, <1>3, <2>1 DEF ConsumerTypeOK, OffsetsOK, offsetVars
  <2>3. QED
    BY <1>2, <1>3, <2>1, <2>2, RowsStay
<1>4. ASSUME End, faults' \in Nat
      PROVE  FlowInv'
  <2>1. \A t \in Topics : Done(t)' = committed[t] /\ committed[t] <= Done(t)
    BY <1>1, <1>4 DEF End, Done, OffsetsOK
  <2>2. ConsumerTypeOK'
    BY <1>1, <1>4 DEF End, ConsumerTypeOK
  <2>3. OffsetsOK' /\ RowsOK'
    BY <1>1, <1>4, <2>1, RowsStay DEF End, OffsetsOK
  <2>4. QED
    BY <1>2, <1>4, <2>2, <2>3 DEF End
<1>5. CASE Start \/ Connect \/ WriteFails \/ Stop \/ PostgresUp
  <2>1. running \in BOOLEAN /\ connected \in BOOLEAN /\ postgres \in BOOLEAN
    BY <1>1 DEF ConsumerTypeOK
  <2>2. CASE Start \/ WriteFails
    BY <1>1, <1>3, <2>1, <2>2 DEF Start, WriteFails, offsetVars, postgresVars
  <2>3. CASE Connect
    BY <1>1, <1>3, <2>1, <2>3 DEF Connect, offsetVars
  <2>4. CASE Stop
    <3>1. /\ faults' \in Nat /\ at' = at /\ running' = FALSE
          /\ UNCHANGED <<log, offsetVars, table>> /\ UNCHANGED <<connected, postgres>>
      BY <1>1, <2>4 DEF Stop, postgresVars
    <3>2. QED
      BY <1>3, <2>1, <3>1
  <2>5. CASE PostgresUp
    BY <1>1, <1>3, <2>1, <2>5 DEF PostgresUp, offsetVars
  <2>6. QED
    BY <1>5, <2>2, <2>3, <2>4, <2>5
<1>6. CASE GiveUp \/ Close \/ ConsumerCrash
  BY <1>1, <1>4, <1>6 DEF GiveUp, Close, ConsumerCrash
<1>7. ASSUME NEW t \in Topics, Poll(t)
      PROVE  FlowInv'
  <2> DEFINE m == log[t][position[t] + 1]
  <2>1. /\ at = "poll" /\ position[t] < Len(log[t])
        /\ position' = [position EXCEPT ![t] = @ + 1]
        /\ UNCHANGED <<running, committed, postgresVars, log, faults>>
    BY <1>7 DEF Poll
  <2>2. \A u \in Topics : Done(u) = position[u]
    BY <2>1 DEF Done
  <2>3. CASE m.kind = "garbled"
    <3>1. pending' = [pending EXCEPT ![t] = position[t] + 1] /\ UNCHANGED <<at, topic>>
      BY <1>7, <2>3 DEF Poll
    <3>2. ConsumerTypeOK'
      BY <1>1, <2>1, <3>1 DEF ConsumerTypeOK, postgresVars
    <3>3. \A u \in Topics : Done(u)' = position'[u]
      BY <2>1, <3>1 DEF Done
    <3>4. OffsetsOK'
      BY <1>1, <2>1, <2>2, <3>1, <3>3 DEF OffsetsOK, ConsumerTypeOK
    <3>5. \A u \in Topics : \A i \in 1..position'[u] :
             i \in 1..Done(u) \/ log[u][i].kind # "good"
      BY <1>1, <2>1, <2>2, <2>3 DEF ConsumerTypeOK
    <3>6. \A u \in Topics : \A i \in 1..position'[u] :
             log[u][i].kind = "good" => HasRow(u, i)
      BY <3>5 DEF FlowInv, RowsOK
    <3>7. \A u, i : HasRow(u, i)' = HasRow(u, i)
      BY <2>1 DEF HasRow, postgresVars
    <3>8. RowsOK'
      BY <2>1, <3>3, <3>6, <3>7 DEF RowsOK
    <3>9. QED
      BY <1>1, <1>2, <2>1, <3>2, <3>4, <3>8
  <2>4. CASE m.kind # "garbled"
    <3>1. at' = "write" /\ topic' = t /\ UNCHANGED pending
      BY <1>7, <2>4 DEF Poll
    <3>2. ConsumerTypeOK'
      BY <1>1, <2>1, <3>1 DEF ConsumerTypeOK, postgresVars
    <3>3. \A u \in Topics : Done(u)' = Done(u) /\ Done(u) \in Int
      BY <1>1, <2>1, <2>2, <3>1 DEF Done, ConsumerTypeOK
    <3>4. OffsetsOK'
      BY <1>1, <2>1, <3>1, <3>3 DEF OffsetsOK, ConsumerTypeOK
    <3>5. RowsOK'
      BY <2>1, <3>3, RowsStay DEF postgresVars
    <3>6. QED
      BY <1>1, <1>2, <2>1, <3>2, <3>4, <3>5
  <2>5. QED
    BY <2>3, <2>4
<1>8. CASE Write
  <2>1. /\ at = "write" /\ at' = "commit"
        /\ UNCHANGED <<running, offsetVars, connected, postgres, log, faults>>
    BY <1>8 DEF Write
  <2>2. /\ topic \in Topics /\ position[topic] > 0
        /\ InHand = log[topic][position[topic]] /\ InHand \in Message
    BY <1>1, <2>1 DEF OffsetsOK, InHand
  <2>3. \A t \in Topics : Done(t)' = position[t] /\ Done(t) <= position[t]
    BY <1>1, <2>1 DEF Done, offsetVars
  <2>4. OffsetsOK'
    BY <1>1, <2>1, <2>2, <2>3 DEF OffsetsOK, offsetVars, Done
  <2>5. CASE InHand.kind = "good"
    <3>1. table' = Upserted(InHand)
      BY <1>8, <2>5 DEF Write
    <3>2. InHand.key \in Keys /\ InHand.signature \in Signatures
      BY <2>2, <2>5, GoodMessages
    <3>3. ConsumerTypeOK'
      BY <1>1, <2>1, <3>1, <3>2 DEF ConsumerTypeOK, Upserted, offsetVars
    <3>4. \A t \in Topics : \A i \in 1..position[t] : log[t][i].kind = "good" => HasRow(t, i)'
      BY <2>1, <2>5, <3>1, UpsertKeepsRows DEF offsetVars
    <3>5. RowsOK'
      BY <2>1, <2>3, <3>4 DEF RowsOK
    <3>6. QED
      BY <1>1, <1>2, <2>1, <2>4, <3>3, <3>5
  <2>6. CASE InHand.kind # "good"
    <3>1. UNCHANGED table
      BY <1>8, <2>6 DEF Write
    <3>2. ConsumerTypeOK'
      BY <1>1, <2>1, <3>1 DEF ConsumerTypeOK, offsetVars
    <3>3. \A t \in Topics : \A i \in 1..position[t] :
             i \in 1..Done(t) \/ log[t][i].kind # "good"
      BY <1>1, <2>1, <2>2, <2>6 DEF Done
    <3>4. \A t \in Topics : \A i \in 1..position[t] :
             log[t][i].kind = "good" => HasRow(t, i)
      BY <3>3 DEF FlowInv, RowsOK
    <3>5. \A t, i : HasRow(t, i)' = HasRow(t, i)
      BY <2>1, <3>1 DEF HasRow
    <3>6. RowsOK'
      BY <2>1, <2>3, <3>4, <3>5 DEF RowsOK
    <3>7. QED
      BY <1>1, <1>2, <2>1, <2>4, <3>2, <3>6
  <2>7. QED
    BY <2>5, <2>6
<1>9. CASE Commit
  <2>1. /\ at = "commit" /\ at' = "poll" /\ topic' = Null /\ topic \in Topics
        /\ pending' = [pending EXCEPT ![topic] = position[topic]]
        /\ UNCHANGED <<running, position, committed, postgresVars, log, faults>>
    BY <1>1, <1>9 DEF Commit, OffsetsOK
  <2>2. \A t \in Topics : Done(t)' = position[t] /\ Done(t) = position[t]
    BY <2>1 DEF Done
  <2>3. ConsumerTypeOK' /\ OffsetsOK'
    BY <1>1, <2>1, <2>2 DEF ConsumerTypeOK, OffsetsOK, postgresVars
  <2>4. RowsOK'
    BY <1>1, <2>1, <2>2, RowsStay DEF postgresVars
  <2>5. QED
    BY <1>1, <1>2, <2>1, <2>3, <2>4
<1>10. ASSUME NEW t \in Topics, CommitSent(t)
       PROVE  FlowInv'
  <2>1. /\ committed' = [committed EXCEPT ![t] = pending[t]]
        /\ UNCHANGED <<at, running, topic, position, pending, postgresVars, log, faults>>
    BY <1>10 DEF CommitSent
  <2>2. \A u \in Topics : Done(u)' = Done(u) /\ Done(u) \in Int
    BY <1>1, <2>1 DEF Done
  <2>3. ConsumerTypeOK' /\ OffsetsOK'
    BY <1>1, <2>1, <2>2 DEF ConsumerTypeOK, OffsetsOK, postgresVars
  <2>4. RowsOK'
    BY <2>1, <2>2, RowsStay DEF postgresVars
  <2>5. QED
    BY <1>1, <1>2, <2>1, <2>3, <2>4
<1>11. CASE PostgresDown
  <2>1. /\ faults' \in Nat /\ postgres' = FALSE /\ connected' = FALSE
        /\ UNCHANGED <<running, offsetVars, log>>
    BY <1>1, <1>11 DEF PostgresDown
  <2>2. CASE UNCHANGED <<at, table>>
    BY <1>1, <1>3, <2>1, <2>2 DEF ConsumerTypeOK
  <2>3. CASE /\ at = "write" /\ InHand.kind = "good"
             /\ table' = Upserted(InHand) /\ at' = "reconnect"
    <3>1. topic \in Topics /\ position[topic] > 0 /\ InHand \in Message
      BY <1>1, <2>3 DEF OffsetsOK, InHand
    <3>2. InHand.key \in Keys /\ InHand.signature \in Signatures
      BY <2>3, <3>1, GoodMessages
    <3>3. ConsumerTypeOK'
      <4>1. table' \subseteq [key : Keys, signature : Signatures]
        BY <1>1, <2>3, <3>2 DEF ConsumerTypeOK, Upserted
      <4>2. running' \in BOOLEAN /\ connected' \in BOOLEAN /\ postgres' \in BOOLEAN
        BY <1>1, <2>1 DEF ConsumerTypeOK
      <4>3. UNCHANGED <<log, topic, position, pending, committed>> /\ at' = "reconnect"
        BY <2>1, <2>3 DEF offsetVars
      <4>4. QED
        BY <1>1, <4>1, <4>2, <4>3 DEF ConsumerTypeOK
    <3>4. \A t \in Topics : /\ Done(t)' = Done(t) /\ Done(t) \in Int
                            /\ Done(t) <= position[t]
      BY <1>1, <2>1, <2>3 DEF Done, offsetVars
    <3>5. OffsetsOK'
      BY <1>1, <2>1, <2>3, <3>1, <3>4 DEF OffsetsOK, offsetVars
    <3>6. \A t \in Topics : \A i \in 1..position[t] : log[t][i].kind = "good" => HasRow(t, i)'
      BY <2>1, <2>3, UpsertKeepsRows DEF offsetVars
    <3>7. RowsOK'
      BY <1>1, <2>1, <3>4, <3>6 DEF RowsOK
    <3>8. QED
      BY <1>2, <2>1, <3>3, <3>5, <3>7
  <2>4. QED
    BY <1>11, <2>2, <2>3 DEF PostgresDown
<1>12. QED
  BY <1>5, <1>6, <1>7, <1>8, <1>9, <1>10, <1>11 DEF ConsumerNext, ConsumerStep

-----------------------------------------------------------------------------
LEMMA FlowInvHolds == Spec => []FlowInv
<1>1. ASSUME FlowInv, [Next]_vars
      PROVE  FlowInv'
  <2>1. CASE ProducerNext /\ UNCHANGED consumerVars
    BY <1>1, <2>1, ProducerKeepsInv
  <2>2. CASE ConsumerNext /\ UNCHANGED producerVars
    BY <1>1, <2>2, ConsumerKeepsInv
  <2>3. CASE Garbage
    <3>1. PICK t \in Topics, kind \in {"garbled", "unwritable"} :
             log' = [log EXCEPT ![t] = Append(@, Junk(kind))]
      BY <2>3 DEF Garbage
    <3>2. Junk(kind) \in Message /\ Junk(kind).kind # "good"
      BY GoodMessages
    <3>3. UNCHANGED <<producerVars, consumerVars>> /\ faults' \in Nat
      BY <1>1, <2>3 DEF Garbage, Fault, FlowInv, TypeOK
    <3>4. ProducerTypeOK' /\ \A u \in Topics : InItsTopic(queue[u], u)'
      BY <1>1, <3>3 DEF producerVars, FlowInv, TypeOK, ProducerTypeOK
    <3>5. QED
      BY <1>1, <3>1, <3>2, <3>3, <3>4, AppendKeepsInv
  <2>4. CASE UNCHANGED vars
    <3>1. UNCHANGED <<log, faults, consumerVars>> /\ UNCHANGED producerVars
      BY <2>4 DEF vars
    <3>2. ProducerTypeOK' /\ \A u \in Topics : InItsTopic(queue[u], u)'
      BY <1>1, <3>1 DEF producerVars, FlowInv, TypeOK, ProducerTypeOK
    <3>3. QED
      BY <1>1, <3>1, <3>2, ConsumerAtRest DEF FlowInv, TypeOK
  <2>5. QED
    BY <1>1, <2>1, <2>2, <2>3, <2>4 DEF Next
<1>2. QED
  BY <1>1, FlowInvInitially, PTL DEF Spec

(* Whatever is published, garbled, delivered twice, stopped, crashed or    *)
(* read again: no offset is beyond its topic, and only rows of known keys  *)
(* are written.                                                            *)
THEOREM WeatherTypes == Spec => []TypeOK
<1>1. FlowInv => TypeOK
  BY DEF FlowInv
<1>2. QED
  BY <1>1, FlowInvHolds, PTL

(* "Offsets are committed only after a successful upsert": the consumer    *)
(* never commits what has no row, for every number of faults.              *)
THEOREM CommitNeverAheadOfTables == Spec => []CommitNeverAhead
<1>1. FlowInv => CommitNeverAhead
  <2> SUFFICES ASSUME FlowInv, NEW t \in Topics, NEW i \in 1..committed[t],
                      log[t][i].kind = "good"
               PROVE  HasRow(t, i)
    BY DEF CommitNeverAhead
  <2>1. i \in 1..Done(t)
    BY DEF FlowInv, OffsetsOK, TypeOK, ConsumerTypeOK, Done
  <2>2. QED
    BY <2>1 DEF FlowInv, RowsOK
<1>2. QED
  BY <1>1, FlowInvHolds, PTL

-----------------------------------------------------------------------------
(* Heartbeats.  What the producer has handed to a topic, delivered or not. *)
Handed(t) == log[t] \o queue[t]

(* The producer would publish again what it published last of a key.       *)
Stale(messages, k, signature) ==
    \E i \in 1..Len(messages) :
        /\ messages[i].key = k /\ messages[i] # Good(k, signature)
        /\ \A n \in (i + 1)..Len(messages) : messages[n].key # k

Spent(messages, k, signature) ==
    Cardinality(Again(messages, k)) + (IF Stale(messages, k, signature) THEN 1 ELSE 0)

RepeatsOK ==
    \A k \in Keys : Spent(Handed(TopicOf(k)), k, remembered[k]) <= repeats

(* Every message that repeats another but one corresponds to one that does.*)
LEMMA OneMore ==
  ASSUME NEW A, NEW B, IsFiniteSet(A), IsFiniteSet(B), NEW x,
         NEW f \in [A \ {x} -> B],
         \A i, j \in A \ {x} : f[i] = f[j] => i = j
  PROVE  /\ Cardinality(A) \in Nat /\ Cardinality(B) \in Nat
         /\ Cardinality(A) <= Cardinality(B) + 1
         /\ x \notin A => Cardinality(A) <= Cardinality(B)
<1>1. f \in Injection(A \ {x}, B)
  BY DEF Injection, IsInjective
<1>2. Cardinality(A \ {x}) <= Cardinality(B)
  BY <1>1, FS_Injection
<1>3. Cardinality(A) \in Nat /\ Cardinality(B) \in Nat
  BY FS_CardinalityType
<1>4. Cardinality(A \ {x}) = IF x \in A THEN Cardinality(A) - 1 ELSE Cardinality(A)
  BY FS_RemoveElement
<1>5. QED
  BY <1>2, <1>3, <1>4

LEMMA AgainIsFinite ==
  ASSUME NEW M, NEW s \in Seq(M), NEW k
  PROVE  /\ Again(s, k) \subseteq 1..Len(s)
         /\ IsFiniteSet(Again(s, k)) /\ Cardinality(Again(s, k)) \in Nat
<1>1. Again(s, k) \subseteq 1..Len(s) /\ Len(s) \in Nat
  BY DEF Again
<1>2. IsFiniteSet(1..Len(s))
  BY <1>1, FS_Interval
<1>3. IsFiniteSet(Again(s, k))
  BY <1>1, <1>2, FS_Subset
<1>4. QED
  BY <1>1, <1>3, FS_CardinalityType

LEMMA AgainAt ==
  ASSUME NEW M, NEW s \in Seq(M), NEW k, NEW i \in 1..Len(s), s[i].key = k,
         NEW j \in 1..(i - 1), s[j] = s[i], \A n \in (j + 1)..(i - 1) : s[n].key # k
  PROVE  i \in Again(s, k)
BY DEF Again

LEMMA StaleAt ==
  ASSUME NEW M, NEW s \in Seq(M), NEW k, NEW signature, NEW i \in 1..Len(s),
         s[i].key = k, s[i] # Good(k, signature),
         \A n \in (i + 1)..Len(s) : s[n].key # k
  PROVE  Stale(s, k, signature)
BY DEF Stale

(* A prefix repeats no more.                                               *)
LEMMA PrefixRepeatsLess ==
  ASSUME NEW M, NEW s \in Seq(M), NEW d \in Seq(M), NEW k,
         Len(d) <= Len(s), \A i \in 1..Len(d) : d[i] = s[i]
  PROVE  Cardinality(Again(d, k)) <= Cardinality(Again(s, k))
<1>0. Len(d) \in Nat /\ Len(s) \in Nat
  OBVIOUS
<1>1. Again(d, k) \subseteq Again(s, k)
  <2> SUFFICES ASSUME NEW i \in Again(d, k) PROVE i \in Again(s, k)
    OBVIOUS
  <2>1. i \in 1..Len(d) /\ d[i].key = k
    BY DEF Again
  <2>2. PICK j \in 1..(i - 1) : d[j] = d[i] /\ \A n \in (j + 1)..(i - 1) : d[n].key # k
    BY DEF Again
  <2>3. i \in DOMAIN s /\ s[i] = d[i] /\ s[j] = d[j]
    BY <1>0, <2>1, <2>2
  <2>4. \A n \in (j + 1)..(i - 1) : s[n] = d[n]
    BY <1>0, <2>1, <2>2
  <2>5. QED
    BY <2>1, <2>2, <2>3, <2>4 DEF Again
<1>2. QED
  BY <1>1, AgainIsFinite, FS_Subset

(* A message handed over at the end repeats one only if the producer had   *)
(* forgotten that one.                                                     *)
LEMMA HandedAtTheEnd ==
  ASSUME NEW M, NEW s \in Seq(M), NEW k, NEW old, NEW new, old # new,
         Good(k, new) \in M
  PROVE  Spent(Append(s, Good(k, new)), k, new) <= Spent(s, k, old)
<1> DEFINE m == Good(k, new)
           d == Append(s, m)
           l == Len(s) + 1
           A == Again(d, k)
           B == Again(s, k)
<1>0. /\ Len(s) \in Nat /\ d \in Seq(M) /\ Len(d) = l /\ d[l] = m
      /\ \A i \in 1..Len(s) : d[i] = s[i]
  OBVIOUS
<1>m. m.key = k /\ m.signature = new /\ Good(k, old) # m
  BY DEF Good
<1>1. ~Stale(d, k, new)
  <2> SUFFICES ASSUME NEW i \in 1..l, d[i].key = k, d[i] # m,
                      \A n \in (i + 1)..l : d[n].key # k
               PROVE  FALSE
    BY <1>0 DEF Stale
  <2>1. i # l
    BY <1>0
  <2>2. l \in (i + 1)..l
    BY <1>0, <2>1
  <2>3. QED
    BY <1>0, <1>m, <2>2
<1>2. \A i \in A \ {l} : i \in B
  <2> SUFFICES ASSUME NEW i \in A, i # l PROVE i \in B
    OBVIOUS
  <2>1. i \in 1..Len(s) /\ d[i].key = k
    BY <1>0 DEF Again
  <2>2. PICK j \in 1..(i - 1) : d[j] = d[i] /\ \A n \in (j + 1)..(i - 1) : d[n].key # k
    BY DEF Again
  <2>3. s[i] = d[i] /\ s[j] = d[j] /\ \A n \in (j + 1)..(i - 1) : s[n] = d[n]
    BY <1>0, <2>1, <2>2
  <2>4. QED
    BY <2>1, <2>2, <2>3 DEF Again
<1>3. ASSUME l \in A PROVE Stale(s, k, old)
  <2>1. PICK j \in 1..(l - 1) : d[j] = d[l] /\ \A n \in (j + 1)..(l - 1) : d[n].key # k
    BY <1>3 DEF Again
  <2>2. j \in 1..Len(s) /\ s[j] = m
    BY <1>0, <2>1
  <2>3. \A n \in (j + 1)..Len(s) : s[n].key # k
    BY <1>0, <2>1, <2>2
  <2>4. QED
    BY <1>m, <2>2, <2>3 DEF Stale
<1>4. IsFiniteSet(A) /\ IsFiniteSet(B)
  BY <1>0, AgainIsFinite
<1> HIDE DEF A, B, d, m
<1>5. /\ Cardinality(A) \in Nat /\ Cardinality(B) \in Nat
      /\ Cardinality(A) <= Cardinality(B) + 1
      /\ l \notin A => Cardinality(A) <= Cardinality(B)
  <2> DEFINE f == [i \in A \ {l} |-> i]
  <2>1. f \in [A \ {l} -> B] /\ \A i, j \in A \ {l} : f[i] = f[j] => i = j
    BY <1>2
  <2> HIDE DEF f
  <2>2. QED
    BY <1>4, <2>1, OneMore
<1>6. QED
  BY <1>1, <1>3, <1>5 DEF Spent, A, B, d, m

(* A message delivered twice repeats itself; another key's message, or     *)
(* none's, repeats nothing.                                                *)
LEMMA OneInserted ==
  ASSUME NEW M, NEW c \in Seq(M), NEW d \in Seq(M), NEW k, NEW signature,
         NEW p \in 0..Len(c), Len(d) = Len(c) + 1,
         \A i \in 1..p : d[i] = c[i],
         \A i \in (p + 1)..Len(c) : d[i + 1] = c[i],
         d[p + 1].key = k => p < Len(c) /\ c[p + 1] = d[p + 1]
  PROVE  Spent(d, k, signature)
           <= Spent(c, k, signature) + (IF d[p + 1].key = k THEN 1 ELSE 0)
<1> DEFINE A == Again(d, k)
           B == Again(c, k)
           twice == d[p + 1].key = k
<1>0. p \in Nat /\ Len(c) \in Nat /\ p <= Len(c)
  OBVIOUS
<1>t. twice => d[p + 2].key = k /\ p + 2 <= Len(d)
  BY <1>0
<1>1. ASSUME Stale(d, k, signature) PROVE Stale(c, k, signature)
  <2>1. PICK i \in 1..Len(d) : /\ d[i].key = k /\ d[i] # Good(k, signature)
                               /\ \A n \in (i + 1)..Len(d) : d[n].key # k
    BY <1>1 DEF Stale
  <2>2. i # p + 1
    BY <1>0, <1>t, <2>1
  <2>3. CASE i <= p
    <3>1. i \in 1..Len(c) /\ c[i] = d[i]
      BY <1>0, <2>1, <2>3
    <3>2. \A n \in (i + 1)..Len(c) : c[n].key # k
      <4> SUFFICES ASSUME NEW n \in (i + 1)..Len(c) PROVE c[n].key # k
        OBVIOUS
      <4>1. CASE n <= p
        BY <1>0, <2>1, <4>1
      <4>2. CASE n > p
        BY <1>0, <2>1, <4>2
      <4>3. QED
        BY <1>0, <4>1, <4>2
    <3>3. QED
      BY <2>1, <3>1, <3>2 DEF Stale
  <2>4. CASE i > p + 1
    <3>1. i - 1 \in 1..Len(c) /\ c[i - 1] = d[i]
      BY <1>0, <2>1, <2>4
    <3>2. \A n \in i..Len(c) : c[n] = d[n + 1] /\ n + 1 \in (i + 1)..Len(d)
      BY <1>0, <2>1, <2>4
    <3>3. \A n \in ((i - 1) + 1)..Len(c) : c[n].key # k
      BY <1>0, <2>1, <3>2
    <3>4. QED
      BY <2>1, <3>1, <3>3 DEF Stale
  <2>5. QED
    BY <1>0, <2>2, <2>3, <2>4
<1>2. ASSUME NEW i \in A, i <= p + 1 PROVE i \in B
  <2>1. i \in 1..Len(d) /\ d[i].key = k
    BY DEF Again
  <2>2. PICK j \in 1..(i - 1) : d[j] = d[i] /\ \A n \in (j + 1)..(i - 1) : d[n].key # k
    BY DEF Again
  <2>3. i \in 1..Len(c) /\ c[i] = d[i] /\ c[j] = d[j]
    BY <1>0, <1>2, <2>1, <2>2
  <2>4. \A n \in (j + 1)..(i - 1) : c[n] = d[n]
    BY <1>0, <1>2, <2>1, <2>2
  <2>5. QED
    BY <2>1, <2>2, <2>3, <2>4, AgainAt
<1>3. ASSUME NEW i \in A, i > p + 1, twice => i # p + 2 PROVE i - 1 \in B
  <2>1. i \in 1..Len(d) /\ d[i].key = k
    BY DEF Again
  <2>2. PICK j \in 1..(i - 1) : d[j] = d[i] /\ \A n \in (j + 1)..(i - 1) : d[n].key # k
    BY DEF Again
  <2>3. j # p + 1
    BY <1>0, <1>t, <1>3, <2>1, <2>2
  <2>4. i - 1 \in 1..Len(c) /\ c[i - 1] = d[i]
    BY <1>0, <1>3, <2>1
  <2>5. CASE j <= p
    <3>1. j \in 1..((i - 1) - 1) /\ c[j] = d[j]
      BY <1>0, <1>3, <2>1, <2>2, <2>5
    <3>2. \A n \in (j + 1)..((i - 1) - 1) : c[n].key # k
      <4> SUFFICES ASSUME NEW n \in (j + 1)..((i - 1) - 1) PROVE c[n].key # k
        OBVIOUS
      <4>1. CASE n <= p
        BY <1>0, <2>1, <2>2, <4>1
      <4>2. CASE n > p
        BY <1>0, <2>1, <2>2, <4>2
      <4>3. QED
        BY <1>0, <4>1, <4>2
    <3>3. c[i - 1].key = k /\ c[j] = c[i - 1]
      BY <2>1, <2>2, <2>4, <3>1
    <3>4. QED
      BY <2>4, <3>1, <3>2, <3>3, AgainAt
  <2>6. CASE j > p + 1
    <3>0. i \in Nat /\ j \in Nat /\ j <= i - 1 /\ i <= Len(c) + 1
      BY <1>0, <2>1, <2>2
    <3>1. j - 1 \in (p + 1)..((i - 1) - 1) /\ j - 1 \in (p + 1)..Len(c)
      BY <1>0, <2>6, <3>0
    <3>2. c[j - 1] = d[(j - 1) + 1] /\ (j - 1) + 1 = j
      BY <3>0, <3>1
    <3>3. \A n \in ((j - 1) + 1)..((i - 1) - 1) :
             /\ n \in (p + 1)..Len(c) /\ c[n] = d[n + 1]
             /\ n + 1 \in (j + 1)..(i - 1)
      BY <1>0, <2>6, <3>0
    <3>4. \A n \in ((j - 1) + 1)..((i - 1) - 1) : c[n].key # k
      BY <2>2, <3>3
    <3>5. j - 1 \in 1..((i - 1) - 1) /\ c[i - 1].key = k /\ c[j - 1] = c[i - 1]
      BY <1>0, <2>1, <2>2, <2>4, <3>1, <3>2
    <3>6. QED
      BY <2>4, <3>4, <3>5, AgainAt
  <2>7. QED
    BY <1>0, <2>2, <2>3, <2>5, <2>6
<1>4. IsFiniteSet(A) /\ IsFiniteSet(B) /\ A \subseteq 1..Len(d)
  BY AgainIsFinite
<1>5. ~twice => p + 1 \notin A
  BY DEF Again
<1> HIDE DEF A, B
<1>6. /\ Cardinality(A) \in Nat /\ Cardinality(B) \in Nat
      /\ Cardinality(A) <= Cardinality(B) + (IF twice THEN 1 ELSE 0)
  <2> DEFINE x == IF twice THEN p + 2 ELSE 0
             f == [i \in A \ {x} |-> IF i <= p + 1 THEN i ELSE i - 1]
  <2>1. \A i \in A \ {x} : /\ i \in Nat /\ i # 0 /\ f[i] \in B
                           /\ i <= p \/ i > p + 1 \/ twice
                           /\ twice => i # p + 2
    BY <1>0, <1>2, <1>3, <1>4, <1>5
  <2>2. f \in [A \ {x} -> B]
    BY <2>1
  <2>3. \A i, j \in A \ {x} : f[i] = f[j] => i = j
    <3>1. \A i \in A \ {x} : f[i] = IF i <= p + 1 THEN i ELSE i - 1
      OBVIOUS
    <3>2. \A i \in A \ {x} : /\ i \in Nat /\ ~(i = p + 1 /\ ~twice)
                             /\ ~(i = p + 2 /\ twice)
      <4> SUFFICES ASSUME NEW i \in A \ {x}
                   PROVE  i \in Nat /\ ~(i = p + 1 /\ ~twice) /\ ~(i = p + 2 /\ twice)
        OBVIOUS
      <4>1. i \in Nat
        BY <1>4
      <4>2. i # p + 2 \/ ~twice
        OBVIOUS
      <4>3. i # p + 1 \/ twice
        BY <1>5
      <4> HIDE DEF x, twice
      <4>4. QED
        BY <4>1, <4>2, <4>3
    <3> HIDE DEF f, x, twice
    <3>3. QED
      BY <1>0, <3>1, <3>2
  <2>4. ~twice => x \notin A
    BY <1>0, <1>4
  <2> HIDE DEF f, x, twice
  <2>5. /\ Cardinality(A) \in Nat /\ Cardinality(B) \in Nat
        /\ Cardinality(A) <= Cardinality(B) + 1
        /\ x \notin A => Cardinality(A) <= Cardinality(B)
    BY <1>4, <2>2, <2>3, OneMore
  <2>6. QED
    BY <2>4, <2>5
<1>7. QED
  BY <1>1, <1>6 DEF Spent, A, B

(* A message that is dropped leaves at most one more that repeats another, *)
(* or one that the producer still remembers.                               *)
LEMMA OneDropped ==
  ASSUME NEW M, NEW c \in Seq(M), NEW d \in Seq(M), NEW k, NEW signature,
         NEW p \in 0..Len(d), Len(c) = Len(d) + 1,
         \A i \in 1..p : d[i] = c[i],
         \A i \in (p + 1)..Len(d) : d[i] = c[i + 1]
  PROVE  Spent(d, k, signature) <= Spent(c, k, signature) + 1
<1> DEFINE A == Again(d, k)
           B == Again(c, k)
           later == {i \in (p + 1)..Len(d) : d[i].key = k}
<1>0. p \in Nat /\ Len(d) \in Nat /\ p <= Len(d)
  OBVIOUS
<1>1. IsFiniteSet(A) /\ IsFiniteSet(B) /\ A \subseteq 1..Len(d)
  BY AgainIsFinite
<1>2. Cardinality(A) \in Nat /\ Cardinality(B) \in Nat
  BY AgainIsFinite
<1>3. ASSUME NEW i \in A, i <= p PROVE i \in B
  <2>1. i \in 1..Len(d) /\ d[i].key = k
    BY DEF Again
  <2>2. PICK j \in 1..(i - 1) : d[j] = d[i] /\ \A n \in (j + 1)..(i - 1) : d[n].key # k
    BY DEF Again
  <2>3. i \in 1..Len(c) /\ c[i] = d[i] /\ c[j] = d[j]
    BY <1>0, <1>3, <2>1, <2>2
  <2>4. \A n \in (j + 1)..(i - 1) : c[n] = d[n]
    BY <1>0, <1>3, <2>1, <2>2
  <2>5. QED
    BY <2>1, <2>2, <2>3, <2>4, AgainAt
<1>4. ASSUME NEW i \in A, NEW j \in (p + 1)..(i - 1), d[j] = d[i],
             \A n \in (j + 1)..(i - 1) : d[n].key # k
      PROVE  i + 1 \in B
  <2>1. i \in 1..Len(d) /\ d[i].key = k
    BY DEF Again
  <2>2. /\ i + 1 \in 1..Len(c) /\ c[i + 1] = d[i]
        /\ j + 1 \in 1..((i + 1) - 1) /\ c[j + 1] = d[j]
    <3>1. i \in (p + 1)..Len(d) /\ j \in (p + 1)..Len(d)
      BY <1>0, <2>1
    <3>2. c[i + 1] = d[i] /\ c[j + 1] = d[j]
      BY <3>1
    <3>3. i + 1 \in 1..Len(c) /\ j + 1 \in 1..((i + 1) - 1)
      BY <1>0, <2>1
    <3>4. QED
      BY <3>2, <3>3
  <2>3. \A n \in ((j + 1) + 1)..((i + 1) - 1) :
           /\ n - 1 \in (p + 1)..Len(d) /\ n - 1 \in (j + 1)..(i - 1)
           /\ (n - 1) + 1 = n
    BY <1>0, <2>1
  <2>4. \A n \in ((j + 1) + 1)..((i + 1) - 1) : c[n].key # k
    <3> SUFFICES ASSUME NEW n \in ((j + 1) + 1)..((i + 1) - 1) PROVE c[n].key # k
      OBVIOUS
    <3>1. c[(n - 1) + 1] = d[n - 1] /\ d[n - 1].key # k
      BY <1>4, <2>3
    <3>2. QED
      BY <2>3, <3>1
  <2>5. c[i + 1].key = k /\ c[j + 1] = c[i + 1]
    BY <1>4, <2>1, <2>2
  <2>6. QED
    BY <2>2, <2>4, <2>5, AgainAt
<1>5. ASSUME Stale(d, k, signature), later # {}
      PROVE  Stale(c, k, signature)
  <2>1. PICK i \in 1..Len(d) : /\ d[i].key = k /\ d[i] # Good(k, signature)
                               /\ \A n \in (i + 1)..Len(d) : d[n].key # k
    BY <1>5 DEF Stale
  <2>2. PICK l \in later : TRUE
    BY <1>5
  <2>3. i > p
    BY <1>0, <2>1, <2>2
  <2>4. i + 1 \in 1..Len(c) /\ c[i + 1] = d[i]
    BY <1>0, <2>1, <2>3
  <2>5. \A n \in ((i + 1) + 1)..Len(c) :
           /\ n - 1 \in (p + 1)..Len(d) /\ n - 1 \in (i + 1)..Len(d)
           /\ (n - 1) + 1 = n
    BY <1>0, <2>1, <2>3
  <2>6. \A n \in ((i + 1) + 1)..Len(c) : c[n].key # k
    <3> SUFFICES ASSUME NEW n \in ((i + 1) + 1)..Len(c) PROVE c[n].key # k
      OBVIOUS
    <3>1. c[(n - 1) + 1] = d[n - 1] /\ d[n - 1].key # k
      BY <2>1, <2>5
    <3>2. QED
      BY <2>5, <3>1
  <2>7. QED
    BY <2>1, <2>4, <2>6, StaleAt
<1>6. CASE later = {}
  <2>1. ASSUME NEW i \in A PROVE i <= p
    <3>1. i \in 1..Len(d)
      BY <1>1
    <3>2. d[i].key = k
      BY DEF Again
    <3>3. i \notin (p + 1)..Len(d)
      BY <1>6, <3>2
    <3>4. QED
      BY <1>0, <3>1, <3>3
  <2>2. A \subseteq B
    BY <1>3, <2>1
  <2> HIDE DEF A, B
  <2>3. Cardinality(A) <= Cardinality(B)
    BY <1>1, <2>2, FS_Subset
  <2>4. QED
    BY <1>2, <2>3 DEF Spent, A, B
<1>7. CASE later # {}
  <2>1. later \subseteq Nat
    BY <1>0
  <2>2. PICK x \in later : \A n \in later : x <= n
    <3> HIDE DEF later
    <3>1. QED
      BY <1>7, <2>1, NatMin
  <2>3. \A n \in (p + 1)..(x - 1) : d[n].key # k
    BY <1>0, <2>2
  <2>4. ASSUME NEW i \in A \ {x} PROVE \/ i <= p /\ i \in B
                                       \/ i > p /\ i + 1 \in B
    <3>1. i \in 1..Len(d) /\ d[i].key = k
      BY DEF Again
    <3>2. PICK j \in 1..(i - 1) : d[j] = d[i] /\ \A n \in (j + 1)..(i - 1) : d[n].key # k
      BY DEF Again
    <3>3. CASE i <= p
      BY <1>3, <3>3
    <3>4. CASE i > p
      <4>1. i > x
        BY <1>0, <2>2, <2>4, <3>1, <3>4
      <4>2. j >= x
        BY <1>0, <2>2, <3>1, <3>2, <4>1
      <4>3. j \in (p + 1)..(i - 1)
        BY <1>0, <2>2, <3>1, <3>2, <4>2
      <4>4. QED
        BY <1>4, <3>2, <3>4, <4>3
    <3>5. QED
      BY <1>0, <3>1, <3>3, <3>4
  <2> DEFINE f == [i \in A \ {x} |-> IF i <= p THEN i ELSE i + 1]
  <2>5. Cardinality(A) <= Cardinality(B) + 1
    <3> HIDE DEF A, B, later
    <3>1. f \in [A \ {x} -> B]
      <4>1. \A i \in A \ {x} : (IF i <= p THEN i ELSE i + 1) \in B
        <5> SUFFICES ASSUME NEW i \in A \ {x}
                     PROVE  (IF i <= p THEN i ELSE i + 1) \in B
          OBVIOUS
        <5>1. i \in Nat
          BY <1>1
        <5>2. QED
          BY <1>0, <2>4, <5>1
      <4>2. QED
        BY <4>1
    <3>2. \A i, j \in A \ {x} : f[i] = f[j] => i = j
      BY <1>0, <1>1
    <3> HIDE DEF f
    <3>3. QED
      BY <1>1, <3>1, <3>2, OneMore
  <2>6. QED
    BY <1>2, <1>5, <1>7, <2>5 DEF Spent
<1>8. QED
  BY <1>6, <1>7

-----------------------------------------------------------------------------
(* What the steps make of the messages handed over.                        *)
LEMMA HandedOver ==
  ASSUME NEW M, NEW l \in Seq(M), NEW q \in Seq(M)
  PROVE  /\ l \o q \in Seq(M) /\ Len(l \o q) = Len(l) + Len(q)
         /\ \A i \in 1..Len(l) : (l \o q)[i] = l[i]
         /\ \A i \in 1..Len(q) : (l \o q)[Len(l) + i] = q[i]
OBVIOUS

LEMMA AddedToQueue ==
  ASSUME NEW M, NEW l \in Seq(M), NEW q \in Seq(M), NEW m \in M
  PROVE  l \o Append(q, m) = Append(l \o q, m)
OBVIOUS

LEMMA MovedToLog ==
  ASSUME NEW M, NEW l \in Seq(M), NEW q \in Seq(M), q # <<>>
  PROVE  Append(l, Head(q)) \o Tail(q) = l \o q
OBVIOUS

(* A message more at the end of the log: an uninvited one, or a copy of    *)
(* what the client has yet to deliver.                                     *)
LEMMA AddedToLog ==
  ASSUME NEW M, NEW l \in Seq(M), NEW q \in Seq(M), NEW m \in M, NEW k, NEW signature,
         m.key = k => q # <<>> /\ m = Head(q)
  PROVE  Spent(Append(l, m) \o q, k, signature)
           <= Spent(l \o q, k, signature) + (IF m.key = k THEN 1 ELSE 0)
<1> DEFINE c == l \o q
           d == Append(l, m) \o q
           p == Len(l)
<1>1. /\ c \in Seq(M) /\ Len(c) = p + Len(q) /\ p \in Nat /\ Len(q) \in Nat
      /\ \A i \in 1..p : c[i] = l[i]
      /\ \A i \in 1..Len(q) : c[p + i] = q[i]
  BY HandedOver
<1>2. /\ Append(l, m) \in Seq(M) /\ Len(Append(l, m)) = p + 1 /\ Append(l, m)[p + 1] = m
      /\ \A i \in 1..p : Append(l, m)[i] = l[i]
  OBVIOUS
<1>3. /\ d \in Seq(M) /\ Len(d) = (p + 1) + Len(q)
      /\ \A i \in 1..(p + 1) : d[i] = Append(l, m)[i]
      /\ \A i \in 1..Len(q) : d[(p + 1) + i] = q[i]
  BY <1>2, HandedOver
<1>4. m.key = k => p < Len(c) /\ c[p + 1] = m
  <2> SUFFICES ASSUME m.key = k PROVE p < Len(c) /\ c[p + 1] = m
    OBVIOUS
  <2>1. 1 \in 1..Len(q) /\ m = q[1]
    OBVIOUS
  <2>2. QED
    BY <1>1, <2>1
<1> HIDE DEF c, d, p
<1>5. d[p + 1] = m /\ p \in 0..Len(c) /\ Len(d) = Len(c) + 1
  BY <1>1, <1>2, <1>3
<1>6. \A i \in 1..p : d[i] = c[i]
  BY <1>1, <1>2, <1>3
<1>7. \A i \in (p + 1)..Len(c) : d[i + 1] = c[i]
  <2> SUFFICES ASSUME NEW i \in (p + 1)..Len(c) PROVE d[i + 1] = c[i]
    OBVIOUS
  <2>1. i - p \in 1..Len(q) /\ p + (i - p) = i /\ (p + 1) + (i - p) = i + 1
    <3>1. p \in Nat /\ Len(q) \in Nat /\ Len(c) = p + Len(q)
      BY <1>1
    <3>2. i \in (p + 1)..(p + Len(q))
      BY <3>1
    <3> HIDE DEF c, d, p
    <3>3. QED
      BY <3>1, <3>2
  <2>2. d[(p + 1) + (i - p)] = q[i - p] /\ c[p + (i - p)] = q[i - p]
    BY <1>1, <1>3, <2>1
  <2>3. QED
    BY <2>1, <2>2
<1>8. d[p + 1].key = k => p < Len(c) /\ c[p + 1] = d[p + 1]
  BY <1>4, <1>5
<1>9. c \in Seq(M) /\ d \in Seq(M) /\ p \in 0..Len(c) /\ Len(d) = Len(c) + 1
  BY <1>1, <1>3, <1>5
<1>10. Spent(d, k, signature)
         <= Spent(c, k, signature) + (IF d[p + 1].key = k THEN 1 ELSE 0)
  BY <1>6, <1>7, <1>8, <1>9, OneInserted
<1>11. QED
  BY <1>5, <1>10 DEF c, d

LEMMA DroppedFromQueue ==
  ASSUME NEW M, NEW l \in Seq(M), NEW q \in Seq(M), q # <<>>, NEW k, NEW signature
  PROVE  Spent(l \o Tail(q), k, signature) <= Spent(l \o q, k, signature) + 1
<1> DEFINE c == l \o q
           d == l \o Tail(q)
           p == Len(l)
<1>1. /\ c \in Seq(M) /\ Len(c) = p + Len(q) /\ p \in Nat /\ Len(q) \in Nat
      /\ \A i \in 1..p : c[i] = l[i]
      /\ \A i \in 1..Len(q) : c[p + i] = q[i]
  BY HandedOver
<1>2. /\ Tail(q) \in Seq(M) /\ Len(Tail(q)) = Len(q) - 1 /\ Len(q) > 0
      /\ \A i \in 1..Len(Tail(q)) : Tail(q)[i] = q[i + 1]
  OBVIOUS
<1>3. /\ d \in Seq(M) /\ Len(d) = p + Len(Tail(q))
      /\ \A i \in 1..p : d[i] = l[i]
      /\ \A i \in 1..Len(Tail(q)) : d[p + i] = Tail(q)[i]
  BY <1>2, HandedOver
<1> HIDE DEF c, d, p
<1>4. p \in 0..Len(d) /\ Len(c) = Len(d) + 1 /\ \A i \in 1..p : d[i] = c[i]
  BY <1>1, <1>2, <1>3
<1>5. \A i \in (p + 1)..Len(d) : d[i] = c[i + 1]
  <2> SUFFICES ASSUME NEW i \in (p + 1)..Len(d) PROVE d[i] = c[i + 1]
    OBVIOUS
  <2>1. /\ i - p \in 1..Len(Tail(q)) /\ p + (i - p) = i
        /\ (i - p) + 1 \in 1..Len(q) /\ p + ((i - p) + 1) = i + 1
    BY <1>1, <1>2, <1>3
  <2>2. d[i] = Tail(q)[i - p] /\ Tail(q)[i - p] = q[(i - p) + 1]
    BY <1>2, <1>3, <2>1
  <2>3. c[i + 1] = q[(i - p) + 1]
    BY <1>1, <2>1
  <2>4. QED
    BY <2>2, <2>3
<1>6. QED
  BY <1>1, <1>3, <1>4, <1>5, OneDropped DEF c, d

LEMMA SpentIsNatural ==
  ASSUME NEW M, NEW s \in Seq(M), NEW k, NEW signature
  PROVE  Spent(s, k, signature) \in Nat
<1>1. Cardinality(Again(s, k)) \in Nat
  BY AgainIsFinite
<1>2. QED
  BY <1>1 DEF Spent

LEMMA OtherKeyAdded ==
  ASSUME NEW M, NEW s \in Seq(M), NEW m \in M, NEW k, NEW signature, m.key # k
  PROVE  Spent(Append(s, m), k, signature) <= Spent(s, k, signature)
<1>1. <<>> \in Seq(M) /\ s \o <<>> = s /\ Append(s, m) \o <<>> = Append(s, m)
  OBVIOUS
<1>2. Spent(Append(s, m) \o <<>>, k, signature) <= Spent(s \o <<>>, k, signature) + 0
  BY <1>1, AddedToLog
<1>3. Spent(s, k, signature) \in Nat
  BY SpentIsNatural
<1>4. QED
  BY <1>1, <1>2, <1>3

(* What the crash of the producer leaves: what was delivered.              *)
LEMMA OnlyLogLeft ==
  ASSUME NEW M, NEW l \in Seq(M), NEW q \in Seq(M), NEW k, NEW signature, NEW forgotten
  PROVE  Spent(l \o <<>>, k, forgotten) <= Spent(l \o q, k, signature) + 1
<1>1. l \o <<>> = l /\ l \o q \in Seq(M) /\ Len(l) <= Len(l \o q)
  OBVIOUS
<1>2. \A i \in 1..Len(l) : l[i] = (l \o q)[i]
  OBVIOUS
<1>3. Cardinality(Again(l, k)) <= Cardinality(Again(l \o q, k))
  BY <1>1, <1>2, PrefixRepeatsLess
<1>4. Cardinality(Again(l, k)) \in Nat /\ Cardinality(Again(l \o q, k)) \in Nat
  BY <1>1, AgainIsFinite
<1>5. QED
  BY <1>1, <1>3, <1>4 DEF Spent

LEMMA TypedTopics ==
  ASSUME TypeOK
  PROVE  /\ Published \subseteq Message /\ Null \notin Keys
         /\ \A t \in Topics : log[t] \in Seq(Message) /\ queue[t] \in Seq(Message)
         /\ \A t \in Topics : queue[t] # <<>> => Head(queue[t]) \in Message
         /\ repeats \in Nat
         /\ \A t \in Topics : \A k, sig : Spent(Handed(t), k, sig) \in Nat
<1>1. Published \subseteq Message /\ Null \notin Keys
  BY GoodMessages, WeatherAssumption DEF Keys
<1>2. \A t \in Topics : log[t] \in Seq(Message) /\ queue[t] \in Seq(Published)
  BY DEF TypeOK, ProducerTypeOK
<1>3. \A t \in Topics : queue[t] \in Seq(Message)
  BY <1>1, <1>2
<1>4. \A t \in Topics : queue[t] # <<>> => Head(queue[t]) \in Message
  BY <1>3
<1>5. \A t \in Topics : Handed(t) \in Seq(Message)
  BY <1>2, <1>3, HandedOver DEF Handed
<1>6. \A t \in Topics : \A k : Cardinality(Again(Handed(t), k)) \in Nat
  BY <1>5, AgainIsFinite
<1>7. QED
  BY <1>1, <1>2, <1>3, <1>4, <1>6 DEF Spent, TypeOK, ProducerTypeOK

LEMMA RepeatsInitially == Init => RepeatsOK
<1> SUFFICES ASSUME Init, NEW k \in Keys
             PROVE  Spent(Handed(TopicOf(k)), k, remembered[k]) <= repeats
  BY DEF RepeatsOK
<1>1. Handed(TopicOf(k)) = <<>> /\ repeats = 0
  BY TopicsOfKeys DEF Init, ProducerInit, Handed
<1>2. Again(<<>>, k) = {} /\ ~Stale(<<>>, k, remembered[k])
  BY DEF Again, Stale
<1>3. Spent(<<>>, k, remembered[k]) = 0
  BY <1>2, FS_EmptySet DEF Spent
<1>4. QED
  BY <1>1, <1>3

(* What a step of the flow does to the messages of a key, and to what the  *)
(* producer remembers of it, costs at most what it adds to repeats.        *)
LEMMA ProducerRepeats ==
  ASSUME TypeOK, RepeatsOK, ProducerNext
  PROVE  RepeatsOK'
<1>0. /\ \A t \in Topics : log[t] \in Seq(Message) /\ queue[t] \in Seq(Message)
      /\ \A t \in Topics : queue[t] # <<>> => Head(queue[t]) \in Message
      /\ repeats \in Nat
      /\ \A t \in Topics : \A k, sig : Spent(Handed(t), k, sig) \in Nat
      /\ log \in [Topics -> Seq(Message)] /\ queue \in [Topics -> Seq(Published)]
      /\ remembered \in [Keys -> Signatures \cup {Null}]
      /\ source \in [Keys -> Signatures \cup {Null}]
      /\ remaining \in Seq(Keys)
  BY TypedTopics DEF TypeOK, ProducerTypeOK
<1> SUFFICES ASSUME NEW k \in Keys
             PROVE  Spent(Handed(TopicOf(k))', k, remembered'[k]) <= repeats'
  BY DEF RepeatsOK
<1> DEFINE u == TopicOf(k)
<1>1. /\ u \in Topics /\ Spent(Handed(u), k, remembered[k]) <= repeats
      /\ log[u] \in Seq(Message) /\ queue[u] \in Seq(Message)
      /\ Spent(Handed(u), k, remembered[k]) \in Nat
  BY <1>0, TopicsOfKeys DEF RepeatsOK
<1>2. ASSUME UNCHANGED <<log, queue, remembered, repeats>>
      PROVE  Spent(Handed(u)', k, remembered'[k]) <= repeats'
  BY <1>1, <1>2 DEF Handed
<1>3. CASE \/ Change \/ PollFails \/ PollRaises
           \/ StartPass(Topics) \/ \E t \in Topics : StartPass({t})
  BY <1>2, <1>3 DEF Change, PollFails, PollRaises, StartPass
<1>4. CASE PollKey
  <2> DEFINE h == Head(remaining)
             m == Good(h, source[h])
  <2>1. h \in Keys
    BY <1>0, <1>4 DEF PollKey
  <2>2. CASE ~Changed(h)
    BY <1>2, <1>4, <2>2 DEF PollKey
  <2>3. CASE Changed(h)
    <3>1. /\ queue' = [queue EXCEPT ![TopicOf(h)] = Append(queue[TopicOf(h)], m)]
          /\ remembered' = [remembered EXCEPT ![h] = source[h]]
          /\ UNCHANGED <<log, repeats>>
      BY <1>4, <2>3 DEF PollKey
    <3>2. m \in Message /\ m.key = h /\ remembered[h] # source[h]
      BY <1>0, <2>1, <2>3, GoodMessages DEF Changed
    <3>3. CASE TopicOf(h) # u
      <4>1. h # k /\ queue'[u] = queue[u] /\ remembered'[k] = remembered[k]
        BY <1>0, <1>1, <3>1, <3>3
      <4>2. QED
        BY <1>1, <3>1, <4>1 DEF Handed
    <3>4. CASE TopicOf(h) = u
      <4>1. queue'[u] = Append(queue[u], m)
        BY <1>0, <1>1, <3>1, <3>4
      <4>2. /\ Handed(u)' = Append(Handed(u), m)
            /\ Handed(u) \in Seq(Message) /\ Append(Handed(u), m) \in Seq(Message)
        <5>1. Handed(u) \in Seq(Message)
          BY <1>1, HandedOver DEF Handed
        <5> HIDE DEF m
        <5>2. Handed(u)' = log[u] \o Append(queue[u], m)
          BY <3>1, <4>1 DEF Handed
        <5>3. log[u] \o Append(queue[u], m) = Append(log[u] \o queue[u], m)
          <6> DEFINE l == log[u]
                     q == queue[u]
          <6>1. l \in Seq(Message) /\ q \in Seq(Message) /\ m \in Message
            BY <1>1, <3>2
          <6> HIDE DEF l, q
          <6>2. l \o Append(q, m) = Append(l \o q, m)
            BY <6>1, AddedToQueue
          <6>3. QED
            BY <6>2 DEF l, q
        <5>4. Append(Handed(u), m) \in Seq(Message)
          BY <3>2, <5>1
        <5>5. QED
          BY <5>1, <5>2, <5>3, <5>4 DEF Handed
      <4>3. CASE h = k
        <5>1. remembered'[k] = source[k] /\ remembered[k] # source[k]
          BY <1>0, <3>1, <3>2, <4>3
        <5>2. Spent(Append(Handed(u), Good(k, source[k])), k, source[k])
                <= Spent(Handed(u), k, remembered[k])
          BY <3>2, <4>2, <4>3, <5>1, HandedAtTheEnd
        <5>3. Spent(Handed(u)', k, remembered'[k]) <= Spent(Handed(u), k, remembered[k])
          BY <4>2, <4>3, <5>1, <5>2
        <5>4. Spent(Handed(u)', k, remembered'[k]) \in Nat
          BY <4>2, SpentIsNatural
        <5>5. QED
          BY <1>0, <1>1, <3>1, <5>3, <5>4
      <4>4. CASE h # k
        <5>1. remembered'[k] = remembered[k] /\ m.key # k
          BY <1>0, <3>1, <3>2, <4>4
        <5>2. Spent(Append(Handed(u), m), k, remembered[k])
                <= Spent(Handed(u), k, remembered[k])
          BY <3>2, <4>2, <5>1, OtherKeyAdded
        <5>4. Spent(Handed(u)', k, remembered'[k]) <= Spent(Handed(u), k, remembered[k])
          BY <4>2, <5>1, <5>2
        <5>5. Spent(Handed(u)', k, remembered'[k]) \in Nat
          BY <4>2, SpentIsNatural
        <5>6. QED
          BY <1>0, <1>1, <3>1, <5>4, <5>5
      <4>5. QED
        BY <4>3, <4>4
    <3>5. QED
      BY <3>3, <3>4
  <2>4. QED
    BY <2>2, <2>3
<1>5. ASSUME NEW t \in Topics, Deliver(t) \/ DeliverTwice(t) \/ DeliveryFails(t), t # u
      PROVE  Spent(Handed(u)', k, remembered'[k]) <= repeats'
  <2>1. log'[u] = log[u] /\ queue'[u] = queue[u] /\ remembered' = remembered
    BY <1>0, <1>1, <1>5 DEF Deliver, DeliverTwice, DeliveryFails
  <2>2. repeats' = repeats \/ repeats' = repeats + 1
    BY <1>5 DEF Deliver, DeliverTwice, DeliveryFails
  <2>3. QED
    BY <1>0, <1>1, <2>1, <2>2 DEF Handed
<1>6. CASE Deliver(u)
  <2>1. /\ log'[u] = Append(log[u], Head(queue[u])) /\ queue'[u] = Tail(queue[u])
        /\ queue[u] # <<>> /\ UNCHANGED <<remembered, repeats>>
    BY <1>0, <1>1, <1>6 DEF Deliver
  <2>2. Handed(u)' = Handed(u)
    BY <1>1, <2>1, MovedToLog DEF Handed
  <2>3. QED
    BY <1>1, <2>1, <2>2
<1>7. CASE DeliverTwice(u)
  <2> DEFINE m == Head(queue[u])
  <2>1. /\ log'[u] = Append(log[u], m) /\ queue'[u] = queue[u]
        /\ queue[u] # <<>> /\ remembered' = remembered /\ repeats' = repeats + 1
        /\ m \in Message
    BY <1>0, <1>1, <1>7 DEF DeliverTwice
  <2>2. Spent(Append(log[u], m) \o queue[u], k, remembered[k])
          <= Spent(log[u] \o queue[u], k, remembered[k]) + (IF m.key = k THEN 1 ELSE 0)
    BY <1>1, <2>1, AddedToLog
  <2>3. Spent(Handed(u)', k, remembered'[k])
          <= Spent(Handed(u), k, remembered[k]) + (IF m.key = k THEN 1 ELSE 0)
    BY <2>1, <2>2 DEF Handed
  <2>4. Spent(Handed(u)', k, remembered'[k]) \in Nat
    <3>1. log'[u] \in Seq(Message) /\ queue'[u] \in Seq(Message)
      BY <1>1, <2>1
    <3>2. QED
      BY <3>1, HandedOver, SpentIsNatural DEF Handed
  <2>5. QED
    BY <1>0, <1>1, <2>1, <2>3, <2>4
<1>8. CASE DeliveryFails(u)
  <2>1. /\ log' = log /\ queue'[u] = Tail(queue[u])
        /\ queue[u] # <<>> /\ remembered' = remembered /\ repeats' = repeats + 1
    BY <1>0, <1>1, <1>8 DEF DeliveryFails
  <2>2. Spent(Handed(u)', k, remembered'[k]) <= Spent(Handed(u), k, remembered[k]) + 1
    BY <1>1, <2>1, DroppedFromQueue DEF Handed
  <2>3. Spent(Handed(u)', k, remembered'[k]) \in Nat
    <3>1. log'[u] \in Seq(Message) /\ queue'[u] \in Seq(Message)
      BY <1>1, <2>1
    <3>2. QED
      BY <3>1, HandedOver, SpentIsNatural DEF Handed
  <2>4. QED
    BY <1>0, <1>1, <2>1, <2>2, <2>3
<1>9. CASE ProducerCrash
  <2>1. /\ log' = log /\ queue'[u] = <<>> /\ repeats' = repeats + 1
    BY <1>1, <1>9 DEF ProducerCrash
  <2>2. Spent(Handed(u)', k, remembered'[k]) <= Spent(Handed(u), k, remembered[k]) + 1
    BY <1>1, <2>1, OnlyLogLeft DEF Handed
  <2>3. Spent(Handed(u)', k, remembered'[k]) \in Nat
    <3>1. log'[u] \in Seq(Message) /\ queue'[u] \in Seq(Message)
      BY <1>1, <2>1
    <3>2. QED
      BY <3>1, HandedOver, SpentIsNatural DEF Handed
  <2>4. QED
    BY <1>0, <1>1, <2>1, <2>2, <2>3
<1>10. QED
  BY <1>3, <1>4, <1>5, <1>6, <1>7, <1>8, <1>9 DEF ProducerNext

LEMMA GarbageRepeats ==
  ASSUME TypeOK, RepeatsOK, Garbage
  PROVE  RepeatsOK'
<1> SUFFICES ASSUME NEW k \in Keys
             PROVE  Spent(Handed(TopicOf(k))', k, remembered'[k]) <= repeats'
  BY DEF RepeatsOK
<1> DEFINE u == TopicOf(k)
<1>1. /\ u \in Topics /\ Spent(Handed(u), k, remembered[k]) <= repeats
      /\ log[u] \in Seq(Message) /\ queue[u] \in Seq(Message)
      /\ Spent(Handed(u), k, remembered[k]) \in Nat
      /\ repeats \in Nat /\ log \in [Topics -> Seq(Message)]
  BY TypedTopics, TopicsOfKeys DEF RepeatsOK, TypeOK
<1>2. PICK t \in Topics, kind \in {"garbled", "unwritable"} :
         log' = [log EXCEPT ![t] = Append(@, Junk(kind))]
  BY DEF Garbage
<1>3. /\ Junk(kind) \in Message /\ Junk(kind).key # k
      /\ UNCHANGED <<queue, remembered, repeats>>
  BY GoodMessages, TypedTopics DEF Garbage, producerVars, Junk
<1>4. CASE t # u
  BY <1>1, <1>2, <1>3, <1>4 DEF Handed
<1>5. CASE t = u
  <2>1. log'[u] = Append(log[u], Junk(kind))
    BY <1>1, <1>2, <1>5
  <2>2. Spent(Append(log[u], Junk(kind)) \o queue[u], k, remembered[k])
          <= Spent(log[u] \o queue[u], k, remembered[k]) + 0
    BY <1>1, <1>3, AddedToLog
  <2>3. Spent(Handed(u)', k, remembered'[k]) <= Spent(Handed(u), k, remembered[k]) + 0
    BY <1>3, <2>1, <2>2 DEF Handed
  <2>4. Spent(Handed(u)', k, remembered'[k]) \in Nat
    <3>1. log'[u] \in Seq(Message) /\ queue'[u] \in Seq(Message)
      BY <1>1, <1>3, <2>1
    <3>2. QED
      BY <3>1, HandedOver, SpentIsNatural DEF Handed
  <2>5. QED
    BY <1>1, <1>3, <2>3, <2>4
<1>6. QED
  BY <1>4, <1>5

LEMMA RepeatsHold == Spec => []RepeatsOK
<1>1. ASSUME TypeOK, RepeatsOK, [Next]_vars
      PROVE  RepeatsOK'
  <2>1. CASE ProducerNext /\ UNCHANGED consumerVars
    BY <1>1, <2>1, ProducerRepeats
  <2>2. CASE ConsumerNext /\ UNCHANGED producerVars
    <3>1. UNCHANGED <<queue, remembered, repeats>>
      BY <2>2 DEF producerVars
    <3>2. UNCHANGED log
      BY <2>2 DEF ConsumerNext, ConsumerStep, Start, Connect, Poll, Write, WriteFails, GiveUp,
                  End, Commit, CommitSent, Stop, Close, ConsumerCrash, PostgresDown, PostgresUp
    <3>3. QED
      BY <1>1, <3>1, <3>2 DEF RepeatsOK, Handed
  <2>3. CASE Garbage
    BY <1>1, <2>3, GarbageRepeats
  <2>4. CASE UNCHANGED vars
    BY <1>1, <2>4 DEF vars, producerVars, RepeatsOK, Handed
  <2>5. QED
    BY <1>1, <2>1, <2>2, <2>3, <2>4 DEF Next
<1>2. FlowInv => TypeOK
  BY DEF FlowInv
<1>3. QED
  BY <1>1, <1>2, RepeatsInitially, FlowInvHolds, PTL DEF Spec

(* "The topic carries changes, not heartbeats": a topic has at most as     *)
(* many messages that repeat the one before of their key as there were     *)
(* crashes of the producer and messages delivered twice or not at all,     *)
(* whatever changed, however often and in which order.                     *)
THEOREM TopicsCarryChanges == Spec => []ChangesNotHeartbeats
<1>1. TypeOK /\ RepeatsOK => ChangesNotHeartbeats
  <2> SUFFICES ASSUME TypeOK, RepeatsOK, NEW k \in Keys
               PROVE  Cardinality(Heartbeats(k)) <= repeats
    BY DEF ChangesNotHeartbeats
  <2> DEFINE u == TopicOf(k)
  <2>1. u \in Topics /\ log[u] \in Seq(Message) /\ queue[u] \in Seq(Message) /\ repeats \in Nat
    BY TypedTopics, TopicsOfKeys
  <2>2. /\ Handed(u) \in Seq(Message) /\ Len(log[u]) <= Len(Handed(u))
        /\ \A i \in 1..Len(log[u]) : log[u][i] = Handed(u)[i]
    <3> DEFINE l == log[u]
               q == queue[u]
    <3>1. l \in Seq(Message) /\ q \in Seq(Message)
      BY <2>1
    <3>2. Handed(u) = l \o q
      BY DEF Handed
    <3> HIDE DEF l, q
    <3>3. /\ l \o q \in Seq(Message) /\ Len(l \o q) = Len(l) + Len(q)
          /\ \A i \in 1..Len(l) : (l \o q)[i] = l[i]
      BY <3>1, HandedOver
    <3>4. Len(l) \in Nat /\ Len(q) \in Nat
      BY <3>1
    <3>5. Len(l) <= Len(l \o q)
      BY <3>3, <3>4
    <3>6. QED
      BY <3>2, <3>3, <3>5 DEF l
  <2>3. Cardinality(Again(log[u], k)) <= Cardinality(Again(Handed(u), k))
    BY <2>1, <2>2, PrefixRepeatsLess
  <2>4. Cardinality(Again(log[u], k)) \in Nat /\ Cardinality(Again(Handed(u), k)) \in Nat
    BY <2>1, <2>2, AgainIsFinite
  <2>5. Spent(Handed(u), k, remembered[k]) <= repeats
    BY DEF RepeatsOK
  <2>6. QED
    BY <2>1, <2>3, <2>4, <2>5 DEF Spent, Heartbeats
<1>2. FlowInv => TypeOK
  BY DEF FlowInv
<1>3. QED
  BY <1>1, <1>2, RepeatsHold, FlowInvHolds, PTL

=============================================================================
