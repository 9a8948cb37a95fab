---------------------------- MODULE IngestProofs -----------------------------
(***************************************************************************)
(* What the parts on both sides of adsb.states.raw keep, for every number  *)
(* of aircraft, messages and failures.                                     *)
(***************************************************************************)
EXTENDS MCIngest, NatSetProofs

-----------------------------------------------------------------------------
(* The producer.  A second attempt begins without a token, so that one it  *)
(* finds refused was revoked since, and that revocation is not yet paid.   *)
TokenInv ==
    /\ revoked \in Nat /\ unauthorized \in Nat /\ attempt \in {1, 2}
    /\ unauthorized <= revoked
    /\ attempt = 2 /\ pc = "token" => token = "none"
    /\ attempt = 2 /\ pc = "request" /\ token = "bad" => unauthorized < revoked

LEMMA TokenStep ==
  ASSUME TokenInv, [ProducerNext]_<<log, faults, producerVars>>
  PROVE  TokenInv'
<1> USE DEF TokenInv
<1>1. CASE UNCHANGED <<log, faults, producerVars>>
  BY <1>1 DEF producerVars
<1>2. CASE Loop \/ GetHeld \/ Refresh \/ RefreshFails
  BY <1>2 DEF Loop, GetHeld, Refresh, RefreshFails, Fault
<1>3. CASE Unauthorized
  BY <1>3 DEF Unauthorized, Invalidate
<1>4. CASE RequestFails \/ Answered \/ Publish \/ PublishRaises
  BY <1>4 DEF RequestFails, Answered, Publish, PublishRaises, Fault
<1>5. CASE Flush \/ BackOff \/ Sleep \/ Stop
  BY <1>5 DEF Flush, BackOff, Sleep, Stop, Fault
<1>6. CASE Deliver \/ DeliverTwice \/ DeliveryFails
  BY <1>6 DEF Deliver, DeliverTwice, DeliveryFails, Fault
<1>7. CASE Revoke
  BY <1>7 DEF Revoke, Fault
<1>8. CASE ProducerCrash
  BY <1>8 DEF ProducerCrash, Fault
<1>9. QED
  BY <1>1, <1>2, <1>3, <1>4, <1>5, <1>6, <1>7, <1>8 DEF ProducerNext, MainStep

(* However often and whenever tokens are revoked, not more polls of        *)
(* opensky_producer.py end with a 401.                                     *)
THEOREM RevocationsCostOnePoll == ProducerSpec => []OneRevocationOnePoll
<1>1. ProducerInit => TokenInv
  BY DEF ProducerInit, TokenInv
<1>2. TokenInv => OneRevocationOnePoll
  BY DEF TokenInv, OneRevocationOnePoll
<1>3. QED
  BY <1>1, <1>2, TokenStep, PTL DEF ProducerSpec

-----------------------------------------------------------------------------
(* The micro-batches: what Spark plans is in the topic.                    *)
LEMMA BatchTypes ==
  ASSUME BatchTypeOK,
         \/ Published /\ UNCHANGED batchVars
         \/ \E q \in Queries : StartQuery(q) \/ PlanBatch(q) \/ Sinking(q)
         \/ \E q \in Queries : Committing(q) /\ planned[q] # Null
         \/ Die
         \/ UNCHANGED <<log, batchVars>>
  PROVE  BatchTypeOK'
<1> USE DEF BatchTypeOK, batchVars
<1>1. CASE Published /\ UNCHANGED batchVars
  <2>1. PICK m \in Message : log' = Append(log, m)
    BY <1>1 DEF Published
  <2>2. log' \in Seq(Message) /\ Len(log') = Len(log) + 1 /\ Len(log) \in Nat
    BY <2>1
  <2>3. QED
    BY <1>1, <2>2
<1>2. ASSUME NEW q \in Queries, StartQuery(q) PROVE BatchTypeOK'
  BY <1>2 DEF StartQuery
<1>3. ASSUME NEW q \in Queries, PlanBatch(q) PROVE BatchTypeOK'
  <2>1. Len(log) \in Nat /\ offset[q] \in Nat /\ MaxOffsetsPerTrigger \in Nat \ {0}
    BY BatchAssumption
  <2>2. planned'[q] \in offset[q]..Len(log)
    BY <1>3, <2>1 DEF PlanBatch
  <2>3. \A r \in Queries : r # q => planned'[r] = planned[r]
    BY <1>3 DEF PlanBatch
  <2>4. QED
    BY <1>3, <2>2, <2>3 DEF PlanBatch
<1>4. ASSUME NEW q \in Queries, Sinking(q) PROVE BatchTypeOK'
  BY <1>4 DEF Sinking
<1>5. ASSUME NEW q \in Queries, Committing(q), planned[q] # Null PROVE BatchTypeOK'
  BY <1>5 DEF Committing
<1>6. CASE Die
  BY <1>6 DEF Die
<1>7. CASE UNCHANGED <<log, batchVars>>
  BY <1>7
<1>8. QED
  BY <1>1, <1>2, <1>3, <1>4, <1>5, <1>6, <1>7

-----------------------------------------------------------------------------
(* The live query: a batch whose sink returned is still planned.           *)
LiveStateInv ==
    /\ BatchTypeOK /\ LiveTypeOK
    /\ phase["live"] = "sunk" => planned["live"] # Null

LEMMA LiveBatchTypes ==
  ASSUME LiveStateInv, [LiveFed]_<<log, faults, batchVars, live_states>>
  PROVE  BatchTypeOK' /\ (phase["live"] = "sunk" => planned["live"] # Null)'
<1> USE DEF LiveStateInv
<1>0. "live" \in Queries
  BY DEF Queries
<1>1. CASE Published /\ UNCHANGED <<faults, batchVars, live_states>>
  BY <1>1, BatchTypes DEF batchVars
<1>2. CASE UpsertBatch
  <2>1. BatchTypeOK'
    BY <1>0, <1>2, BatchTypes DEF UpsertBatch
  <2>2. QED
    BY <1>0, <1>2, <2>1 DEF UpsertBatch, Sinking
<1>3. CASE StartQuery("live")
  BY <1>0, <1>3, BatchTypes DEF StartQuery, BatchTypeOK
<1>4. CASE PlanBatch("live")
  BY <1>0, <1>4, BatchTypes DEF PlanBatch, BatchTypeOK
<1>5. CASE Committing("live")
  BY <1>0, <1>5, BatchTypes DEF Committing, BatchTypeOK
<1>6. CASE Die
  BY <1>0, <1>6, BatchTypes DEF Die, BatchTypeOK
<1>7. CASE UNCHANGED <<log, faults, batchVars, live_states>>
  BY <1>7, BatchTypes DEF batchVars
<1>8. QED
  BY <1>1, <1>2, <1>3, <1>4, <1>5, <1>6, <1>7 DEF LiveFed, LiveNext

(* What the sink makes of the row of one aircraft.                         *)
LEMMA UpsertedRow ==
  ASSUME LiveStateInv, UpsertBatch, NEW a \in Aircraft
  PROVE  /\ IF Latest(a) = {} THEN live_states'[a] = live_states[a]
            ELSE \E k \in Latest(a) : live_states'[a] = Upserted(live_states[a], log[k])
         /\ live_states'[a] # Null => live_states'[a] \in {m \in Message : m.icao24 = a}
         /\ live_states[a] # Null =>
               live_states'[a] # Null /\ live_states'[a].api_ts >= live_states[a].api_ts
<1> USE DEF LiveStateInv
<1>0. "live" \in Queries
  BY DEF Queries
<1>1. planned["live"] \in 0..Len(log) /\ offset["live"] \in 0..Len(log) /\ Len(log) \in Nat
  BY <1>0 DEF UpsertBatch, Sinking, BatchTypeOK
<1>2. \A k \in Batch("live") : k \in DOMAIN log /\ log[k] \in Message /\ k # Null
  BY <1>1, NullAssumption DEF Batch, BatchTypeOK
<1>3. \A k \in Latest(a) : k \in Batch("live") /\ log[k].icao24 = a
  BY DEF Latest
<1>4. IF Latest(a) = {} THEN live_states'[a] = live_states[a]
      ELSE \E k \in Latest(a) : live_states'[a] = Upserted(live_states[a], log[k])
  BY <1>2, <1>3 DEF UpsertBatch
<1>5. CASE Latest(a) = {}
  <2>1. live_states'[a] = live_states[a]
    BY <1>4, <1>5
  <2>2. live_states[a] # Null => live_states[a] \in {m \in Message : m.icao24 = a}
    BY DEF LiveTypeOK
  <2>3. QED
    BY <1>4, <2>1, <2>2 DEF Message
<1>6. ASSUME NEW k \in Latest(a), live_states'[a] = Upserted(live_states[a], log[k])
      PROVE  /\ live_states'[a] # Null => live_states'[a] \in {m \in Message : m.icao24 = a}
             /\ live_states[a] # Null =>
                  live_states'[a] # Null /\ live_states'[a].api_ts >= live_states[a].api_ts
  <2>1. log[k] \in Message /\ log[k].icao24 = a /\ log[k] # Null /\ log[k].api_ts \in Int
    BY <1>2, <1>3, NullAssumption DEF Message
  <2>2. live_states[a] # Null =>
           live_states[a] \in {m \in Message : m.icao24 = a} /\ live_states[a].api_ts \in Int
    BY DEF LiveTypeOK, Message
  <2>3. QED
    BY <1>6, <2>1, <2>2 DEF Upserted
<1>7. QED
  BY <1>4, <1>5, <1>6

LEMMA LiveStep ==
  ASSUME LiveStateInv, [LiveFed]_<<log, faults, batchVars, live_states>>
  PROVE  /\ LiveStateInv'
         /\ \A a \in Aircraft : live_states[a] # Null =>
               live_states'[a] # Null /\ live_states'[a].api_ts >= live_states[a].api_ts
<1>1. CASE UpsertBatch
  BY <1>1, LiveBatchTypes, UpsertedRow DEF LiveStateInv, LiveTypeOK
<1>2. CASE UNCHANGED live_states
  <2>1. \A a \in Aircraft : live_states[a] # Null => live_states[a].api_ts \in Int
    BY DEF LiveStateInv, LiveTypeOK, Message
  <2>2. QED
    BY <1>2, <2>1, LiveBatchTypes DEF LiveStateInv, LiveTypeOK
<1>3. QED
  BY <1>1, <1>2 DEF LiveFed, LiveNext

LEMMA BatchInitially ==
  ASSUME log = <<>>, BatchInit
  PROVE  BatchTypeOK
<1>1. log \in Seq(Message) /\ Len(log) = 0
  OBVIOUS
<1>2. /\ \A q \in Queries : offset[q] = 0 /\ planned[q] = Null
      /\ phase \in [Queries -> {"down", "ready", "sunk"}]
  BY DEF BatchInit
<1>3. QED
  BY <1>1, <1>2 DEF BatchInit, BatchTypeOK

LEMMA LiveInitially ==
  ASSUME log = <<>>, BatchInit, LiveInit
  PROVE  LiveStateInv
<1>1. phase["live"] = "down"
  BY DEF BatchInit, Queries
<1>2. QED
  BY <1>1, BatchInitially DEF LiveInit, LiveStateInv, LiveTypeOK

(* pg.py: crash-replays, late and repeated messages never move an aircraft *)
(* backwards in live_states, and none leaves it, for every topic and       *)
(* cutting into batches.                                                   *)
THEOREM PositionsNeverBackwards == LiveQuerySpec => NeverBackwards
<1>1. LiveStateInv /\ [LiveFed]_<<log, faults, batchVars, live_states>>
      => LiveStateInv' /\ [\A a \in Aircraft : live_states[a] # Null =>
          live_states'[a] # Null /\ live_states'[a].api_ts >= live_states[a].api_ts]_live_states
  BY LiveStep
<1>2. log = <<>> /\ BatchInit /\ LiveInit => LiveStateInv
  BY LiveInitially
<1>3. QED
  BY <1>1, <1>2, PTL DEF LiveQuerySpec, NeverBackwards

-----------------------------------------------------------------------------
(* A batch with a message of an aircraft has a latest one of it.           *)
LEMMA LatestExists ==
  ASSUME NEW M, NEW f, M # {}, M \subseteq Nat, \A i \in M : f[i] \in Message
  PROVE  \E k \in M : \A j \in M : ~Before(f[k], f[j])
<1>0. MaxApiTs \in Nat /\ MaxPollTs \in Nat
  BY TopicAssumption
<1>1. \A i \in M : f[i].api_ts \in 1..MaxApiTs /\ f[i].poll_ts \in 1..MaxPollTs
  BY DEF Message
<1> DEFINE A == {f[i].api_ts : i \in M}
<1>2. A # {} /\ A \subseteq 1..MaxApiTs
  BY <1>1
<1> HIDE DEF A
<1>3. PICK t \in A : \A u \in A : u <= t
  <2>1. A \subseteq Nat /\ \A u \in A : u <= MaxApiTs
    BY <1>0, <1>2
  <2>2. QED
    BY <1>0, <1>2, <2>1, NatMax
<1> DEFINE P == {f[i].poll_ts : i \in {j \in M : f[j].api_ts = t}}
<1>4. P # {} /\ P \subseteq 1..MaxPollTs
  BY <1>1, <1>3 DEF A
<1> HIDE DEF P
<1>5. PICK v \in P : \A w \in P : w <= v
  <2>1. P \subseteq Nat /\ \A w \in P : w <= MaxPollTs
    BY <1>0, <1>4
  <2>2. QED
    BY <1>0, <1>4, <2>1, NatMax
<1>6. PICK k \in M : f[k].api_ts = t /\ f[k].poll_ts = v
  BY <1>5 DEF P
<1>7. ASSUME NEW j \in M PROVE ~Before(f[k], f[j])
  <2>1. f[j].api_ts <= t
    BY <1>3 DEF A
  <2>2. f[j].api_ts = t => f[j].poll_ts <= v
    BY <1>5 DEF P
  <2>3. f[j].api_ts \in Int /\ f[j].poll_ts \in Int /\ t \in Int /\ v \in Int
    BY <1>1, <1>6
  <2>4. QED
    BY <1>6, <2>1, <2>2, <2>3 DEF Before
<1>8. QED
  BY <1>7

(* Every position up to n is in live_states or was hidden from it.         *)
ShownTo(n) ==
    \A i \in 1..n : log[i].positioned =>
        \/ /\ live_states[log[i].icao24] # Null
           /\ live_states[log[i].icao24].api_ts >= log[i].api_ts
        \/ \E j \in 1..n :
              log[j].icao24 = log[i].icao24 /\ ~log[j].positioned /\ ~Before(log[j], log[i])

(* A batch whose sink returned counts, although it is not committed.       *)
ShownInv ==
    /\ LiveStateInv
    /\ ShownTo(offset["live"])
    /\ phase["live"] = "sunk" => ShownTo(planned["live"])

LEMMA UpsertShows ==
  ASSUME ShownInv, UpsertBatch
  PROVE  ShownTo(planned["live"])' /\ ShownTo(offset["live"])'
<1> USE DEF ShownInv, LiveStateInv
<1>0. "live" \in Queries
  BY DEF Queries
<1> DEFINE o == offset["live"]
           p == planned["live"]
<1>1. o \in Nat /\ p \in Nat /\ o <= p /\ p <= Len(log) /\ Len(log) \in Nat
  BY <1>0 DEF UpsertBatch, Sinking, BatchTypeOK
<1>2. o' = o /\ p' = p /\ log' = log
  BY DEF UpsertBatch, Sinking
<1>3. \A i \in 1..p : log[i] \in Message
  BY <1>1 DEF BatchTypeOK
<1>4. \A i \in 1..p : log[i].icao24 \in Aircraft /\ log[i].api_ts \in Int
  BY <1>3 DEF Message
<1>5. \A a \in Aircraft : live_states[a] # Null => live_states[a].api_ts \in Int
  BY DEF LiveTypeOK, Message
<1>6. \A a \in Aircraft : live_states'[a] # Null => live_states'[a].api_ts \in Int
  BY UpsertedRow DEF Message
<1> HIDE DEF o, p
<1>7. ASSUME NEW i \in 1..o, log[i].positioned,
             live_states[log[i].icao24] # Null,
             live_states[log[i].icao24].api_ts >= log[i].api_ts
      PROVE  live_states'[log[i].icao24] # Null
             /\ live_states'[log[i].icao24].api_ts >= log[i].api_ts
  <2>1. i \in 1..p
    BY <1>1
  <2>2. QED
    BY <1>4, <1>5, <1>6, <1>7, <2>1, UpsertedRow
<1>8. ASSUME NEW i \in o + 1..p, log[i].positioned
      PROVE  \/ /\ live_states'[log[i].icao24] # Null
                /\ live_states'[log[i].icao24].api_ts >= log[i].api_ts
             \/ \E j \in 1..p : /\ log[j].icao24 = log[i].icao24
                                /\ ~log[j].positioned /\ ~Before(log[j], log[i])
  <2> DEFINE a == log[i].icao24
             mine == {j \in Batch("live") : log[j].icao24 = a}
  <2>1. i \in 1..p /\ a \in Aircraft /\ i \in mine
    BY <1>1, <1>4 DEF Batch, o, p
  <2>2. mine \subseteq 1..p
    BY <1>1 DEF Batch, o, p
  <2>3. \E k \in mine : \A j \in mine : ~Before(log[k], log[j])
    <3>1. mine # {} /\ mine \subseteq Nat /\ \A j \in mine : log[j] \in Message
      BY <1>1, <1>3, <2>1, <2>2
    <3> HIDE DEF mine
    <3>2. QED
      BY <3>1, LatestExists
  <2>4. PICK k \in Latest(a) : live_states'[a] = Upserted(live_states[a], log[k])
    BY <2>1, <2>3, UpsertedRow DEF Latest
  <2>5. k \in 1..p /\ log[k].icao24 = a /\ ~Before(log[k], log[i])
    BY <2>1, <2>2, <2>4 DEF Latest
  <2>6. CASE ~log[k].positioned
    BY <2>5, <2>6
  <2>7. CASE log[k].positioned
    <3>1. log[k].api_ts >= log[i].api_ts
      BY <1>4, <2>1, <2>5 DEF Before
    <3>2. log[k] # Null
      BY <1>3, <2>5, NullAssumption
    <3>3. live_states'[a] # Null /\ live_states'[a].api_ts >= log[k].api_ts
      BY <1>4, <1>5, <2>1, <2>4, <2>5, <2>7, <3>2 DEF Upserted
    <3>4. QED
      BY <1>4, <1>6, <2>1, <2>5, <3>1, <3>3
  <2>8. QED
    BY <2>6, <2>7
<1>9. \A i \in 1..o : log[i].positioned =>
        \/ /\ live_states'[log[i].icao24] # Null
           /\ live_states'[log[i].icao24].api_ts >= log[i].api_ts
        \/ \E j \in 1..o : /\ log[j].icao24 = log[i].icao24
                           /\ ~log[j].positioned /\ ~Before(log[j], log[i])
  BY <1>7 DEF ShownTo, o
<1>10. \A i \in 1..p : i \in 1..o \/ i \in o + 1..p
  BY <1>1
<1>11. 1..o \subseteq 1..p
  BY <1>1
<1>12. ShownTo(o)'
  BY <1>2, <1>9 DEF ShownTo, Before
<1>13. \A i \in 1..p : log[i].positioned =>
        \/ /\ live_states'[log[i].icao24] # Null
           /\ live_states'[log[i].icao24].api_ts >= log[i].api_ts
        \/ \E j \in 1..p : /\ log[j].icao24 = log[i].icao24
                           /\ ~log[j].positioned /\ ~Before(log[j], log[i])
  BY <1>8, <1>9, <1>10, <1>11
<1>14. ShownTo(p)'
  BY <1>2, <1>13 DEF ShownTo, Before
<1>15. QED
  BY <1>12, <1>14 DEF o, p

LEMMA ShownStep ==
  ASSUME ShownInv, [LiveFed]_<<log, faults, batchVars, live_states>>
  PROVE  ShownInv'
<1> USE DEF ShownInv
<1>0. "live" \in Queries
  BY DEF Queries
<1>1. LiveStateInv'
  BY LiveStep
<1>2. /\ offset["live"] \in 0..Len(log) /\ Len(log) \in Nat
      /\ planned["live"] # Null => planned["live"] \in 0..Len(log)
      /\ DOMAIN phase = Queries /\ DOMAIN offset = Queries /\ DOMAIN planned = Queries
  BY <1>0 DEF LiveStateInv, BatchTypeOK
<1>3. CASE Published /\ UNCHANGED <<faults, batchVars, live_states>>
  <2>1. PICK m \in Message : log' = Append(log, m)
    BY <1>3 DEF Published
  <2>2. \A i \in 1..Len(log) : log'[i] = log[i]
    BY <2>1 DEF LiveStateInv, BatchTypeOK
  <2>3. /\ offset["live"]' = offset["live"] /\ planned["live"]' = planned["live"]
        /\ phase["live"]' = phase["live"] /\ live_states' = live_states
    BY <1>3 DEF batchVars
  <2>4. \A i \in 1..offset["live"] : log'[i] = log[i]
    BY <1>2, <2>2
  <2>5. ShownTo(offset["live"])'
    BY <2>3, <2>4 DEF ShownTo, Before
  <2>6. ASSUME phase["live"]' = "sunk" PROVE ShownTo(planned["live"])'
    <3>1. planned["live"] \in 0..Len(log)
      BY <1>2, <2>3, <2>6 DEF LiveStateInv
    <3>2. \A i \in 1..planned["live"] : log'[i] = log[i]
      BY <1>2, <2>2, <3>1
    <3>3. QED
      BY <2>3, <2>6, <3>2 DEF ShownTo, Before
  <2>7. QED
    BY <1>1, <2>5, <2>6
<1>4. CASE UpsertBatch
  BY <1>1, <1>4, UpsertShows
<1>5. CASE Committing("live") /\ UNCHANGED live_states
  BY <1>0, <1>1, <1>2, <1>5 DEF Committing, ShownTo, Before
<1>6. CASE (StartQuery("live") \/ PlanBatch("live") \/ Die) /\ UNCHANGED live_states
  <2>1. /\ offset["live"]' = offset["live"] /\ phase'["live"] # "sunk"
        /\ log' = log /\ live_states' = live_states
    BY <1>0, <1>2, <1>6 DEF StartQuery, PlanBatch, Die
  <2>2. QED
    BY <1>1, <2>1 DEF ShownTo, Before
<1>7. CASE UNCHANGED <<log, faults, batchVars, live_states>>
  BY <1>1, <1>7 DEF batchVars, ShownTo, Before
<1>8. QED
  BY <1>3, <1>4, <1>5, <1>6, <1>7 DEF LiveFed, LiveNext

(* Choosing the latest row before rows without a position are dropped      *)
(* (spark_app.py, start_live) hides a position only behind such a row, no  *)
(* matter how the topic is cut into batches and how often they are re-run. *)
THEOREM HiddenOnlyBehindPositionless == LiveQuerySpec => []HiddenOnlyByPositionless
<1>1. log = <<>> /\ BatchInit /\ LiveInit => ShownInv
  <2>1. ASSUME log = <<>>, BatchInit, LiveInit PROVE ShownInv
    <3>1. offset["live"] = 0 /\ phase["live"] = "down"
      BY <2>1 DEF BatchInit, Queries
    <3>2. QED
      BY <2>1, <3>1, LiveInitially DEF ShownInv, ShownTo
  <2>2. QED
    BY <2>1
<1>2. ShownInv => HiddenOnlyByPositionless
  BY DEF ShownInv, ShownTo, HiddenOnlyByPositionless
<1>3. QED
  BY <1>1, <1>2, ShownStep, PTL DEF LiveQuerySpec

-----------------------------------------------------------------------------
(* The bronze query.  What a batch archives depends on checkpointed state  *)
(* alone, so that a batch whose files are complete is known when it is run *)
(* again; and what earlier batches archived is remembered or too old to be *)
(* archived again.                                                         *)
Settled(i) == log[i].api_ts <= watermark \/ \E s \in seen : s.key = Key(log[i])

BronzeInv ==
    /\ BatchTypeOK /\ BronzeTypeOK
    /\ \A s \in seen : s.key[2] \in Int /\ s.until = s.key[2] + Delay
    /\ phase["bronze"] = "sunk" => written
    /\ written => /\ planned["bronze"] # Null
                  /\ Len(archive) > 0 /\ archive[Len(archive)] = Deduplicated
    /\ \A f \in DOMAIN archive : ~(written /\ f = Len(archive)) =>
          \A i \in archive[f] : Settled(i)

LEMMA SameKey ==
  ASSUME NEW m, NEW n
  PROVE  /\ Key(m) = Key(n) <=> m.icao24 = n.icao24 /\ m.api_ts = n.api_ts
         /\ Key(m)[2] = m.api_ts
BY DEF Key

LEMMA BronzeBatchTypes ==
  ASSUME BronzeInv, [BronzeFed]_<<log, faults, batchVars, bronzeVars>>
  PROVE  BatchTypeOK'
<1> USE DEF BronzeInv
<1>0. "bronze" \in Queries
  BY DEF Queries
<1>1. CASE Published /\ UNCHANGED <<faults, batchVars, bronzeVars>>
  BY <1>1, BatchTypes DEF batchVars
<1>2. CASE WriteFiles
  BY <1>0, <1>2, BatchTypes DEF WriteFiles
<1>3. CASE CommitBronze
  BY <1>0, <1>3, BatchTypes DEF CommitBronze, Committing
<1>4. CASE StartQuery("bronze") \/ PlanBatch("bronze") \/ Die
  BY <1>0, <1>4, BatchTypes
<1>5. CASE UNCHANGED <<log, faults, batchVars, bronzeVars>>
  BY <1>5, BatchTypes DEF batchVars
<1>6. QED
  BY <1>1, <1>2, <1>3, <1>4, <1>5 DEF BronzeFed, BronzeNext

(* The messages of a planned batch.                                        *)
LEMMA BronzeBatch ==
  ASSUME BronzeInv, planned["bronze"] # Null
  PROVE  /\ Batch("bronze") \subseteq DOMAIN log /\ Batch("bronze") \subseteq Nat
         /\ offset["bronze"] \in Nat /\ planned["bronze"] \in Nat
         /\ offset["bronze"] <= planned["bronze"]
         /\ \A i \in Batch("bronze") : log[i] \in Message /\ log[i].api_ts \in Nat \ {0}
<1>1. "bronze" \in Queries
  BY DEF Queries
<1>2. /\ offset["bronze"] \in 0..Len(log) /\ planned["bronze"] \in 0..Len(log)
      /\ planned["bronze"] >= offset["bronze"] /\ Len(log) \in Nat /\ log \in Seq(Message)
  BY <1>1 DEF BronzeInv, BatchTypeOK
<1>3. Batch("bronze") \subseteq 1..Len(log)
  BY <1>2 DEF Batch
<1>4. \A i \in 1..Len(log) : log[i] \in Message
  BY <1>2
<1>5. \A m \in Message : m.api_ts \in Nat \ {0}
  BY TopicAssumption DEF Message
<1>6. QED
  BY <1>2, <1>3, <1>4, <1>5

LEMMA SameBatch ==
  ASSUME \A i \in Batch("bronze") : log'[i] = log[i],
         UNCHANGED <<offset, planned, watermark, seen>>
  PROVE  Deduplicated' = Deduplicated
<1>1. Batch("bronze")' = Batch("bronze")
  BY DEF Batch
<1>2. InTime' = InTime
  BY <1>1 DEF InTime
<1>3. \A i \in InTime : log'[i] = log[i]
  BY DEF InTime
<1>4. QED
  BY <1>2, <1>3 DEF Deduplicated, Key

LEMMA WatermarkGrows ==
  ASSUME BronzeInv, CommitBronze
  PROVE  watermark' \in Marks /\ watermark' \in Int /\ watermark' >= watermark
<1>1. planned["bronze"] # Null
  BY DEF BronzeInv, CommitBronze, Committing
<1>2. \A i \in Batch("bronze") : log[i].api_ts \in Int
  BY <1>1, BronzeBatch
<1>3. watermark \in Int /\ Delay \in Int
  BY DelayAssumption DEF BronzeInv, BronzeTypeOK
<1>4. Marks \subseteq Int /\ watermark \in Marks
  BY <1>2, <1>3 DEF Marks, Behind
<1>5. QED
  BY <1>4 DEF CommitBronze

(* What is settled stays so when the watermark moves and keys expire.      *)
LEMMA CommitSettles ==
  ASSUME BronzeInv, CommitBronze
  PROVE  /\ \A s \in seen' : s.key[2] \in Int /\ s.until = s.key[2] + Delay
         /\ \A f \in DOMAIN archive : \A i \in archive[f] : Settled(i)'
<1> DEFINE new == {[key |-> Key(log[i]), until |-> log[i].api_ts + Delay] : i \in Deduplicated}
<1>1. planned["bronze"] # Null /\ written /\ archive[Len(archive)] = Deduplicated
  BY DEF BronzeInv, CommitBronze, Committing
<1>2. seen' = {s \in seen \cup new : s.until > watermark} /\ log' = log
  BY DEF CommitBronze, Committing
<1>3. watermark \in Int /\ watermark' \in Int /\ watermark' >= watermark /\ Delay \in Nat
  BY WatermarkGrows, DelayAssumption DEF BronzeInv, BronzeTypeOK
<1>4. \A i \in Deduplicated : log[i].api_ts \in Int /\ log[i].api_ts > watermark
  BY <1>1, BronzeBatch DEF Deduplicated, InTime
<1>5. \A s \in new : s.key[2] \in Int /\ s.until = s.key[2] + Delay
  BY <1>4, SameKey
<1>6. \A s \in seen : s.key[2] \in Int /\ s.until = s.key[2] + Delay
  BY DEF BronzeInv
<1> HIDE DEF new
<1>7. ASSUME NEW i \in Deduplicated PROVE Settled(i)'
  <2> DEFINE s == [key |-> Key(log[i]), until |-> log[i].api_ts + Delay]
  <2>1. s \in new /\ s.until > watermark /\ s.key = Key(log[i])
    BY <1>3, <1>4 DEF new
  <2>2. QED
    BY <1>2, <2>1 DEF Settled, Key
<1>8. ASSUME NEW i, Settled(i), log[i].api_ts \in Int PROVE Settled(i)'
  <2>1. CASE log[i].api_ts <= watermark
    BY <1>2, <1>3, <1>8, <2>1 DEF Settled
  <2>2. ASSUME NEW s \in seen, s.key = Key(log[i]) PROVE Settled(i)'
    <3>1. s.until = log[i].api_ts + Delay
      BY <1>6, <2>2, SameKey
    <3>2. CASE s.until > watermark
      BY <1>2, <2>2, <3>2 DEF Settled, Key
    <3>3. CASE ~(s.until > watermark)
      BY <1>2, <1>3, <1>8, <3>1, <3>3 DEF Settled
    <3>4. QED
      BY <3>2, <3>3
  <2>3. QED
    BY <1>8, <2>1, <2>2 DEF Settled
<1>9. \A f \in DOMAIN archive : \A i \in archive[f] : log[i].api_ts \in Int
  <2>1. \A f \in DOMAIN archive : archive[f] \subseteq DOMAIN log
    BY DEF BronzeInv, BronzeTypeOK
  <2>2. \A i \in DOMAIN log : log[i] \in Message
    BY DEF BronzeInv, BatchTypeOK
  <2>3. QED
    BY <2>1, <2>2 DEF Message
<1>10. \A f \in DOMAIN archive : f = Len(archive) \/ \A i \in archive[f] : Settled(i)
  BY DEF BronzeInv
<1>11. QED
  BY <1>1, <1>2, <1>5, <1>6, <1>7, <1>8, <1>9, <1>10

LEMMA BronzeStep ==
  ASSUME BronzeInv, [BronzeFed]_<<log, faults, batchVars, bronzeVars>>
  PROVE  BronzeInv'
<1>0. "bronze" \in Queries /\ BatchTypeOK'
  BY BronzeBatchTypes DEF Queries
<1>1. CASE Published /\ UNCHANGED <<faults, batchVars, bronzeVars>>
  <2>1. PICK m \in Message : log' = Append(log, m)
    BY <1>1 DEF Published
  <2>2. (\A i \in DOMAIN log : log'[i] = log[i]) /\ DOMAIN log \subseteq DOMAIN log'
    BY <2>1 DEF BronzeInv, BatchTypeOK
  <2>3. /\ UNCHANGED <<archive, written, watermark, seen, offset, planned, phase>>
    BY <1>1 DEF batchVars, bronzeVars
  <2>4. written => Deduplicated' = Deduplicated
    BY <2>2, <2>3, BronzeBatch, SameBatch DEF BronzeInv
  <2>5. BronzeTypeOK'
    <3>1. archive \in Seq(SUBSET DOMAIN log) /\ SUBSET DOMAIN log \subseteq SUBSET DOMAIN log'
      BY <2>2 DEF BronzeInv, BronzeTypeOK
    <3>2. \A S, T : S \subseteq T => Seq(S) \subseteq Seq(T)
      OBVIOUS
    <3>3. archive \in Seq(SUBSET DOMAIN log')
      BY <3>1, <3>2
    <3>4. QED
      BY <2>3, <3>3 DEF BronzeInv, BronzeTypeOK
  <2>6. \A f \in DOMAIN archive : \A i \in archive[f] : log'[i] = log[i]
    BY <2>2 DEF BronzeInv, BronzeTypeOK
  <2>7. \A f \in DOMAIN archive : ~(written /\ f = Len(archive)) =>
          \A i \in archive[f] : Settled(i)'
    BY <2>3, <2>6 DEF BronzeInv, Settled, Key
  <2>8. QED
    BY <1>0, <2>3, <2>4, <2>5, <2>7 DEF BronzeInv
<1>2. CASE WriteFiles
  <2>1. /\ planned["bronze"] # Null /\ written' = TRUE
        /\ UNCHANGED <<watermark, seen, log, offset, planned>>
        /\ archive' = IF written THEN archive ELSE Append(archive, Deduplicated)
    BY <1>2 DEF WriteFiles, Sinking
  <2>2. Deduplicated' = Deduplicated
    BY <2>1, SameBatch
  <2>3. Deduplicated \subseteq DOMAIN log /\ archive \in Seq(SUBSET DOMAIN log)
    BY <2>1, BronzeBatch DEF BronzeInv, BronzeTypeOK, Deduplicated, InTime
  <2>4. CASE written
    BY <1>0, <2>1, <2>2, <2>4 DEF BronzeInv, BronzeTypeOK, Settled, Key
  <2>5. CASE ~written
    <3>1. /\ archive' \in Seq(SUBSET DOMAIN log) /\ Len(archive') = Len(archive) + 1
          /\ archive'[Len(archive')] = Deduplicated /\ Len(archive) \in Nat
          /\ \A f \in DOMAIN archive : archive'[f] = archive[f]
          /\ \A f \in DOMAIN archive' : f = Len(archive') \/ f \in DOMAIN archive
      BY <2>1, <2>3, <2>5
    <3>2. \A f \in DOMAIN archive : \A i \in archive[f] : Settled(i)'
      BY <2>1, <2>5 DEF BronzeInv, Settled, Key
    <3>3. QED
      BY <1>0, <2>1, <2>2, <3>1, <3>2 DEF BronzeInv, BronzeTypeOK
  <2>6. QED
    BY <2>4, <2>5
<1>3. CASE CommitBronze
  <2>1. /\ phase'["bronze"] = "ready" /\ written' = FALSE
        /\ UNCHANGED <<archive, log>> /\ watermark' \in Int
    BY <1>0, <1>3, WatermarkGrows DEF CommitBronze, Committing, BronzeInv, BatchTypeOK
  <2>2. QED
    BY <1>0, <1>3, <2>1, CommitSettles DEF BronzeInv, BronzeTypeOK
<1>4. CASE (StartQuery("bronze") \/ Die) /\ UNCHANGED bronzeVars
  <2>1. /\ UNCHANGED <<archive, written, watermark, seen, offset, planned, log>>
        /\ phase'["bronze"] # "sunk"
    BY <1>0, <1>4 DEF StartQuery, Die, bronzeVars, BronzeInv, BatchTypeOK
  <2>2. Deduplicated' = Deduplicated
    BY <2>1, SameBatch
  <2>3. QED
    BY <1>0, <2>1, <2>2 DEF BronzeInv, BronzeTypeOK, Settled, Key
<1>5. CASE PlanBatch("bronze") /\ UNCHANGED bronzeVars
  <2>1. UNCHANGED <<archive, written, watermark, seen, phase, log>> /\ ~written
    BY <1>5 DEF PlanBatch, bronzeVars, BronzeInv
  <2>2. QED
    BY <1>0, <2>1 DEF BronzeInv, BronzeTypeOK, Settled, Key
<1>6. CASE UNCHANGED <<log, faults, batchVars, bronzeVars>>
  <2>1. UNCHANGED <<archive, written, watermark, seen, offset, planned, phase, log>>
    BY <1>6 DEF batchVars, bronzeVars
  <2>2. Deduplicated' = Deduplicated
    BY <2>1, SameBatch
  <2>3. QED
    BY <1>0, <2>1, <2>2 DEF BronzeInv, BronzeTypeOK, Settled, Key
<1>7. QED
  BY <1>1, <1>2, <1>3, <1>4, <1>5, <1>6 DEF BronzeFed, BronzeNext

LEMMA BronzeInitially ==
  ASSUME log = <<>>, BatchInit, BronzeInit
  PROVE  BronzeInv
<1>1. phase["bronze"] = "down"
  BY DEF BatchInit, Queries
<1>2. archive \in Seq(SUBSET DOMAIN log) /\ DOMAIN archive = {}
  BY DEF BronzeInit
<1>3. written = FALSE /\ watermark = 0 /\ seen = {}
  BY DEF BronzeInit
<1>4. BronzeTypeOK
  <2>1. written \in BOOLEAN
    BY <1>3, Zenon
  <2>2. watermark \in Int
    BY <1>3
  <2>3. QED
    BY <1>2, <2>1, <2>2 DEF BronzeTypeOK
<1>5. QED
  BY <1>1, <1>2, <1>3, <1>4, BatchInitially DEF BronzeInv

(* What a batch archives is settled by no earlier one.                     *)
LEMMA WriteOnce ==
  ASSUME BronzeInv, BronzeOnce, WriteFiles
  PROVE  BronzeOnce'
<1>1. /\ planned["bronze"] # Null /\ log' = log
      /\ archive' = IF written THEN archive ELSE Append(archive, Deduplicated)
  BY DEF WriteFiles, Sinking
<1>2. CASE written
  BY <1>1, <1>2 DEF BronzeOnce
<1>3. CASE ~written
  <2>1. /\ archive'[Len(archive')] = Deduplicated /\ Len(archive') \notin DOMAIN archive
        /\ \A f \in DOMAIN archive : archive'[f] = archive[f]
        /\ \A f \in DOMAIN archive' : f = Len(archive') \/ f \in DOMAIN archive
    BY <1>1, <1>3 DEF BronzeInv, BronzeTypeOK
  <2>2. \A f \in DOMAIN archive : \A i \in archive[f] : Settled(i)
    BY <1>3 DEF BronzeInv
  <2>3. \A j \in Deduplicated : j \in Batch("bronze") /\ log[j].api_ts > watermark
    BY DEF Deduplicated, InTime
  <2>4. \A j \in Deduplicated : ~Settled(j)
    BY <1>1, <2>3, BronzeBatch DEF Deduplicated, Settled, BronzeInv, BronzeTypeOK
  <2>5. ASSUME NEW f \in DOMAIN archive, NEW i \in archive[f], NEW j \in Deduplicated
        PROVE  ~(log[i].icao24 = log[j].icao24 /\ log[i].api_ts = log[j].api_ts)
    BY <2>2, <2>4, SameKey DEF Settled
  <2>6. ASSUME NEW i \in Deduplicated, NEW j \in Deduplicated,
               log[i].icao24 = log[j].icao24, log[i].api_ts = log[j].api_ts
        PROVE  i = j
    <3>1. i \in Nat /\ j \in Nat
      BY <1>1, <2>3, BronzeBatch
    <3>2. i <= j /\ j <= i
      BY <2>6, SameKey DEF Deduplicated
    <3>3. QED
      BY <3>1, <3>2
  <2>7. QED
    BY <1>1, <2>1, <2>5, <2>6 DEF BronzeOnce
<1>4. QED
  BY <1>2, <1>3

(* Outside of WriteFiles the archive stays as it is.                       *)
LEMMA ArchiveKept ==
  ASSUME BronzeInv, [BronzeFed]_<<log, faults, batchVars, bronzeVars>>, ~WriteFiles
  PROVE  /\ archive' = archive /\ DOMAIN log \subseteq DOMAIN log'
         /\ \A i \in DOMAIN log : log'[i] = log[i]
<1>1. CASE Published /\ UNCHANGED bronzeVars
  <2>1. PICK m \in Message : log' = Append(log, m)
    BY <1>1 DEF Published
  <2>2. QED
    BY <1>1, <2>1 DEF BronzeInv, BatchTypeOK, bronzeVars
<1>2. CASE CommitBronze
  BY <1>2 DEF CommitBronze, Committing
<1>3. CASE (StartQuery("bronze") \/ PlanBatch("bronze") \/ Die) /\ UNCHANGED bronzeVars
  BY <1>3 DEF StartQuery, PlanBatch, Die, bronzeVars
<1>4. CASE UNCHANGED <<log, faults, batchVars, bronzeVars>>
  BY <1>4 DEF bronzeVars
<1>5. QED
  BY <1>1, <1>2, <1>3, <1>4 DEF BronzeFed, BronzeNext

LEMMA OnceStep ==
  ASSUME BronzeInv, BronzeOnce, [BronzeFed]_<<log, faults, batchVars, bronzeVars>>
  PROVE  BronzeOnce'
<1>1. CASE WriteFiles
  BY <1>1, WriteOnce
<1>2. CASE ~WriteFiles
  <2>1. \A f \in DOMAIN archive : \A i \in archive[f] : i \in DOMAIN log
    BY DEF BronzeInv, BronzeTypeOK
  <2>2. QED
    BY <1>2, <2>1, ArchiveKept DEF BronzeOnce
<1>3. QED
  BY <1>1, <1>2

(* start_bronze archives a report, named by its aircraft and api_ts, once, *)
(* for every delay of the watermark, every disorder of the topic, and all  *)
(* crashes between the files of a batch and its commit.                    *)
THEOREM BronzeArchivesOnce == BronzeQuerySpec => []BronzeOnce
<1>1. log = <<>> /\ BatchInit /\ BronzeInit => BronzeInv /\ BronzeOnce
  <2>1. BronzeInit => DOMAIN archive = {}
    BY DEF BronzeInit
  <2>2. QED
    BY <2>1, BronzeInitially DEF BronzeOnce
<1>2. BronzeInv /\ BronzeOnce /\ [BronzeFed]_<<log, faults, batchVars, bronzeVars>>
      => BronzeInv' /\ BronzeOnce'
  BY BronzeStep, OnceStep
<1>3. QED
  BY <1>1, <1>2, PTL DEF BronzeQuerySpec

-----------------------------------------------------------------------------
(* What the archive leaves out.  A remembered key is archived, and the     *)
(* watermark stands where a message moved it.                              *)
Archived(k) == \E f \in DOMAIN archive : \E j \in archive[f] : Key(log[j]) = k

TooLate(i) == \E j \in 1..i - 1 :
                 log[j].positioned /\ log[j].api_ts >= log[i].api_ts + Delay

LossInv ==
    /\ BronzeInv
    /\ \A s \in seen : Archived(s.key)
    /\ \/ watermark <= 0
       \/ \E j \in 1..offset["bronze"] :
              log[j].positioned /\ watermark = log[j].api_ts - Delay
    /\ BronzeLosesOnlyLate

LEMMA ArchivedGrows ==
  ASSUME BronzeInv, [BronzeFed]_<<log, faults, batchVars, bronzeVars>>, NEW k, Archived(k)
  PROVE  Archived(k)'
<1>1. PICK f \in DOMAIN archive : \E j \in archive[f] : Key(log[j]) = k
  BY DEF Archived
<1>2. PICK j \in archive[f] : Key(log[j]) = k
  BY <1>1
<1>3. j \in DOMAIN log
  BY DEF BronzeInv, BronzeTypeOK
<1>4. CASE WriteFiles
  <2>1. log' = log /\ f \in DOMAIN archive' /\ archive'[f] = archive[f]
    BY <1>4 DEF WriteFiles, Sinking, BronzeInv, BronzeTypeOK
  <2>2. QED
    BY <1>2, <2>1 DEF Archived
<1>5. CASE ~WriteFiles
  BY <1>2, <1>3, <1>5, ArchiveKept DEF Archived, Key
<1>6. QED
  BY <1>4, <1>5

(* A position of the batch that is committed is archived or too late.      *)
LEMMA CommitLoses ==
  ASSUME LossInv, CommitBronze, NEW i \in Batch("bronze"), log[i].positioned
  PROVE  Archived(Key(log[i])) \/ TooLate(i)
<1>1. planned["bronze"] # Null /\ Len(archive) \in DOMAIN archive
      /\ archive[Len(archive)] = Deduplicated
  BY DEF LossInv, BronzeInv, BronzeTypeOK, CommitBronze, Committing
<1>2. log[i].api_ts \in Nat \ {0} /\ offset["bronze"] \in Nat /\ Delay \in Nat
      /\ watermark \in Int /\ i \in Nat /\ i > offset["bronze"]
  BY <1>1, BronzeBatch, DelayAssumption DEF LossInv, BronzeInv, BronzeTypeOK, Batch
<1>3. CASE log[i].api_ts <= watermark
  <2>1. PICK j \in 1..offset["bronze"] :
               log[j].positioned /\ watermark = log[j].api_ts - Delay
    BY <1>2, <1>3 DEF LossInv
  <2>2. j \in 1..i - 1
    BY <1>2
  <2>3. log[j].api_ts \in Int
    <3>1. "bronze" \in Queries
      BY DEF Queries
    <3>2. j \in DOMAIN log /\ log \in Seq(Message)
      BY <3>1 DEF LossInv, BronzeInv, BatchTypeOK
    <3>3. log[j] \in Message
      BY <3>2
    <3>4. QED
      BY <3>3 DEF Message
  <2>4. QED
    BY <1>2, <1>3, <2>1, <2>2, <2>3 DEF TooLate
<1>4. CASE log[i].api_ts > watermark
  <2>1. i \in InTime
    BY <1>4 DEF InTime
  <2>2. CASE \E s \in seen : s.key = Key(log[i])
    BY <2>2 DEF LossInv
  <2>3. CASE \A s \in seen : s.key # Key(log[i])
    <3> DEFINE Same == {j \in InTime : Key(log[j]) = Key(log[i])}
    <3>1. Same # {} /\ Same \subseteq Nat
      BY <1>1, <2>1, BronzeBatch DEF InTime, LossInv
    <3>2. PICK j \in Same : \A k \in Same : j <= k
      <4> HIDE DEF Same
      <4>1. QED
        BY <3>1, NatMin
    <3>3. j \in Deduplicated
      BY <2>3, <3>2 DEF Deduplicated
    <3>4. QED
      BY <1>1, <3>2, <3>3 DEF Archived
  <2>4. QED
    BY <2>2, <2>3
<1>5. QED
  BY <1>2, <1>3, <1>4

LEMMA LosesAlike ==
  BronzeLosesOnlyLate <=>
    \A i \in 1..offset["bronze"] : log[i].positioned => Archived(Key(log[i])) \/ TooLate(i)
BY SameKey DEF BronzeLosesOnlyLate, Archived, TooLate

LEMMA LossStep ==
  ASSUME LossInv, [BronzeFed]_<<log, faults, batchVars, bronzeVars>>
  PROVE  LossInv'
<1>0. "bronze" \in Queries /\ BronzeInv /\ BronzeInv'
  BY BronzeStep DEF LossInv, Queries
<1>1. /\ offset["bronze"] \in 0..Len(log) /\ Len(log) \in Nat
      /\ \A j \in 1..offset["bronze"] : j \in DOMAIN log /\ log'[j] = log[j]
  <2>1. offset["bronze"] \in 0..Len(log) /\ Len(log) \in Nat /\ DOMAIN log = 1..Len(log)
    BY <1>0 DEF BronzeInv, BatchTypeOK
  <2>2. \A j \in DOMAIN log : log'[j] = log[j]
    BY <1>0, ArchiveKept DEF WriteFiles, Sinking
  <2>3. QED
    BY <2>1, <2>2
<1>2. \A i \in 1..offset["bronze"] : TooLate(i) => TooLate(i)'
  <2>1. ASSUME NEW i \in 1..offset["bronze"], TooLate(i) PROVE TooLate(i)'
    <3>1. \A j \in 1..i - 1 : log'[j] = log[j]
      BY <1>1
    <3>2. log'[i] = log[i]
      BY <1>1
    <3>3. QED
      BY <2>1, <3>1, <3>2 DEF TooLate
  <2>2. QED
    BY <2>1
<1>3. \A i \in 1..offset["bronze"] : Archived(Key(log[i])) => Archived(Key(log[i]))'
  <2>1. ASSUME NEW i \in 1..offset["bronze"], Archived(Key(log[i]))
        PROVE  Archived(Key(log[i]))'
    <3>1. Key(log'[i]) = Key(log[i])
      BY <1>1
    <3>2. Archived(Key(log[i])) => (\E f \in DOMAIN archive' : \E j \in archive'[f] :
                                      Key(log'[j]) = Key(log[i]))
      BY <1>0, ArchivedGrows DEF Archived, Key
    <3>3. QED
      BY <2>1, <3>1, <3>2 DEF Archived, Key
  <2>2. QED
    BY <2>1
<1>4. \A i \in 1..offset["bronze"] : log'[i].positioned =>
         Archived(Key(log[i]))' \/ TooLate(i)'
  BY <1>1, <1>2, <1>3, LosesAlike DEF LossInv
<1>5. CASE CommitBronze
  <2>1. /\ planned["bronze"] # Null /\ offset'["bronze"] = planned["bronze"]
        /\ log' = log /\ archive' = archive
    BY <1>0, <1>5 DEF CommitBronze, Committing, BronzeInv, BatchTypeOK
  <2>2. /\ planned["bronze"] \in Nat /\ offset["bronze"] <= planned["bronze"]
        /\ Batch("bronze") = offset["bronze"] + 1..planned["bronze"]
    BY <1>0, <2>1, BronzeBatch DEF Batch
  <2>3. \A i \in Batch("bronze") : log[i].positioned => Archived(Key(log[i])) \/ TooLate(i)
    BY <1>5, CommitLoses
  <2>4. \A i \in 1..planned["bronze"] : i \in 1..offset["bronze"] \/ i \in Batch("bronze")
    BY <1>1, <2>2
  <2>5. \A i \in 1..planned["bronze"] : log[i].positioned =>
           Archived(Key(log[i])) \/ TooLate(i)
    BY <2>3, <2>4, LosesAlike DEF LossInv
  <2>6. BronzeLosesOnlyLate'
    BY <2>1, <2>5 DEF BronzeLosesOnlyLate, Archived, TooLate, Key
  <2>7. \A s \in seen' : Archived(s.key)'
    <3>1. \A s \in seen' : s \in seen \/ \E i \in Deduplicated : s.key = Key(log[i])
      BY <1>5 DEF CommitBronze
    <3>2. Len(archive) \in DOMAIN archive /\ archive[Len(archive)] = Deduplicated
      BY <1>0, <1>5 DEF BronzeInv, BronzeTypeOK, CommitBronze, Committing
    <3>3. \A i \in Deduplicated : Archived(Key(log[i]))
      BY <3>2 DEF Archived
    <3>4. QED
      BY <2>1, <3>1, <3>3 DEF LossInv, Archived, Key
  <2>8. \/ watermark' <= 0
        \/ \E j \in 1..offset'["bronze"] :
              log'[j].positioned /\ watermark' = log'[j].api_ts - Delay
    <3>1. watermark' \in Marks
      BY <1>0, <1>5, WatermarkGrows
    <3>2. 1..offset["bronze"] \subseteq 1..planned["bronze"]
          /\ Batch("bronze") \subseteq 1..planned["bronze"]
      BY <1>1, <2>2
    <3>3. CASE watermark' = watermark
      BY <2>1, <3>2, <3>3 DEF LossInv
    <3>4. CASE watermark' # watermark
      BY <2>1, <3>1, <3>2, <3>4 DEF Marks, Behind
    <3>5. QED
      BY <3>3, <3>4
  <2>9. QED
    BY <1>0, <2>6, <2>7, <2>8 DEF LossInv
<1>6. CASE ~CommitBronze
  <2>1. UNCHANGED <<seen, watermark>> /\ offset'["bronze"] = offset["bronze"]
    BY <1>0, <1>6 DEF BronzeFed, BronzeNext, bronzeVars, batchVars, WriteFiles, Sinking,
                      StartQuery, PlanBatch, Die
  <2>2. \A s \in seen' : Archived(s.key)'
    BY <1>0, <2>1, ArchivedGrows DEF LossInv
  <2>3. BronzeLosesOnlyLate'
    BY <1>4, <2>1 DEF BronzeLosesOnlyLate, Archived, TooLate, Key
  <2>4. \/ watermark' <= 0
        \/ \E j \in 1..offset'["bronze"] :
              log'[j].positioned /\ watermark' = log'[j].api_ts - Delay
    BY <1>1, <2>1 DEF LossInv
  <2>5. QED
    BY <1>0, <2>2, <2>3, <2>4 DEF LossInv
<1>7. QED
  BY <1>5, <1>6

(* The archive of start_bronze leaves out a position only when one newer   *)
(* by the delay of the watermark came before it, for every delay, disorder *)
(* and crash.                                                              *)
THEOREM BronzeKeepsTheRest == BronzeQuerySpec => []BronzeLosesOnlyLate
<1>1. log = <<>> /\ BatchInit /\ BronzeInit => LossInv
  <2>1. BatchInit => 1..offset["bronze"] = {}
    BY DEF BatchInit, Queries
  <2>2. BronzeInit => watermark = 0 /\ seen = {}
    BY DEF BronzeInit
  <2>3. QED
    BY <2>1, <2>2, BronzeInitially DEF LossInv, BronzeLosesOnlyLate
<1>2. LossInv => BronzeLosesOnlyLate
  BY DEF LossInv
<1>3. QED
  BY <1>1, <1>2, LossStep, PTL DEF BronzeQuerySpec

-----------------------------------------------------------------------------
(* The types of all of it: of the producer, and of the two queries, with   *)
(* what their types rest on.                                               *)
LEMMA AnswersAreMessages ==
  ASSUME NEW vectors \in SUBSET Aircraft, NEW located,
         NEW made \in 1..MaxApiTs, NEW polled \in 1..MaxPollTs
  PROVE  Answer(vectors, located, made, polled) \subseteq Message
<1>1. ASSUME NEW a \in vectors
      PROVE  [icao24 |-> a, api_ts |-> made, poll_ts |-> polled, positioned |-> a \in located]
               \in Message
  <2> DEFINE p == a \in located
  <2>1. p \in BOOLEAN
    OBVIOUS
  <2> HIDE DEF p
  <2>2. [icao24 |-> a, api_ts |-> made, poll_ts |-> polled, positioned |-> p] \in Message
    BY <2>1 DEF Message
  <2>3. QED
    BY <2>2 DEF p
<1>2. QED
  BY <1>1 DEF Answer

LEMMA ProducedMessages ==
  ASSUME ProducerTypeOK, Produce
  PROVE  sending' \subseteq Message
<1>1. PICK vectors \in SUBSET Aircraft, located \in SUBSET Aircraft,
           made \in 1..MaxApiTs, polled \in 1..MaxPollTs :
        sending' = sending \cup Answer(vectors, located, made, polled)
  BY DEF Produce
<1>2. QED
  BY <1>1, AnswersAreMessages DEF ProducerTypeOK

LEMMA ProducerTypes ==
  ASSUME ProducerTypeOK, log \in Seq(Message), ProducerNext
  PROVE  ProducerTypeOK' /\ (log' = log \/ \E m \in Message : log' = Append(log, m))
<1> USE DEF ProducerTypeOK
<1>1. CASE Loop \/ GetHeld
  BY <1>1 DEF Loop, GetHeld
<1>2. CASE Refresh \/ RefreshFails
  BY <1>2 DEF Refresh, RefreshFails
<1>3. CASE Unauthorized
  BY <1>3 DEF Unauthorized, Invalidate
<1>4. CASE RequestFails
  BY <1>4 DEF RequestFails
<1>5. CASE Answered
  BY <1>5 DEF Answered, InitialS, MaxS
<1>6. CASE Publish \/ PublishRaises
  BY <1>6, ProducedMessages DEF Publish, PublishRaises
<1>7. CASE Flush \/ Sleep
  BY <1>7 DEF Flush, Sleep
<1>8. CASE BackOff
  BY <1>8 DEF BackOff, InitialS, MaxS
<1>9. CASE Stop
  BY <1>9 DEF Stop
<1>10. CASE Deliver \/ DeliverTwice \/ DeliveryFails
  <2>1. /\ UNCHANGED <<pc, running, attempt, token, backoff, revoked, unauthorized>>
        /\ sending' \subseteq sending
    BY <1>10 DEF Deliver, DeliverTwice, DeliveryFails
  <2>2. log' = log \/ \E m \in sending : log' = Append(log, m)
    BY <1>10 DEF Deliver, DeliverTwice, DeliveryFails
  <2>3. QED
    BY <2>1, <2>2
<1>11. CASE Revoke
  BY <1>11 DEF Revoke
<1>12. CASE ProducerCrash
  BY <1>12 DEF ProducerCrash, InitialS, MaxS
<1>13. QED
  BY <1>1, <1>2, <1>3, <1>4, <1>5, <1>6, <1>7, <1>8, <1>9, <1>10, <1>11, <1>12
     DEF ProducerNext, MainStep

(* The types hold of what rests while another part fills the topic.        *)
LEMMA TopicGrowsUnder ==
  ASSUME TypeOK, log' = log \/ \E m \in Message : log' = Append(log, m)
  PROVE  /\ UNCHANGED batchVars => BatchTypeOK'
         /\ UNCHANGED bronzeVars => BronzeTypeOK'
<1>1. log \in Seq(Message) /\ Len(log) \in Nat
  BY DEF TypeOK, BatchTypeOK
<1>2. /\ log' \in Seq(Message) /\ 0..Len(log) \subseteq 0..Len(log')
      /\ DOMAIN log \subseteq DOMAIN log'
  <2>1. CASE log' = log
    BY <1>1, <2>1
  <2>2. ASSUME NEW m \in Message, log' = Append(log, m)
        PROVE  /\ log' \in Seq(Message) /\ 0..Len(log) \subseteq 0..Len(log')
               /\ DOMAIN log \subseteq DOMAIN log'
    BY <1>1, <2>2
  <2>3. QED
    BY <2>1, <2>2
<1>3. ASSUME UNCHANGED batchVars PROVE BatchTypeOK'
  <2>1. offset \in [Queries -> 0..Len(log')] /\ planned \in [Queries -> 0..Len(log') \cup {Null}]
    BY <1>2 DEF TypeOK, BatchTypeOK
  <2>2. QED
    BY <1>2, <1>3, <2>1 DEF TypeOK, BatchTypeOK, batchVars
<1>4. ASSUME UNCHANGED bronzeVars PROVE BronzeTypeOK'
  <2>1. archive \in Seq(SUBSET DOMAIN log) /\ SUBSET DOMAIN log \subseteq SUBSET DOMAIN log'
    BY <1>2 DEF TypeOK, BronzeTypeOK
  <2>2. \A S, T : S \subseteq T => Seq(S) \subseteq Seq(T)
    OBVIOUS
  <2>3. archive \in Seq(SUBSET DOMAIN log')
    BY <2>1, <2>2
  <2>4. QED
    BY <1>4, <2>3 DEF TypeOK, BronzeTypeOK, bronzeVars
<1>5. QED
  BY <1>3, <1>4

IngestInv ==
    /\ TypeOK
    /\ part = "live" => LiveStateInv
    /\ part = "bronze" => BronzeInv

LEMMA IngestStep ==
  ASSUME IngestInv, [Next]_vars
  PROVE  IngestInv'
<1>1. CASE Producer
  <2>1. /\ part' = part /\ part = "producer" /\ ProducerNext
        /\ UNCHANGED batchVars /\ live_states' = live_states /\ UNCHANGED bronzeVars
    BY <1>1 DEF Producer
  <2>2. ProducerTypeOK /\ log \in Seq(Message)
    BY DEF IngestInv, TypeOK, BatchTypeOK
  <2>3. ProducerTypeOK' /\ (log' = log \/ \E m \in Message : log' = Append(log, m))
    BY <2>1, <2>2, ProducerTypes
  <2>4. BatchTypeOK' /\ BronzeTypeOK'
    BY <2>1, <2>3, TopicGrowsUnder DEF IngestInv
  <2>5. LiveTypeOK'
    BY <2>1 DEF IngestInv, TypeOK, LiveTypeOK
  <2>6. QED
    BY <2>1, <2>3, <2>4, <2>5 DEF IngestInv, TypeOK
<1>2. CASE Live
  <2>1. /\ part' = part /\ part = "live" /\ LiveFed
        /\ UNCHANGED producerVars /\ UNCHANGED bronzeVars
    BY <1>2 DEF Live
  <2>2. LiveStateInv'
    BY <2>1, LiveStep DEF IngestInv
  <2>3. log' = log \/ \E m \in Message : log' = Append(log, m)
    BY <2>1 DEF LiveFed, LiveNext, Published, UpsertBatch, Sinking, StartQuery, PlanBatch,
                Committing, Die
  <2>4. BronzeTypeOK'
    BY <2>1, <2>3, TopicGrowsUnder DEF IngestInv
  <2>5. ProducerTypeOK'
    BY <2>1 DEF IngestInv, TypeOK, ProducerTypeOK, producerVars
  <2>6. QED
    BY <2>1, <2>2, <2>4, <2>5 DEF IngestInv, TypeOK, LiveStateInv
<1>3. CASE Bronze
  <2>1. /\ part' = part /\ part = "bronze" /\ BronzeFed
        /\ UNCHANGED producerVars /\ live_states' = live_states
    BY <1>3 DEF Bronze
  <2>2. BronzeInv'
    BY <2>1, BronzeStep DEF IngestInv
  <2>3. ProducerTypeOK'
    BY <2>1 DEF IngestInv, TypeOK, ProducerTypeOK, producerVars
  <2>4. LiveTypeOK'
    BY <2>1 DEF IngestInv, TypeOK, LiveTypeOK
  <2>5. QED
    BY <2>1, <2>2, <2>3, <2>4 DEF IngestInv, TypeOK, BronzeInv
<1>4. CASE UNCHANGED vars
  <2>1. /\ part' = part /\ UNCHANGED <<log, faults, producerVars, batchVars, live_states,
                                       bronzeVars>>
    BY <1>4 DEF vars
  <2>2. ProducerTypeOK'
    BY <2>1 DEF IngestInv, TypeOK, ProducerTypeOK, producerVars
  <2>3. BatchTypeOK' /\ BronzeTypeOK'
    BY <2>1, TopicGrowsUnder DEF IngestInv
  <2>4. LiveTypeOK'
    BY <2>1 DEF IngestInv, TypeOK, LiveTypeOK
  <2>5. part = "live" => LiveStateInv'
    BY <2>1, LiveStep DEF IngestInv
  <2>6. part = "bronze" => BronzeInv'
    BY <2>1, BronzeStep DEF IngestInv
  <2>7. QED
    BY <2>1, <2>2, <2>3, <2>4, <2>5, <2>6 DEF IngestInv, TypeOK
<1>5. QED
  BY <1>1, <1>2, <1>3, <1>4 DEF Next

LEMMA IngestInitially == Init => IngestInv
<1> SUFFICES ASSUME Init PROVE IngestInv
  OBVIOUS
<1>1. log = <<>> /\ BatchInit /\ LiveInit /\ BronzeInit /\ ProducerInit
  BY DEF Init
<1>2. BronzeInv /\ LiveStateInv
  BY <1>1, BronzeInitially, LiveInitially
<1>3. ProducerTypeOK
  BY <1>1 DEF ProducerInit, ProducerTypeOK, InitialS, MaxS
<1>4. QED
  BY <1>2, <1>3 DEF IngestInv, TypeOK, BronzeInv, LiveStateInv

(* The values every variable on both sides of adsb.states.raw holds: a     *)
(* batch that is planned lies in the topic behind the committed one, files *)
(* hold messages of the topic, rows are messages of their aircraft, and    *)
(* the backoff of opensky_producer.py never leaves its bounds.             *)
THEOREM IngestTypes == Spec => []TypeOK
<1>1. IngestInv => TypeOK
  BY DEF IngestInv
<1>2. QED
  BY IngestInitially, IngestStep, <1>1, PTL DEF Spec

=============================================================================
