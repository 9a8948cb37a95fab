-------------------------- MODULE EventsQueryProofs --------------------------
(***************************************************************************)
(* The events query, for every topic, batch size and number of crashes,    *)
(* deleted checkpoints and replays.                                        *)
(*                                                                         *)
(* First, it implements EventsOnce: what a batch makes of its messages     *)
(* plays no part in that, only that it is a function of the checkpoint,    *)
(* the messages and the expired groups.  Then, from what one iteration of  *)
(* the engine's loop returns (EngineCallProofs), what a whole batch makes  *)
(* of the states, and what every row of the table owes to the topic.       *)
(***************************************************************************)
EXTENDS EventsQuery, EngineCallProofs, SequenceTheorems

(* The planned batch is somewhere between the log of the plan and the      *)
(* commit, and what has been computed or written is of that batch.         *)
Planned ==
    /\ planned \in [upTo : Nat, expired : SUBSET Aircraft]
    /\ planned.upTo \in offset..Len(log)
    /\ planned.upTo > offset \/ planned.expired # {}

IsPlannedResult == planned # Null /\ result = PlannedResult

RecoveryInv ==
    /\ log \in Seq(Message) /\ offset \in 0..Len(log)
    /\ phase \in {"down", "ready", "ran", "sunk"}
    /\ fresh \in BOOLEAN /\ delivered \in BOOLEAN
    /\ fresh => phase = "down"
    /\ planned # Null => Planned
    /\ phase \in {"ran", "sunk"} => IsPlannedResult
    /\ phase = "sunk" => delivered
    /\ delivered => IsPlannedResult /\ Upsert(flight_events, result.rows) = flight_events

-----------------------------------------------------------------------------
(* Rows are records, so that writing one over itself changes nothing.      *)
IsRow(r) == r = [airport |-> r.airport, event_ts |-> r.event_ts,
                 duration_s |-> r.duration_s, details |-> r.details]

LEMMA RowsAreRows ==
  ASSUME NEW st, NEW batch, NEW expired
  PROVE  \A id \in DOMAIN RowsOf(st, batch, expired) :
            IsRow(RowsOf(st, batch, expired)[id])
<1> DEFINE foundBy(a) == Detected(a, st, batch, expired).events
           ids(a)     == {<<a, EventId(e)>> : e \in foundBy(a)}
           S == UNION {ids(a) : a \in Aircraft}
           r(id) == Row(CHOOSE e \in foundBy(id[1]) : EventId(e) = id[2])
<1>1. RowsOf(st, batch, expired) = [id \in S |-> r(id)]
  BY DEF RowsOf
<1>2. \A id : IsRow(r(id))
  BY DEF IsRow, Row
<1> HIDE DEF S, r
<1>3. QED
  BY <1>1, <1>2

(* The upsert is idempotent: a sink that is run again writes nothing new.  *)
LEMMA UpsertTwice ==
  ASSUME NEW table, NEW rows, \A id \in DOMAIN rows : IsRow(rows[id])
  PROVE  Upsert(Upsert(table, rows), rows) = Upsert(table, rows)
<1> DEFINE once  == Upsert(table, rows)
           twice == Upsert(once, rows)
<1>1. DOMAIN once = DOMAIN table \cup DOMAIN rows
  BY DEF Upsert
<1>2. twice = [id \in DOMAIN once |-> twice[id]] /\ once = [id \in DOMAIN once |-> once[id]]
  BY <1>1 DEF Upsert
<1>3. ASSUME NEW id \in DOMAIN once PROVE twice[id] = once[id]
  <2>1. CASE id \notin DOMAIN rows
    BY <1>1, <1>3, <2>1 DEF Upsert
  <2>2. CASE id \in DOMAIN rows
    <3> DEFINE w == rows[id]
    <3>1. twice[id] = [once[id] EXCEPT !.duration_s = w.duration_s, !.details = w.details]
      BY <1>1, <1>3, <2>2 DEF Upsert
    <3>2. CASE id \notin DOMAIN table
      <4>1. once[id] = w
        BY <1>1, <2>2, <3>2 DEF Upsert
      <4>2. IsRow(w)
        BY <2>2
      <4>3. QED
        BY <3>1, <4>1, <4>2 DEF IsRow
    <3>3. CASE id \in DOMAIN table
      <4> DEFINE t == table[id]
      <4>1. once[id] = [t EXCEPT !.duration_s = w.duration_s, !.details = w.details]
        BY <1>1, <2>2, <3>3 DEF Upsert
      <4>2. QED
        BY <3>1, <4>1
    <3>4. QED
      BY <3>2, <3>3
  <2>3. QED
    BY <2>1, <2>2
<1> HIDE DEF once, twice
<1>4. QED
  BY <1>2, <1>3 DEF once, twice

(* A longer topic has the same planned batch.                              *)
LEMMA BatchIsFixed ==
  ASSUME NEW l \in Seq(Message), NEW m \in Message,
         NEW from \in Nat, NEW to \in 0..Len(l)
  PROVE  SubSeq(Append(l, m), from + 1, to) = SubSeq(l, from + 1, to)
<1>1. \A i \in (from + 1)..to : i \in 1..Len(l) /\ Append(l, m)[i] = l[i]
  OBVIOUS
<1>2. QED
  BY <1>1

(* A query starts somewhere in its topic.                                  *)
LEMMA StartsInTopic ==
  ASSUME NEW from, Len(log) \in Nat, DOMAIN log = 1..Len(log)
  PROVE  StartingOffset(from) \in 0..Len(log)
<1> DEFINE before == {i \in DOMAIN log : \A j \in 1..i : log[j].ts < from}
<1>1. \A n \in Nat : IsFiniteSet(1..n) /\ Cardinality(1..n) = n
  <2>1. TAKE n \in Nat
  <2>2. /\ IsFiniteSet(1..n)
        /\ Cardinality(1..n) = IF 1 > n THEN 0 ELSE n - 1 + 1
    BY FS_Interval
  <2>3. QED
    BY <2>2
<1>2. before \subseteq 1..Len(log)
  OBVIOUS
<1>3. IsFiniteSet(before) /\ Cardinality(before) <= Len(log)
  BY <1>1, <1>2, FS_Subset
<1>4. Cardinality(before) \in Nat
  BY <1>3, FS_CardinalityType
<1>5. Cardinality(before) \in 0..Len(log)
  BY <1>3, <1>4
<1> HIDE DEF before
<1>6. CASE from = Null
  BY <1>6 DEF StartingOffset
<1>7. CASE from # Null
  BY <1>5, <1>7 DEF StartingOffset, before
<1>8. QED
  BY <1>6, <1>7

-----------------------------------------------------------------------------
LEMMA InitRecovers == Init => RecoveryInv
<1> SUFFICES ASSUME Init PROVE RecoveryInv
  OBVIOUS
<1>1. log \in Seq(Message) /\ Len(log) = 0
  BY DEF Init
<1>2. offset \in 0..Len(log)
  BY <1>1 DEF Init
<1>3. /\ phase \in {"down", "ready", "ran", "sunk"} /\ phase \notin {"ran", "sunk"}
      /\ phase # "sunk"
  BY DEF Init
<1>4. fresh = TRUE /\ delivered = FALSE
  BY DEF Init
<1>5. planned = Null /\ phase = "down"
  BY DEF Init
<1>6. QED
  BY <1>1, <1>2, <1>3, <1>4, <1>5 DEF RecoveryInv

LEMMA PublishRecovers == RecoveryInv /\ Publish => RecoveryInv'
<1> SUFFICES ASSUME RecoveryInv, Publish PROVE RecoveryInv'
  OBVIOUS
<1>1. PICK m \in Message : log' = Append(log, m)
  BY DEF Publish, Message
<1>2. log' \in Seq(Message) /\ Len(log') = Len(log) + 1
  BY <1>1 DEF RecoveryInv
<1>3. UNCHANGED <<phase, fresh, offset, states, planned, replayFrom, flight_events,
                  result, delivered, crashes, resets>>
  BY DEF Publish
<1>4. planned # Null => Planned'
  BY <1>2, <1>3 DEF RecoveryInv, Planned
<1>5. planned # Null => PlannedBatch' = PlannedBatch
  BY <1>1, <1>3, BatchIsFixed DEF RecoveryInv, Planned, PlannedBatch
<1>6. IsPlannedResult => IsPlannedResult'
  BY <1>3, <1>5 DEF IsPlannedResult, PlannedResult
<1>7. QED
  BY <1>2, <1>3, <1>4, <1>6 DEF RecoveryInv

LEMMA StartRecovers == RecoveryInv /\ Start => RecoveryInv'
<1> SUFFICES ASSUME RecoveryInv, Start PROVE RecoveryInv'
  OBVIOUS
<1>1. CASE fresh
  <2>1. /\ offset' = StartingOffset(replayFrom) /\ planned' = Null /\ delivered' = FALSE
        /\ phase' = "ready" /\ fresh' = FALSE /\ log' = log
    BY <1>1 DEF Start
  <2>2. offset' \in 0..Len(log)
    BY <2>1, StartsInTopic DEF RecoveryInv
  <2>3. QED
    BY <2>1, <2>2 DEF RecoveryInv
<1>2. CASE ~fresh
  BY <1>2 DEF Start, RecoveryInv, Planned, IsPlannedResult, PlannedResult, PlannedBatch
<1>3. QED
  BY <1>1, <1>2

LEMMA PlanRecovers == RecoveryInv /\ Plan => RecoveryInv'
<1> SUFFICES ASSUME RecoveryInv, Plan PROVE RecoveryInv'
  OBVIOUS
<1>1. delivered = FALSE /\ fresh = FALSE
  BY DEF Plan, RecoveryInv, IsPlannedResult
<1>2. PICK expired \in SUBSET Aircraft, upTo \in Nat :
        /\ upTo \in offset..Len(log)
        /\ upTo > offset \/ expired # {}
        /\ planned' = [upTo |-> upTo, expired |-> expired]
  <2> DEFINE bound == offset + MaxOffsetsPerTrigger
             upTo  == IF bound < Len(log) THEN bound ELSE Len(log)
  <2>1. upTo \in Nat /\ upTo \in offset..Len(log)
    BY EventsAssumption DEF RecoveryInv
  <2>2. PICK expired \in SUBSET {a \in Aircraft : states[a].samples # {}} :
          /\ upTo > offset \/ expired # {}
          /\ planned' = [upTo |-> upTo, expired |-> expired]
    BY DEF Plan
  <2> HIDE DEF upTo
  <2>3. QED
    BY <2>1, <2>2
<1>3. Planned'
  BY <1>2 DEF Planned, Plan
<1>4. QED
  BY <1>1, <1>3 DEF Plan, RecoveryInv

LEMMA RunBatchRecovers == RecoveryInv /\ RunBatch => RecoveryInv'
<1> SUFFICES ASSUME RecoveryInv, RunBatch PROVE RecoveryInv'
  OBVIOUS
<1>1. /\ UNCHANGED <<log, offset, states, planned>>
      /\ PlannedResult' = PlannedResult /\ (Planned <=> Planned')
  BY DEF RunBatch, PlannedResult, PlannedBatch, Planned
<1>2. CASE BatchRaises(states, PlannedBatch, planned.expired)
  BY <1>1, <1>2 DEF RunBatch, RecoveryInv, IsPlannedResult
<1>3. CASE ~BatchRaises(states, PlannedBatch, planned.expired)
  <2>1. IsPlannedResult' /\ phase' = "ran"
    BY <1>1, <1>3 DEF RunBatch, IsPlannedResult
  <2>2. delivered => result' = result
    BY <1>1, <2>1 DEF RecoveryInv, IsPlannedResult
  <2>3. QED
    BY <1>1, <2>1, <2>2 DEF RunBatch, RecoveryInv
<1>4. QED
  BY <1>2, <1>3

LEMMA SinkRecovers == RecoveryInv /\ Sink => RecoveryInv'
<1> SUFFICES ASSUME RecoveryInv, Sink PROVE RecoveryInv'
  OBVIOUS
<1>1. /\ UNCHANGED <<log, fresh, offset, states, planned, replayFrom, result, resets>>
      /\ PlannedResult' = PlannedResult /\ (Planned <=> Planned')
      /\ (IsPlannedResult <=> IsPlannedResult')
  BY DEF Sink, PlannedResult, PlannedBatch, Planned, IsPlannedResult
<1>2. Upsert(flight_events', result.rows) = flight_events'
  <2>1. result.rows = RowsOf(states, PlannedBatch, planned.expired)
    BY DEF Sink, RecoveryInv, IsPlannedResult, PlannedResult
  <2>2. QED
    BY <2>1, RowsAreRows, UpsertTwice DEF Sink
<1>3. QED
  BY <1>1, <1>2 DEF Sink, RecoveryInv

LEMMA CommitRecovers == RecoveryInv /\ Commit => RecoveryInv'
<1> SUFFICES ASSUME RecoveryInv, Commit PROVE RecoveryInv'
  OBVIOUS
<1>1. offset' \in 0..Len(log) /\ log' = log
  BY DEF Commit, RecoveryInv, IsPlannedResult, Planned
<1>2. QED
  BY <1>1 DEF Commit, RecoveryInv

LEMMA StepRecovers ==
  ASSUME RecoveryInv, [Next]_vars
  PROVE  RecoveryInv'
<1>1. CASE Publish
  BY <1>1, PublishRecovers
<1>2. CASE Start
  BY <1>2, StartRecovers
<1>3. CASE Plan
  BY <1>3, PlanRecovers
<1>4. CASE RunBatch
  BY <1>4, RunBatchRecovers
<1>5. CASE Sink
  BY <1>5, SinkRecovers
<1>6. CASE Commit
  BY <1>6, CommitRecovers
<1>7. CASE Crash
  BY <1>7 DEF Crash, RecoveryInv, Planned, IsPlannedResult, PlannedResult, PlannedBatch
<1>8. CASE DeleteCheckpoint
  BY <1>8 DEF DeleteCheckpoint, RecoveryInv, Planned, IsPlannedResult, PlannedResult, PlannedBatch
<1>9. CASE SetReplayFrom
  BY <1>9 DEF SetReplayFrom, RecoveryInv, Planned, IsPlannedResult, PlannedResult, PlannedBatch
<1>10. CASE UNCHANGED vars
  BY <1>10 DEF vars, RecoveryInv, Planned, IsPlannedResult, PlannedResult, PlannedBatch
<1>11. QED
  BY <1>1, <1>2, <1>3, <1>4, <1>5, <1>6, <1>7, <1>8, <1>9, <1>10 DEF Next, Advance

-----------------------------------------------------------------------------
(* Every step is one of EventsOnce or leaves its variables alone: the      *)
(* producer, the first sink of a batch, and a new checkpoint are seen.     *)
LEMMA InitImplements == Init => Once!Init
BY DEF Init, Once!Init

LEMMA StepImplements ==
  ASSUME RecoveryInv, [Next]_vars
  PROVE  [Once!Next]_(Once!vars)
<1> DEFINE consumed == IF delivered THEN planned.upTo ELSE offset
           detected == IF delivered THEN result.states ELSE states
<1>1. CASE Publish
  <2>1. PICK m \in Message : log' = Append(log, m)
    BY <1>1 DEF Publish, Message
  <2>2. /\ Len(log') = Len(log) + 1 /\ log = SubSeq(log', 1, Len(log))
        /\ log'[Len(log')] \in Message
    BY <2>1 DEF RecoveryInv
  <2>3. UNCHANGED <<consumed, detected, flight_events, fresh>>
    BY <1>1 DEF Publish
  <2>4. QED
    BY <2>2, <2>3 DEF Once!Next, Once!Publish
<1>2. CASE Start
  <2>1. CASE fresh
    <3>1. /\ consumed' = StartingOffset(replayFrom) /\ detected' = NoStates
          /\ fresh' = FALSE /\ UNCHANGED <<log, flight_events>>
      BY <1>2, <2>1 DEF Start
    <3>2. consumed' \in 0..Len(log)
      BY <3>1, StartsInTopic DEF RecoveryInv
    <3>3. Once!Begin
      BY <2>1, <3>1, <3>2 DEF Once!Begin
    <3>4. QED
      BY <3>3 DEF Once!Next
  <2>2. CASE ~fresh
    <3>1. UNCHANGED <<log, consumed, detected, flight_events, fresh>>
      BY <1>2, <2>2 DEF Start, RecoveryInv
    <3>2. QED
      BY <3>1 DEF Once!vars
  <2>3. QED
    BY <2>1, <2>2 DEF RecoveryInv
<1>3. CASE Plan
  <2>1. UNCHANGED <<log, consumed, detected, flight_events, fresh>>
    BY <1>3 DEF Plan, RecoveryInv, IsPlannedResult
  <2>2. QED
    BY <2>1 DEF Once!vars
<1>4. CASE RunBatch
  <2>1. delivered => result' = result
    BY <1>4 DEF RunBatch, RecoveryInv, IsPlannedResult
  <2>2. UNCHANGED <<log, consumed, detected, flight_events, fresh>>
    BY <1>4, <2>1 DEF RunBatch
  <2>3. QED
    BY <2>2 DEF Once!vars
<1>5. CASE Sink
  <2>1. IsPlannedResult /\ Planned /\ ~fresh
    BY <1>5 DEF Sink, RecoveryInv, IsPlannedResult
  <2>2. CASE delivered
    <3>1. UNCHANGED <<log, consumed, detected, flight_events, fresh>>
      BY <1>5, <2>2 DEF Sink, RecoveryInv
    <3>2. QED
      BY <3>1 DEF Once!vars
  <2>3. CASE ~delivered
    <3> DEFINE n == planned.upTo
               expired == planned.expired
               batch == SubSeq(log, consumed + 1, n)
    <3>1. /\ n \in consumed..Len(log) /\ expired \in SUBSET Aircraft
          /\ n > consumed \/ expired # {}
      BY <2>1, <2>3 DEF Planned
    <3>2. /\ consumed' = n
          /\ detected' = StatesAfter(detected, batch, expired)
          /\ flight_events' = Upsert(flight_events, RowsOf(detected, batch, expired))
          /\ UNCHANGED <<log, fresh>>
      BY <1>5, <2>1, <2>3 DEF Sink, IsPlannedResult, PlannedResult, PlannedBatch
    <3>3. Once!Consume
      BY <2>1, <3>1, <3>2 DEF Once!Consume
    <3>4. QED
      BY <3>3 DEF Once!Next
  <2>4. QED
    BY <2>2, <2>3
<1>6. CASE Commit
  <2>1. UNCHANGED <<log, consumed, detected, flight_events, fresh>>
    BY <1>6 DEF Commit, RecoveryInv
  <2>2. QED
    BY <2>1 DEF Once!vars
<1>7. CASE Crash
  BY <1>7 DEF Crash, Once!vars
<1>8. CASE DeleteCheckpoint
  <2>1. Once!LoseCheckpoint
    BY <1>8 DEF DeleteCheckpoint, Once!LoseCheckpoint
  <2>2. QED
    BY <2>1 DEF Once!Next
<1>9. CASE SetReplayFrom
  BY <1>9 DEF SetReplayFrom, Once!vars
<1>10. CASE UNCHANGED vars
  BY <1>10 DEF vars, Once!vars
<1>11. QED
  BY <1>1, <1>2, <1>3, <1>4, <1>5, <1>6, <1>7, <1>8, <1>9, <1>10 DEF Next, Advance

(* However often the application dies, and between whichever steps, the    *)
(* events query detects every message exactly once from where its          *)
(* checkpoint began, and leaves the rows an uninterrupted run would have   *)
(* left; a deleted checkpoint changes no row.                              *)
THEOREM CrashesAreInvisible == Spec => DetectedExactlyOnce
<1>1. RecoveryInv /\ [Next]_vars => RecoveryInv'
  BY StepRecovers
<1>2. RecoveryInv /\ [Next]_vars => [Once!Next]_(Once!vars)
  BY StepImplements
<1>3. QED
  BY InitRecovers, InitImplements, <1>1, <1>2, PTL DEF Spec, DetectedExactlyOnce, Once!Spec

-----------------------------------------------------------------------------
(* A call's outcomes so far: the one of no samples, and one more sample.   *)
NoTurn(state) ==
    {[samples |-> state.samples, flags |-> state.flags, events |-> {}, raised |-> FALSE]}
OneTurn(outcomes, s) == UNION {Applied(done, s) : done \in outcomes}

IsTurns(f, state, samples, n) ==
    /\ DOMAIN f = 0..n
    /\ f[0] = NoTurn(state)
    /\ \A i \in 1..n : f[i] = OneTurn(f[i - 1], samples[i])

LEMMA TurnsGoOn ==
  ASSUME NEW state, NEW samples, NEW n \in Nat, NEW f, IsTurns(f, state, samples, n)
  PROVE  \E g : IsTurns(g, state, samples, n + 1)
<1> DEFINE g == [i \in 0..(n + 1) |-> IF i <= n THEN f[i] ELSE OneTurn(f[n], samples[n + 1])]
<1>1. DOMAIN g = 0..(n + 1) /\ \A i \in 0..n : g[i] = f[i]
  OBVIOUS
<1>2. g[n + 1] = OneTurn(f[n], samples[n + 1])
  OBVIOUS
<1> HIDE DEF g
<1>3. ASSUME NEW i \in 1..(n + 1) PROVE g[i] = OneTurn(g[i - 1], samples[i])
  <2>1. CASE i = n + 1
    <3>1. i - 1 = n /\ n \in 0..n
      BY <2>1
    <3>2. QED
      BY <1>1, <1>2, <2>1, <3>1
  <2>2. CASE i # n + 1
    <3>1. i \in 1..n /\ i \in 0..n /\ i - 1 \in 0..n
      BY <2>2
    <3>2. QED
      BY <1>1, <3>1 DEF IsTurns
  <2>3. QED
    BY <2>1, <2>2
<1>4. g[0] = NoTurn(state)
  BY <1>1 DEF IsTurns
<1>5. QED
  BY <1>1, <1>3, <1>4 DEF IsTurns

LEMMA TurnsExist ==
  ASSUME NEW state, NEW samples, NEW n \in Nat
  PROVE  \E f : IsTurns(f, state, samples, n)
<1> DEFINE Missing == {k \in Nat : ~\E f : IsTurns(f, state, samples, k)}
<1>1. SUFFICES ASSUME Missing # {} PROVE FALSE
  OBVIOUS
<1>2. Missing \subseteq Nat
  OBVIOUS
<1> HIDE DEF Missing
<1>3. PICK k \in Missing : \A m \in Missing : k <= m
  BY <1>1, <1>2, NatMin
<1>4. k \in Nat /\ ~\E f : IsTurns(f, state, samples, k)
  BY DEF Missing
<1>5. CASE k = 0
  <2> DEFINE f == [i \in 0..0 |-> NoTurn(state)]
  <2>1. IsTurns(f, state, samples, 0)
    BY DEF IsTurns
  <2>2. QED
    BY <1>4, <1>5, <2>1
<1>6. CASE k # 0
  <2>1. k - 1 \in Nat /\ k - 1 \notin Missing /\ (k - 1) + 1 = k
    BY <1>2, <1>3, <1>4, <1>6
  <2>2. PICK f : IsTurns(f, state, samples, k - 1)
    BY <2>1 DEF Missing
  <2>3. \E g : IsTurns(g, state, samples, (k - 1) + 1)
    BY <2>1, <2>2, TurnsGoOn
  <2>4. QED
    BY <1>4, <2>1, <2>3
<1>7. QED
  BY <1>5, <1>6

(* What Turns is: the last of them.                                        *)
LEMMA TurnsAre ==
  ASSUME NEW state, NEW samples, Len(samples) \in Nat
  PROVE  \E f : IsTurns(f, state, samples, Len(samples)) /\ Turns(state, samples) = f[Len(samples)]
<1> DEFINE L == Len(samples)
           Eq(f) == f = [n \in 0..L |->
                     IF n = 0 THEN NoTurn(state)
                     ELSE UNION {Applied(done, samples[n]) : done \in f[n - 1]}]
           after == CHOOSE f : Eq(f)
<1>1. Turns(state, samples) = after[L]
  BY DEF Turns, NoTurn
<1>2. \E f : Eq(f)
  <2>1. PICK f : IsTurns(f, state, samples, L)
    BY TurnsExist
  <2> DEFINE g == [n \in 0..L |-> f[n]]
  <2>2. \A n \in 0..L : g[n] = f[n]
    OBVIOUS
  <2>3. g = [n \in 0..L |-> g[n]]
    OBVIOUS
  <2> HIDE DEF g
  <2>4. ASSUME NEW n \in 0..L
        PROVE  g[n] = IF n = 0 THEN NoTurn(state)
                      ELSE UNION {Applied(done, samples[n]) : done \in g[n - 1]}
    <3>1. CASE n = 0
      BY <2>1, <2>2, <3>1 DEF IsTurns
    <3>2. CASE n # 0
      <4>1. n \in 1..L /\ n - 1 \in 0..L
        BY <3>2
      <4>2. g[n] = OneTurn(g[n - 1], samples[n])
        BY <2>1, <2>2, <4>1 DEF IsTurns
      <4>3. QED
        BY <3>2, <4>2 DEF OneTurn
    <3>3. QED
      BY <3>1, <3>2
  <2>5. Eq(g)
    BY <2>3, <2>4
  <2>6. QED
    BY <2>5
<1>3. Eq(after)
  BY <1>2
<1> HIDE DEF after
<1>4. DOMAIN after = 0..L
  BY <1>3
<1>5. \A n \in 0..L : after[n] = IF n = 0 THEN NoTurn(state)
                     ELSE UNION {Applied(done, samples[n]) : done \in after[n - 1]}
  BY <1>3
<1>6. IsTurns(after, state, samples, L)
  BY <1>4, <1>5 DEF IsTurns, OneTurn
<1>7. QED
  BY <1>1, <1>6

-----------------------------------------------------------------------------
(* The messages of a call, in ts order: each is one at the offsets given.  *)
Earlier(batch, offsets, i) ==
    {j \in offsets : \/ batch[j].ts < batch[i].ts
                     \/ batch[j].ts = batch[i].ts /\ j < i}

LEMMA EarlierIsLess ==
  ASSUME NEW batch, NEW offsets, IsFiniteSet(offsets), offsets \subseteq Nat,
         \A i \in offsets : batch[i].ts \in Nat,
         NEW i \in offsets, NEW j \in offsets, i \in Earlier(batch, offsets, j)
  PROVE  Cardinality(Earlier(batch, offsets, i)) # Cardinality(Earlier(batch, offsets, j))
<1> DEFINE Ei == Earlier(batch, offsets, i)
           Ej == Earlier(batch, offsets, j)
           t(k) == batch[k].ts
<1>1. \A k \in offsets : t(k) \in Nat /\ k \in Nat
  OBVIOUS
<1>2. t(i) < t(j) \/ (t(i) = t(j) /\ i < j)
  BY DEF Earlier
<1>3. \A k \in Ei : k \in offsets /\ (t(k) < t(i) \/ (t(k) = t(i) /\ k < i))
  BY DEF Earlier
<1>4. \A k \in offsets : t(k) < t(j) \/ (t(k) = t(j) /\ k < j) => k \in Ej
  BY DEF Earlier
<1>5. Ej \subseteq offsets
  BY DEF Earlier
<1> HIDE DEF t, Ei, Ej
<1>6. ASSUME NEW k \in Ei PROVE k \in Ej
  <2>1. /\ k \in offsets /\ k \in Nat /\ i \in Nat /\ j \in Nat
        /\ t(k) \in Nat /\ t(i) \in Nat /\ t(j) \in Nat
    BY <1>1, <1>3
  <2>2. t(k) < t(i) \/ (t(k) = t(i) /\ k < i)
    BY <1>3
  <2>3. t(k) < t(j) \/ (t(k) = t(j) /\ k < j)
    BY <1>2, <2>1, <2>2
  <2>4. QED
    BY <1>4, <2>1, <2>3
<1>7. i \in Ej /\ i \notin Ei
  BY <1>1, <1>2, <1>3, <1>4
<1>8. IsFiniteSet(Ej)
  BY <1>5, FS_Subset
<1>9. Cardinality(Ej) # Cardinality(Ei)
  BY <1>6, <1>7, <1>8, FS_Subset
<1>10. QED
  BY <1>9 DEF Ei, Ej

LEMMA EveryRankIsTaken ==
  ASSUME NEW batch, NEW offsets, IsFiniteSet(offsets), offsets \subseteq Nat,
         \A i \in offsets : batch[i].ts \in Nat,
         NEW n \in 1..Cardinality(offsets)
  PROVE  \E i \in offsets : Cardinality(Earlier(batch, offsets, i)) = n - 1
<1> DEFINE K == Cardinality(offsets)
           rank == [i \in offsets |-> Cardinality(Earlier(batch, offsets, i))]
<1>1. K \in Nat
  BY FS_CardinalityType
<1>2. ASSUME NEW i \in offsets PROVE rank[i] \in 0..(K - 1)
  <2> DEFINE E == Earlier(batch, offsets, i)
             others == offsets \ {i}
  <2>1. IsFiniteSet(others) /\ Cardinality(others) = K - 1
    BY FS_RemoveElement
  <2>2. E \subseteq others
    BY DEF Earlier
  <2> HIDE DEF E, others
  <2>3. IsFiniteSet(E) /\ Cardinality(E) <= K - 1
    BY <2>1, <2>2, FS_Subset
  <2>4. Cardinality(E) \in Nat
    BY <2>3, FS_CardinalityType
  <2>5. QED
    BY <1>1, <2>3, <2>4 DEF E
<1>3. ASSUME NEW i \in offsets, NEW j \in offsets, i # j PROVE rank[i] # rank[j]
  <2>1. i \in Nat /\ j \in Nat /\ batch[i].ts \in Nat /\ batch[j].ts \in Nat
    OBVIOUS
  <2>2. i \in Earlier(batch, offsets, j) \/ j \in Earlier(batch, offsets, i)
    BY <1>3, <2>1 DEF Earlier
  <2>3. QED
    BY <2>2, EarlierIsLess
<1>4. rank \in Injection(offsets, 0..(K - 1))
  BY <1>2, <1>3 DEF Injection, IsInjective
<1>5. IsFiniteSet(0..(K - 1)) /\ Cardinality(0..(K - 1)) = K
  <2>1. 0 \in Int /\ K - 1 \in Int
    BY <1>1
  <2>2. /\ IsFiniteSet(0..(K - 1))
        /\ Cardinality(0..(K - 1)) = IF 0 > K - 1 THEN 0 ELSE (K - 1) - 0 + 1
    BY <2>1, FS_Interval
  <2>3. QED
    BY <1>1, <2>2
<1> HIDE DEF K, rank
<1>6. rank \in Surjection(offsets, 0..(K - 1))
  BY <1>4, <1>5, FS_Injection DEF K
<1>7. n - 1 \in 0..(K - 1)
  BY <1>1 DEF K
<1>8. PICK i \in offsets : rank[i] = n - 1
  BY <1>6, <1>7 DEF Surjection
<1>9. QED
  BY <1>8 DEF rank

Picks(incoming, batch, offsets) ==
    /\ Cardinality(offsets) \in Nat
    /\ DOMAIN incoming = 1..Cardinality(offsets)
    /\ \A n \in 1..Cardinality(offsets) : \E i \in offsets : incoming[n] = batch[i]

HasTs(batch, offsets) == \A i \in offsets : batch[i].ts \in Nat

LEMMA InTsOrderPicks ==
  ASSUME NEW batch, NEW offsets, IsFiniteSet(offsets), offsets \subseteq Nat,
         HasTs(batch, offsets)
  PROVE  Picks(InTsOrder(batch, offsets), batch, offsets)
<1> DEFINE pick(n) == CHOOSE i \in offsets : Cardinality(Earlier(batch, offsets, i)) = n - 1
<1>1. InTsOrder(batch, offsets) = [n \in 1..Cardinality(offsets) |-> batch[pick(n)]]
  BY DEF InTsOrder, Earlier
<1>2. \A n \in 1..Cardinality(offsets) : pick(n) \in offsets
  BY EveryRankIsTaken DEF HasTs
<1> HIDE DEF pick
<1>3. Cardinality(offsets) \in Nat
  BY FS_CardinalityType
<1>4. QED
  BY <1>1, <1>2, <1>3 DEF Picks

-----------------------------------------------------------------------------
(* A call that goes on: its ring and flags are ones the engine keeps, of   *)
(* samples of T, and it found what FoundIn says.                           *)
GoesOn(done, b, T, past) ==
    /\ done = [samples |-> done.samples, flags |-> done.flags,
               raised |-> done.raised, events |-> done.events]
    /\ Ring(done.samples, b) /\ done.flags \in Flags /\ done.samples \subseteq T
    /\ FoundIn(T, past, done.events)

LEMMA FoundInBoth ==
  ASSUME NEW T, NEW past, NEW E, NEW F, FoundIn(T, past, E), FoundIn(T, past, F), NEW G, G \subseteq F
  PROVE  FoundIn(T, past, E \cup G)
BY DEF FoundIn

LEMMA RaisedRecord ==
  ASSUME NEW done, NEW x, NEW y, NEW z, NEW w, NEW v,
         done = [samples |-> x, flags |-> y, raised |-> z, events |-> w]
  PROVE  [done EXCEPT !.raised = v] =
            [samples |-> x, flags |-> y, raised |-> v, events |-> w]
OBVIOUS

LEMMA AppliedGoesOn ==
  ASSUME NEW b \in Nat, NEW T, NEW past, past \subseteq Nat,
         NEW done, GoesOn(done, b, T, past),
         NEW s \in Sample, s.ts <= b, s \in T, \A t \in past : t <= s.ts
  PROVE  Applied(done, s) # {} /\ \A d \in Applied(done, s) : GoesOn(d, b, T, past)
<1> DEFINE R == done.samples
           fl == done.flags
           turn == Iterate(R, fl, s)
           new == {e \in turn.lost \cup turn.found :
                     EventId(e) \notin {EventId(d) : d \in done.events}}
<1>1. Ring(R, b) /\ fl \in Flags /\ R \subseteq T
  BY DEF GoesOn
<1>2. turn.samples = RingAfter(R, s) /\ turn.flags \in Flags
  BY <1>1, IterateTypes
<1>3. Ring(RingAfter(R, s), b) /\ RingAfter(R, s) \subseteq R \cup {s}
  BY <1>1, IterateState
<1>4. FoundIn(T, past, turn.lost \cup turn.found)
  BY <1>1, IterateFinds
<1>5. new \subseteq turn.lost \cup turn.found
  OBVIOUS
<1>6. Applied(done, s) =
        IF done.raised \/ Raises(R, fl, s) THEN {[done EXCEPT !.raised = TRUE]}
        ELSE {[samples |-> turn.samples, flags |-> turn.flags, raised |-> FALSE,
               events |-> done.events \cup new]}
  BY DEF Applied
<1> HIDE DEF turn, new, R, fl
<1>7. FoundIn(T, past, done.events \cup new)
  BY <1>4, <1>5, FoundInBoth DEF GoesOn
<1>8. CASE done.raised \/ Raises(R, fl, s)
  <2> DEFINE yes == TRUE
             d == [done EXCEPT !.raised = yes]
  <2>1. Applied(done, s) = {d}
    BY <1>6, <1>8
  <2> HIDE DEF yes
  <2>2. d = [samples |-> done.samples, flags |-> done.flags, raised |-> yes,
             events |-> done.events]
    BY RaisedRecord DEF GoesOn
  <2> HIDE DEF d
  <2>3. GoesOn(d, b, T, past)
    BY <2>2 DEF GoesOn
  <2>4. QED
    BY <2>1, <2>3
<1>9. CASE ~(done.raised \/ Raises(R, fl, s))
  <2> DEFINE d == [samples |-> turn.samples, flags |-> turn.flags, raised |-> FALSE,
                   events |-> done.events \cup new]
  <2>1. Applied(done, s) = {d}
    BY <1>6, <1>9
  <2>2. turn.samples \subseteq T
    BY <1>1, <1>2, <1>3
  <2>3. GoesOn(d, b, T, past)
    BY <1>2, <1>3, <1>7, <2>2 DEF GoesOn
  <2>4. QED
    BY <2>1, <2>3
<1>10. QED
  BY <1>8, <1>9

LEMMA TurnsGoOnWell ==
  ASSUME NEW b \in Nat, NEW T, NEW past, past \subseteq Nat,
         NEW state, Ring(state.samples, b), state.flags \in Flags, state.samples \subseteq T,
         NEW samples, Len(samples) \in Nat,
         \A n \in 1..Len(samples) : /\ samples[n] \in Sample /\ samples[n].ts <= b
                                    /\ samples[n] \in T /\ \A t \in past : t <= samples[n].ts
  PROVE  Turns(state, samples) # {} /\ \A d \in Turns(state, samples) : GoesOn(d, b, T, past)
<1> DEFINE L == Len(samples)
<1>1. PICK f : IsTurns(f, state, samples, L) /\ Turns(state, samples) = f[L]
  BY TurnsAre
<1> DEFINE Good(n) == f[n] # {} /\ \A d \in f[n] : GoesOn(d, b, T, past)
           Bad == {n \in 0..L : ~Good(n)}
<1>2. SUFFICES ASSUME Bad # {} PROVE FALSE
  BY <1>1
<1>3. Bad \subseteq Nat
  OBVIOUS
<1>4. \A n \in 0..L : n \notin Bad => Good(n)
  OBVIOUS
<1>5. \A n \in Bad : n \in 0..L /\ ~Good(n)
  OBVIOUS
<1> HIDE DEF Bad
<1>6. PICK k \in Bad : \A m \in Bad : k <= m
  BY <1>2, <1>3, NatMin
<1>7. CASE k = 0
  <2> DEFINE d == [samples |-> state.samples, flags |-> state.flags, events |-> {},
                   raised |-> FALSE]
  <2>1. f[k] = {d}
    BY <1>1, <1>7 DEF IsTurns, NoTurn
  <2>2. GoesOn(d, b, T, past)
    BY DEF GoesOn, FoundIn
  <2>3. QED
    BY <1>5, <2>1, <2>2
<1>8. CASE k # 0
  <2>1. k \in 1..L /\ k - 1 \in 0..L /\ k - 1 < k
    BY <1>5, <1>8
  <2>2. k - 1 \notin Bad
    BY <1>3, <1>6, <2>1
  <2>3. Good(k - 1)
    BY <1>4, <2>1, <2>2
  <2>4. f[k] = OneTurn(f[k - 1], samples[k])
    BY <1>1, <2>1 DEF IsTurns
  <2>5. \A done \in f[k - 1] : /\ Applied(done, samples[k]) # {}
                               /\ \A d \in Applied(done, samples[k]) : GoesOn(d, b, T, past)
    BY <2>1, <2>3, AppliedGoesOn
  <2>6. Good(k)
    BY <2>3, <2>4, <2>5 DEF OneTurn
  <2>7. QED
    BY <1>5, <2>6
<1>9. QED
  BY <1>7, <1>8

-----------------------------------------------------------------------------
(* A whole call, with messages or without.                                 *)
LEMMA MessageGivesSample ==
  ASSUME NEW t \in Nat, NEW p \in Profiles
  PROVE  FromMessage(t, p) \in Sample /\ FromMessage(t, p).ts = t
BY ProfilesAssumption DEF FromMessage, Profile, Sample

LEMMA ProcessGoesOn ==
  ASSUME NEW b \in Nat, NEW T, NEW past, past \subseteq Nat,
         NEW state, Ring(state.samples, b), state.flags \in Flags, state.samples \subseteq T,
         NEW batch, NEW messages, IsFiniteSet(messages), messages \subseteq Nat,
         \A i \in messages :
            /\ batch[i].ts \in Nat /\ batch[i].ts <= b
            /\ batch[i].report \in Profiles \cup {NoPosition}
            /\ batch[i].report # NoPosition => FromMessage(batch[i].ts, batch[i].report) \in T
            /\ \A t \in past : t <= batch[i].ts
  PROVE  GoesOn(Process(state, batch, messages), b, T, past)
<1> DEFINE offsets  == {i \in messages : batch[i].report # NoPosition}
           incoming == InTsOrder(batch, offsets)
           samples  == [n \in DOMAIN incoming |-> FromMessage(incoming[n].ts, incoming[n].report)]
           K == Cardinality(offsets)
<1>1. IsFiniteSet(offsets) /\ offsets \subseteq Nat /\ HasTs(batch, offsets)
  BY FS_Subset DEF HasTs
<1>2. \A i \in offsets :
        LET s == FromMessage(batch[i].ts, batch[i].report) IN
        s \in Sample /\ s.ts <= b /\ s \in T /\ \A t \in past : t <= s.ts
  <2>1. TAKE i \in offsets
  <2>2. batch[i].ts \in Nat /\ batch[i].report \in Profiles
    OBVIOUS
  <2>3. QED
    BY <2>2, MessageGivesSample
<1>3. Process(state, batch, messages) = CHOOSE done \in Turns(state, samples) : TRUE
  BY DEF Process
<1> HIDE DEF offsets
<1>4. Picks(incoming, batch, offsets)
  BY <1>1, InTsOrderPicks
<1>5. /\ K \in Nat /\ DOMAIN incoming = 1..K
      /\ \A n \in 1..K : \E i \in offsets : incoming[n] = batch[i]
  BY <1>4 DEF Picks
<1> HIDE DEF incoming, K
<1>6. DOMAIN samples = 1..K /\ Len(samples) = K
  <2>1. DOMAIN samples = 1..K
    BY <1>5
  <2>2. samples \in Seq({samples[n] : n \in 1..K})
    BY <1>5, <2>1
  <2>3. QED
    BY <1>5, <2>1, <2>2
<1>7. ASSUME NEW n \in 1..K
      PROVE  /\ samples[n] \in Sample /\ samples[n].ts <= b
             /\ samples[n] \in T /\ \A t \in past : t <= samples[n].ts
  <2>1. PICK i \in offsets : incoming[n] = batch[i]
    BY <1>5
  <2>2. samples[n] = FromMessage(batch[i].ts, batch[i].report)
    BY <1>5, <2>1
  <2> HIDE DEF samples
  <2>3. QED
    BY <1>2, <2>2
<1> HIDE DEF samples
<1>8. Turns(state, samples) # {} /\ \A d \in Turns(state, samples) : GoesOn(d, b, T, past)
  BY <1>5, <1>6, <1>7, TurnsGoOnWell
<1>9. QED
  BY <1>3, <1>8

LEMMA DetectEventsGoesOn ==
  ASSUME NEW b \in Nat, NEW T, NEW past, past \subseteq Nat,
         NEW state, Ring(state.samples, b), state.flags \in Flags, state.samples \subseteq T,
         NEW batch, NEW messages, IsFiniteSet(messages), messages \subseteq Nat,
         \A i \in messages :
            /\ batch[i].ts \in Nat /\ batch[i].ts <= b
            /\ batch[i].report \in Profiles \cup {NoPosition}
            /\ batch[i].report # NoPosition => FromMessage(batch[i].ts, batch[i].report) \in T
            /\ \A t \in past : t <= batch[i].ts,
         NEW timedOut
  PROVE  GoesOn(DetectEvents(state, batch, messages, timedOut), b, T, past)
<1>1. CASE messages # {}
  BY <1>1, ProcessGoesOn DEF DetectEvents
<1>2. CASE messages = {} /\ timedOut /\ state.samples # {}
  <2> DEFINE d == [samples |-> {}, flags |-> NoFlags, raised |-> FALSE,
                   events |-> TimeoutEvents(state.samples, state.flags)]
  <2>1. DetectEvents(state, batch, messages, timedOut) = d
    BY <1>2 DEF DetectEvents
  <2>2. FoundIn(T, past, d.events)
    BY TimeoutFinds
  <2>3. GoesOn(d, b, T, past)
    BY <2>2, EmptyRing, EmptyState DEF GoesOn
  <2>4. QED
    BY <2>1, <2>3
<1>3. CASE messages = {} /\ ~(timedOut /\ state.samples # {})
  <2> DEFINE d == [samples |-> state.samples, flags |-> state.flags, raised |-> FALSE,
                   events |-> {}]
  <2>1. DetectEvents(state, batch, messages, timedOut) = d
    BY <1>3 DEF DetectEvents
  <2>2. GoesOn(d, b, T, past)
    BY DEF GoesOn, FoundIn
  <2>3. QED
    BY <2>1, <2>2
<1>4. QED
  BY <1>1, <1>2, <1>3

-----------------------------------------------------------------------------
(* The positions an aircraft has reported in the first n messages of a     *)
(* topic: their offsets, samples and ts.                                   *)
PositionsOf(l, a, n) == {i \in 1..n : l[i].icao24 = a /\ l[i].report # NoPosition}
SamplesOf(l, a, n) == {FromMessage(l[i].ts, l[i].report) : i \in PositionsOf(l, a, n)}
PastOf(l, a, n) == {l[i].ts : i \in PositionsOf(l, a, n)}

InOrder(l) == \A i, j \in DOMAIN l : i <= j => l[i].ts <= l[j].ts

(* A group state is one the engine keeps, of samples of T.                 *)
StateOf(state, T) ==
    Ring(state.samples, MaxTs) /\ state.flags \in Flags /\ state.samples \subseteq T

(* What the topic l must hold for a row of the table: a landing, and, as   *)
(* long as nothing was replayed, a position among the first n messages     *)
(* that is not older than the event.                                       *)
LandingSeen(l, once, id, row) ==
    \E i, j \in DOMAIN l :
        /\ i < j /\ l[i].icao24 = id[1] /\ l[j].icao24 = id[1]
        /\ l[i].report # NoPosition /\ ~l[i].report.onGround
        /\ l[i].ts = id[2][2]
        /\ l[j].report # NoPosition /\ l[j].report.onGround
        /\ once => l[j].ts >= row.event_ts

Reached(l, n, id, row) ==
    row.event_ts \in Nat /\ \E i \in PositionsOf(l, id[1], n) : row.event_ts <= l[i].ts

RowInTopic(l, n, once, id, row) ==
    /\ IsRow(row)
    /\ row.details = "on_ground" => id[2][1] = "arrival" /\ LandingSeen(l, once, id, row)
    /\ once /\ id[2][1] = "arrival" => Reached(l, n, id, row)

TableInTopic(l, n, once, table) ==
    \A id \in DOMAIN table : RowInTopic(l, n, once, id, table[id])

Consumed == IF delivered THEN planned.upTo ELSE offset

TopicInv ==
    /\ InOrder(log) /\ \A i \in DOMAIN log : log[i].ts <= MaxTs
    /\ \A a \in Aircraft : StateOf(states[a], SamplesOf(log, a, offset))
    /\ TableInTopic(log, Consumed, resets = 0, flight_events)
    /\ fresh /\ resets = 0 => DOMAIN flight_events = {}
    /\ replayFrom \in Nat \cup {Null} /\ crashes \in Nat /\ resets \in Nat

LEMMA MoreSamples ==
  ASSUME NEW l, NEW a, NEW m \in Nat, NEW n \in Nat, m <= n
  PROVE  /\ PositionsOf(l, a, m) \subseteq PositionsOf(l, a, n)
         /\ SamplesOf(l, a, m) \subseteq SamplesOf(l, a, n)
<1>1. 1..m \subseteq 1..n
  OBVIOUS
<1>2. PositionsOf(l, a, m) \subseteq PositionsOf(l, a, n)
  BY <1>1 DEF PositionsOf
<1>3. QED
  BY <1>2 DEF SamplesOf

(* The messages published since the checkpoint are not older.              *)
LEMMA PastIsPast ==
  ASSUME NEW l \in Seq(Message), InOrder(l), NEW a, NEW n \in 0..Len(l)
  PROVE  /\ PastOf(l, a, n) \subseteq Nat
         /\ \A t \in PastOf(l, a, n), i \in (n + 1)..Len(l) : t <= l[i].ts
<1>1. ASSUME NEW k \in PositionsOf(l, a, n)
      PROVE  k \in 1..n /\ k \in DOMAIN l /\ l[k].ts \in Nat
  <2>1. k \in 1..n
    BY DEF PositionsOf
  <2>2. k \in DOMAIN l /\ l[k] \in Message
    BY <2>1
  <2>3. QED
    BY <2>1, <2>2 DEF Message
<1>2. PastOf(l, a, n) \subseteq Nat
  BY <1>1 DEF PastOf
<1>3. ASSUME NEW k \in PositionsOf(l, a, n), NEW i \in (n + 1)..Len(l)
      PROVE  l[k].ts <= l[i].ts
  <2>1. k \in DOMAIN l /\ i \in DOMAIN l /\ k <= i
    BY <1>1
  <2>2. QED
    BY <2>1 DEF InOrder
<1>4. QED
  BY <1>2, <1>3 DEF PastOf

LEMMA BatchIsOfTheTopic ==
  ASSUME NEW l \in Seq(Message), NEW m \in 0..Len(l), NEW n \in m..Len(l), NEW a
  PROVE  LET batch == SubSeq(l, m + 1, n) IN
         /\ DOMAIN batch = 1..(n - m)
         /\ \A i \in 1..(n - m) : batch[i] = l[m + i] /\ m + i \in (m + 1)..n
                                  /\ m + i \in DOMAIN l /\ batch[i] \in Message
         /\ MessagesOf(a, batch) \subseteq 1..(n - m)
         /\ IsFiniteSet(MessagesOf(a, batch))
<1> DEFINE batch == SubSeq(l, m + 1, n)
<1>1. n - m \in Nat /\ m \in Nat /\ n \in Nat
  OBVIOUS
<1>2. DOMAIN batch = 1..(n - m) /\ \A i \in 1..(n - m) : batch[i] = l[m + i]
  OBVIOUS
<1> HIDE DEF batch
<1>3. \A i \in 1..(n - m) : m + i \in (m + 1)..n /\ m + i \in DOMAIN l
  OBVIOUS
<1>4. \A i \in 1..(n - m) : l[m + i] \in Message
  BY <1>3
<1>5. MessagesOf(a, batch) \subseteq 1..(n - m)
  BY <1>2 DEF MessagesOf
<1>6. IsFiniteSet(1..(n - m))
  BY <1>1, FS_Interval
<1>7. IsFiniteSet(MessagesOf(a, batch))
  BY <1>5, <1>6, FS_Subset
<1>8. QED
  BY <1>2, <1>3, <1>4, <1>5, <1>7 DEF batch

(* What a batch makes of an aircraft's state and messages.                 *)
LEMMA BatchGoesOn ==
  ASSUME NEW l \in Seq(Message), InOrder(l), \A i \in DOMAIN l : l[i].ts <= MaxTs,
         NEW m \in 0..Len(l), NEW n \in m..Len(l), NEW a \in Aircraft,
         NEW st, StateOf(st[a], SamplesOf(l, a, m)), NEW expired
  PROVE  GoesOn(Detected(a, st, SubSeq(l, m + 1, n), expired), MaxTs,
                SamplesOf(l, a, n), PastOf(l, a, m))
<1> DEFINE batch == SubSeq(l, m + 1, n)
           messages == MessagesOf(a, batch)
           T == SamplesOf(l, a, n)
           past == PastOf(l, a, m)
<1>1. m \in Nat /\ n \in Nat /\ m <= n /\ n <= Len(l) /\ n - m \in Nat /\ MaxTs \in Nat
  BY EventsAssumption
<1>2. /\ DOMAIN batch = 1..(n - m)
      /\ \A i \in 1..(n - m) : batch[i] = l[m + i] /\ m + i \in (m + 1)..n
                               /\ m + i \in DOMAIN l /\ batch[i] \in Message
      /\ messages \subseteq 1..(n - m) /\ IsFiniteSet(messages)
  BY BatchIsOfTheTopic
<1>3. past \subseteq Nat /\ \A t \in past, i \in (m + 1)..Len(l) : t <= l[i].ts
  BY PastIsPast
<1>4. \A i \in messages : batch[i].icao24 = a
  BY DEF MessagesOf
<1> HIDE DEF batch, messages, past
<1>5. messages \subseteq Nat
  BY <1>1, <1>2
<1>6. ASSUME NEW i \in messages
      PROVE  /\ batch[i].ts \in Nat /\ batch[i].ts <= MaxTs
             /\ batch[i].report \in Profiles \cup {NoPosition}
             /\ batch[i].report # NoPosition => FromMessage(batch[i].ts, batch[i].report) \in T
             /\ \A t \in past : t <= batch[i].ts
  <2>1. /\ i \in 1..(n - m) /\ batch[i] = l[m + i] /\ m + i \in (m + 1)..n
        /\ m + i \in DOMAIN l /\ batch[i] \in Message
    BY <1>2
  <2>2. /\ batch[i].ts \in Nat /\ batch[i].ts <= MaxTs
        /\ batch[i].report \in Profiles \cup {NoPosition}
    BY <2>1 DEF Message
  <2>3. m + i \in (m + 1)..Len(l) /\ m + i \in 1..n
    BY <1>1, <2>1
  <2>4. \A t \in past : t <= batch[i].ts
    BY <1>3, <2>1, <2>3
  <2>5. batch[i].report # NoPosition => m + i \in PositionsOf(l, a, n)
    BY <1>4, <2>1, <2>3 DEF PositionsOf
  <2>6. batch[i].report # NoPosition => FromMessage(batch[i].ts, batch[i].report) \in T
    BY <2>1, <2>5 DEF SamplesOf
  <2>7. QED
    BY <2>2, <2>4, <2>6
<1>7. /\ Ring(st[a].samples, MaxTs) /\ st[a].flags \in Flags /\ st[a].samples \subseteq T
  BY <1>1, MoreSamples DEF StateOf
<1> HIDE DEF T
<1>8. GoesOn(DetectEvents(st[a], batch, messages, a \in expired), MaxTs, T, past)
  BY <1>1, <1>2, <1>3, <1>5, <1>6, <1>7, DetectEventsGoesOn
<1>9. QED
  BY <1>8 DEF Detected, batch, messages, T, past

(* Every row of a batch is one of the events found about its aircraft.     *)
LEMMA RowsAreEvents ==
  ASSUME NEW st, NEW batch, NEW expired, NEW id \in DOMAIN RowsOf(st, batch, expired)
  PROVE  \E a \in Aircraft : \E e \in Detected(a, st, batch, expired).events :
            id = <<a, EventId(e)>> /\ RowsOf(st, batch, expired)[id] = Row(e)
<1> DEFINE foundBy(a) == Detected(a, st, batch, expired).events
           ids(a)     == {<<a, EventId(e)>> : e \in foundBy(a)}
           S == UNION {ids(a) : a \in Aircraft}
           r(i) == Row(CHOOSE e \in foundBy(i[1]) : EventId(e) = i[2])
<1>1. RowsOf(st, batch, expired) = [i \in S |-> r(i)]
  BY DEF RowsOf
<1>2. id \in S /\ RowsOf(st, batch, expired)[id] = r(id)
  BY <1>1
<1>3. PICK a \in Aircraft : \E d \in foundBy(a) : id = <<a, EventId(d)>>
  BY <1>2
<1>4. PICK d \in foundBy(a) : id = <<a, EventId(d)>>
  BY <1>3
<1>5. id[1] = a /\ id[2] = EventId(d)
  BY <1>4
<1> DEFINE e == CHOOSE c \in foundBy(a) : EventId(c) = EventId(d)
<1>6. e \in foundBy(a) /\ EventId(e) = EventId(d)
  OBVIOUS
<1>7. r(id) = Row(e)
  BY <1>5
<1> HIDE DEF e
<1>8. QED
  BY <1>2, <1>4, <1>6, <1>7

(* An event is in the topic; a landing ends with a message that is not     *)
(* older than any before the batch.                                        *)
LEMMA SampleIsMessage ==
  ASSUME NEW l \in Seq(Message), NEW a, NEW n \in 0..Len(l), NEW s \in SamplesOf(l, a, n)
  PROVE  \E i \in PositionsOf(l, a, n) :
            /\ i \in DOMAIN l /\ l[i].icao24 = a /\ l[i].report # NoPosition
            /\ l[i].ts = s.ts /\ l[i].ts \in Nat /\ l[i].report.onGround = s.onGround
<1>1. PICK i \in PositionsOf(l, a, n) : s = FromMessage(l[i].ts, l[i].report)
  BY DEF SamplesOf
<1>2. i \in 1..n /\ l[i].icao24 = a /\ l[i].report # NoPosition
  BY DEF PositionsOf
<1>3. i \in DOMAIN l /\ l[i] \in Message
  BY <1>2
<1>4. l[i].ts \in Nat
  BY <1>3 DEF Message
<1>5. s.ts = l[i].ts /\ s.onGround = l[i].report.onGround
  BY <1>1 DEF FromMessage
<1>6. QED
  BY <1>2, <1>3, <1>4, <1>5

EventSeen(l, a, n, m, e) ==
    /\ e.confirmation = "on_ground" =>
         /\ e.event_type = "arrival"
         /\ \E i, j \in DOMAIN l :
               /\ i < j /\ l[i].icao24 = a /\ l[j].icao24 = a
               /\ l[i].report # NoPosition /\ ~l[i].report.onGround
               /\ l[i].ts = e.window_start
               /\ l[j].report # NoPosition /\ l[j].report.onGround
               /\ l[j].ts = e.event_ts
               /\ \A t \in PastOf(l, a, m) : t <= l[j].ts
    /\ e.event_type = "arrival" => \E i \in PositionsOf(l, a, n) : l[i].ts = e.event_ts

LEMMA EventIsSeen ==
  ASSUME NEW l \in Seq(Message), InOrder(l), NEW a, NEW n \in 0..Len(l), NEW m,
         NEW E, FoundIn(SamplesOf(l, a, n), PastOf(l, a, m), E), NEW e \in E
  PROVE  EventSeen(l, a, n, m, e)
<1> DEFINE T == SamplesOf(l, a, n)
           past == PastOf(l, a, m)
<1>1. ASSUME e.event_type = "arrival" PROVE \E i \in PositionsOf(l, a, n) : l[i].ts = e.event_ts
  <2>1. PICK q \in T : q.ts = e.event_ts
    BY <1>1 DEF FoundIn
  <2>2. QED
    BY <2>1, SampleIsMessage
<1>2. ASSUME e.confirmation = "on_ground"
      PROVE  /\ e.event_type = "arrival"
             /\ \E i, j \in DOMAIN l :
                  /\ i < j /\ l[i].icao24 = a /\ l[j].icao24 = a
                  /\ l[i].report # NoPosition /\ ~l[i].report.onGround
                  /\ l[i].ts = e.window_start
                  /\ l[j].report # NoPosition /\ l[j].report.onGround
                  /\ l[j].ts = e.event_ts
                  /\ \A t \in PastOf(l, a, m) : t <= l[j].ts
  <2> HIDE DEF T, past
  <2>1. /\ e.event_type = "arrival"
        /\ \E r, q \in T : /\ ~r.onGround /\ r.ts = e.window_start
                           /\ q.onGround /\ q.ts = e.event_ts
                           /\ r.ts < q.ts /\ \A t \in past : t <= q.ts
    BY <1>2 DEF FoundIn, T, past
  <2>2. PICK r, q \in T : /\ ~r.onGround /\ r.ts = e.window_start
                          /\ q.onGround /\ q.ts = e.event_ts
                          /\ r.ts < q.ts /\ \A t \in past : t <= q.ts
    BY <2>1
  <2>3. PICK i \in DOMAIN l : /\ l[i].icao24 = a /\ l[i].report # NoPosition
                              /\ l[i].ts = r.ts /\ l[i].ts \in Nat
                              /\ l[i].report.onGround = r.onGround
    BY SampleIsMessage DEF T
  <2>4. PICK j \in DOMAIN l : /\ l[j].icao24 = a /\ l[j].report # NoPosition
                              /\ l[j].ts = q.ts /\ l[j].ts \in Nat
                              /\ l[j].report.onGround = q.onGround
    BY SampleIsMessage DEF T
  <2>5. l[i].ts < l[j].ts
    BY <2>2, <2>3, <2>4
  <2>6. i \in Nat /\ j \in Nat
    OBVIOUS
  <2>7. i < j
    <3>1. j <= i => l[j].ts <= l[i].ts
      BY DEF InOrder
    <3>2. QED
      BY <2>3, <2>4, <2>5, <2>6, <3>1
  <2>8. ~l[i].report.onGround
    BY <2>2, <2>3
  <2>9. l[j].report.onGround
    BY <2>2, <2>4
  <2>10. \A t \in PastOf(l, a, m) : t <= l[j].ts
    BY <2>2, <2>4 DEF past
  <2>11. QED
    BY <2>1, <2>2, <2>3, <2>4, <2>7, <2>8, <2>9, <2>10
<1>3. QED
  BY <1>1, <1>2 DEF EventSeen

-----------------------------------------------------------------------------
(* What a row needs of the topic it has when it is written, and keeps      *)
(* while the topic grows, the checkpoint advances, or is deleted.          *)
LEMMA RowLeadsOn ==
  ASSUME NEW l, NEW k, NEW n \in Nat, NEW p \in Nat, n <= p, 1..n \subseteq DOMAIN l,
         DOMAIN l \subseteq DOMAIN k, \A i \in DOMAIN l : k[i] = l[i],
         NEW once, NEW id, NEW row, RowInTopic(l, n, once, id, row)
  PROVE  RowInTopic(k, p, once, id, row)
<1>1. LandingSeen(l, once, id, row) => LandingSeen(k, once, id, row)
  <2>1. SUFFICES ASSUME LandingSeen(l, once, id, row) PROVE LandingSeen(k, once, id, row)
    OBVIOUS
  <2>2. PICK i, j \in DOMAIN l :
            /\ i < j /\ l[i].icao24 = id[1] /\ l[j].icao24 = id[1]
            /\ l[i].report # NoPosition /\ ~l[i].report.onGround
            /\ l[i].ts = id[2][2]
            /\ l[j].report # NoPosition /\ l[j].report.onGround
            /\ once => l[j].ts >= row.event_ts
    BY <2>1 DEF LandingSeen
  <2>3. i \in DOMAIN k /\ j \in DOMAIN k /\ k[i] = l[i] /\ k[j] = l[j]
    OBVIOUS
  <2>4. QED
    BY <2>2, <2>3 DEF LandingSeen
<1>2. \A i \in PositionsOf(l, id[1], n) : i \in PositionsOf(k, id[1], p) /\ k[i] = l[i]
  <2>1. TAKE i \in PositionsOf(l, id[1], n)
  <2>2. i \in 1..n /\ l[i].icao24 = id[1] /\ l[i].report # NoPosition
    BY DEF PositionsOf
  <2>3. i \in 1..p /\ k[i] = l[i]
    BY <2>2
  <2>4. QED
    BY <2>2, <2>3 DEF PositionsOf
<1>3. Reached(l, n, id, row) => Reached(k, p, id, row)
  BY <1>2 DEF Reached
<1>4. QED
  BY <1>1, <1>3 DEF RowInTopic

LEMMA RowForgets ==
  ASSUME NEW l, NEW n, NEW p, NEW once, NEW id, NEW row, RowInTopic(l, n, once, id, row)
  PROVE  RowInTopic(l, p, FALSE, id, row)
<1>1. LandingSeen(l, once, id, row) => LandingSeen(l, FALSE, id, row)
  BY DEF LandingSeen
<1>2. QED
  BY <1>1 DEF RowInTopic

LEMMA MessagesHaveTs ==
  ASSUME NEW l \in Seq(Message)
  PROVE  \A i \in DOMAIN l : l[i].ts \in Nat
<1>1. TAKE i \in DOMAIN l
<1>2. l[i] \in Message
  OBVIOUS
<1>3. QED
  BY <1>2 DEF Message

LEMMA FirstRow ==
  ASSUME NEW l \in Seq(Message), NEW a, NEW n \in 0..Len(l), NEW m, NEW e,
         EventSeen(l, a, n, m, e), NEW once
  PROVE  RowInTopic(l, n, once, <<a, EventId(e)>>, Row(e))
<1> DEFINE row == Row(e)
           id == <<a, EventId(e)>>
<1>1. /\ row.event_ts = e.event_ts /\ row.details = e.confirmation
      /\ IsRow(row)
  BY DEF Row, IsRow
<1>2. id[1] = a /\ id[2][1] = e.event_type /\ id[2][2] = e.window_start
  BY DEF EventId
<1>3. \A i \in DOMAIN l : l[i].ts \in Nat
  BY MessagesHaveTs
<1> HIDE DEF row, id
<1>4. ASSUME row.details = "on_ground"
      PROVE  id[2][1] = "arrival" /\ LandingSeen(l, once, id, row)
  <2>1. e.confirmation = "on_ground"
    BY <1>1, <1>4
  <2>2. e.event_type = "arrival"
    BY <2>1 DEF EventSeen
  <2>3. PICK i, j \in DOMAIN l :
               /\ i < j /\ l[i].icao24 = a /\ l[j].icao24 = a
               /\ l[i].report # NoPosition /\ ~l[i].report.onGround
               /\ l[i].ts = e.window_start
               /\ l[j].report # NoPosition /\ l[j].report.onGround
               /\ l[j].ts = e.event_ts
    BY <2>1 DEF EventSeen
  <2>4. l[j].ts >= row.event_ts
    BY <1>1, <1>3, <2>3
  <2>5. QED
    BY <1>2, <2>2, <2>3, <2>4 DEF LandingSeen
<1>5. ASSUME id[2][1] = "arrival" PROVE Reached(l, n, id, row)
  <2>1. PICK i \in PositionsOf(l, a, n) : l[i].ts = e.event_ts
    BY <1>2, <1>5 DEF EventSeen
  <2>2. i \in DOMAIN l
    <3>1. i \in 1..n
      BY DEF PositionsOf
    <3>2. QED
      BY <3>1
  <2>3. l[i].ts \in Nat /\ row.event_ts = l[i].ts
    BY <1>1, <1>3, <2>1, <2>2
  <2>4. QED
    BY <1>2, <2>1, <2>3 DEF Reached
<1>6. QED
  BY <1>1, <1>4, <1>5 DEF RowInTopic, row, id

LEMMA RecordOverwritten ==
  ASSUME NEW row, NEW x, NEW y, NEW z, NEW w, NEW u, NEW v,
         row = [airport |-> x, event_ts |-> y, duration_s |-> z, details |-> w]
  PROVE  [row EXCEPT !.duration_s = u, !.details = v] =
            [airport |-> x, event_ts |-> y, duration_s |-> u, details |-> v]
<1> DEFINE new == [row EXCEPT !.duration_s = u, !.details = v]
           r   == [airport |-> x, event_ts |-> y, duration_s |-> u, details |-> v]
           fields == {"airport", "event_ts", "duration_s", "details"}
<1>1. /\ DOMAIN new = fields
      /\ new.airport = x /\ new.event_ts = y /\ new.duration_s = u /\ new.details = v
  OBVIOUS
<1>2. /\ DOMAIN r = fields
      /\ r.airport = x /\ r.event_ts = y /\ r.duration_s = u /\ r.details = v
  OBVIOUS
<1>3. new = [k \in DOMAIN new |-> new[k]]
  OBVIOUS
<1>4. r = [k \in DOMAIN r |-> r[k]]
  OBVIOUS
<1> HIDE DEF new, r
<1>5. new = r
  BY <1>1, <1>2, <1>3, <1>4
<1>6. QED
  BY <1>5 DEF new, r

Overwritten(row, u, v) == [row EXCEPT !.duration_s = u, !.details = v]

LEMMA RowOverwritten ==
  ASSUME NEW row, IsRow(row), NEW u, NEW v, NEW new, new = Overwritten(row, u, v)
  PROVE  IsRow(new) /\ new.event_ts = row.event_ts /\ new.details = v
<1>1. new = [airport |-> row.airport, event_ts |-> row.event_ts, duration_s |-> u, details |-> v]
  BY RecordOverwritten DEF IsRow, Overwritten
<1>2. QED
  BY <1>1 DEF IsRow

LEMMA NextRow ==
  ASSUME NEW l \in Seq(Message), NEW a, NEW n \in 0..Len(l), NEW m \in 0..n, NEW e,
         EventSeen(l, a, n, m, e), NEW once, NEW row,
         RowInTopic(l, m, once, <<a, EventId(e)>>, row)
  PROVE  RowInTopic(l, n, once, <<a, EventId(e)>>,
                    [row EXCEPT !.duration_s = Row(e).duration_s, !.details = Row(e).details])
<1> DEFINE new == [row EXCEPT !.duration_s = Row(e).duration_s, !.details = Row(e).details]
           id == <<a, EventId(e)>>
<1>1. /\ new.event_ts = row.event_ts /\ new.details = e.confirmation
      /\ IsRow(new)
  <2>1. IsRow(row) /\ Row(e).details = e.confirmation
    BY DEF RowInTopic, Row
  <2> DEFINE u == Row(e).duration_s
             v == Row(e).details
  <2>2. new = Overwritten(row, u, v)
    BY DEF Overwritten
  <2> HIDE DEF new, u, v
  <2>3. IsRow(new) /\ new.event_ts = row.event_ts /\ new.details = v
    BY <2>1, <2>2, RowOverwritten
  <2>4. QED
    BY <2>1, <2>3 DEF v
<1>2. id[1] = a /\ id[2][1] = e.event_type /\ id[2][2] = e.window_start
  BY DEF EventId
<1>3. \A i \in DOMAIN l : l[i].ts \in Nat
  BY MessagesHaveTs
<1>4. RowInTopic(l, m, once, id, row)
  OBVIOUS
<1> HIDE DEF new, id
<1>5. ASSUME new.details = "on_ground"
      PROVE  id[2][1] = "arrival" /\ LandingSeen(l, once, id, new)
  <2>1. e.confirmation = "on_ground"
    BY <1>1, <1>5
  <2>2. e.event_type = "arrival"
    BY <2>1 DEF EventSeen
  <2>3. PICK i, j \in DOMAIN l :
               /\ i < j /\ l[i].icao24 = a /\ l[j].icao24 = a
               /\ l[i].report # NoPosition /\ ~l[i].report.onGround
               /\ l[i].ts = e.window_start
               /\ l[j].report # NoPosition /\ l[j].report.onGround
               /\ l[j].ts = e.event_ts
               /\ \A t \in PastOf(l, a, m) : t <= l[j].ts
    BY <2>1 DEF EventSeen
  <2>4. ASSUME once PROVE l[j].ts >= new.event_ts
    <3>1. Reached(l, m, id, row)
      BY <1>2, <1>4, <2>2, <2>4 DEF RowInTopic
    <3>2. row.event_ts \in Nat /\ \E k \in PositionsOf(l, a, m) : row.event_ts <= l[k].ts
      BY <1>2, <3>1 DEF Reached
    <3>3. PICK k \in PositionsOf(l, a, m) : row.event_ts <= l[k].ts
      BY <3>2
    <3>4. k \in 1..m
      BY DEF PositionsOf
    <3>5. l[k].ts \in PastOf(l, a, m) /\ l[k].ts \in Nat /\ l[j].ts \in Nat
      BY <1>3, <3>4 DEF PastOf
    <3>6. QED
      BY <1>1, <2>3, <3>2, <3>3, <3>5
  <2>5. QED
    BY <1>2, <2>2, <2>3, <2>4 DEF LandingSeen
<1>6. ASSUME once, id[2][1] = "arrival" PROVE Reached(l, n, id, new)
  <2>1. Reached(l, m, id, row)
    BY <1>4, <1>6 DEF RowInTopic
  <2>2. PositionsOf(l, a, m) \subseteq PositionsOf(l, a, n)
    <3>1. m \in Nat /\ n \in Nat /\ m <= n
      OBVIOUS
    <3>2. QED
      BY <3>1, MoreSamples
  <2>3. QED
    BY <1>1, <1>2, <2>1, <2>2 DEF Reached
<1>7. QED
  BY <1>1, <1>5, <1>6 DEF RowInTopic, new, id

LEMMA TableLeadsOn ==
  ASSUME NEW l, NEW k, NEW n \in Nat, NEW p \in Nat, n <= p, 1..n \subseteq DOMAIN l,
         DOMAIN l \subseteq DOMAIN k, \A i \in DOMAIN l : k[i] = l[i],
         NEW once, NEW table, TableInTopic(l, n, once, table)
  PROVE  TableInTopic(k, p, once, table)
BY RowLeadsOn DEF TableInTopic

LEMMA UpsertLeadsOn ==
  ASSUME NEW l \in Seq(Message), NEW n \in 0..Len(l), NEW m \in 0..n, NEW once,
         NEW table, TableInTopic(l, m, once, table),
         NEW rows,
         \A id \in DOMAIN rows : \E a, e :
            id = <<a, EventId(e)>> /\ rows[id] = Row(e) /\ EventSeen(l, a, n, m, e)
  PROVE  TableInTopic(l, n, once, Upsert(table, rows))
<1> DEFINE all == Upsert(table, rows)
<1>1. DOMAIN all = DOMAIN table \cup DOMAIN rows
  BY DEF Upsert
<1>2. ASSUME NEW id \in DOMAIN all PROVE RowInTopic(l, n, once, id, all[id])
  <2>1. CASE id \notin DOMAIN rows
    <3>1. all[id] = table[id] /\ id \in DOMAIN table
      BY <1>1, <2>1 DEF Upsert
    <3>2. RowInTopic(l, m, once, id, table[id])
      BY <3>1 DEF TableInTopic
    <3>3. m \in Nat /\ n \in Nat /\ m <= n /\ 1..m \subseteq DOMAIN l
      OBVIOUS
    <3> HIDE DEF all
    <3>4. RowInTopic(l, n, once, id, table[id])
      BY <3>2, <3>3, RowLeadsOn
    <3>5. QED
      BY <3>1, <3>4
  <2>2. CASE id \in DOMAIN rows
    <3>1. PICK a, e : id = <<a, EventId(e)>> /\ rows[id] = Row(e) /\ EventSeen(l, a, n, m, e)
      BY <2>2
    <3>2. CASE id \notin DOMAIN table
      <4>1. all[id] = Row(e)
        BY <1>1, <2>2, <3>1, <3>2 DEF Upsert
      <4> HIDE DEF all
      <4>2. QED
        BY <3>1, <4>1, FirstRow
    <3>3. CASE id \in DOMAIN table
      <4> DEFINE row == table[id]
                 new == rows[id]
      <4>1. all[id] = [row EXCEPT !.duration_s = new.duration_s, !.details = new.details]
        BY <1>1, <2>2, <3>3 DEF Upsert
      <4>2. new = Row(e)
        BY <3>1
      <4>3. RowInTopic(l, m, once, id, row)
        BY <3>3 DEF TableInTopic
      <4> HIDE DEF all, row, new
      <4>4. all[id] = [row EXCEPT !.duration_s = Row(e).duration_s, !.details = Row(e).details]
        BY <4>1, <4>2
      <4>5. RowInTopic(l, m, once, <<a, EventId(e)>>, row)
        BY <3>1, <4>3
      <4>6. RowInTopic(l, n, once, <<a, EventId(e)>>,
              [row EXCEPT !.duration_s = Row(e).duration_s, !.details = Row(e).details])
        BY <3>1, <4>5, NextRow
      <4>7. QED
        BY <3>1, <4>4, <4>6
    <3>4. QED
      BY <3>2, <3>3
  <2>3. QED
    BY <2>1, <2>2
<1>3. QED
  BY <1>2 DEF TableInTopic

-----------------------------------------------------------------------------
LEMMA InitInTopic == Init => TopicInv
<1> SUFFICES ASSUME Init PROVE TopicInv
  OBVIOUS
<1>1. log = <<>> /\ DOMAIN log = {} /\ flight_events = <<>> /\ DOMAIN flight_events = {}
  BY DEF Init
<1>2. \A a \in Aircraft : StateOf(states[a], SamplesOf(log, a, offset))
  <2>1. TAKE a \in Aircraft
  <2>2. states[a] = NoState
    BY DEF Init, NoStates
  <2>3. QED
    BY <2>2, EmptyRing, EmptyState, EventsAssumption DEF NoState, StateOf
<1>3. replayFrom = Null /\ crashes = 0 /\ resets = 0
  BY DEF Init
<1>4. QED
  BY <1>1, <1>2, <1>3 DEF TopicInv, InOrder, TableInTopic

LEMMA PublishInTopic == RecoveryInv /\ TopicInv /\ Publish => TopicInv'
<1> SUFFICES ASSUME RecoveryInv, TopicInv, Publish PROVE TopicInv'
  OBVIOUS
<1>1. PICK a \in Aircraft, t \in 0..MaxTs, p \in Profiles \cup {NoPosition} :
        /\ \A i \in DOMAIN log : log[i].ts <= t
        /\ log' = Append(log, [icao24 |-> a, ts |-> t, report |-> p])
  BY DEF Publish
<1> DEFINE m == [icao24 |-> a, ts |-> t, report |-> p]
           L == Len(log)
<1>2. log \in Seq(Message) /\ L \in Nat /\ DOMAIN log = 1..L /\ offset \in 0..L
  BY DEF RecoveryInv
<1>3. m \in Message /\ m.ts = t
  BY EventsAssumption DEF Message
<1> HIDE DEF m
<1>4. /\ DOMAIN log' = 1..(L + 1) /\ log'[L + 1] = m
      /\ \A i \in DOMAIN log : log'[i] = log[i]
  BY <1>1, <1>2, <1>3 DEF m
<1>5. UNCHANGED <<phase, fresh, offset, states, planned, replayFrom, flight_events,
                  result, delivered, crashes, resets>>
  BY DEF Publish
<1>6. \A i \in DOMAIN log' : i \in DOMAIN log \/ i = L + 1
  BY <1>2, <1>4
<1>7. \A i \in DOMAIN log' : log'[i].ts <= MaxTs
  <2>1. t <= MaxTs
    BY EventsAssumption
  <2>2. QED
    BY <1>3, <1>4, <1>6, <2>1 DEF TopicInv
<1>8. InOrder(log')
  <2>1. ASSUME NEW i \in DOMAIN log', NEW j \in DOMAIN log', i <= j
        PROVE  log'[i].ts <= log'[j].ts
    <3>1. CASE j \in DOMAIN log
      <4>1. i \in DOMAIN log
        BY <1>2, <1>4, <2>1, <3>1
      <4>2. QED
        BY <1>4, <2>1, <3>1, <4>1 DEF TopicInv, InOrder
    <3>2. CASE j = L + 1 /\ i \in DOMAIN log
      BY <1>1, <1>3, <1>4, <3>2
    <3>3. CASE j = L + 1 /\ i = L + 1
      BY <1>3, <1>4, <3>3
    <3>4. QED
      BY <1>6, <3>1, <3>2, <3>3
  <2>2. QED
    BY <2>1 DEF InOrder
<1>9. ASSUME NEW b \in Aircraft PROVE SamplesOf(log', b, offset) = SamplesOf(log, b, offset)
  <2>1. \A i \in 1..offset : log'[i] = log[i]
    BY <1>2, <1>4
  <2>2. PositionsOf(log', b, offset) = PositionsOf(log, b, offset)
    BY <2>1 DEF PositionsOf
  <2>3. \A i \in PositionsOf(log, b, offset) : log'[i] = log[i]
    BY <2>1 DEF PositionsOf
  <2>4. QED
    BY <2>2, <2>3 DEF SamplesOf
<1>10. \A b \in Aircraft : StateOf(states[b], SamplesOf(log', b, offset))
  BY <1>9 DEF TopicInv
<1>11. Consumed \in 0..L
  BY <1>2 DEF Consumed, RecoveryInv, Planned, IsPlannedResult
<1>12. TableInTopic(log', Consumed, resets = 0, flight_events)
  <2>1. Consumed \in Nat /\ 1..Consumed \subseteq DOMAIN log /\ DOMAIN log \subseteq DOMAIN log'
    BY <1>2, <1>4, <1>11
  <2>2. TableInTopic(log, Consumed, resets = 0, flight_events)
    BY DEF TopicInv
  <2> DEFINE n == Consumed
             once == resets = 0
             k == log'
  <2>3. /\ n \in Nat /\ n <= n /\ 1..n \subseteq DOMAIN log /\ DOMAIN log \subseteq DOMAIN k
        /\ \A i \in DOMAIN log : k[i] = log[i]
        /\ TableInTopic(log, n, once, flight_events)
    BY <1>4, <2>1, <2>2
  <2> HIDE DEF n, once, k
  <2>4. TableInTopic(k, n, once, flight_events)
    BY <2>3, TableLeadsOn
  <2>5. QED
    BY <2>4 DEF n, once, k
<1>13. Consumed' = Consumed
  BY <1>5 DEF Consumed
<1>14. QED
  BY <1>5, <1>7, <1>8, <1>10, <1>12, <1>13 DEF TopicInv

LEMMA StartInTopic == RecoveryInv /\ TopicInv /\ Start => TopicInv'
<1> SUFFICES ASSUME RecoveryInv, TopicInv, Start PROVE TopicInv'
  OBVIOUS
<1>1. CASE fresh
  <2>1. /\ offset' = StartingOffset(replayFrom) /\ states' = NoStates
        /\ delivered' = FALSE /\ fresh' = FALSE
        /\ UNCHANGED <<log, flight_events, replayFrom, crashes, resets>>
    BY <1>1 DEF Start
  <2>2. Consumed' = offset'
    BY <2>1 DEF Consumed
  <2>3. ASSUME NEW a \in Aircraft PROVE StateOf(states'[a], SamplesOf(log', a, offset'))
    <3>1. states'[a] = NoState
      BY <2>1 DEF NoStates
    <3>2. QED
      BY <3>1, EmptyRing, EmptyState, EventsAssumption DEF NoState, StateOf
  <2>4. TableInTopic(log, Consumed', resets = 0, flight_events)
    <3>1. CASE resets = 0
      BY <1>1, <3>1 DEF TopicInv, TableInTopic
    <3>2. CASE resets # 0
      <4>1. TableInTopic(log, Consumed, FALSE, flight_events)
        BY <3>2 DEF TopicInv
      <4>2. TableInTopic(log, Consumed', FALSE, flight_events)
        BY <4>1, RowForgets DEF TableInTopic
      <4>3. QED
        BY <3>2, <4>2
    <3>3. QED
      BY <3>1, <3>2
  <2>5. QED
    BY <2>1, <2>3, <2>4 DEF TopicInv
<1>2. CASE ~fresh
  <2>1. UNCHANGED <<offset, states, planned, delivered, log, flight_events, replayFrom,
                    crashes, resets>> /\ fresh' = FALSE
    BY <1>2 DEF Start
  <2>2. Consumed' = Consumed
    BY <2>1 DEF Consumed
  <2>3. QED
    BY <2>1, <2>2 DEF TopicInv
<1>3. QED
  BY <1>1, <1>2

LEMMA PlanInTopic == RecoveryInv /\ TopicInv /\ Plan => TopicInv'
<1> SUFFICES ASSUME RecoveryInv, TopicInv, Plan PROVE TopicInv'
  OBVIOUS
<1>1. /\ UNCHANGED <<log, fresh, offset, states, replayFrom, flight_events, delivered,
                     crashes, resets>>
      /\ delivered = FALSE
  BY DEF Plan, RecoveryInv, IsPlannedResult
<1>2. Consumed' = Consumed
  BY <1>1 DEF Consumed
<1>3. QED
  BY <1>1, <1>2 DEF TopicInv

(* What the planned batch found, and what it leaves.                       *)
LEMMA PlannedBatchGoesOn ==
  ASSUME RecoveryInv, TopicInv, planned # Null, NEW a \in Aircraft
  PROVE  GoesOn(Detected(a, states, PlannedBatch, planned.expired), MaxTs,
                SamplesOf(log, a, planned.upTo), PastOf(log, a, offset))
<1>1. log \in Seq(Message) /\ offset \in 0..Len(log) /\ planned.upTo \in offset..Len(log)
  BY DEF RecoveryInv, Planned
<1>2. InOrder(log) /\ \A i \in DOMAIN log : log[i].ts <= MaxTs
  BY DEF TopicInv
<1>3. StateOf(states[a], SamplesOf(log, a, offset))
  BY DEF TopicInv
<1> DEFINE l == log
           m == offset
           n == planned.upTo
           st == states
           expired == planned.expired
<1>4. /\ l \in Seq(Message) /\ m \in 0..Len(l) /\ n \in m..Len(l)
      /\ InOrder(l) /\ (\A i \in DOMAIN l : l[i].ts <= MaxTs)
      /\ StateOf(st[a], SamplesOf(l, a, m))
  BY <1>1, <1>2, <1>3
<1>5. PlannedBatch = SubSeq(l, m + 1, n)
  BY DEF PlannedBatch
<1> HIDE DEF l, m, n, st, expired
<1>6. GoesOn(Detected(a, st, SubSeq(l, m + 1, n), expired), MaxTs,
             SamplesOf(l, a, n), PastOf(l, a, m))
  BY <1>4, BatchGoesOn
<1>7. QED
  BY <1>5, <1>6 DEF l, m, n, st, expired

LEMMA SinkInTopic == RecoveryInv /\ TopicInv /\ Sink => TopicInv'
<1> SUFFICES ASSUME RecoveryInv, TopicInv, Sink PROVE TopicInv'
  OBVIOUS
<1>1. /\ UNCHANGED <<log, fresh, offset, states, planned, replayFrom, crashes, resets>>
      /\ delivered' = TRUE /\ flight_events' = Upsert(flight_events, result.rows)
      /\ IsPlannedResult /\ ~fresh
  BY DEF Sink, RecoveryInv
<1>2. TableInTopic(log, planned.upTo, resets = 0, flight_events')
  <2>1. CASE delivered
    <3>1. flight_events' = flight_events
      BY <1>1, <2>1 DEF RecoveryInv
    <3>2. Consumed = planned.upTo
      BY <2>1 DEF Consumed
    <3>3. QED
      BY <3>1, <3>2 DEF TopicInv
  <2>2. CASE ~delivered
    <3> DEFINE n == planned.upTo
               m == offset
               once == resets = 0
               rows == RowsOf(states, PlannedBatch, planned.expired)
               found(a) == Detected(a, states, PlannedBatch, planned.expired).events
    <3>1. /\ log \in Seq(Message) /\ n \in 0..Len(log) /\ m \in 0..n
          /\ TableInTopic(log, m, once, flight_events)
      BY <1>1, <2>2 DEF RecoveryInv, Planned, IsPlannedResult, TopicInv, Consumed
    <3>2. result.rows = rows
      BY <1>1 DEF IsPlannedResult, PlannedResult
    <3>3. ASSUME NEW a \in Aircraft, NEW e \in found(a)
          PROVE  EventSeen(log, a, n, m, e)
      <4>1. FoundIn(SamplesOf(log, a, n), PastOf(log, a, m), found(a))
        BY <1>1, PlannedBatchGoesOn DEF GoesOn, IsPlannedResult
      <4>2. InOrder(log)
        BY DEF TopicInv
      <4> DEFINE l == log
                 E == found(a)
      <4>3. /\ l \in Seq(Message) /\ InOrder(l) /\ n \in 0..Len(l)
            /\ FoundIn(SamplesOf(l, a, n), PastOf(l, a, m), E) /\ e \in E
        BY <3>1, <4>1, <4>2
      <4> HIDE DEF l, n, m, E
      <4>4. EventSeen(l, a, n, m, e)
        BY <4>3, EventIsSeen
      <4>5. QED
        BY <4>4 DEF l
    <3>4. ASSUME NEW id \in DOMAIN rows
          PROVE  \E a, e : id = <<a, EventId(e)>> /\ rows[id] = Row(e)
                           /\ EventSeen(log, a, n, m, e)
      <4>1. PICK a \in Aircraft : \E e \in found(a) :
                   id = <<a, EventId(e)>> /\ rows[id] = Row(e)
        BY RowsAreEvents
      <4>2. PICK e \in found(a) : id = <<a, EventId(e)>> /\ rows[id] = Row(e)
        BY <4>1
      <4>3. EventSeen(log, a, n, m, e)
        BY <3>3
      <4> HIDE DEF rows, n, m
      <4>4. QED
        BY <4>2, <4>3
    <3> DEFINE l == log
               table == flight_events
    <3>5. /\ l \in Seq(Message) /\ n \in 0..Len(l) /\ m \in 0..n
          /\ TableInTopic(l, m, once, table)
          /\ \A id \in DOMAIN rows : \E a, e :
                id = <<a, EventId(e)>> /\ rows[id] = Row(e) /\ EventSeen(l, a, n, m, e)
      BY <3>1, <3>4
    <3> HIDE DEF n, m, once, rows, l, table
    <3>6. TableInTopic(l, n, once, Upsert(table, rows))
      BY <3>5, UpsertLeadsOn
    <3>7. QED
      BY <1>1, <3>2, <3>6 DEF l, n, once, table
  <2>3. QED
    BY <2>1, <2>2
<1>3. Consumed' = planned.upTo
  BY <1>1 DEF Consumed
<1>4. QED
  BY <1>1, <1>2, <1>3 DEF TopicInv

LEMMA CommitInTopic == RecoveryInv /\ TopicInv /\ Commit => TopicInv'
<1> SUFFICES ASSUME RecoveryInv, TopicInv, Commit PROVE TopicInv'
  OBVIOUS
<1>1. /\ UNCHANGED <<log, fresh, replayFrom, flight_events, crashes, resets>>
      /\ offset' = planned.upTo /\ states' = result.states /\ delivered' = FALSE
      /\ delivered /\ IsPlannedResult
  BY DEF Commit, RecoveryInv
<1>2. Consumed' = Consumed
  BY <1>1 DEF Consumed
<1>3. ASSUME NEW a \in Aircraft PROVE StateOf(states'[a], SamplesOf(log, a, offset'))
  <2> DEFINE d == Detected(a, states, PlannedBatch, planned.expired)
  <2>1. GoesOn(d, MaxTs, SamplesOf(log, a, planned.upTo), PastOf(log, a, offset))
    BY <1>1, PlannedBatchGoesOn DEF IsPlannedResult
  <2>2. states'[a] = [samples |-> d.samples, flags |-> d.flags]
    BY <1>1 DEF IsPlannedResult, PlannedResult, StatesAfter
  <2> HIDE DEF d
  <2>3. QED
    BY <1>1, <2>1, <2>2 DEF GoesOn, StateOf
<1>4. QED
  BY <1>1, <1>2, <1>3 DEF TopicInv

LEMMA DeleteInTopic == RecoveryInv /\ TopicInv /\ DeleteCheckpoint => TopicInv'
<1> SUFFICES ASSUME RecoveryInv, TopicInv, DeleteCheckpoint PROVE TopicInv'
  OBVIOUS
<1>1. /\ UNCHANGED <<log, offset, states, planned, replayFrom, flight_events, delivered,
                     crashes>>
      /\ resets' = resets + 1 /\ resets \in Nat
  BY DEF DeleteCheckpoint, TopicInv
<1>2. Consumed' = Consumed
  BY <1>1 DEF Consumed
<1>3. resets' \in Nat /\ resets' # 0
  BY <1>1
<1>4. TableInTopic(log, Consumed, FALSE, flight_events)
  BY RowForgets DEF TopicInv, TableInTopic
<1>5. TableInTopic(log, Consumed, resets' = 0, flight_events)
  BY <1>3, <1>4
<1>6. QED
  BY <1>1, <1>2, <1>3, <1>5 DEF TopicInv

LEMMA SetReplayFromInTopic == RecoveryInv /\ TopicInv /\ SetReplayFrom => TopicInv'
<1> SUFFICES ASSUME RecoveryInv, TopicInv, SetReplayFrom PROVE TopicInv'
  OBVIOUS
<1>1. /\ UNCHANGED <<log, fresh, offset, states, planned, flight_events, delivered,
                     crashes, resets>>
      /\ \E i \in DOMAIN log : replayFrom' = log[i].ts
  BY DEF SetReplayFrom
<1>2. replayFrom' \in Nat
  BY <1>1, MessagesHaveTs DEF RecoveryInv
<1>3. Consumed' = Consumed
  BY <1>1 DEF Consumed
<1>4. QED
  BY <1>1, <1>2, <1>3 DEF TopicInv

LEMMA StepInTopic ==
  ASSUME RecoveryInv, TopicInv, [Next]_vars
  PROVE  TopicInv'
<1>1. CASE Publish
  BY <1>1, PublishInTopic
<1>2. CASE Start
  BY <1>2, StartInTopic
<1>3. CASE Plan
  BY <1>3, PlanInTopic
<1>4. CASE RunBatch
  BY <1>4 DEF RunBatch, TopicInv, Consumed
<1>5. CASE Sink
  BY <1>5, SinkInTopic
<1>6. CASE Commit
  BY <1>6, CommitInTopic
<1>7. CASE Crash
  <2>1. crashes' \in Nat
    BY <1>7 DEF Crash, TopicInv
  <2>2. QED
    BY <1>7, <2>1 DEF Crash, TopicInv, Consumed, RecoveryInv
<1>8. CASE DeleteCheckpoint
  BY <1>8, DeleteInTopic
<1>9. CASE SetReplayFrom
  BY <1>9, SetReplayFromInTopic
<1>10. CASE UNCHANGED vars
  BY <1>10 DEF vars, TopicInv, Consumed
<1>11. QED
  BY <1>1, <1>2, <1>3, <1>4, <1>5, <1>6, <1>7, <1>8, <1>9, <1>10 DEF Next, Advance

(* The values every variable of the events query holds: above all, every   *)
(* group state Spark stores is a ring of at most RingSize samples with the *)
(* flags of the three detectors, whatever process() was called with.       *)
THEOREM EventsTypes == Spec => []TypeOK
<1>1. RecoveryInv /\ TopicInv => TypeOK
  <2> SUFFICES ASSUME RecoveryInv, TopicInv PROVE TypeOK
    OBVIOUS
  <2>1. \A a \in Aircraft : states[a].samples \subseteq Sample /\ states[a].flags \in Flags
    BY DEF TopicInv, StateOf, Ring
  <2>2. planned # Null => planned.upTo \in offset..Len(log) /\ planned.expired \subseteq Aircraft
    BY DEF RecoveryInv, Planned
  <2>3. QED
    BY <2>1, <2>2 DEF TypeOK, RecoveryInv, TopicInv
<1>2. RecoveryInv /\ TopicInv /\ [Next]_vars => RecoveryInv' /\ TopicInv'
  BY StepRecovers, StepInTopic
<1>3. QED
  BY InitRecovers, InitInTopic, <1>1, <1>2, PTL DEF Spec

(* Whatever crashed, was retried or replayed, a landing in flight_events   *)
(* is one the topic holds: the aircraft airborne when the window started   *)
(* and on the ground later, and, unless a checkpoint was deleted, not      *)
(* before the moment the row gives.                                        *)
THEOREM LandingsAreInTheTopic == Spec => []LandingIsInTheTopic
<1>1. TopicInv => LandingIsInTheTopic
  <2> SUFFICES ASSUME TopicInv,
                      NEW id \in DOMAIN flight_events,
                      flight_events[id].details = "on_ground"
               PROVE  LandingSeen(log, resets = 0, id, flight_events[id])
    BY DEF LandingIsInTheTopic, LandingSeen
  <2>1. RowInTopic(log, Consumed, resets = 0, id, flight_events[id])
    BY DEF TopicInv, TableInTopic
  <2>2. QED
    BY <2>1 DEF RowInTopic
<1>2. RecoveryInv /\ TopicInv /\ [Next]_vars => RecoveryInv' /\ TopicInv'
  BY StepRecovers, StepInTopic
<1>3. QED
  BY InitRecovers, InitInTopic, <1>1, <1>2, PTL DEF Spec

=============================================================================
