----------------------------- MODULE EventsBatch -----------------------------
(***************************************************************************)
(* One micro-batch of the events query: detect_events of                   *)
(* src/streaming/spark_app.py for every aircraft, the whole of process()   *)
(* under it, and the upsert of src/streaming/sinks/pg.py into the table    *)
(* flight_events.                                                          *)
(*                                                                         *)
(* flight_events is a function from event ids to rows; a row's details is  *)
(* the confirmation.  The group state of an aircraft is its ring and       *)
(* flags, the empty ring when Spark stores none.                           *)
(***************************************************************************)
EXTENDS EngineCall, Sequences

CONSTANTS
    Aircraft,       \* the icao24 keys
    NoPosition      \* the report of a message without a position

Message == [icao24 : Aircraft, ts : Nat, report : Profiles \cup {NoPosition}]

NoState  == [samples |-> {}, flags |-> NoFlags]
NoStates == [a \in Aircraft |-> NoState]

(* What one more sample makes of a running call, as a set of one.  An id   *)
(* is returned once a call; a detector that raises takes the call down.    *)
Applied(done, s) ==
    IF done.raised \/ Raises(done.samples, done.flags, s)
    THEN {[done EXCEPT !.raised = TRUE]}
    ELSE {[samples |-> turn.samples, flags |-> turn.flags, raised |-> FALSE,
           events |-> done.events \cup
               {e \in turn.lost \cup turn.found :
                   EventId(e) \notin {EventId(d) : d \in done.events}}] :
              turn \in {Iterate(done.samples, done.flags, s)}}

(* The samples applied one after the other, as the set of the one outcome. *)
Turns(state, samples) ==
    LET after[n \in 0..Len(samples)] ==
            IF n = 0
            THEN {[samples |-> state.samples, flags |-> state.flags,
                   events |-> {}, raised |-> FALSE]}
            ELSE UNION {Applied(done, samples[n]) : done \in after[n - 1]}
    IN  after[Len(samples)]

(* The messages at these offsets, in ts order (a stable sort).             *)
InTsOrder(batch, offsets) ==
    LET before(i) == {j \in offsets : \/ batch[j].ts < batch[i].ts
                                      \/ batch[j].ts = batch[i].ts /\ j < i}
    IN  [n \in 1..Cardinality(offsets) |->
            batch[CHOOSE i \in offsets : Cardinality(before(i)) = n - 1]]

(* process(): from_message drops what has no position.                     *)
Process(state, batch, offsets) ==
    LET incoming == InTsOrder(batch, {i \in offsets : batch[i].report # NoPosition})
        samples  == [n \in DOMAIN incoming |-> FromMessage(incoming[n].ts, incoming[n].report)]
    IN  CHOOSE done \in Turns(state, samples) : TRUE

-----------------------------------------------------------------------------
(* Bug forms, for the mutation runs.                                       *)
MessagesOfAll(a, batch) == DOMAIN batch
-----------------------------------------------------------------------------

(* groupBy("icao24"), as offsets.                                          *)
MessagesOf(a, batch) == {i \in DOMAIN batch : batch[i].icao24 = a}

(* detect_events for one aircraft: a group with messages is called with    *)
(* them; a timed out one without any is closed and its state removed.      *)
DetectEvents(state, batch, messages, timedOut) ==
    IF messages # {} THEN Process(state, batch, messages)
    ELSE IF timedOut /\ state.samples # {}
    THEN [samples |-> {}, flags |-> NoFlags, raised |-> FALSE,
          events |-> TimeoutEvents(state.samples, state.flags)]
    ELSE [samples |-> state.samples, flags |-> state.flags, raised |-> FALSE, events |-> {}]

Detected(a, states, batch, expired) ==
    DetectEvents(states[a], batch, MessagesOf(a, batch), a \in expired)

(* state.update or state.remove.                                           *)
StatesAfter(states, batch, expired) ==
    [a \in Aircraft |->
        LET detected == Detected(a, states, batch, expired)
        IN  [samples |-> detected.samples, flags |-> detected.flags]]

BatchRaises(states, batch, expired) ==
    \E a \in Aircraft : Detected(a, states, batch, expired).raised

Row(e) == [airport |-> e.airport, event_ts |-> e.event_ts,
           duration_s |-> e.duration_s, details |-> e.confirmation]

(* The rows of the batch: what the sink collects.                          *)
RowsOf(states, batch, expired) ==
    LET foundBy(a) == Detected(a, states, batch, expired).events
        ids(a)     == {<<a, EventId(e)>> : e \in foundBy(a)}
    IN  [id \in UNION {ids(a) : a \in Aircraft} |->
            Row(CHOOSE e \in foundBy(id[1]) : EventId(e) = id[2])]

(* upsert_flight_events: ON CONFLICT (event_id) only these two columns.    *)
Upsert(table, rows) ==
    [id \in DOMAIN table \cup DOMAIN rows |->
        IF id \notin DOMAIN table THEN rows[id]
        ELSE IF id \in DOMAIN rows
        THEN [table[id] EXCEPT !.duration_s = rows[id].duration_s, !.details = rows[id].details]
        ELSE table[id]]

=============================================================================
