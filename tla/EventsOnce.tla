----------------------------- MODULE EventsOnce -----------------------------
(***************************************************************************)
(* What the events query promises: from where a checkpoint begins, every   *)
(* message of the topic is detected exactly once, in topic order, and what *)
(* was detected is in the table exactly as if nothing had ever crashed.    *)
(* Only a deleted checkpoint begins again, anywhere and with no states.    *)
(*                                                                         *)
(* A batch is consumed, the group states advanced and the table written in *)
(* one step.  What a batch does is left to the parameters.                 *)
(***************************************************************************)
EXTENDS Naturals, Sequences

CONSTANTS
    Aircraft, Message, NoStates,
    StatesAfter(_, _, _), RowsOf(_, _, _), Upsert(_, _)

VARIABLES
    log,        \* the topic
    consumed,   \* how many of its messages were detected
    states,     \* the group states
    table,      \* the rows written
    fresh       \* there is no checkpoint to go on from

vars == <<log, consumed, states, table, fresh>>

Init == log = <<>> /\ consumed = 0 /\ states = NoStates /\ table = <<>> /\ fresh = TRUE

Begin ==
    /\ fresh /\ fresh' = FALSE
    /\ consumed' \in 0..Len(log) /\ states' = NoStates
    /\ UNCHANGED <<log, table>>

LoseCheckpoint == ~fresh /\ fresh' = TRUE /\ UNCHANGED <<log, consumed, states, table>>

Publish ==
    /\ Len(log') = Len(log) + 1 /\ log = SubSeq(log', 1, Len(log))
    /\ log'[Len(log')] \in Message
    /\ UNCHANGED <<consumed, states, table, fresh>>

Consume ==
    /\ ~fresh
    /\ \E n \in consumed..Len(log), expired \in SUBSET Aircraft :
          LET batch == SubSeq(log, consumed + 1, n) IN
          /\ n > consumed \/ expired # {}
          /\ consumed' = n
          /\ states' = StatesAfter(states, batch, expired)
          /\ table' = Upsert(table, RowsOf(states, batch, expired))
    /\ UNCHANGED <<log, fresh>>

Next == Begin \/ LoseCheckpoint \/ Publish \/ Consume

Spec == Init /\ [][Next]_vars

=============================================================================
