------------------------ MODULE DetectorEngineProofs ------------------------
(***************************************************************************)
(* Proofs about the detector engine, for every feed, batching and value of *)
(* the constants.                                                          *)
(***************************************************************************)
EXTENDS DetectorEngine, EngineCallProofs

-----------------------------------------------------------------------------
(* The engine's types.  The ring's samples are no newer than the feed,     *)
(* which is what gives every ring a newest sample.                         *)
TypeInv == TypeOK /\ Ring(samples, newestTs)

LEMMA IncomingType == Incoming \subseteq Sample
BY ProfilesAssumption, EngineAssumption DEF Incoming, FromMessage, Sample, Profile

(* The ring and the flags that a sample finds are those of the state, or   *)
(* empty after a gap.                                                      *)
LEMMA StateBeforeSample ==
  ASSUME TypeInv, NEW s \in Sample, NEW b \in Nat, newestTs <= b, s.ts <= b
  PROVE  /\ Ring(samples, b)
         /\ Ring(RingAfter(samples, s), b) /\ RingAfter(samples, s) # {}
         /\ FlagsBefore(samples, flags, s) \in Flags
<1>1. Ring(samples, b)
  <2>1. \A r \in samples : r.ts \in Nat
    BY DEF TypeInv, Ring, Sample
  <2>2. QED
    BY <2>1 DEF TypeInv, TypeOK, Ring
<1>2. Ring({}, b)
  BY EmptyRing
<1>3. Ring(RingAfter(samples, s), b) /\ RingAfter(samples, s) # {}
  BY <1>1, <1>2, RingWithKeepsRing DEF RingAfter
<1>4. NoFlags \in Flags
  BY DEF NoFlags, NoArrivals, NoGoArounds, Flags, Hold
<1>5. QED
  BY <1>1, <1>3, <1>4 DEF FlagsBefore, TypeInv, TypeOK

(* What a sample does to the state is one iteration of the loop.           *)
LEMMA ApplySampleIterates ==
  ASSUME NEW s, ApplySample(s)
  PROVE  LET turn == Iterate(samples, flags, s) IN
         /\ samples' = turn.samples
         /\ flags' = turn.flags
         /\ Emit(About(contact, turn.lost) \cup About(contact', turn.found))
BY DEF ApplySample

LEMMA AboutTypes ==
  ASSUME NEW c \in Nat, NEW found \in SUBSET Event
  PROVE  About(c, found) \subseteq [contact : Nat, event : Event]
BY DEF About

LEMMA TimeoutEventsType ==
  ASSUME TypeInv, samples # {}
  PROVE  TimeoutEvents(samples, flags) \subseteq Event
<1>1. newestTs \in Nat /\ flags \in Flags /\ Ring(samples, newestTs)
  BY DEF TypeInv, TypeOK
<1>2. ArrivalOnTimeout(samples, flags.arrival) \subseteq Event
  BY <1>1, ArrivalTypes DEF Flags, Marks
<1>3. HoldingOnTimeout(samples, flags.hold) \subseteq Event
  BY <1>1, HoldingTypes DEF Flags
<1>4. QED
  BY <1>2, <1>3 DEF TimeoutEvents

LEMMA EmitTypes ==
  ASSUME TypeInv, NEW found, found \subseteq [contact : Nat, event : Event], Emit(found)
  PROVE  /\ events' \subseteq [contact : Nat, event : Event]
         /\ dropped' \subseteq [contact : Nat, event : Event]
         /\ emitted' \subseteq {"arrival", "go_around", "holding"} \X Nat
<1>1. \A f \in found : EventId(f.event) \in {"arrival", "go_around", "holding"} \X Nat
  BY DEF EventId, Event
<1>2. QED
  BY <1>1 DEF Emit, TypeInv, TypeOK

LEMMA ApplySampleKeepsTypes ==
  ASSUME TypeInv, NEW s \in Sample, ApplySample(s)
  PROVE  TypeInv'
<1> DEFINE ring   == RingAfter(samples, s)
           before == FlagsBefore(samples, flags, s)
           arr    == ArrivalCheck(ring, before.arrival)
           hold   == HoldingCheck(ring, before.hold)
           ga     == GoAroundCheck(ring, before.goAround)
           lost   == IF GapBefore(samples, s) THEN TimeoutEvents(samples, flags) ELSE {}
           found  == About(contact, lost) \cup About(contact', arr.found \cup hold.found \cup ga.found)
<1>1. s.ts \in Nat /\ newestTs \in Nat /\ contact \in Nat
  BY DEF Sample, TypeInv, TypeOK
<1>2. newestTs' \in Nat /\ newestTs <= newestTs' /\ s.ts <= newestTs' /\ contact' \in Nat
  BY <1>1 DEF ApplySample
<1>3. Ring(ring, newestTs') /\ ring # {} /\ before \in Flags
  BY <1>2, StateBeforeSample
<1> HIDE DEF ring, before
<1>4. arr \in [found : SUBSET Event, marks : Marks]
  BY <1>2, <1>3, ArrivalTypes DEF Flags, Marks
<1>5. hold \in [found : SUBSET Event, hold : Hold]
  BY <1>2, <1>3, HoldingTypes DEF Flags
<1>6. ga \in [found : SUBSET Event, marks : Marks]
  BY <1>2, <1>3, GoAroundTypes DEF Flags, Marks
<1>7. lost \subseteq Event
  BY TimeoutEventsType DEF GapBefore
<1> HIDE DEF arr, hold, ga, lost
<1>8. found \subseteq [contact : Nat, event : Event]
  BY <1>1, <1>2, <1>4, <1>5, <1>6, <1>7, AboutTypes
<1> HIDE DEF found
<1>9. Emit(found)
  <2>1. /\ Iterate(samples, flags, s).lost = lost
        /\ Iterate(samples, flags, s).found = arr.found \cup hold.found \cup ga.found
    BY DEF Iterate, lost, arr, hold, ga, ring, before
  <2>2. QED
    BY <2>1, ApplySampleIterates DEF found
<1>10. /\ events' \subseteq [contact : Nat, event : Event]
       /\ dropped' \subseteq [contact : Nat, event : Event]
       /\ emitted' \subseteq {"arrival", "go_around", "holding"} \X Nat
  BY <1>8, <1>9, EmitTypes
<1>11. samples' = ring /\ flags' = [arrival |-> arr.marks, goAround |-> ga.marks, hold |-> hold.hold]
  BY DEF ApplySample, Iterate, arr, hold, ga, ring, before
<1>12. flags' \in Flags
  BY <1>4, <1>5, <1>6, <1>11 DEF Flags, Marks
<1>13. call' \in {"idle", "busy", "raised"} /\ applied' \in Nat
  BY <1>1 DEF ApplySample
<1>14. heard' \subseteq [contact : Nat, sample : Sample]
  BY <1>2 DEF ApplySample, Iterate, TypeInv, TypeOK
<1>15. samples' \subseteq Sample /\ IsFiniteSet(samples') /\ Ring(samples', newestTs')
  BY <1>3, <1>11 DEF Ring
<1>16. TypeOK'
  BY <1>2, <1>10, <1>12, <1>13, <1>14, <1>15 DEF TypeOK
<1>17. QED
  BY <1>15, <1>16 DEF TypeInv, Ring

LEMMA TimeoutKeepsTypes ==
  ASSUME TypeInv, Timeout
  PROVE  TypeInv'
<1>1. samples' = {} /\ flags' \in Flags
  BY DEF Timeout, NoFlags, NoArrivals, NoGoArounds, Flags, Hold
<1>2. contact \in Nat /\ contact' \in Nat
  BY DEF Timeout, TypeInv, TypeOK
<1>3. events' \subseteq [contact : Nat, event : Event]
  <2>1. About(contact, TimeoutEvents(samples, flags)) \subseteq [contact : Nat, event : Event]
    BY <1>2, TimeoutEventsType, AboutTypes DEF Timeout
  <2>2. QED
    BY <2>1 DEF Timeout, TypeInv, TypeOK
<1>4. Ring({}, newestTs)
  BY EmptyRing DEF TypeInv, TypeOK
<1>5. QED
  BY <1>1, <1>2, <1>3, <1>4, FS_EmptySet DEF Timeout, TypeInv, TypeOK, Ring

(* Type correctness of the engine: whatever is delivered and however it is *)
(* batched, the ring, the flags and the events keep their shape, and the   *)
(* ring is never newer than the feed.                                      *)
THEOREM EngineTypes == Spec => [](TypeOK /\ Ring(samples, newestTs))
<1>1. Init => TypeInv
  <2>1. Ring({}, 0)
    BY EmptyRing
  <2>2. NoFlags \in Flags
    BY DEF NoFlags, NoArrivals, NoGoArounds, Flags, Hold
  <2>3. QED
    BY <2>1, <2>2, FS_EmptySet DEF Init, TypeInv, TypeOK
<1>2. TypeInv /\ [Next]_vars => TypeInv'
  <2> SUFFICES ASSUME TypeInv, [Next]_vars
               PROVE  TypeInv'
    OBVIOUS
  <2>1. CASE \E s \in Incoming : ApplySample(s)
    BY <2>1, IncomingType, ApplySampleKeepsTypes
  <2>2. CASE \E s \in Incoming : RaiseOnSample(s)
    BY <2>2 DEF RaiseOnSample, historyVars, TypeInv, TypeOK, Ring
  <2>3. CASE Return
    BY <2>3 DEF Return, historyVars, TypeInv, TypeOK, Ring
  <2>4. CASE Timeout
    BY <2>4, TimeoutKeepsTypes
  <2>5. CASE UNCHANGED vars
    BY <2>5 DEF vars, engineVars, historyVars, TypeInv, TypeOK, Ring
  <2>6. QED
    BY <2>1, <2>2, <2>3, <2>4, <2>5 DEF Next, NothingToDo
<1>3. QED
  BY <1>1, <1>2, PTL DEF Spec, TypeInv

-----------------------------------------------------------------------------
(* A sample that Spec delivers is at most LateBy older than the newest, so *)
(* while LateBy does not exceed GAP_RESET_S nothing can break the ring.    *)
LEMMA ApplySampleKeepsContact ==
  ASSUME LateBy <= GapResetS, TypeInv, Contiguous(samples),
         NEW s \in Sample, ApplySample(s)
  PROVE  Contiguous(samples')
<1> DEFINE R == IF GapBefore(samples, s) THEN {} ELSE samples
<1>1. s.ts \in Nat /\ newestTs \in Nat /\ LateBy \in Nat /\ GapResetS \in Nat
  BY EngineAssumption, GapAssumption DEF Sample, TypeInv, TypeOK
<1>2. newestTs' \in Nat /\ newestTs <= newestTs' /\ s.ts <= newestTs'
  BY <1>1 DEF ApplySample
<1>3. Ring(R, newestTs')
  BY <1>2, StateBeforeSample, EmptyRing
<1>4. Contiguous(R)
  BY DEF Contiguous
<1>5. R # {} => /\ s.ts <= Newest(R).ts + GapResetS
                /\ Newest(R).ts <= s.ts + GapResetS
  <2> SUFFICES ASSUME samples # {}, ~GapBefore(samples, s)
               PROVE  /\ s.ts <= Newest(samples).ts + GapResetS
                      /\ Newest(samples).ts <= s.ts + GapResetS
    OBVIOUS
  <2>1. Newest(samples).ts \in Nat /\ Newest(samples).ts <= newestTs
    BY <1>1, PartOfRing DEF TypeInv, Ring, Sample
  <2>2. s.ts + LateBy >= newestTs
    BY DEF ApplySample, Iterate, Deliverable
  <2>3. s.ts - Newest(samples).ts <= GapResetS
    BY <1>1, <2>1 DEF GapBefore
  <2>4. QED
    BY <1>1, <2>1, <2>2, <2>3
<1>6. samples' = RingWith(R, s)
  BY DEF ApplySample, Iterate, RingAfter
<1> HIDE DEF R
<1>7. QED
  BY <1>2, <1>3, <1>4, <1>5, <1>6, RingWithKeepsContact

(* The ring is always one unbroken contact, as long as no sample comes     *)
(* later than GAP_RESET_S: the run checks one feed, this every feed.       *)
THEOREM RingIsAlwaysOneContact ==
  ASSUME LateBy <= GapResetS
  PROVE  Spec => []RingIsOneContact
<1> DEFINE CInv == TypeInv /\ Contiguous(samples)
<1>1. Init => Contiguous(samples)
  BY DEF Init, Contiguous
<1>2. CInv /\ TypeInv' /\ [Next]_vars => CInv'
  <2> SUFFICES ASSUME TypeInv, Contiguous(samples), [Next]_vars
               PROVE  Contiguous(samples')
    BY DEF Contiguous
  <2>1. CASE \E s \in Incoming : ApplySample(s)
    BY <2>1, IncomingType, ApplySampleKeepsContact
  <2>2. CASE Timeout
    BY <2>2 DEF Timeout, Contiguous
  <2>3. CASE UNCHANGED samples
    BY <2>3 DEF Contiguous
  <2>4. QED
    BY <2>1, <2>2, <2>3 DEF Next, RaiseOnSample, Return, NothingToDo, vars, engineVars
<1>3. CInv => RingIsOneContact
  BY DEF TypeInv, Ring, Contiguous, RingIsOneContact
<1>4. Spec => []TypeInv
  BY EngineTypes, PTL DEF TypeInv
<1>5. QED
  BY <1>1, <1>2, <1>3, <1>4, PTL DEF Spec

-----------------------------------------------------------------------------
(* Spacing of arrivals.  The marks are what the detector remembers; the    *)
(* invariant is that they cover the arrivals of the current contact.       *)

IsArrival(e) == e.event.event_type = "arrival"

Spaced(F) ==
    \A a, b \in F :
        /\ IsArrival(a) /\ IsArrival(b)
        /\ a.contact = b.contact /\ a # b
        /\ a.event.airport = b.event.airport
        => \/ a.event.event_ts + ArrivalDedupeS <= b.event.event_ts
           \/ b.event.event_ts + ArrivalDedupeS <= a.event.event_ts

Covers(marks, c, F) ==
    \A e \in F : IsArrival(e) /\ e.contact = c =>
        /\ marks[e.event.airport] # Null
        /\ e.event.event_ts <= marks[e.event.airport]

(* At most one arrival, and that one clear of the marks.                   *)
ClearOf(marks, found) ==
    /\ \A f \in found : f.event_type = "arrival" /\ marks[f.airport] # Null =>
          marks[f.airport] + ArrivalDedupeS <= f.event_ts
    /\ \A f, g \in found : f.event_type = "arrival" /\ g.event_type = "arrival" => f = g

(* The marks left after a check: the old ones, with the arrival's.         *)
Marked(marks, found, left) ==
    \A a \in Airports :
        \/ left[a] = marks[a] /\ \A f \in found : f.event_type = "arrival" => f.airport # a
        \/ /\ left[a] # Null
           /\ \A f \in found : f.event_type = "arrival" /\ f.airport = a => left[a] = f.event_ts
           /\ marks[a] # Null => marks[a] <= left[a]

LEMMA ConfirmIsClear ==
  ASSUME NEW R, NEW b \in Nat, Ring(R, b), R # {}, NEW marks \in Marks,
         NEW how, NEW fallback
  PROVE  LET c == Confirm(R, marks, how, fallback) IN
         ClearOf(marks, c.found) /\ Marked(marks, c.found, c.marks)
<1> DEFINE last    == Newest(R)
           airport == NearestAirport(last.pos)
<1>1. last \in Sample
  BY PartOfRing
<1>2. airport \in Airports /\ last.ts \in Nat /\ ArrivalDedupeS \in Nat
  BY <1>1, NearestAirportIsOne, ArrivalAssumption DEF Sample
<1> HIDE DEF last, airport
<1>3. CASE Deduped(marks, airport, last.ts)
  BY <1>3 DEF Confirm, ClearOf, Marked, last, airport
<1>4. CASE ~Deduped(marks, airport, last.ts)
  <2>1. marks[airport] # Null => marks[airport] + ArrivalDedupeS <= last.ts
    BY <1>2, <1>4 DEF Deduped, Marks
  <2> DEFINE f == ArrivalAt(airport, how, last.ts, WindowStart(R, fallback))
  <2>2. /\ Confirm(R, marks, how, fallback) =
             [found |-> {f}, marks |-> [marks EXCEPT ![airport] = last.ts]]
        /\ f.airport = airport /\ f.event_ts = last.ts
    BY <1>4 DEF Confirm, ArrivalAt, last, airport
  <2> HIDE DEF f
  <2>3. ClearOf(marks, {f})
    BY <2>1, <2>2 DEF ClearOf
  <2>4. Marked(marks, {f}, [marks EXCEPT ![airport] = last.ts])
    BY <1>2, <2>1, <2>2, NullAssumption DEF Marked, Marks
  <2>5. QED
    BY <2>2, <2>3, <2>4
<1>5. QED
  BY <1>3, <1>4
LEMMA ArrivalIsClear ==
  ASSUME NEW R, NEW b \in Nat, Ring(R, b), NEW marks \in Marks
  PROVE  LET c == ArrivalCheck(R, marks) IN
         /\ ClearOf(marks, c.found) /\ Marked(marks, c.found, c.marks)
         /\ ClearOf(marks, ArrivalOnTimeout(R, marks))
<1>1. ClearOf(marks, {}) /\ Marked(marks, {}, marks)
  BY DEF ClearOf, Marked
<1>2. TouchedDown(R) \/ LostOnFinal(R) => R # {}
  BY FS_EmptySet DEF TouchedDown, LostOnFinal
<1>3. QED
  BY <1>1, <1>2, ConfirmIsClear DEF ArrivalCheck, ArrivalOnTimeout

(* Arrivals clear of marks that cover what was found stay spaced from it.  *)
LEMMA ClearArrivalsAreSpaced ==
  ASSUME NEW F, F \subseteq [contact : Nat, event : Event],
         NEW found \in SUBSET Event, NEW c \in Nat, NEW marks \in Marks,
         Spaced(F), Covers(marks, c, F), ClearOf(marks, found)
  PROVE  Spaced(F \cup About(c, found))
<1>1. ASSUME NEW a \in F, NEW b \in About(c, found), IsArrival(a), IsArrival(b),
             a.contact = b.contact, a.event.airport = b.event.airport
      PROVE  a.event.event_ts + ArrivalDedupeS <= b.event.event_ts
  <2>1. b.contact = c /\ b.event \in found /\ b.event.event_type = "arrival"
    BY <1>1 DEF About, IsArrival
  <2>2. marks[a.event.airport] # Null /\ a.event.event_ts <= marks[a.event.airport]
    BY <1>1, <2>1 DEF Covers
  <2>3. marks[a.event.airport] + ArrivalDedupeS <= b.event.event_ts
    BY <1>1, <2>1, <2>2 DEF ClearOf
  <2>4. /\ a.event.event_ts \in Nat /\ b.event.event_ts \in Nat
        /\ marks[a.event.airport] \in Nat /\ ArrivalDedupeS \in Nat
    BY <1>1, <2>1, <2>2, ArrivalAssumption DEF Event, Marks
  <2>5. QED
    BY <2>2, <2>3, <2>4
<1>2. ASSUME NEW a \in About(c, found), NEW b \in About(c, found), IsArrival(a), IsArrival(b)
      PROVE  a = b
  BY <1>2 DEF About, ClearOf, IsArrival
<1>3. QED
  BY <1>1, <1>2 DEF Spaced

(* Once marked, the new arrivals are covered too.                          *)
LEMMA MarkedArrivalsAreCovered ==
  ASSUME NEW F, F \subseteq [contact : Nat, event : Event],
         NEW found \in SUBSET Event, NEW c \in Nat,
         NEW marks \in Marks, NEW left \in Marks,
         Covers(marks, c, F), Marked(marks, found, left)
  PROVE  Covers(left, c, F \cup About(c, found))
<1>1. ASSUME NEW e \in F, IsArrival(e), e.contact = c
      PROVE  left[e.event.airport] # Null /\ e.event.event_ts <= left[e.event.airport]
  <2>1. e.event.airport \in Airports /\ e.event.event_ts \in Nat
    BY <1>1 DEF Event
  <2>2. marks[e.event.airport] # Null /\ e.event.event_ts <= marks[e.event.airport]
    BY <1>1 DEF Covers
  <2>3. left[e.event.airport] # Null /\ marks[e.event.airport] <= left[e.event.airport]
    BY <2>1, <2>2 DEF Marked, Marks
  <2>4. marks[e.event.airport] \in Nat /\ left[e.event.airport] \in Nat
    BY <2>1, <2>2, <2>3 DEF Marks
  <2>5. QED
    BY <2>1, <2>2, <2>3, <2>4
<1>2. ASSUME NEW e \in About(c, found), IsArrival(e)
      PROVE  left[e.event.airport] # Null /\ e.event.event_ts <= left[e.event.airport]
  <2>1. e.event \in found /\ e.event.event_type = "arrival"
    BY <1>2 DEF About, IsArrival
  <2>2. e.event.airport \in Airports /\ e.event.event_ts \in Nat
    BY <2>1 DEF Event
  <2>3. left[e.event.airport] # Null /\ left[e.event.airport] = e.event.event_ts
    BY <2>1, <2>2 DEF Marked
  <2>4. QED
    BY <2>2, <2>3
<1>3. QED
  BY <1>1, <1>2 DEF Covers

LEMMA TimeoutIsClear ==
  ASSUME TypeInv
  PROVE  ClearOf(flags.arrival, TimeoutEvents(samples, flags))
<1>1. ClearOf(flags.arrival, ArrivalOnTimeout(samples, flags.arrival))
  BY ArrivalIsClear DEF TypeInv, TypeOK, Flags, Marks
<1>2. QED
  BY <1>1, OnlyArrivalsArrive DEF ClearOf, TimeoutEvents

SpacedInv ==
    /\ Spaced(Found)
    /\ Covers(flags.arrival, contact, Found)
    /\ \A e \in Found : e.contact <= contact

LEMMA ApplySampleKeepsSpacing ==
  ASSUME TypeInv, SpacedInv, NEW s \in Sample, ApplySample(s)
  PROVE  SpacedInv'
<1> DEFINE ring   == RingAfter(samples, s)
           before == FlagsBefore(samples, flags, s)
           arr    == ArrivalCheck(ring, before.arrival)
           hold   == HoldingCheck(ring, before.hold)
           ga     == GoAroundCheck(ring, before.goAround)
           lost   == IF GapBefore(samples, s) THEN TimeoutEvents(samples, flags) ELSE {}
           new    == arr.found \cup hold.found \cup ga.found
           F      == Found \cup About(contact, lost)
<1>1. s.ts \in Nat /\ newestTs \in Nat /\ contact \in Nat /\ flags \in Flags
  BY DEF Sample, TypeInv, TypeOK
<1>2. newestTs' \in Nat /\ newestTs <= newestTs' /\ s.ts <= newestTs' /\ contact' \in Nat
  BY <1>1 DEF ApplySample
<1>3. Ring(ring, newestTs') /\ ring # {} /\ before \in Flags
  BY <1>2, StateBeforeSample
<1>4. lost \subseteq Event /\ ClearOf(flags.arrival, lost)
  <2>1. ClearOf(flags.arrival, {})
    BY DEF ClearOf
  <2>2. QED
    BY <2>1, TimeoutEventsType, TimeoutIsClear DEF GapBefore
<1>5. GapBefore(samples, s) => contact' = contact + 1 /\ before.arrival = NoArrivals
  BY DEF ApplySample, Iterate, FlagsBefore, NoFlags
<1>6. ~GapBefore(samples, s) => contact' = contact /\ before.arrival = flags.arrival /\ lost = {}
  BY DEF ApplySample, Iterate, FlagsBefore
<1>7. before.arrival \in Marks /\ flags.arrival \in Marks
  BY <1>1, <1>3 DEF Flags, Marks
<1> HIDE DEF ring, before
<1>8. new \subseteq Event /\ arr.marks \in Marks
  <2>1. arr \in [found : SUBSET Event, marks : Marks]
    BY <1>2, <1>3, <1>7, ArrivalTypes
  <2>2. hold.found \subseteq Event
    BY <1>2, <1>3, HoldingTypes DEF Flags
  <2>3. ga.found \subseteq Event
    BY <1>2, <1>3, GoAroundTypes DEF Flags, Marks
  <2> HIDE DEF arr, hold, ga
  <2>4. QED
    BY <2>1, <2>2, <2>3
<1>9. ClearOf(before.arrival, new) /\ Marked(before.arrival, new, arr.marks)
  <2>1. ClearOf(before.arrival, arr.found) /\ Marked(before.arrival, arr.found, arr.marks)
    BY <1>2, <1>3, <1>7, ArrivalIsClear
  <2>2. \A f \in hold.found \cup ga.found : f.event_type # "arrival"
    BY OnlyArrivalsArrive
  <2> HIDE DEF arr, hold, ga
  <2>3. QED
    BY <2>1, <2>2 DEF ClearOf, Marked
<1>10. Found' = F \cup About(contact', new) /\ flags'.arrival = arr.marks
  <2>1. Emit(About(contact, lost) \cup About(contact', new))
    BY DEF ApplySample, Iterate, ring, before
  <2> HIDE DEF lost, new
  <2>2. Found' = Found \cup About(contact, lost) \cup About(contact', new)
    BY <2>1 DEF Emit, Found
  <2>3. flags'.arrival = arr.marks
    BY DEF ApplySample, Iterate, ring, before
  <2>4. QED
    BY <2>2, <2>3
<1> HIDE DEF lost, new, arr, hold, ga
<1>11. Found \subseteq [contact : Nat, event : Event]
  BY DEF Found, TypeInv, TypeOK
<1>12. F \subseteq [contact : Nat, event : Event] /\ \A e \in F : e.contact <= contact
  <2>1. \A e \in About(contact, lost) : e.contact <= contact
    BY <1>1 DEF About
  <2>2. QED
    BY <1>1, <1>4, <1>11, <2>1, AboutTypes DEF SpacedInv
<1>13. Spaced(F)
  BY <1>1, <1>4, <1>7, <1>11, ClearArrivalsAreSpaced DEF SpacedInv
<1>14. Covers(before.arrival, contact', F)
  <2>1. CASE GapBefore(samples, s)
    <3>1. \A e \in F : e.contact # contact'
      BY <1>1, <1>5, <1>12, <2>1
    <3>2. QED
      BY <3>1 DEF Covers
  <2>2. CASE ~GapBefore(samples, s)
    <3>1. F = Found
      BY <1>6, <2>2 DEF About
    <3>2. QED
      BY <1>6, <2>2, <3>1 DEF SpacedInv
  <2>3. QED
    BY <2>1, <2>2
<1>15. \A e \in F \cup About(contact', new) : e.contact <= contact'
  <2>1. contact <= contact'
    BY <1>1, <1>5, <1>6
  <2>2. \A e \in F : e.contact \in Nat
    BY <1>12
  <2>3. QED
    BY <1>1, <1>2, <1>12, <2>1, <2>2 DEF About
<1> HIDE DEF F
<1>16. Spaced(F \cup About(contact', new))
  BY <1>2, <1>7, <1>8, <1>9, <1>12, <1>13, <1>14, ClearArrivalsAreSpaced
<1>17. Covers(arr.marks, contact', F \cup About(contact', new))
  BY <1>2, <1>7, <1>8, <1>9, <1>12, <1>14, MarkedArrivalsAreCovered
<1>18. QED
  BY <1>10, <1>15, <1>16, <1>17 DEF SpacedInv, Spaced, Covers

LEMMA TimeoutKeepsSpacing ==
  ASSUME TypeInv, SpacedInv, Timeout
  PROVE  SpacedInv'
<1> DEFINE lost == TimeoutEvents(samples, flags)
<1>1. contact \in Nat /\ flags.arrival \in Marks
  BY DEF TypeInv, TypeOK, Flags, Marks
<1>2. Found \subseteq [contact : Nat, event : Event]
  BY DEF Found, TypeInv, TypeOK
<1>3. lost \in SUBSET Event /\ ClearOf(flags.arrival, lost)
  BY TimeoutEventsType, TimeoutIsClear DEF Timeout
<1>4. Found' = Found \cup About(contact, lost) /\ contact' = contact + 1
  BY DEF Found, Timeout
<1> HIDE DEF lost
<1>5. Spaced(Found \cup About(contact, lost))
  BY <1>1, <1>2, <1>3, ClearArrivalsAreSpaced DEF SpacedInv
<1>6. \A e \in Found \cup About(contact, lost) : e.contact \in Nat /\ e.contact <= contact
  BY <1>1, <1>2 DEF About, SpacedInv
<1>7. \A e \in Found' : e.contact <= contact' /\ e.contact # contact'
  BY <1>1, <1>4, <1>6
<1>8. QED
  BY <1>4, <1>5, <1>7 DEF SpacedInv, Spaced, Covers

(* Within a contact, arrivals at a field stay DEDUPE_S apart, on every     *)
(* feed, in order or late, and for every batching.                         *)
THEOREM ArrivalsAlwaysSpaced == Spec => []ArrivalsSpaced
<1>1. Init => SpacedInv
  BY DEF Init, SpacedInv, Spaced, Covers, Found
<1>2. TypeInv /\ SpacedInv /\ [Next]_vars => SpacedInv'
  <2> SUFFICES ASSUME TypeInv, SpacedInv, [Next]_vars
               PROVE  SpacedInv'
    OBVIOUS
  <2>1. CASE \E s \in Incoming : ApplySample(s)
    BY <2>1, IncomingType, ApplySampleKeepsSpacing
  <2>2. CASE Timeout
    BY <2>2, TimeoutKeepsSpacing
  <2>3. CASE UNCHANGED <<flags, contact, events, dropped>>
    BY <2>3 DEF SpacedInv, Spaced, Covers, Found
  <2>4. QED
    BY <2>1, <2>2, <2>3 DEF Next, RaiseOnSample, Return, NothingToDo, vars, engineVars, historyVars
<1>3. SpacedInv => ArrivalsSpaced
  BY DEF SpacedInv, Spaced, IsArrival, ArrivalsSpaced, Arrivals
<1>4. Spec => []TypeInv
  BY EngineTypes, PTL DEF TypeInv
<1>5. QED
  BY <1>1, <1>2, <1>3, <1>4, PTL DEF Spec

-----------------------------------------------------------------------------
(* The open hold: recent while it is open, reported when it closes.        *)

HoldInv ==
    flags.hold # Null =>
        /\ samples # {}
        /\ flags.hold.start < flags.hold.lastTurn
        /\ flags.hold.lastTurn <= Newest(samples).ts
        /\ Newest(samples).ts < flags.hold.lastTurn + CloseAfterS

(* Closing a hold that lasted some time reports it.                        *)
LEMMA CloseHoldReports ==
  ASSUME NEW R, NEW hold, hold.lastTurn - hold.start > 0
  PROVE  \E f \in CloseHold(R, hold) : f.event_type = "holding" /\ f.window_start = hold.start
BY DEF CloseHold, HoldingAt

LEMMA HoldingCheckHold ==
  ASSUME NEW R, NEW b \in Nat, Ring(R, b), R # {}, NEW hold \in Hold,
         hold # Null => hold.start < hold.lastTurn /\ hold.lastTurn <= Newest(R).ts
  PROVE  LET c == HoldingCheck(R, hold) IN
         /\ c.hold # Null => /\ c.hold.start < c.hold.lastTurn
                             /\ c.hold.lastTurn <= Newest(R).ts
                             /\ Newest(R).ts < c.hold.lastTurn + CloseAfterS
         /\ hold # Null /\ c.hold = Null => c.found = CloseHold(R, hold)
<1>1. Newest(R).ts \in Nat /\ CloseAfterS \in Nat /\ CloseAfterS > 0
  BY PartOfRing, HoldingAssumption DEF Sample
<1>2. CASE hold = Null
  <2>1. HoldingCheck(R, hold).hold = HoldOpened(R)
    BY <1>2 DEF HoldingCheck
  <2>2. QED
    BY <1>1, <1>2, <2>1, HoldOpenedTypes DEF Hold
<1>3. CASE hold # Null
  <2>1. hold.start \in Nat /\ hold.lastTurn \in Nat /\ hold.start < hold.lastTurn
        /\ hold.lastTurn <= Newest(R).ts /\ hold \in [start : Nat, lastTurn : Nat]
    BY <1>3 DEF Hold
  <2>2. CASE Extends(R)
    <3>1. HoldingCheck(R, hold).hold = [hold EXCEPT !.lastTurn = Newest(R).ts]
      BY <1>3, <2>2 DEF HoldingCheck
    <3>2. [hold EXCEPT !.lastTurn = Newest(R).ts] # Null
      BY <1>1, <2>1, NoHoldAssumption
    <3>3. QED
      BY <1>1, <2>1, <3>1, <3>2
  <2>3. CASE ~Extends(R) /\ ClosedBy(R, hold)
    BY <1>3, <2>3 DEF HoldingCheck
  <2>4. CASE ~Extends(R) /\ ~ClosedBy(R, hold)
    BY <1>1, <1>3, <2>1, <2>4 DEF HoldingCheck, ClosedBy
  <2>5. QED
    BY <2>2, <2>3, <2>4
<1>4. QED
  BY <1>2, <1>3

(* A sample keeps the invariant, and if it closes the hold it reports it.  *)
LEMMA ApplySampleHold ==
  ASSUME TypeInv, HoldInv, NEW s \in Sample, ApplySample(s)
  PROVE  /\ HoldInv'
         /\ flags.hold # Null /\ flags'.hold = Null =>
              \E h \in Holdings' : h.event.window_start = flags.hold.start
<1> DEFINE ring   == RingAfter(samples, s)
           before == FlagsBefore(samples, flags, s)
           c      == HoldingCheck(ring, before.hold)
           arr    == ArrivalCheck(ring, before.arrival)
           ga     == GoAroundCheck(ring, before.goAround)
           lost   == IF GapBefore(samples, s) THEN TimeoutEvents(samples, flags) ELSE {}
           found  == About(contact, lost) \cup About(contact', arr.found \cup c.found \cup ga.found)
<1>1. newestTs' \in Nat /\ s.ts <= newestTs' /\ newestTs <= newestTs' /\ newestTs \in Nat
  BY DEF ApplySample, Iterate, TypeInv, TypeOK, Sample
<1>2. Ring(ring, newestTs') /\ ring # {}
  BY <1>1, StateBeforeSample, EmptyRing, RingWithKeepsRing DEF RingAfter
<1>3. before.hold \in Hold
  BY DEF FlagsBefore, TypeInv, TypeOK, Flags, NoFlags, Hold
<1>4. before.hold # Null => /\ before.hold.start < before.hold.lastTurn
                            /\ before.hold.lastTurn <= Newest(ring).ts
  <2>1. CASE GapBefore(samples, s)
    BY <2>1 DEF FlagsBefore, NoFlags
  <2>2. CASE ~GapBefore(samples, s) /\ flags.hold # Null
    <3>1. flags.hold.start \in Nat /\ flags.hold.lastTurn \in Nat
      BY <2>2 DEF TypeInv, TypeOK, Flags, Hold
    <3>2. Newest(samples) \in samples /\ Newest(samples).ts \in Nat
      BY <1>1, <2>2, PartOfRing DEF HoldInv, TypeInv, Sample
    <3>3. Ring(samples, newestTs')
      BY <1>1, <2>2, StateBeforeSample
    <3>4. Newest(samples).ts <= Newest(ring).ts
      BY <1>1, <2>2, <3>2, <3>3, RingWithKeepsNewest DEF RingAfter
    <3>5. Newest(ring).ts \in Nat
      BY <1>1, <1>2, PartOfRing DEF Sample
    <3>6. QED
      BY <2>2, <3>1, <3>2, <3>4, <3>5 DEF HoldInv, FlagsBefore
  <2>3. QED
    BY <2>1, <2>2 DEF FlagsBefore
<1>5. /\ c.hold # Null => /\ c.hold.start < c.hold.lastTurn
                          /\ c.hold.lastTurn <= Newest(ring).ts
                          /\ Newest(ring).ts < c.hold.lastTurn + CloseAfterS
      /\ before.hold # Null /\ c.hold = Null => c.found = CloseHold(ring, before.hold)
  BY <1>1, <1>2, <1>3, <1>4, HoldingCheckHold
<1>6. samples' = ring /\ flags'.hold = c.hold /\ Emit(found)
  <2>1. /\ Iterate(samples, flags, s).samples = ring
        /\ Iterate(samples, flags, s).flags.hold = c.hold
        /\ Iterate(samples, flags, s).lost = lost
        /\ Iterate(samples, flags, s).found = arr.found \cup c.found \cup ga.found
    BY DEF Iterate
  <2>2. QED
    BY <2>1, ApplySampleIterates
<1> HIDE DEF ring, before, c, arr, ga, found
<1>7. HoldInv'
  BY <1>2, <1>5, <1>6 DEF HoldInv
<1>8. ASSUME flags.hold # Null, flags'.hold = Null
      PROVE  \E h \in Holdings' : h.event.window_start = flags.hold.start
  <2>1. flags.hold.lastTurn - flags.hold.start > 0
    <3>1. flags.hold \in [start : Nat, lastTurn : Nat]
      BY <1>8 DEF TypeInv, TypeOK, Flags, Hold
    <3>2. QED
      BY <1>8, <3>1 DEF HoldInv
  <2>2. \E h \in found : /\ h.event.event_type = "holding"
                         /\ h.event.window_start = flags.hold.start
    <3>1. CASE GapBefore(samples, s)
      <4>1. CloseHold(samples, flags.hold) \subseteq lost
        BY <1>8, <3>1 DEF TimeoutEvents, HoldingOnTimeout
      <4>2. PICK f \in lost : f.event_type = "holding" /\ f.window_start = flags.hold.start
        BY <2>1, <4>1, CloseHoldReports
      <4>3. [contact |-> contact, event |-> f] \in found
        BY <4>2 DEF found, About
      <4>4. QED
        BY <4>2, <4>3
    <3>2. CASE ~GapBefore(samples, s)
      <4>1. c.found = CloseHold(ring, flags.hold)
        BY <1>5, <1>6, <1>8, <3>2 DEF before, FlagsBefore
      <4>2. PICK f \in c.found : f.event_type = "holding" /\ f.window_start = flags.hold.start
        BY <2>1, <4>1, CloseHoldReports
      <4>3. [contact |-> contact', event |-> f] \in found
        BY <4>2 DEF found, About
      <4>4. QED
        BY <4>2, <4>3
    <3>3. QED
      BY <3>1, <3>2
  <2>3. found \subseteq Found'
    BY <1>6 DEF Emit, Found
  <2>4. QED
    BY <2>2, <2>3 DEF Holdings
<1>9. QED
  BY <1>7, <1>8

LEMMA TimeoutHold ==
  ASSUME TypeInv, HoldInv, Timeout
  PROVE  /\ HoldInv'
         /\ flags.hold # Null /\ flags'.hold = Null =>
              \E h \in Holdings' : h.event.window_start = flags.hold.start
<1>1. flags'.hold = Null
  BY DEF Timeout, NoFlags
<1>2. ASSUME flags.hold # Null
      PROVE  \E h \in Holdings' : h.event.window_start = flags.hold.start
  <2>1. flags.hold \in [start : Nat, lastTurn : Nat]
    BY <1>2 DEF TypeInv, TypeOK, Flags, Hold
  <2>2. PICK f \in CloseHold(samples, flags.hold) :
           f.event_type = "holding" /\ f.window_start = flags.hold.start
    BY <1>2, <2>1, CloseHoldReports DEF HoldInv
  <2>3. [contact |-> contact, event |-> f] \in Found'
    BY <1>2, <2>2 DEF Timeout, TimeoutEvents, HoldingOnTimeout, About, Found
  <2>4. QED
    BY <2>2, <2>3 DEF Holdings
<1>3. QED
  BY <1>1, <1>2 DEF HoldInv

LEMMA NextHold ==
  ASSUME TypeInv, HoldInv, [Next]_vars
  PROVE  /\ HoldInv'
         /\ flags.hold # Null /\ flags'.hold = Null =>
              \E h \in Holdings' : h.event.window_start = flags.hold.start
<1>1. CASE \E s \in Incoming : ApplySample(s)
  BY <1>1, IncomingType, ApplySampleHold
<1>2. CASE Timeout
  BY <1>2, TimeoutHold
<1>3. CASE UNCHANGED <<samples, flags>>
  BY <1>3 DEF HoldInv
<1>4. QED
  BY <1>1, <1>2, <1>3
     DEF Next, RaiseOnSample, Return, NothingToDo, vars, engineVars

LEMMA HoldAlways == Spec => []HoldInv
<1>1. Init => HoldInv
  BY DEF Init, NoFlags, HoldInv
<1>2. TypeInv /\ HoldInv /\ [Next]_vars => HoldInv'
  BY NextHold
<1>3. Spec => []TypeInv
  BY EngineTypes, PTL DEF TypeInv
<1>4. QED
  BY <1>1, <1>2, <1>3, PTL DEF Spec

(* On every feed, an open hold last turned less than CLOSE_AFTER_S before  *)
(* the newest sample.                                                      *)
THEOREM OpenHoldAlwaysRecent == Spec => []OpenHoldIsRecent
<1>1. HoldInv => OpenHoldIsRecent
  BY DEF HoldInv, OpenHoldIsRecent
<1>2. QED
  BY <1>1, HoldAlways, PTL

(* On every feed, whatever closes a hold reports it: a sample, a gap reset *)
(* or the state timeout.                                                   *)
THEOREM ClosedHoldAlwaysReported == Spec => ClosedHoldIsReported
<1>1. TypeInv /\ HoldInv /\ [Next]_vars =>
        [flags.hold # Null /\ flags'.hold = Null =>
           \E h \in Holdings' : h.event.window_start = flags.hold.start]_vars
  BY NextHold
<1>2. Spec => []TypeInv
  BY EngineTypes, PTL DEF TypeInv
<1>3. QED
  BY <1>1, <1>2, HoldAlways, PTL DEF Spec, ClosedHoldIsReported

=============================================================================
